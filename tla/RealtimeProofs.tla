---- MODULE RealtimeProofs ----
(***************************************************************************)
(* Proofs about Realtime, for every set of streams, whatever they listen   *)
(* to, every set of votes and of other events, and any number of restarts  *)
(* and lost replies.                                                       *)
(***************************************************************************)
EXTENDS Realtime, DataInduction

-----------------------------------------------------------------------------
(* The registry of subscribers.                                            *)

Open == {s \in Streams : stream[s] = "open"}

StreamsOK ==
    /\ stream \in [Streams -> {"new", "open", "ended"}]
    /\ RegistryFollowsStreams

\* What the map holds for a channel, whether it is an entry or not.
LEMMA Subscribers ==
    ASSUME StreamsOK, NEW k
    PROVE  /\ SubscribersOf(k) = {s \in Open : k \in Keys(s)}
           /\ k \in DOMAIN registry <=> \E s \in Open : k \in Keys(s)
BY DEF StreamsOK, RegistryFollowsStreams, SubscribersOf, Open

LEMMA SubscribeKeeps ==
    ASSUME StreamsOK, NEW s \in Streams, Subscribe(s) PROVE StreamsOK'
<1>1. /\ stream' \in [Streams -> {"new", "open", "ended"}]
      /\ Open' = Open \cup {s}
  BY DEF StreamsOK, Subscribe, Open
<1>2. heartbeat' = Open'
  BY <1>1 DEF StreamsOK, RegistryFollowsStreams, Subscribe, Open
<1>3. registry' = [k \in DOMAIN registry \cup Keys(s) |->
                     IF k \in Keys(s) THEN SubscribersOf(k) \cup {s} ELSE registry[k]]
  BY DEF Subscribe
<1>4. DOMAIN registry \cup Keys(s) = UNION {Keys(x) : x \in Open'}
  <2>1. DOMAIN registry = UNION {Keys(x) : x \in Open}
    BY DEF StreamsOK, RegistryFollowsStreams, Open
  <2> QED
    BY <1>1, <2>1
<1>5. ASSUME NEW k \in DOMAIN registry \cup Keys(s)
      PROVE  (IF k \in Keys(s) THEN SubscribersOf(k) \cup {s} ELSE registry[k])
                = {x \in Open' : k \in Keys(x)}
  BY <1>1, <1>5, Subscribers DEF SubscribersOf
<1>6. registry' = [k \in UNION {Keys(x) : x \in Open'} |-> {x \in Open' : k \in Keys(x)}]
  BY <1>3, <1>4, <1>5
<1> QED
  BY <1>1, <1>2, <1>6 DEF StreamsOK, RegistryFollowsStreams, Open, Keys, Key, ListensTo

LEMMA UnsubscribeKeeps ==
    ASSUME StreamsOK, NEW s \in Streams, Unsubscribe(s) PROVE StreamsOK'
<1> DEFINE left(k) == IF k \in LeavesChannels(s) THEN registry[k] \ {s} ELSE registry[k]
           stay == {k \in DOMAIN registry : left(k) # {}}
<1>1. /\ stream' \in [Streams -> {"new", "open", "ended"}]
      /\ Open' = Open \ {s} /\ s \in Open
  BY DEF StreamsOK, Unsubscribe, Open
<1>2. heartbeat' = Open'
  BY <1>1 DEF StreamsOK, RegistryFollowsStreams, Unsubscribe, Open
<1>3. registry' = [k \in stay |-> left(k)]
  BY DEF Unsubscribe, Without
<1>4. \A k \in DOMAIN registry : left(k) = {x \in Open' : k \in Keys(x)}
  BY <1>1, Subscribers DEF SubscribersOf, LeavesChannels
<1>5. stay = UNION {Keys(x) : x \in Open'}
  BY <1>1, <1>4, Subscribers
<1> HIDE DEF left, stay
<1>6. registry' = [k \in UNION {Keys(x) : x \in Open'} |-> {x \in Open' : k \in Keys(x)}]
  <2>1. stay \subseteq DOMAIN registry
    BY DEF stay
  <2> QED
    BY <1>3, <1>4, <1>5, <2>1
<1> QED
  BY <1>1, <1>2, <1>6 DEF StreamsOK, RegistryFollowsStreams, Open, Keys, Key, ListensTo

LEMMA Nobody == ASSUME NEW f PROVE <<>> = [k \in {} |-> f[k]]
OBVIOUS

LEMMA RestartKeeps ==
    ASSUME StreamsOK, GatewayRestarts PROVE StreamsOK'
<1>1. /\ stream' \in [Streams -> {"new", "open", "ended"}]
      /\ Open' = {}
  BY DEF StreamsOK, GatewayRestarts, Open
<1>2. heartbeat' = {} /\ registry' = <<>>
  BY DEF GatewayRestarts
<1>3. UNION {Keys(x) : x \in Open'} = {}
  BY <1>1
<1>4. registry' = [k \in UNION {Keys(x) : x \in Open'} |-> {x \in Open' : k \in Keys(x)}]
  BY <1>2, <1>3
<1> QED
  BY <1>1, <1>2, <1>4 DEF StreamsOK, RegistryFollowsStreams, Open, Keys, Key, ListensTo

LEMMA InitStreams == ASSUME Init PROVE StreamsOK
<1>1. Open = {} /\ stream \in [Streams -> {"new", "open", "ended"}]
  BY DEF Init, Open
<1>2. UNION {Keys(x) : x \in Open} = {}
  BY <1>1
<1>3. registry = [k \in UNION {Keys(x) : x \in Open} |-> {x \in Open : k \in Keys(x)}]
  BY <1>2 DEF Init
<1> QED
  BY <1>1, <1>3 DEF Init, StreamsOK, RegistryFollowsStreams, Open

LEMMA NextStreams == ASSUME StreamsOK, [Next]_vars PROVE StreamsOK'
<1>1. CASE UNCHANGED <<registry, stream, heartbeat>>
  BY <1>1 DEF StreamsOK, RegistryFollowsStreams, Keys, Key, ListensTo
<1> QED
  BY <1>1, SubscribeKeeps, UnsubscribeKeeps, RestartKeeps
  DEF Next, vars, streams, Beat, PublishHook, SendVote, ScoringStores, ScoringRefuses,
      AnnounceVote, ReplyLost, Quiescent

\* However streams of the same user, room or debate come and go, and the gateway
\* restarts, the map and the heartbeats are exactly those of the open streams.
THEOREM RegistryStaysTrue == Safety => []RegistryFollowsStreams
<1>1. StreamsOK => RegistryFollowsStreams
  BY DEF StreamsOK
<1> QED
  BY <1>1, InitStreams, NextStreams, PTL DEF Safety

-----------------------------------------------------------------------------
(* Announcing a vote.                                                      *)

Labels == {"unsent", "scoring", "reply", "done", "failed"}
Events == Hooks \cup {VoteCreated(v) : v \in Votes}
Same(v, w) == v.debate = w.debate /\ v.user = w.user

\* The call that stored a ballot is the only one of its voter that will ever be
\* announced, and has announced it exactly when it is done.
VoteInv ==
    /\ votes \subseteq Votes
    /\ pc \in [Calls -> Labels]
    /\ published \in Seq(Events)
    /\ \A t \in Calls : pc[t] \in {"reply", "done"} => Ballot[t] \in votes
    /\ \A t, u \in Calls :
         /\ pc[t] \in {"reply", "done"} /\ pc[u] \in {"reply", "done"}
         /\ Same(Ballot[t], Ballot[u])
         => t = u
    /\ \A v \in Votes : \A i, j \in Announced(v) : i = j
    /\ \A v \in Votes : Announced(v) # {}
         => \E t \in Calls : pc[t] = "done" /\ Same(Ballot[t], v)
    /\ \A t \in Calls : pc[t] = "done" => Announced(Ballot[t]) # {}

LEMMA InitVote == ASSUME Init PROVE VoteInv
BY DEF Init, VoteInv, Announced, Labels

\* Calls that neither store nor announce.
LEMMA KeepVotes ==
    ASSUME VoteInv, votes' = votes, published' = published,
           pc' \in [Calls -> Labels],
           \A t \in Calls : \/ pc'[t] = pc[t]
                            \/ pc[t] # "done" /\ pc'[t] \notin {"reply", "done"}
    PROVE  VoteInv'
BY DEF VoteInv, Announced

LEMMA HookKeeps ==
    ASSUME VoteInv, NEW e \in Hooks, PublishHook(e) PROVE VoteInv'
<1>1. published' = Append(published, e) /\ UNCHANGED <<votes, pc>>
  BY DEF PublishHook, Publish
<1>2. e \in Events /\ published \in Seq(Events)
  BY DEF VoteInv, Events
<1>3. \A v \in Votes : e # VoteCreated(v)
  <2>1. e.type \in HookEvents
    BY ConstantsAssumption
  <2> QED
    BY <2>1 DEF VoteCreated, HookEvents, RoomEvents
<1>4. published' \in Seq(Events)
  BY <1>1, <1>2
<1>5. \A v \in Votes : Announced(v)' = Announced(v)
  BY <1>1, <1>2, <1>3 DEF Announced
<1> QED
  BY <1>1, <1>4, <1>5, ConstantsAssumption DEF VoteInv

LEMMA StoreKeeps ==
    ASSUME VoteInv, NEW t \in Calls, ScoringStores(t) PROVE VoteInv'
<1>1. /\ votes' = votes \cup {Ballot[t]} /\ published' = published
      /\ pc[t] = "scoring" /\ ~HasVoted(Ballot[t])
      /\ pc' \in [Calls -> Labels]
      /\ \A u \in Calls : pc'[u] = IF u = t THEN "reply" ELSE pc[u]
  BY DEF ScoringStores, Goto, streams, VoteInv, Labels
<1>2. \A u \in Calls : pc[u] \in {"reply", "done"} => ~Same(Ballot[u], Ballot[t])
  BY <1>1 DEF VoteInv, HasVoted, Same
<1>3. \A v : Announced(v)' = Announced(v)
  BY <1>1 DEF Announced
<1>4. \A u, w \in Calls :
         pc'[u] \in {"reply", "done"} /\ pc'[w] \in {"reply", "done"}
            /\ Same(Ballot[u], Ballot[w]) => u = w
  BY <1>1, <1>2 DEF VoteInv, Same
<1> QED
  BY <1>1, <1>3, <1>4, ConstantsAssumption DEF VoteInv

LEMMA AnnounceKeeps ==
    ASSUME VoteInv, NEW t \in Calls, AnnounceVote(t) PROVE VoteInv'
<1> DEFINE e == VoteCreated(Ballot[t])
<1>1. /\ votes' = votes /\ published' = Append(published, e)
      /\ pc[t] = "reply"
      /\ pc' \in [Calls -> Labels]
      /\ \A u \in Calls : pc'[u] = IF u = t THEN "done" ELSE pc[u]
  BY DEF AnnounceVote, Publish, Goto, VoteInv, Labels
<1>2. Ballot[t] \in Votes /\ e \in Events /\ published \in Seq(Events)
  BY ConstantsAssumption DEF VoteInv, Events
<1>3. published' \in Seq(Events) /\ Len(published) \in Nat
  BY <1>1, <1>2
<1>4. \A v \in Votes : e = VoteCreated(v) <=> Same(Ballot[t], v)
  BY DEF VoteCreated, Same
<1> HIDE DEF e
<1>5. ASSUME NEW v \in Votes
      PROVE  Announced(v)' = Announced(v) \cup
                 (IF Same(Ballot[t], v) THEN {Len(published) + 1} ELSE {})
  BY <1>1, <1>2, <1>3, <1>4 DEF Announced
<1>6. ASSUME NEW v \in Votes, Same(Ballot[t], v) PROVE Announced(v) = {}
  BY <1>1, <1>6 DEF VoteInv, Same
<1>7. \A v \in Votes : \A i, j \in Announced(v)' : i = j
  BY <1>5, <1>6 DEF VoteInv
<1>8. \A v \in Votes : Announced(v)' # {}
         => \E u \in Calls : pc'[u] = "done" /\ Same(Ballot[u], v)
  BY <1>1, <1>5 DEF VoteInv
<1>9. \A u \in Calls : pc'[u] = "done" => Announced(Ballot[u])' # {}
  <2>1. \A u \in Calls : Ballot[u] \in Votes
    BY ConstantsAssumption
  <2> QED
    BY <1>1, <1>5, <2>1 DEF VoteInv, Same
<1> QED
  BY <1>1, <1>3, <1>7, <1>8, <1>9, ConstantsAssumption DEF VoteInv

LEMMA NextVote == ASSUME VoteInv, [Next]_vars PROVE VoteInv'
<1>1. CASE UNCHANGED <<votes, pc, published>>
  BY <1>1, KeepVotes DEF VoteInv
<1>2. ASSUME NEW t \in Calls, SendVote(t) \/ ScoringRefuses(t) \/ ReplyLost(t)
      PROVE  VoteInv'
  <2>1. PICK label \in {"scoring", "failed"} : Goto(t, label)
    BY <1>2 DEF SendVote, ScoringRefuses, AfterRefusal, ReplyLost
  <2>2. pc[t] # "done" /\ UNCHANGED <<votes, published>>
    BY <1>2 DEF SendVote, ScoringRefuses, ReplyLost
  <2> QED
    BY <2>1, <2>2, KeepVotes DEF Goto, VoteInv, Labels
<1>3. CASE GatewayRestarts
  BY <1>3, KeepVotes DEF GatewayRestarts, VoteInv, Labels
<1> QED
  BY <1>1, <1>2, <1>3, HookKeeps, StoreKeeps, AnnounceKeeps
  DEF Next, vars, streams, Subscribe, Beat, Unsubscribe, Quiescent

\* Retries, lost replies and restarts: a ballot is announced once at most, only
\* if it is stored, and before its voter is told.
THEOREM VotesAnnouncedOnce == Safety => []AnnouncedOnce
<1>1. VoteInv => AnnouncedOnce
  <2> SUFFICES ASSUME VoteInv PROVE AnnouncedOnce
    OBVIOUS
  <2>1. ASSUME NEW v \in Votes PROVE Cardinality(Announced(v)) <= 1
    <3>1. CASE Announced(v) = {}
      BY <3>1, FS_EmptySet
    <3>2. CASE Announced(v) # {}
      <4>1. PICK i : i \in Announced(v)
        BY <3>2
      <4>2. Announced(v) = {i}
        BY <4>1 DEF VoteInv
      <4>3. Cardinality({i}) = 1
        BY FS_Singleton
      <4> QED
        BY <4>2, <4>3
    <3> QED
      BY <3>1, <3>2
  <2>2. \A v \in Votes : Announced(v) # {} => HasVoted(v)
    BY DEF VoteInv, HasVoted, Same
  <2>3. \A t \in Calls : pc[t] = "done" => Ballot[t] \in votes /\ Announced(Ballot[t]) # {}
    BY DEF VoteInv
  <2> QED
    BY <2>1, <2>2, <2>3 DEF AnnouncedOnce
<1> QED
  BY <1>1, InitVote, NextVote, PTL DEF Safety

-----------------------------------------------------------------------------
(* Selected, by induction on the length of a sequence.                     *)

\* What the recursive function of Selected says of its value at i.
SelectStep(g, seq, I, i) ==
    IF i = 0 THEN <<>>
    ELSE IF i \in I THEN Append(g[i - 1], seq[i]) ELSE g[i - 1]
Selection(seq, I, n) == CHOOSE g : g = [i \in 0..n |-> SelectStep(g, seq, I, i)]

LEMMA SelectedIs ==
    ASSUME NEW seq, NEW I PROVE Selected(seq, I) = Selection(seq, I, Len(seq))[Len(seq)]
BY DEF Selected, Selection, SelectStep

LEMMA SelectionExists ==
    ASSUME NEW seq, NEW I, NEW n \in Nat
    PROVE  Selection(seq, I, n) = [i \in 0..n |-> SelectStep(Selection(seq, I, n), seq, I, i)]
<1> DEFINE P == {m \in Nat : \E g : g = [i \in 0..m |-> SelectStep(g, seq, I, i)]}
<1>1. 0 \in P
  <2> DEFINE g == [i \in 0..0 |-> <<>>]
  <2>1. \A i \in 0..0 : SelectStep(g, seq, I, i) = <<>>
    BY DEF SelectStep
  <2>2. g = [i \in 0..0 |-> SelectStep(g, seq, I, i)]
    BY <2>1
  <2> HIDE DEF g
  <2> QED
    BY <2>2
<1>2. ASSUME NEW m \in Nat, m \in P PROVE m + 1 \in P
  <2>1. PICK g : g = [i \in 0..m |-> SelectStep(g, seq, I, i)]
    BY <1>2
  <2> DEFINE h == [i \in 0..(m + 1) |-> SelectStep(g, seq, I, i)]
  <2>2. \A i \in 0..m : h[i] = g[i]
    <3>1. \A i \in 0..m : g[i] = SelectStep(g, seq, I, i)
      BY <2>1, Zenon
    <3> QED
      BY <3>1
  <2>3. \A i \in 0..(m + 1) : SelectStep(h, seq, I, i) = SelectStep(g, seq, I, i)
    <3> HIDE DEF h
    <3> SUFFICES ASSUME NEW i \in 0..(m + 1), i # 0 PROVE h[i - 1] = g[i - 1]
      BY DEF SelectStep
    <3> QED
      BY <2>2
  <2>4. h = [i \in 0..(m + 1) |-> SelectStep(h, seq, I, i)]
    BY <2>3
  <2> HIDE DEF h
  <2> QED
    BY <2>4
<1> HIDE DEF P
<1>3. n \in P
  BY <1>1, <1>2, NaturalsFromZero
<1>4. \E g : g = [i \in 0..n |-> SelectStep(g, seq, I, i)]
  BY <1>3 DEF P
<1> QED
  BY <1>4, Zenon DEF Selection

LEMMA SelectionSteps ==
    ASSUME NEW seq, NEW I, NEW n \in Nat
    PROVE  \A i \in 0..n : Selection(seq, I, n)[i] = SelectStep(Selection(seq, I, n), seq, I, i)
<1>1. PICK g : g = Selection(seq, I, n)
  OBVIOUS
<1>2. g = [i \in 0..n |-> SelectStep(g, seq, I, i)]
  BY <1>1, SelectionExists
<1>3. \A i \in 0..n : g[i] = SelectStep(g, seq, I, i)
  BY <1>2, Zenon
<1> QED
  BY <1>1, <1>3

\* What is selected among the first elements depends on nothing else.
LEMMA SelectionAgrees ==
    ASSUME NEW seq, NEW I, NEW n \in Nat, NEW other, NEW J, NEW m \in Nat,
           NEW k \in Nat, k <= n, k <= m
    PROVE  (\A i \in 1..k : other[i] = seq[i] /\ (i \in J <=> i \in I))
             => Selection(other, J, m)[k] = Selection(seq, I, n)[k]
<1>0. SUFFICES ASSUME \A i \in 1..k : other[i] = seq[i] /\ (i \in J <=> i \in I)
               PROVE  Selection(other, J, m)[k] = Selection(seq, I, n)[k]
  OBVIOUS
<1> DEFINE g == Selection(seq, I, n)
           h == Selection(other, J, m)
           P == {i \in Nat : i <= k => h[i] = g[i]}
<1>1. /\ \A i \in 0..n : g[i] = SelectStep(g, seq, I, i)
      /\ \A i \in 0..m : h[i] = SelectStep(h, other, J, i)
  BY SelectionSteps
<1> HIDE DEF g, h
<1>2. 0 \in P
  BY <1>1 DEF SelectStep
<1>3. ASSUME NEW i \in Nat, i \in P PROVE i + 1 \in P
  <2> SUFFICES ASSUME i + 1 <= k PROVE h[i + 1] = g[i + 1]
    OBVIOUS
  <2>1. h[i] = g[i]
    BY <1>3
  <2>2. /\ i + 1 \in 0..n /\ i + 1 \in 0..m /\ i + 1 \in 1..k /\ i + 1 # 0
        /\ (i + 1) - 1 = i
    OBVIOUS
  <2>3. /\ g[i + 1] = IF i + 1 \in I THEN Append(g[i], seq[i + 1]) ELSE g[i]
        /\ h[i + 1] = IF i + 1 \in J THEN Append(h[i], other[i + 1]) ELSE h[i]
    BY <1>1, <2>2 DEF SelectStep
  <2> QED
    BY <1>0, <2>1, <2>2, <2>3
<1> HIDE DEF P
<1>4. k \in P
  BY <1>2, <1>3, NaturalsFromZero
<1> QED
  BY <1>4 DEF P, g, h

\* One more element, which may be selected or not.
LEMMA SelectedAppend ==
    ASSUME NEW S, NEW seq \in Seq(S), NEW e \in S, NEW I, NEW J
    PROVE  (\A i \in 1..Len(seq) : i \in J <=> i \in I)
             => Selected(Append(seq, e), J) =
                  IF Len(seq) + 1 \in J THEN Append(Selected(seq, I), e) ELSE Selected(seq, I)
<1>0. SUFFICES ASSUME \A i \in 1..Len(seq) : i \in J <=> i \in I
               PROVE  Selected(Append(seq, e), J) =
                  IF Len(seq) + 1 \in J THEN Append(Selected(seq, I), e) ELSE Selected(seq, I)
  OBVIOUS
<1>1. PICK n \in Nat : n = Len(seq)
  OBVIOUS
<1>l. PICK long : long = Append(seq, e)
  OBVIOUS
<1>2. Len(long) = n + 1 /\ long[n + 1] = e /\ \A i \in 1..n : long[i] = seq[i]
  BY <1>1, <1>l
<1>3. Selection(long, J, n + 1)[n] = Selection(seq, I, n)[n]
  BY <1>0, <1>1, <1>2, SelectionAgrees
<1>4. Selection(long, J, n + 1)[n + 1] = SelectStep(Selection(long, J, n + 1), long, J, n + 1)
  <2>1. PICK N \in Nat : N = n + 1
    OBVIOUS
  <2>2. \A i \in 0..N : Selection(long, J, N)[i] = SelectStep(Selection(long, J, N), long, J, i)
    BY SelectionSteps
  <2> QED
    BY <2>1, <2>2
<1>5. Selected(long, J) = Selection(long, J, n + 1)[n + 1] /\ Selected(seq, I) = Selection(seq, I, n)[n]
  BY <1>1, <1>2, SelectedIs
<1>6. n + 1 # 0 /\ (n + 1) - 1 = n
  OBVIOUS
<1> QED
  BY <1>1, <1>l, <1>2, <1>3, <1>4, <1>5, <1>6 DEF SelectStep

LEMMA SelectedNone ==
    ASSUME NEW S, NEW seq \in Seq(S), NEW I
    PROVE  (\A i \in 1..Len(seq) : i \notin I) => Selected(seq, I) = <<>>
<1>0. SUFFICES ASSUME \A i \in 1..Len(seq) : i \notin I PROVE Selected(seq, I) = <<>>
  OBVIOUS
<1>1. PICK n \in Nat : n = Len(seq)
  OBVIOUS
<1> DEFINE g == Selection(seq, I, n)
           P == {i \in Nat : i <= n => g[i] = <<>>}
<1>2. \A i \in 0..n : g[i] = SelectStep(g, seq, I, i)
  BY SelectionSteps
<1> HIDE DEF g
<1>3. 0 \in P
  BY <1>2 DEF SelectStep
<1>4. ASSUME NEW i \in Nat, i \in P PROVE i + 1 \in P
  <2> SUFFICES ASSUME i + 1 <= n PROVE g[i + 1] = <<>>
    OBVIOUS
  <2>1. i + 1 \in 0..n /\ i + 1 # 0 /\ (i + 1) - 1 = i /\ i + 1 \notin I
    BY <1>0, <1>1
  <2> QED
    BY <1>2, <1>4, <2>1 DEF SelectStep
<1> HIDE DEF P
<1>5. n \in P
  BY <1>3, <1>4, NaturalsFromZero
<1> QED
  BY <1>1, <1>5, SelectedIs DEF P, g

-----------------------------------------------------------------------------
(* What a stream is sent.                                                  *)

Messages == Events \cup {Connected, Ping}

\* Only open streams are subscribed.
LEMMA CopiesCount ==
    ASSUME StreamsOK, NEW s \in Streams, NEW channels
    PROVE  Copies(s, channels) =
             IF stream[s] = "open" /\ channels \cap ListensTo(s) # {} THEN 1 ELSE 0
<1>1. Keys(s) = ListensTo(s)
  BY DEF Keys, Key
<1>2. \A c : s \in SubscribersOf(c) <=> stream[s] = "open" /\ c \in ListensTo(s)
  BY <1>1, Subscribers DEF Open
<1>3. (\E c \in channels : s \in SubscribersOf(Key(c)))
         <=> stream[s] = "open" /\ channels \cap ListensTo(s) # {}
  BY <1>2 DEF Key
<1> QED
  BY <1>3 DEF Copies

LEMMA FlattenOne == ASSUME NEW a PROVE FlattenSeq(<<a>>) = a
<1> DEFINE flat == CHOOSE f : f = [i \in 1..1 |-> IF i = 1 THEN <<a>>[i] ELSE f[i - 1] \o <<a>>[i]]
<1>1. FlattenSeq(<<a>>) = flat[1]
  BY DEF FlattenSeq
<1>2. flat = [i \in 1..1 |-> IF i = 1 THEN <<a>>[i] ELSE flat[i - 1] \o <<a>>[i]]
  <2> DEFINE f == [i \in 1..1 |-> a]
  <2>1. f = [i \in 1..1 |-> IF i = 1 THEN <<a>>[i] ELSE f[i - 1] \o <<a>>[i]]
    OBVIOUS
  <2> HIDE DEF f
  <2> QED
    BY <2>1
<1> HIDE DEF flat
<1>3. flat[1] = a
  BY <1>2
<1> QED
  BY <1>1, <1>3

LEMMA FlattenTwo == ASSUME NEW a, NEW b PROVE FlattenSeq(<<a, b>>) = a \o b
<1> DEFINE step(f, i) == IF i = 1 THEN <<a, b>>[i] ELSE f[i - 1] \o <<a, b>>[i]
           flat == CHOOSE f : f = [i \in 1..2 |-> step(f, i)]
<1>0. /\ \A f : step(f, 1) = a /\ step(f, 2) = f[1] \o b
      /\ 1..2 = {1, 2}
  <2>1. 2 - 1 = 1 /\ 2 # 1 /\ <<a, b>>[1] = a /\ <<a, b>>[2] = b
    OBVIOUS
  <2> QED
    BY <2>1
<1>1. FlattenSeq(<<a, b>>) = flat[2]
  BY DEF FlattenSeq
<1> HIDE DEF step
<1>2. flat = [i \in 1..2 |-> step(flat, i)]
  <2> DEFINE f == [i \in 1..2 |-> IF i = 1 THEN a ELSE a \o b]
  <2>1. f[1] = a /\ f[2] = a \o b
    OBVIOUS
  <2>2. f = [i \in 1..2 |-> f[i]]
    OBVIOUS
  <2> HIDE DEF f
  <2>3. \A i \in 1..2 : f[i] = step(f, i)
    BY <1>0, <2>1
  <2>4. f = [i \in 1..2 |-> step(f, i)]
    BY <2>2, <2>3
  <2> QED
    BY <2>4
<1> HIDE DEF flat
<1>3. flat[1] = step(flat, 1) /\ flat[2] = step(flat, 2)
  BY <1>2
<1> QED
  BY <1>0, <1>1, <1>3

\* No stream listens to the two sets of channels of an event that has two.
LEMMA OneDelivery ==
    ASSUME NEW e, e.type \in HookEvents \cup {"vote.created"}
    PROVE  \/ \E a : Deliveries(e) = <<a>>
           \/ \E a, b : /\ Deliveries(e) = <<a, b>>
                        /\ \A s \in Streams : a \cap ListensTo(s) = {} \/ b \cap ListensTo(s) = {}
<1>1. CASE e.type = "debate.started"
  <2>1. Deliveries(e) = StartDeliveries(e)
    BY <1>1 DEF Deliveries, RoomEvents, VoteEvents
  <2>2. ASSUME NEW s \in Streams
        PROVE  \/ Known("room", e.room) \cap ListensTo(s) = {}
               \/ Known("debate", e.debate) \cap ListensTo(s) = {}
    BY DEF Known, ListensTo, Channel
  <2>3. CASE e.debate = None
    BY <2>1, <2>3 DEF StartDeliveries
  <2>4. CASE e.debate # None
    <3>1. Deliveries(e) = <<Known("room", e.room), Known("debate", e.debate)>>
      BY <2>1, <2>4 DEF StartDeliveries
    <3> QED
      BY <2>2, <3>1
  <2> QED
    BY <2>3, <2>4
<1>2. CASE e.type \in RoomEvents
  <2>1. Deliveries(e) = RoomDeliveries(e)
    BY <1>2 DEF Deliveries, RoomEvents, VoteEvents
  <2> QED
    BY <2>1 DEF RoomDeliveries
<1>3. CASE e.type \in VoteEvents
  <2>1. Deliveries(e) = VoteDeliveries(e)
    BY <1>3 DEF Deliveries, RoomEvents, VoteEvents
  <2> QED
    BY <2>1 DEF VoteDeliveries
<1>4. CASE e.type = "result.published"
  <2>1. Deliveries(e) = ResultDeliveries(e)
    BY <1>4 DEF Deliveries, RoomEvents, VoteEvents
  <2> QED
    BY <2>1 DEF ResultDeliveries
<1>5. CASE e.type = "leaderboard.updated"
  <2>1. Deliveries(e) = LeaderboardDeliveries(e)
    BY <1>5 DEF Deliveries, RoomEvents, VoteEvents
  <2> QED
    BY <2>1 DEF LeaderboardDeliveries
<1> QED
  BY <1>1, <1>2, <1>3, <1>4, <1>5 DEF HookEvents, VoteEvents

\* An open stream that an event concerns is sent it once.
LEMMA SentOnce ==
    ASSUME StreamsOK, NEW s \in Streams, NEW e, e.type \in HookEvents \cup {"vote.created"}
    PROVE  Sent(s, e) = IF stream[s] = "open" /\ Concerns(e, s) THEN <<e>> ELSE <<>>
<1> DEFINE copy(a) == [n \in 1..Copies(s, a) |-> e]
           hears(a) == stream[s] = "open" /\ a \cap ListensTo(s) # {}
<1>1. \A a : copy(a) = IF hears(a) THEN <<e>> ELSE <<>>
  <2> SUFFICES ASSUME NEW a PROVE copy(a) = IF hears(a) THEN <<e>> ELSE <<>>
    OBVIOUS
  <2>1. Copies(s, a) = IF hears(a) THEN 1 ELSE 0
    BY CopiesCount
  <2>2. [n \in 1..1 |-> e] = <<e>> /\ [n \in 1..0 |-> e] = <<>>
    OBVIOUS
  <2> HIDE DEF hears
  <2> QED
    BY <2>1, <2>2
<1>2. Sent(s, e) = FlattenSeq([i \in DOMAIN Deliveries(e) |-> copy(Deliveries(e)[i])])
  BY DEF Sent
<1>3. CASE \E a : Deliveries(e) = <<a>>
  <2>1. PICK a : Deliveries(e) = <<a>>
    BY <1>3
  <2>2. Concerns(e, s) <=> a \cap ListensTo(s) # {}
    BY <2>1 DEF Concerns
  <2>3. [i \in DOMAIN Deliveries(e) |-> copy(Deliveries(e)[i])] = <<copy(a)>>
    <3> HIDE DEF copy
    <3> QED
      BY <2>1
  <2> HIDE DEF copy
  <2>4. Sent(s, e) = copy(a)
    BY <1>2, <2>3, FlattenOne
  <2> QED
    BY <1>1, <2>2, <2>4
<1>4. CASE \E a, b : /\ Deliveries(e) = <<a, b>>
                     /\ \A x \in Streams : a \cap ListensTo(x) = {} \/ b \cap ListensTo(x) = {}
  <2>1. PICK a, b : /\ Deliveries(e) = <<a, b>>
                    /\ \A x \in Streams : a \cap ListensTo(x) = {} \/ b \cap ListensTo(x) = {}
    BY <1>4
  <2>2. Concerns(e, s) <=> a \cap ListensTo(s) # {} \/ b \cap ListensTo(s) # {}
    BY <2>1 DEF Concerns
  <2>3. [i \in DOMAIN Deliveries(e) |-> copy(Deliveries(e)[i])] = <<copy(a), copy(b)>>
    <3> HIDE DEF copy
    <3> QED
      BY <2>1
  <2> HIDE DEF copy
  <2>4. Sent(s, e) = copy(a) \o copy(b)
    BY <1>2, <2>3, FlattenTwo
  <2>5. ~hears(a) \/ ~hears(b)
    BY <2>1
  <2>6. <<e>> \o <<>> = <<e>> /\ <<>> \o <<e>> = <<e>> /\ <<>> \o <<>> = <<>>
    OBVIOUS
  <2>7. stream[s] = "open" /\ Concerns(e, s) <=> hears(a) \/ hears(b)
    BY <2>2
  <2> HIDE DEF hears
  <2> QED
    BY <1>1, <2>4, <2>5, <2>6, <2>7
<1> QED
  BY <1>3, <1>4, OneDelivery

\* A stream that is not open yet has been sent nothing.
LogInv ==
    /\ inbox \in [Streams -> Seq(Messages)]
    /\ joined \in [Streams -> Nat]
    /\ \A s \in Streams : joined[s] <= Len(published)
    /\ \A s \in Streams : stream[s] = "new" => inbox[s] = <<>>
    /\ StreamFollowsLog

LEMMA EventTypes ==
    ASSUME NEW e \in Events PROVE e.type \in HookEvents \cup {"vote.created"}
BY ConstantsAssumption DEF Events, VoteCreated

LEMMA NewsKnown ==
    ASSUME NEW e \in Events PROVE e.type \notin {"realtime.connected", "realtime.ping"}
<1>1. e.type \in HookEvents \cup {"vote.created"}
  BY EventTypes
<1> QED
  BY <1>1 DEF HookEvents, RoomEvents

News(m) == m.type \notin {"realtime.connected", "realtime.ping"}

\* A stream hears one message more, and remembers what it has heard.
LEMMA HearsNext ==
    ASSUME inbox \in [Streams -> Seq(Messages)], NEW s \in Streams, NEW m \in Messages,
           inbox' \in [Streams -> Seq(Messages)], inbox'[s] = Append(inbox[s], m)
    PROVE  Selected(inbox'[s], Heard(s)') =
             IF News(m) THEN Append(Selected(inbox[s], Heard(s)), m) ELSE Selected(inbox[s], Heard(s))
<1>1. PICK seq \in Seq(Messages) : seq = inbox[s]
  OBVIOUS
<1>2. PICK I, J : I = Heard(s) /\ J = Heard(s)'
  OBVIOUS
<1>3. I = {i \in DOMAIN seq : News(seq[i])}
  BY <1>1, <1>2 DEF Heard, News
<1>4. J = {i \in DOMAIN Append(seq, m) : News(Append(seq, m)[i])}
  BY <1>1, <1>2 DEF Heard, News
<1>5. /\ \A i \in 1..Len(seq) : i \in J <=> i \in I
      /\ Len(seq) + 1 \in J <=> News(m)
  BY <1>3, <1>4
<1>6. Selected(Append(seq, m), J) =
        IF Len(seq) + 1 \in J THEN Append(Selected(seq, I), m) ELSE Selected(seq, I)
  BY <1>5, SelectedAppend
<1> QED
  BY <1>1, <1>2, <1>5, <1>6

\* The log grows by an event that concerns a stream or does not.
LEMMA DueNext ==
    ASSUME published \in Seq(Events), NEW s \in Streams, NEW e \in Events,
           published' = Append(published, e), joined' = joined, joined[s] \in Nat,
           joined[s] <= Len(published)
    PROVE  Selected(published', Due(s)') =
             IF Concerns(e, s) THEN Append(Selected(published, Due(s)), e)
             ELSE Selected(published, Due(s))
<1>1. PICK seq \in Seq(Events) : seq = published
  OBVIOUS
<1>2. PICK I, J : I = Due(s) /\ J = Due(s)'
  OBVIOUS
<1>3. PICK k \in Nat : k = joined[s] /\ k <= Len(seq)
  BY <1>1
<1>4. I = {i \in DOMAIN seq : i > k /\ Concerns(seq[i], s)}
  BY <1>1, <1>2, <1>3 DEF Due
<1>5. J = {i \in DOMAIN Append(seq, e) : i > k /\ Concerns(Append(seq, e)[i], s)}
  BY <1>1, <1>2, <1>3 DEF Due, Concerns, Deliveries
<1>6. /\ \A i \in 1..Len(seq) : i \in J <=> i \in I
      /\ Len(seq) + 1 \in J <=> Concerns(e, s)
  <2>1. PICK long : long = Append(seq, e)
    OBVIOUS
  <2>2. /\ DOMAIN seq = 1..Len(seq) /\ Len(seq) \in Nat
        /\ DOMAIN long = 1..(Len(seq) + 1) /\ long[Len(seq) + 1] = e
        /\ \A i \in 1..Len(seq) : long[i] = seq[i]
    BY <2>1
  <2>3. \A i : i \in J <=> i \in DOMAIN long /\ i > k /\ Concerns(long[i], s)
    BY <1>5, <2>1
  <2>4. Len(seq) + 1 \in J <=> Concerns(e, s)
    BY <1>3, <2>2, <2>3
  <2>5. \A i \in 1..Len(seq) : i \in J <=> i \in I
    BY <1>4, <2>2, <2>3
  <2> QED
    BY <2>4, <2>5
<1>7. Selected(Append(seq, e), J) =
        IF Len(seq) + 1 \in J THEN Append(Selected(seq, I), e) ELSE Selected(seq, I)
  BY <1>6, SelectedAppend
<1> QED
  BY <1>1, <1>2, <1>6, <1>7

LEMMA PublishLogs ==
    ASSUME StreamsOK, LogInv, published \in Seq(Events), NEW e \in Events, Publish(e),
           UNCHANGED <<stream, joined>>
    PROVE  LogInv'
<1>1. inbox' = [s \in Streams |-> inbox[s] \o Sent(s, e)] /\ published' = Append(published, e)
  BY DEF Publish
<1>2. \A s \in Streams :
          Sent(s, e) = IF stream[s] = "open" /\ Concerns(e, s) THEN <<e>> ELSE <<>>
  BY SentOnce, EventTypes
<1>3. e \in Messages /\ News(e)
  BY NewsKnown DEF Messages, News
<1>4. ASSUME NEW s \in Streams
      PROVE  inbox'[s] = IF stream[s] = "open" /\ Concerns(e, s) THEN Append(inbox[s], e) ELSE inbox[s]
  <2>1. PICK seq \in Seq(Messages) : seq = inbox[s]
    BY DEF LogInv
  <2>2. seq \o <<e>> = Append(seq, e) /\ seq \o <<>> = seq
    BY <1>3
  <2> QED
    BY <1>1, <1>2, <2>1, <2>2
<1>5. inbox' \in [Streams -> Seq(Messages)]
  <2>1. \A s \in Streams : Append(inbox[s], e) \in Seq(Messages) /\ inbox[s] \in Seq(Messages)
    BY <1>3 DEF LogInv
  <2>2. \A s \in Streams : inbox[s] \o Sent(s, e) \in Seq(Messages)
    BY <1>1, <1>4, <2>1
  <2> QED
    BY <1>1, <2>2
<1>6. Len(published) \in Nat /\ Len(published') = Len(published) + 1
  BY <1>1
<1>7. ASSUME NEW s \in Streams, stream[s] = "open"
      PROVE  Selected(inbox'[s], Heard(s)') = Selected(published', Due(s)')
  <2>1. Selected(inbox[s], Heard(s)) = Selected(published, Due(s))
    BY <1>7 DEF LogInv, StreamFollowsLog
  <2>2. Selected(published', Due(s)') =
             IF Concerns(e, s) THEN Append(Selected(published, Due(s)), e)
             ELSE Selected(published, Due(s))
    BY <1>1, DueNext DEF LogInv
  <2>3. CASE Concerns(e, s)
    <3>1. inbox'[s] = Append(inbox[s], e)
      BY <1>4, <1>7, <2>3
    <3>2. Selected(inbox'[s], Heard(s)') = Append(Selected(inbox[s], Heard(s)), e)
      BY <1>3, <1>5, <3>1, HearsNext DEF LogInv
    <3> QED
      BY <2>1, <2>2, <2>3, <3>2
  <2>4. CASE ~Concerns(e, s)
    <3>1. inbox'[s] = inbox[s]
      BY <1>4, <2>4
    <3>2. Heard(s)' = Heard(s)
      BY <3>1 DEF Heard
    <3> QED
      BY <2>1, <2>2, <2>4, <3>1, <3>2
  <2> QED
    BY <2>3, <2>4
<1>8. \A s \in Streams : stream'[s] = "new" => inbox'[s] = <<>>
  BY <1>4 DEF LogInv
<1>9. \A s \in Streams : joined'[s] <= Len(published')
  BY <1>6 DEF LogInv
<1> QED
  BY <1>5, <1>7, <1>8, <1>9 DEF LogInv, StreamFollowsLog

\* A stream is sent something that is no news.
LEMMA QuietMessage ==
    ASSUME LogInv, NEW s \in Streams, NEW m \in {Connected, Ping},
           inbox' = [inbox EXCEPT ![s] = Append(@, m)]
    PROVE  /\ inbox' \in [Streams -> Seq(Messages)]
           /\ inbox'[s] = Append(inbox[s], m)
           /\ \A x \in Streams : Selected(inbox'[x], Heard(x)') = Selected(inbox[x], Heard(x))
<1>1. m \in Messages /\ ~News(m)
  BY DEF Messages, News, Connected, Ping
<1>2. /\ inbox' \in [Streams -> Seq(Messages)] /\ inbox'[s] = Append(inbox[s], m)
      /\ \A x \in Streams : x # s => inbox'[x] = inbox[x]
  BY <1>1 DEF LogInv
<1>3. Selected(inbox'[s], Heard(s)') = Selected(inbox[s], Heard(s))
  BY <1>1, <1>2, HearsNext DEF LogInv
<1>4. \A x \in Streams : x # s => Heard(x)' = Heard(x)
  BY <1>2 DEF Heard
<1> QED
  BY <1>2, <1>3, <1>4

LEMMA SubscribeLogs ==
    ASSUME StreamsOK, LogInv, published \in Seq(Events), NEW s \in Streams, Subscribe(s)
    PROVE  LogInv'
<1>1. /\ stream[s] = "new" /\ stream' = [stream EXCEPT ![s] = "open"]
      /\ inbox' = [inbox EXCEPT ![s] = Append(@, Connected)]
      /\ joined' = [joined EXCEPT ![s] = Len(published)]
      /\ published' = published
  BY DEF Subscribe
<1>2. /\ inbox' \in [Streams -> Seq(Messages)] /\ inbox'[s] = Append(inbox[s], Connected)
      /\ \A x \in Streams : Selected(inbox'[x], Heard(x)') = Selected(inbox[x], Heard(x))
  BY <1>1, QuietMessage
<1>3. Len(published) \in Nat
  OBVIOUS
<1>4. /\ joined' \in [Streams -> Nat] /\ joined'[s] = Len(published)
      /\ \A x \in Streams : x # s => joined'[x] = joined[x] /\ stream'[x] = stream[x]
      /\ stream'[s] = "open"
  BY <1>1, <1>3 DEF LogInv, StreamsOK
<1>5. Selected(inbox'[s], Heard(s)') = Selected(published', Due(s)')
  <2>1. Selected(inbox[s], Heard(s)) = <<>>
    <3>1. inbox[s] = <<>> /\ <<>> \in Seq(Messages)
      BY <1>1 DEF LogInv
    <3>2. \A i \in 1..Len(inbox[s]) : i \notin Heard(s)
      BY <3>1
    <3> QED
      BY <3>1, <3>2, SelectedNone
  <2>2. Selected(published', Due(s)') = <<>>
    <3>1. PICK seq \in Seq(Events) : seq = published
      OBVIOUS
    <3>2. PICK J : J = Due(s)'
      OBVIOUS
    <3>3. \A i \in 1..Len(seq) : i \notin J
      BY <1>1, <1>4, <3>1, <3>2 DEF Due
    <3> QED
      BY <1>1, <3>1, <3>2, <3>3, SelectedNone
  <2> QED
    BY <1>2, <2>1, <2>2
<1>6. ASSUME NEW x \in Streams, x # s, stream'[x] = "open"
      PROVE  Selected(inbox'[x], Heard(x)') = Selected(published', Due(x)')
  <2>1. Due(x)' = Due(x)
    BY <1>1, <1>4, <1>6 DEF Due, Concerns, Deliveries
  <2>2. Selected(inbox[x], Heard(x)) = Selected(published, Due(x))
    BY <1>4, <1>6 DEF LogInv, StreamFollowsLog
  <2> QED
    BY <1>1, <1>2, <2>1, <2>2
<1>7. \A x \in Streams : joined'[x] <= Len(published')
  BY <1>1, <1>3, <1>4 DEF LogInv
<1>8. \A x \in Streams : stream'[x] = "new" => inbox'[x] = <<>>
  <2>1. \A x \in Streams : x # s => inbox'[x] = inbox[x]
    BY <1>1 DEF LogInv
  <2> QED
    BY <1>4, <2>1 DEF LogInv
<1> QED
  BY <1>2, <1>4, <1>5, <1>6, <1>7, <1>8 DEF LogInv, StreamFollowsLog

LEMMA BeatLogs ==
    ASSUME StreamsOK, LogInv, NEW s \in Streams, Beat(s) PROVE LogInv'
<1>1. /\ s \in heartbeat /\ inbox' = [inbox EXCEPT ![s] = Append(@, Ping)]
      /\ UNCHANGED <<stream, published, joined>>
  BY DEF Beat
<1>2. /\ inbox' \in [Streams -> Seq(Messages)]
      /\ \A x \in Streams : Selected(inbox'[x], Heard(x)') = Selected(inbox[x], Heard(x))
  BY <1>1, QuietMessage
<1>3. stream[s] = "open"
  BY <1>1 DEF StreamsOK, RegistryFollowsStreams
<1>4. \A x \in Streams : stream'[x] = "new" => inbox'[x] = <<>>
  BY <1>1, <1>3 DEF LogInv
<1>5. \A x \in Streams : Due(x)' = Due(x)
  BY <1>1 DEF Due, Concerns, Deliveries
<1> QED
  BY <1>1, <1>2, <1>4, <1>5 DEF LogInv, StreamFollowsLog

\* Nothing is sent or published, and no stream opens.
LEMMA LogRests ==
    ASSUME LogInv, UNCHANGED <<inbox, published, joined>>,
           \A s \in Streams : stream'[s] = stream[s] \/ stream'[s] = "ended"
    PROVE  LogInv'
<1>1. \A s \in Streams : Due(s)' = Due(s) /\ Heard(s)' = Heard(s)
  BY DEF Due, Heard, Concerns, Deliveries
<1> QED
  BY <1>1 DEF LogInv, StreamFollowsLog

LEMMA NextLog ==
    ASSUME StreamsOK, VoteInv, LogInv, [Next]_vars PROVE LogInv'
<1>0. published \in Seq(Events)
  BY DEF VoteInv
<1>1. ASSUME NEW s \in Streams, Unsubscribe(s) PROVE LogInv'
  <2>1. \A x \in Streams : stream'[x] = stream[x] \/ stream'[x] = "ended"
    BY <1>1 DEF Unsubscribe, StreamsOK
  <2> QED
    BY <1>1, <2>1, LogRests DEF Unsubscribe
<1>2. CASE GatewayRestarts
  <2>1. \A x \in Streams : stream'[x] = stream[x] \/ stream'[x] = "ended"
    BY <1>2 DEF GatewayRestarts
  <2> QED
    BY <1>2, <2>1, LogRests DEF GatewayRestarts
<1>3. CASE UNCHANGED <<streams, published>>
  BY <1>3, LogRests DEF streams
<1>4. ASSUME NEW e \in Hooks, PublishHook(e) PROVE LogInv'
  <2>1. e \in Events
    BY DEF Events
  <2> QED
    BY <1>0, <1>4, <2>1, PublishLogs DEF PublishHook
<1>5. ASSUME NEW t \in Calls, AnnounceVote(t) PROVE LogInv'
  <2>1. PICK e \in Events : e = VoteCreated(Ballot[t])
    BY ConstantsAssumption DEF Events
  <2> QED
    BY <1>0, <1>5, <2>1, PublishLogs DEF AnnounceVote
<1> QED
  BY <1>0, <1>1, <1>2, <1>3, <1>4, <1>5, SubscribeLogs, BeatLogs
  DEF Next, vars, SendVote, ScoringStores, ScoringRefuses, ReplyLost, Quiescent

\* However streams come and go, and whichever of their channels carry the same
\* event: an open stream has heard every event that concerns it since it was
\* opened, once, in the order of publication, and nothing else.
THEOREM StreamsFollowLog == Safety => []StreamFollowsLog
<1>1. Init => StreamsOK /\ VoteInv /\ LogInv
  <2> SUFFICES ASSUME Init PROVE LogInv
    BY InitStreams, InitVote
  <2>1. inbox \in [Streams -> Seq(Messages)] /\ joined \in [Streams -> Nat]
    BY DEF Init
  <2> QED
    BY <2>1 DEF Init, LogInv, StreamFollowsLog
<1>2. StreamsOK /\ VoteInv /\ LogInv /\ [Next]_vars => (StreamsOK /\ VoteInv /\ LogInv)'
  BY NextStreams, NextVote, NextLog
<1>3. LogInv => StreamFollowsLog
  BY DEF LogInv
<1> QED
  BY <1>1, <1>2, <1>3, PTL DEF Safety

====
