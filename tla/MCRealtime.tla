---- MODULE MCRealtime ----
(***************************************************************************)
(* Small instances of Realtime.  A room and its user have the same id, as  *)
(* nothing in the gateway keeps ids of different kinds apart.              *)
(***************************************************************************)
EXTENDS Realtime

MCUsers == {"ann", "bob"}
MCDebates == {"debate"}

Watch(scope, id, user) == [scope |-> scope, id |-> id, user |-> user]
\* Two streams of one voter, and one of somebody who watches the room "ann".
MCSubscriptions ==
    <<Watch("debate", "debate", "ann"), Watch("leaderboard", "global", "ann"), Watch("room", "ann", "bob")>>
MCStreams == DOMAIN MCSubscriptions

Vote(u, s) == [debate |-> "debate", user |-> u, side |-> s]
\* One spectator votes, and retries.
MCBallots == <<Vote("ann", "FOR"), Vote("ann", "FOR")>>
MCCalls == DOMAIN MCBallots

Event(type, room, debate, user) ==
    [type |-> type, room |-> room, debate |-> debate, user |-> user]
MCHooks ==
    {Event("debate.started", "ann", "debate", None),
     Event("leaderboard.updated", "ann", None, None)}

====
