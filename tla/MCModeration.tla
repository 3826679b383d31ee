---------------------------- MODULE MCModeration ----------------------------
(* Moderation for TLC, in two scenes.  Alone: one user, whom a moderator bans *)
(* and reporters report while an administrator edits the account.  Pair: two  *)
(* users whose temporary bans run out together.  In both one write may fail.  *)
EXTENDS Moderation

CONSTANT Another    \* the second user of the pair

VARIABLE scene

Pair == INSTANCE Moderation WITH
    Users <- Users \cup Another, Reporters <- {}, Terms <- {"running"}, MaxStrikes <- 0, MaxEdited <- 0

MCInit ==
    /\ scene \in {"alone", "pair"}
    /\ IF scene = "alone" THEN Init ELSE Pair!Init

MCNext ==
    /\ UNCHANGED scene
    /\ \/ scene = "alone" /\ Next
       \/ scene = "pair" /\ Pair!Next

\* Goroutines go on, the ticker ticks, time passes, in either scene.
MCFairness ==
    /\ \A w \in Workers :
         /\ WF_vars(scene = "alone" /\ WorkStep(w))
         /\ WF_vars(scene = "pair" /\ Pair!WorkStep(w))
    /\ WF_vars(Tick)
    /\ WF_vars(scene = "alone" /\ ListExpired)
    /\ WF_vars(scene = "pair" /\ Pair!ListExpired)
    /\ \A u \in Users \cup Another : WF_vars(u \in DOMAIN ban /\ Expire(u))

MCSpec == MCInit /\ [][MCNext]_<<vars, scene>> /\ MCFairness

\* A temporary ban of u ran out, and u still has an account.
RanOut(u) == u \in DOMAIN ban /\ Expired(u) /\ status[u] # "DELETED"

\* The run of ReleaseExpiredUserBans always comes to its end, so that the
\* goroutine goes on to publish scheduled memos and to empty the trash, and every
\* temporary ban that ran out is lifted or replaced although a write may fail.
BansEnd == SchedulerReturns /\ \A u \in Users \cup Another : RanOut(u) ~> ~RanOut(u)
=============================================================================
