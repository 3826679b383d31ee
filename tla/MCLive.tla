------------------------------- MODULE MCLive -------------------------------
(* Live updates for TLC: the server's hub of event streams, and the tabs of a *)
(* browser that listens, with and without coordination between them.  They   *)
(* share no state, so a behaviour plays one of the two (scene) and the other  *)
(* stays in an initial state.                                                 *)
EXTENDS SSEHub, LiveRefresh, TLC

CONSTANTS c1, c2, c3

\* Two connections of two users, one an administrator, and a caller without
\* identity.
MCClients == {c1, c2, c3}
MCUserOf == c1 :> 1 @@ c2 :> 2 @@ c3 :> Anonymous

\* A browser in which one tab leads and passes on what it hears, and one without
\* Web Locks, where every tab listens for itself.
Led == [coordinate |-> TRUE]
Single == [coordinate |-> FALSE]
MCBrowsers == {Led, Single}

VARIABLE scene

allVars == <<scene, hubVars, tabVars>>

MCInit ==
    /\ scene \in {"hub", "tabs"}
    /\ Init
    /\ TabsInit /\ (scene # "tabs" => browser = Led)

\* A second change, which meets a full buffer, in shorter behaviours without a fault.
Bounded == changes <= 1 \/ (moves <= 2 /\ faults = 0)

MCNext ==
    \/ scene = "hub" /\ Next /\ UNCHANGED <<scene, tabVars>>
    \/ scene = "tabs" /\ TabsNext /\ Bounded' /\ UNCHANGED <<scene, hubVars>>

\* The fairness each scene's own module states.
MCFairness ==
    /\ \A p \in Publishers : WF_hubVars(scene = "hub" /\ Publish(p))
    /\ \A t \in Tabs :
         /\ WF_tabVars(scene = "tabs" /\ HandleSyncMessage(t))
         /\ WF_tabVars(scene = "tabs" /\ HiddenTooLong(t))
         /\ \A a \in Attempts : WF_tabVars(scene = "tabs" /\ LoopStep(t, a))

MCSpec == MCInit /\ [][MCNext]_allVars /\ MCFairness

-----------------------------------------------------------------------------
\* A request always gets through its publishing although no client ever reads
\* (publishFrame); and whoever leads and however often the stream is lost, a tab
\* that stays visible, online and signed in does not keep showing Spaces or their
\* memos as they were before a change it could have heard of, without Web Locks or
\* (while it competes) with them.
LiveEnds ==
    /\ scene = "hub" => PublishersFinish
    /\ Converges
=============================================================================
