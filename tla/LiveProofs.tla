----------------------------- MODULE LiveProofs -----------------------------
(* Proofs about the live updates: the hub of the server (SSEHub), for any      *)
(* connections, publishers, users and size of the clients' buffers, and the    *)
(* tabs that listen (LiveRefresh), for any number of them and of attempts.     *)
EXTENDS SSEHub, LiveRefresh, SequenceTheorems, TLAPS

-----------------------------------------------------------------------------
(* The hub.                                                                  *)

\* What a mutation publishes is a sequence of frames.
LEMMA FramesOfType ==
  ASSUME NEW kind, NEW creator \in Users, NEW visibility \in {"PRIVATE", "PUBLIC", "SPACE"}
  PROVE  FramesOf(kind, visibility, creator) \in Seq(Frames)
<1>1. BroadcastFrame(visibility, creator) \in Frames
  BY DEF BroadcastFrame, Frames, Frame
<1>2. MemoChanged \in Frames /\ SpaceChanged \in Frames
  BY DEF MemoChanged, SpaceChanged, Frames, Frame
<1> QED
  BY <1>1, <1>2 DEF FramesOf

\* Nobody is connected at first.
LEMMA HubInit == Init => IInv
<1> SUFFICES ASSUME Init PROVE IInv
  OBVIOUS
<1>1. Idle \in Jobs
  BY DEF Idle, Jobs
<1>2. closed \in BOOLEAN /\ panicked \in BOOLEAN
  BY Zenon DEF Init
<1>3. TypeOK
  BY <1>1, <1>2, HubAssumption DEF Init, TypeOK
<1> QED
  BY <1>3 DEF Init, IInv, HubFormed, MapIsOpen, LoopIsLocked, MissedWasOpen, NoPanic, MissedIsDropped, Idle

\* A step of the hub, of a connection or of a publisher keeps the types.
LEMMA TypeStep == TypeOK /\ LoopIsLocked /\ [Next]_hubVars => TypeOK'
<1> SUFFICES ASSUME TypeOK, LoopIsLocked, [Next]_hubVars PROVE TypeOK'
  OBVIOUS
<1> USE HubAssumption DEF TypeOK
<1>1. ASSUME NEW c \in Clients, AttachClient(c) PROVE TypeOK'
  BY <1>1 DEF AttachClient
<1>2. ASSUME NEW c \in Clients, Read(c) PROVE TypeOK'
  <2>1. buffer[c] \in Seq(Frames) /\ buffer[c] # <<>>
    BY <1>2 DEF Read
  <2>2. Tail(buffer[c]) \in Seq(Frames) /\ Len(Tail(buffer[c])) = Len(buffer[c]) - 1
    BY <2>1
  <2> QED
    BY <1>2, <2>1, <2>2 DEF Read
<1>3. ASSUME NEW c \in Clients, Remove(c)
      PROVE  attached' \subseteq Clients /\ panicked' \in BOOLEAN
             /\ channel' \in [Clients -> {"none", "open", "closed"}]
  BY <1>3 DEF Remove
<1>4. ASSUME NEW c \in Clients, Leave(c) PROVE TypeOK'
  BY <1>3, <1>4 DEF Leave
<1>5. ASSUME NEW p \in Publishers, Mutate(p) PROVE TypeOK'
  <2> PICK kind \in MemoKinds \cup {"space"}, creator \in Users,
           visibility \in {"PRIVATE", "PUBLIC", "SPACE"} :
        pub' = [pub EXCEPT ![p] =
          [Idle EXCEPT !.phase = "run", !.frames = FramesOf(kind, visibility, creator),
                       !.owed = OwedTo(kind, visibility, creator)]]
    BY <1>5 DEF Mutate
  <2>1. OwedTo(kind, visibility, creator) \subseteq Clients
    BY DEF OwedTo
  <2>2. pub' \in [Publishers -> Jobs]
    BY <2>1, FramesOfType DEF Idle, Jobs
  <2> QED
    BY <1>5, <2>2 DEF Mutate, clientVars
<1>6. ASSUME NEW p \in Publishers, BeginPublish(p) PROVE TypeOK'
  <2>1. [pub[p] EXCEPT !.phase = "send", !.todo = attached] \in Jobs
    BY DEF Jobs
  <2>2. pub' = [pub EXCEPT ![p] = [pub[p] EXCEPT !.phase = "send", !.todo = attached]]
    BY <1>6 DEF BeginPublish
  <2> QED
    BY <1>6, <2>1, <2>2 DEF BeginPublish, clientVars
<1>7. ASSUME NEW p \in Publishers, Send(p) PROVE TypeOK'
  <2>1. pub[p] \in Jobs /\ pub[p].frames \in Seq(Frames) /\ pub[p].frames # <<>>
    BY <1>7 DEF Send, LoopIsLocked, Jobs
  <2>2. Head(pub[p].frames) \in Frames
    BY <2>1
  <2> PICK c \in pub[p].todo :
        \/ MayReceive(c, Head(pub[p].frames)) /\ Offer(p, c)
        \/ pub' = [pub EXCEPT ![p].todo = @ \ {c}] /\ UNCHANGED <<buffer, missed>>
    BY <1>7 DEF Send
  <2>3. c \in Clients
    BY <2>1 DEF Jobs
  <2>4. /\ [pub[p] EXCEPT !.todo = @ \ {c}] \in Jobs
        /\ [pub[p] EXCEPT !.todo = @ \ {c}, !.owed = @ \ {c}] \in Jobs
        /\ [pub[p] EXCEPT !.todo = @ \ {c}, !.owed = @ \ {c}, !.slow = @ \cup {c}] \in Jobs
    BY <2>1, <2>3 DEF Jobs
  <2>5. pub' \in [Publishers -> Jobs] /\ missed' \subseteq Clients
    BY ZenonT(60), <2>3, <2>4 DEF Offer
  <2>6. Len(buffer[c]) < BufferSize =>
          /\ Append(buffer[c], Head(pub[p].frames)) \in Seq(Frames)
          /\ Len(Append(buffer[c], Head(pub[p].frames))) <= BufferSize
    BY <2>2, <2>3
  <2>7. buffer' \in [Clients -> Seq(Frames)] /\ \A d \in Clients : Len(buffer'[d]) <= BufferSize
    <3>1. CASE UNCHANGED buffer
      BY <3>1
    <3>2. CASE /\ Len(buffer[c]) < BufferSize
               /\ buffer' = [buffer EXCEPT ![c] = Append(@, Head(pub[p].frames))]
      <4>1. buffer' \in [Clients -> Seq(Frames)]
        BY <3>2, <2>6
      <4>2. \A d \in Clients : buffer'[d] = IF d = c THEN Append(buffer[c], Head(pub[p].frames)) ELSE buffer[d]
        BY <3>2
      <4> QED
        BY <4>1, <4>2, <3>2, <2>6
    <3> QED
      BY <3>1, <3>2 DEF Offer
  <2>8. panicked' \in BOOLEAN
    BY <1>7 DEF Send
  <2> QED
    BY <1>7, <2>5, <2>7, <2>8 DEF Send
<1>8. ASSUME NEW p \in Publishers, EndPublish(p) PROVE TypeOK'
  <2>1. pub[p] \in Jobs /\ pub[p].frames \in Seq(Frames) /\ pub[p].frames # <<>>
    BY <1>8 DEF EndPublish, LoopIsLocked, Jobs
  <2>2. Tail(pub[p].frames) \in Seq(Frames)
    BY <2>1
  <2>3. [pub[p] EXCEPT !.phase = "run", !.frames = Tail(@)] \in Jobs
    BY <2>1, <2>2 DEF Jobs
  <2>4. pub' = [pub EXCEPT ![p] = [pub[p] EXCEPT !.phase = "run", !.frames = Tail(@)]]
    BY <1>8 DEF EndPublish
  <2> QED
    BY <1>8, <2>3, <2>4 DEF EndPublish, clientVars
<1>9. ASSUME NEW p \in Publishers, Drop(p) PROVE TypeOK'
  <2> PICK c \in pub[p].slow : Remove(c) /\ pub' = [pub EXCEPT ![p].slow = @ \ {c}]
    BY <1>9 DEF Drop
  <2>1. c \in Clients
    BY DEF Jobs
  <2>2. [pub[p] EXCEPT !.slow = @ \ {c}] \in Jobs
    BY DEF Jobs
  <2>3. pub' \in [Publishers -> Jobs]
    BY <2>2
  <2> QED
    BY <1>3, <1>9, <2>1, <2>3 DEF Drop
<1>10. ASSUME NEW p \in Publishers, Finish(p) PROVE TypeOK'
  BY <1>10 DEF Finish, clientVars, Idle, Jobs
<1>11. CASE Close
  BY <1>11 DEF Close
<1>12. CASE UNCHANGED hubVars
  BY <1>12 DEF hubVars, clientVars
<1> QED
  BY <1>1, <1>2, <1>4, <1>5, <1>6, <1>7, <1>8, <1>9, <1>10, <1>11, <1>12 DEF Next, Publish

\* Attaching, unsubscribing and closing wait for every loop, so nobody's
\* channel closes under it and the map keeps only open ones.
LEMMA LockStep ==
  TypeOK /\ MapIsOpen /\ LoopIsLocked /\ [Next]_hubVars => MapIsOpen' /\ LoopIsLocked'
<1> SUFFICES ASSUME TypeOK, MapIsOpen, LoopIsLocked, [Next]_hubVars
             PROVE  MapIsOpen' /\ LoopIsLocked'
  OBVIOUS
<1> USE DEF TypeOK, MapIsOpen, LoopIsLocked
<1>1. ASSUME NEW c \in Clients, AttachClient(c) PROVE MapIsOpen' /\ LoopIsLocked'
  BY <1>1 DEF AttachClient, CanLock
<1>2. ASSUME NEW c \in Clients, Read(c) PROVE MapIsOpen' /\ LoopIsLocked'
  BY <1>2 DEF Read
<1>3. ASSUME NEW c \in Clients, Leave(c) PROVE MapIsOpen' /\ LoopIsLocked'
  BY <1>3 DEF Leave, Remove, CanLock
<1>4. ASSUME NEW p \in Publishers, Mutate(p) PROVE MapIsOpen' /\ LoopIsLocked'
  BY <1>4 DEF Mutate, clientVars, Idle
<1>5. ASSUME NEW p \in Publishers, BeginPublish(p) PROVE MapIsOpen' /\ LoopIsLocked'
  BY <1>5 DEF BeginPublish, clientVars, Jobs
<1>6. ASSUME NEW p \in Publishers, Send(p) PROVE MapIsOpen' /\ LoopIsLocked'
  <2>1. PICK c \in pub[p].todo :
          \/ Offer(p, c)
          \/ pub' = [pub EXCEPT ![p].todo = @ \ {c}] /\ UNCHANGED missed
    BY <1>6 DEF Send
  <2>2. \A q \in Publishers :
          /\ pub'[q].phase = pub[q].phase /\ pub'[q].frames = pub[q].frames
          /\ pub'[q].todo \subseteq pub[q].todo /\ (q # p => pub'[q].slow = pub[q].slow)
    BY <2>1 DEF Offer, Jobs
  <2> QED
    BY ZenonT(60), <1>6, <2>2 DEF Send
<1>7. ASSUME NEW p \in Publishers, EndPublish(p) PROVE MapIsOpen' /\ LoopIsLocked'
  BY <1>7 DEF EndPublish, clientVars, Jobs
<1>8. ASSUME NEW p \in Publishers, Drop(p) PROVE MapIsOpen' /\ LoopIsLocked'
  BY <1>8 DEF Drop, Remove, CanLock, Jobs
<1>9. ASSUME NEW p \in Publishers, Finish(p) PROVE MapIsOpen' /\ LoopIsLocked'
  BY <1>9 DEF Finish, clientVars, Idle
<1>10. CASE Close
  BY <1>10 DEF Close, CanLock
<1>11. CASE UNCHANGED hubVars
  BY <1>11 DEF hubVars, clientVars
<1> QED
  BY <1>1, <1>2, <1>3, <1>4, <1>5, <1>6, <1>7, <1>8, <1>9, <1>10, <1>11 DEF Next, Publish

\* A send or a close finds its channel open, because it finds it in the map.
LEMMA PanicStep ==
  TypeOK /\ MapIsOpen /\ LoopIsLocked /\ NoPanic /\ [Next]_hubVars => NoPanic'
  BY DEF TypeOK, MapIsOpen, LoopIsLocked, NoPanic, Next, Publish, AttachClient, Read, Leave,
         Remove, Mutate, BeginPublish, Send, EndPublish, Drop, Finish, Close, hubVars,
         clientVars, Jobs

\* Whoever missed a frame stays on a publisher's list until unsubscribed, and
\* a connection that is attached is a new one.
LEMMA MissedStep ==
  /\ TypeOK /\ MapIsOpen /\ LoopIsLocked /\ MissedWasOpen /\ MissedIsDropped /\ [Next]_hubVars
  => MissedWasOpen' /\ MissedIsDropped'
<1> SUFFICES ASSUME TypeOK, MapIsOpen, LoopIsLocked, MissedWasOpen, MissedIsDropped, [Next]_hubVars
             PROVE  MissedWasOpen' /\ MissedIsDropped'
  OBVIOUS
<1> USE DEF TypeOK, MissedWasOpen, MissedIsDropped
<1>1. ASSUME NEW c \in Clients, AttachClient(c) PROVE MissedWasOpen' /\ MissedIsDropped'
  BY <1>1 DEF AttachClient
<1>2. ASSUME NEW c \in Clients, Read(c) PROVE MissedWasOpen' /\ MissedIsDropped'
  BY <1>2 DEF Read
<1>3. ASSUME NEW c \in Clients, Leave(c) PROVE MissedWasOpen' /\ MissedIsDropped'
  BY <1>3 DEF Leave, Remove
<1>4. ASSUME NEW p \in Publishers, Mutate(p) PROVE MissedWasOpen' /\ MissedIsDropped'
  BY <1>4 DEF Mutate, clientVars, Idle, LoopIsLocked
<1>5. ASSUME NEW p \in Publishers, BeginPublish(p) PROVE MissedWasOpen' /\ MissedIsDropped'
  BY <1>5 DEF BeginPublish, clientVars, Jobs
<1>6. ASSUME NEW p \in Publishers, Send(p) PROVE MissedWasOpen' /\ MissedIsDropped'
  <2>1. PICK c \in pub[p].todo :
          \/ Offer(p, c)
          \/ pub' = [pub EXCEPT ![p].todo = @ \ {c}] /\ UNCHANGED missed
    BY <1>6 DEF Send
  <2>2. c \in attached /\ channel[c] = "open"
    BY <1>6, <2>1 DEF Send, LoopIsLocked, MapIsOpen
  <2>3. ASSUME NEW q \in Publishers PROVE pub[q].slow \subseteq pub'[q].slow
    <3>1. pub'[q] = pub[q] \/ pub'[q] = [pub[q] EXCEPT !.todo = @ \ {c}]
          \/ pub'[q] = [pub[q] EXCEPT !.todo = @ \ {c}, !.owed = @ \ {c}]
          \/ pub'[q] = [pub[q] EXCEPT !.todo = @ \ {c}, !.owed = @ \ {c}, !.slow = @ \cup {c}]
      BY <2>1 DEF Offer
    <3>2. pub[q] \in Jobs
      OBVIOUS
    <3>3. pub'[q].slow = pub[q].slow \/ pub'[q].slow = pub[q].slow \cup {c}
      BY ONLY <3>1, <3>2 DEF Jobs
    <3> QED
      BY <3>3
  <2>4. missed' = missed \/ (missed' = missed \cup {c} /\ c \in pub'[p].slow)
    BY <2>1 DEF Offer, Jobs
  <2> QED
    BY <1>6, <2>2, <2>3, <2>4 DEF Send
<1>7. ASSUME NEW p \in Publishers, EndPublish(p) PROVE MissedWasOpen' /\ MissedIsDropped'
  BY ZenonT(60), <1>7 DEF EndPublish, clientVars, Jobs
<1>8. ASSUME NEW p \in Publishers, Drop(p) PROVE MissedWasOpen' /\ MissedIsDropped'
  BY <1>8 DEF Drop, Remove, Jobs
<1>9. ASSUME NEW p \in Publishers, Finish(p) PROVE MissedWasOpen' /\ MissedIsDropped'
  BY <1>9 DEF Finish, clientVars, Idle
<1>10. CASE Close
  BY <1>10 DEF Close
<1>11. CASE UNCHANGED hubVars
  BY <1>11 DEF hubVars, clientVars
<1> QED
  BY <1>1, <1>2, <1>3, <1>4, <1>5, <1>6, <1>7, <1>8, <1>9, <1>10, <1>11 DEF Next, Publish

\* The inductive invariant holds always.
LEMMA HubInvariant == Spec => []IInv
<1>1. IInv /\ [Next]_hubVars => IInv'
  BY TypeStep, LockStep, PanicStep, MissedStep DEF IInv, HubFormed
<1> QED
  BY HubInit, <1>1, PTL DEF Spec

\* The clients in the map are open, a loop under the read lock has clients of the
\* map before it, and whoever missed a frame had been connected, with any number of
\* connections, publishers and mutations.
THEOREM HubStaysFormed == Spec => []HubFormed
  BY HubInvariant, PTL DEF IInv

\* No publisher sends on a closed channel and no channel is closed twice, with
\* any number of publishers, disconnecting clients and the shutdown of the
\* server at once (publishFrame, Unsubscribe and Close of sse_hub.go).
THEOREM HubNeverPanics == Spec => []NoPanic
  BY HubInvariant, PTL DEF IInv

\* A client that missed an event is disconnected or about to be, whatever it
\* has read since (publishFrame's list of slow clients).
THEOREM HubDropsMissed == Spec => []MissedIsDropped
  BY HubInvariant, PTL DEF IInv

-----------------------------------------------------------------------------
(* The tabs.                                                                 *)

\* An attempt that does not exist.
LEMMA NoTryIs == NoTry \in Try /\ NoTry.pc = "none" /\ NoTry.pc \notin Running
  BY DEF NoTry, Try, Running

\* Every page is closed at first.
LEMMA TabsInvInit == TabsInit => TabsInv
<1> SUFFICES ASSUME TabsInit PROVE TabsInv
  OBVIOUS
<1> USE DEF TabsInit
<1>1. TabsTypeOK
  <2>1. stream \in [Tabs -> [Attempts -> Seq(Kinds)]] /\ inbox \in [Tabs -> Seq(Messages)]
    OBVIOUS
  <2>2. \A t \in Tabs, a \in Attempts : Len(stream[t][a]) <= StreamBuffer
    BY LiveAssumption
  <2>3. changes \in 0 .. MaxChanges /\ faults \in 0 .. MaxFaults /\ moves \in 0 .. MaxMoves
    BY LiveAssumption
  <2>4. timer \in [Tabs -> BOOLEAN] /\ online \in [Tabs -> BOOLEAN] /\ once \in [Tabs -> BOOLEAN]
    OBVIOUS
  <2>5. browser \in Browser
    BY LiveAssumption
  <2> QED
    BY <2>1, <2>2, <2>3, <2>4, <2>5, NoTryIs DEF TabsTypeOK
<1>2. \A t \in Tabs, a \in Attempts : att[t][a].pc \notin Running
  BY NoTryIs
<1>3. OneStream /\ LoopHoldsLock
  BY <1>2 DEF OneStream, LoopHoldsLock, Running
<1> QED
  BY <1>1, <1>3 DEF TabsInv, TabsSafe

\* What is posted to the other tabs.
LEMMA PostIs ==
  ASSUME TabsTypeOK, NEW t \in Tabs, NEW kind \in Kinds \cup {"connected", "request"}
  PROVE  Post(t, kind) \in [Tabs -> Seq(Messages)]
<1>1. <<kind, t>> \in Messages
  BY DEF Messages
<1> QED
  BY <1>1 DEF Post, TabsTypeOK

\* startLeadership changes an attempt of the tab that did not exist.
LEMMA StartIs ==
  ASSUME TabsInv, NEW t \in Tabs, NEW pages, NEW net, StartLeadership(t, pages, net), browser' = browser
  PROVE  /\ ctl' \in [Tabs -> Attempts \cup {NoAttempt}] /\ att' \in [Tabs -> [Attempts -> Try]]
         /\ inbox' \in [Tabs -> Seq(Messages)] /\ lock' = lock /\ LoopHoldsLock'
<1>t. TabsTypeOK /\ LoopHoldsLock
  BY DEF TabsInv, TabsSafe
<1>1. CASE ctl[t] # NoAttempt \/ pages[t] # "visible" \/ ~net
  BY <1>1, <1>t DEF StartLeadership, TabsTypeOK, LoopHoldsLock
<1>2. CASE ~(ctl[t] # NoAttempt \/ pages[t] # "visible" \/ ~net)
  <2>1. PICK a \in Attempts :
          /\ ctl' = [ctl EXCEPT ![t] = a]
          /\ att' = [att EXCEPT ![t][a] = [pc |-> "queued", aborted |-> FALSE]]
          /\ lock' = lock
          /\ inbox' = Post(t, "request")
    BY <1>2 DEF StartLeadership
  <2> DEFINE q == [pc |-> "queued", aborted |-> FALSE]
  <2>2. q \in Try /\ q.pc \notin Running
    BY DEF Try, Running
  <2>3. att' = [att EXCEPT ![t][a] = q]
    BY <2>1
  <2> HIDE DEF q
  <2>4. att' \in [Tabs -> [Attempts -> Try]]
    BY <2>2, <2>3, <1>t DEF TabsTypeOK
  <2>5. inbox' \in [Tabs -> Seq(Messages)]
    BY <2>1, <1>t, PostIs
  <2>6. LoopHoldsLock'
    BY <2>1, <2>2, <2>3, <1>t DEF TabsTypeOK, LoopHoldsLock
  <2> QED
    BY <2>1, <2>4, <2>5, <2>6, <1>t DEF TabsTypeOK
<1> QED
  BY <1>1, <1>2

\* What a step changes of an attempt.
LEMMA TryChanged ==
  ASSUME NEW r \in Try, NEW pc \in {"none", "queued", "closing"} \cup Running
  PROVE  /\ [r EXCEPT !.pc = pc] \in Try /\ [r EXCEPT !.pc = pc].pc = pc
         /\ [r EXCEPT !.aborted = TRUE] \in Try /\ [r EXCEPT !.aborted = TRUE].pc = r.pc
BY DEF Try

\* stopLeadership gives up a request, or tells a loop to end.
LEMMA StopIs ==
  ASSUME TabsInv, NEW t \in Tabs, StopLeadership(t), browser' = browser
  PROVE  /\ ctl' \in [Tabs -> Attempts \cup {NoAttempt}] /\ att' \in [Tabs -> [Attempts -> Try]]
         /\ inbox' = inbox /\ lock' = lock /\ LoopHoldsLock'
<1>t. TabsTypeOK /\ LoopHoldsLock
  BY DEF TabsInv, TabsSafe
<1>0. ctl' \in [Tabs -> Attempts \cup {NoAttempt}] /\ inbox' = inbox /\ lock' = lock
  BY <1>t DEF StopLeadership, TabsTypeOK
<1> DEFINE a == ctl[t]
<1>1. CASE a = NoAttempt
  BY <1>0, <1>1, <1>t DEF StopLeadership, TabsTypeOK, LoopHoldsLock
<1>2. CASE a # NoAttempt /\ att[t][a].pc = "queued"
  <2>1. att' = [att EXCEPT ![t][a] = NoTry] /\ a \in Attempts
    BY <1>2, <1>t DEF StopLeadership, TabsTypeOK
  <2> QED
    BY <2>1, <1>0, <1>t, NoTryIs DEF TabsTypeOK, LoopHoldsLock
<1>3. CASE a # NoAttempt /\ att[t][a].pc # "queued"
  <2> DEFINE q == [att[t][a] EXCEPT !.aborted = TRUE]
  <2>1. att' = [att EXCEPT ![t][a] = q] /\ a \in Attempts
    BY <1>3, <1>t DEF StopLeadership, TabsTypeOK
  <2>2. q \in Try /\ q.pc = att[t][a].pc
    <3>1. att[t][a] \in Try /\ "none" \in {"none", "queued", "closing"} \cup Running
      BY <2>1, <1>t DEF TabsTypeOK
    <3> QED
      BY <3>1, TryChanged
  <2> HIDE DEF q, a
  <2> QED
    BY <2>1, <2>2, <1>0, <1>t DEF TabsTypeOK, LoopHoldsLock
<1> QED
  BY <1>1, <1>2, <1>3

\* The callback of the lock returns: the attempt runs no more, and no other did.
LEMMA ReturnIs ==
  ASSUME TabsInv, NEW t \in Tabs, NEW a \in Attempts, Return(t, a), browser' = browser,
         att[t][a].pc \in Running \/ lock = NoLock \/ ~browser.coordinate
  PROVE  /\ ctl' \in [Tabs -> Attempts \cup {NoAttempt}] /\ att' \in [Tabs -> [Attempts -> Try]]
         /\ lock' \in Requests \cup {NoLock} /\ LoopHoldsLock'
<1>t. TabsTypeOK /\ LoopHoldsLock
  BY DEF TabsInv, TabsSafe
<1>0. ctl' \in [Tabs -> Attempts \cup {NoAttempt}] /\ lock' \in Requests \cup {NoLock}
  BY <1>t DEF Return, Released, TabsTypeOK
<1> DEFINE q == IF browser.coordinate THEN [att[t][a] EXCEPT !.pc = "closing"] ELSE NoTry
<1>1. att' = [att EXCEPT ![t][a] = q]
  BY <1>t DEF Return, TabsTypeOK
<1>2. q \in Try /\ q.pc \notin Running
  <2>1. att[t][a] \in Try /\ "closing" \in {"none", "queued", "closing"} \cup Running /\ "closing" \notin Running
    BY <1>t DEF TabsTypeOK, Running
  <2>2. [att[t][a] EXCEPT !.pc = "closing"] \in Try /\ [att[t][a] EXCEPT !.pc = "closing"].pc = "closing"
    BY <2>1, TryChanged
  <2> QED
    BY <2>1, <2>2, NoTryIs
<1> HIDE DEF q
<1>3. att' \in [Tabs -> [Attempts -> Try]]
  BY <1>1, <1>2, <1>t DEF TabsTypeOK
<1>4. LoopHoldsLock'
  <2> SUFFICES ASSUME browser.coordinate, NEW u \in Tabs, NEW b \in Attempts, att'[u][b].pc \in Running
               PROVE  lock' = <<u, b>>
    BY DEF LoopHoldsLock
  <2>1. <<u, b>> # <<t, a>> /\ att'[u][b] = att[u][b]
    BY <1>1, <1>2, <1>t DEF TabsTypeOK
  <2>2. lock = <<u, b>>
    BY <2>1, <1>t DEF LoopHoldsLock
  <2> QED
    BY <2>1, <2>2 DEF Return, Released
<1> QED
  BY <1>0, <1>3, <1>4

\* A loop runs under the lock through every step of the tabs, the network and the
\* user, and what they keep is well formed.
LEMMA TabsStep == TabsInv /\ [TabsNext]_tabVars => TabsInv'
<1> SUFFICES ASSUME TabsInv, [TabsNext]_tabVars PROVE TabsTypeOK' /\ LoopHoldsLock'
  <2>1. TabsTypeOK' /\ LoopHoldsLock' => OneStream'
    BY DEF OneStream, LoopHoldsLock, Running
  <2> QED
    BY <2>1 DEF TabsInv, TabsSafe
<1>t. TabsTypeOK /\ LoopHoldsLock
  BY DEF TabsInv, TabsSafe
<1>m. Move => moves' \in 0 .. MaxMoves /\ UNCHANGED <<browser, changes, faults, session>>
  BY <1>t, LiveAssumption DEF Move, TabsTypeOK
<1>f. faults < MaxFaults /\ faults' = faults + 1 => faults' \in 0 .. MaxFaults
  BY <1>t, LiveAssumption DEF TabsTypeOK
<1>n. moves < MaxMoves /\ moves' = moves + 1 => moves' \in 0 .. MaxMoves
  BY <1>t, LiveAssumption DEF TabsTypeOK
<1>i. ASSUME NEW t \in Tabs, NEW data, Invalidate(t, data)
      PROVE  stale' \in [Tabs -> SUBSET Data] /\ early' \in [Tabs -> SUBSET Data]
  BY <1>i, <1>t DEF Invalidate, TabsTypeOK
\* An attempt that changes its state within or into the loop.
<1>a. ASSUME NEW t \in Tabs, NEW a \in Attempts, NEW pc \in Running, att' = [att EXCEPT ![t][a].pc = pc],
             att[t][a].pc \in Running, UNCHANGED <<lock, browser>>
      PROVE  att' \in [Tabs -> [Attempts -> Try]] /\ LoopHoldsLock'
  <2> DEFINE q == [att[t][a] EXCEPT !.pc = pc]
  <2>1. att' = [att EXCEPT ![t][a] = q]
    BY <1>a, <1>t DEF TabsTypeOK
  <2>2. q \in Try /\ q.pc = pc
    <3>1. att[t][a] \in Try
      BY <1>t DEF TabsTypeOK
    <3> QED
      BY <3>1, TryChanged
  <2> HIDE DEF q
  <2>3. att' \in [Tabs -> [Attempts -> Try]]
    BY <2>1, <2>2, <1>t DEF TabsTypeOK
  <2>4. \A u \in Tabs, b \in Attempts : att'[u][b].pc \in Running => att[u][b].pc \in Running
    BY <1>a, <2>1, <2>2, <1>t DEF TabsTypeOK
  <2> QED
    BY <1>a, <2>3, <2>4, <1>t DEF LoopHoldsLock
\* A stream that is emptied.
<1>e. ASSUME NEW t \in Tabs, NEW a \in Attempts, stream' = [stream EXCEPT ![t][a] = <<>>]
      PROVE  /\ stream' \in [Tabs -> [Attempts -> Seq(Kinds)]]
             /\ \A u \in Tabs, b \in Attempts : Len(stream'[u][b]) <= StreamBuffer
  <2>1. <<>> \in Seq(Kinds) /\ Len(<<>>) <= StreamBuffer
    BY LiveAssumption
  <2> QED
    BY <1>e, <2>1, <1>t DEF TabsTypeOK
<1> USE DEF cache, bounds
<1>1. ASSUME EndSession PROVE TabsTypeOK' /\ LoopHoldsLock'
  BY <1>1, <1>t, <1>n DEF EndSession, TabsTypeOK, LoopHoldsLock
<1>2. ASSUME NEW kind \in Kinds, Change(kind) PROVE TabsTypeOK' /\ LoopHoldsLock'
  <2> DEFINE open == {x \in Tabs \X Attempts : att[x[1]][x[2]].pc = "connected" /\ ~broken[x[1]][x[2]]}
             full == {x \in open : Len(stream[x[1]][x[2]]) >= StreamBuffer}
  <2>1. /\ changes' \in 0 .. MaxChanges
        /\ UNCHANGED <<page, timer, online, ctl, att, lock, once, inbox, browser, faults, moves, session>>
    BY <1>2, <1>t, LiveAssumption DEF Change, TabsTypeOK
  <2>2. stream' = [t \in Tabs |-> [a \in Attempts |->
                     IF <<t, a>> \in open \ full THEN Append(stream[t][a], kind) ELSE stream[t][a]]]
    BY <1>2 DEF Change
  <2>3. broken' = [t \in Tabs |-> [a \in Attempts |-> broken[t][a] \/ <<t, a>> \in full]]
    BY <1>2 DEF Change
  <2>4. \A t \in Tabs, a \in Attempts : <<t, a>> \in open \ full => Len(stream[t][a]) < StreamBuffer
    BY <1>t, LiveAssumption DEF TabsTypeOK
  <2> HIDE DEF open, full
  <2>5. stream' \in [Tabs -> [Attempts -> Seq(Kinds)]]
    BY <2>2, <1>t DEF TabsTypeOK
  <2>6. \A t \in Tabs, a \in Attempts : Len(stream'[t][a]) <= StreamBuffer
    <3> SUFFICES ASSUME NEW t \in Tabs, NEW a \in Attempts PROVE Len(stream'[t][a]) <= StreamBuffer
      OBVIOUS
    <3>1. stream[t][a] \in Seq(Kinds) /\ Len(stream[t][a]) \in Nat /\ Len(stream[t][a]) <= StreamBuffer
      BY <1>t DEF TabsTypeOK
    <3>2. CASE <<t, a>> \in open \ full
      <4>1. stream'[t][a] = Append(stream[t][a], kind)
        BY <2>2, <3>2
      <4>2. Len(Append(stream[t][a], kind)) = Len(stream[t][a]) + 1
        BY <3>1
      <4> QED
        BY <4>1, <4>2, <2>4, <3>1, <3>2, LiveAssumption
    <3>3. CASE <<t, a>> \notin open \ full
      BY <2>2, <3>1, <3>3
    <3> QED
      BY <3>2, <3>3
  <2>7. broken' \in [Tabs -> [Attempts -> BOOLEAN]]
    BY <2>3
  <2>8. Changed(kind) \subseteq Data
    BY DEF Changed, Data, Memos
  <2>9. stale' \in [Tabs -> SUBSET Data] /\ early' \in [Tabs -> SUBSET Data]
    BY <2>8, <1>2, <1>t DEF Change, TabsTypeOK
  <2> QED
    BY <2>9, <2>1, <2>5, <2>6, <2>7, <2>8, <1>t DEF TabsTypeOK, LoopHoldsLock
<1>3. ASSUME NEW t \in Tabs, OpenPage(t) PROVE TabsTypeOK' /\ LoopHoldsLock'
  <2>1. page' \in [Tabs -> {"closed", "visible", "hidden"}] /\ once' \in [Tabs -> BOOLEAN]
    BY <1>3, <1>t DEF OpenPage, TabsTypeOK
  <2>2. stale' \in [Tabs -> SUBSET Data] /\ early' \in [Tabs -> SUBSET Data]
    BY <1>3, <1>t DEF OpenPage, TabsTypeOK
  <2>3. /\ ctl' \in [Tabs -> Attempts \cup {NoAttempt}] /\ att' \in [Tabs -> [Attempts -> Try]]
        /\ inbox' \in [Tabs -> Seq(Messages)] /\ lock' = lock /\ LoopHoldsLock'
    BY <1>3, <1>m, StartIs DEF OpenPage
  <2> QED
    BY <1>3, <1>m, <2>1, <2>2, <2>3, <1>t DEF OpenPage, TabsTypeOK
<1>4. ASSUME NEW t \in Tabs, ClosePage(t) PROVE TabsTypeOK' /\ LoopHoldsLock'
  <2>1. /\ page' \in [Tabs -> {"closed", "visible", "hidden"}] /\ timer' \in [Tabs -> BOOLEAN]
        /\ online' \in [Tabs -> BOOLEAN] /\ ctl' \in [Tabs -> Attempts \cup {NoAttempt}]
    BY <1>4, <1>t DEF ClosePage, TabsTypeOK
  <2>2. att' = [att EXCEPT ![t] = [a \in Attempts |-> NoTry]]
    BY <1>4 DEF ClosePage
  <2>3. att' \in [Tabs -> [Attempts -> Try]] /\ \A a \in Attempts : att'[t][a] = NoTry
    BY <2>2, <1>t, NoTryIs DEF TabsTypeOK
  <2>4. inbox' \in [Tabs -> Seq(Messages)]
    BY <1>4, <1>t DEF ClosePage, TabsTypeOK
  <2>5. /\ stream' \in [Tabs -> [Attempts -> Seq(Kinds)]]
        /\ \A u \in Tabs, b \in Attempts : Len(stream'[u][b]) <= StreamBuffer
    <3>1. stream' = [stream EXCEPT ![t] = [a \in Attempts |-> <<>>]]
      BY <1>4 DEF ClosePage
    <3>2. <<>> \in Seq(Kinds) /\ Len(<<>>) <= StreamBuffer
      BY LiveAssumption
    <3> QED
      BY <3>1, <3>2, <1>t DEF TabsTypeOK
  <2>6. lock' \in Requests \cup {NoLock} /\ LoopHoldsLock'
    <3>1. lock' = IF lock \in {<<t, a>> : a \in Attempts} THEN NoLock ELSE lock
      BY <1>4 DEF ClosePage
    <3>2. \A u \in Tabs, b \in Attempts : att'[u][b].pc \in Running => u # t /\ att'[u][b] = att[u][b]
      BY <2>2, <2>3, <1>t, NoTryIs DEF TabsTypeOK
    <3>3. browser' = browser
      BY <1>4, <1>m DEF ClosePage
    <3> QED
      BY <3>1, <3>2, <3>3, <1>t DEF TabsTypeOK, LoopHoldsLock
  <2> QED
    BY <1>4, <1>m, <2>1, <2>3, <2>4, <2>5, <2>6, <1>t DEF ClosePage, TabsTypeOK
<1>5. ASSUME NEW t \in Tabs, Hide(t) PROVE TabsTypeOK' /\ LoopHoldsLock'
  BY <1>5, <1>m, <1>t DEF Hide, TabsTypeOK, LoopHoldsLock
<1>6. ASSUME NEW t \in Tabs, Show(t) PROVE TabsTypeOK' /\ LoopHoldsLock'
  <2>1. page' \in [Tabs -> {"closed", "visible", "hidden"}] /\ timer' \in [Tabs -> BOOLEAN]
    BY <1>6, <1>t DEF Show, TabsTypeOK
  <2>2. /\ ctl' \in [Tabs -> Attempts \cup {NoAttempt}] /\ att' \in [Tabs -> [Attempts -> Try]]
        /\ inbox' \in [Tabs -> Seq(Messages)] /\ lock' = lock /\ LoopHoldsLock'
    <3>1. CASE online[t]
      BY <1>6, <1>m, <3>1, StartIs DEF Show
    <3>2. CASE ~online[t]
      BY <1>6, <1>m, <1>t, <3>2, StopIs DEF Show, TabsTypeOK
    <3> QED
      BY <3>1, <3>2
  <2> QED
    BY <1>6, <1>m, <2>1, <2>2, <1>t DEF Show, TabsTypeOK
<1>7. ASSUME NEW t \in Tabs, GoOffline(t) PROVE TabsTypeOK' /\ LoopHoldsLock'
  <2>1. /\ ctl' \in [Tabs -> Attempts \cup {NoAttempt}] /\ att' \in [Tabs -> [Attempts -> Try]]
        /\ inbox' = inbox /\ lock' = lock /\ LoopHoldsLock'
    BY <1>7, <1>m, StopIs DEF GoOffline
  <2>2. online' \in [Tabs -> BOOLEAN]
    BY <1>7, <1>t DEF GoOffline, TabsTypeOK
  <2> QED
    BY <1>7, <1>m, <2>1, <2>2, <1>t DEF GoOffline, TabsTypeOK
<1>8. ASSUME NEW t \in Tabs, GoOnline(t) PROVE TabsTypeOK' /\ LoopHoldsLock'
  <2>1. online' \in [Tabs -> BOOLEAN] /\ timer' \in [Tabs -> BOOLEAN]
    BY <1>8, <1>t DEF GoOnline, TabsTypeOK
  <2>2. /\ ctl' \in [Tabs -> Attempts \cup {NoAttempt}] /\ att' \in [Tabs -> [Attempts -> Try]]
        /\ inbox' \in [Tabs -> Seq(Messages)] /\ lock' = lock /\ LoopHoldsLock'
    <3>1. CASE page[t] = "hidden"
      BY <1>8, <1>m, <1>t, <3>1 DEF GoOnline, TabsTypeOK, LoopHoldsLock
    <3>2. CASE page[t] # "hidden"
      BY <1>8, <1>m, <3>2, StartIs DEF GoOnline
    <3> QED
      BY <3>1, <3>2
  <2> QED
    BY <1>8, <1>m, <2>1, <2>2, <1>t DEF GoOnline, TabsTypeOK
<1>9. ASSUME NEW t \in Tabs, HiddenTooLong(t) PROVE TabsTypeOK' /\ LoopHoldsLock'
  <2>1. /\ ctl' \in [Tabs -> Attempts \cup {NoAttempt}] /\ att' \in [Tabs -> [Attempts -> Try]]
        /\ inbox' = inbox /\ lock' = lock /\ LoopHoldsLock'
    BY <1>9, StopIs DEF HiddenTooLong
  <2>2. timer' \in [Tabs -> BOOLEAN]
    BY <1>9, <1>t DEF HiddenTooLong, TabsTypeOK
  <2> QED
    BY <1>9, <2>1, <2>2, <1>t DEF HiddenTooLong, TabsTypeOK

<1>10. ASSUME NEW t \in Tabs, HandleSyncMessage(t) PROVE TabsTypeOK' /\ LoopHoldsLock'
  <2> DEFINE kind == Head(inbox[t])[1]
             from == Head(inbox[t])[2]
             rest == [inbox EXCEPT ![t] = Tail(@)]
  <2>0. inbox[t] # <<>> /\ UNCHANGED <<page, timer, online, ctl, att, lock, stream, broken, browser, changes, faults, moves, session>>
    BY <1>10 DEF HandleSyncMessage
  <2>1. from \in Tabs /\ rest \in [Tabs -> Seq(Messages)]
    <3>1. inbox[t] \in Seq(Messages) /\ Head(inbox[t]) \in Messages /\ Tail(inbox[t]) \in Seq(Messages)
      BY <2>0, <1>t DEF TabsTypeOK
    <3>2. Head(inbox[t])[2] \in Tabs
      BY <3>1 DEF Messages
    <3> QED
      BY <3>1, <3>2, <1>t DEF TabsTypeOK
  <2>2. CASE kind = "connected"
    <3>1. /\ IF once[t] THEN Invalidate(t, Data) ELSE UNCHANGED <<stale, early>>
          /\ once' = [once EXCEPT ![t] = TRUE] /\ inbox' = rest
      BY <1>10, <2>2, LiveAssumption DEF HandleSyncMessage
    <3>2. stale' \in [Tabs -> SUBSET Data] /\ early' \in [Tabs -> SUBSET Data]
      BY <3>1, <1>i, <1>t DEF TabsTypeOK
    <3> QED
      BY <2>0, <2>1, <3>1, <3>2, <1>t DEF TabsTypeOK, LoopHoldsLock
  <2>3. CASE kind # "connected" /\ kind \in Kinds
    <3>1. Invalidate(t, Handled(kind)) /\ once' = [once EXCEPT ![t] = TRUE] /\ inbox' = rest
      BY <1>10, <2>3 DEF HandleSyncMessage
    <3>2. stale' \in [Tabs -> SUBSET Data] /\ early' \in [Tabs -> SUBSET Data]
      BY <3>1, <1>i
    <3> QED
      BY <2>0, <2>1, <3>1, <3>2, <1>t DEF TabsTypeOK, LoopHoldsLock
  <2>4. CASE kind # "connected" /\ kind \notin Kinds
    <3>1. /\ inbox' = IF \E a \in Attempts : att[t][a].pc = "connected"
                      THEN [rest EXCEPT ![from] = Append(@, <<"connected", t>>)] ELSE rest
          /\ UNCHANGED <<stale, early, once>>
      BY <1>10, <2>4 DEF HandleSyncMessage
    <3>2. <<"connected", t>> \in Messages
      BY DEF Messages
    <3> HIDE DEF rest, from
    <3>3. inbox' \in [Tabs -> Seq(Messages)]
      BY <2>1, <3>1, <3>2
    <3> QED
      BY <2>0, <3>1, <3>3, <1>t DEF TabsTypeOK, LoopHoldsLock
  <2> QED
    BY <2>2, <2>3, <2>4
<1>11. ASSUME NEW t \in Tabs, NEW a \in Attempts, Settle(t, a) PROVE TabsTypeOK' /\ LoopHoldsLock'
  <2>1. ctl' \in [Tabs -> Attempts \cup {NoAttempt}]
    BY <1>11, <1>t DEF Settle, TabsTypeOK
  <2> QED
    BY <1>11, <2>1, <1>t, NoTryIs DEF Settle, TabsTypeOK, LoopHoldsLock
<1>12. ASSUME NEW t \in Tabs, NEW a \in Attempts, Granted(t, a) PROVE TabsTypeOK' /\ LoopHoldsLock'
  <2>0. /\ UNCHANGED <<page, timer, online, once, inbox, stream, broken, stale, early, browser, changes, faults, moves, session>>
        /\ browser.coordinate => lock = NoLock
    BY <1>12 DEF Granted
  <2>1. CASE Eligible(t)
    <3> DEFINE q == [att[t][a] EXCEPT !.pc = "connecting"]
    <3>1. /\ att' = [att EXCEPT ![t][a] = q] /\ ctl' = ctl
          /\ lock' = IF browser.coordinate THEN <<t, a>> ELSE lock
      BY <1>12, <2>1, <1>t DEF Granted, TabsTypeOK
    <3>2. q \in Try
      <4>1. att[t][a] \in Try /\ "connecting" \in {"none", "queued", "closing"} \cup Running
        BY <1>t DEF TabsTypeOK, Running
      <4> QED
        BY <4>1, TryChanged
    <3> HIDE DEF q
    <3>3. att' \in [Tabs -> [Attempts -> Try]] /\ lock' \in Requests \cup {NoLock}
      BY <3>1, <3>2, <1>t DEF TabsTypeOK, Requests
    <3>4. LoopHoldsLock'
      <4> SUFFICES ASSUME browser.coordinate, NEW u \in Tabs, NEW b \in Attempts, att'[u][b].pc \in Running
                   PROVE  <<u, b>> = <<t, a>>
        BY <2>0, <3>1 DEF LoopHoldsLock
      <4>1. <<u, b>> # <<t, a>> => att'[u][b] = att[u][b]
        BY <3>1, <1>t DEF TabsTypeOK
      <4>2. NoLock # <<u, b>>
        BY DEF NoLock
      <4> QED
        BY <2>0, <4>1, <4>2, <1>t DEF LoopHoldsLock
    <3> QED
      BY <2>0, <3>1, <3>3, <3>4, <1>t DEF TabsTypeOK
  <2>2. CASE ~Eligible(t)
    <3>1. /\ ctl' \in [Tabs -> Attempts \cup {NoAttempt}] /\ att' \in [Tabs -> [Attempts -> Try]]
          /\ lock' \in Requests \cup {NoLock} /\ LoopHoldsLock'
      BY <1>12, <2>0, <2>2, ReturnIs DEF Granted
    <3> QED
      BY <2>0, <3>1, <1>t DEF TabsTypeOK
  <2> QED
    BY <2>1, <2>2
<1>13. ASSUME NEW t \in Tabs, NEW a \in Attempts, Connect(t, a) PROVE TabsTypeOK' /\ LoopHoldsLock'
  <2>1. att[t][a].pc \in Running /\ "connected" \in Running
    BY <1>13 DEF Connect, Running
  <2>2. att' \in [Tabs -> [Attempts -> Try]] /\ LoopHoldsLock'
    BY <1>13, <2>1, <1>a DEF Connect
  <2>3. stale' \in [Tabs -> SUBSET Data] /\ early' \in [Tabs -> SUBSET Data]
    BY <1>13, <1>i, <1>t DEF Connect, TabsTypeOK
  <2>4. /\ stream' \in [Tabs -> [Attempts -> Seq(Kinds)]]
        /\ \A u \in Tabs, b \in Attempts : Len(stream'[u][b]) <= StreamBuffer
    BY <1>13, <1>e DEF Connect
  <2>5. once' \in [Tabs -> BOOLEAN] /\ broken' \in [Tabs -> [Attempts -> BOOLEAN]]
    BY <1>13, <1>t DEF Connect, TabsTypeOK
  <2>6. inbox' \in [Tabs -> Seq(Messages)]
    BY <1>13, <1>t, PostIs DEF Connect
  <2> QED
    BY <1>13, <2>2, <2>3, <2>4, <2>5, <2>6, <1>t DEF Connect, TabsTypeOK
<1>14. ASSUME NEW t \in Tabs, NEW a \in Attempts, ConnectFails(t, a) PROVE TabsTypeOK' /\ LoopHoldsLock'
  <2>1. att[t][a].pc \in Running /\ "waiting" \in Running
    BY <1>14 DEF ConnectFails, Running
  <2>2. att' \in [Tabs -> [Attempts -> Try]] /\ LoopHoldsLock'
    BY <1>14, <2>1, <1>a DEF ConnectFails
  <2> QED
    BY <1>14, <1>f, <2>2, <1>t DEF ConnectFails, TabsTypeOK
<1>15. ASSUME NEW t \in Tabs, NEW a \in Attempts, NoToken(t, a) PROVE TabsTypeOK' /\ LoopHoldsLock'
  <2>1. att[t][a].pc \in Running
    BY <1>15 DEF NoToken, Running
  <2>2. /\ ctl' \in [Tabs -> Attempts \cup {NoAttempt}] /\ att' \in [Tabs -> [Attempts -> Try]]
        /\ lock' \in Requests \cup {NoLock} /\ LoopHoldsLock'
    BY <1>15, <2>1, ReturnIs DEF NoToken
  <2> QED
    BY <1>15, <2>2, <1>t DEF NoToken, TabsTypeOK
<1>16. ASSUME NEW t \in Tabs, NEW a \in Attempts, Deliver(t, a) PROVE TabsTypeOK' /\ LoopHoldsLock'
  <2>0. stream[t][a] # <<>> /\ stream[t][a] \in Seq(Kinds) /\ Len(stream[t][a]) <= StreamBuffer
    BY <1>16, <1>t DEF Deliver, TabsTypeOK
  <2>1. Head(stream[t][a]) \in Kinds /\ Tail(stream[t][a]) \in Seq(Kinds) /\ Len(Tail(stream[t][a])) <= StreamBuffer
    BY <2>0, LiveAssumption
  <2>2. inbox' \in [Tabs -> Seq(Messages)]
    BY <1>16, <2>1, <1>t, PostIs DEF Deliver
  <2>3. stale' \in [Tabs -> SUBSET Data] /\ early' \in [Tabs -> SUBSET Data]
    BY <1>16, <1>i DEF Deliver
  <2>4. /\ stream' \in [Tabs -> [Attempts -> Seq(Kinds)]]
        /\ \A u \in Tabs, b \in Attempts : Len(stream'[u][b]) <= StreamBuffer
    BY <1>16, <2>1, <1>t DEF Deliver, TabsTypeOK
  <2> QED
    BY <1>16, <2>2, <2>3, <2>4, <1>t DEF Deliver, TabsTypeOK, LoopHoldsLock
<1>17. ASSUME NEW t \in Tabs, NEW a \in Attempts, StreamEnds(t, a) PROVE TabsTypeOK' /\ LoopHoldsLock'
  <2>1. att[t][a].pc \in Running /\ "waiting" \in Running
    BY <1>17 DEF StreamEnds, Running
  <2>2. att' \in [Tabs -> [Attempts -> Try]] /\ LoopHoldsLock'
    BY <1>17, <2>1, <1>a DEF StreamEnds
  <2>3. /\ stream' \in [Tabs -> [Attempts -> Seq(Kinds)]]
        /\ \A u \in Tabs, b \in Attempts : Len(stream'[u][b]) <= StreamBuffer
    BY <1>17, <1>e DEF StreamEnds
  <2> QED
    BY <1>17, <2>2, <2>3, <1>t DEF StreamEnds, TabsTypeOK
<1>18. ASSUME NEW t \in Tabs, NEW a \in Attempts, Retry(t, a) PROVE TabsTypeOK' /\ LoopHoldsLock'
  <2>1. att[t][a].pc \in Running /\ "connecting" \in Running
    BY <1>18 DEF Retry, Running
  <2>2. att' \in [Tabs -> [Attempts -> Try]] /\ LoopHoldsLock'
    BY <1>18, <2>1, <1>a DEF Retry
  <2> QED
    BY <1>18, <2>2, <1>t DEF Retry, TabsTypeOK
<1>19. ASSUME NEW t \in Tabs, NEW a \in Attempts, LoopEnds(t, a) PROVE TabsTypeOK' /\ LoopHoldsLock'
  <2>1. /\ ctl' \in [Tabs -> Attempts \cup {NoAttempt}] /\ att' \in [Tabs -> [Attempts -> Try]]
        /\ lock' \in Requests \cup {NoLock} /\ LoopHoldsLock'
    BY <1>19, ReturnIs DEF LoopEnds
  <2>2. /\ stream' \in [Tabs -> [Attempts -> Seq(Kinds)]]
        /\ \A u \in Tabs, b \in Attempts : Len(stream'[u][b]) <= StreamBuffer
    BY <1>19, <1>e DEF LoopEnds
  <2> QED
    BY <1>19, <2>1, <2>2, <1>t DEF LoopEnds, TabsTypeOK
<1>20. ASSUME NEW t \in Tabs, NEW a \in Attempts, DropStream(t, a) PROVE TabsTypeOK' /\ LoopHoldsLock'
  <2>1. broken' \in [Tabs -> [Attempts -> BOOLEAN]]
    BY <1>20, <1>t DEF DropStream, TabsTypeOK
  <2> QED
    BY <1>20, <1>f, <2>1, <1>t DEF DropStream, TabsTypeOK, LoopHoldsLock
<1>21. ASSUME UNCHANGED tabVars PROVE TabsTypeOK' /\ LoopHoldsLock'
  BY <1>21, <1>t DEF tabVars, TabsTypeOK, LoopHoldsLock
<1> QED
  BY <1>1, <1>2, <1>3, <1>4, <1>5, <1>6, <1>7, <1>8, <1>9, <1>10, <1>11, <1>12, <1>13, <1>14, <1>15, <1>16,
     <1>17, <1>18, <1>19, <1>20, <1>21 DEF TabsNext, UserMove, LoopStep

\* However tabs open, hide, close, lose the network and compete for the lock, in any
\* number: among tabs that coordinate at most one reads the event stream.
THEOREM OneTabListens == TabsSpec => []TabsSafe
<1>1. TabsInv => TabsSafe
  BY DEF TabsInv
<1> QED
  BY <1>1, TabsInvInit, TabsStep, PTL DEF TabsSpec
=============================================================================
