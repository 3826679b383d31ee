------------------------------ MODULE SSEHub ------------------------------
(***************************************************************************)
(* Live refresh: the hub that fans change events out to the SSE            *)
(* connections, the request goroutines that publish after a mutation, and  *)
(* the connection goroutines that read.  publishFrame holds the read lock  *)
(* while it offers a frame to one client after another; attaching,         *)
(* unsubscribing and closing take the write lock and are one step each.    *)
(* A client is one connection: reconnecting makes a new one.               *)
(***************************************************************************)
EXTENDS Integers, Sequences, FiniteSets

CONSTANTS Clients,       \* connections that may be opened
          Publishers,    \* request goroutines
          Users,         \* ids of signed-in users
          UserOf,        \* the user each connection authenticates as
          Admins,        \* users whose role was ADMIN when they connected
          BufferSize,    \* sseClientEventBufferSize
          MaxMutations   \* bound: mutations in a behaviour

Anonymous == 0           \* userID of a client without identity

ASSUME HubAssumption ==
  /\ BufferSize \in Nat \ {0} /\ MaxMutations \in Nat
  /\ UserOf \in [Clients -> Users \cup {Anonymous}]

VARIABLES attached,   \* h.clients
          closed,     \* h.closed
          channel,    \* per client: its channels are not made, open or closed
          buffer,     \* per client: frames in its events channel
          reading,    \* clients whose handler goroutine runs
          pub,        \* per publisher: what it still has to do
          missed,     \* clients a frame meant for them did not fit
          panicked,   \* a send on, or a second close of, a closed channel
          mutations   \* mutations so far

clientVars == <<attached, closed, channel, buffer, reading, panicked>>
hubVars == <<clientVars, pub, missed, mutations>>

----------------------------------------------------------------------------
(* Frames.  audience says which clients publishFrame's filter lets pass.   *)

Frame(type, audience, creator) ==
  [type |-> type, audience |-> audience, creator |-> creator]

\* Broadcast: a SPACE memo is announced without its name.  The creator is part
\* of the frame only where the filter looks at it.
BroadcastFrame(visibility, creator) ==
  CASE visibility = "SPACE"   -> Frame("memo.changed", "SIGNED_IN", Anonymous)
    [] visibility = "PRIVATE" -> Frame("memo", "PRIVATE", creator)
    [] OTHER                  -> Frame("memo", visibility, Anonymous)
MemoChanged == Frame("memo.changed", "ANONYMOUS", Anonymous)
SpaceChanged == Frame("space.changed", "ALL", Anonymous)

MayReceive(c, f) ==
  CASE f.audience = "PRIVATE" ->
         /\ UserOf[c] # Anonymous
         /\ UserOf[c] = f.creator \/ UserOf[c] \in Admins
    [] f.audience \in {"PUBLIC", "PROTECTED", "SIGNED_IN"} -> UserOf[c] # Anonymous
    [] f.audience = "ANONYMOUS" -> UserOf[c] = Anonymous
    [] OTHER -> TRUE

\* What the handlers publish: creating, updating and commenting broadcast and
\* refresh, publishing or withdrawing a draft only broadcasts, deleting,
\* restoring, reacting, voting and attaching only refresh.
FramesOf(kind, visibility, creator) ==
  CASE kind = "save"  -> <<BroadcastFrame(visibility, creator), MemoChanged>>
    [] kind = "draft" -> <<BroadcastFrame(visibility, creator)>>
    [] kind = "touch" -> <<MemoChanged>>
    [] OTHER          -> <<SpaceChanged>>
MemoKinds == {"save", "draft", "touch"}

Idle == [phase |-> "idle", frames |-> <<>>, todo |-> {}, slow |-> {}, owed |-> {}]

\* The connections that should hear of a memo's change: those of users who may
\* read it.  (Kept to state ChangeReachesClients; the code has no such list.)
OwedTo(kind, visibility, creator) ==
  {c \in attached : kind \in MemoKinds /\ (visibility = "PRIVATE" => UserOf[c] = creator)}

\* Frames, and what a publisher can be at.
Frames ==
  [type : {"memo", "memo.changed", "space.changed"}, creator : Users \cup {Anonymous},
   audience : {"PRIVATE", "PUBLIC", "SIGNED_IN", "ANONYMOUS", "ALL"}]
Jobs ==
  [phase : {"idle", "run", "send"}, frames : Seq(Frames),
   todo : SUBSET Clients, slow : SUBSET Clients, owed : SUBSET Clients]

TypeOK ==
  /\ attached \subseteq Clients /\ reading \subseteq Clients /\ missed \subseteq Clients
  /\ closed \in BOOLEAN /\ panicked \in BOOLEAN
  /\ channel \in [Clients -> {"none", "open", "closed"}]
  /\ buffer \in [Clients -> Seq(Frames)]
  /\ \A c \in Clients : Len(buffer[c]) <= BufferSize
  /\ pub \in [Publishers -> Jobs]
  /\ mutations \in 0..MaxMutations

----------------------------------------------------------------------------
(* The hub's own steps.                                                    *)

\* Taking the write lock waits for every publishFrame loop.
CanLock == \A p \in Publishers : pub[p].phase # "send"

\* Mutant: the map lookup that makes a second Unsubscribe harmless is gone.
RemoveUnchecked(c) ==
  /\ attached' = attached \ {c}
  /\ channel' = [channel EXCEPT ![c] = "closed"]
  /\ panicked' = (panicked \/ channel[c] = "closed")

\* Mutant: the client is closed and left in the map.
RemoveKeepsEntry(c) ==
  IF c \in attached
  THEN /\ channel' = [channel EXCEPT ![c] = "closed"]
       /\ panicked' = (panicked \/ channel[c] = "closed")
       /\ UNCHANGED attached
  ELSE UNCHANGED <<attached, channel, panicked>>

\* The body of Unsubscribe.
Remove(c) ==
  IF c \in attached
  THEN /\ attached' = attached \ {c}
       /\ channel' = [channel EXCEPT ![c] = "closed"]
       /\ panicked' = (panicked \/ channel[c] = "closed")
  ELSE UNCHANGED <<attached, channel, panicked>>

\* handleSSE turns an anonymous caller away, so no connection has userID 0.
AttachClient(c) ==
  /\ UserOf[c] # Anonymous
  /\ channel[c] = "none"
  /\ CanLock
  /\ reading' = reading \cup {c}
  /\ IF closed THEN channel' = [channel EXCEPT ![c] = "closed"] /\ UNCHANGED attached
     ELSE channel' = [channel EXCEPT ![c] = "open"] /\ attached' = attached \cup {c}
  /\ UNCHANGED <<closed, buffer, panicked, pub, missed, mutations>>

Close ==
  /\ CanLock
  /\ ~closed
  /\ closed' = TRUE
  /\ channel' = [c \in Clients |-> IF c \in attached THEN "closed" ELSE channel[c]]
  /\ panicked' = (panicked \/ \E c \in attached : channel[c] = "closed")
  /\ attached' = {}
  /\ UNCHANGED <<buffer, reading, pub, missed, mutations>>

----------------------------------------------------------------------------
(* The connection goroutine.                                               *)

\* select may still take a frame when done is closed as well.
Read(c) ==
  /\ c \in reading
  /\ buffer[c] # <<>>
  /\ buffer' = [buffer EXCEPT ![c] = Tail(@)]
  /\ UNCHANGED <<attached, closed, channel, reading, panicked, pub, missed, mutations>>

\* The handler returns, because done is closed or because the request ended or
\* a write failed, and its deferred Unsubscribe runs.
Leave(c) ==
  /\ c \in reading
  /\ CanLock
  /\ Remove(c)
  /\ reading' = reading \ {c}
  /\ UNCHANGED <<closed, buffer, pub, missed, mutations>>

----------------------------------------------------------------------------
(* A request that publishes after its mutation.                            *)

Mutate(p) ==
  /\ pub[p].phase = "idle"
  /\ mutations < MaxMutations
  /\ mutations' = mutations + 1
  /\ \E kind \in MemoKinds \cup {"space"}, creator \in Users,
        visibility \in {"PRIVATE", "PUBLIC", "SPACE"} :
       pub' = [pub EXCEPT ![p] =
         [Idle EXCEPT !.phase = "run",
                      !.frames = FramesOf(kind, visibility, creator),
                      !.owed = OwedTo(kind, visibility, creator)]]
  /\ UNCHANGED <<clientVars, missed>>

\* publishFrame takes the read lock; the map cannot change until it is released.
BeginPublish(p) ==
  /\ pub[p].phase = "run" /\ pub[p].slow = {} /\ pub[p].frames # <<>>
  /\ pub' = [pub EXCEPT ![p].phase = "send", ![p].todo = attached]
  /\ UNCHANGED <<clientVars, missed, mutations>>

\* Mutant: the send has no default branch and waits for room.
OfferBlocks(p, c) ==
  /\ Len(buffer[c]) < BufferSize
  /\ buffer' = [buffer EXCEPT ![c] = Append(@, Head(pub[p].frames))]
  /\ pub' = [pub EXCEPT ![p].todo = @ \ {c}, ![p].owed = @ \ {c}]
  /\ UNCHANGED missed

\* Mutant: a frame that does not fit is dropped and the client kept.
OfferDrops(p, c) ==
  /\ pub' = [pub EXCEPT ![p].todo = @ \ {c}, ![p].owed = @ \ {c}]
  /\ IF Len(buffer[c]) < BufferSize
     THEN buffer' = [buffer EXCEPT ![c] = Append(@, Head(pub[p].frames))] /\ UNCHANGED missed
     ELSE missed' = missed \cup {c} /\ UNCHANGED buffer

\* The select: into the buffer, or onto the list of slow clients.
Offer(p, c) ==
  \/ /\ Len(buffer[c]) < BufferSize
     /\ buffer' = [buffer EXCEPT ![c] = Append(@, Head(pub[p].frames))]
     /\ pub' = [pub EXCEPT ![p].todo = @ \ {c}, ![p].owed = @ \ {c}]
     /\ UNCHANGED missed
  \/ /\ Len(buffer[c]) >= BufferSize
     /\ pub' = [pub EXCEPT ![p].todo = @ \ {c}, ![p].owed = @ \ {c},
                           ![p].slow = @ \cup {c}]
     /\ missed' = missed \cup {c}
     /\ UNCHANGED buffer

\* One iteration of the loop, in the map's arbitrary order.
Send(p) ==
  /\ pub[p].phase = "send"
  /\ \E c \in pub[p].todo :
       \/ /\ MayReceive(c, Head(pub[p].frames))
          /\ Offer(p, c)
          /\ panicked' = (panicked \/ channel[c] = "closed")
       \/ /\ ~MayReceive(c, Head(pub[p].frames))
          /\ pub' = [pub EXCEPT ![p].todo = @ \ {c}]
          /\ UNCHANGED <<buffer, missed, panicked>>
  /\ UNCHANGED <<attached, closed, channel, reading, mutations>>

EndPublish(p) ==
  /\ pub[p].phase = "send" /\ pub[p].todo = {}
  /\ pub' = [pub EXCEPT ![p].phase = "run", ![p].frames = Tail(@)]
  /\ UNCHANGED <<clientVars, missed, mutations>>

\* Unsubscribe of one slow client.
Drop(p) ==
  /\ pub[p].phase = "run"
  /\ CanLock
  /\ \E c \in pub[p].slow :
       Remove(c) /\ pub' = [pub EXCEPT ![p].slow = @ \ {c}]
  /\ UNCHANGED <<closed, buffer, reading, missed, mutations>>

Finish(p) ==
  /\ pub[p].phase = "run" /\ pub[p].slow = {} /\ pub[p].frames = <<>>
  /\ pub' = [pub EXCEPT ![p] = Idle]
  /\ UNCHANGED <<clientVars, missed, mutations>>

----------------------------------------------------------------------------
Init ==
  /\ attached = {} /\ closed = FALSE /\ reading = {} /\ missed = {}
  /\ channel = [c \in Clients |-> "none"]
  /\ buffer = [c \in Clients |-> <<>>]
  /\ pub = [p \in Publishers |-> Idle]
  /\ panicked = FALSE /\ mutations = 0

Publish(p) ==
  \/ BeginPublish(p)
  \/ Send(p)
  \/ EndPublish(p)
  \/ Drop(p)
  \/ Finish(p)

Next ==
  \/ \E c \in Clients : AttachClient(c) \/ Read(c) \/ Leave(c)
  \/ \E p \in Publishers : Mutate(p) \/ Publish(p)
  \/ Close

\* A request goroutine keeps running; a client may stop reading for ever.
Spec == Init /\ [][Next]_hubVars /\ \A p \in Publishers : WF_hubVars(Publish(p))

----------------------------------------------------------------------------
(* Properties.                                                             *)

\* No frame is sent on a closed channel and no channel is closed twice, with
\* several publishers, disconnecting clients and shutdown at once.
NoPanic == ~panicked

\* "Slow clients with a full buffer are disconnected ... instead of silently
\* missing an event": a client that missed one is gone or about to be removed
\* by the publisher that could not deliver, even if it has drained since.
MissedIsDropped ==
  \A c \in missed \cap attached : \E p \in Publishers : c \in pub[p].slow

\* "so a slow client doesn't block broadcasting": a request always gets through
\* its publishing although no client ever reads.
PublishersFinish == \A p \in Publishers : pub[p].phase # "idle" ~> pub[p].phase = "idle"

\* "Authenticated subscribers receive one precise event from Broadcast
\* instead": when a request that changed a memo is through with publishing,
\* every connection that was attached all along and may read the memo has been
\* offered a frame about it.
ChangeReachesClients ==
  \A p \in Publishers :
    pub[p].phase = "run" /\ pub[p].slow = {} /\ pub[p].frames = <<>>
      => pub[p].owed \cap attached = {}

----------------------------------------------------------------------------
(* The inductive invariant behind NoPanic and MissedIsDropped.             *)

\* The channels of the clients in the map are open.
MapIsOpen == \A c \in attached : channel[c] = "open"

\* Under the read lock a publisher has a frame, and only clients of the map
\* before it; one that has not started, or is through, has nobody to drop.
LoopIsLocked ==
  \A p \in Publishers :
    /\ pub[p].phase = "send" => pub[p].todo \subseteq attached /\ pub[p].frames # <<>>
    /\ pub[p].phase = "idle" => pub[p].slow = {}

\* Only a client that was once connected can have missed anything.
MissedWasOpen == \A c \in missed : channel[c] # "none"

\* The hub is well formed: the map holds open channels, a loop under the read lock
\* has clients of it before it, and a client that missed a frame had been connected.
HubFormed == TypeOK /\ MapIsOpen /\ LoopIsLocked /\ MissedWasOpen

IInv ==
  /\ HubFormed
  /\ NoPanic /\ MissedIsDropped
=============================================================================
