----------------------------- MODULE SpaceScope -----------------------------
(* Which Space the web client shows (SpaceContext.tsx, pages/Space.tsx): the *)
(* address, the selection remembered in the session storage, the queries     *)
(* that tell whether a Space is still there, and the effects that bring the  *)
(* address and the selection together.                                       *)
(*                                                                           *)
(* A Space is addressed by its id; custom addresses, titles and the list of  *)
(* the switcher only change what is displayed. A page is "home" (a           *)
(* collection that shows the scope), "archived" (a collection link that does *)
(* not) or "memo" (any page outside the collections). A navigation that has  *)
(* to load code or data is a step of its own: until it lands the old page    *)
(* stays and works.                                                          *)
EXTENDS Naturals

CONSTANTS
    Spaces,
    None,           \* no Space: All
    Patient,        \* the visitor waits until a page has settled
    Losses,         \* answers may be lost
    MaxMoves        \* bound on what the visitor and the server's other users do

VARIABLES
    access,     \* the Spaces the server lets the visitor see
    path,       \* the address shown
    nav,        \* the navigation under way
    stored,     \* the selection: React state and session storage, always written together
    query,      \* the cached answers of useBatchSpaces([s]) and useSpace(s)
    due,        \* the queries being fetched
    old,        \* the queries past their staleTime
    navSeen,    \* what the navigation effect last ran for
    pageSeen,   \* the address the effect of the Space page last ran for
    asked,      \* ghost: the scope the visitor chose last
    moves

vars == <<access, path, nav, stored, query, due, old, navSeen, pageSeen, asked, moves>>

Scopes == Spaces \cup {None}
Pages == {"home", "archived", "memo"}
Paths == [space : Scopes, page : Pages]
NoPath == [space |-> None, page |-> "none"]
Keys == {"batch", "detail"} \X Spaces
Nothing == [data |-> "none", err |-> FALSE]
Answers == [data : {"none", "ok", "empty"}, err : BOOLEAN]

-----------------------------------------------------------------------------
(* Addresses (space-routes.ts)                                               *)

IsCollection(p) == p \in {"home", "archived"}

\* getSpaceNavigationPath: only collections get the prefix of the Space.
InSpace(s, p) == [space |-> IF IsCollection(p) THEN s ELSE None, page |-> p]

-----------------------------------------------------------------------------
(* What SpaceSession derives at every render                                 *)

selectedSpaceName == IF path.space # None THEN path.space ELSE stored

Success(k) == query[k].data # "none" /\ ~query[k].err

\* Mutant: a failed query counts as an answer.
GoneOrFailed == stored # None /\ (Success(<<"batch", stored>>) => query[<<"batch", stored>>].data = "empty")

\* The answer that proves a remembered Space unavailable.
ConfirmedGone == stored # None /\ Success(<<"batch", stored>>) /\ query[<<"batch", stored>>].data = "empty"

Observed == (IF path.space = None THEN {} ELSE {<<"detail", path.space>>})
            \cup (IF stored = None THEN {} ELSE {<<"batch", stored>>})

\* A query mounted with no data, or with data past its staleTime, is fetched.
Mount == due' = due \cup {k \in Observed' \ Observed : query'[k].data = "none" \/ k \in old'}

NavDeps == <<selectedSpaceName, path, ConfirmedGone>>
NavPending == navSeen # NavDeps

space == path.space # None /\ Success(<<"detail", path.space>>)
PagePending == space /\ pageSeen # path

EffectsPending == NavPending \/ PagePending

-----------------------------------------------------------------------------
(* Effects                                                                   *)

Redirected == InSpace(selectedSpaceName, path.page)

\* Mutant: the remembered selection waits for its answer before it reaches the address.
SessionEffectsLate ==
    /\ NavPending
    /\ navSeen' = NavDeps
    /\ nav' = IF selectedSpaceName # None /\ path.space = None /\ Success(<<"batch", stored>>)
                 /\ ~ConfirmedGone /\ Redirected # path
              THEN Redirected ELSE nav
    /\ stored' = IF path.space = None /\ ConfirmedGone THEN None ELSE stored
    /\ asked' = IF stored' # stored /\ asked = stored /\ nav.space # stored /\ stored \notin access THEN None ELSE asked
    /\ UNCHANGED <<access, path, query, old, pageSeen, moves>>
    /\ Mount

\* The two effects of SpaceSession on the render just committed: collection pages
\* move under the selected Space, and a selection proved stale is dropped.
SessionEffects ==
    /\ NavPending
    /\ navSeen' = NavDeps
    /\ nav' = IF selectedSpaceName # None /\ path.space = None /\ ~ConfirmedGone /\ Redirected # path
              THEN Redirected ELSE nav
    /\ stored' = IF path.space = None /\ ConfirmedGone THEN None ELSE stored
    /\ asked' = IF stored' # stored /\ asked = stored /\ nav.space # stored /\ stored \notin access THEN None ELSE asked
    /\ UNCHANGED <<access, path, query, old, pageSeen, moves>>
    /\ Mount

\* Mutant: the page resolves the Space and goes on to the plain collection.
PageEffectRedirects ==
    /\ PagePending
    /\ pageSeen' = path
    /\ stored' = path.space
    /\ nav' = [path EXCEPT !.space = None]
    /\ UNCHANGED <<access, path, query, old, navSeen, asked, moves>>
    /\ Mount

\* The effect of the Space page: once loaded, the Space of the address is selected.
\* (Its own address is the destination, so selectSpace navigates nowhere.)
PageEffect ==
    /\ PagePending
    /\ pageSeen' = path
    /\ stored' = path.space
    /\ UNCHANGED <<access, path, nav, query, old, navSeen, asked, moves>>
    /\ Mount

-----------------------------------------------------------------------------
(* The router and the queries; a commit flushes the effects of the last one  *)

\* Opening the address shows an old refusal and asks no further.
Refusal(s) == query[<<"detail", s>>].err /\ <<"detail", s>> \notin due'

Land ==
    /\ nav # NoPath /\ ~EffectsPending
    /\ path' = nav
    /\ nav' = NoPath
    /\ pageSeen' = IF nav = path THEN pageSeen ELSE NoPath
    /\ UNCHANGED <<access, stored, query, old, navSeen, moves>>
    /\ Mount
    /\ asked' = IF asked = nav.space /\ nav.space # None /\ Refusal(nav.space) THEN stored ELSE asked

\* An address that cannot be opened is no choice: the earlier one stands, unless
\* a later answer opens it after all.
Refused(k) == IF k[1] = "detail" /\ asked = k[2] /\ path.space = k[2] THEN stored ELSE asked

\* getSpace denies a Space that is gone, batchGetSpaces leaves it out. A getSpace
\* that brings a changed Space runs the effect of the page again.
Answer(k) ==
    LET ok == k[2] \in access
        data == IF ok THEN "ok" ELSE IF k[1] = "batch" THEN "empty" ELSE query[k].data
    IN  /\ k \in due /\ ~EffectsPending
        /\ due' = due \ {k}
        /\ old' = old \ {k}
        /\ query' = [query EXCEPT ![k] = [data |-> data, err |-> k[1] = "detail" /\ ~ok]]
        /\ \/ pageSeen' = NoPath /\ k = <<"detail", path.space>>
           \/ pageSeen' = pageSeen /\ (k = <<"detail", path.space>> => query' = query)
        /\ asked' = IF ~ok THEN Refused(k)
                    ELSE IF k = <<"detail", path.space>> /\ query[k].err /\ nav = NoPath THEN k[2] ELSE asked
        /\ UNCHANGED <<access, path, nav, stored, navSeen, moves>>

Fail(k) ==
    /\ Losses /\ k \in due /\ ~EffectsPending
    /\ due' = due \ {k}
    /\ query' = [query EXCEPT ![k].err = TRUE]
    /\ pageSeen' = IF k = <<"detail", path.space>> THEN NoPath ELSE pageSeen
    /\ asked' = Refused(k)
    /\ UNCHANGED <<access, path, nav, stored, old, navSeen, moves>>

-----------------------------------------------------------------------------
(* The visitor                                                               *)

Move ==
    /\ moves > 0 /\ ~EffectsPending
    /\ Patient => nav = NoPath /\ due = {}
    /\ moves' = moves - 1

\* Five minutes pass and the visitor returns to the tab.
Return ==
    /\ Move
    /\ old' = {k \in Keys : query[k].data # "none"}
    /\ due' = due \cup (Observed \cap old')
    /\ UNCHANGED <<access, path, nav, stored, query, navSeen, pageSeen, asked>>

Unchosen == <<access, path, query, old, navSeen, pageSeen>>

\* A Space of the switcher, or one just created.
selectSpace(s) ==
    LET target == InSpace(s, IF IsCollection(path.page) THEN path.page ELSE "home")
    IN  /\ Move /\ s \in access
        /\ stored' = s /\ asked' = s
        /\ nav' = IF path # target THEN target ELSE nav
        /\ UNCHANGED Unchosen
        /\ Mount

\* All: the lens stays, other pages fall back to the visitor's memos.
selectMemos ==
    /\ Move
    /\ stored' = None /\ asked' = None
    /\ nav' = IF path.space # None THEN [space |-> None, page |-> path.page]
              ELSE IF path.page # "home" THEN [space |-> None, page |-> "home"] ELSE nav
    /\ UNCHANGED Unchosen
    /\ Mount

\* clearSelectedSpace on a page outside the collections: quick find for everything,
\* or leaving a memo that was opened from All.
clearSelectedSpace ==
    /\ Move /\ path.page = "memo"
    /\ stored' = None /\ asked' = None
    /\ nav' = [space |-> None, page |-> "home"]
    /\ UNCHANGED Unchosen
    /\ Mount

\* A link of the sidebar; on a Space's page its collections are the Space's.
Go(p) ==
    /\ Move
    /\ nav' = InSpace(selectedSpaceName, p)
    /\ asked' = IF path.space # None /\ IsCollection(p) THEN path.space ELSE asked
    /\ UNCHANGED <<stored, due>> /\ UNCHANGED Unchosen

\* A link to a Space, or one step back to it.
OpenSpace(s) ==
    /\ Move /\ path # InSpace(s, "home")
    /\ nav' = InSpace(s, "home")
    /\ asked' = s
    /\ UNCHANGED <<stored, due>> /\ UNCHANGED Unchosen

Reload ==
    /\ Move
    /\ nav' = NoPath
    /\ query' = [k \in Keys |-> Nothing]
    /\ due' = Observed
    /\ old' = {}
    /\ navSeen' = <<>>
    /\ pageSeen' = NoPath
    /\ asked' = selectedSpaceName
    /\ UNCHANGED <<access, path, stored>>

\* useDeleteSpace, and useDeleteSpaceMember of oneself, from the settings.
LeaveSpace(s) ==
    /\ Move /\ path.page = "memo" /\ s \in access
    /\ access' = access \ {s}
    /\ query' = [query EXCEPT ![<<"detail", s>>] = Nothing]
    /\ due' = due \ {<<"detail", s>>}
    /\ UNCHANGED <<path, nav, stored, old, navSeen, pageSeen, asked>>

\* Somebody else deletes the Space or removes the visitor from it.
Revoke(s) ==
    /\ moves > 0 /\ s \in access
    /\ moves' = moves - 1
    /\ access' = access \ {s}
    /\ UNCHANGED <<path, nav, stored, query, due, old, navSeen, pageSeen, asked>>

-----------------------------------------------------------------------------
Init ==
    /\ access \in SUBSET Spaces
    /\ stored \in Scopes
    /\ path \in {p \in Paths : p.space # None => IsCollection(p.page)}
    /\ nav = NoPath
    /\ query = [k \in Keys |-> Nothing]
    /\ due = Observed
    /\ old = {}
    /\ navSeen = <<>> /\ pageSeen = NoPath
    /\ asked = selectedSpaceName
    /\ moves = MaxMoves

Next ==
    \/ SessionEffects \/ PageEffect \/ Land \/ Return
    \/ \E k \in Keys : Answer(k) \/ Fail(k)
    \/ \E s \in Spaces : selectSpace(s) \/ OpenSpace(s) \/ LeaveSpace(s) \/ Revoke(s)
    \/ \E p \in Pages : Go(p)
    \/ selectMemos \/ clearSelectedSpace \/ Reload

\* Effects are flushed, pages load, and a request is answered or fails.
Fairness ==
    /\ WF_vars(SessionEffects) /\ WF_vars(PageEffect) /\ WF_vars(Land)
    /\ \A k \in Keys : WF_vars(Answer(k) \/ Fail(k))

Spec == Init /\ [][Next]_vars /\ Fairness

-----------------------------------------------------------------------------
(* Properties                                                                *)

TypeOK ==
    /\ access \subseteq Spaces
    /\ path \in {p \in Paths : p.space # None => IsCollection(p.page)}
    /\ nav \in Paths \cup {NoPath}
    /\ stored \in Scopes /\ asked \in Scopes
    /\ query \in [Keys -> Answers]
    /\ due \subseteq Keys /\ old \subseteq Keys
    /\ moves \in 0 .. MaxMoves

\* The page shows its content and not that the Space is unavailable.
Shown == path.space # None => Success(<<"detail", path.space>>)

AtRest == nav = NoPath /\ ~EffectsPending

\* The address tells the scope: once the effects have run and no navigation is
\* under way, no collection is shown filtered by a Space its address does not
\* carry, so a reload or a copied link shows the same.
UrlTellsScope == AtRest /\ IsCollection(path.page) => selectedSpaceName = path.space

\* Normal navigation never changes the selected Space: at rest the scope is the
\* one the visitor chose last, unless that Space could not be opened or was
\* proved gone.
ScopeAsked == AtRest /\ due = {} /\ Shown => selectedSpaceName = asked

\* All stays All: after the visitor chose All no effect and no late answer
\* selects a Space again.
AllKept == AtRest /\ Shown /\ asked = None => selectedSpaceName = None

\* No effect opens the address of a Space the server would refuse: the stale
\* selection of an earlier session is dropped where it is.
DeadNotOpened == [][nav' # nav /\ moves' = moves /\ nav' # NoPath => nav'.space \in access]_vars

\* No redirect fights another: when the visitor stops the address settles.
Settles == <>[](AtRest)
=============================================================================
