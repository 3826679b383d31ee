----------------------------- MODULE MemoCache -----------------------------
(* The query cache of a memo in one tab (useMemoQueries.ts): the entry of    *)
(* the detail page and the one of the list, optimistic updates with their    *)
(* rollback, deletion with undo, refetches and the server's notices of       *)
(* changes.                                                                  *)
(*                                                                           *)
(* The cache itself is a library: an entry holds data, is marked invalid,    *)
(* and has at most one fetch, which a new invalidation restarts and a        *)
(* cancellation ends. Data that is set by hand clears the mark and lets the  *)
(* fetch run on. A memo is its fields; pages, order and the other memos of a *)
(* list are left out.                                                        *)
EXTENDS Naturals, FiniteSets

CONSTANTS
    Fields,     \* what an update may change: pinned, state, content...
    Values,     \* values of a field
    Requests,   \* the requests the user may make, each once
    MaxFetches, \* bound on the refetches that no invalidation asked for
    Overlap,    \* the user acts before the earlier request is answered and the tab told of it
    Refocus,    \* the user leaves the window and returns, which refetches
    Lossy,      \* the answer of a request that was carried out may be lost
    Others,     \* another client changes the memo
    None,       \* no data
    Gone        \* the answer about a memo that is deleted

VARIABLES
    inSpace,   \* the memo is of a Space
    memo,      \* the memo on the server
    alive,     \* and whether it is not in the trash
    entry,     \* the two entries of the cache
    page,      \* the page shown: the list or the memo
    req,       \* the requests
    notices,   \* a change of which the tab was not told yet
    spent,     \* refetches of the user's, and the change of the other client
    raced      \* history: the entries that a race may have left behind the server

vars == <<inSpace, memo, alive, entry, page, req, notices, spent, raced>>

Memo == [Fields -> Values]
Entries == {"detail", "list"}

\* What the server answers to a query.
Held == IF alive THEN memo ELSE Gone

\* A request: what it asks for, the memo kept for its rollback, how far it is, its
\* answer, whether it is sent again, and whether another was under way with it.
Idle == [kind |-> None, field |-> None, value |-> None, prev |-> None, at |-> "new", answer |-> None,
         again |-> FALSE, crossed |-> FALSE]

\* An entry without data. In the list a memo that is deleted is Gone.
Empty == [data |-> None, invalid |-> FALSE, fetch |-> "idle", got |-> None]

-----------------------------------------------------------------------------
(* The query library, as the hooks use it                                    *)

\* invalidateQueries: an entry on the page is fetched anew, another only marked.
Invalidated(e, k) ==
    [e EXCEPT ![k].invalid = TRUE, ![k].fetch = IF page = k THEN "asked" ELSE @, ![k].got = IF page = k THEN None ELSE @]

InvalidatedAll(e) == Invalidated(Invalidated(e, "detail"), "list")

\* cancelQueries: the fetches end, and the data stays as it was.
Cancelled(e) == [k \in Entries |-> [e[k] EXCEPT !.fetch = "idle", !.got = None]]

\* The query of a page that opens: fetched if it is marked or empty.
Opened(e, k) ==
    IF (e[k].invalid \/ e[k].data = None) /\ e[k].fetch = "idle" THEN [e EXCEPT ![k].fetch = "asked"] ELSE e

\* setQueryData and setQueriesData.
SetData(e, k, data) == [e EXCEPT ![k].data = data, ![k].invalid = FALSE]

\* Patched in the list, which touches the detail entry only by the mark.
Patched(e, patch) ==
    [k \in Entries |->
       IF e[k].data \in {None, Gone} THEN e[k]
       ELSE [e[k] EXCEPT !.invalid = FALSE,
                         !.data = IF k = "list" THEN [f \in Fields |-> IF f \in DOMAIN patch THEN patch[f] ELSE @[f]] ELSE @]]

\* Mutant: the list has no interval.
FetchOnFocus(k) ==
    /\ page = k /\ entry[k].fetch = "idle"
    /\ Refocus /\ spent < MaxFetches /\ spent' = spent + 1
    /\ entry' = [entry EXCEPT ![k].fetch = "asked"]
    /\ UNCHANGED <<inSpace, memo, alive, page, req, notices, raced>>

\* The refetches: on the interval of the list, on the window's focus.
Fetch(k) ==
    /\ page = k /\ entry[k].fetch = "idle"
    /\ \/ k = "list" /\ UNCHANGED spent
       \/ Refocus /\ spent < MaxFetches /\ spent' = spent + 1
    /\ entry' = [entry EXCEPT ![k].fetch = "asked"]
    /\ UNCHANGED <<inSpace, memo, alive, page, req, notices, raced>>

\* The server answers from what it holds.
Read(k) ==
    /\ entry[k].fetch = "asked"
    /\ entry' = [entry EXCEPT ![k].fetch = "read", ![k].got = Held]
    /\ UNCHANGED <<inSpace, memo, alive, page, req, notices, spent, raced>>

InFlight == {r \in Requests : req[r].at \in {"sent", "done", "refused"}}

\* The data arrives; a memo that is gone is an error, which leaves its page. What is
\* still true, with no request under way, makes up for the races before it.
Fetched(k) ==
    LET missing == k = "detail" /\ entry[k].got = Gone
        filled == [entry EXCEPT ![k] = [Empty EXCEPT !.data = IF missing THEN entry[k].data ELSE entry[k].got,
                                                 !.invalid = missing]]
    IN /\ entry[k].fetch = "read"
       /\ entry' = IF missing THEN Opened(filled, "list") ELSE filled
       /\ page' = IF missing THEN "list" ELSE page
       /\ raced' = IF ~missing /\ entry[k].got = Held /\ InFlight = {} THEN raced \ {k} ELSE raced
       /\ UNCHANGED <<inSpace, memo, alive, req, notices, spent>>

\* Another page.
Visit(k) ==
    /\ page # k /\ spent < MaxFetches
    /\ k = "detail" => entry["list"].data \in Memo
    /\ page' = k
    /\ spent' = spent + 1
    /\ entry' = Opened(entry, k)
    /\ UNCHANGED <<inSpace, memo, alive, req, notices, raced>>

-----------------------------------------------------------------------------
(* Updates, deletion and undo                                                *)

Shown == entry[page].data
Cached == IF entry["detail"].data \in Memo THEN entry["detail"].data ELSE entry["list"].data

MayAct(r) == req[r].at = "new" /\ (Overlap \/ (InFlight = {} /\ ~notices))

\* A new request, which may overlap those under way.
Begun(r, q) ==
    [x \in Requests |->
       IF x = r THEN [q EXCEPT !.at = "sent", !.crossed = InFlight # {}]
       ELSE IF x \in InFlight THEN [req[x] EXCEPT !.crossed = TRUE] ELSE req[x]]

\* useUpdateMemo, onMutate: fetches are cancelled, the memo is kept for a rollback
\* and both entries show the change at once.
Update(r) ==
    /\ MayAct(r) /\ Shown \in Memo
    /\ \E f \in Fields, v \in Values :
         /\ Shown[f] # v
         /\ LET prev == Cached
                set == SetData(Cancelled(entry), "detail", [prev EXCEPT ![f] = v])
            IN /\ entry' = Patched(set, [g \in {f} |-> v])
               /\ req' = Begun(r, [Idle EXCEPT !.kind = "update", !.field = f, !.value = v, !.prev = prev])
    /\ UNCHANGED <<inSpace, memo, alive, page, notices, spent, raced>>

\* useDeleteMemo, and the undo button of the toast of a deletion that succeeded.
Ask(r, kind) ==
    /\ MayAct(r)
    /\ kind = "delete" => Shown \in Memo
    /\ kind = "restore" => \E d \in Requests : req[d].kind = "delete" /\ req[d].at = "ended"
    /\ req' = Begun(r, [Idle EXCEPT !.kind = kind])
    /\ UNCHANGED <<inSpace, memo, alive, entry, page, notices, spent, raced>>

\* The entries that a change on the server overtakes: an answer to a query or to an
\* update is on its way to them.
Overtaken(r) ==
    {k \in Entries : entry[k].fetch = "read" \/ \E q \in Requests \ {r} : req[q].kind = "update" /\ req[q].at = "done"}

\* The server carries a request out. It tells a signed-in tab only of a memo of a
\* Space: other memos have events that the tab ignores.
CarryOut(r) ==
    /\ req[r].at = "sent"
    /\ alive = (req[r].kind # "restore")
    /\ memo' = IF req[r].kind = "update" THEN [memo EXCEPT ![req[r].field] = req[r].value] ELSE memo
    /\ alive' = (req[r].kind # "delete")
    /\ req' = [req EXCEPT ![r].at = "done", ![r].answer = memo']
    /\ notices' = (notices \/ inSpace)
    /\ raced' = raced \cup Overtaken(r)
    /\ UNCHANGED <<inSpace, entry, page, spent>>

\* A request is refused, fails on the way, or its answer is lost. A mutation, which
\* the undo is not, may be sent once more.
Refuse(r) ==
    /\ req[r].at = "sent" \/ (Lossy /\ req[r].at = "done")
    /\ \/ req' = [req EXCEPT ![r].at = "refused"]
       \/ req[r].kind # "restore" /\ ~req[r].again /\ req' = [req EXCEPT ![r].at = "sent", ![r].again = TRUE]
    /\ raced' = IF req[r].at = "done" THEN Entries ELSE raced
    /\ UNCHANGED <<inSpace, memo, alive, entry, page, notices, spent>>

\* useUpdateMemo, onSuccess.
Updated(e, m) == Invalidated(Patched(SetData(e, "detail", m), m), "list")

\* useDeleteMemo, onSuccess: the detail entry is removed with its fetch.
Deleted(e) == Invalidated([e EXCEPT !["detail"] = Empty], "list")

Answer(r) ==
    /\ req[r].at = "done"
    /\ entry' = CASE req[r].kind = "update" -> Updated(entry, req[r].answer)
                  [] req[r].kind = "delete" -> Opened(Deleted(entry), "list")
                  [] OTHER -> InvalidatedAll(entry)
    /\ page' = IF req[r].kind = "delete" THEN "list" ELSE page
    /\ req' = [req EXCEPT ![r].at = "ended"]
    /\ UNCHANGED <<inSpace, memo, alive, notices, spent, raced>>

\* Mutant: the optimistic values stay.
RolledNot(e, m) == e

\* useUpdateMemo, onError: both entries go back to the memo that was kept, which was
\* behind the server if an entry was, or if another request crossed this one.
RolledBack(e, m) == Patched(SetData(e, "detail", m), m)

Fail(r) ==
    /\ req[r].at = "refused"
    /\ entry' = IF req[r].kind # "update" THEN entry
                ELSE IF req[r].prev \in Memo THEN RolledBack(entry, req[r].prev) ELSE InvalidatedAll(entry)
    /\ req' = [req EXCEPT ![r].at = "failed"]
    /\ raced' = IF req[r].kind = "update" /\ (req[r].crossed \/ raced # {}) THEN Entries ELSE raced
    /\ UNCHANGED <<inSpace, memo, alive, page, notices, spent>>

-----------------------------------------------------------------------------
(* The server's other changes and its notices                                *)

Elsewhere ==
    /\ Others /\ alive /\ spent < MaxFetches
    /\ \E f \in Fields, v \in Values : memo' = [memo EXCEPT ![f] = v]
    /\ spent' = spent + 1
    /\ notices' = (notices \/ inSpace)
    /\ raced' = Entries
    /\ UNCHANGED <<inSpace, alive, entry, page, req>>

\* useLiveMemoRefresh: every memo entry is invalidated.
Notice ==
    /\ notices
    /\ notices' = FALSE
    /\ entry' = InvalidatedAll(entry)
    /\ UNCHANGED <<inSpace, memo, alive, page, req, spent, raced>>

-----------------------------------------------------------------------------
\* The list was loaded, and perhaps the page of the memo opened from it.
Init ==
    /\ inSpace \in BOOLEAN
    /\ memo \in Memo /\ alive = TRUE
    /\ page \in Entries
    /\ entry = [k \in Entries |-> [Empty EXCEPT !.data = IF k \in {"list", page} THEN memo ELSE None]]
    /\ req = [r \in Requests |-> Idle]
    /\ notices = FALSE
    /\ spent = 0
    /\ raced = {}

Serve(r) == CarryOut(r) \/ Refuse(r) \/ Answer(r) \/ Fail(r)

Next ==
    \/ \E k \in Entries : Fetch(k) \/ Read(k) \/ Fetched(k) \/ Visit(k)
    \/ \E r \in Requests : Update(r) \/ Ask(r, "delete") \/ Ask(r, "restore") \/ Serve(r)
    \/ Elsewhere \/ Notice

\* Requests and fetches are answered, the interval of the list fires.
Fairness ==
    /\ WF_vars(Fetch("list")) /\ WF_vars(Notice)
    /\ \A k \in Entries : WF_vars(Read(k)) /\ WF_vars(Fetched(k))
    /\ \A r \in Requests : WF_vars(Serve(r))

Spec == Init /\ [][Next]_vars /\ Fairness

-----------------------------------------------------------------------------
(* Properties                                                                *)

TypeOK ==
    /\ inSpace \in BOOLEAN /\ raced \subseteq Entries
    /\ memo \in Memo /\ alive \in BOOLEAN /\ page \in Entries /\ notices \in BOOLEAN
    /\ \A k \in Entries : entry[k].data \in Memo \cup {None, Gone} /\ entry[k].fetch \in {"idle", "asked", "read"}
                          /\ (entry[k].got # None) = (entry[k].fetch = "read")
    /\ \A r \in Requests : req[r].at \in {"new", "sent", "done", "refused", "ended", "failed"} /\ req[r].prev \in Memo \cup {None, Gone}

\* Nothing is under way.
Quiet == InFlight = {} /\ ~notices /\ \A k \in Entries : entry[k].fetch = "idle"

\* When nothing is under way, the page of a memo that exists shows what the server
\* holds, unless one of these happened and no later fetch made up for it: an answer
\* was lost or overtaken, another client changed the memo, an update failed that
\* overlapped another request. The optimistic value of a refused update is gone.
DetailCurrent == Quiet /\ page = "detail" /\ alive => entry["detail"].data = Held \/ "detail" \in raced

\* The list that stays on the screen comes to show what the server holds, whatever
\* was refused, lost or overtaken before.
ListConverges == <>[](page = "list") => <>[](entry["list"].data \in {Held, None})
=============================================================================
