---------------------------- MODULE UserSettings ----------------------------
(* A list of a user's tokens, webhooks or memo views (store/user_setting.go):  *)
(* one row of the database that every change reads whole and writes back      *)
(* whole, with a cache of the row in front of it.                             *)
(*                                                                            *)
(* The row of one user and one key is modelled.  An entry is its id, so a     *)
(* change of an entry in place (a timestamp, a title) rewrites the list and   *)
(* leaves the set of ids as it was.                                           *)
EXTENDS Integers

CONSTANTS
    Items,          \* ids of tokens, webhooks or views; never reused
    Threads,        \* goroutines serving requests
    Kind,           \* which of the lists the row holds
    MaxCalls        \* bound: calls made

Nobody == "nobody"

ASSUME UserSettingsAssumption ==
    /\ Kind \in {"tokens", "views", "webhooks"}
    /\ MaxCalls \in Nat
    /\ Nobody \notin Threads

\* refreshTokenMu, patMu and memoViewMu guard their lists; webhooks have no mutex.
Locked == Kind # "webhooks"

Changes == {"add", "remove", "update"}
Reads == {"get", "list"}

VARIABLES
    row,            \* the list in the database
    stored,         \* the row exists
    cache,          \* the list in userSettingCache
    cached,         \* the cache has the key
    mutex,          \* who holds the list's mutex
    at,             \* where each goroutine is in its call
    call,           \* what it was called for
    item,           \* the id it was called with
    seen,           \* the list it works on
    calls,          \* calls made
    added,          \* ids whose addition reached the database
    removed,        \* ids whose removal did
    overtaken       \* a list was put in the cache that was no longer the row

vars == <<row, stored, cache, cached, mutex, at, call, item, seen, calls,
          added, removed, overtaken>>

Init ==
    /\ row = {} /\ stored = FALSE
    /\ cache = {} /\ cached = FALSE
    /\ mutex = Nobody
    /\ at = [t \in Threads |-> "idle"]
    /\ call = [t \in Threads |-> "get"]
    /\ item \in [Threads -> Items]
    /\ seen = [t \in Threads |-> {}]
    /\ calls = 0
    /\ added = {} /\ removed = {}
    /\ overtaken = FALSE

Leave(t) ==
    /\ at' = [at EXCEPT ![t] = "idle"]
    /\ mutex' = IF mutex = t THEN Nobody ELSE mutex

\* userSettingCache.Set.
SetCache(list) ==
    /\ cache' = list /\ cached' = TRUE
    /\ overtaken' = (overtaken \/ list # row)

-----------------------------------------------------------------------------

\* Mutant: a change starts without waiting for the mutex.
BeginUnlocked(t, what, x) ==
    /\ at[t] = "idle" /\ calls < MaxCalls
    /\ what = "add" => \A u \in Threads : x \notin added \cup removed /\ (at[u] # "idle" => item[u] # x)
    /\ what \in {"remove", "update"} => x \in added
    /\ calls' = calls + 1
    /\ call' = [call EXCEPT ![t] = what] /\ item' = [item EXCEPT ![t] = x]
    /\ at' = [at EXCEPT ![t] = "load"]
    /\ UNCHANGED <<row, stored, cache, cached, mutex, seen, added, removed, overtaken>>

\* A call begins: a new id is generated for an addition; a removal or an
\* update is of an id that was handed out.
Begin(t, what, x) ==
    /\ at[t] = "idle" /\ calls < MaxCalls
    /\ what = "add" => \A u \in Threads : x \notin added \cup removed /\ (at[u] # "idle" => item[u] # x)
    /\ what \in {"remove", "update"} => x \in added
    /\ calls' = calls + 1
    /\ call' = [call EXCEPT ![t] = what] /\ item' = [item EXCEPT ![t] = x]
    /\ at' = [at EXCEPT ![t] = IF Locked /\ what \in Changes THEN "lock" ELSE "load"]
    /\ UNCHANGED <<row, stored, cache, cached, mutex, seen, added, removed, overtaken>>

Lock(t) ==
    /\ at[t] = "lock" /\ mutex = Nobody
    /\ mutex' = t
    /\ at' = [at EXCEPT ![t] = "load"]
    /\ UNCHANGED <<row, stored, cache, cached, call, item, seen, calls, added, removed, overtaken>>

\* GetUserSetting finds the key in the cache.
LoadCached(t) ==
    /\ at[t] = "load" /\ call[t] # "list" /\ cached
    /\ seen' = [seen EXCEPT ![t] = cache]
    /\ at' = [at EXCEPT ![t] = IF call[t] \in Changes THEN "write" ELSE "idle"]
    /\ UNCHANGED <<row, stored, cache, cached, mutex, call, item, calls, added, removed, overtaken>>

\* ListUserSettings, called on its own or by GetUserSetting, reads the row; a
\* row that is not there is not put in the cache.
LoadRow(t) ==
    /\ at[t] = "load"
    /\ call[t] = "list" \/ ~cached
    /\ seen' = [seen EXCEPT ![t] = row]
    /\ at' = [at EXCEPT ![t] = IF stored THEN "fill"
                               ELSE IF call[t] \in Changes THEN "write" ELSE "idle"]
    /\ UNCHANGED <<row, stored, cache, cached, mutex, call, item, calls, added, removed, overtaken>>

\* ListUserSettings puts what it read in the cache.
Fill(t) ==
    /\ at[t] = "fill"
    /\ SetCache(seen[t])
    /\ at' = [at EXCEPT ![t] = IF call[t] = "list" THEN "idle" ELSE "refill"]
    /\ UNCHANGED <<row, stored, mutex, call, item, seen, calls, added, removed>>

\* GetUserSetting puts it there once more.
Refill(t) ==
    /\ at[t] = "refill"
    /\ SetCache(seen[t])
    /\ at' = [at EXCEPT ![t] = IF call[t] \in Changes THEN "write" ELSE "idle"]
    /\ UNCHANGED <<row, stored, mutex, call, item, seen, calls, added, removed>>

\* Mutant: the early return keeps the mutex.
SkipHoldingMutex(t) ==
    /\ at[t] = "write"
    /\ \/ call[t] = "update" /\ Kind = "tokens"
       \/ call[t] \in {"update", "remove"} /\ Kind = "views" /\ item[t] \notin seen[t]
    /\ at' = [at EXCEPT ![t] = "idle"]
    /\ UNCHANGED <<row, stored, cache, cached, mutex, call, item, seen, calls, added, removed, overtaken>>

\* The calls that return without writing: UpdatePATLastUsed for a token that
\* is not listed or was used later, UpdateUserMemoView and RemoveUserMemoView
\* for a view that is not listed.
Skip(t) ==
    /\ at[t] = "write"
    /\ \/ call[t] = "update" /\ Kind = "tokens"
       \/ call[t] \in {"update", "remove"} /\ Kind = "views" /\ item[t] \notin seen[t]
    /\ Leave(t)
    /\ UNCHANGED <<row, stored, cache, cached, call, item, seen, calls, added, removed, overtaken>>

\* Mutant: an update rebuilds the list and forgets the entry it changed.
ChangedUpdateLost(t) ==
    CASE call[t] = "add"    -> seen[t] \cup {item[t]}
      [] OTHER              -> seen[t] \ {item[t]}

\* The list after the change.
Changed(t) ==
    CASE call[t] = "add"    -> seen[t] \cup {item[t]}
      [] call[t] = "remove" -> seen[t] \ {item[t]}
      [] OTHER              -> seen[t]

\* driver.UpsertUserSetting writes the whole list.
Write(t) ==
    /\ at[t] = "write"
    /\ call[t] = "update" => item[t] \in seen[t] \/ Kind = "webhooks"
    /\ call[t] = "remove" => item[t] \in seen[t] \/ Kind # "views"
    /\ row' = Changed(t) /\ stored' = TRUE
    /\ seen' = [seen EXCEPT ![t] = Changed(t)]
    /\ added' = IF call[t] = "add" THEN added \cup {item[t]} ELSE added
    /\ removed' = IF call[t] = "remove" THEN removed \cup {item[t]} ELSE removed
    /\ at' = [at EXCEPT ![t] = "set"]
    /\ UNCHANGED <<cache, cached, mutex, call, item, calls, overtaken>>

\* UpsertUserSetting puts the row it wrote in the cache, and the call returns.
Set(t) ==
    /\ at[t] = "set"
    /\ SetCache(seen[t])
    /\ Leave(t)
    /\ UNCHANGED <<row, stored, call, item, seen, calls, added, removed>>

\* The database fails a read or a write; the call returns the error.
Fail(t) ==
    /\ at[t] \in {"load", "write"}
    /\ Leave(t)
    /\ UNCHANGED <<row, stored, cache, cached, call, item, seen, calls, added, removed, overtaken>>

\* The entry expires or the cache is over its limit.
Evict ==
    /\ cached
    /\ cached' = FALSE
    /\ UNCHANGED <<row, stored, cache, mutex, at, call, item, seen, calls, added, removed, overtaken>>

Step(t) ==
    \/ Lock(t) \/ LoadCached(t) \/ LoadRow(t) \/ Fill(t) \/ Refill(t)
    \/ Skip(t) \/ Write(t) \/ Set(t)

Next ==
    \/ \E t \in Threads :
          \/ \E what \in Changes \cup Reads, x \in Items : Begin(t, what, x)
          \/ Step(t)
          \/ Fail(t)
    \/ Evict

\* A goroutine keeps running, and Go's mutex does not starve a waiter.
Fairness == \A t \in Threads : WF_vars(Step(t)) /\ SF_vars(Lock(t))

Spec == Init /\ [][Next]_vars /\ Fairness

-----------------------------------------------------------------------------

Places == {"idle", "lock", "load", "fill", "refill", "write", "set"}

\* A change is between Lock and the deferred Unlock.
Inside(t) == call[t] \in Changes /\ at[t] \in {"load", "fill", "refill", "write", "set"}

Types ==
    /\ row \subseteq Items /\ cache \subseteq Items
    /\ added \subseteq Items /\ removed \subseteq Items
    /\ stored \in BOOLEAN /\ cached \in BOOLEAN /\ overtaken \in BOOLEAN
    /\ mutex \in Threads \cup {Nobody}
    /\ at \in [Threads -> Places]
    /\ call \in [Threads -> Changes \cup Reads]
    /\ item \in [Threads -> Items]
    /\ seen \in [Threads -> SUBSET Items]
    /\ calls \in Nat

\* A call is only at places its kind goes through.
Placed ==
    \A t \in Threads :
       /\ at[t] \in {"lock", "write", "set"} => call[t] \in Changes
       /\ at[t] = "refill" => call[t] # "list"

\* The mutex of a guarded list belongs to the change that is inside.
OneInside == Locked => \A t \in Threads : Inside(t) <=> mutex = t

\* The variables have their types, calls are where their kind goes, and no
\* return path of user_setting.go forgets the mutex or lets two changes in.
TypeOK == Types /\ Placed /\ OneInside

\* The row is what the finished changes say: every entry added and not removed,
\* and no other.
Exact == row = added \ removed

\* With the mutex, changes are all kept and removed entries stay away, in every
\* order of steps of user_setting.go, as long as no reader outside the mutex
\* put a list in the cache that had been overwritten since it was read.
ExactUnlessOvertaken == Locked /\ ~overtaken => Exact

\* Where a call has not written yet.
BeforeWrite(t) == at[t] \in {"lock", "load", "fill", "refill", "write"}

\* A new id is new until it is written, no two calls add the same, and the id
\* of a removal was added.
IdsFresh ==
    \A t \in Threads : BeforeWrite(t) =>
       /\ call[t] = "add" => item[t] \notin added \cup removed
       /\ call[t] = "remove" => item[t] \in added
       /\ \A u \in Threads :
             t # u /\ BeforeWrite(u) /\ call[t] = "add" /\ call[u] = "add" => item[t] # item[u]

\* Unless a list was overtaken, the change inside the mutex works on the row,
\* and the cache holds the row or will as soon as that change leaves.
Coherent ==
    Locked /\ ~overtaken =>
       /\ \A t \in Threads : Inside(t) /\ at[t] # "load" => seen[t] = row
       /\ cached => cache = row \/ \E t \in Threads : at[t] = "set"

\* What makes ExactUnlessOvertaken inductive.
IInv == TypeOK /\ IdsFresh /\ Coherent /\ ExactUnlessOvertaken

\* Every call returns: no early return of user_setting.go keeps the mutex and
\* no two calls wait for each other.
CallsReturn == \A t \in Threads : at[t] # "idle" ~> at[t] = "idle"

\* A revoked token is not in the list that authentication looks in
\* (GetUserByPATHash queries the row).
RevokedStays == row \cap removed = {}

\* An addition that reached the database stays there until it is removed.
AddedStays == added \ removed \subseteq row
=============================================================================
