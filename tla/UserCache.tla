----------------------------- MODULE UserCache -----------------------------
(* The cache of users in front of the database (store/user.go) over the TTL   *)
(* cache of store/cache/cache.go.  Goroutines serving requests read or write *)
(* a row in one step and bring it to the cache in others; the cache keeps a  *)
(* concurrent map and, beside it, a counter of its items.                    *)
(*                                                                           *)
(* A row is its version.  Which of the items at hand is oldest when the      *)
(* cache is over its limit is left open: any of them may be evicted.         *)
EXTENDS Integers, Sequences, FiniteSets

CONSTANTS
    Users,
    Goroutines,     \* goroutines: requests, and the cleanup ticker among them
    MaxItems,       \* Config.MaxItems
    MaxVersion,     \* bound: how often a row is written
    MaxDrift        \* bound: how far the counter may be off when a request starts

Unborn == -1        \* an id no account has yet
Gone == 0           \* the account was deleted
NoItem == [val |-> Gone, fresh |-> FALSE]

VARIABLES
    userRow,        \* the version of each user's row
    data,           \* Cache.data: item or NoItem; fresh until its expiration
    itemCount,      \* Cache.itemCount
    pc,             \* where each goroutine is
    todo,           \* the <<user, version>> pairs it still has to Set
    raced,          \* users whose row was written while an older copy was on its way
    crowded         \* a goroutine entered the cache while another was inside

cacheVars == <<userRow, data, itemCount, pc, todo, raced, crowded>>

Idle == [at |-> "idle", user |-> Gone]
At(t, place, u) == pc[t] = [at |-> place, user |-> u]
GoTo(t, place, u) == pc' = [pc EXCEPT ![t] = [at |-> place, user |-> u]]

Present == {u \in Users : data[u] # NoItem}
Exists(u) == userRow[u] \notin {Unborn, Gone}

\* A goroutine is free to serve a request.
Free(t) == pc[t] = Idle /\ itemCount - Cardinality(Present) \in -MaxDrift..MaxDrift

\* A goroutine enters the cache.
Others(t) == Goroutines \ {t}
Enter(t) == crowded' = (crowded \/ \E r \in Others(t) : pc[r] # Idle)

CacheInit ==
    /\ userRow = [u \in Users |-> Unborn]
    /\ data = [u \in Users |-> NoItem]
    /\ itemCount = 0
    /\ pc = [t \in Goroutines |-> Idle]
    /\ todo = [t \in Goroutines |-> <<>>]
    /\ raced = {}
    /\ crowded = FALSE

-----------------------------------------------------------------------------
(* cache.go                                                                  *)

\* Mutant: the loop stores every row under its first key.
NextSetSameKey(t, rest) ==
    /\ todo' = [todo EXCEPT ![t] = rest]
    /\ pc' = [pc EXCEPT ![t] = IF rest = <<>> THEN Idle
                               ELSE [at |-> "set", user |-> IF pc[t] = Idle THEN Head(rest)[1]
                                                            ELSE pc[t].user]]

\* The next Set of goroutine t, or the end of its request.
NextSet(t, rest) ==
    /\ todo' = [todo EXCEPT ![t] = rest]
    /\ pc' = [pc EXCEPT ![t] = IF rest = <<>> THEN Idle
                               ELSE [at |-> "set", user |-> Head(rest)[1]]]

\* Set looks whether the key is there ...
SetLoad(t, u) ==
    /\ At(t, "set", u)
    /\ GoTo(t, IF data[u] # NoItem THEN "replace" ELSE "add", u)
    /\ UNCHANGED <<userRow, data, itemCount, todo, raced, crowded>>

\* ... takes an older item out ...
SetDelete(t, u) ==
    /\ At(t, "replace", u)
    /\ data' = [data EXCEPT ![u] = NoItem]
    /\ GoTo(t, "store", u)
    /\ UNCHANGED <<userRow, itemCount, todo, raced, crowded>>

\* ... or counts a new one, ...
SetCount(t, u) ==
    /\ At(t, "add", u)
    /\ itemCount' = itemCount + 1
    /\ GoTo(t, "store", u)
    /\ UNCHANGED <<userRow, data, todo, raced, crowded>>

\* ... stores the value for a full TTL, ...
SetStore(t, u) ==
    /\ At(t, "store", u)
    /\ data' = [data EXCEPT ![u] = [val |-> Head(todo[t])[2], fresh |-> TRUE]]
    /\ GoTo(t, "limit", u)
    /\ UNCHANGED <<userRow, itemCount, todo, raced, crowded>>

\* cleanupOldest evicts a fifth of the limit, or what there is.
Eviction ==
    LET threshold == IF MaxItems \div 5 > 1 THEN MaxItems \div 5 ELSE 1
    IN  {old \in SUBSET Present : Cardinality(old) =
            IF Cardinality(Present) < threshold THEN Cardinality(Present) ELSE threshold}

\* Mutant: eviction starts one item too late.
SetLimitLate(t, u) ==
    /\ At(t, "limit", u)
    /\ \/ itemCount <= MaxItems + 1 /\ UNCHANGED <<data, itemCount>>
       \/ /\ itemCount > MaxItems + 1
          /\ \E old \in Eviction :
               /\ data' = [k \in Users |-> IF k \in old THEN NoItem ELSE data[k]]
               /\ itemCount' = itemCount - Cardinality(old)
    /\ NextSet(t, Tail(todo[t]))
    /\ UNCHANGED <<userRow, raced, crowded>>

\* ... and with more items than allowed evicts some.
SetLimit(t, u) ==
    /\ At(t, "limit", u)
    /\ \/ itemCount <= MaxItems /\ UNCHANGED <<data, itemCount>>
       \/ /\ itemCount > MaxItems
          /\ \E old \in Eviction :
               /\ data' = [k \in Users |-> IF k \in old THEN NoItem ELSE data[k]]
               /\ itemCount' = itemCount - Cardinality(old)
    /\ NextSet(t, Tail(todo[t]))
    /\ UNCHANGED <<userRow, raced, crowded>>

\* Mutant: the expired item is counted off and left in the map.
DropExpiredKeeps(t, u) ==
    /\ \/ At(t, "expired", u) /\ GoTo(t, "read", u)
       \/ At(t, "sweep", u) /\ pc' = [pc EXCEPT ![t] = Idle]
    /\ UNCHANGED <<userRow, data, itemCount, todo, raced, crowded>>

\* Get and the cleanup ticker delete the key they found expired, whatever it
\* holds by now, and count it off.
DropExpired(t, u) ==
    /\ \/ At(t, "expired", u) /\ GoTo(t, "read", u)
       \/ At(t, "sweep", u) /\ pc' = [pc EXCEPT ![t] = Idle]
    /\ data' = [data EXCEPT ![u] = NoItem]
    /\ itemCount' = itemCount - 1
    /\ UNCHANGED <<userRow, todo, raced, crowded>>

\* The cleanup ticker, one goroutine, comes across an expired item.
Cleanup(t, u) ==
    /\ pc[t] = Idle /\ Enter(t) /\ \A r \in Goroutines : pc[r].at # "sweep"
    /\ u \in Present /\ ~data[u].fresh
    /\ GoTo(t, "sweep", u)
    /\ UNCHANGED <<userRow, data, itemCount, todo, raced>>

\* The item's time has come.
Expire(u) ==
    /\ data[u].fresh
    /\ data' = [data EXCEPT ![u].fresh = FALSE]
    /\ UNCHANGED <<userRow, itemCount, pc, todo, raced, crowded>>

\* Mutant: the item is counted off whether it was there or not.
InvalidateUnchecked(t, u) ==
    /\ At(t, "invalidate", u)
    /\ data' = [data EXCEPT ![u] = NoItem]
    /\ itemCount' = itemCount - 1
    /\ pc' = [pc EXCEPT ![t] = Idle]
    /\ UNCHANGED <<userRow, todo, raced, crowded>>

\* Delete: LoadAndDelete, counted off only if the key was there.
Invalidate(t, u) ==
    /\ At(t, "invalidate", u)
    /\ data' = [data EXCEPT ![u] = NoItem]
    /\ itemCount' = itemCount - (IF u \in Present THEN 1 ELSE 0)
    /\ pc' = [pc EXCEPT ![t] = Idle]
    /\ UNCHANGED <<userRow, todo, raced, crowded>>

-----------------------------------------------------------------------------
(* user.go                                                                   *)

\* The copies of u's row on their way to the cache, an answered write's included.
OnItsWay(u) == {t \in Goroutines : \E i \in DOMAIN todo[t] : todo[t][i][1] = u}

\* The row of u becomes v; whoever carries a copy carries an old one now.
WriteRow(u, v) ==
    /\ userRow' = [userRow EXCEPT ![u] = v]
    /\ raced' = IF OnItsWay(u) = {} THEN raced ELSE raced \cup {u}

CreateUser(t, u) ==
    /\ Free(t) /\ Enter(t) /\ userRow[u] = Unborn
    /\ WriteRow(u, 1)
    /\ NextSet(t, << <<u, 1>> >>)
    /\ UNCHANGED <<data, itemCount>>

\* Mutant: the update leaves the cached copy in place.
UpdateUserOnly(t, u) ==
    /\ Free(t) /\ Enter(t) /\ Exists(u) /\ userRow[u] < MaxVersion
    /\ WriteRow(u, userRow[u] + 1)
    /\ UNCHANGED <<data, itemCount, pc, todo>>

UpdateUser(t, u) ==
    /\ Free(t) /\ Enter(t) /\ Exists(u) /\ userRow[u] < MaxVersion
    /\ WriteRow(u, userRow[u] + 1)
    /\ NextSet(t, << <<u, userRow[u] + 1>> >>)
    /\ UNCHANGED <<data, itemCount>>

DeleteUser(t, u) ==
    /\ Free(t) /\ Enter(t) /\ Exists(u)
    /\ WriteRow(u, Gone)
    /\ GoTo(t, "invalidate", u)
    /\ UNCHANGED <<data, itemCount, todo>>

\* GetUser by id: an item still fresh answers it and changes nothing, an
\* expired one is dropped, and a miss goes to the database.
GetUser(t, u) ==
    /\ Free(t) /\ Enter(t)
    /\ \/ u \in Present /\ ~data[u].fresh /\ GoTo(t, "expired", u)
       \/ u \notin Present /\ GoTo(t, "read", u)
    /\ UNCHANGED <<userRow, data, itemCount, todo, raced>>

\* The row is read and Set twice, by ListUsers and by GetUser around it.
ReadUser(t, u) ==
    /\ At(t, "read", u)
    /\ NextSet(t, IF Exists(u) THEN << <<u, userRow[u]>>, <<u, userRow[u]>> >> ELSE <<>>)
    /\ UNCHANGED <<userRow, data, itemCount, raced, crowded>>

\* ListUsers: one snapshot of the table, its rows Set one after the other.
ListUsers(t) ==
    /\ Free(t) /\ Enter(t)
    /\ \E order \in [1..Cardinality({u \in Users : Exists(u)}) -> {u \in Users : Exists(u)}] :
         /\ {order[i] : i \in DOMAIN order} = {u \in Users : Exists(u)}
         /\ order # <<>>
         /\ NextSet(t, [i \in DOMAIN order |-> <<order[i], userRow[order[i]]>>])
    /\ UNCHANGED <<userRow, data, itemCount, raced>>

-----------------------------------------------------------------------------
CacheStep(t, u) ==
    \/ SetLoad(t, u) \/ SetDelete(t, u) \/ SetCount(t, u) \/ SetStore(t, u) \/ SetLimit(t, u)
    \/ DropExpired(t, u) \/ Invalidate(t, u) \/ ReadUser(t, u)

UserRequest(t, u) ==
    \/ CreateUser(t, u) \/ UpdateUser(t, u) \/ DeleteUser(t, u) \/ GetUser(t, u)

CacheNext ==
    \/ \E t \in Goroutines, u \in Users : CacheStep(t, u) \/ UserRequest(t, u) \/ Cleanup(t, u)
    \/ \E t \in Goroutines : ListUsers(t)
    \/ \E u \in Users : Expire(u)

CacheSpec == CacheInit /\ [][CacheNext]_cacheVars

\* A goroutine goes on, an item's time passes, and the ticker fires and has a
\* goroutine of its own to run on.
CacheFairness ==
    /\ \A t \in Goroutines, u \in Users : WF_cacheVars(CacheStep(t, u))
    /\ \A u \in Users : WF_cacheVars(Expire(u)) /\ SF_cacheVars(\E t \in Goroutines : Cleanup(t, u))

-----------------------------------------------------------------------------
(* Properties.                                                               *)

CachePlaces == {"idle", "set", "replace", "add", "store", "limit", "expired", "sweep",
           "invalidate", "read"}

InSet == {"set", "replace", "add", "store", "limit"}

\* Every variable keeps its type, only an item with a row's version is in the
\* map, and a goroutine inside Set is there for the first row it has to Set.
CacheTypeOK ==
    /\ userRow \in [Users -> Nat \cup {Unborn}]
    /\ data \in [Users -> [val : Nat, fresh : BOOLEAN]]
    /\ \A u \in Users : data[u] = NoItem \/ data[u].val # Gone
    /\ itemCount \in Int
    /\ pc \in [Goroutines -> [at : CachePlaces, user : Users \cup {Gone}]]
    /\ todo \in [Goroutines -> Seq(Users \X (Nat \ {0}))]
    /\ \A t \in Goroutines : pc[t].at \in InSet <=> todo[t] # <<>>
    /\ \A t \in Goroutines : todo[t] # <<>> => pc[t].user = Head(todo[t])[1]
    /\ raced \subseteq Users
    /\ crowded \in BOOLEAN

\* What a request finds in the cache is what the database holds, unless a copy
\* of an older row was still being stored when the row was written: updates
\* refresh the item and deletions remove it, and neither expiry nor eviction
\* nor the gap inside Set ever brings an old row back.
StaleOnlyByRace ==
    \A u \in Users \ raced :
        u \in Present /\ OnItsWay(u) = {} /\ ~(\E t \in Goroutines : At(t, "invalidate", u))
            => data[u].val = userRow[u]

\* A row that did go stale in the cache is not served for ever: its time runs
\* out and what replaces it was read afterwards.
StaleEnds ==
    \A u \in Users : []<>(u \notin Present \/ data[u].val = userRow[u])

\* When nobody is inside the cache, Size() is the number of its items.
CountExact ==
    (\A t \in Goroutines : pc[t] = Idle) => itemCount = Cardinality(Present)

\* When nobody is inside the cache, it holds at most MaxItems items.
ItemsBounded ==
    (\A t \in Goroutines : pc[t] = Idle) => Cardinality(Present) <= MaxItems

\* As long as goroutines enter one after the other, Size() is exact and the
\* limit is kept, whatever is added, replaced, dropped, evicted and deleted.
CacheCounted == ~crowded => CountExact /\ ItemsBounded

\* Once a deletion has invalidated the cache, a bearer token of the user
\* resolves to nobody: no item of the deleted user can answer GetUser.
MissingNotServed ==
    \A u \in Users :
        userRow[u] = Gone /\ ~(\E t \in Goroutines : At(t, "invalidate", u)) => ~data[u].fresh

-----------------------------------------------------------------------------
(* The inductive invariants behind StaleOnlyByRace and CacheCounted.         *)

\* The copies on their way are those of the row, unless it was written since.
CopiesCurrent ==
    \A t \in Goroutines : \A i \in DOMAIN todo[t] :
        todo[t][i][1] \in raced \/ todo[t][i][2] = userRow[todo[t][i][1]]

\* An old item is about to be replaced or removed.
Replaces(t, u) == \E i \in DOMAIN todo[t] : todo[t][i][1] = u /\ (i = 1 => pc[t].at # "limit")
StaleReplaced ==
    \A u \in Users \ raced :
        u \in Present /\ data[u].val # userRow[u]
            => \E t \in Goroutines : Replaces(t, u) \/ At(t, "invalidate", u)

\* How far one goroutine inside the cache is with its counting.
Counting(t) ==
    LET u == pc[t].user  size == Cardinality(Present) IN
    /\ itemCount = IF pc[t].at = "store" THEN size + 1 ELSE size
    /\ itemCount <= IF pc[t].at \in {"store", "limit"} THEN MaxItems + 1 ELSE MaxItems
    /\ pc[t].at \in {"replace", "expired", "sweep"} => u \in Present
    /\ pc[t].at \in {"add", "store"} => u \notin Present
\* Until two met, at most one is inside and the count is where it stands.
CountKept ==
    ~crowded => \A t \in Goroutines :
        /\ pc[t] # Idle => \A r \in Others(t) : pc[r] = Idle
        /\ (\A r \in Others(t) : pc[r] = Idle) => Counting(t)
=============================================================================
