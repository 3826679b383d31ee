-------------------------- MODULE UserCacheProofs --------------------------
(***************************************************************************)
(* Proofs about module UserCache, for any number of users, goroutines,     *)
(* versions and items: what the cache of users may serve, and, one         *)
(* goroutine at a time, that its counter and its limit are right.          *)
(***************************************************************************)
EXTENDS UserCache, FiniteSetTheorems, SequenceTheorems, TLAPS

\* The versions of the rows and the copies of them that goroutines carry.
Copies == Seq(Users \X (Nat \ {0}))

\* What NextSet leaves behind: t goes on to the first of the rows, or is done.
LEMMA NextSetType ==
  ASSUME CacheTypeOK, NEW t \in Goroutines, NEW rest \in Copies, NextSet(t, rest)
  PROVE  /\ pc' \in [Goroutines -> [at : CachePlaces, user : Users \cup {Gone}]]
         /\ todo' \in [Goroutines -> Copies]
         /\ todo'[t] = rest /\ (rest = <<>> => pc'[t] = Idle)
         /\ rest # <<>> => pc'[t] = [at |-> "set", user |-> Head(rest)[1]]
         /\ \A r \in Goroutines \ {t} : pc'[r] = pc[r] /\ todo'[r] = todo[r]
         /\ \A r \in Goroutines : pc'[r].at \in InSet <=> todo'[r] # <<>>
         /\ \A r \in Goroutines : todo'[r] # <<>> => pc'[r].user = Head(todo'[r])[1]
<1> DEFINE place == IF rest = <<>> THEN Idle ELSE [at |-> "set", user |-> Head(rest)[1]]
<1>1. rest # <<>> => Head(rest) \in Users \X (Nat \ {0})
  BY DEF Copies
<1>2. place \in [at : CachePlaces, user : Users \cup {Gone}]
  BY <1>1 DEF CachePlaces, Idle
<1>3. pc' = [pc EXCEPT ![t] = place] /\ todo' = [todo EXCEPT ![t] = rest]
  BY DEF NextSet
<1>4. pc' \in [Goroutines -> [at : CachePlaces, user : Users \cup {Gone}]] /\ todo' \in [Goroutines -> Copies]
  BY <1>2, <1>3 DEF CacheTypeOK, Copies
<1>5. pc'[t] = place /\ todo'[t] = rest /\ \A r \in Goroutines \ {t} : pc'[r] = pc[r] /\ todo'[r] = todo[r]
  BY <1>3 DEF CacheTypeOK
<1>6. (place.at \in InSet <=> rest # <<>>) /\ (rest # <<>> => place.user = Head(rest)[1])
  BY DEF InSet, Idle
<1> HIDE DEF place
<1>7. /\ \A r \in Goroutines : pc'[r].at \in InSet <=> todo'[r] # <<>>
      /\ \A r \in Goroutines : todo'[r] # <<>> => pc'[r].user = Head(todo'[r])[1]
  BY <1>5, <1>6 DEF CacheTypeOK
<1>8. (rest = <<>> => place = Idle) /\ (rest # <<>> => place = [at |-> "set", user |-> Head(rest)[1]])
  BY DEF place
<1> QED
  BY <1>4, <1>5, <1>7, <1>8

\* A goroutine that moves to another place on the same errand.
LEMMA GoToType ==
  ASSUME CacheTypeOK, NEW t \in Goroutines, NEW place \in CachePlaces, NEW u \in Users \cup {Gone},
         pc' = [pc EXCEPT ![t] = [at |-> place, user |-> u]], UNCHANGED todo,
         place \in InSet <=> todo[t] # <<>>, todo[t] # <<>> => u = pc[t].user
  PROVE  /\ pc' \in [Goroutines -> [at : CachePlaces, user : Users \cup {Gone}]]
         /\ pc'[t] = [at |-> place, user |-> u] /\ \A r \in Goroutines \ {t} : pc'[r] = pc[r]
         /\ \A r \in Goroutines : pc'[r].at \in InSet <=> todo'[r] # <<>>
         /\ \A r \in Goroutines : todo'[r] # <<>> => pc'[r].user = Head(todo'[r])[1]
<1>1. [at |-> place, user |-> u] \in [at : CachePlaces, user : Users \cup {Gone}]
  OBVIOUS
<1>2. pc'[t] = [at |-> place, user |-> u] /\ \A r \in Goroutines \ {t} : pc'[r] = pc[r]
  BY DEF CacheTypeOK
<1>3. pc' \in [Goroutines -> [at : CachePlaces, user : Users \cup {Gone}]]
  BY <1>1 DEF CacheTypeOK
<1>4. /\ \A r \in Goroutines : pc'[r].at \in InSet <=> todo'[r] # <<>>
      /\ \A r \in Goroutines : todo'[r] # <<>> => pc'[r].user = Head(todo'[r])[1]
  BY <1>2 DEF CacheTypeOK
<1> QED
  BY <1>2, <1>3, <1>4

\* Whoever enters, crowded stays a truth value.
LEMMA EnterType ==
  ASSUME NEW t, Enter(t)
  PROVE  crowded' \in BOOLEAN
  BY Zenon DEF Enter

LEMMA InitFresh == CacheInit => CacheTypeOK /\ CopiesCurrent /\ StaleReplaced
<1> SUFFICES ASSUME CacheInit PROVE CacheTypeOK /\ CopiesCurrent /\ StaleReplaced
  OBVIOUS
<1>1. \A t \in Goroutines : pc[t].at \notin InSet /\ todo[t] = <<>>
  BY DEF CacheInit, InSet, Idle
<1>2. CacheTypeOK
  <2>1. /\ userRow \in [Users -> Nat \cup {Unborn}] /\ itemCount \in Int /\ raced \subseteq Users
        /\ data \in [Users -> [val : Nat, fresh : BOOLEAN]] /\ \A u \in Users : data[u] = NoItem
    BY DEF CacheInit, NoItem, Gone
  <2>2. /\ pc \in [Goroutines -> [at : CachePlaces, user : Users \cup {Gone}]]
        /\ todo \in [Goroutines -> Seq(Users \X (Nat \ {0}))]
    BY DEF CacheInit, Idle, CachePlaces
  <2>3. crowded \in BOOLEAN
    BY Zenon DEF CacheInit
  <2> QED
    BY <1>1, <2>1, <2>2, <2>3 DEF CacheTypeOK
<1>3. CopiesCurrent
  BY <1>1 DEF CopiesCurrent
<1>4. StaleReplaced
  BY DEF StaleReplaced, Present, CacheInit
<1> QED
  BY <1>2, <1>3, <1>4


-----------------------------------------------------------------------------
(* Types.                                                                    *)

\* Finitely many users, and a limit.
CacheSetting == IsFiniteSet(Users) /\ Goroutines # {} /\ MaxItems \in Nat \ {0}

\* The snapshot a listing carries, in whatever order.
LEMMA ListedRows ==
  ASSUME CacheSetting, CacheTypeOK,
         NEW order \in [1..Cardinality({u \in Users : Exists(u)}) -> {u \in Users : Exists(u)}]
  PROVE  [i \in DOMAIN order |-> <<order[i], userRow[order[i]]>>] \in Copies
<1> DEFINE S == {u \in Users : Exists(u)}
           n == Cardinality(S)
           list == [i \in DOMAIN order |-> <<order[i], userRow[order[i]]>>]
<1>1. n \in Nat
  BY FS_Subset, FS_CardinalityType DEF CacheSetting
<1>2. \A u \in S : <<u, userRow[u]>> \in Users \X (Nat \ {0})
  BY DEF CacheTypeOK, Exists, Gone, Unborn
<1> HIDE DEF n
<1>3. order \in [1..n -> S]
  BY DEF n
<1> HIDE DEF S
<1>4. list \in [1..n -> Users \X (Nat \ {0})]
  BY <1>2, <1>3
<1> HIDE DEF list
<1>5. [1..n -> Users \X (Nat \ {0})] \subseteq Seq(Users \X (Nat \ {0}))
  BY <1>1, SeqDef
<1>6. list \in Copies
  BY <1>4, <1>5 DEF Copies
<1> QED
  BY <1>6 DEF list

\* The goroutine at t is where the action says, on its way for u.
LEMMA Standing ==
  ASSUME CacheTypeOK, NEW t \in Goroutines, NEW place, NEW u, At(t, place, u)
  PROVE  pc[t].at = place /\ pc[t].user = u /\ (place \in InSet <=> todo[t] # <<>>)
  BY DEF At, CacheTypeOK

LEMMA IdleEmpty ==
  ASSUME CacheTypeOK, NEW t \in Goroutines, pc[t] = Idle
  PROVE  todo[t] = <<>>
<1>1. pc[t].at \notin InSet
  BY DEF Idle, InSet
<1> QED
  BY <1>1 DEF CacheTypeOK

LEMMA CacheStepType ==
  ASSUME CacheSetting, CacheTypeOK, NEW t \in Goroutines, NEW u \in Users, CacheStep(t, u)
  PROVE  CacheTypeOK'
<1> DEFINE Placed == /\ pc' \in [Goroutines -> [at : CachePlaces, user : Users \cup {Gone}]]
                     /\ todo' \in [Goroutines -> Copies]
                     /\ \A r \in Goroutines : pc'[r].at \in InSet <=> todo'[r] # <<>>
                     /\ \A r \in Goroutines : todo'[r] # <<>> => pc'[r].user = Head(todo'[r])[1]
           Items == /\ data' \in [Users -> [val : Nat, fresh : BOOLEAN]]
                    /\ \A k \in Users : data'[k] = NoItem \/ data'[k].val # Gone
                    /\ itemCount' \in Int
<1> SUFFICES Placed /\ Items /\ UNCHANGED <<userRow, raced>>
  BY DEF CacheTypeOK, Copies, CacheStep, SetLoad, SetDelete, SetCount, SetStore, SetLimit, DropExpired,
         Invalidate, ReadUser
<1>0. NoItem \in [val : Nat, fresh : BOOLEAN]
  BY DEF NoItem, Gone
<1>1. CASE SetLoad(t, u)
  <2>1. pc[t].user = u /\ todo[t] # <<>>
    BY <1>1, Standing DEF SetLoad, InSet
  <2>2. PICK place \in {"replace", "add"} : pc' = [pc EXCEPT ![t] = [at |-> place, user |-> u]]
    BY <1>1 DEF SetLoad, GoTo
  <2>3. Placed
    BY <1>1, <2>1, <2>2, GoToType DEF SetLoad, CachePlaces, InSet, CacheTypeOK, Copies
  <2> QED
    BY <1>1, <2>3 DEF SetLoad, CacheTypeOK
<1>2. CASE SetDelete(t, u)
  <2>1. pc[t].user = u /\ todo[t] # <<>>
    BY <1>2, Standing DEF SetDelete, InSet
  <2>2. Placed
    BY <1>2, <2>1, GoToType DEF SetDelete, GoTo, CachePlaces, InSet, CacheTypeOK, Copies
  <2>3. Items
    BY <1>0, <1>2 DEF SetDelete, CacheTypeOK
  <2> QED
    BY <1>2, <2>2, <2>3 DEF SetDelete
<1>3. CASE SetCount(t, u)
  <2>1. pc[t].user = u /\ todo[t] # <<>>
    BY <1>3, Standing DEF SetCount, InSet
  <2>2. Placed
    BY <1>3, <2>1, GoToType DEF SetCount, GoTo, CachePlaces, InSet, CacheTypeOK, Copies
  <2> QED
    BY <1>3, <2>2 DEF SetCount, CacheTypeOK
<1>4. CASE SetStore(t, u)
  <2>1. pc[t].user = u /\ todo[t] # <<>>
    BY <1>4, Standing DEF SetStore, InSet
  <2>2. Placed
    BY <1>4, <2>1, GoToType DEF SetStore, GoTo, CachePlaces, InSet, CacheTypeOK, Copies
  <2>3. Head(todo[t]) \in Users \X (Nat \ {0})
    BY <2>1 DEF CacheTypeOK
  <2>4. Head(todo[t])[2] \in Nat \ {0}
    BY <2>3
  <2>5. [val |-> Head(todo[t])[2], fresh |-> TRUE] \in [val : Nat, fresh : BOOLEAN]
    BY <2>4
  <2>6. Items
    BY <1>4, <2>4, <2>5 DEF SetStore, CacheTypeOK, Gone
  <2> QED
    BY <1>4, <2>2, <2>6 DEF SetStore
<1>5. CASE SetLimit(t, u)
  <2>1. todo[t] # <<>>
    BY <1>5, Standing DEF SetLimit, InSet
  <2>2. Tail(todo[t]) \in Copies
    BY <2>1 DEF CacheTypeOK, Copies
  <2>3. Placed
    BY <1>5, <2>2, NextSetType DEF SetLimit
  <2>4. CASE UNCHANGED <<data, itemCount>>
    BY <1>5, <2>3, <2>4 DEF SetLimit, CacheTypeOK
  <2>5. ASSUME NEW old \in Eviction, data' = [k \in Users |-> IF k \in old THEN NoItem ELSE data[k]],
               itemCount' = itemCount - Cardinality(old)
        PROVE  Items
    <3>1. Cardinality(old) \in Int
      BY FS_Subset, FS_CardinalityType DEF CacheSetting, Eviction, Present
    <3> QED
      BY <1>0, <2>5, <3>1 DEF CacheTypeOK
  <2> QED
    BY <1>5, <2>3, <2>4, <2>5 DEF SetLimit
<1>6. CASE DropExpired(t, u)
  <2>1. pc[t].user = u /\ todo[t] = <<>>
    BY <1>6, Standing DEF DropExpired, InSet
  <2>2. PICK place \in {"read", "idle"}, v \in Users \cup {Gone} :
          pc' = [pc EXCEPT ![t] = [at |-> place, user |-> v]]
    BY <1>6 DEF DropExpired, GoTo, Idle
  <2>3. Placed
    BY <1>6, <2>1, <2>2, GoToType DEF DropExpired, CachePlaces, InSet, CacheTypeOK, Copies
  <2>4. Items
    BY <1>0, <1>6 DEF DropExpired, CacheTypeOK
  <2> QED
    BY <1>6, <2>3, <2>4 DEF DropExpired
<1>7. CASE Invalidate(t, u)
  <2>1. pc[t].user = u /\ todo[t] = <<>>
    BY <1>7, Standing DEF Invalidate, InSet
  <2>2. Placed
    BY <1>7, <2>1, GoToType DEF Invalidate, Idle, CachePlaces, InSet, CacheTypeOK, Copies
  <2>3. Items
    BY <1>0, <1>7 DEF Invalidate, CacheTypeOK
  <2> QED
    BY <1>7, <2>2, <2>3 DEF Invalidate
<1>8. CASE ReadUser(t, u)
  <2> DEFINE rows == IF Exists(u) THEN << <<u, userRow[u]>>, <<u, userRow[u]>> >> ELSE <<>>
  <2>1. Exists(u) => <<u, userRow[u]>> \in Users \X (Nat \ {0})
    BY DEF Exists, CacheTypeOK, Gone, Unborn
  <2>2. rows \in Copies
    <3>1. CASE Exists(u)
      <4> DEFINE c == <<u, userRow[u]>>
      <4>1. c \in Users \X (Nat \ {0})
        BY <2>1, <3>1
      <4> HIDE DEF c
      <4>2. <<c, c>> \in Copies
        BY <4>1 DEF Copies
      <4> QED
        BY <3>1, <4>2 DEF c
    <3>2. CASE ~Exists(u)
      BY <3>2 DEF Copies
    <3> QED
      BY <3>1, <3>2
  <2>3. NextSet(t, rows)
    BY <1>8 DEF ReadUser
  <2> HIDE DEF rows
  <2>4. Placed
    BY <2>2, <2>3, NextSetType
  <2> QED
    BY <1>8, <2>4 DEF ReadUser, CacheTypeOK
<1> QED
  BY <1>1, <1>2, <1>3, <1>4, <1>5, <1>6, <1>7, <1>8 DEF CacheStep


LEMMA RequestType ==
  ASSUME CacheSetting, CacheTypeOK, NEW t \in Goroutines, NEW u \in Users,
         UserRequest(t, u) \/ Cleanup(t, u)
  PROVE  CacheTypeOK'
<1> DEFINE Placed == /\ pc' \in [Goroutines -> [at : CachePlaces, user : Users \cup {Gone}]]
                     /\ todo' \in [Goroutines -> Copies]
                     /\ \A r \in Goroutines : pc'[r].at \in InSet <=> todo'[r] # <<>>
                     /\ \A r \in Goroutines : todo'[r] # <<>> => pc'[r].user = Head(todo'[r])[1]
<1>1. pc[t] = Idle => todo[t] = <<>>
  BY IdleEmpty
<1>2. CASE CreateUser(t, u)
  <2>1. << <<u, 1>> >> \in Copies
    BY DEF Copies
  <2>2. Placed
    BY <1>2, <2>1, NextSetType DEF CreateUser
  <2>3. userRow' \in [Users -> Nat \cup {Unborn}] /\ raced' \subseteq Users /\ UNCHANGED <<data, itemCount>>
    BY <1>2 DEF CreateUser, WriteRow, CacheTypeOK
  <2>4. crowded' \in BOOLEAN
    BY <1>2, EnterType DEF CreateUser
  <2> QED
    BY <2>2, <2>3, <2>4 DEF CacheTypeOK, Copies
<1>3. CASE UpdateUser(t, u)
  <2>1. userRow[u] + 1 \in Nat \ {0}
    BY <1>3 DEF UpdateUser, Exists, CacheTypeOK, Gone, Unborn
  <2>2. << <<u, userRow[u] + 1>> >> \in Copies
    BY <2>1 DEF Copies
  <2>3. Placed
    BY <1>3, <2>2, NextSetType DEF UpdateUser
  <2>4. userRow' \in [Users -> Nat \cup {Unborn}] /\ raced' \subseteq Users /\ UNCHANGED <<data, itemCount>>
    BY <1>3, <2>1 DEF UpdateUser, WriteRow, CacheTypeOK
  <2>5. crowded' \in BOOLEAN
    BY <1>3, EnterType DEF UpdateUser
  <2> QED
    BY <2>3, <2>4, <2>5 DEF CacheTypeOK, Copies
<1>4. CASE DeleteUser(t, u)
  <2>1. Placed
    BY <1>1, <1>4, GoToType DEF DeleteUser, Free, GoTo, CachePlaces, InSet, CacheTypeOK, Copies
  <2>2. userRow' \in [Users -> Nat \cup {Unborn}] /\ raced' \subseteq Users /\ UNCHANGED <<data, itemCount>>
    BY <1>4 DEF DeleteUser, WriteRow, CacheTypeOK, Gone
  <2>3. crowded' \in BOOLEAN
    BY <1>4, EnterType DEF DeleteUser
  <2> QED
    BY <2>1, <2>2, <2>3 DEF CacheTypeOK, Copies
<1>5. CASE GetUser(t, u) \/ Cleanup(t, u)
  <2>1. todo[t] = <<>> /\ UNCHANGED <<userRow, data, itemCount, todo, raced>>
    BY <1>1, <1>5 DEF GetUser, Cleanup, Free
  <2>2. PICK place \in {"expired", "read", "sweep"} : pc' = [pc EXCEPT ![t] = [at |-> place, user |-> u]]
    BY <1>5 DEF GetUser, Cleanup, GoTo
  <2>3. Placed
    BY <2>1, <2>2, GoToType DEF CachePlaces, InSet, CacheTypeOK, Copies
  <2>4. crowded' \in BOOLEAN
    BY <1>5, EnterType DEF GetUser, Cleanup
  <2> QED
    BY <2>1, <2>3, <2>4 DEF CacheTypeOK, Copies
<1> QED
  BY <1>2, <1>3, <1>4, <1>5 DEF UserRequest

LEMMA ListType ==
  ASSUME CacheSetting, CacheTypeOK, NEW t \in Goroutines, ListUsers(t)
  PROVE  CacheTypeOK'
<1>1. PICK order \in [1..Cardinality({v \in Users : Exists(v)}) -> {v \in Users : Exists(v)}] :
        NextSet(t, [i \in DOMAIN order |-> <<order[i], userRow[order[i]]>>])
  BY DEF ListUsers
<1> DEFINE rows == [i \in DOMAIN order |-> <<order[i], userRow[order[i]]>>]
<1>2. rows \in Copies /\ NextSet(t, rows)
  BY <1>1, ListedRows
<1> HIDE DEF rows
<1>3. /\ pc' \in [Goroutines -> [at : CachePlaces, user : Users \cup {Gone}]]
      /\ todo' \in [Goroutines -> Copies]
      /\ \A r \in Goroutines : pc'[r].at \in InSet <=> todo'[r] # <<>>
      /\ \A r \in Goroutines : todo'[r] # <<>> => pc'[r].user = Head(todo'[r])[1]
  BY <1>2, NextSetType
<1>4. crowded' \in BOOLEAN /\ UNCHANGED <<userRow, data, itemCount, raced>>
  BY EnterType DEF ListUsers
<1> QED
  BY <1>3, <1>4 DEF CacheTypeOK, Copies

LEMMA ExpireType ==
  ASSUME CacheTypeOK, NEW u \in Users, Expire(u)
  PROVE  CacheTypeOK'
<1>1. data[u] # NoItem /\ data[u].val \in Nat \ {0}
  BY DEF Expire, CacheTypeOK, NoItem, Gone
<1>2. [data[u] EXCEPT !.fresh = FALSE] \in [val : Nat, fresh : BOOLEAN] /\ [data[u] EXCEPT !.fresh = FALSE].val # Gone
  BY <1>1 DEF CacheTypeOK, Gone
<1>3. data' = [data EXCEPT ![u] = [data[u] EXCEPT !.fresh = FALSE]]
  BY DEF Expire
<1>4. /\ data' \in [Users -> [val : Nat, fresh : BOOLEAN]]
      /\ \A k \in Users : data'[k] = NoItem \/ data'[k].val # Gone
  BY <1>2, <1>3 DEF CacheTypeOK
<1> QED
  BY <1>4 DEF Expire, CacheTypeOK


-----------------------------------------------------------------------------
(* What the cache may serve.                                                 *)

\* Whoever was about to replace or remove the item of u still is.
Awaits(r, u) == Replaces(r, u) \/ At(r, "invalidate", u)

\* A step that writes no row: each item goes, is the row's, or stays as it was
\* with those who were to replace it.
LEMMA ItemsKept ==
  ASSUME StaleReplaced, UNCHANGED <<userRow, raced>>,
         \A u \in Users \ raced :
           \/ data'[u] = NoItem
           \/ data'[u].val = userRow[u]
           \/ /\ data[u] # NoItem /\ data'[u].val = data[u].val
              /\ \A r \in Goroutines : Awaits(r, u) => Awaits(r, u)'
  PROVE  StaleReplaced'
<1> SUFFICES ASSUME NEW u \in Users \ raced, data'[u] # NoItem, data'[u].val # userRow[u]
             PROVE  \E r \in Goroutines : Awaits(r, u)'
  BY DEF StaleReplaced, Present, Awaits
<1>1. data[u] # NoItem /\ data'[u].val = data[u].val /\ \A r \in Goroutines : Awaits(r, u) => Awaits(r, u)'
  OBVIOUS
<1>2. PICK r \in Goroutines : Awaits(r, u)
  BY <1>1 DEF StaleReplaced, Present, Awaits
<1> QED
  BY <1>1, <1>2

\* Goroutine t moves, with the same rows to Set, to a place that is not the end
\* of Set, or from one where it was not to remove anything.
LEMMA OthersAwait ==
  ASSUME NEW t \in Goroutines, UNCHANGED todo, \A r \in Goroutines \ {t} : pc'[r] = pc[r]
  PROVE  /\ \A r \in Goroutines \ {t}, u \in Users : Awaits(r, u) => Awaits(r, u)'
         /\ \A u \in Users : Replaces(t, u) /\ pc'[t].at # "limit" => Replaces(t, u)'
  BY DEF Awaits, Replaces, At

LEMMA SameCopies ==
  ASSUME CopiesCurrent, UNCHANGED <<userRow, todo, raced>>
  PROVE  CopiesCurrent'
  BY DEF CopiesCurrent

\* The rows goroutine t takes up are the current ones.
LEMMA NewCopies ==
  ASSUME CopiesCurrent, NEW t \in Goroutines, UNCHANGED <<userRow, raced>>,
         \A r \in Goroutines \ {t} : todo'[r] = todo[r],
         \A i \in DOMAIN todo'[t] :
           todo'[t][i][1] \in raced \/ todo'[t][i][2] = userRow[todo'[t][i][1]]
  PROVE  CopiesCurrent'
  BY DEF CopiesCurrent

Fresh == CacheTypeOK /\ CopiesCurrent /\ StaleReplaced

LEMMA MoveFresh ==
  ASSUME Fresh, NEW t \in Goroutines, NEW u \in Users,
         SetLoad(t, u) \/ SetDelete(t, u) \/ SetCount(t, u) \/ SetStore(t, u) \/ DropExpired(t, u)
           \/ Invalidate(t, u) \/ GetUser(t, u) \/ Cleanup(t, u)
  PROVE  CopiesCurrent' /\ StaleReplaced'
<1>1. UNCHANGED <<userRow, todo, raced>>
  BY DEF SetLoad, SetDelete, SetCount, SetStore, DropExpired, Invalidate, GetUser, Cleanup
<1>2. CopiesCurrent'
  BY <1>1, SameCopies DEF Fresh
<1>3. PICK place, v : pc' = [pc EXCEPT ![t] = [at |-> place, user |-> v]]
  BY DEF SetLoad, SetDelete, SetCount, SetStore, DropExpired, Invalidate, GetUser, Cleanup, GoTo, Idle
<1>4. pc'[t] = [at |-> place, user |-> v] /\ \A r \in Goroutines \ {t} : pc'[r] = pc[r]
  BY <1>3 DEF Fresh, CacheTypeOK
<1>5. CASE SetStore(t, u)
  <2>1. pc[t].user = u /\ pc[t].at = "store" /\ todo[t] # <<>>
    BY <1>5, Standing DEF SetStore, InSet, Fresh
  <2>2. Head(todo[t])[1] = u /\ todo[t] \in Copies
    BY <2>1 DEF Fresh, CacheTypeOK, Copies
  <2>3. todo[t][1] = Head(todo[t]) /\ 1 \in DOMAIN todo[t] /\ DOMAIN todo[t] = 1..Len(todo[t])
    BY <2>1, <2>2 DEF Copies
  <2>4. u \in raced \/ Head(todo[t])[2] = userRow[u]
    BY <2>2, <2>3 DEF Fresh, CopiesCurrent
  <2>5. data'[u].val = Head(todo[t])[2] /\ \A w \in Users \ {u} : data'[w] = data[w]
    BY <1>5 DEF SetStore, Fresh, CacheTypeOK
  <2>6. ASSUME NEW w \in Users \ {u}, NEW r \in Goroutines, Awaits(r, w) PROVE Awaits(r, w)'
    <3>1. CASE r # t
      BY <1>1, <1>4, <2>6, <3>1, OthersAwait
    <3>2. CASE r = t
      <4>1. PICK i \in DOMAIN todo[t] : todo[t][i][1] = w
        BY <2>1, <2>6, <3>2 DEF Awaits, Replaces, At
      <4>2. i # 1
        BY <2>2, <2>3, <4>1
      <4> QED
        BY <1>1, <3>2, <4>1, <4>2 DEF Awaits, Replaces
    <3> QED
      BY <3>1, <3>2
  <2>7. ASSUME NEW w \in Users \ raced
        PROVE  \/ data'[w] = NoItem
               \/ data'[w].val = userRow[w]
               \/ /\ data[w] # NoItem /\ data'[w].val = data[w].val
                  /\ \A r \in Goroutines : Awaits(r, w) => Awaits(r, w)'
    BY <2>4, <2>5, <2>6
  <2> QED
    BY <1>1, <1>2, <2>7, ItemsKept DEF Fresh
<1>6. CASE ~SetStore(t, u)
  <2>1. place # "limit"
    BY <1>3, <1>4, <1>6 DEF SetLoad, SetDelete, SetCount, SetStore, DropExpired, Invalidate, GetUser,
                            Cleanup, GoTo, Idle,
          Fresh, CacheTypeOK
  <2>2. \A w \in Users : data'[w] = data[w] \/ data'[w] = NoItem
    BY <1>6 DEF SetLoad, SetDelete, SetCount, DropExpired, Invalidate, GetUser, Cleanup, Fresh, CacheTypeOK
  <2>3. ASSUME NEW w \in Users, At(t, "invalidate", w) PROVE data'[w] = NoItem
    <3>1. pc[t].at = "invalidate" /\ pc[t].user = w
      BY <2>3, Standing DEF Fresh
    <3>2. Invalidate(t, u)
      BY <1>6, <3>1 DEF SetLoad, SetDelete, SetCount, DropExpired, Invalidate, GetUser, Cleanup, Free,
                        At, Idle
    <3> QED
      BY <3>1, <3>2 DEF Invalidate, At, Fresh, CacheTypeOK
  <2>4. ASSUME NEW w \in Users \ raced
        PROVE  \/ data'[w] = NoItem
               \/ data'[w].val = userRow[w]
               \/ /\ data[w] # NoItem /\ data'[w].val = data[w].val
                  /\ \A r \in Goroutines : Awaits(r, w) => Awaits(r, w)'
    <3>1. ASSUME data'[w] # NoItem, NEW r \in Goroutines, Awaits(r, w) PROVE Awaits(r, w)'
      <4>1. CASE r # t
        BY <1>1, <1>4, <3>1, <4>1, OthersAwait
      <4>2. CASE r = t
        BY <1>1, <1>4, <2>1, <2>3, <3>1, <4>2, OthersAwait DEF Awaits
      <4> QED
        BY <4>1, <4>2
    <3> QED
      BY <2>2, <3>1
  <2> QED
    BY <1>1, <1>2, <2>4, ItemsKept DEF Fresh
<1> QED
  BY <1>5, <1>6


\* The end of one Set: what t has still to Set stays to be Set.
LEMMA LimitFresh ==
  ASSUME Fresh, NEW t \in Goroutines, NEW u \in Users, SetLimit(t, u)
  PROVE  CopiesCurrent' /\ StaleReplaced'
<1> DEFINE old == todo[t]
<1>1. pc[t].at = "limit" /\ old # <<>> /\ UNCHANGED <<userRow, raced>>
  BY Standing DEF SetLimit, InSet, Fresh
<1>2. old \in Copies /\ Tail(old) \in Copies
  BY <1>1 DEF Fresh, CacheTypeOK, Copies
<1>3. /\ \A i \in DOMAIN Tail(old) : i + 1 \in DOMAIN old /\ Tail(old)[i] = old[i + 1]
      /\ \A i \in DOMAIN old : i # 1 => i - 1 \in DOMAIN Tail(old) /\ Tail(old)[i - 1] = old[i]
  <2>1. /\ Len(old) \in Nat /\ Len(Tail(old)) = Len(old) - 1
        /\ DOMAIN old = 1..Len(old) /\ DOMAIN Tail(old) = 1..Len(Tail(old))
        /\ \A i \in 1..Len(Tail(old)) : Tail(old)[i] = old[i + 1]
    BY <1>1, <1>2, HeadTailProperties DEF Copies
  <2> HIDE DEF old
  <2> QED
    BY <2>1
<1>4. /\ todo'[t] = Tail(old) /\ pc'[t].at # "limit"
      /\ \A r \in Goroutines \ {t} : pc'[r] = pc[r] /\ todo'[r] = todo[r]
  <2>1. NextSet(t, Tail(old)) /\ CacheTypeOK
    BY DEF SetLimit, Fresh
  <2>2. Tail(old) = <<>> => pc'[t] = Idle
    BY <1>2, <2>1, NextSetType
  <2>3. Tail(old) # <<>> => pc'[t] = [at |-> "set", user |-> Head(Tail(old))[1]]
    BY <1>2, <2>1, NextSetType
  <2>4. todo'[t] = Tail(old) /\ \A r \in Goroutines \ {t} : pc'[r] = pc[r] /\ todo'[r] = todo[r]
    BY <1>2, <2>1, NextSetType
  <2> QED
    BY <2>2, <2>3, <2>4 DEF Idle
<1>5. CopiesCurrent'
  <2>1. \A i \in DOMAIN todo'[t] : todo'[t][i][1] \in raced \/ todo'[t][i][2] = userRow[todo'[t][i][1]]
    BY <1>3, <1>4 DEF Fresh, CopiesCurrent
  <2> QED
    BY <1>1, <1>4, <2>1, NewCopies DEF Fresh
<1>6. \A w \in Users : data'[w] = data[w] \/ data'[w] = NoItem
  BY DEF SetLimit
<1>7. ASSUME NEW w \in Users, NEW r \in Goroutines, Awaits(r, w) PROVE Awaits(r, w)'
  <2>1. CASE r # t
    BY <1>4, <1>7, <2>1 DEF Awaits, Replaces, At
  <2>2. CASE r = t
    <3>1. PICK i \in DOMAIN old : old[i][1] = w /\ i # 1
      BY <1>1, <1>7, <2>2 DEF Awaits, Replaces, At
    <3>2. i - 1 \in DOMAIN todo'[t] /\ todo'[t][i - 1][1] = w
      BY <1>3, <1>4, <3>1
    <3> QED
      BY <1>4, <2>2, <3>2 DEF Awaits, Replaces
  <2> QED
    BY <2>1, <2>2
<1>8. ASSUME NEW w \in Users \ raced
      PROVE  \/ data'[w] = NoItem
             \/ data'[w].val = userRow[w]
             \/ /\ data[w] # NoItem /\ data'[w].val = data[w].val
                /\ \A r \in Goroutines : Awaits(r, w) => Awaits(r, w)'
  BY <1>6, <1>7
<1> QED
  BY <1>1, <1>5, <1>8, ItemsKept DEF Fresh

\* A read of the table: every copy taken up is the row's.
LEMMA ReadFresh ==
  ASSUME CacheSetting, Fresh, NEW t \in Goroutines, NEW rows \in Copies, NextSet(t, rows), todo[t] = <<>>,
         pc[t].at # "invalidate", UNCHANGED <<userRow, data, raced>>,
         \A i \in DOMAIN rows : rows[i][2] = userRow[rows[i][1]]
  PROVE  CopiesCurrent' /\ StaleReplaced'
<1>1. todo'[t] = rows /\ \A r \in Goroutines \ {t} : pc'[r] = pc[r] /\ todo'[r] = todo[r]
  BY NextSetType DEF Fresh
<1>2. CopiesCurrent'
  BY <1>1, NewCopies DEF Fresh
<1>3. ASSUME NEW w \in Users, NEW r \in Goroutines, Awaits(r, w) PROVE Awaits(r, w)'
  <2>1. r # t
    BY <1>3 DEF Awaits, Replaces, At
  <2> QED
    BY <1>1, <1>3, <2>1 DEF Awaits, Replaces, At
<1> QED
  BY <1>2, <1>3, ItemsKept DEF Fresh

LEMMA ReadUserFresh ==
  ASSUME CacheSetting, Fresh, NEW t \in Goroutines, NEW u \in Users, ReadUser(t, u)
  PROVE  CopiesCurrent' /\ StaleReplaced'
<1>1. todo[t] = <<>> /\ pc[t].at # "invalidate" /\ UNCHANGED <<userRow, data, raced>>
  BY Standing DEF ReadUser, InSet, Fresh
<1>2. CASE Exists(u)
  <2> DEFINE c == <<u, userRow[u]>>
  <2>1. c \in Users \X (Nat \ {0}) /\ c[2] = userRow[c[1]]
    BY <1>2 DEF Exists, Fresh, CacheTypeOK, Gone, Unborn
  <2>2. NextSet(t, <<c, c>>)
    BY <1>2 DEF ReadUser
  <2> HIDE DEF c
  <2>3. <<c, c>> \in Copies /\ \A i \in DOMAIN <<c, c>> : <<c, c>>[i] = c
    BY <2>1 DEF Copies
  <2> QED
    BY <1>1, <2>1, <2>2, <2>3, ReadFresh
<1>3. CASE ~Exists(u)
  <2>1. NextSet(t, <<>>) /\ <<>> \in Copies
    BY <1>3 DEF ReadUser, Copies
  <2> QED
    BY <1>1, <2>1, ReadFresh
<1> QED
  BY <1>2, <1>3

LEMMA ListFresh ==
  ASSUME CacheSetting, Fresh, NEW t \in Goroutines, ListUsers(t)
  PROVE  CopiesCurrent' /\ StaleReplaced'
<1>1. PICK order \in [1..Cardinality({v \in Users : Exists(v)}) -> {v \in Users : Exists(v)}] :
        NextSet(t, [i \in DOMAIN order |-> <<order[i], userRow[order[i]]>>])
  BY DEF ListUsers
<1> DEFINE rows == [i \in DOMAIN order |-> <<order[i], userRow[order[i]]>>]
<1>2. rows \in Copies /\ NextSet(t, rows)
  BY <1>1, ListedRows DEF Fresh
<1>3. \A i \in DOMAIN rows : rows[i][2] = userRow[rows[i][1]]
  OBVIOUS
<1>4. todo[t] = <<>> /\ pc[t].at # "invalidate" /\ UNCHANGED <<userRow, data, raced>>
  BY IdleEmpty DEF ListUsers, Free, Fresh, Idle
<1> HIDE DEF rows
<1> QED
  BY <1>2, <1>3, <1>4, ReadFresh

\* The row of u is written by t, which brings its copy, or removes the item.
LEMMA WriteFresh ==
  ASSUME Fresh, NEW t \in Goroutines, NEW u \in Users, NEW v, WriteRow(u, v), UNCHANGED data, todo[t] = <<>>,
         pc[t] = Idle, \A r \in Goroutines \ {t} : pc'[r] = pc[r] /\ todo'[r] = todo[r],
         \/ todo'[t] = << <<u, v>> >> /\ pc'[t].at = "set"
         \/ todo'[t] = <<>> /\ At(t, "invalidate", u)'
  PROVE  CopiesCurrent' /\ StaleReplaced'
<1>1. /\ userRow'[u] = v /\ \A w \in Users \ {u} : userRow'[w] = userRow[w]
      /\ raced \subseteq raced' /\ raced' \subseteq raced \cup {u}
  BY DEF WriteRow, Fresh, CacheTypeOK
<1>2. ASSUME NEW r \in Goroutines, NEW i \in DOMAIN todo'[r]
      PROVE  todo'[r][i][1] \in raced' \/ todo'[r][i][2] = userRow'[todo'[r][i][1]]
  <2>1. CASE r = t
    BY <1>1, <2>1
  <2>2. CASE r # t /\ todo[r][i][1] = u
    <3>1. r \in OnItsWay(u)
      BY <1>2, <2>2 DEF OnItsWay
    <3> QED
      BY <2>2, <3>1 DEF WriteRow
  <2>3. CASE r # t /\ todo[r][i][1] # u
    <3>1. todo[r] \in Copies /\ i \in DOMAIN todo[r]
      BY <1>2, <2>3 DEF Fresh, CacheTypeOK, Copies
    <3>2. todo[r][i] \in Users \X (Nat \ {0})
      BY <3>1 DEF Copies
    <3> QED
      BY <1>1, <2>3, <3>1, <3>2 DEF Fresh, CopiesCurrent
  <2> QED
    BY <2>1, <2>2, <2>3
<1>3. ASSUME NEW w \in Users \ raced', data[w] # NoItem, data[w].val # userRow'[w]
      PROVE  \E r \in Goroutines : Awaits(r, w)'
  <2>1. CASE w = u
    <3>1. CASE todo'[t] = << <<u, v>> >> /\ pc'[t].at = "set"
      <4>1. Replaces(t, u)'
        BY <3>1 DEF Replaces
      <4> QED
        BY <2>1, <4>1 DEF Awaits
    <3>2. CASE At(t, "invalidate", u)'
      BY <2>1, <3>2 DEF Awaits
    <3> QED
      BY <3>1, <3>2
  <2>2. CASE w # u
    <3>1. PICK r \in Goroutines : Awaits(r, w)
      BY <1>1, <1>3, <2>2 DEF Fresh, StaleReplaced, Present, Awaits
    <3>2. r # t
      BY <3>1 DEF Awaits, Replaces, At, Idle
    <3> QED
      BY <3>1, <3>2 DEF Awaits, Replaces, At
  <2> QED
    BY <2>1, <2>2
<1> QED
  BY <1>2, <1>3 DEF CopiesCurrent, StaleReplaced, Present, Awaits

LEMMA WritesFresh ==
  ASSUME Fresh, NEW t \in Goroutines, NEW u \in Users, CreateUser(t, u) \/ UpdateUser(t, u) \/ DeleteUser(t, u)
  PROVE  CopiesCurrent' /\ StaleReplaced'
<1>1. pc[t] = Idle /\ todo[t] = <<>> /\ UNCHANGED data
  BY IdleEmpty DEF CreateUser, UpdateUser, DeleteUser, Free, Fresh
<1>2. ASSUME NEW v \in Nat \ {0}, WriteRow(u, v), NextSet(t, << <<u, v>> >>)
      PROVE  CopiesCurrent' /\ StaleReplaced'
  <2>1. << <<u, v>> >> \in Copies /\ << <<u, v>> >> # <<>>
    BY DEF Copies
  <2>2. CacheTypeOK
    BY DEF Fresh
  <2>3. /\ todo'[t] = << <<u, v>> >> /\ pc'[t] = [at |-> "set", user |-> Head(<< <<u, v>> >>)[1]]
        /\ \A r \in Goroutines \ {t} : pc'[r] = pc[r] /\ todo'[r] = todo[r]
    BY <1>2, <2>1, <2>2, NextSetType
  <2> QED
    BY <1>1, <1>2, <2>3, WriteFresh
<1>3. CASE CreateUser(t, u)
  BY <1>2, <1>3 DEF CreateUser
<1>4. CASE UpdateUser(t, u)
  <2>1. userRow[u] + 1 \in Nat \ {0}
    BY <1>4 DEF UpdateUser, Exists, Fresh, CacheTypeOK, Gone, Unborn
  <2> QED
    BY <1>2, <1>4, <2>1 DEF UpdateUser
<1>5. CASE DeleteUser(t, u)
  <2>1. /\ WriteRow(u, Gone) /\ todo' = todo /\ At(t, "invalidate", u)'
        /\ \A r \in Goroutines \ {t} : pc'[r] = pc[r]
    BY <1>5 DEF DeleteUser, GoTo, At, Fresh, CacheTypeOK
  <2> QED
    BY <1>1, <2>1, WriteFresh
<1> QED
  BY <1>3, <1>4, <1>5

LEMMA ExpireFresh ==
  ASSUME Fresh, NEW u \in Users, Expire(u)
  PROVE  CopiesCurrent' /\ StaleReplaced'
<1>1. CopiesCurrent'
  BY SameCopies DEF Fresh, Expire
<1>2. data[u] # NoItem
  BY DEF Expire, NoItem
<1>3. \A w \in Users : data'[w] = data[w] \/ (w = u /\ data'[w].val = data[w].val)
  BY DEF Expire, Fresh, CacheTypeOK
<1>4. \A w \in Users, r \in Goroutines : Awaits(r, w) => Awaits(r, w)'
  BY DEF Expire, Awaits, Replaces, At
<1> QED
  BY <1>1, <1>2, <1>3, <1>4, ItemsKept DEF Fresh, Expire

LEMMA FreshStep == CacheSetting /\ Fresh /\ [CacheNext]_cacheVars => Fresh'
<1> SUFFICES ASSUME CacheSetting, Fresh, [CacheNext]_cacheVars PROVE Fresh'
  OBVIOUS
<1>1. CASE UNCHANGED cacheVars
  BY <1>1 DEF cacheVars, Fresh, CacheTypeOK, CopiesCurrent, StaleReplaced, Present, Replaces, At
<1>2. ASSUME NEW t \in Goroutines, NEW u \in Users, CacheStep(t, u) PROVE Fresh'
  BY <1>2, CacheStepType, MoveFresh, LimitFresh, ReadUserFresh DEF CacheStep, Fresh
<1>3. ASSUME NEW t \in Goroutines, NEW u \in Users, UserRequest(t, u) PROVE Fresh'
  BY <1>3, RequestType, MoveFresh, WritesFresh DEF UserRequest, Fresh
<1>4. ASSUME NEW t \in Goroutines, NEW u \in Users, Cleanup(t, u) PROVE Fresh'
  BY <1>4, RequestType, MoveFresh DEF Fresh
<1>5. ASSUME NEW t \in Goroutines, ListUsers(t) PROVE Fresh'
  BY <1>5, ListType, ListFresh DEF Fresh
<1>6. ASSUME NEW u \in Users, Expire(u) PROVE Fresh'
  BY <1>6, ExpireType, ExpireFresh DEF Fresh
<1> QED
  BY <1>1, <1>2, <1>3, <1>4, <1>5, <1>6 DEF CacheNext


\* What a request finds in the cache of users is what the database holds, for any
\* interleaving of requests, expiries, evictions and the ticker, unless the row
\* was written while a copy of an older one was being stored.
THEOREM ServedCurrent ==
  ASSUME CacheSetting
  PROVE  CacheSpec => []StaleOnlyByRace
<1>1. CacheInit => Fresh
  BY InitFresh DEF Fresh
<1>2. Fresh => StaleOnlyByRace
  <2> SUFFICES ASSUME Fresh, NEW u \in Users \ raced, u \in Present, OnItsWay(u) = {},
                      ~(\E t \in Goroutines : At(t, "invalidate", u))
               PROVE  data[u].val = userRow[u]
    BY DEF StaleOnlyByRace
  <2>1. \A t \in Goroutines : ~Replaces(t, u)
    BY DEF OnItsWay, Replaces
  <2> QED
    BY <2>1 DEF Fresh, StaleReplaced
<1>3. Fresh /\ [CacheNext]_cacheVars => Fresh'
  BY FreshStep
<1> QED
  BY <1>1, <1>2, <1>3, PTL DEF CacheSpec

-----------------------------------------------------------------------------
(* The counter, one goroutine at a time.                                     *)

LEMMA PresentFinite ==
  ASSUME CacheSetting
  PROVE  IsFiniteSet(Present) /\ Cardinality(Present) \in Nat
  BY FS_Subset, FS_CardinalityType DEF CacheSetting, Present

\* How the number of items changes with one of them.
LEMMA OneItem ==
  ASSUME CacheSetting, NEW u \in Users, CacheTypeOK
  PROVE  /\ data' = [data EXCEPT ![u] = NoItem] =>
              /\ u \notin Present'
              /\ Cardinality(Present)' = IF u \in Present THEN Cardinality(Present) - 1 ELSE Cardinality(Present)
         /\ \A item : item # NoItem /\ data' = [data EXCEPT ![u] = item] =>
              Cardinality(Present)' = IF u \in Present THEN Cardinality(Present) ELSE Cardinality(Present) + 1
<1>1. ASSUME data' = [data EXCEPT ![u] = NoItem] PROVE Present' = Present \ {u}
  BY <1>1 DEF Present, CacheTypeOK
<1>2. ASSUME NEW item, item # NoItem, data' = [data EXCEPT ![u] = item] PROVE Present' = Present \cup {u}
  BY <1>2 DEF Present, CacheTypeOK
<1>3. Cardinality(Present \ {u}) = IF u \in Present THEN Cardinality(Present) - 1 ELSE Cardinality(Present)
  BY PresentFinite, FS_RemoveElement
<1>4. Cardinality(Present \cup {u}) = IF u \in Present THEN Cardinality(Present) ELSE Cardinality(Present) + 1
  BY PresentFinite, FS_AddElement
<1> QED
  BY <1>1, <1>2, <1>3, <1>4

\* Goroutine t comes to a place.
LEMMA Arrives ==
  ASSUME CacheTypeOK, NEW t \in Goroutines, NEW place, NEW v,
         pc' = [pc EXCEPT ![t] = [at |-> place, user |-> v]]
  PROVE  pc'[t].at = place /\ pc'[t].user = v
  BY DEF CacheTypeOK

\* An eviction takes some item, and counts what it takes.
LEMMA Evicts ==
  ASSUME CacheSetting, NEW old \in Eviction, Present # {},
         data' = [k \in Users |-> IF k \in old THEN NoItem ELSE data[k]]
  PROVE  Cardinality(old) \in Nat \ {0} /\ Cardinality(Present)' = Cardinality(Present) - Cardinality(old)
<1>1. Present' = Present \ old /\ old \in SUBSET Present
  BY DEF Present, Eviction
<1>2. Present \cap old = old
  BY <1>1
<1>3. Cardinality(Present \ old) = Cardinality(Present) - Cardinality(old)
  BY ZenonT(60), <1>2, PresentFinite, FS_Difference
<1>4. Cardinality(Present) # 0
  BY PresentFinite, FS_EmptySet
<1>5. Cardinality(old) \in Nat \ {0}
  <2>1. MaxItems \div 5 \in Int
    BY DEF CacheSetting
  <2> DEFINE th == IF MaxItems \div 5 > 1 THEN MaxItems \div 5 ELSE 1
  <2>2. th \in Nat \ {0}
    BY <2>1
  <2>3. Cardinality(old) = IF Cardinality(Present) < th THEN Cardinality(Present) ELSE th
    BY DEF Eviction
  <2> HIDE DEF th
  <2> QED
    BY <1>4, <2>2, <2>3, PresentFinite
<1> QED
  BY <1>1, <1>3, <1>5

LEMMA CountInside ==
  ASSUME CacheSetting, CacheTypeOK, NEW t \in Goroutines, NEW u \in Users, Counting(t), CacheStep(t, u)
  PROVE  Counting(t)'
<1> DEFINE size == Cardinality(Present)
<1>0. size \in Nat /\ MaxItems \in Nat \ {0}
  BY PresentFinite DEF CacheSetting
<1>1. CASE SetLoad(t, u)
  <2>1. pc[t].at = "set" /\ Present' = Present /\ itemCount' = itemCount
    BY <1>1, Standing DEF SetLoad, Present
  <2>2. pc'[t].at = (IF u \in Present THEN "replace" ELSE "add") /\ pc'[t].user = u
    BY <1>1, Arrives DEF SetLoad, GoTo, Present
  <2> QED
    BY <2>1, <2>2 DEF Counting
<1>2. CASE SetDelete(t, u)
  <2>1. pc[t].at = "replace" /\ pc[t].user = u /\ itemCount' = itemCount
    BY <1>2, Standing DEF SetDelete
  <2>2. pc'[t].at = "store" /\ pc'[t].user = u
    BY <1>2, Arrives DEF SetDelete, GoTo
  <2>3. u \in Present
    BY <2>1 DEF Counting
  <2>4. u \notin Present' /\ Cardinality(Present)' = size - 1
    BY <1>2, <2>3, OneItem DEF SetDelete
  <2> QED
    BY <1>0, <2>1, <2>2, <2>4 DEF Counting
<1>3. CASE SetCount(t, u)
  <2>1. pc[t].at = "add" /\ pc[t].user = u /\ itemCount' = itemCount + 1 /\ Present' = Present
    BY <1>3, Standing DEF SetCount, Present
  <2>2. pc'[t].at = "store" /\ pc'[t].user = u
    BY <1>3, Arrives DEF SetCount, GoTo
  <2> QED
    BY <1>0, <2>1, <2>2 DEF Counting
<1>4. CASE SetStore(t, u)
  <2>1. pc[t].at = "store" /\ pc[t].user = u /\ itemCount' = itemCount
    BY <1>4, Standing DEF SetStore
  <2>2. pc'[t].at = "limit"
    BY <1>4, Arrives DEF SetStore, GoTo
  <2>3. u \notin Present
    BY <2>1 DEF Counting
  <2>4. [val |-> Head(todo[t])[2], fresh |-> TRUE] # NoItem
    BY DEF NoItem
  <2>5. Cardinality(Present)' = size + 1
    BY <1>4, <2>3, <2>4, OneItem DEF SetStore
  <2> QED
    BY <1>0, <2>1, <2>2, <2>5 DEF Counting
<1>5. CASE SetLimit(t, u)
  <2>1. pc[t].at = "limit" /\ todo[t] # <<>>
    BY <1>5, Standing DEF SetLimit, InSet
  <2>2. itemCount = size /\ itemCount <= MaxItems + 1
    BY <2>1 DEF Counting
  <2>3. pc'[t].at \in {"set", "idle"}
    BY <1>5 DEF SetLimit, NextSet, CacheTypeOK, Idle
  <2>4. CASE itemCount <= MaxItems /\ UNCHANGED <<data, itemCount>>
    BY <1>0, <2>2, <2>3, <2>4 DEF Counting, Present
  <2>5. ASSUME NEW old \in Eviction, data' = [k \in Users |-> IF k \in old THEN NoItem ELSE data[k]],
               itemCount' = itemCount - Cardinality(old), itemCount > MaxItems
        PROVE  Counting(t)'
    <3>1. Present # {}
      <4>1. size > 0
        BY <1>0, <2>2, <2>5
      <4> QED
        BY <4>1, FS_EmptySet
    <3>2. Cardinality(old) \in Nat \ {0} /\ Cardinality(Present)' = size - Cardinality(old)
      BY <2>5, <3>1, Evicts
    <3>3. itemCount' = Cardinality(Present)' /\ itemCount' <= MaxItems
      BY <1>0, <2>2, <2>5, <3>2
    <3> QED
      BY <2>3, <3>3 DEF Counting
  <2> QED
    BY <1>5, <2>4, <2>5 DEF SetLimit
<1>6. CASE DropExpired(t, u)
  <2>1. pc[t].at \in {"expired", "sweep"} /\ pc[t].user = u /\ itemCount' = itemCount - 1
    BY <1>6, Standing DEF DropExpired
  <2>2. pc'[t].at \in {"read", "idle"}
    BY <1>6 DEF DropExpired, GoTo, Idle, CacheTypeOK
  <2>3. u \in Present
    BY <2>1 DEF Counting
  <2>4. Cardinality(Present)' = size - 1
    BY <1>6, <2>3, OneItem DEF DropExpired
  <2> QED
    BY <1>0, <2>1, <2>2, <2>4 DEF Counting
<1>7. CASE Invalidate(t, u)
  <2>1. pc[t].at = "invalidate" /\ itemCount' = itemCount - (IF u \in Present THEN 1 ELSE 0)
    BY <1>7, Standing DEF Invalidate
  <2>2. pc'[t].at = "idle"
    BY <1>7 DEF Invalidate, Idle, CacheTypeOK
  <2>3. Cardinality(Present)' = IF u \in Present THEN size - 1 ELSE size
    BY <1>7, OneItem DEF Invalidate
  <2> QED
    BY <1>0, <2>1, <2>2, <2>3 DEF Counting
<1>8. CASE ReadUser(t, u)
  <2>1. pc[t].at = "read" /\ Present' = Present /\ itemCount' = itemCount
    BY <1>8, Standing DEF ReadUser, Present
  <2>2. pc'[t].at \in {"set", "idle"}
    BY <1>8 DEF ReadUser, NextSet, CacheTypeOK, Idle
  <2> QED
    BY <2>1, <2>2 DEF Counting
<1> QED
  BY <1>1, <1>2, <1>3, <1>4, <1>5, <1>6, <1>7, <1>8 DEF CacheStep

LEMMA CountOutside ==
  ASSUME CacheSetting, CacheTypeOK, NEW t \in Goroutines, Counting(t),
         \/ \E u \in Users : UserRequest(t, u) \/ Cleanup(t, u) \/ Expire(u)
         \/ ListUsers(t)
  PROVE  Counting(t)'
<1>1. CASE \E u \in Users : CreateUser(t, u) \/ UpdateUser(t, u) \/ DeleteUser(t, u)
  <2>1. pc[t].at = "idle" /\ UNCHANGED <<data, itemCount>>
    BY <1>1 DEF CreateUser, UpdateUser, DeleteUser, Free, Idle
  <2>2. pc'[t].at \in {"set", "idle", "invalidate"}
    <3>1. ASSUME NEW rest, NextSet(t, rest) PROVE pc'[t].at \in {"set", "idle"}
      BY <3>1 DEF NextSet, Idle, CacheTypeOK
    <3>2. ASSUME NEW u, GoTo(t, "invalidate", u) PROVE pc'[t].at = "invalidate"
      BY <3>2 DEF GoTo, CacheTypeOK
    <3> QED
      BY <1>1, <3>1, <3>2 DEF CreateUser, UpdateUser, DeleteUser
  <2> QED
    BY <2>1, <2>2 DEF Counting, Present
<1>2. CASE \E u \in Users : GetUser(t, u) \/ Cleanup(t, u)
  <2>1. PICK u \in Users : GetUser(t, u) \/ Cleanup(t, u)
    BY <1>2
  <2>2. pc[t].at = "idle" /\ UNCHANGED <<data, itemCount>>
    BY <2>1 DEF GetUser, Cleanup, Free, Idle
  <2>3. \/ pc'[t].at \in {"expired", "sweep"} /\ pc'[t].user = u /\ u \in Present
        \/ pc'[t].at = "read"
    BY <2>1 DEF GetUser, Cleanup, GoTo, CacheTypeOK
  <2> QED
    BY <2>2, <2>3 DEF Counting, Present
<1>3. CASE \E u \in Users : Expire(u)
  <2>1. PICK u \in Users : Expire(u)
    BY <1>3
  <2>2. data[u].val # Gone /\ UNCHANGED <<pc, itemCount>>
    BY <2>1 DEF Expire, CacheTypeOK, NoItem
  <2>3. data[u] # NoItem /\ data'[u] # NoItem /\ \A w \in Users \ {u} : data'[w] = data[w]
    <3>1. data' = [data EXCEPT ![u] = [data[u] EXCEPT !.fresh = FALSE]]
      BY <2>1 DEF Expire
    <3>2. [data[u] EXCEPT !.fresh = FALSE].val # Gone
      BY <2>2 DEF CacheTypeOK
    <3> QED
      BY <2>2, <3>1, <3>2 DEF CacheTypeOK, NoItem
  <2>4. Present' = Present
    BY <2>3 DEF Present
  <2> QED
    BY <2>2, <2>4 DEF Counting
<1>4. CASE ListUsers(t)
  <2>1. pc[t].at = "idle" /\ UNCHANGED <<data, itemCount>>
    BY <1>4 DEF ListUsers, Free, Idle
  <2>2. pc'[t].at \in {"set", "idle"}
    BY <1>4 DEF ListUsers, NextSet, Idle, CacheTypeOK
  <2> QED
    BY <2>1, <2>2 DEF Counting, Present
<1> QED
  BY <1>1, <1>2, <1>3, <1>4 DEF UserRequest

\* A step inside the cache is of one goroutine, and so is an entry.
LEMMA OneMoves ==
  ASSUME CacheTypeOK, NEW t \in Goroutines,
         \/ \E u \in Users : CacheStep(t, u) \/ UserRequest(t, u) \/ Cleanup(t, u)
         \/ ListUsers(t)
  PROVE  \A r \in Others(t) : pc'[r] = pc[r]
<1>1. ASSUME NEW u \in Users, CacheStep(t, u) PROVE \A r \in Others(t) : pc'[r] = pc[r]
  BY <1>1 DEF CacheStep, SetLoad, SetDelete, SetCount, SetStore, SetLimit, DropExpired, Invalidate,
              ReadUser, GoTo, NextSet, Others, CacheTypeOK
<1>2. ASSUME NEW u \in Users, UserRequest(t, u) \/ Cleanup(t, u) PROVE \A r \in Others(t) : pc'[r] = pc[r]
  BY <1>2 DEF UserRequest, CreateUser, UpdateUser, DeleteUser, GetUser, Cleanup, GoTo, NextSet, Others,
              CacheTypeOK
<1>3. ASSUME ListUsers(t) PROVE \A r \in Others(t) : pc'[r] = pc[r]
  BY <1>3 DEF ListUsers, NextSet, Others, CacheTypeOK
<1> QED
  BY <1>1, <1>2, <1>3

\* Nobody enters a cache that stays uncrowded while another is inside.
LEMMA EntersAlone ==
  ASSUME CacheTypeOK, ~crowded', NEW t \in Goroutines,
         (\E u \in Users : UserRequest(t, u) \/ Cleanup(t, u)) \/ ListUsers(t)
  PROVE  ~crowded /\ \A r \in Others(t) : pc[r] = Idle
<1>1. Enter(t)
  BY DEF UserRequest, CreateUser, UpdateUser, DeleteUser, GetUser, Cleanup, ListUsers
<1> QED
  BY <1>1, Zenon DEF Enter

\* A goroutine that comes to count rightly and has the cache to itself.
LEMMA CountAlone ==
  ASSUME NEW t \in Goroutines, Counting(t)', \A r \in Others(t) : pc'[r] = Idle
  PROVE  CountKept'
<1> SUFFICES ASSUME NEW s \in Goroutines
             PROVE  /\ pc'[s] # Idle => \A r \in Others(s) : pc'[r] = Idle
                    /\ (\A r \in Others(s) : pc'[r] = Idle) => Counting(s)'
  BY DEF CountKept, Others
<1>1. s # t => pc'[s] = Idle /\ t \in Others(s)
  BY DEF Others
<1>2. pc'[s] = Idle /\ pc'[t] = Idle => Counting(s)'
  BY DEF Counting, Idle
<1> QED
  BY <1>1, <1>2 DEF Others

LEMMA CountStep == CacheSetting /\ CacheTypeOK /\ CountKept /\ [CacheNext]_cacheVars => CountKept'
<1> SUFFICES ASSUME CacheSetting, CacheTypeOK, CountKept, [CacheNext]_cacheVars, ~crowded'
             PROVE  CountKept'
  BY DEF CountKept
<1>1. ASSUME NEW t \in Goroutines, Counting(t)', \A r \in Others(t) : pc'[r] = Idle
      PROVE  CountKept'
  BY <1>1, CountAlone
<1>2. CASE UNCHANGED cacheVars
  <2>1. ~crowded /\ pc' = pc /\ data' = data /\ itemCount' = itemCount
    BY <1>2 DEF cacheVars
  <2>2. Present' = Present
    BY <2>1 DEF Present
  <2>3. \A t \in Goroutines : Counting(t) => Counting(t)'
    BY <2>1, <2>2 DEF Counting
  <2> QED
    BY <2>1, <2>3 DEF CountKept, Others
<1>3. ASSUME NEW t \in Goroutines, NEW u \in Users, CacheStep(t, u) PROVE CountKept'
  <2>1. ~crowded /\ pc[t] # Idle
    BY <1>3 DEF CacheStep, SetLoad, SetDelete, SetCount, SetStore, SetLimit, DropExpired, Invalidate,
                ReadUser, At, Idle
  <2>2. Counting(t) /\ \A r \in Others(t) : pc[r] = Idle
    BY <2>1 DEF CountKept
  <2>3. Counting(t)' /\ \A r \in Others(t) : pc'[r] = Idle
    BY <1>3, <2>2, CountInside, OneMoves
  <2> QED
    BY <1>1, <2>3
<1>4. ASSUME NEW t \in Goroutines,
             (\E u \in Users : UserRequest(t, u) \/ Cleanup(t, u)) \/ ListUsers(t)
      PROVE  CountKept'
  <2>1. ~crowded /\ \A r \in Others(t) : pc[r] = Idle
    BY <1>4, EntersAlone
  <2>2. Counting(t)
    BY <2>1 DEF CountKept
  <2>3. Counting(t)' /\ \A r \in Others(t) : pc'[r] = Idle
    BY <1>4, <2>1, <2>2, CountOutside, OneMoves
  <2> QED
    BY <1>1, <2>3
<1>5. ASSUME NEW u \in Users, Expire(u) PROVE CountKept'
  <2>1. ~crowded /\ pc' = pc
    BY <1>5 DEF Expire
  <2>2. \A t \in Goroutines : Counting(t) => Counting(t)'
    BY <1>5, CountOutside
  <2> QED
    BY <2>1, <2>2 DEF CountKept, Others
<1> QED
  BY <1>2, <1>3, <1>4, <1>5 DEF CacheNext

\* The invariant behind both: copies are rows, and the counter counts.
LEMMA CacheInvariant ==
  ASSUME CacheSetting
  PROVE  CacheSpec => [](Fresh /\ CountKept)
<1>1. CacheInit => CountKept
  <2> SUFFICES ASSUME CacheInit PROVE CountKept
    OBVIOUS
  <2>1. ASSUME NEW t \in Goroutines PROVE pc[t] = Idle /\ Counting(t)
    <3>1. Present = {} /\ itemCount = 0 /\ pc[t] = Idle /\ pc[t].at = "idle"
      BY DEF CacheInit, Present, Idle
    <3> QED
      BY <3>1, FS_EmptySet DEF Counting, CacheSetting
  <2> QED
    BY <2>1 DEF CountKept, Others
<1>2. CacheInit => Fresh
  BY InitFresh DEF Fresh
<1>3. Fresh /\ CountKept /\ [CacheNext]_cacheVars => Fresh' /\ CountKept'
  BY FreshStep, CountStep DEF Fresh
<1> QED
  BY <1>1, <1>2, <1>3, PTL DEF CacheSpec

\* As long as goroutines enter the cache one after the other, Size() is the number
\* of its items and at most MaxItems, whatever the limit and however many users
\* and goroutines: the counter beside the map misses no insertion, replacement,
\* expiry, eviction or deletion.
THEOREM CountedAlone ==
  ASSUME CacheSetting
  PROVE  CacheSpec => []CacheCounted
<1>1. CountKept => CacheCounted
  <2> SUFFICES ASSUME CountKept, ~crowded, \A t \in Goroutines : pc[t] = Idle
               PROVE  itemCount = Cardinality(Present) /\ Cardinality(Present) <= MaxItems
    BY DEF CacheCounted, CountExact, ItemsBounded
  <2>1. PICK t \in Goroutines : TRUE
    BY DEF CacheSetting
  <2>2. Counting(t) /\ pc[t].at = "idle"
    BY <2>1 DEF CountKept, Others, Idle
  <2> QED
    BY <2>2 DEF Counting
<1> QED
  BY <1>1, CacheInvariant, PTL
=============================================================================
