---------------------------- MODULE PagesProofs -----------------------------
(* Proofs about the paged list of memos and its batch tidying, for any memos,  *)
(* any size of the pages and of the batches, and any number of moves.          *)
EXTENDS MemoBatch, FiniteSetTheorems, TLAPS

\* A copy of a page or of the server: fields of some memos.
LEMMA CopyIs == \A f : f \in Copies <=> DOMAIN f \subseteq Memos /\ f \in [DOMAIN f -> Fields]
  BY DEF Copies

\* What a kind of change makes of the fields of a memo.
IsChanged(f, k, g) ==
  /\ g \in Fields /\ g.private = f.private
  /\ k = "publish" => g.public = TRUE
  /\ k = "private" => g.public = FALSE
  /\ k \in {"archive", "delete"} => g.public = f.public
  /\ k = "archive" => g.status = "archived"
  /\ k = "delete" => g.status = "deleted"
  /\ k \in {"publish", "private"} => g.status = f.status

\* Every kind changes the fields it is about, and leaves the others.
LEMMA ChangedFields ==
  ASSUME NEW f \in Fields, NEW k \in Kinds
  PROVE  IsChanged(f, k, Changed(f, k))
<1> USE DEF IsChanged, Changed, Fields, Status
<1>1. CASE k = "publish"
  BY <1>1
<1>2. CASE k = "private"
  BY <1>2
<1>3. CASE k = "archive"
  BY <1>3
<1>4. CASE k = "delete"
  BY <1>4
<1> QED
  BY <1>1, <1>2, <1>3, <1>4 DEF Kinds

\* Fields that agree in every part are the same.
LEMMA FieldsEqual ==
  ASSUME NEW f \in Fields, NEW g \in Fields, f.public = g.public, f.status = g.status, f.private = g.private
  PROVE  f = g
  BY DEF Fields

\* A memo that is changed stays so, whatever is changed after it.
LEMMA ChangedFixed ==
  ASSUME NEW f \in Fields, NEW k \in Kinds
  PROVE  f = Changed(f, k) <=> /\ k = "publish" => f.public = TRUE
                               /\ k = "private" => f.public = FALSE
                               /\ k = "archive" => f.status = "archived"
                               /\ k = "delete" => f.status = "deleted"
<1> DEFINE g == Changed(f, k)
<1>0. IsChanged(f, k, g)
  BY ChangedFields
<1> HIDE DEF g
<1>1. /\ g \in Fields /\ g.private = f.private
      /\ k = "publish" => g.public = TRUE
      /\ k = "private" => g.public = FALSE
      /\ k \in {"archive", "delete"} => g.public = f.public
      /\ k = "archive" => g.status = "archived"
      /\ k = "delete" => g.status = "deleted"
      /\ k \in {"publish", "private"} => g.status = f.status
  BY <1>0 DEF IsChanged
<1>2. f.public = g.public /\ f.status = g.status => f = g
  BY <1>1, FieldsEqual
<1>3. k = "publish" => (f = g <=> f.public = TRUE)
  BY <1>1, <1>2
<1>4. k = "private" => (f = g <=> f.public = FALSE)
  BY <1>1, <1>2
<1>5. k = "archive" => (f = g <=> f.status = "archived")
  BY <1>1, <1>2
<1>6. k = "delete" => (f = g <=> f.status = "deleted")
  BY <1>1, <1>2
<1>7. f = g <=> /\ k = "publish" => f.public = TRUE
                /\ k = "private" => f.public = FALSE
                /\ k = "archive" => f.status = "archived"
                /\ k = "delete" => f.status = "deleted"
  BY <1>3, <1>4, <1>5, <1>6 DEF Kinds
<1> QED
  BY <1>7 DEF g

\* Rank numbers the listed memos.
LEMMA RankIs ==
  /\ IsFiniteSet(Listed) /\ Cardinality(Listed) \in Nat /\ Listed \subseteq Memos
  /\ \A m \in Listed : Rank(m) \in Nat
  /\ \A m, o \in Listed : m # o => Rank(m) # Rank(o)
<1>1. Listed \subseteq Memos
  BY DEF Listed
<1>2. IsFiniteSet(Listed) /\ Cardinality(Listed) \in Nat
  BY <1>1, BatchAssumption, FS_Subset, FS_CardinalityType
<1>3. \A m \in Listed : IsFiniteSet({o \in Listed : o < m}) /\ Cardinality({o \in Listed : o < m}) \in Nat
  <2> TAKE m \in Listed
  <2>1. {o \in Listed : o < m} \subseteq Listed
    OBVIOUS
  <2> QED
    BY <2>1, <1>2, FS_Subset, FS_CardinalityType
<1>4. \A m, o \in Listed : m < o => Rank(m) # Rank(o)
  <2> TAKE m, o \in Listed
  <2> HAVE m < o
  <2> DEFINE A == {x \in Listed : x < m}
             B == {x \in Listed : x < o}
  <2>0. m \in Nat /\ o \in Nat /\ \A x \in Listed : x \in Nat
    BY <1>1, BatchAssumption
  <2>1. A \subseteq B
    <3>1. \A x \in Listed : x < m => x < o
      BY <2>0
    <3> QED
      BY <3>1
  <2>2. m \in B /\ m \notin A
    <3>1. m \in B
      OBVIOUS
    <3>2. ~(m < m)
      BY <2>0
    <3> QED
      BY <3>1, <3>2
  <2>3. IsFiniteSet(B)
    BY <1>3
  <2> HIDE DEF A, B
  <2>4. Cardinality(A) # Cardinality(B)
    BY <2>1, <2>2, <2>3, FS_Subset
  <2>6. Rank(m) = Cardinality(A) /\ Rank(o) = Cardinality(B)
    BY DEF Rank, A, B
  <2> QED
    BY <2>4, <2>6
<1>5. \A m, o \in Listed : m # o => m < o \/ o < m
  BY <1>1, BatchAssumption
<1> QED
  BY <1>1, <1>2, <1>3, <1>4, <1>5 DEF Rank

\* A page has at most PageSize memos: their ranks are different, and PageSize
\* numbers have the quotient of the page.
LEMMA PageFits ==
  ASSUME NEW n \in Nat \ {0}
  PROVE  OnPage(n) \subseteq Memos /\ Cardinality(OnPage(n)) <= PageSize
<1>0. PageSize \in Nat \ {0}
  BY BatchAssumption
<1> DEFINE lo == (n - 1) * PageSize
           T == lo .. (lo + PageSize - 1)
           f == [m \in OnPage(n) |-> Rank(m)]
<1>1. lo \in Int /\ IsFiniteSet(T) /\ Cardinality(T) = PageSize
  <2>1. lo \in Int
    BY <1>0
  <2> HIDE DEF lo
  <2> QED
    BY <2>1, <1>0, FS_Interval
<1>2. \A m \in OnPage(n) : Rank(m) \in T
  <2> TAKE m \in OnPage(n)
  <2>1. Rank(m) \in Nat /\ Rank(m) \div PageSize = n - 1
    BY RankIs DEF OnPage
  <2>2. \A r \in Nat, q \in Int : r \div PageSize = q => q * PageSize <= r /\ r <= q * PageSize + PageSize - 1
    BY <1>0
  <2>3. lo <= Rank(m) /\ Rank(m) <= lo + PageSize - 1
    BY <2>1, <2>2, n - 1 \in Int
  <2> QED
    BY <2>1, <2>3, <1>0, <1>1
<1>3. f \in Injection(OnPage(n), T)
  <2>1. f \in [OnPage(n) -> T]
    BY <1>2
  <2>2. \A m, o \in OnPage(n) : f[m] = f[o] => m = o
    BY RankIs DEF OnPage
  <2> QED
    BY <2>1, <2>2 DEF Injection, IsInjective
<1>4. Cardinality(OnPage(n)) <= Cardinality(T)
  <2> HIDE DEF f, T
  <2> QED
    BY <1>1, <1>3, FS_Injection
<1> QED
  BY <1>1, <1>4, RankIs DEF OnPage

\* There is always a page.
LEMMA PagesIs == Pages \in Nat \ {0}
<1>1. Cardinality(Listed) \in Nat /\ (Listed # {} => Cardinality(Listed) # 0)
  BY RankIs, FS_EmptySet
<1>2. PageSize \in Nat \ {0}
  BY BatchAssumption
<1>3. \A c \in Nat \ {0} : (c + PageSize - 1) \div PageSize \in Nat \ {0}
  BY <1>2
<1> QED
  BY <1>1, <1>3 DEF Pages

\* No run, no dialog.
LEMMA NoneIs ==
  /\ NoJob \in Job /\ NoDialog \in Dialogs
  /\ NoJob.kind = "none" /\ NoJob.targets = {} /\ NoJob.todo = {} /\ NoJob.now = {} /\ NoJob.failed = {}
  /\ NoJob.owed = {}
  /\ DOMAIN NoJob.copy = {}
  /\ NoDialog.kind = "none" /\ NoDialog.about = {}
<1>1. [m \in {} |-> m] \in Copies
  BY CopyIs
<1> QED
  BY <1>1 DEF NoJob, NoMemos, Job, NoDialog, Dialogs, Kinds

\* A page that loads shows nothing.
LEMMA LoadingIs ==
  ASSUME NEW n \in Nat \ {0}
  PROVE  Loading(n) \in PageState /\ DOMAIN Loading(n).memos = {}
<1>1. [m \in {} |-> m] \in Copies
  BY CopyIs
<1> QED
  BY <1>1 DEF Loading, NoMemos, PageState

\* A page's memos and their fields.
LEMMA ShownIs ==
  ASSUME page \in PageState
  PROVE  /\ Shown \subseteq Memos /\ page.memos \in [Shown -> Fields] /\ page.memos \in Copies
         /\ page.number \in Nat \ {0} /\ page.total \in Nat
         /\ Pickable \subseteq Mine /\ Picked \subseteq Mine /\ Picked \subseteq Shown /\ Picked \subseteq selected
  BY CopyIs DEF Shown, PageState, Pickable, Picked

\* A run over some of the memos of a page.
LEMMA RunIs ==
  ASSUME page \in PageState, NEW kind \in Kinds
  PROVE  /\ Run(kind) \in Job
         /\ Run(kind).kind = kind /\ Run(kind).targets = Picked /\ Run(kind).todo = Picked
         /\ Run(kind).now = {} /\ Run(kind).failed = {}
         /\ Run(kind).owed = {m \in Picked : server[m] # Changed(server[m], kind) /\ page.memos[m].public = server[m].public}
         /\ DOMAIN Run(kind).copy = Picked
         /\ \A m \in Picked : Run(kind).copy[m] = page.memos[m]
<1> DEFINE c == [m \in Picked |-> page.memos[m]]
           w == {m \in Picked : server[m] # Changed(server[m], kind) /\ page.memos[m].public = server[m].public}
<1>1. c \in Copies
  <2>1. DOMAIN c \subseteq Memos /\ c \in [DOMAIN c -> Fields]
    BY ShownIs
  <2> HIDE DEF c
  <2> QED
    BY <2>1, CopyIs
<1>2. Run(kind) = [NoJob EXCEPT !.kind = kind, !.targets = Picked, !.copy = c, !.todo = Picked, !.owed = w]
  BY DEF Run
<1>3. DOMAIN c = Picked /\ \A m \in Picked : c[m] = page.memos[m]
  OBVIOUS
<1>4. NoMemos \in Copies
  BY CopyIs DEF NoMemos
<1>5. w \subseteq Picked
  OBVIOUS
<1> HIDE DEF c, w
<1>6. Run(kind) = [kind |-> kind, targets |-> Picked, copy |-> c, todo |-> Picked, now |-> {}, kept |-> NoMemos,
                   failed |-> {}, owed |-> w]
  BY <1>2 DEF NoJob
<1> QED
  BY <1>1, <1>3, <1>4, <1>5, <1>6, ShownIs DEF Job, w

\* The page after a memo on it was patched.
LEMMA PatchedIs ==
  ASSUME page \in PageState, NEW m \in Memos, NEW f \in Fields
  PROVE  /\ Patched(m, f) \in PageState /\ DOMAIN Patched(m, f).memos = Shown
         /\ \A o \in Shown : Patched(m, f).memos[o] = IF o = m /\ job.kind # "delete" THEN f ELSE page.memos[o]
<1> DEFINE c == [page.memos EXCEPT ![m] = f]
<1>s. Shown \subseteq Memos /\ page.memos \in [Shown -> Fields]
  BY ShownIs
<1>1. CASE m \in Shown /\ job.kind # "delete"
  <2>1. c \in [Shown -> Fields] /\ DOMAIN c = Shown /\ \A o \in Shown : c[o] = IF o = m THEN f ELSE page.memos[o]
    BY <1>s, <1>1
  <2>2. Patched(m, f) = [page EXCEPT !.memos = c]
    BY <1>1 DEF Patched
  <2> HIDE DEF c
  <2>3. c \in Copies
    BY <2>1, <1>s, CopyIs
  <2>4. Patched(m, f) \in PageState /\ Patched(m, f).memos = c
    BY <2>2, <2>3 DEF PageState
  <2> QED
    BY <1>1, <2>1, <2>4
<1>2. CASE ~(m \in Shown /\ job.kind # "delete")
  <2>1. Patched(m, f) = page
    BY <1>2 DEF Patched
  <2> QED
    BY <1>2, <2>1 DEF Shown
<1> QED
  BY <1>1, <1>2

\* A step of the list, of a run or of another client keeps the types.
LEMMA BatchTypeStep == BatchTypeOK /\ JobFormed /\ [BatchNext]_batchVars => BatchTypeOK'
<1> SUFFICES ASSUME BatchTypeOK, JobFormed, [BatchNext]_batchVars PROVE BatchTypeOK'
  OBVIOUS
<1>s. /\ Shown \subseteq Memos /\ page.memos \in [Shown -> Fields] /\ page.memos \in Copies
      /\ page.number \in Nat \ {0} /\ page.total \in Nat
      /\ Pickable \subseteq Mine /\ Picked \subseteq Mine /\ Picked \subseteq Shown
  BY ShownIs DEF BatchTypeOK
<1>m. Mine \subseteq Memos /\ MaxMoves \in Nat /\ PageSize \in Nat
  BY BatchAssumption
<1>v. Move => moves' \in 0 .. MaxMoves
  BY <1>m DEF Move, BatchTypeOK
<1>e. Shown' = DOMAIN page'.memos
  BY DEF Shown
<1>z. Cardinality({}) = 0
  BY FS_EmptySet
<1> DEFINE JobOK(j) == /\ j \in Job /\ DOMAIN j.copy = j.targets /\ j.now \subseteq DOMAIN j.kept
                       /\ j.now \cup j.todo \cup j.failed \cup j.owed \subseteq j.targets
<1> USE DEF BatchTypeOK
<1>1. CASE Load
  <2> DEFINE n == Clamped(page.number)
  <2>1. n \in Nat \ {0}
    BY <1>s, PagesIs DEF Clamped
  <2>2. CASE n # page.number
    <3>1. page' = Loading(n)
      BY <1>1, <2>2 DEF Load
    <3>2. page' \in PageState /\ Shown' = {}
      BY <1>e, <2>1, <3>1, LoadingIs
    <3> QED
      BY <1>1, <1>m, <1>z, <3>2 DEF Load, Trimmed
  <2>3. CASE n = page.number
    <3> DEFINE c == [m \in OnPage(n) |-> server[m]]
    <3>1. page' = [number |-> n, memos |-> c, total |-> Pages]
      BY <1>1, <2>3 DEF Load
    <3>2. OnPage(n) \subseteq Memos /\ Cardinality(OnPage(n)) <= PageSize
      BY <2>1, PageFits
    <3>3. DOMAIN c = OnPage(n) /\ c \in [DOMAIN c -> Fields]
      BY <3>2
    <3> HIDE DEF c
    <3>4. page' \in PageState /\ Shown' = OnPage(n)
      BY <1>e, <2>1, <3>1, <3>2, <3>3, CopyIs, PagesIs DEF PageState
    <3> QED
      BY <1>1, <3>2, <3>4 DEF Load, Trimmed
  <2> QED
    BY <2>2, <2>3
<1>2. CASE GoToPage
  <2>1. PICK n \in 1 .. page.total : page' = Loading(n)
    BY <1>2 DEF GoToPage
  <2>2. n \in Nat \ {0}
    BY <1>s
  <2>3. page' \in PageState /\ Shown' = {}
    BY <1>e, <2>1, <2>2, LoadingIs
  <2> QED
    BY <1>2, <1>v, <1>m, <1>z, <2>3 DEF GoToPage
<1>3. CASE ToggleMode
  BY <1>3, <1>v, <1>e DEF ToggleMode, Shown
<1>4. CASE PickPage
  BY <1>4, <1>v, <1>m, <1>s DEF PickPage, Shown
<1>5. CASE Finish
  BY <1>5, <1>v DEF Finish, Shown
<1>6. CASE MakePublic
  <2> DEFINE risky == {m \in Picked : ~page.memos[m].public /\ page.memos[m].private}
  <2>1. CASE risky # {}
    <3>1. dialog' = [kind |-> "privacy", about |-> risky] /\ job' = job
      BY <1>6, <2>1 DEF MakePublic
    <3>2. dialog' \in Dialogs
      BY <3>1, <1>s DEF Dialogs
    <3> QED
      BY <1>6, <3>1, <3>2, <1>v DEF MakePublic, Shown
  <2>2. CASE risky = {}
    <3>1. job' = Run("publish") /\ dialog' = dialog
      BY <1>6, <2>2 DEF MakePublic
    <3>2. JobOK(job')
      BY <3>1, RunIs DEF Kinds
    <3> QED
      BY <1>6, <3>1, <3>2, <1>v DEF MakePublic, Shown
  <2> QED
    BY <2>1, <2>2
<1>7. CASE AskDelete
  <2>1. dialog' \in Dialogs
    BY <1>7, <1>s DEF AskDelete, Dialogs
  <2> QED
    BY <1>7, <2>1, <1>v DEF AskDelete, Shown
<1>8. ASSUME NEW kind \in {"private", "archive"}, Start(kind) PROVE BatchTypeOK'
  <2>1. JobOK(job')
    BY <1>8, RunIs DEF Start, Kinds
  <2> QED
    BY <1>8, <2>1, <1>v DEF Start, Shown
<1>9. ASSUME NEW m \in Memos, Press(m) PROVE BatchTypeOK'
  BY <1>9, <1>v DEF Press, Shown
<1>10. ASSUME NEW m \in Memos, Pick(m) PROVE BatchTypeOK'
  BY <1>10, <1>v DEF Pick, Shown
<1>11. CASE Release
  BY <1>11 DEF Release, Shown
<1>12. CASE Publish
  <2>1. JobOK(job')
    BY <1>12, RunIs DEF Publish, Kinds
  <2>2. cleared' \subseteq Mine
    BY <1>12 DEF Publish, Dialogs
  <2> QED
    BY <1>12, <2>1, <2>2, NoneIs DEF Publish, Shown
<1>13. CASE Confirm
  <2>1. JobOK(job')
    BY <1>13, RunIs DEF Confirm, Kinds
  <2> QED
    BY <1>13, <2>1 DEF Confirm, Shown
<1>14. CASE Dismiss
  BY <1>14, NoneIs DEF Dismiss, Shown
<1>15. CASE NextBatch
  <2> DEFINE batch == NextFew(job.todo)
  <2>1. batch \subseteq job.todo
    BY DEF NextFew
  <2> DEFINE sent == {m \in batch : ~Skipped(m)}
             c == [m \in sent |-> IF m \in Shown THEN page.memos[m] ELSE job.copy[m]]
  <2>2. job' = [job EXCEPT !.todo = @ \ batch, !.now = sent, !.kept = c]
    BY <1>15 DEF NextBatch
  <2>3. sent \subseteq batch /\ batch \subseteq job.targets /\ job.targets \subseteq Memos
    BY <2>1, <1>m DEF Job
  <2>4. job.copy \in [job.targets -> Fields]
    BY CopyIs DEF Job
  <2>5. c \in Copies /\ DOMAIN c = sent
    <3>1. \A m \in sent : (IF m \in Shown THEN page.memos[m] ELSE job.copy[m]) \in Fields
      BY <1>s, <2>3, <2>4
    <3>2. c \in [sent -> Fields] /\ DOMAIN c = sent /\ sent \subseteq Memos
      BY <3>1, <2>3
    <3> HIDE DEF c, sent
    <3> QED
      BY <3>2, CopyIs
  <2> HIDE DEF batch, sent, c
  <2>6. job' \in Job
    BY <2>1, <2>2, <2>3, <2>5 DEF Job
  <2>7. /\ job'.copy = job.copy /\ job'.targets = job.targets /\ job'.failed = job.failed /\ job'.owed = job.owed
        /\ job'.todo = job.todo \ batch /\ job'.now = sent /\ job'.kept = c
    BY <2>2 DEF Job
  <2>8. JobOK(job')
    BY <2>3, <2>5, <2>6, <2>7
  <2> QED
    BY <1>15, <2>8 DEF NextBatch, Shown
<1>16. CASE EndRun
  BY <1>16, NoneIs DEF EndRun, Shown
<1>17. ASSUME NEW m \in Memos, Held(m) PROVE BatchTypeOK'
  BY <1>17 DEF Held, Shown
<1>c. ASSUME NEW m \in Memos, CarriedOut(m) PROVE server' \in [Memos -> Fields]
  <2>1. job.kind \in Kinds
    BY <1>c, NoneIs DEF CarriedOut, Job, Kinds, JobFormed
  <2> QED
    BY <1>c, <2>1, ChangedFields DEF CarriedOut, IsChanged
<1>18. ASSUME NEW m \in Memos, Carried(m) PROVE BatchTypeOK'
  <2>1. server' \in [Memos -> Fields]
    BY <1>18, <1>c DEF Carried
  <2>2. page' \in PageState /\ DOMAIN page'.memos = Shown
    BY <1>18, <2>1, PatchedIs DEF Carried
  <2> DEFINE w == {o \in job.owed : server'[o] # Changed(server'[o], job.kind)}
  <2>3. job' = [job EXCEPT !.now = @ \ {m}, !.owed = w]
    BY <1>18 DEF Carried
  <2>4. w \subseteq job.owed
    OBVIOUS
  <2> HIDE DEF w
  <2>5. JobOK(job')
    BY <2>3, <2>4 DEF Job
  <2> QED
    BY <1>18, <1>e, <2>1, <2>2, <2>5 DEF Carried
<1>19. ASSUME NEW m \in Memos, Failed(m) PROVE BatchTypeOK'
  <2>1. job' = [job EXCEPT !.now = @ \ {m}, !.failed = @ \cup {m}] /\ m \in job.now
    BY <1>19 DEF Failed
  <2>a. /\ job' \in Job /\ job'.copy = job.copy /\ job'.targets = job.targets /\ job'.failed = job.failed \cup {m}
        /\ job'.todo = job.todo /\ job'.now = job.now \ {m} /\ job'.owed = job.owed /\ job'.kept = job.kept
    BY <2>1 DEF Job
  <2>2. JobOK(job')
    BY <2>1, <2>a
  <2>3. server' \in [Memos -> Fields]
    BY <1>19, <1>c DEF Failed
  <2>4. job.kept[m] \in Fields
    <3>1. job.kept \in Copies
      BY DEF Job
    <3> QED
      BY <3>1, <2>1, CopyIs
  <2>5. page' \in PageState /\ DOMAIN page'.memos = Shown
    BY <1>19, <2>4, PatchedIs DEF Failed
  <2>6. moves' \in 0 .. MaxMoves
    BY <1>19, <1>v DEF Failed
  <2> QED
    BY <1>19, <1>e, <2>2, <2>3, <2>5, <2>6 DEF Failed
<1>20. ASSUME NEW m \in Memos, Edit(m) PROVE BatchTypeOK'
  <2>1. \A f \in {"public", "private"} : [server[m] EXCEPT ![f] = ~@] \in Fields
    BY DEF Fields
  <2>2. server' \in [Memos -> Fields]
    BY <1>20, <2>1 DEF Edit
  <2> QED
    BY <1>20, <1>v, <2>2 DEF Edit, Shown
<1>21. CASE UNCHANGED batchVars
  BY <1>21 DEF batchVars, Shown
<1> QED
  BY <1>1, <1>2, <1>3, <1>4, <1>5, <1>6, <1>7, <1>8, <1>9, <1>10, <1>11, <1>12, <1>13, <1>14, <1>15, <1>16,
     <1>17, <1>18, <1>19, <1>20, <1>21 DEF BatchNext, Visitor

\* Nothing is selected at first and no run is under way.
LEMMA BatchInvInit == BatchInit => BatchInv
<1> SUFFICES ASSUME BatchInit PROVE BatchInv
  OBVIOUS
<1> USE DEF BatchInit
<1>1. page \in PageState /\ Shown = {}
  BY LoadingIs DEF Shown
<1>2. server \in [Memos -> Fields]
  <2>1. \A p \in BOOLEAN : [public |-> FALSE, status |-> "normal", private |-> p] \in Fields
    BY DEF Fields, Status
  <2>2. {[public |-> FALSE, status |-> "normal", private |-> p] : p \in BOOLEAN} \subseteq Fields
    BY <2>1
  <2> QED
    BY <2>2
<1>3. BatchTypeOK
  <2>1. Cardinality(Shown) <= PageSize /\ moves \in 0 .. MaxMoves
    BY <1>1, BatchAssumption, FS_EmptySet
  <2> QED
    BY <1>1, <1>2, <2>1, NoneIs DEF BatchTypeOK
<1>4. SelectionOnPage /\ DeletesAsked /\ PublicChecked
  BY NoneIs DEF SelectionOnPage, DeletesAsked, PublicChecked
<1>5. PageTrue /\ JobFormed /\ JobTrue /\ DialogTrue /\ JobCleared
  BY <1>1, NoneIs DEF PageTrue, JobFormed, JobTrue, DialogTrue, JobCleared
<1> QED
  BY <1>3, <1>4, <1>5 DEF BatchInv, BatchSafe

\* What is checked stays so while the memo holds the same.
LEMMA StaysChecked ==
  ASSUME NEW f, NEW m, Checked(f, m), server'[m].private = server[m].private, cleared \subseteq cleared'
  PROVE  f.private = server'[m].private /\ (f.public /\ f.private => m \in cleared')
  BY DEF Checked

\* A run that starts over the picked memos.
LEMMA RunStarts ==
  ASSUME BatchInv, NEW kind \in Kinds, job' = Run(kind), UNCHANGED <<server, page, edited>>, cleared \subseteq cleared',
         kind = "publish" /\ ~Hold => \A m \in Picked \ edited : server[m].private => m \in cleared'
  PROVE  /\ PageTrue' /\ JobTrue' /\ JobCleared' /\ job'.now \cap job'.todo = {}
         /\ job'.kind = kind /\ job'.targets = Picked
<1>1. /\ job'.kind = kind /\ job'.targets = Picked /\ job'.todo = Picked /\ job'.now = {} /\ job'.failed = {}
      /\ job'.owed = {m \in Picked : server[m] # Changed(server[m], kind) /\ page.memos[m].public = server[m].public}
      /\ \A m \in Picked : job'.copy[m] = page.memos[m]
  BY RunIs DEF BatchInv, BatchSafe, BatchTypeOK
<1>2. Picked \subseteq Shown /\ Shown \subseteq Memos /\ page.memos \in [Shown -> Fields] /\ server \in [Memos -> Fields]
  BY ShownIs DEF BatchInv, BatchSafe, BatchTypeOK
<1>3. JobTrue'
  <2>1. ASSUME NEW m \in job'.owed, kind \in {"publish", "private"} PROVE Changed(job'.copy[m], kind) # job'.copy[m]
    <3> DEFINE f == page.memos[m]
    <3>1. job'.copy[m] = f /\ f \in Fields /\ server[m] \in Fields /\ f.public = server[m].public
      BY <2>1, <1>1, <1>2
    <3>2. server[m] # Changed(server[m], kind)
      BY <2>1, <1>1
    <3> HIDE DEF f
    <3>3. CASE kind = "publish"
      <4>1. server[m].public # TRUE
        BY <3>1, <3>2, <3>3, ChangedFixed
      <4> QED
        BY <3>1, <3>3, <4>1, ChangedFixed
    <3>4. CASE kind = "private"
      <4>1. server[m].public # FALSE
        BY <3>1, <3>2, <3>4, ChangedFixed
      <4> QED
        BY <3>1, <3>4, <4>1, ChangedFixed
    <3> QED
      BY <2>1, <3>3, <3>4
  <2>2. \A m \in job'.owed : ~Skipped(m)'
    BY <1>1, <2>1 DEF Skipped
  <2> QED
    BY <1>1, <2>2 DEF JobTrue
<1>4. JobCleared'
  BY <1>1 DEF JobCleared
<1>5. PageTrue'
  <2> SUFFICES ASSUME ~Hold, NEW m \in Memos \ edited
               PROVE  /\ m \in Shown => Checked(page.memos[m], m)'
                      /\ m \in Picked => Checked(job.copy[m], m)'
    BY <1>1 DEF PageTrue, Checked, Shown
  <2>1. m \in Shown => Checked(page.memos[m], m)
    BY DEF BatchInv, PageTrue
  <2>2. m \in Shown => Checked(page.memos[m], m)'
    BY <2>1, StaysChecked DEF Checked
  <2>3. m \in Picked => job'.copy[m] = page'.memos[m]
    BY <1>1
  <2> QED
    BY <1>2, <2>2, <2>3 DEF Checked
<1> QED
  BY <1>1, <1>3, <1>4, <1>5

\* What every step keeps, with the page, the dialog and the run it is about.
LEMMA BatchStep == BatchInv /\ [BatchNext]_batchVars => BatchInv'
<1> SUFFICES ASSUME BatchInv, [BatchNext]_batchVars PROVE BatchInv'
  OBVIOUS
<1>t. BatchTypeOK /\ BatchTypeOK'
  BY BatchTypeStep DEF BatchInv, BatchSafe
<1> DEFINE Parts == /\ SelectionOnPage /\ DeletesAsked /\ PublicChecked
                    /\ PageTrue /\ JobFormed /\ JobTrue /\ DialogTrue /\ JobCleared
<1>p. Parts
  BY DEF BatchInv, BatchSafe
<1>s. /\ Shown \subseteq Memos /\ page.memos \in [Shown -> Fields]
      /\ Pickable \subseteq Mine /\ Picked \subseteq Mine /\ Picked \subseteq Shown /\ Picked \subseteq selected
  BY <1>t, ShownIs DEF BatchTypeOK
<1>f. /\ server \in [Memos -> Fields] /\ Mine \subseteq Memos /\ job.targets \subseteq Mine
      /\ job.now \cup job.todo \cup job.failed \cup job.owed \subseteq job.targets
  BY <1>t, BatchAssumption DEF BatchTypeOK, Job
<1>j. job.kind # "none" => job.kind \in Kinds
  BY <1>t DEF BatchTypeOK, Job
<1>1. ASSUME Load PROVE Parts'
  <2>1. SelectionOnPage'
    BY <1>1 DEF Load, SelectionOnPage, Trimmed, Shown
  <2>2. selected' \subseteq selected
    BY <1>1 DEF Load, Trimmed
  <2>3. PageTrue'
    <3> DEFINE n == Clamped(page.number)
    <3>1. CASE n # page.number
      <4>1. Shown' = {}
        BY <1>1, <3>1 DEF Load, Loading, NoMemos, Shown
      <4> QED
        BY <1>1, <1>p, <4>1 DEF Load, PageTrue, Checked
    <3>2. CASE n = page.number
      <4>1. page' = [number |-> n, memos |-> [m \in OnPage(n) |-> server[m]], total |-> Pages] /\ server' = server
        BY <1>1, <3>2 DEF Load
      <4> HIDE DEF n
      <4>2. Shown' = OnPage(n) /\ \A m \in OnPage(n) : page'.memos[m] = server[m]
        BY <4>1 DEF Shown
      <4> QED
        BY <1>1, <1>p, <4>1, <4>2 DEF Load, PublicChecked, PageTrue, Checked
    <3> QED
      BY <3>1, <3>2
  <2>4. DialogTrue'
    BY <1>1, <1>p, <2>2 DEF Load, DialogTrue
  <2>5. DeletesAsked' /\ PublicChecked' /\ JobFormed' /\ JobTrue' /\ JobCleared'
    BY <1>1, <1>p DEF Load, DeletesAsked, PublicChecked, JobFormed, JobTrue, Skipped, JobCleared
  <2> QED
    BY <2>1, <2>3, <2>4, <2>5
<1>2. ASSUME GoToPage PROVE Parts'
  <2>1. PICK n \in 1 .. page.total : page' = Loading(n)
    BY <1>2 DEF GoToPage
  <2>2. Shown' = {}
    BY <2>1 DEF Shown, Loading, NoMemos
  <2>3. SelectionOnPage' /\ PageTrue'
    BY <1>2, <1>p, <2>2 DEF GoToPage, SelectionOnPage, PageTrue, Checked
  <2>4. DialogTrue' /\ DeletesAsked' /\ PublicChecked' /\ JobFormed' /\ JobTrue' /\ JobCleared'
    BY <1>2, <1>p DEF GoToPage, DialogTrue, DeletesAsked, PublicChecked, JobFormed, JobTrue, Skipped, JobCleared
  <2> QED
    BY <2>3, <2>4
\* What only changes the selection does so without a dialog.
<1>a. ASSUME UNCHANGED <<server, page, dialog, job, cleared, edited>>, ~Hold => selected' \subseteq Shown,
             dialog = NoDialog \/ Hold
      PROVE  Parts'
  <2>1. SelectionOnPage'
    BY <1>a DEF SelectionOnPage, Shown
  <2>2. DialogTrue'
    BY <1>a, NoneIs DEF DialogTrue
  <2>3. DeletesAsked' /\ PublicChecked' /\ PageTrue' /\ JobFormed' /\ JobTrue' /\ JobCleared'
    BY <1>a, <1>p DEF DeletesAsked, PublicChecked, PageTrue, Checked, JobFormed, JobTrue, Skipped, JobCleared, Shown
  <2> QED
    BY <2>1, <2>2, <2>3
<1>b. ASSUME UNCHANGED <<server, page, selected, dialog, job, cleared, edited>> PROVE Parts'
  BY <1>b, <1>p DEF SelectionOnPage, DeletesAsked, PublicChecked, PageTrue, Checked, JobFormed, JobTrue, Skipped, DialogTrue, JobCleared, Shown
<1>3. ASSUME ToggleMode PROVE Parts'
  BY <1>3, <1>a DEF ToggleMode
<1>4. ASSUME PickPage PROVE Parts'
  BY <1>4, <1>a DEF PickPage, Pickable
<1>5. ASSUME Finish PROVE Parts'
  BY <1>5, <1>a DEF Finish
<1>6. ASSUME MakePublic PROVE Parts'
  <2> DEFINE risky == {m \in Picked : ~page.memos[m].public /\ page.memos[m].private}
  <2>0. UNCHANGED <<server, page, selected, cleared, edited>> /\ job = NoJob
    BY <1>6 DEF MakePublic, Enabled
  <2>1. SelectionOnPage' /\ PublicChecked'
    BY <2>0, <1>p DEF SelectionOnPage, PublicChecked, Shown
  <2>2. ~Hold => \A m \in Picked \ edited : server[m].private => m \in cleared \/ m \in risky
    BY <1>p, <1>s DEF PageTrue, Checked
  <2>3. CASE risky # {}
    <3>1. dialog' = [kind |-> "privacy", about |-> risky] /\ job' = job
      BY <1>6, <2>3 DEF MakePublic
    <3>2. ~Hold => selected \cap Mine \subseteq Picked
      BY <1>p DEF SelectionOnPage, Picked, Pickable
    <3> HIDE DEF risky
    <3>3. dialog'.kind = "privacy" /\ dialog'.about = risky
      BY <3>1
    <3>4. DialogTrue'
      BY <2>0, <2>2, <3>2, <3>3 DEF DialogTrue
    <3>5. DeletesAsked' /\ JobFormed' /\ JobTrue' /\ JobCleared' /\ PageTrue'
      BY <1>p, <2>0, <3>1, <3>3, NoneIs DEF DeletesAsked, JobFormed, JobTrue, Skipped, JobCleared, PageTrue, Checked, Shown
    <3> QED
      BY <2>1, <3>4, <3>5
  <2>4. CASE risky = {}
    <3>1. job' = Run("publish") /\ dialog' = dialog /\ dialog = NoDialog
      BY <1>6, <2>4 DEF MakePublic
    <3>2. ~Hold => \A m \in Picked \ edited : server[m].private => m \in cleared'
      BY <2>0, <2>2, <2>4
    <3>3. PageTrue' /\ JobTrue' /\ JobCleared' /\ job'.now \cap job'.todo = {} /\ job'.kind = "publish"
      BY <2>0, <3>1, <3>2, RunStarts DEF Kinds
    <3>4. DialogTrue' /\ DeletesAsked' /\ JobFormed'
      BY <3>1, <3>3, NoneIs DEF DialogTrue, DeletesAsked, JobFormed
    <3> QED
      BY <2>1, <3>3, <3>4
  <2> QED
    BY <2>3, <2>4
<1>7. ASSUME AskDelete PROVE Parts'
  <2>1. dialog'.kind = "delete" /\ dialog'.about = Picked /\ job = NoJob /\ UNCHANGED <<server, page, selected, job, cleared, edited>>
    BY <1>7 DEF AskDelete, Enabled
  <2>2. ~Hold => selected \cap Mine \subseteq Picked
    BY <1>p DEF SelectionOnPage, Picked, Pickable
  <2>3. DialogTrue' /\ DeletesAsked'
    BY <2>1, <2>2, NoneIs DEF DialogTrue, DeletesAsked
  <2>4. SelectionOnPage' /\ PublicChecked' /\ PageTrue' /\ JobFormed' /\ JobTrue' /\ JobCleared'
    BY <2>1, <1>p DEF SelectionOnPage, PublicChecked, PageTrue, Checked, JobFormed, JobTrue, Skipped, JobCleared, Shown
  <2> QED
    BY <2>3, <2>4
<1>8. ASSUME NEW kind \in {"private", "archive"}, Start(kind) PROVE Parts'
  <2>1. job' = Run(kind) /\ dialog = NoDialog /\ UNCHANGED <<server, page, selected, dialog, cleared, edited>>
    BY <1>8 DEF Start
  <2>2. PageTrue' /\ JobTrue' /\ JobCleared' /\ job'.now \cap job'.todo = {} /\ job'.kind = kind
    BY <2>1, RunStarts DEF Kinds
  <2>3. DialogTrue' /\ DeletesAsked' /\ JobFormed'
    BY <2>1, <2>2, NoneIs DEF DialogTrue, DeletesAsked, JobFormed
  <2>4. SelectionOnPage' /\ PublicChecked'
    BY <2>1, <1>p DEF SelectionOnPage, PublicChecked, Shown
  <2> QED
    BY <2>2, <2>3, <2>4
<1>9. ASSUME NEW m \in Memos, Press(m) PROVE Parts'
  BY <1>9, <1>b DEF Press
<1>10. ASSUME NEW m \in Memos, Pick(m) PROVE Parts'
  <2>1. ~Hold => selected' \subseteq Shown
    BY <1>10, <1>p DEF Pick, Pickable, SelectionOnPage
  <2> QED
    BY <1>10, <1>a, <2>1 DEF Pick
<1>11. ASSUME Release PROVE Parts'
  BY <1>11, <1>b DEF Release
<1>12. ASSUME Publish PROVE Parts'
  <2>1. /\ dialog.kind = "privacy" /\ dialog' = NoDialog /\ job' = Run("publish")
        /\ cleared' = cleared \cup dialog.about /\ UNCHANGED <<server, page, selected, edited>>
    BY <1>12 DEF Publish
  <2>2. ~Hold => \A m \in Picked \ edited : server[m].private => m \in cleared'
    BY <2>1, <1>p, <1>s DEF DialogTrue
  <2>3. PageTrue' /\ JobTrue' /\ JobCleared' /\ job'.now \cap job'.todo = {} /\ job'.kind = "publish"
    BY <2>1, <2>2, RunStarts DEF Kinds
  <2>4. DialogTrue' /\ DeletesAsked' /\ JobFormed'
    BY <2>1, <2>3, NoneIs DEF DialogTrue, DeletesAsked, JobFormed
  <2>5. SelectionOnPage' /\ PublicChecked'
    BY <2>1, <1>p DEF SelectionOnPage, PublicChecked, Shown
  <2> QED
    BY <2>3, <2>4, <2>5
<1>13. ASSUME Confirm PROVE Parts'
  <2>1. dialog.kind = "delete" /\ job' = Run("delete") /\ UNCHANGED <<server, page, selected, dialog, cleared, edited>>
    BY <1>13 DEF Confirm
  <2>2. PageTrue' /\ JobTrue' /\ JobCleared' /\ job'.now \cap job'.todo = {} /\ job'.kind = "delete" /\ job'.targets = Picked
    BY <2>1, RunStarts DEF Kinds
  <2>3. DeletesAsked'
    BY <2>1, <2>2, <1>p, <1>s DEF DeletesAsked, DialogTrue
  <2>4. DialogTrue' /\ JobFormed'
    BY <2>1, <2>2, <1>p DEF DialogTrue, JobFormed
  <2>5. SelectionOnPage' /\ PublicChecked'
    BY <2>1, <1>p DEF SelectionOnPage, PublicChecked, Shown
  <2> QED
    BY <2>2, <2>3, <2>4, <2>5
<1>14. ASSUME Dismiss PROVE Parts'
  <2>1. dialog' = NoDialog /\ job = NoJob /\ UNCHANGED <<server, page, selected, job, cleared, edited>>
    BY <1>14 DEF Dismiss
  <2>2. DialogTrue' /\ DeletesAsked' /\ JobFormed'
    BY <2>1, NoneIs DEF DialogTrue, DeletesAsked, JobFormed
  <2>3. SelectionOnPage' /\ PublicChecked' /\ PageTrue' /\ JobTrue' /\ JobCleared'
    BY <2>1, <1>p DEF SelectionOnPage, PublicChecked, PageTrue, Checked, JobTrue, Skipped, JobCleared, Shown
  <2> QED
    BY <2>2, <2>3
<1>15. ASSUME NextBatch PROVE Parts'
  <2> DEFINE batch == NextFew(job.todo)
             sent == {m \in batch : ~Skipped(m)}
             c == [m \in sent |-> IF m \in Shown THEN page.memos[m] ELSE job.copy[m]]
  <2>0. batch \subseteq job.todo
    BY DEF NextFew
  <2>1. job' = [job EXCEPT !.todo = @ \ batch, !.now = sent, !.kept = c]
    BY <1>15 DEF NextBatch
  <2>a. \A m \in sent : c[m] = page.memos[m] \/ c[m] = job.copy[m]
    OBVIOUS
  <2>b. \A m \in sent : m \in Shown => c[m] = page.memos[m]
    OBVIOUS
  <2>d. \A m \in sent : m \notin Shown => c[m] = job.copy[m]
    OBVIOUS
  <2>e. sent \subseteq batch /\ \A m \in batch : m \notin sent => Skipped(m)
    OBVIOUS
  <2> HIDE DEF batch, sent, c
  <2>2. /\ job'.copy = job.copy /\ job'.targets = job.targets /\ job'.failed = job.failed /\ job'.kind = job.kind
        /\ job'.owed = job.owed /\ job'.todo = job.todo \ batch /\ job'.now = sent /\ job'.kept = c
    BY <2>1, <1>t DEF BatchTypeOK, Job
  <2>3. job.now = {} /\ job.todo # {} /\ UNCHANGED <<server, page, selected, dialog, cleared, edited>>
    BY <1>15 DEF NextBatch
  <2>4. job # NoJob /\ job.kind \in Kinds
    BY <2>3, <1>j, <1>p, NoneIs DEF JobFormed
  <2>5. JobFormed'
    BY <2>0, <2>2, <2>3, <2>4, <2>e, <1>p DEF JobFormed, Kinds
  <2>6. \A m \in job.owed : ~Skipped(m)
    BY <1>p DEF JobTrue
  <2>7. JobTrue'
    <3>1. \A m \in job'.owed : ~Skipped(m)'
      BY <2>2, <2>6 DEF Skipped
    <3>2. job'.owed \subseteq job'.todo \cup job'.now \cup job'.failed
      BY <2>2, <2>3, <2>6, <2>e, <1>p DEF JobTrue
    <3> QED
      BY <3>1, <3>2 DEF JobTrue
  <2>8. DeletesAsked' /\ JobCleared' /\ DialogTrue'
    BY <2>2, <2>3, <1>p DEF DeletesAsked, JobCleared, DialogTrue
  <2>9. SelectionOnPage' /\ PublicChecked'
    BY <2>3, <1>p DEF SelectionOnPage, PublicChecked, Shown
  <2>10. PageTrue'
    <3> SUFFICES ASSUME ~Hold, NEW m \in Memos \ edited
                 PROVE  /\ m \in Shown => Checked(page.memos[m], m)
                        /\ m \in job.targets => Checked(job.copy[m], m)
                        /\ m \in sent => Checked(c[m], m)
      BY <2>2, <2>3 DEF PageTrue, Checked, Shown
    <3>1. (m \in Shown => Checked(page.memos[m], m)) /\ (m \in job.targets => Checked(job.copy[m], m))
      BY <1>p DEF PageTrue
    <3>2. m \in sent => m \in job.targets
      BY <2>0, <2>e, <1>f
    <3> QED
      BY <3>1, <3>2, <2>b, <2>d
  <2> QED
    BY <2>5, <2>7, <2>8, <2>9, <2>10
<1>16. ASSUME EndRun PROVE Parts'
  <2>1. job' = NoJob /\ dialog' = NoDialog /\ selected' = {} /\ UNCHANGED <<server, page, cleared, edited>>
    BY <1>16 DEF EndRun
  <2>2. DialogTrue' /\ DeletesAsked' /\ JobFormed' /\ JobTrue' /\ JobCleared'
    BY <2>1, NoneIs DEF DialogTrue, DeletesAsked, JobFormed, JobTrue, Skipped, JobCleared
  <2>3. SelectionOnPage' /\ PublicChecked' /\ PageTrue'
    BY <2>1, <1>p, NoneIs DEF SelectionOnPage, PublicChecked, PageTrue, Checked, Shown
  <2> QED
    BY <2>2, <2>3
<1>17. ASSUME NEW m \in Memos, Held(m) PROVE Parts'
  <2>1. Hold
    BY <1>17, <1>t DEF Held, BatchTypeOK
  <2> QED
    BY <1>17, <2>1, <1>a DEF Held

\* What a request does to its memo, and to what is known of it.
<1>d. ASSUME NEW m \in Memos, CarriedOut(m)
      PROVE  /\ server' = [server EXCEPT ![m] = Changed(server[m], job.kind)] /\ job.kind \in Kinds
             /\ server'[m] \in Fields /\ server'[m].private = server[m].private
             /\ server'[m].public => job.kind = "publish" \/ server[m].public
             /\ server'[m] = Changed(server'[m], job.kind)
  <2> DEFINE g == Changed(server[m], job.kind)
  <2>0. m \in job.now /\ job.kind \in Kinds
    BY <1>d, <1>j, <1>p, NoneIs DEF CarriedOut, JobFormed
  <2>1. server' = [server EXCEPT ![m] = g] /\ server'[m] = g
    BY <1>d, <1>f DEF CarriedOut
  <2>2. IsChanged(server[m], job.kind, g)
    BY <2>0, <1>f, ChangedFields
  <2>3. g = Changed(g, job.kind)
    <3>1. /\ g \in Fields
          /\ job.kind = "publish" => g.public = TRUE
          /\ job.kind = "private" => g.public = FALSE
          /\ job.kind = "archive" => g.status = "archived"
          /\ job.kind = "delete" => g.status = "deleted"
      BY <2>2 DEF IsChanged
    <3> HIDE DEF g
    <3> QED
      BY <2>0, <3>1, ChangedFixed
  <2>4. g \in Fields /\ g.private = server[m].private /\ (g.public => job.kind = "publish" \/ server[m].public)
    BY <2>0, <2>2 DEF IsChanged, Kinds
  <2> HIDE DEF g
  <2>5. server'[m] \in Fields /\ server'[m].private = server[m].private
        /\ (server'[m].public => (job.kind = "publish" \/ server[m].public)) /\ server'[m] = Changed(server'[m], job.kind)
    BY <2>1, <2>3, <2>4
  <2> QED
    BY <2>0, <2>1, <2>5 DEF g
\* What a request that ends leaves alone, whether it was carried out or not.
<1>e. ASSUME NEW m \in job.now, UNCHANGED server \/ CarriedOut(m), UNCHANGED <<selected, dialog, cleared, edited>>,
             NEW f \in Fields, page' = Patched(m, f),
             ~Hold /\ m \notin edited => (f.private = server'[m].private /\ (f.public /\ f.private => m \in cleared')),
             job'.now = job.now \ {m}, job'.copy = job.copy, job'.kept = job.kept,
             job'.targets = job.targets, job'.kind = job.kind, job'.todo = job.todo, job' # NoJob
      PROVE  SelectionOnPage' /\ DeletesAsked' /\ PublicChecked' /\ PageTrue' /\ JobFormed' /\ DialogTrue' /\ JobCleared'
  <2>0. m \in Memos /\ m \in job.targets /\ job # NoJob /\ job.kind # "none" /\ job.kind \in Kinds
    BY <1>e, <1>f, <1>j, <1>p, NoneIs DEF JobFormed
  <2>1. \A o \in Memos : server'[o].private = server[o].private
    BY <1>e, <2>0, <1>d, <1>f
  <2>2. \A o \in Memos : server'[o].public => server[o].public \/ (o = m /\ job.kind = "publish")
    BY <1>e, <2>0, <1>d, <1>f
  <2>3. Shown' = Shown /\ \A o \in Shown : (page'.memos[o] = f /\ o = m) \/ page'.memos[o] = page.memos[o]
    BY <1>e, <1>t, <2>0, PatchedIs DEF Shown, BatchTypeOK
  <2>4. PublicChecked'
    BY <1>e, <2>0, <2>1, <2>2, <1>p DEF PublicChecked, JobCleared
  <2>5. PageTrue'
    <3> SUFFICES ASSUME ~Hold, NEW o \in Memos \ edited
                 PROVE  /\ o \in Shown => Checked(page.memos[o], o)'
                        /\ o \in job.targets => Checked(job.copy[o], o)'
                        /\ o \in job.now => Checked(job.kept[o], o)'
      BY <1>e, <2>3 DEF PageTrue
    <3>1. /\ o \in Shown => Checked(page.memos[o], o)
          /\ o \in job.targets => Checked(job.copy[o], o)
          /\ o \in job.now => Checked(job.kept[o], o)
      BY <1>p DEF PageTrue
    <3>2. /\ o \in job.targets => Checked(job.copy[o], o)'
          /\ o \in job.now => Checked(job.kept[o], o)'
      BY <1>e, <2>1, <3>1 DEF Checked
    <3>3. o \in Shown => Checked(page.memos[o], o)'
      BY <1>e, <2>1, <2>3, <3>1 DEF Checked
    <3> QED
      BY <3>2, <3>3
  <2>6. JobCleared' /\ DialogTrue' /\ JobFormed' /\ DeletesAsked' /\ SelectionOnPage'
    BY <1>e, <1>f, <2>0, <2>1, <2>3, <1>p DEF JobCleared, DialogTrue, JobFormed, DeletesAsked, SelectionOnPage
  <2> QED
    BY <2>4, <2>5, <2>6
<1>18. ASSUME NEW m \in Memos, Carried(m) PROVE Parts'
  <2> DEFINE w == {o \in job.owed : server'[o] # Changed(server'[o], job.kind)}
  <2>1. /\ m \in job.now /\ CarriedOut(m) /\ page' = Patched(m, server'[m])
        /\ job' = [job EXCEPT !.now = @ \ {m}, !.owed = w] /\ UNCHANGED <<selected, dialog, cleared, edited>>
    BY <1>18 DEF Carried, CarriedOut
  <2>2. w \subseteq job.owed \ {m}
    BY <2>1, <1>d
  <2> HIDE DEF w
  <2>3. /\ job'.copy = job.copy /\ job'.targets = job.targets /\ job'.failed = job.failed /\ job'.kind = job.kind
        /\ job'.todo = job.todo /\ job'.now = job.now \ {m} /\ job'.owed = w /\ job'.kept = job.kept
    BY <2>1, <1>t DEF BatchTypeOK, Job
  <2>4. job' # NoJob
    BY <2>1, <2>3, <1>p, NoneIs DEF JobFormed
  <2>7. server'[m] \in Fields
    BY <2>1, <1>d
  <2> PICK f \in Fields : f = server'[m]
    BY <2>7
  <2>5. ~Hold /\ m \notin edited => (f.private = server'[m].private /\ (f.public /\ f.private => m \in cleared'))
    BY <2>1, <1>d, <1>f, <1>p DEF PublicChecked, JobCleared
  <2>8. page' = Patched(m, f)
    BY <2>1
  <2>6. JobTrue'
    <3>1. \A o \in job'.owed : ~Skipped(o)'
      BY <2>2, <2>3, <1>p DEF JobTrue, Skipped
    <3> QED
      BY <2>2, <2>3, <3>1, <1>p DEF JobTrue
  <2> QED
    BY <2>1, <2>3, <2>4, <2>5, <2>6, <2>8, <1>e
<1>19. ASSUME NEW m \in Memos, Failed(m) PROVE Parts'
  <2>1. /\ job' = [job EXCEPT !.now = @ \ {m}, !.failed = @ \cup {m}] /\ m \in job.now
        /\ UNCHANGED server \/ CarriedOut(m)
        /\ page' = Patched(m, job.kept[m]) /\ UNCHANGED <<selected, dialog, cleared, edited>>
    BY <1>19 DEF Failed
  <2>2. /\ job'.copy = job.copy /\ job'.targets = job.targets /\ job'.failed = job.failed \cup {m} /\ job'.kind = job.kind
        /\ job'.todo = job.todo /\ job'.now = job.now \ {m} /\ job'.owed = job.owed /\ job'.kept = job.kept
    BY <2>1, <1>t DEF BatchTypeOK, Job
  <2>3. job' # NoJob
    BY <2>1, <2>2, <1>p, NoneIs DEF JobFormed
  <2>4. job.kept[m] \in Fields
    <3>1. job.kept \in Copies /\ m \in DOMAIN job.kept
      BY <2>1, <1>t DEF BatchTypeOK, Job
    <3> QED
      BY <3>1, CopyIs
  <2>5. server'[m].private = server[m].private
    BY <2>1, <1>d
  <2>6. ~Hold /\ m \notin edited => Checked(job.kept[m], m)
    BY <2>1, <1>p DEF PageTrue
  <2> PICK f \in Fields : f = job.kept[m]
    BY <2>4
  <2>7. ~Hold /\ m \notin edited => (f.private = server'[m].private /\ (f.public /\ f.private => m \in cleared'))
    BY <2>1, <2>5, <2>6 DEF Checked
  <2>8. JobTrue'
    <3>1. \A o \in job'.owed : ~Skipped(o)'
      BY <2>2, <1>p DEF JobTrue, Skipped
    <3> QED
      BY <2>2, <3>1, <1>p DEF JobTrue
  <2>9. page' = Patched(m, f)
    BY <2>1
  <2> QED
    BY <2>1, <2>2, <2>3, <2>7, <2>8, <2>9, <1>e
<1>20. ASSUME NEW m \in Memos, Edit(m) PROVE Parts'
  <2>1. /\ edited' = edited \cup {m} /\ UNCHANGED <<page, selected, dialog, job, cleared>>
        /\ \A o \in Memos \ {m} : server'[o] = server[o]
    BY <1>20, <1>f DEF Edit
  <2>2. PageTrue' /\ PublicChecked' /\ DialogTrue' /\ JobCleared'
    BY <2>1, <1>p, <1>f DEF PageTrue, Checked, PublicChecked, DialogTrue, JobCleared, Shown
  <2>3. SelectionOnPage' /\ DeletesAsked' /\ JobFormed' /\ JobTrue'
    BY <2>1, <1>p DEF SelectionOnPage, DeletesAsked, JobFormed, JobTrue, Skipped, Shown
  <2> QED
    BY <2>2, <2>3
<1>21. ASSUME UNCHANGED batchVars PROVE Parts'
  BY <1>21, <1>b DEF batchVars
<1>c. Parts'
  BY <1>1, <1>2, <1>3, <1>4, <1>5, <1>6, <1>7, <1>8, <1>9, <1>10, <1>11, <1>12, <1>13, <1>14, <1>15, <1>16,
     <1>17, <1>18, <1>19, <1>20, <1>21 DEF BatchNext, Visitor
<1> QED
  BY <1>t, <1>c DEF BatchInv, BatchSafe

\* For any memos, pages and batches: the selection stays on the page, a deletion is of
\* what the dialog asked about, and nothing that was not checked is published.
THEOREM BatchKept == BatchSpec => []BatchSafe
<1>1. BatchInv => BatchSafe
  BY DEF BatchInv
<1> QED
  BY <1>1, BatchInvInit, BatchStep, PTL DEF BatchSpec

\* A run that ends owes nothing to a memo but those it reports, however requests are
\* carried out, fail and lose their answers, and whatever other clients change.
THEOREM RunsDone == BatchSpec => DoneIsDone
<1>1. BatchInv /\ [BatchNext]_batchVars => [EndRun => job.owed \subseteq job.failed]_batchVars
  BY DEF BatchInv, JobTrue, EndRun
<1> QED
  BY <1>1, BatchInvInit, BatchStep, PTL DEF BatchSpec, DoneIsDone
=============================================================================
