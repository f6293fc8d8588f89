---------------------------- MODULE ListingProofs ----------------------------
(* Theorems about Listing for any requests at a time, cached pages and      *)
(* numbers of writes.                                                       *)
EXTENDS Listing, TLAPS

-----------------------------------------------------------------------------
(* What a write makes of the row *)

\* StatusAgrees of one row.
ColumnsAgree(r) ==
    /\ r.status = "ACTIVE" => r.approved /\ ~r.reason
    /\ r.status = "PENDING" => ~r.approved /\ ~r.reason
    /\ r.status = "REJECTED" => ~r.approved /\ r.reason
    /\ r.status = "DELETED" => r.deleted

\* Whatever a request read, its write keeps the columns in agreement, never
\* undoes a deletion, and approves only as an approval.
LEMMA WrittenRow ==
    ASSUME row \in Row, NEW j \in Request, NEW s
    PROVE  /\ Written(j, s) \in Row
           /\ ColumnsAgree(row) => ColumnsAgree(Written(j, s))
           /\ row.deleted => Written(j, s).deleted
           /\ Written(j, s).approved => row.approved \/ j = "approve"
           /\ j = "reject" => ~Written(j, s).approved
  <1>1. /\ row.status \in Status /\ row.approved \in BOOLEAN
        /\ row.reason \in BOOLEAN /\ row.deleted \in BOOLEAN
        /\ row.deletedAt \in {"never", "recent", "old"}
        /\ row.text \in Nat /\ row.unlocks \in Nat
        /\ row.text + 1 \in Nat /\ row.unlocks + 1 \in Nat
    BY DEF Row
  <1>2. CASE j = "approve"
    BY <1>1, <1>2 DEF Written, Row, ColumnsAgree, Status
  <1>3. CASE j = "reject"
    BY <1>1, <1>3 DEF Written, Rejected, Row, ColumnsAgree, Status
  <1>4. CASE j = "edit"
    <2>1. Written(j, s) = Edited(s)
      BY <1>4 DEF Written
    <2>2. CASE s.status = "REJECTED"
      BY <1>1, <1>4, <2>1, <2>2 DEF Edited, Row, ColumnsAgree, Status
    <2>3. CASE s.status # "REJECTED"
      BY <1>1, <1>4, <2>1, <2>3 DEF Edited, Row, ColumnsAgree, Status
    <2>4. QED
      BY <2>2, <2>3
  <1>5. CASE j = "adminEdit"
    BY <1>1, <1>5 DEF Written, Row, ColumnsAgree, Status
  <1>6. CASE j = "delete"
    BY <1>1, <1>6 DEF Written, Row, ColumnsAgree, Status
  <1>7. CASE j = "adminDelete"
    BY <1>1, <1>7 DEF Written, Row, ColumnsAgree, Status
  <1>8. CASE j = "unlock"
    BY <1>1, <1>8 DEF Written, Row, ColumnsAgree, Status
  <1>9. CASE j = "handover"
    BY <1>1, <1>9 DEF Written, Row, ColumnsAgree, Status
  <1>10. QED
    BY <1>2, <1>3, <1>4, <1>5, <1>6, <1>7, <1>8, <1>9 DEF Request

-----------------------------------------------------------------------------
(* Typing *)

\* A worker at a label has the kind of job and of snapshot it works on.
HoldsJob ==
    \A w \in Worker :
        /\ pc[w] \in {"write", "invalidate"} => job[w] \in Request
        /\ pc[w] \in {"fetch", "store"} => job[w] \in Key
        /\ pc[w] = "store" => snap[w] \in Page

TypeInv == TypeOK /\ HoldsJob

LEMMA InitType == Init => TypeInv
  <1>1. ASSUME NEW live \in BOOLEAN
        PROVE  NewRow(live) \in Row
    BY DEF NewRow, Row, Status
  <1>2. QED
    BY <1>1, ListingAssumption
    DEF Init, TypeInv, TypeOK, HoldsJob, Counter

\* A page shows a face of the listing, or that it is not there.
LEMMA ViewType ==
    ASSUME TypeOK, NEW k \in Key
    PROVE  View(k) \in Page \cup {Null}
  <1>1. row # Null => FaceOf(row) \in Face
    BY DEF TypeOK, Row, FaceOf, Face
  <1>2. QED
    BY <1>1, ListingAssumption DEF View, Visible, Page

LEMMA CounterOfType ==
    ASSUME NEW k \in Key
    PROVE  CounterOf(k) \in Counter
  BY DEF CounterOf, Counter

LEMMA CurrentType ==
    ASSUME TypeOK, NEW k \in Key
    PROVE  Current(k) \in Nat
  BY CounterOfType DEF TypeOK, Current, CurrentOf

LEMMA BumpedType ==
    ASSUME TypeOK, NEW C
    PROVE  Bumped(C) \in [Counter -> Nat]
  BY DEF TypeOK, Bumped

LEMMA ReturnType ==
    ASSUME TypeInv, NEW w \in Worker, Return(w)
    PROVE  /\ pc' \in [Worker -> {"idle", "write", "invalidate", "fetch",
                                  "store"}]
           /\ job' \in [Worker -> Request \cup Key \cup {Null}]
           /\ snap' \in [Worker -> Row \cup Page \cup {Null}]
           /\ HoldsJob'
  BY DEF TypeInv, TypeOK, HoldsJob, Return, Goto

\* Every step of a worker keeps the typing.
LEMMA WorkerType ==
    ASSUME TypeInv, NEW w \in Worker,
           \/ Step(w)
           \/ \E j \in Request : ReadRow(w, j)
           \/ \E k \in Key : ReadPage(w, k)
    PROVE  TypeInv'
  <1>1. CASE WriteRow(w)
    <2>1. row \in Row /\ job[w] \in Request
      BY <1>1 DEF WriteRow, StillApplies, TypeInv, TypeOK, HoldsJob
    <2>2. row' \in Row
      BY <1>1, <2>1, WrittenRow DEF WriteRow
    <2>3. /\ pc' \in [Worker -> {"idle", "write", "invalidate", "fetch",
                                 "store"}]
          /\ HoldsJob'
      BY <1>1, <2>1 DEF WriteRow, Goto, TypeInv, TypeOK, HoldsJob
    <2>4. decision' \in {"approve", "reject", "none"}
      BY <1>1 DEF WriteRow, TypeInv, TypeOK
    <2>5. QED
      BY <1>1, <2>2, <2>3, <2>4 DEF WriteRow, cacheVars, TypeInv, TypeOK
  <1>2. CASE WriteNothing(w)
    BY <1>2, ReturnType DEF WriteNothing, cacheVars, TypeInv, TypeOK
  <1>3. CASE Fetch(w)
    <2>1. CASE View(job[w]) = Null
      BY <1>3, <2>1, ReturnType DEF Fetch, cacheVars, TypeInv, TypeOK
    <2>2. CASE View(job[w]) # Null
      <3>1. job[w] \in Key
        BY <1>3 DEF Fetch, TypeInv, HoldsJob
      <3>2. View(job[w]) \in Page
        BY <3>1, <2>2, ViewType DEF TypeInv
      <3>3. /\ pc' \in [Worker -> {"idle", "write", "invalidate", "fetch",
                                   "store"}]
            /\ snap' \in [Worker -> Row \cup Page \cup {Null}]
            /\ HoldsJob'
        BY <1>3, <2>2, <3>1, <3>2 DEF Fetch, Goto, TypeInv, TypeOK, HoldsJob
      <3>4. QED
        BY <1>3, <2>2, <3>3 DEF Fetch, cacheVars, TypeInv, TypeOK
    <2>3. QED
      BY <2>1, <2>2
  <1>4. CASE Store(w)
    <2>1. job[w] \in Key /\ snap[w] \in Page
      BY <1>4 DEF Store, TypeInv, HoldsJob
    <2>2. Current(job[w]) \in Nat
      BY <2>1, CurrentType DEF TypeInv
    <2>3. shelf' \in [Key -> [at : Nat, page : Page] \cup {Null}]
      BY <1>4, <2>1, <2>2 DEF Store, TypeInv, TypeOK
    <2>4. late' \subseteq Key
      BY <1>4, <2>1 DEF Store, TypeInv, TypeOK
    <2>5. QED
      BY <1>4, <2>3, <2>4, ReturnType DEF Store, TypeInv, TypeOK
  <1>5. CASE Invalidate(w)
    <2>1. version' \in [Counter -> Nat]
      BY <1>5, BumpedType DEF Invalidate, TypeInv, Counter
    <2>2. late' \subseteq Key
      BY <1>5 DEF Invalidate, TypeInv, TypeOK
    <2>3. QED
      BY <1>5, <2>1, <2>2, ReturnType DEF Invalidate, TypeInv, TypeOK
  <1>6. CASE InvalidateFails(w)
    <2>1. version' \in [Counter -> Nat]
      BY <1>6, BumpedType DEF InvalidateFails, TypeInv
    <2>2. late' \subseteq Key
      BY <1>6 DEF InvalidateFails, TypeInv, TypeOK
    <2>3. QED
      BY <1>6, <2>1, <2>2, ReturnType DEF InvalidateFails, TypeInv, TypeOK
  <1>7. ASSUME NEW j \in Request, ReadRow(w, j)
        PROVE  TypeInv'
    <2>1. row \in Row
      BY <1>7 DEF ReadRow, Admissible, TypeInv, TypeOK
    <2>2. writes' \in 0..MaxWrites
      BY <1>7, ListingAssumption DEF ReadRow, TypeInv, TypeOK
    <2>3. /\ pc' \in [Worker -> {"idle", "write", "invalidate", "fetch",
                                 "store"}]
          /\ job' \in [Worker -> Request \cup Key \cup {Null}]
          /\ snap' \in [Worker -> Row \cup Page \cup {Null}]
          /\ HoldsJob'
      BY <1>7, <2>1 DEF ReadRow, Begin, Goto, TypeInv, TypeOK, HoldsJob
    <2>4. QED
      BY <1>7, <2>2, <2>3 DEF ReadRow, cacheVars, TypeInv, TypeOK
  <1>8. ASSUME NEW k \in Key, ReadPage(w, k)
        PROVE  TypeInv'
    BY <1>8 DEF ReadPage, Begin, Goto, cacheVars, TypeInv, TypeOK, HoldsJob
  <1>9. QED
    BY <1>1, <1>2, <1>3, <1>4, <1>5, <1>6, <1>7, <1>8 DEF Step

\* So does the passing of time, and the purge.
LEMMA RestType ==
    ASSUME TypeInv,
           \/ \E k \in Key : Expire(k)
           \/ Age \/ SelectForPurge \/ PurgePhotos \/ PurgeRow \/ PurgeFails
           \/ UNCHANGED vars
    PROVE  TypeInv'
  <1>1. ASSUME NEW k \in Key, Expire(k)
        PROVE  TypeInv'
    BY <1>1 DEF Expire, wrkVars, TypeInv, TypeOK, HoldsJob
  <1>2. CASE Age
    BY <1>2 DEF Age, wrkVars, cacheVars, TypeInv, TypeOK, HoldsJob, Row
  <1>3. CASE SelectForPurge \/ PurgePhotos \/ PurgeRow \/ PurgeFails
    BY <1>3
    DEF SelectForPurge, PurgePhotos, PurgeRow, PurgeFails, wrkVars, cacheVars,
        TypeInv, TypeOK, HoldsJob
  <1>4. CASE UNCHANGED vars
    BY <1>4 DEF vars, wrkVars, cacheVars, TypeInv, TypeOK, HoldsJob
  <1>5. QED
    BY <1>1, <1>2, <1>3, <1>4

LEMMA StepType == TypeInv /\ [Next]_vars => TypeInv'
  BY WorkerType, RestType DEF Next

\* The variables keep their types; a worker that writes has a request, one
\* that fetches or stores has a page.
THEOREM TypeCorrect == Spec => []TypeOK
  <1>1. Init => TypeInv
    BY InitType
  <1>2. TypeInv /\ [Next]_vars => TypeInv'
    BY StepType
  <1>3. TypeInv => TypeOK
    BY DEF TypeInv
  <1>4. QED
    BY <1>1, <1>2, <1>3, PTL DEF Spec

-----------------------------------------------------------------------------
(* How the row may change *)

\* A request writes the columns of its kind into the row it finds.
Rewritten ==
    \E w \in Worker :
        /\ pc[w] = "write" /\ job[w] \in Request
        /\ row \in Row /\ row # Null
        /\ row' = Written(job[w], snap[w])
        /\ decision' = IF job[w] \in {"approve", "reject"} THEN job[w]
                                                           ELSE decision
        /\ pc'[w] = "invalidate"
        /\ purge' = purge /\ photos' = photos

\* What was deleted comes of age.
Aged == /\ row \in Row /\ row # Null
        /\ row' = [row EXCEPT !.deletedAt = "old"]
        /\ decision' = decision /\ purge' = purge /\ photos' = photos

\* The purge removes the row.
Purged == /\ purge = "row" /\ purge' = "idle" /\ row' = Null
          /\ decision' = decision /\ photos' = photos

Kept == row' = row /\ decision' = decision

LEMMA RowChanges ==
    ASSUME TypeInv, [Next]_vars
    PROVE  Rewritten \/ Aged \/ Purged \/ Kept
  <1>1. ASSUME NEW w \in Worker, WriteRow(w)
        PROVE  Rewritten
    <2>1. /\ row \in Row /\ row # Null
          /\ job[w] \in Request /\ pc'[w] = "invalidate"
      BY <1>1 DEF WriteRow, StillApplies, Goto, TypeInv, TypeOK, HoldsJob
    <2>2. QED
      BY <1>1, <2>1 DEF WriteRow, Rewritten
  <1>2. ASSUME NEW w \in Worker, Step(w), ~WriteRow(w)
        PROVE  Kept
    BY <1>2 DEF Step, WriteNothing, Fetch, Store, Invalidate, InvalidateFails,
                Kept
  <1>3. ASSUME NEW w \in Worker,
               \/ \E j \in Request : ReadRow(w, j)
               \/ \E k \in Key : ReadPage(w, k)
        PROVE  Kept
    BY <1>3 DEF ReadRow, ReadPage, Kept
  <1>4. CASE Age
    BY <1>4 DEF Age, Aged, TypeInv, TypeOK
  <1>5. CASE PurgeRow
    BY <1>5 DEF PurgeRow, Purged
  <1>6. CASE \/ \E k \in Key : Expire(k)
             \/ SelectForPurge \/ PurgePhotos \/ PurgeFails
             \/ UNCHANGED vars
    BY <1>6 DEF Expire, SelectForPurge, PurgePhotos, PurgeFails, vars, Kept
  <1>7. QED
    BY <1>1, <1>2, <1>3, <1>4, <1>5, <1>6 DEF Next

-----------------------------------------------------------------------------
(* The review *)

\* A rejection outlives what anybody has read before it: only an approval
\* gives the flag back, and is the later decision then.
RejectionHolds == decision = "reject" => row = Null \/ ~row.approved

ReviewInv == StatusAgrees /\ RejectionHolds

LEMMA InitReview == Init => ReviewInv
  BY DEF Init, NewRow, ReviewInv, StatusAgrees, RejectionHolds

LEMMA StepReview == TypeInv /\ ReviewInv /\ [Next]_vars => ReviewInv'
  <1> SUFFICES ASSUME TypeInv, ReviewInv, [Next]_vars
               PROVE  ReviewInv'
    OBVIOUS
  <1>1. CASE Rewritten
    <2>1. PICK w \in Worker :
            /\ job[w] \in Request /\ row \in Row /\ row # Null
            /\ row' = Written(job[w], snap[w])
            /\ decision' = IF job[w] \in {"approve", "reject"} THEN job[w]
                                                               ELSE decision
      BY <1>1 DEF Rewritten
    <2>2. ColumnsAgree(row)
      BY <2>1 DEF ReviewInv, StatusAgrees, ColumnsAgree
    <2>3. ColumnsAgree(row')
      BY <2>1, <2>2, WrittenRow
    <2>4. StatusAgrees'
      BY <2>3 DEF StatusAgrees, ColumnsAgree
    <2>5. decision' = "reject" => ~row'.approved
      BY <2>1, WrittenRow DEF ReviewInv, RejectionHolds
    <2>6. QED
      BY <2>4, <2>5 DEF ReviewInv, RejectionHolds
  <1>2. CASE Aged
    BY <1>2 DEF Aged, Row, ReviewInv, StatusAgrees, RejectionHolds
  <1>3. CASE Purged
    BY <1>3 DEF Purged, ReviewInv, StatusAgrees, RejectionHolds
  <1>4. CASE Kept
    BY <1>4 DEF Kept, ReviewInv, StatusAgrees, RejectionHolds
  <1>5. QED
    BY <1>1, <1>2, <1>3, <1>4, RowChanges

\* Status, approval and rejection reason of a listing never contradict each
\* other, although each is written by requests that read the row earlier.
THEOREM ColumnsAlwaysAgree == Spec => []StatusAgrees
  <1>1. ReviewInv => StatusAgrees
    BY DEF ReviewInv
  <1>2. QED
    BY <1>1, InitType, StepType, InitReview, StepReview, PTL DEF Spec

\* A listing last rejected is not on the market, whatever two moderators and
\* an owner who hands it in again had read.
THEOREM RejectedIsOff == Spec => []RejectedStaysOff
  <1>1. ReviewInv => RejectedStaysOff
    BY DEF ReviewInv, RejectionHolds, RejectedStaysOff, Visible
  <1>2. QED
    BY <1>1, InitType, StepType, InitReview, StepReview, PTL DEF Spec

-----------------------------------------------------------------------------
(* Deletion and purge *)

\* The step of a worker or the passing of time never undoes a deletion.
LEMMA DeletionKept ==
    ASSUME TypeInv, [Next]_vars
    PROVE  row # Null /\ row.deleted => row' = Null \/ row'.deleted
  <1>1. CASE Rewritten
    BY <1>1, WrittenRow DEF Rewritten
  <1>2. CASE Aged
    BY <1>2 DEF Aged, Row
  <1>3. CASE Purged \/ Kept
    BY <1>3 DEF Purged, Kept
  <1>4. QED
    BY <1>1, <1>2, <1>3, RowChanges

\* No request that read the listing before its deletion brings it back.
THEOREM DeletedForGood == Spec => DeletionIsFinal
  <1>1. TypeInv /\ [Next]_vars
          => [row # Null /\ row.deleted => row' = Null \/ row'.deleted]_vars
    BY DeletionKept
  <1>2. QED
    BY <1>1, InitType, StepType, PTL DEF Spec, DeletionIsFinal

\* The purge is at work on a deleted listing only.
PurgeInv == /\ purge # "idle" => row = Null \/ row.deleted
            /\ PhotosLast

LEMMA InitPurge == Init => PurgeInv
  BY DEF Init, PurgeInv, PhotosLast

\* The purge's own variables move by its own steps.
LEMMA PurgeSteps ==
    ASSUME [Next]_vars
    PROVE  \/ purge' = purge /\ photos' = photos
           \/ SelectForPurge \/ PurgePhotos \/ PurgeRow \/ PurgeFails
  BY DEF Next, Step, WriteRow, WriteNothing, Fetch, Store, Invalidate,
         InvalidateFails, ReadRow, ReadPage, Expire, Age, vars

LEMMA StepPurge == TypeInv /\ PurgeInv /\ [Next]_vars => PurgeInv'
  <1> SUFFICES ASSUME TypeInv, PurgeInv, [Next]_vars
               PROVE  PurgeInv'
    OBVIOUS
  <1>1. row = Null \/ row.deleted => row' = Null \/ row'.deleted
    <2>1. row = Null => row' = Null
      BY RowChanges DEF Rewritten, Aged, Purged, Kept
    <2>2. QED
      BY <2>1, DeletionKept
  <1>2. CASE purge' = purge /\ photos' = photos
    BY <1>1, <1>2 DEF PurgeInv, PhotosLast
  <1>3. CASE SelectForPurge
    BY <1>3 DEF SelectForPurge, PurgeInv, PhotosLast
  <1>4. CASE PurgePhotos
    BY <1>4 DEF PurgePhotos, PurgeInv, PhotosLast
  <1>5. CASE PurgeRow
    BY <1>5 DEF PurgeRow, PurgeInv, PhotosLast
  <1>6. CASE PurgeFails
    BY <1>6 DEF PurgeFails, PurgeInv, PhotosLast
  <1>7. QED
    BY <1>2, <1>3, <1>4, <1>5, <1>6, PurgeSteps

\* The photos of a listing are there as long as it is not deleted.
THEOREM PhotosGoLast == Spec => []PhotosLast
  <1>1. PurgeInv => PhotosLast
    BY DEF PurgeInv
  <1>2. QED
    BY <1>1, InitType, StepType, InitPurge, StepPurge, PTL DEF Spec

-----------------------------------------------------------------------------
(* The cached pages *)

\* No page was cached under a version that is still to come.
ShelfBehind == \A k \in Key : shelf[k] # Null => shelf[k].at =< Current(k)

CacheInv == ShelfBehind /\ StaleIsExplained

LEMMA InitCache == Init => CacheInv
  BY DEF Init, CacheInv, ShelfBehind, StaleIsExplained, Outdated, Cached

\* A step that leaves the cache and the pages as they are, and ends no
\* invalidation, needs no new excuse.
LEMMA QuietStep ==
    ASSUME CacheInv,
           version' = version, shelf' = shelf, late' = late,
           \A k \in Key : View(k)' = View(k),
           \A w \in Worker : pc[w] = "invalidate" => pc'[w] = "invalidate"
    PROVE  CacheInv'
  BY DEF CacheInv, ShelfBehind, StaleIsExplained, Outdated, Cached, Current

\* What a page shows depends on no column that ages, and a deleted listing
\* shows nothing before and after it is purged.
LEMMA ViewKept ==
    ASSUME TypeInv, PurgeInv, NEW k \in Key,
           Kept \/ Aged \/ Purged
    PROVE  View(k)' = View(k)
  <1>1. CASE Kept
    BY <1>1 DEF Kept, View, Visible, FaceOf
  <1>2. CASE Aged
    <2>1. /\ row'.status = row.status /\ row'.approved = row.approved
          /\ row'.deleted = row.deleted /\ row'.text = row.text
          /\ row'.unlocks = row.unlocks
      BY <1>2 DEF Aged, Row
    <2>2. row' \in Row /\ (row' = Null <=> row = Null)
      BY <1>2, NullAssumption DEF Aged, Row
    <2>3. QED
      BY <2>1, <2>2 DEF View, Visible, FaceOf
  <1>3. CASE Purged
    BY <1>3, ListingAssumption DEF Purged, PurgeInv, View, Visible
  <1>4. QED
    BY <1>1, <1>2, <1>3

\* A page whose counter went up is no longer found, unless the increment
\* created the counter.
LEMMA Dropped ==
    ASSUME TypeInv, CacheInv, NEW k \in Key, shelf'[k] = shelf[k],
           version'[CounterOf(k)] \in {version[CounterOf(k)] + 1,
                                       version[CounterOf(k)] + 2}
    PROVE  /\ shelf[k] # Null => shelf[k].at =< Current(k)'
           /\ Outdated(k)' => version'[CounterOf(k)] = 1
  <1>1. version[CounterOf(k)] \in Nat
    BY CounterOfType DEF TypeInv, TypeOK
  <1>2. shelf[k] # Null => shelf[k].at \in Nat /\ shelf[k].at =< Current(k)
    BY DEF CacheInv, ShelfBehind, TypeInv, TypeOK
  <1>3. /\ Current(k) =< Current(k)'
        /\ Current(k) = Current(k)' => version'[CounterOf(k)] = 1
        /\ Current(k) \in Nat /\ Current(k)' \in Nat
    BY <1>1 DEF Current, CurrentOf
  <1>4. Cached(k)' # Null => version'[CounterOf(k)] = 1
    BY <1>2, <1>3 DEF Cached
  <1>5. QED
    BY <1>2, <1>3, <1>4 DEF Outdated

\* The steps of a worker on the pages.
LEMMA StoreExplained ==
    ASSUME TypeInv, CacheInv, NEW w \in Worker, Store(w)
    PROVE  CacheInv'
  <1>1. PICK j \in Key : j = job[w]
    BY DEF Store, TypeInv, HoldsJob
  <1>2. /\ shelf' = [shelf EXCEPT ![j] = [at |-> Current(j), page |-> snap[w]]]
        /\ late' = IF snap[w] = View(j) THEN late \ {j} ELSE late \cup {j}
        /\ version' = version /\ row' = row /\ pc[w] = "store"
        /\ \A v \in Worker : pc[v] = "invalidate" => pc'[v] = "invalidate"
    BY <1>1 DEF Store, Return, Goto, TypeInv, TypeOK
  <1>3. \A k \in Key : Current(k)' = Current(k) /\ View(k)' = View(k)
    BY <1>2 DEF Current, View, Visible
  <1>4. Current(j) \in Nat
    BY <1>1, CurrentType DEF TypeInv
  <1>5. /\ shelf'[j] = [at |-> Current(j), page |-> snap[w]]
        /\ \A k \in Key : k # j => shelf'[k] = shelf[k]
    BY <1>1, <1>2 DEF TypeInv, TypeOK
  <1>6. ShelfBehind'
    BY <1>3, <1>4, <1>5 DEF CacheInv, ShelfBehind
  <1>7. ASSUME Outdated(j)'
        PROVE  j \in late'
    BY <1>1, <1>2, <1>3, <1>5, <1>7 DEF Outdated, Cached
  <1>8. ASSUME NEW k \in Key, k # j, Outdated(k)'
        PROVE  \/ k \in late'
               \/ version'[CounterOf(k)] = 1
               \/ \E v \in Worker : pc'[v] = "invalidate"
    <2>1. Outdated(k)
      BY <1>3, <1>5, <1>8 DEF Outdated, Cached
    <2>2. \/ k \in late
          \/ version[CounterOf(k)] = 1
          \/ \E v \in Worker : pc[v] = "invalidate"
      BY <2>1 DEF CacheInv, StaleIsExplained
    <2>3. QED
      BY <1>2, <1>8, <2>2
  <1>9. StaleIsExplained'
    BY <1>1, <1>7, <1>8 DEF StaleIsExplained
  <1>10. QED
    BY <1>6, <1>9 DEF CacheInv

LEMMA InvalidateExplained ==
    ASSUME TypeInv, CacheInv, NEW w \in Worker,
           Invalidate(w) \/ InvalidateFails(w)
    PROVE  CacheInv'
  <1>1. shelf' = shelf /\ row' = row
    BY DEF Invalidate, InvalidateFails
  <1>2. \A k \in Key : View(k)' = View(k)
    BY <1>1 DEF View, Visible
  <1>3. ASSUME NEW k \in Key
        PROVE  /\ CounterOf(k) \in Counter
               /\ version[CounterOf(k)] \in Nat
    BY CounterOfType DEF TypeInv, TypeOK
  <1>4. CASE Invalidate(w)
    <2>1. ASSUME NEW k \in Key
          PROVE  version'[CounterOf(k)] \in {version[CounterOf(k)] + 1,
                                             version[CounterOf(k)] + 2}
      BY <1>3, <1>4 DEF Invalidate, Bumped, Counter
    <2>2. QED
      BY <1>1, <2>1, Dropped DEF CacheInv, ShelfBehind, StaleIsExplained
  <1>5. CASE InvalidateFails(w)
    <2>1. PICK C \in {{}, {"browse"}, {"detail"}} :
            /\ version' = Bumped(C)
            /\ {k \in Key : CounterOf(k) \notin C /\ Outdated(k)}
                 \subseteq late'
      BY <1>5 DEF InvalidateFails
    <2>2. ASSUME NEW k \in Key, CounterOf(k) \in C
          PROVE  version'[CounterOf(k)] = version[CounterOf(k)] + 1
      BY <1>3, <2>1, <2>2 DEF Bumped
    <2>3. ASSUME NEW k \in Key, CounterOf(k) \notin C
          PROVE  /\ Current(k)' = Current(k)
                 /\ Outdated(k)' => k \in late'
      <3>1. version'[CounterOf(k)] = version[CounterOf(k)]
        BY <1>3, <2>1, <2>3 DEF Bumped
      <3>2. Current(k)' = Current(k)
        BY <3>1 DEF Current
      <3>3. QED
        BY <1>1, <1>2, <2>1, <2>3, <3>2 DEF Outdated, Cached
    <2>4. QED
      BY <1>1, <2>2, <2>3, Dropped DEF CacheInv, ShelfBehind, StaleIsExplained
  <1>6. QED
    BY <1>4, <1>5

LEMMA StepCache == TypeInv /\ PurgeInv /\ CacheInv /\ [Next]_vars => CacheInv'
  <1> SUFFICES ASSUME TypeInv, PurgeInv, CacheInv, [Next]_vars
               PROVE  CacheInv'
    OBVIOUS
  <1>1. ASSUME NEW w \in Worker, WriteRow(w)
        PROVE  CacheInv'
    <2>1. shelf' = shelf /\ version' = version /\ pc'[w] = "invalidate"
      BY <1>1 DEF WriteRow, Goto, cacheVars, TypeInv, TypeOK
    <2>2. QED
      BY <2>1 DEF CacheInv, ShelfBehind, StaleIsExplained, Current
  <1>2. ASSUME NEW w \in Worker,
               \/ WriteNothing(w) \/ Fetch(w)
               \/ \E j \in Request : ReadRow(w, j)
               \/ \E k \in Key : ReadPage(w, k)
        PROVE  CacheInv'
    <2>1. /\ version' = version /\ shelf' = shelf /\ late' = late
          /\ row' = row
          /\ \A v \in Worker : pc[v] = "invalidate" => pc'[v] = "invalidate"
      BY <1>2 DEF WriteNothing, Fetch, ReadRow, ReadPage, Begin, Return, Goto,
                  cacheVars, TypeInv, TypeOK
    <2>2. \A k \in Key : View(k)' = View(k)
      BY <2>1 DEF View, Visible
    <2>3. QED
      BY <2>1, <2>2, QuietStep
  <1>3. ASSUME NEW k \in Key, Expire(k)
        PROVE  CacheInv'
    <2>1. /\ version' = version /\ row' = row /\ pc' = pc
          /\ shelf'[k] = Null /\ late' = late \ {k}
          /\ \A i \in Key : i # k => shelf'[i] = shelf[i]
      BY <1>3 DEF Expire, wrkVars, TypeInv, TypeOK
    <2>2. ~Outdated(k)'
      BY <2>1 DEF Outdated, Cached
    <2>3. ASSUME NEW i \in Key, i # k
          PROVE  Outdated(i)' => Outdated(i)
      BY <2>1, <2>3 DEF Outdated, Cached, Current, View, Visible
    <2>4. QED
      BY <2>1, <2>2, <2>3 DEF CacheInv, ShelfBehind, StaleIsExplained, Current
  <1>4. CASE \/ Age \/ SelectForPurge \/ PurgePhotos \/ PurgeRow \/ PurgeFails
             \/ UNCHANGED vars
    <2>1. /\ version' = version /\ shelf' = shelf /\ late' = late
          /\ pc' = pc
      BY <1>4 DEF Age, SelectForPurge, PurgePhotos, PurgeRow, PurgeFails, vars,
                  cacheVars, wrkVars
    <2>2. Kept \/ Aged \/ Purged
      BY <1>4 DEF Age, SelectForPurge, PurgePhotos, PurgeRow, PurgeFails, vars,
                  Kept, Aged, Purged, TypeInv, TypeOK
    <2>3. \A k \in Key : View(k)' = View(k)
      BY <2>2, ViewKept
    <2>4. QED
      BY <2>1, <2>3, QuietStep
  <1>5. QED
    BY <1>1, <1>2, <1>3, <1>4, StoreExplained, InvalidateExplained
    DEF Next, Step

\* A page differs from the row only for a reason the code allows: a write
\* that has still to invalidate it, a reader or a failure that left it
\* behind, or the first increment of its counter.
THEOREM StalenessExplained == Spec => []StaleIsExplained
  <1>1. CacheInv => StaleIsExplained
    BY DEF CacheInv
  <1>2. QED
    BY <1>1, InitType, StepType, InitPurge, StepPurge, InitCache, StepCache,
       PTL DEF Spec
=============================================================================
