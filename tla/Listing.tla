------------------------------ MODULE Listing ------------------------------
(***************************************************************************)
(* One listing from its review to its purge: moderators, its owner and     *)
(* unlocks write columns of one row after reading it without a lock, each  *)
(* write is followed by an invalidation of the versioned pages in Redis    *)
(* that readers fill meanwhile, and a weekly job removes what was deleted. *)
(***************************************************************************)
EXTENDS Integers

CONSTANTS
    Worker,    \* requests at work at the same time
    Key,       \* cached pages: "browse", the details for a stranger
               \* ("public") and for the owner ("owner")
    Null,      \* "no row", "no entry", "nothing"
    Absent,    \* a browse result without the listing
    MaxWrites  \* bound on the writing requests of a behaviour

ASSUME ListingAssumption ==
    /\ Key \subseteq {"browse", "public", "owner"}
    /\ MaxWrites \in Nat

VARIABLES
    row,      \* the listing's row
    photos,   \* its photos are in the storage
    pc, job,  \* what each worker does next, and for which request or page
    snap,     \* the row, or the page, it has read
    version,  \* the two version counters in Redis; 0: no such key
    shelf,    \* what is cached for each page, and under which version
    purge,    \* the cleanup job: "idle", "photos", "row"
    decision, \* auxiliary: the last decision on the listing's review
    late,     \* auxiliary: pages cached or left behind the times
    writes    \* auxiliary: writing requests begun

wrkVars == <<pc, job, snap>>
cacheVars == <<version, shelf, late>>
vars == <<row, photos, pc, job, snap, version, shelf, purge, decision, late,
          writes>>

Status == {"PENDING", "ACTIVE", "REJECTED", "CONFIRMED", "DELETED"}
Row == [status : Status, approved : BOOLEAN, reason : BOOLEAN,
        deleted : BOOLEAN, deletedAt : {"never", "recent", "old"},
        text : Nat, unlocks : Nat]

ASSUME NullAssumption == Null \notin Row

Counter == {"browse", "detail"}
CounterOf(k) == IF k = "browse" THEN "browse" ELSE "detail"

Request == {"approve", "reject", "edit", "delete", "adminEdit", "adminDelete",
            "unlock", "handover"}
Face == [status : Status, text : Nat, unlocks : Nat]
Page == Face \cup {Absent}

TypeOK ==
    /\ row \in Row \cup {Null}
    /\ photos \in BOOLEAN
    /\ pc \in [Worker -> {"idle", "write", "invalidate", "fetch", "store"}]
    /\ job \in [Worker -> Request \cup Key \cup {Null}]
    /\ snap \in [Worker -> Row \cup Page \cup {Null}]
    /\ version \in [Counter -> Nat]
    /\ shelf \in [Key -> [at : Nat, page : Page] \cup {Null}]
    /\ purge \in {"idle", "photos", "row"}
    /\ decision \in {"approve", "reject", "none"}
    /\ late \subseteq Key
    /\ writes \in 0..MaxWrites

Goto(w, l) == pc' = [pc EXCEPT ![w] = l]

Begin(w, j, s, l) ==
    /\ pc[w] = "idle"
    /\ Goto(w, l)
    /\ job' = [job EXCEPT ![w] = j]
    /\ snap' = [snap EXCEPT ![w] = s]

Return(w) ==
    /\ Goto(w, "idle")
    /\ job' = [job EXCEPT ![w] = Null]
    /\ snap' = [snap EXCEPT ![w] = Null]

-----------------------------------------------------------------------------
(* The row: listing.service.ts, admin-listing.service.ts *)

\* createListing: the first three listings of a poster await a review.
NewRow(live) ==
    [status |-> IF live THEN "ACTIVE" ELSE "PENDING", approved |-> live,
     reason |-> FALSE, deleted |-> FALSE, deletedAt |-> "never", text |-> 0,
     unlocks |-> 0]

\* The browse counter counts the other listings' invalidations too.
Init ==
    /\ \E live \in BOOLEAN, others \in {0, 1} :
         LET own == IF live THEN 1 ELSE 0
         IN  /\ row = NewRow(live)
             /\ version = [c \in Counter |->
                             IF c = "browse" THEN own + others ELSE own]
    /\ photos = TRUE
    /\ pc = [w \in Worker |-> "idle"]
    /\ job = [w \in Worker |-> Null]
    /\ snap = [w \in Worker |-> Null]
    /\ shelf = [k \in Key |-> Null]
    /\ purge = "idle"
    /\ decision = "none"
    /\ late = {}
    /\ writes = 0

Visible(r) == r # Null /\ ~r.deleted /\ r.approved
                /\ r.status \in {"ACTIVE", "CONFIRMED"}

\* What a request checks on the row it reads before it writes.
Admissible(j, r) ==
    /\ r # Null
    /\ CASE j \in {"approve", "reject"} -> ~r.deleted /\ r.status = "PENDING"
         [] j = "unlock" -> Visible(r) /\ r.status = "ACTIVE"
         [] j = "handover" -> r.unlocks > 0
         [] OTHER -> ~r.deleted

ReadRow(w, j) ==
    /\ writes < MaxWrites
    /\ Admissible(j, row)
    /\ Begin(w, j, row, "write")
    /\ writes' = writes + 1
    /\ UNCHANGED <<row, photos, cacheVars, purge, decision>>

\* rejectListing
RejectedStatusOnlyBug == [row EXCEPT !.status = "REJECTED", !.reason = TRUE]

Rejected == [row EXCEPT !.status = "REJECTED", !.approved = FALSE,
                        !.reason = TRUE]

\* updateListing: an edit of what was read as rejected hands it in again.
EditedStatusOnlyBug(s) ==
    IF s.status = "REJECTED"
    THEN [row EXCEPT !.status = "PENDING", !.reason = FALSE, !.text = @ + 1]
    ELSE [row EXCEPT !.text = @ + 1]

EditedWholeRowBug(s) == [s EXCEPT !.text = row.text + 1]

EditedRevivesBug(s) ==
    IF s.status = "REJECTED"
    THEN [row EXCEPT !.status = "PENDING", !.approved = FALSE,
                     !.reason = FALSE, !.text = @ + 1, !.deleted = FALSE]
    ELSE [row EXCEPT !.text = @ + 1]

Edited(s) ==
    IF s.status = "REJECTED"
    THEN [row EXCEPT !.status = "PENDING", !.approved = FALSE,
                     !.reason = FALSE, !.text = @ + 1]
    ELSE [row EXCEPT !.text = @ + 1]

\* The columns each request writes, whatever the row has become since.
Written(j, s) ==
    CASE j = "approve" -> [row EXCEPT !.status = "ACTIVE", !.approved = TRUE,
                                      !.reason = FALSE]
      [] j = "reject" -> Rejected
      [] j = "edit" -> Edited(s)
      [] j = "adminEdit" -> [row EXCEPT !.text = @ + 1]
      [] j = "delete" -> [row EXCEPT !.status = "DELETED", !.deleted = TRUE,
                                     !.deletedAt = "recent"]
      [] j = "adminDelete" -> [row EXCEPT !.status = "DELETED",
                                          !.deleted = TRUE]
      [] j = "unlock" -> [row EXCEPT !.unlocks = @ + 1]
      [] j = "handover" -> [row EXCEPT !.status = "CONFIRMED"]

\* softDeleteListing decides on the locked row, claimListing in its update.
StillApplies(j) ==
    /\ row # Null
    /\ j = "delete" => ~row.deleted
    /\ j = "handover" => row.status # "CONFIRMED"

WriteRow(w) ==
    LET j == job[w]
    IN  /\ pc[w] = "write"
        /\ StillApplies(j)
        /\ row' = Written(j, snap[w])
        /\ decision' = IF j \in {"approve", "reject"} THEN j ELSE decision
        /\ Goto(w, "invalidate")
        /\ UNCHANGED <<photos, job, snap, cacheVars, purge, writes>>

WriteNothing(w) ==
    /\ pc[w] = "write"
    /\ ~StillApplies(job[w])
    /\ Return(w)
    /\ UNCHANGED <<row, photos, cacheVars, purge, decision, writes>>

-----------------------------------------------------------------------------
(* The pages: listing-cache.service.ts, browseListings, getListingDetails *)

\* getVersion: a missing counter counts as 1.
CurrentOf(v) == IF v = 0 THEN 1 ELSE v
Current(k) == CurrentOf(version[CounterOf(k)])

FaceOf(r) == [status |-> r.status, text |-> r.text, unlocks |-> r.unlocks]

\* What a reader of page k gets from the database; Null: not found.
View(k) ==
    CASE k = "browse" -> IF Visible(row) THEN FaceOf(row) ELSE Absent
      [] k = "public" -> IF Visible(row) THEN FaceOf(row) ELSE Null
      [] k = "owner" -> IF row # Null /\ ~row.deleted THEN FaceOf(row)
                                                      ELSE Null

\* getBrowse, getDetails
Cached(k) == IF shelf[k] # Null /\ shelf[k].at = Current(k)
             THEN shelf[k].page ELSE Null

Outdated(k) == Cached(k) \notin {Null, View(k)}

ReadPage(w, k) ==
    /\ Cached(k) = Null
    /\ Begin(w, k, Null, "fetch")
    /\ UNCHANGED <<row, photos, cacheVars, purge, decision, writes>>

Fetch(w) ==
    /\ pc[w] = "fetch"
    /\ IF View(job[w]) = Null
       THEN Return(w)
       ELSE /\ snap' = [snap EXCEPT ![w] = View(job[w])]
            /\ Goto(w, "store")
            /\ UNCHANGED job
    /\ UNCHANGED <<row, photos, cacheVars, purge, decision, writes>>

\* setBrowse, setDetails: under the version of now, not of the read.
Store(w) ==
    LET k == job[w]
    IN  /\ pc[w] = "store"
        /\ shelf' = [shelf EXCEPT ![k] = [at |-> Current(k), page |-> snap[w]]]
        /\ late' = IF snap[w] = View(k) THEN late \ {k} ELSE late \cup {k}
        /\ Return(w)
        /\ UNCHANGED <<row, photos, version, purge, decision, writes>>

Bumped(C) == [c \in Counter |-> IF c \in C THEN version[c] + 1 ELSE version[c]]

InvalidateDetailOnlyBug(w) ==
    /\ pc[w] = "invalidate"
    /\ version' = Bumped({"detail"})
    /\ late' = {k \in late : Current(k) = CurrentOf(version'[CounterOf(k)])}
    /\ Return(w)
    /\ UNCHANGED <<row, photos, shelf, purge, decision, writes>>

\* invalidateListing; the handover calls invalidateBrowse besides.
Invalidate(w) ==
    /\ pc[w] = "invalidate"
    /\ version' = IF job[w] = "handover"
                  THEN [Bumped(Counter) EXCEPT !["browse"] = @ + 1]
                  ELSE Bumped(Counter)
    /\ late' = {k \in late : Current(k) = CurrentOf(version'[CounterOf(k)])}
    /\ Return(w)
    /\ UNCHANGED <<row, photos, shelf, purge, decision, writes>>

\* Redis fails or the replica stops, after one of the increments or none.
InvalidateFails(w) ==
    /\ pc[w] = "invalidate"
    /\ \E C \in {{}, {"browse"}, {"detail"}} :
         /\ version' = Bumped(C)
         /\ late' = {k \in Key : CounterOf(k) \notin C /\ Outdated(k)}
                      \cup {k \in late :
                              Current(k) = CurrentOf(version'[CounterOf(k)])}
    /\ Return(w)
    /\ UNCHANGED <<row, photos, shelf, purge, decision, writes>>

\* BROWSE_CACHE_TTL_SECONDS have passed.
Expire(k) ==
    /\ shelf[k] # Null
    /\ shelf' = [shelf EXCEPT ![k] = Null]
    /\ late' = late \ {k}
    /\ UNCHANGED <<row, photos, wrkVars, version, purge, decision, writes>>

-----------------------------------------------------------------------------
(* The purge: listing-cleanup.job.ts *)

\* The retention of 90 days ends.
Age ==
    /\ row # Null /\ row.deletedAt = "recent"
    /\ row' = [row EXCEPT !.deletedAt = "old"]
    /\ UNCHANGED <<photos, wrkVars, cacheVars, purge, decision, writes>>

SelectForPurge ==
    /\ purge = "idle"
    /\ row # Null /\ row.deleted /\ row.deletedAt = "old"
    /\ purge' = "photos"
    /\ UNCHANGED <<row, photos, wrkVars, cacheVars, decision, writes>>

PurgePhotos ==
    /\ purge = "photos"
    /\ photos' = FALSE
    /\ purge' = "row"
    /\ UNCHANGED <<row, wrkVars, cacheVars, decision, writes>>

PurgeRow ==
    /\ purge = "row"
    /\ row' = Null
    /\ purge' = "idle"
    /\ UNCHANGED <<photos, wrkVars, cacheVars, decision, writes>>

\* Storage or database fail; the next sweep starts over.
PurgeFails ==
    /\ purge # "idle"
    /\ purge' = "idle"
    /\ UNCHANGED <<row, photos, wrkVars, cacheVars, decision, writes>>

-----------------------------------------------------------------------------
Step(w) == \/ WriteRow(w) \/ WriteNothing(w)
           \/ Fetch(w) \/ Store(w) \/ Invalidate(w) \/ InvalidateFails(w)

Next ==
    \/ \E w \in Worker :
         \/ Step(w)
         \/ \E j \in Request : ReadRow(w, j)
         \/ \E k \in Key : ReadPage(w, k)
    \/ \E k \in Key : Expire(k)
    \/ Age \/ SelectForPurge \/ PurgePhotos \/ PurgeRow \/ PurgeFails

Spec == Init /\ [][Next]_vars

-----------------------------------------------------------------------------
(* What holds *)

\* Status, approval and reason are separate columns that requests which read
\* the row at different times overwrite; they never contradict each other.
StatusAgrees ==
    row # Null =>
        /\ row.status = "ACTIVE" => row.approved /\ ~row.reason
        /\ row.status = "PENDING" => ~row.approved /\ ~row.reason
        /\ row.status = "REJECTED" => ~row.approved /\ row.reason
        /\ row.status = "DELETED" => row.deleted

\* The market never shows a listing whose last review was a rejection: two
\* moderators, or a moderator and an owner who hands in again, may overlap.
RejectedStaysOff == decision = "reject" => ~Visible(row)

\* No request that read the listing before its deletion brings it back.
DeletionIsFinal ==
    [][row # Null /\ row.deleted => row' = Null \/ row'.deleted]_vars

\* The photos go only with the listing, whose requests may go on in its
\* retention.
PhotosLast == ~photos => row = Null \/ row.deleted

\* A cached page differs from the row only while a write has still to
\* invalidate it, or if a reader overtaken by one, or a failure of Redis,
\* left it behind, or it survived the first invalidation, whose increment
\* creates the counter at the version readers had assumed.
StaleIsExplained ==
    \A k \in Key : Outdated(k) =>
        \/ k \in late
        \/ version[CounterOf(k)] = 1
        \/ \E w \in Worker : pc[w] = "invalidate"

-----------------------------------------------------------------------------
(* What the repository says and the code does not keep *)

\* Docs/06_Backend_Implementation_Task_List.md:173 "Invalidate relevant
\* caches on create, update, delete, approve, reject".
InvalidationDrops ==
    \A k \in Key : Outdated(k) =>
        k \in late \/ \E w \in Worker : pc[w] = "invalidate"
=============================================================================
