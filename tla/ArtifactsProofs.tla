---------------------------- MODULE ArtifactsProofs ----------------------------
(***************************************************************************)
(* Artifacts: an UPLOADED row has its bytes, a version references an       *)
(* UPLOADED row, and a decision is never taken back, for every number of   *)
(* contents, requests and versions and every assignment of uploader ids.   *)
(***************************************************************************)
EXTENDS Artifacts, TLAPS

\* The shape of a step, which is all the invariants depend on: rows keep what was
\* decided, become UPLOADED only when the bytes are there, and nothing is removed
\* from storage.
RowsAdvance ==
    /\ artifacts' \in [Contents -> ArtifactRow]
    /\ storage' \in SUBSET Contents
    /\ storage \subseteq storage'
    /\ \A c \in Contents :
          /\ artifacts[c].status = "UPLOADED" => artifacts'[c].status = "UPLOADED"
          /\ artifacts'[c].status = "UPLOADED" => c \in storage'

\* What KnownContent, VerifiedIsStored and HandedOutIsUploaded say of one request.
GoodRequest(r) ==
    /\ r \in RequestState
    /\ r.pc # "idle" => r.content \in Contents
    /\ r.pc \in {"number", "insert"} => r.kind \in Kinds
    /\ r.pc = "mark" => r.content \in storage
    /\ r.pc \in {"done", "number", "insert"} => artifacts[r.content].status = "UPLOADED"

\* The invariant, request by request.
LEMMA InvByRequest ==
    ArtifactsInv <=>
        /\ ArtifactsTypeOK
        /\ \A p \in Requests : GoodRequest(req[p])
        /\ rec.found => rec.at \in storage
        /\ UploadedIsStored
        /\ VersionsAreUploaded
BY DEF ArtifactsInv, ArtifactsTypeOK, GoodRequest, KnownContent, VerifiedIsStored,
       HandedOutIsUploaded

\* A step of request p that advances the rows and leaves p in a good state.
LEMMA RequestMoves ==
    ASSUME ArtifactsInv, NEW p \in Requests, NEW r,
           req' = [req EXCEPT ![p] = r], GoodRequest(req[p])',
           RowsAdvance, UNCHANGED <<versions, rec>>
    PROVE  ArtifactsInv'
<1>1. /\ ArtifactsTypeOK
      /\ \A q \in Requests : GoodRequest(req[q])
      /\ rec.found => rec.at \in storage
      /\ UploadedIsStored
      /\ VersionsAreUploaded
  BY InvByRequest
<1>2. r \in RequestState
  BY <1>1 DEF GoodRequest, ArtifactsTypeOK
<1>3. ArtifactsTypeOK'
  BY <1>1, <1>2 DEF ArtifactsTypeOK, RowsAdvance
<1>4. \A q \in Requests : GoodRequest(req[q])'
  <2> SUFFICES ASSUME NEW q \in Requests PROVE GoodRequest(req[q])'
    OBVIOUS
  <2>1. CASE q = p
    BY <2>1
  <2>2. CASE q # p
    <3>1. req'[q] = req[q]
      BY <2>2, <1>1 DEF ArtifactsTypeOK
    <3> DEFINE s == req[q]
    <3>2. GoodRequest(s)
      BY <1>1
    <3> QED
      BY <3>1, <3>2 DEF GoodRequest, RowsAdvance, RequestState
  <2> QED
    BY <2>1, <2>2
<1>5. (rec.found => rec.at \in storage)' /\ UploadedIsStored'
  BY <1>1 DEF RowsAdvance, UploadedIsStored
<1>6. VersionsAreUploaded'
  BY <1>1 DEF RowsAdvance, VersionsAreUploaded, ArtifactsTypeOK
<1> QED
  BY <1>3, <1>4, <1>5, <1>6
     DEF ArtifactsInv, GoodRequest, KnownContent, VerifiedIsStored, HandedOutIsUploaded

\* A step that leaves the rows and the storage alone advances them trivially.
LEMMA RowsStay ==
    ASSUME ArtifactsInv, UNCHANGED <<artifacts, storage>>
    PROVE  RowsAdvance
BY DEF ArtifactsInv, ArtifactsTypeOK, UploadedIsStored, RowsAdvance

\* A step that rewrites one row, keeps UPLOADED and verifies before writing it.
LEMMA RowChanges ==
    ASSUME ArtifactsInv, NEW c \in Contents, NEW row \in ArtifactRow, SetRow(c, row),
           UNCHANGED storage,
           artifacts[c].status = "UPLOADED" => row.status = "UPLOADED",
           row.status = "UPLOADED" => c \in storage
    PROVE  RowsAdvance
BY DEF ArtifactsInv, ArtifactsTypeOK, UploadedIsStored, RowsAdvance, SetRow

-----------------------------------------------------------------------------
(* The steps *)

\* Every state starts with nothing uploaded and nobody knowing anything.
LEMMA InitHolds == ArtifactsInit => ArtifactsInv
BY NoneIsNoContent, MaxVersionsIsNat
   DEF ArtifactsInit, ArtifactsInv, ArtifactsTypeOK, KnownContent, VerifiedIsStored,
       HandedOutIsUploaded, UploadedIsStored, VersionsAreUploaded, ArtifactRow,
       RequestState, RequestIdle, ReconcilerState, ReconcilerIdle

\* A step of a request that touches neither rows nor storage nor versions.
LEMMA RequestOnly ==
    ASSUME ArtifactsInv, NEW p \in Requests, NEW r,
           req' = [req EXCEPT ![p] = r], GoodRequest(r),
           UNCHANGED <<artifacts, storage, versions, rec>>
    PROVE  ArtifactsInv'
<1>1. RowsAdvance
  BY RowsStay
<1>2. req'[p] = r
  BY DEF ArtifactsInv, ArtifactsTypeOK
<1>3. GoodRequest(req[p])'
  BY <1>2 DEF GoodRequest
<1> QED
  BY <1>1, <1>3, RequestMoves

\* A request that gives up, or returns, is in a good state.
LEMMA IdleIsGood == GoodRequest(RequestIdle) /\ GoodRequest(RequestIdle)'
BY MaxVersionsIsNat DEF GoodRequest, RequestIdle, RequestState

\* Every step of a request but the insertion of a version keeps the invariant.
LEMMA UploadKeepsInv ==
    ASSUME ArtifactsInv, NEW p \in Requests,
           \/ \E c \in Contents : \/ \E k \in {"dataset", None} : Lookup(p, c, k)
                                  \/ CheckModel(p, c)
           \/ CreatePending(p) \/ ClaimUploadLease(p) \/ PutObject(p)
           \/ VerifyObject(p) \/ MarkUploaded(p) \/ UploadDone(p) \/ TakeNumber(p)
           \/ RequestEnds(p)
    PROVE  ArtifactsInv'
<1> USE IdleIsGood
<1>0. GoodRequest(req[p]) /\ ArtifactsTypeOK
  BY InvByRequest
<1>1. ASSUME NEW c \in Contents, NEW k \in {"dataset", None}, Lookup(p, c, k)
      PROVE  ArtifactsInv'
  <2> DEFINE r == [req[p] EXCEPT !.kind = k, !.content = c,
                           !.pc = IF Reusable(c) THEN "done"
                                  ELSE IF artifacts[c].status = "NONE" THEN "create"
                                  ELSE "claim"]
  <2>1. GoodRequest(r)
    <3>1. req[p] \in RequestState /\ k \in Kinds \cup {None} /\ c \in Contents
      BY <1>0, <1>1 DEF GoodRequest, Kinds
    <3>2. PICK pc \in {"create", "claim", "done"} :
             /\ r = [req[p] EXCEPT !.kind = k, !.content = c, !.pc = pc]
             /\ pc = "done" => artifacts[c].status = "UPLOADED"
      BY DEF Reusable
    <3>3. /\ r \in RequestState
          /\ r.pc = pc /\ r.content = c
      BY ONLY <3>1, <3>2 DEF RequestState
    <3> HIDE DEF r
    <3> QED
      BY <3>1, <3>2, <3>3 DEF GoodRequest
  <2>2. req' = [req EXCEPT ![p] = r] /\ UNCHANGED <<artifacts, storage, versions, rec>>
    BY <1>1 DEF Lookup
  <2> QED
    BY <2>1, <2>2, RequestOnly
<1>2. ASSUME NEW c \in Contents, CheckModel(p, c)
      PROVE  ArtifactsInv'
  <2> DEFINE r == [req[p] EXCEPT !.pc = "number", !.kind = "model", !.content = c]
  <2>1. GoodRequest(r)
    BY <1>0, <1>2 DEF GoodRequest, RequestState, Kinds, CheckModel, Registrable
  <2>2. req' = [req EXCEPT ![p] = r] /\ UNCHANGED <<artifacts, storage, versions, rec>>
    BY <1>2 DEF CheckModel
  <2> QED
    BY <2>1, <2>2, RequestOnly
<1>3. CASE CreatePending(p)
  <2> DEFINE c == req[p].content
             row == [artifacts[c] EXCEPT !.status = "PENDING"]
             r == [req[p] EXCEPT !.pc = "claim"]
  <2>1. CASE artifacts[c].status = "NONE"
    <3>1. /\ SetRow(c, row) /\ req' = [req EXCEPT ![p] = r]
          /\ UNCHANGED <<storage, versions, rec>>
      BY <1>3, <2>1 DEF CreatePending, Goto
    <3>2. c \in Contents /\ row \in ArtifactRow /\ row.status = "PENDING"
      BY <1>0, <1>3 DEF GoodRequest, CreatePending, ArtifactsTypeOK, ArtifactRow
    <3>3. RowsAdvance
      BY <2>1, <3>1, <3>2, RowChanges
    <3>4. GoodRequest(req[p])'
      BY <1>0, <3>1, <3>2 DEF GoodRequest, RequestState, ArtifactsTypeOK
    <3> QED
      BY <3>1, <3>3, <3>4, RequestMoves
  <2>2. CASE artifacts[c].status # "NONE"
    BY <1>3, <2>2, RequestOnly DEF CreatePending, Return
  <2> QED
    BY <2>1, <2>2
<1>4. CASE ClaimUploadLease(p)
  <2> DEFINE c == req[p].content
             row == [artifacts[c] EXCEPT !.uploader = Id[p], !.lease = "live"]
             r == [req[p] EXCEPT !.pc = "put"]
  <2>1. CASE LeaseIsFree(c)
    <3>1. /\ SetRow(c, row) /\ req' = [req EXCEPT ![p] = r]
          /\ UNCHANGED <<storage, versions, rec>>
      BY <1>4, <2>1 DEF ClaimUploadLease, Goto
    <3>2. c \in Contents
      BY <1>0, <1>4 DEF GoodRequest, ClaimUploadLease
    <3>3. row \in ArtifactRow /\ row.status = "PENDING"
      <4>1. artifacts[c] \in ArtifactRow /\ artifacts[c].status = "PENDING"
        BY <1>0, <2>1, <3>2 DEF ArtifactsTypeOK, LeaseIsFree
      <4>2. Id[p] \in Ids
        BY DEF Ids
      <4> HIDE DEF c
      <4> QED
        BY ONLY <4>1, <4>2 DEF ArtifactRow
    <3>4. RowsAdvance
      BY <2>1, <3>1, <3>2, <3>3, RowChanges DEF LeaseIsFree
    <3>5. GoodRequest(req[p])'
      <4>1. req[p] \in RequestState
        BY <1>0 DEF GoodRequest
      <4>2. r \in RequestState /\ r.pc = "put" /\ r.content = c
        BY ONLY <4>1 DEF RequestState
      <4>3. req'[p] = r
        BY <1>0, <3>1 DEF ArtifactsTypeOK
      <4> HIDE DEF r, c
      <4> QED
        BY ONLY <3>2, <4>2, <4>3 DEF GoodRequest
    <3> QED
      BY <3>1, <3>4, <3>5, RequestMoves
  <2>2. CASE ~LeaseIsFree(c)
    BY <1>4, <2>2, RequestOnly DEF ClaimUploadLease, Return
  <2> QED
    BY <2>1, <2>2
<1>5. CASE PutObject(p)
  <2> DEFINE r == [req[p] EXCEPT !.pc = "verify"]
  <2>1. /\ req' = [req EXCEPT ![p] = r] /\ storage' = storage \cup {req[p].content}
        /\ UNCHANGED <<artifacts, versions, rec>>
    BY <1>5 DEF PutObject, Goto
  <2>2. req[p].content \in Contents
    BY <1>0, <1>5 DEF GoodRequest, PutObject
  <2>3. RowsAdvance
    BY <2>1, <2>2 DEF RowsAdvance, ArtifactsInv, ArtifactsTypeOK, UploadedIsStored
  <2>4. GoodRequest(req[p])'
    BY <1>0, <2>1, <2>2 DEF GoodRequest, RequestState, ArtifactsTypeOK
  <2> QED
    BY <2>1, <2>3, <2>4, RequestMoves
<1>6. CASE VerifyObject(p)
  <2> DEFINE r == [req[p] EXCEPT !.pc = "mark"]
  <2>1. GoodRequest(r)
    BY <1>0, <1>6 DEF GoodRequest, RequestState, VerifyObject
  <2> QED
    BY <1>6, <2>1, RequestOnly DEF VerifyObject, Goto
<1>7. CASE MarkUploaded(p)
  <2> DEFINE c == req[p].content
             row == [artifacts[c] EXCEPT !.status = "UPLOADED", !.lease = "none"]
             r == [req[p] EXCEPT !.pc = "done"]
  <2>1. CASE artifacts[c].status = "PENDING" /\ artifacts[c].uploader = Id[p]
    <3>1. /\ SetRow(c, row) /\ req' = [req EXCEPT ![p] = r]
          /\ UNCHANGED <<storage, versions, rec>>
      BY <1>7, <2>1 DEF MarkUploaded, Goto
    <3>2. c \in Contents /\ c \in storage
      BY <1>0, <1>7 DEF GoodRequest, MarkUploaded
    <3>3. row \in ArtifactRow /\ row.status = "UPLOADED"
      <4>1. artifacts[c] \in ArtifactRow
        BY <1>0, <3>2 DEF ArtifactsTypeOK
      <4> HIDE DEF c
      <4> QED
        BY <4>1 DEF ArtifactRow
    <3>4. RowsAdvance
      <4> HIDE DEF row, c
      <4> QED
        BY <3>1, <3>2, <3>3, RowChanges
    <3>5. artifacts'[c].status = "UPLOADED"
      BY <1>0, <3>1, <3>2 DEF SetRow, ArtifactsTypeOK, ArtifactRow
    <3>6. GoodRequest(req[p])'
      BY <1>0, <3>1, <3>2, <3>5 DEF GoodRequest, RequestState, ArtifactsTypeOK
    <3> QED
      BY <3>1, <3>4, <3>6, RequestMoves
  <2>2. CASE ~(artifacts[c].status = "PENDING" /\ artifacts[c].uploader = Id[p])
    BY <1>7, <2>2, RequestOnly DEF MarkUploaded, Return
  <2> QED
    BY <2>1, <2>2
<1>8. CASE UploadDone(p)
  <2> DEFINE r == [req[p] EXCEPT !.pc = "number"]
  <2>1. CASE req[p].kind = "dataset"
    <3>1. GoodRequest(r)
      BY <1>0, <1>8, <2>1 DEF GoodRequest, RequestState, UploadDone, Kinds
    <3> QED
      BY <1>8, <2>1, <3>1, RequestOnly DEF UploadDone, Goto
  <2>2. CASE req[p].kind # "dataset"
    BY <1>8, <2>2, RequestOnly DEF UploadDone, Return
  <2> QED
    BY <2>1, <2>2
<1>9. CASE TakeNumber(p)
  <2>1. PICK n \in 1..(MaxVersions + 1) :
           req' = [req EXCEPT ![p] = [@ EXCEPT !.pc = "insert", !.number = n]]
    BY <1>9 DEF TakeNumber
  <2> DEFINE r == [req[p] EXCEPT !.pc = "insert", !.number = n]
  <2>2. n \in 0..(MaxVersions + 1)
    BY MaxVersionsIsNat
  <2>3. GoodRequest(r)
    BY <1>0, <1>9, <2>2 DEF GoodRequest, RequestState, TakeNumber
  <2> QED
    BY <1>9, <2>1, <2>3, RequestOnly DEF TakeNumber
<1>10. CASE RequestEnds(p)
  BY <1>10, RequestOnly DEF RequestEnds, Return
<1> QED
  BY <1>1, <1>2, <1>3, <1>4, <1>5, <1>6, <1>7, <1>8, <1>9, <1>10

\* The version a request inserts references the UPLOADED artifact it was given.
LEMMA InsertKeepsInv ==
    ASSUME ArtifactsInv, NEW p \in Requests, InsertVersion(p)
    PROVE  ArtifactsInv'
<1> DEFINE k == req[p].kind
           n == req[p].number
           c == req[p].content
<1>1. ArtifactsTypeOK /\ GoodRequest(req[p]) /\ VersionsAreUploaded
  BY InvByRequest
<1>2. k \in Kinds /\ n \in Numbers /\ c \in Contents /\ artifacts[c].status = "UPLOADED"
  BY <1>1 DEF GoodRequest, InsertVersion, Insertable
<1>3. /\ versions' = [versions EXCEPT ![k] = [@ EXCEPT ![n] = c]]
      /\ req' = [req EXCEPT ![p] = RequestIdle]
      /\ UNCHANGED <<artifacts, storage, rec>>
  BY DEF InsertVersion, Return
<1>4. RequestIdle \in RequestState
  BY IdleIsGood DEF GoodRequest
<1>5. ArtifactsTypeOK'
  <2>1. versions' \in [Kinds -> [Numbers -> Contents \cup {None}]]
    BY <1>1, <1>2, <1>3 DEF ArtifactsTypeOK
  <2> QED
    BY <1>1, <1>3, <1>4, <2>1 DEF ArtifactsTypeOK
<1>6. VersionsAreUploaded'
  <2> SUFFICES ASSUME NEW l \in Kinds, NEW m \in Numbers, versions'[l][m] # None
               PROVE  artifacts[versions'[l][m]].status = "UPLOADED"
    BY <1>3 DEF VersionsAreUploaded
  <2>1. versions'[l][m] = versions[l][m] \/ versions'[l][m] = c
    BY <1>1, <1>2, <1>3 DEF ArtifactsTypeOK
  <2> QED
    BY <1>1, <1>2, <2>1 DEF VersionsAreUploaded
<1>7. KnownContent' /\ VerifiedIsStored' /\ HandedOutIsUploaded' /\ UploadedIsStored'
  BY <1>1, <1>3, <1>4
     DEF ArtifactsInv, ArtifactsTypeOK, KnownContent, VerifiedIsStored,
         HandedOutIsUploaded, UploadedIsStored, RequestIdle
<1> QED
  BY <1>5, <1>6, <1>7 DEF ArtifactsInv

\* A step that advances the rows and leaves requests and versions alone.
LEMMA BackgroundMoves ==
    ASSUME ArtifactsInv, RowsAdvance, UNCHANGED <<versions, req>>,
           rec' \in ReconcilerState, rec'.found => rec'.at \in storage'
    PROVE  ArtifactsInv'
<1>1. ArtifactsTypeOK'
  BY DEF ArtifactsInv, ArtifactsTypeOK, RowsAdvance
<1>2. KnownContent' /\ VerifiedIsStored' /\ HandedOutIsUploaded'
  BY DEF ArtifactsInv, ArtifactsTypeOK, RequestState, RowsAdvance, KnownContent,
         VerifiedIsStored, HandedOutIsUploaded
<1>3. UploadedIsStored' /\ VersionsAreUploaded'
  BY DEF ArtifactsInv, ArtifactsTypeOK, RowsAdvance, UploadedIsStored, VersionsAreUploaded
<1> QED
  BY <1>1, <1>2, <1>3 DEF ArtifactsInv

\* The Reconciler flips to UPLOADED only what it found in storage.
LEMMA ReconcilerKeepsInv ==
    ASSUME ArtifactsInv, ReconcilerStep \/ ReconcilerEnds
    PROVE  ArtifactsInv'
<1>0. ArtifactsTypeOK /\ rec \in ReconcilerState /\ VerifiedIsStored
  BY DEF ArtifactsInv, ArtifactsTypeOK
<1>1. CASE ListReconcilable
  <2>1. rec' \in ReconcilerState /\ rec'.found = rec.found /\ rec'.at = rec.at
    BY <1>0, <1>1 DEF ListReconcilable, list_reconcilable, ReconcilerState
  <2> QED
    BY <1>0, <1>1, <2>1, RowsStay, BackgroundMoves DEF ListReconcilable, VerifiedIsStored
<1>2. ASSUME NEW c \in Contents, CheckObject(c)
      PROVE  ArtifactsInv'
  <2>1. PICK found \in BOOLEAN :
           /\ found => c \in storage
           /\ rec' = [todo |-> rec.todo \ {c}, at |-> c, found |-> found]
    BY <1>2 DEF CheckObject
  <2>2. rec' \in ReconcilerState
    BY <1>0, <2>1 DEF ReconcilerState
  <2>3. rec'.found => rec'.at \in storage'
    BY <1>2, <2>1 DEF CheckObject
  <2> QED
    BY <1>2, <2>2, <2>3, RowsStay, BackgroundMoves DEF CheckObject
<1>3. CASE Reconcile
  <2> DEFINE c == rec.at
             row == Reconciled(artifacts[c])
  <2>1. c \in Contents
    BY <1>0, <1>3 DEF Reconcile, ReconcilerState
  <2>2. row \in ArtifactRow
    <3>1. artifacts[c] \in ArtifactRow
      BY <1>0, <2>1 DEF ArtifactsTypeOK
    <3> HIDE DEF c
    <3> QED
      BY ONLY <3>1 DEF ArtifactRow, Reconciled, Verdict
  <2>3. artifacts[c].status = "UPLOADED" => row.status = "UPLOADED"
    BY DEF Reconciled
  <2>4. row.status = "UPLOADED" => c \in storage
    BY <1>0, <2>1
       DEF Reconciled, Verdict, VerifiedIsStored, ArtifactsInv, UploadedIsStored,
           ArtifactsTypeOK, ArtifactRow
  <2>5. RowsAdvance
    BY <1>3, <2>1, <2>2, <2>3, <2>4, RowChanges DEF Reconcile
  <2>6. rec' \in ReconcilerState /\ ~rec'.found
    BY <1>0, <1>3 DEF Reconcile, ReconcilerState
  <2> QED
    BY <1>3, <2>5, <2>6, BackgroundMoves DEF Reconcile
<1>4. CASE ReconcilerEnds
  <2>1. rec' \in ReconcilerState /\ ~rec'.found
    BY <1>4 DEF ReconcilerEnds, ReconcilerIdle, ReconcilerState
  <2> QED
    BY <1>4, <2>1, RowsStay, BackgroundMoves DEF ReconcilerEnds
<1> QED
  BY <1>1, <1>2, <1>3, <1>4 DEF ReconcilerStep

\* Time changes no status.
LEMMA ClockKeepsInv ==
    ASSUME ArtifactsInv, NEW c \in Contents, UploadLeaseExpires(c) \/ GracePasses(c)
    PROVE  ArtifactsInv'
<1>1. PICK row :
         /\ row \in ArtifactRow /\ row.status = artifacts[c].status
         /\ SetRow(c, row) /\ UNCHANGED <<storage, versions, req, rec>>
  <2> DEFINE lapsed == [artifacts[c] EXCEPT !.lease = "expired"]
             aged == [artifacts[c] EXCEPT !.aged = TRUE]
  <2>1. lapsed \in ArtifactRow /\ lapsed.status = artifacts[c].status
    BY DEF ArtifactsInv, ArtifactsTypeOK, ArtifactRow
  <2>2. aged \in ArtifactRow /\ aged.status = artifacts[c].status
    BY DEF ArtifactsInv, ArtifactsTypeOK, ArtifactRow
  <2> QED
    BY <2>1, <2>2 DEF UploadLeaseExpires, GracePasses
<1>2. RowsAdvance
  BY <1>1, RowChanges DEF ArtifactsInv, UploadedIsStored
<1> QED
  BY <1>1, <1>2, BackgroundMoves DEF ArtifactsInv, ArtifactsTypeOK, VerifiedIsStored

\* Every step keeps the invariant.
LEMMA NextKeepsInv ==
    ASSUME ArtifactsInv, [ArtifactsNext]_avars
    PROVE  ArtifactsInv'
<1>1. CASE UNCHANGED avars
  BY <1>1, RowsStay, BackgroundMoves DEF avars, ArtifactsInv, ArtifactsTypeOK, VerifiedIsStored
<1>2. ASSUME NEW p \in Requests, UploadStep(p) \/ RequestEnds(p)
      PROVE  ArtifactsInv'
  BY <1>2, UploadKeepsInv, InsertKeepsInv DEF UploadStep
<1>3. CASE ArtifactClock
  BY <1>3, ClockKeepsInv DEF ArtifactClock
<1> QED
  BY <1>1, <1>2, <1>3, ReconcilerKeepsInv DEF ArtifactsNext

\* The inductive invariant of the artifact protocol holds for any number of
\* contents, concurrent requests and versions.
THEOREM ArtifactsInvariant == ArtifactsSpec => []ArtifactsInv
BY InitHolds, NextKeepsInv, PTL DEF ArtifactsSpec

\* An UPLOADED row has its bytes in storage, whoever flipped it.
THEOREM UploadedHasBytes == ArtifactsSpec => []UploadedIsStored
<1>1. ArtifactsInv => UploadedIsStored
  BY DEF ArtifactsInv
<1> QED
  BY <1>1, ArtifactsInvariant, PTL

\* A dataset or model version references an UPLOADED artifact, although the
\* status was read in an earlier transaction (the hard invariant of
\* ARTIFACT_LIFECYCLE_V0.5.md).
THEOREM VersionsReferenceUploaded == ArtifactsSpec => []VersionsAreUploaded
<1>1. ArtifactsInv => VersionsAreUploaded
  BY DEF ArtifactsInv
<1> QED
  BY <1>1, ArtifactsInvariant, PTL
-----------------------------------------------------------------------------
(* Decisions are final. *)

\* A step that rewrites the row of c, which was undecided or keeps its status.
LEMMA RowKeepsDecision ==
    ASSUME ArtifactsTypeOK, NEW c \in Contents, NEW row, SetRow(c, row), UNCHANGED versions,
           artifacts[c].status \notin {"UPLOADED", "FAILED"} \/ row.status = artifacts[c].status
    PROVE  StaysDecided
BY DEF ArtifactsTypeOK, SetRow, StaysDecided

\* No step of an upload or of a version request overturns what was decided.
LEMMA RequestKeepsDecisions ==
    ASSUME ArtifactsInv, NEW p \in Requests, UploadStep(p) \/ RequestEnds(p)
    PROVE  StaysDecided
<1>0. ArtifactsTypeOK /\ GoodRequest(req[p])
  BY InvByRequest
<1> DEFINE c == req[p].content
<1>1. CASE UNCHANGED <<artifacts, versions>>
  BY <1>1 DEF StaysDecided
<1>2. CASE CreatePending(p) /\ artifacts[c].status = "NONE"
  BY <1>0, <1>2, RowKeepsDecision DEF CreatePending, GoodRequest
<1>3. CASE ClaimUploadLease(p) /\ LeaseIsFree(c)
  BY <1>0, <1>3, RowKeepsDecision DEF ClaimUploadLease, GoodRequest, LeaseIsFree
<1>4. CASE MarkUploaded(p) /\ artifacts[c].status = "PENDING"
  <2>1. CASE UNCHANGED artifacts
    BY <1>4, <2>1 DEF StaysDecided, MarkUploaded
  <2>2. CASE ~UNCHANGED artifacts
    <3>1. SetRow(c, [artifacts[c] EXCEPT !.status = "UPLOADED", !.lease = "none"])
      BY <1>4, <2>2 DEF MarkUploaded
    <3> QED
      BY <1>0, <1>4, <3>1, RowKeepsDecision DEF MarkUploaded, GoodRequest
  <2> QED
    BY <2>1, <2>2
<1>5. CASE InsertVersion(p)
  <2>1. /\ req[p].kind \in Kinds
        /\ req[p].number \in Numbers
        /\ versions[req[p].kind][req[p].number] = None
    BY <1>0, <1>5 DEF InsertVersion, Insertable, GoodRequest
  <2> QED
    BY <1>0, <1>5, <2>1 DEF InsertVersion, ArtifactsTypeOK, StaysDecided
<1> QED
  BY <1>1, <1>2, <1>3, <1>4, <1>5
     DEF UploadStep, RequestEnds, Lookup, CheckModel, CreatePending, ClaimUploadLease,
         PutObject, VerifyObject, MarkUploaded, UploadDone, TakeNumber

\* Nor does the Reconciler, its crash, or the clock: every step is StaysDecided.
LEMMA NextKeepsDecisions ==
    ASSUME ArtifactsInv, [ArtifactsNext]_avars
    PROVE  [StaysDecided]_avars
<1>0. ArtifactsTypeOK
  BY DEF ArtifactsInv
<1>1. CASE Reconcile
  <2>1. rec.at \in Contents
    BY <1>0, <1>1 DEF Reconcile, ArtifactsTypeOK, ReconcilerState
  <2>2. \/ artifacts[rec.at].status = "PENDING"
        \/ Reconciled(artifacts[rec.at]).status = artifacts[rec.at].status
    BY DEF Reconciled
  <2> QED
    BY <1>0, <1>1, <2>1, <2>2, RowKeepsDecision DEF Reconcile
<1>2. CASE ReconcilerEnds \/ ListReconcilable \/ \E c \in Contents : CheckObject(c)
  BY <1>2 DEF ReconcilerEnds, ListReconcilable, CheckObject, StaysDecided
<1>3. ASSUME NEW c \in Contents, UploadLeaseExpires(c) \/ GracePasses(c)
      PROVE  StaysDecided
  <2>1. /\ [artifacts[c] EXCEPT !.lease = "expired"].status = artifacts[c].status
        /\ [artifacts[c] EXCEPT !.aged = TRUE].status = artifacts[c].status
    BY <1>0 DEF ArtifactsTypeOK, ArtifactRow
  <2> QED
    BY <1>0, <1>3, <2>1, RowKeepsDecision DEF UploadLeaseExpires, GracePasses
<1> QED
  BY <1>1, <1>2, <1>3, RequestKeepsDecisions DEF ArtifactsNext, ReconcilerStep, ArtifactClock

\* No step takes back an UPLOADED or FAILED row, or rewrites a version.
THEOREM DecisionsAreFinal == ArtifactsSpec => DecidedOnce
BY ArtifactsInvariant, NextKeepsDecisions, PTL DEF ArtifactsSpec, DecidedOnce

-----------------------------------------------------------------------------
(* The registry: the numbers of the versions, and the refinement. *)

\* A row, once there, stays, and so does a version.
RowsRemain ==
    \A c \in Contents : artifacts[c].status # "NONE" => artifacts'[c].status # "NONE"

\* What RequestsFollowRows says of one request.
Follows(r) ==
    /\ r.pc = "put" => artifacts[r.content].status # "NONE"
    /\ r.pc = "insert" => \A m \in Numbers : m < r.number => versions[r.kind][m] # None

LEMMA FollowByRequest ==
    RequestsFollowRows <=> \A p \in Requests : Follows(req[p])
BY DEF RequestsFollowRows, Follows

\* What a request follows is not taken from it.
LEMMA StillFollows ==
    ASSUME ArtifactsInv, RowsRemain, StaysDecided, NEW p \in Requests, Follows(req[p]),
           UNCHANGED req
    PROVE  Follows(req[p])'
<1>1. GoodRequest(req[p])
  BY InvByRequest
<1> QED
  BY <1>1 DEF Follows, GoodRequest, RowsRemain, StaysDecided

\* A step of p alone: the others still follow, and p does by what it has just done.
LEMMA OneRequestMoves ==
    ASSUME ArtifactsInv, RowsRemain, StaysDecided, RequestsFollowRows,
           NEW p \in Requests, NEW r, req' = [req EXCEPT ![p] = r], Follows(req[p])'
    PROVE  RequestsFollowRows'
<1>1. \A q \in Requests : Follows(req[q])'
  <2> SUFFICES ASSUME NEW q \in Requests PROVE Follows(req[q])'
    OBVIOUS
  <2>1. CASE q = p
    BY <2>1
  <2>2. CASE q # p
    <3>1. req'[q] = req[q]
      BY <2>2 DEF ArtifactsInv, ArtifactsTypeOK
    <3>2. GoodRequest(req[q]) /\ Follows(req[q])
      BY InvByRequest, FollowByRequest
    <3> QED
      BY <3>1, <3>2 DEF Follows, GoodRequest, RowsRemain, StaysDecided
  <2> QED
    BY <2>1, <2>2
<1> QED
  BY <1>1 DEF RequestsFollowRows, Follows

\* No step makes a row absent again.
LEMMA NextKeepsRows ==
    ASSUME ArtifactsInv, [ArtifactsNext]_avars
    PROVE  RowsRemain
<1>0. ArtifactsTypeOK
  BY DEF ArtifactsInv
<1>1. CASE UNCHANGED artifacts
  BY <1>1 DEF RowsRemain
<1>2. ASSUME NEW c \in Contents, NEW row, SetRow(c, row),
             artifacts[c].status # "NONE" => row.status # "NONE"
      PROVE  RowsRemain
  BY <1>0, <1>2 DEF SetRow, RowsRemain, ArtifactsTypeOK
<1>3. ASSUME NEW p \in Requests, CreatePending(p) \/ ClaimUploadLease(p) \/ MarkUploaded(p)
      PROVE  RowsRemain
  <2>1. req[p].content \in Contents
    BY <1>3 DEF ArtifactsInv, KnownContent, CreatePending, ClaimUploadLease, MarkUploaded
  <2>2. artifacts[req[p].content] \in ArtifactRow
    BY <1>0, <2>1 DEF ArtifactsTypeOK
  <2> QED
    BY <1>1, <1>2, <1>3, <2>1, <2>2
       DEF CreatePending, ClaimUploadLease, MarkUploaded, LeaseIsFree, ArtifactRow
<1>4. CASE Reconcile
  <2>1. rec.at \in Contents
    BY <1>0, <1>4 DEF Reconcile, ArtifactsTypeOK, ReconcilerState
  <2>2. artifacts[rec.at].status # "NONE" => Reconciled(artifacts[rec.at]).status # "NONE"
    BY <1>0, <2>1 DEF Reconciled, Verdict, ArtifactsTypeOK, ArtifactRow
  <2> QED
    BY <1>2, <1>4, <2>1, <2>2 DEF Reconcile
<1>5. ASSUME NEW c \in Contents, UploadLeaseExpires(c) \/ GracePasses(c)
      PROVE  RowsRemain
  <2>1. /\ [artifacts[c] EXCEPT !.lease = "expired"].status = artifacts[c].status
        /\ [artifacts[c] EXCEPT !.aged = TRUE].status = artifacts[c].status
    BY <1>0 DEF ArtifactsTypeOK, ArtifactRow
  <2> QED
    BY <1>2, <1>5, <2>1 DEF UploadLeaseExpires, GracePasses
<1> QED
  BY <1>1, <1>3, <1>4, <1>5
     DEF ArtifactsNext, UploadStep, RequestEnds, Lookup, CheckModel, PutObject, VerifyObject,
         UploadDone, TakeNumber, InsertVersion, ReconcilerStep, ListReconcilable, CheckObject,
         ReconcilerEnds, ArtifactClock, avars

\* A number that max + 1 gives has every number below it given.
LEMMA NextHasAllBelow ==
    ASSUME NumbersAreDense, NEW k \in Kinds, NEW n \in 1..(MaxVersions + 1),
           next_version_number(k, n)
    PROVE  \A m \in Numbers : m < n => versions[k][m] # None
<1> SUFFICES ASSUME NEW m \in Numbers, m < n PROVE versions[k][m] # None
  OBVIOUS
<1>1. n - 1 \in Numbers /\ n > 1 /\ (m = n - 1 \/ m < n - 1)
  BY MaxVersionsIsNat DEF Numbers
<1> QED
  BY <1>1 DEF next_version_number, NumbersAreDense

\* Every step leaves the requests following the rows.
LEMMA NextKeepsFollowing ==
    ASSUME RegistryInv, [ArtifactsNext]_avars
    PROVE  RequestsFollowRows'
<1>0. /\ ArtifactsInv /\ ArtifactsTypeOK /\ NumbersAreDense /\ RequestsFollowRows
      /\ RowsRemain /\ StaysDecided
  <2>1. ArtifactsInv /\ ArtifactsTypeOK /\ NumbersAreDense /\ RequestsFollowRows
    BY DEF RegistryInv, ArtifactsInv
  <2>2. StaysDecided \/ UNCHANGED avars
    BY <2>1, NextKeepsDecisions
  <2>3. StaysDecided
    BY <2>2 DEF StaysDecided, avars
  <2> QED
    BY <2>1, <2>3, NextKeepsRows
<1>1. CASE UNCHANGED req
  <2>1. \A p \in Requests : Follows(req[p])'
    BY <1>0, <1>1, StillFollows, FollowByRequest
  <2> QED
    BY <2>1 DEF RequestsFollowRows, Follows
<1>2. ASSUME NEW p \in Requests, NEW r, req' = [req EXCEPT ![p] = r],
             r.pc \notin {"put", "insert"}
      PROVE  RequestsFollowRows'
  <2>1. req'[p] = r
    BY <1>0, <1>2 DEF ArtifactsTypeOK
  <2>2. Follows(req[p])'
    BY <1>2, <2>1 DEF Follows
  <2> QED
    BY <1>0, <1>2, <2>2, OneRequestMoves
<1>3. ASSUME NEW p \in Requests, Return(p)
      PROVE  RequestsFollowRows'
  BY <1>2, <1>3 DEF Return, RequestIdle
<1>4. ASSUME NEW p \in Requests, NEW pc \in {"claim", "verify", "mark", "done", "number"},
             Goto(p, pc)
      PROVE  RequestsFollowRows'
  <2>1. [req[p] EXCEPT !.pc = pc].pc = pc
    BY <1>0 DEF ArtifactsTypeOK, RequestState
  <2> QED
    BY <1>2, <1>4, <2>1 DEF Goto
<1>5. ASSUME NEW p \in Requests, NEW c \in Contents, NEW k, Lookup(p, c, k) \/ CheckModel(p, c)
      PROVE  RequestsFollowRows'
  <2>1. CASE CheckModel(p, c)
    <3>1. [req[p] EXCEPT !.pc = "number", !.kind = "model", !.content = c].pc = "number"
      BY <1>0 DEF ArtifactsTypeOK, RequestState
    <3> QED
      BY <1>2, <2>1, <3>1 DEF CheckModel
  <2>2. CASE Lookup(p, c, k)
    <3> DEFINE e(pc) == [req[p] EXCEPT !.kind = k, !.content = c, !.pc = pc]
    <3>1. \A pc : e(pc).pc = pc
      BY <1>0 DEF ArtifactsTypeOK, RequestState
    <3>2. PICK pc \in {"done", "create", "claim"} : req' = [req EXCEPT ![p] = e(pc)]
      BY <2>2 DEF Lookup
    <3> HIDE DEF e
    <3> QED
      BY <1>2, <3>1, <3>2
  <2> QED
    BY <1>5, <2>1, <2>2
<1>6. ASSUME NEW p \in Requests, ClaimUploadLease(p)
      PROVE  RequestsFollowRows'
  <2> DEFINE c == req[p].content
  <2>1. CASE LeaseIsFree(c)
    <3>1. c \in Contents
      BY <1>0, <1>6 DEF ArtifactsInv, KnownContent, ClaimUploadLease
    <3>2. artifacts'[c].status = "PENDING"
      <4> DEFINE row == [artifacts[c] EXCEPT !.uploader = Id[p], !.lease = "live"]
      <4>1. row.status = artifacts[c].status /\ artifacts[c].status = "PENDING"
        BY <1>0, <2>1, <3>1 DEF LeaseIsFree, ArtifactsTypeOK, ArtifactRow
      <4>2. artifacts' = [artifacts EXCEPT ![c] = row]
        BY <1>6, <2>1 DEF ClaimUploadLease, SetRow
      <4> HIDE DEF row
      <4> QED
        BY <1>0, <3>1, <4>1, <4>2 DEF ArtifactsTypeOK
    <3>3. req' = [req EXCEPT ![p] = [req[p] EXCEPT !.pc = "put"]]
      BY <1>6, <2>1 DEF ClaimUploadLease, Goto
    <3>4. req'[p].pc = "put" /\ req'[p].content = c
      BY <1>0, <3>3 DEF ArtifactsTypeOK, RequestState
    <3>5. Follows(req[p])'
      BY <3>2, <3>4 DEF Follows
    <3> QED
      BY <1>0, <3>3, <3>5, OneRequestMoves
  <2>2. CASE ~LeaseIsFree(c)
    BY <1>3, <1>6, <2>2 DEF ClaimUploadLease
  <2> QED
    BY <2>1, <2>2
<1>7. ASSUME NEW p \in Requests, TakeNumber(p)
      PROVE  RequestsFollowRows'
  <2> DEFINE k == req[p].kind
  <2>1. PICK n \in 1..(MaxVersions + 1) :
           /\ next_version_number(k, n)
           /\ req' = [req EXCEPT ![p] = [req[p] EXCEPT !.pc = "insert", !.number = n]]
    BY <1>7 DEF TakeNumber
  <2>2. k \in Kinds
    BY <1>0, <1>7 DEF ArtifactsInv, KnownContent, TakeNumber
  <2>3. /\ req'[p].pc = "insert" /\ req'[p].kind = k /\ req'[p].number = n
        /\ versions' = versions
    BY <1>0, <1>7, <2>1 DEF ArtifactsTypeOK, RequestState, TakeNumber
  <2>4. \A m \in Numbers : m < n => versions[k][m] # None
    BY <1>0, <2>1, <2>2, NextHasAllBelow
  <2>5. Follows(req[p])'
    BY <2>3, <2>4 DEF Follows
  <2> QED
    BY <1>0, <2>1, <2>5, OneRequestMoves
<1>8. ASSUME NEW p \in Requests, UploadStep(p) \/ RequestEnds(p)
      PROVE  RequestsFollowRows'
  BY <1>1, <1>3, <1>4, <1>5, <1>6, <1>7, <1>8
     DEF UploadStep, RequestEnds, CreatePending, PutObject, VerifyObject, MarkUploaded,
         UploadDone, InsertVersion
<1> QED
  BY <1>1, <1>8
     DEF ArtifactsNext, ReconcilerStep, ListReconcilable, CheckObject, Reconcile,
         ReconcilerEnds, ArtifactClock, UploadLeaseExpires, GracePasses, avars

\* The primary key admits a number only if it is the next one.
LEMMA InsertedIsNext ==
    ASSUME RegistryInv, NEW p \in Requests, InsertVersion(p)
    PROVE  /\ req[p].kind \in Kinds /\ req[p].number \in Numbers /\ req[p].content \in Contents
           /\ artifacts[req[p].content].status = "UPLOADED"
           /\ versions[req[p].kind][req[p].number] = None
           /\ Registry!IsNext(req[p].kind, req[p].number)
<1> DEFINE k == req[p].kind
           n == req[p].number
<1>1. /\ k \in Kinds /\ n \in Numbers /\ req[p].content \in Contents
      /\ artifacts[req[p].content].status = "UPLOADED"
      /\ versions[k][n] = None
  BY DEF RegistryInv, ArtifactsInv, KnownContent, HandedOutIsUploaded, InsertVersion, Insertable
<1>2. \A m \in Numbers : m < n => versions[k][m] # None
  BY DEF RegistryInv, RequestsFollowRows, InsertVersion
<1>3. ASSUME NEW m \in Numbers, versions[k][m] # None
      PROVE  m < n
  <2>1. ~(n < m) /\ n # m
    BY <1>1, <1>3 DEF RegistryInv, NumbersAreDense
  <2> QED
    BY <1>1, <2>1, MaxVersionsIsNat DEF Numbers
<1> QED
  BY <1>1, <1>2, <1>3 DEF Registry!IsNext

\* Numbers stay dense.
LEMMA NextKeepsDense ==
    ASSUME RegistryInv, [ArtifactsNext]_avars
    PROVE  NumbersAreDense'
<1>1. CASE UNCHANGED versions
  BY <1>1 DEF RegistryInv, NumbersAreDense
<1>2. ASSUME NEW p \in Requests, InsertVersion(p)
      PROVE  NumbersAreDense'
  <2> DEFINE k == req[p].kind
             n == req[p].number
             c == req[p].content
  <2>1. k \in Kinds /\ n \in Numbers /\ c \in Contents /\ Registry!IsNext(k, n)
    BY <1>2, InsertedIsNext
  <2>2. versions' = [versions EXCEPT ![k] = [@ EXCEPT ![n] = c]]
    BY <1>2 DEF InsertVersion
  <2>3. versions \in [Kinds -> [Numbers -> Contents \cup {None}]]
    BY DEF RegistryInv, ArtifactsInv, ArtifactsTypeOK
  <2>4. ASSUME NEW l \in Kinds, NEW o \in Numbers, versions'[l][o] # None,
               NEW m \in Numbers, m < o
        PROVE  versions'[l][m] # None
    <3> HIDE DEF k, n, c
    <3>1. CASE l # k
      BY <2>1, <2>2, <2>3, <2>4, <3>1 DEF RegistryInv, NumbersAreDense
    <3>2. CASE l = k
      <4>1. /\ versions'[k][m] = IF m = n THEN c ELSE versions[k][m]
            /\ versions'[k][o] = IF o = n THEN c ELSE versions[k][o]
        BY <2>1, <2>2, <2>3
      <4>2. m < n \/ m = n
        BY <2>1, <2>4, <3>2, <4>1, MaxVersionsIsNat DEF Registry!IsNext, Numbers
      <4> QED
        BY <2>1, <3>2, <4>1, <4>2, NoneIsNoContent DEF Registry!IsNext
    <3> QED
      BY <3>1, <3>2
  <2> QED
    BY <2>4 DEF NumbersAreDense
<1> QED
  BY <1>1, <1>2
     DEF ArtifactsNext, UploadStep, RequestEnds, Lookup, CheckModel, CreatePending,
         ClaimUploadLease, PutObject, VerifyObject, MarkUploaded, UploadDone, TakeNumber,
         ReconcilerStep, ListReconcilable, CheckObject, Reconcile,
         ReconcilerEnds, ArtifactClock, UploadLeaseExpires, GracePasses, avars

\* The invariant of the refinement, for any number of contents, requests and versions.
LEMMA RegistryInvariant == ArtifactsSpec => []RegistryInv
<1>1. ArtifactsInit => RegistryInv
  BY InitHolds
     DEF ArtifactsInit, RegistryInv, NumbersAreDense, RequestsFollowRows, RequestIdle
<1>2. RegistryInv /\ [ArtifactsNext]_avars => RegistryInv'
  BY NextKeepsInv, NextKeepsFollowing, NextKeepsDense DEF RegistryInv
<1> QED
  BY <1>1, <1>2, PTL DEF ArtifactsSpec

\* The status of each content, as the registry sees the rows.
Statuses == [c \in Contents |-> artifacts[c].status]

\* A row that is rewritten shows in its own status only.
LEMMA StatusOfRow ==
    ASSUME ArtifactsTypeOK, NEW c \in Contents, NEW row, SetRow(c, row)
    PROVE  /\ Statuses[c] = artifacts[c].status
           /\ Statuses' = [Statuses EXCEPT ![c] = row.status]
BY DEF ArtifactsTypeOK, SetRow, Statuses

\* A rewritten row is a decision of the registry, or none.
LEMMA RowDecides ==
    ASSUME ArtifactsTypeOK, NEW c \in Contents, NEW row, SetRow(c, row),
           UNCHANGED <<storage, versions>>,
           \/ row.status = artifacts[c].status
           \/ artifacts[c].status = "NONE" /\ row.status = "PENDING"
           \/ artifacts[c].status = "PENDING" /\ row.status = "FAILED"
           \/ artifacts[c].status = "PENDING" /\ row.status = "UPLOADED" /\ c \in storage
    PROVE  [Registry!RegistryNext]_(Registry!registryVars)
<1>1. Statuses[c] = artifacts[c].status /\ Statuses' = [Statuses EXCEPT ![c] = row.status]
  BY StatusOfRow
<1>2. CASE row.status = artifacts[c].status
  <2>1. Statuses' = Statuses
    BY <1>1, <1>2 DEF Statuses
  <2> QED
    BY <2>1 DEF Registry!registryVars, Statuses
<1>3. CASE artifacts[c].status = "NONE" /\ row.status = "PENDING"
  BY <1>1, <1>3 DEF Registry!RegistryNext, Registry!Announce, Registry!Decide, Statuses
<1>4. CASE artifacts[c].status = "PENDING" /\ row.status = "FAILED"
  BY <1>1, <1>4 DEF Registry!RegistryNext, Registry!Reject, Registry!Decide, Statuses
<1>5. CASE artifacts[c].status = "PENDING" /\ row.status = "UPLOADED" /\ c \in storage
  BY <1>1, <1>5 DEF Registry!RegistryNext, Registry!Publish, Registry!Decide, Statuses
<1> QED
  BY <1>2, <1>3, <1>4, <1>5

\* Each step of a request, the Reconciler or the clock is one of the registry, or none.
LEMMA StepOfRegistry ==
    ASSUME RegistryInv, [ArtifactsNext]_avars
    PROVE  [Registry!RegistryNext]_(Registry!registryVars)
<1>0. ArtifactsInv /\ ArtifactsTypeOK
  BY DEF RegistryInv, ArtifactsInv
<1>1. CASE UNCHANGED <<artifacts, storage, versions>>
  BY <1>1 DEF Registry!registryVars
<1>2. ASSUME NEW p \in Requests, CreatePending(p) \/ ClaimUploadLease(p) \/ MarkUploaded(p)
      PROVE  [Registry!RegistryNext]_(Registry!registryVars)
  <2> DEFINE c == req[p].content
  <2>1. c \in Contents /\ UNCHANGED <<storage, versions>>
    BY <1>0, <1>2 DEF ArtifactsInv, KnownContent, CreatePending, ClaimUploadLease, MarkUploaded
  <2>2. artifacts[c] \in ArtifactRow
    BY <1>0, <2>1 DEF ArtifactsTypeOK
  <2>3. CASE CreatePending(p) /\ artifacts[c].status = "NONE"
    BY <1>0, <2>1, <2>2, <2>3, RowDecides DEF CreatePending, ArtifactRow
  <2>4. CASE ClaimUploadLease(p) /\ LeaseIsFree(c)
    BY <1>0, <2>1, <2>2, <2>4, RowDecides DEF ClaimUploadLease, ArtifactRow
  <2>5. CASE MarkUploaded(p) /\ artifacts[c].status = "PENDING"
                             /\ artifacts[c].uploader = Id[p]
    <3>1. c \in storage
      BY <1>0, <2>5 DEF ArtifactsInv, VerifiedIsStored, MarkUploaded
    <3> QED
      BY <1>0, <2>1, <2>2, <2>5, <3>1, RowDecides DEF MarkUploaded, ArtifactRow
  <2> QED
    BY <1>1, <1>2, <2>1, <2>3, <2>4, <2>5 DEF CreatePending, ClaimUploadLease, MarkUploaded
<1>3. ASSUME NEW p \in Requests, PutObject(p)
      PROVE  [Registry!RegistryNext]_(Registry!registryVars)
  <2> DEFINE c == req[p].content
  <2>1. c \in Contents /\ artifacts[c].status # "NONE"
    BY <1>0, <1>3 DEF ArtifactsInv, KnownContent, RegistryInv, RequestsFollowRows, PutObject
  <2>2. Registry!Arrive(c)
    BY <1>3, <2>1 DEF Registry!Arrive, PutObject
  <2> QED
    BY <2>1, <2>2 DEF Registry!RegistryNext
<1>4. ASSUME NEW p \in Requests, InsertVersion(p)
      PROVE  [Registry!RegistryNext]_(Registry!registryVars)
  <2> DEFINE k == req[p].kind
             n == req[p].number
             c == req[p].content
  <2>1. /\ k \in Kinds /\ n \in Numbers /\ c \in Contents
        /\ artifacts[c].status = "UPLOADED" /\ Registry!IsNext(k, n)
    BY <1>4, InsertedIsNext
  <2>2. Registry!AddVersion(k, n, c)
    BY <1>4, <2>1 DEF Registry!AddVersion, InsertVersion, Insertable, Registered
  <2> QED
    BY <2>1, <2>2 DEF Registry!RegistryNext
<1>5. CASE Reconcile
  <2> DEFINE c == rec.at
             row == Reconciled(artifacts[c])
  <2>1. c \in Contents /\ SetRow(c, row) /\ UNCHANGED <<storage, versions>>
    BY <1>0, <1>5 DEF ArtifactsTypeOK, ReconcilerState, Reconcile
  <2>2. artifacts[c] \in ArtifactRow
    BY <1>0, <2>1 DEF ArtifactsTypeOK
  <2>3. \/ row.status = artifacts[c].status
        \/ artifacts[c].status = "PENDING" /\ row.status = "FAILED"
        \/ artifacts[c].status = "PENDING" /\ row.status = "UPLOADED" /\ c \in storage
    BY <1>0, <2>2 DEF Reconciled, Verdict, ArtifactsInv, VerifiedIsStored, ArtifactRow
  <2> HIDE DEF row, c
  <2> QED
    BY <1>0, <2>1, <2>3, RowDecides
<1>6. ASSUME NEW c \in Contents, UploadLeaseExpires(c) \/ GracePasses(c)
      PROVE  [Registry!RegistryNext]_(Registry!registryVars)
  <2>1. /\ [artifacts[c] EXCEPT !.lease = "expired"].status = artifacts[c].status
        /\ [artifacts[c] EXCEPT !.aged = TRUE].status = artifacts[c].status
    BY <1>0 DEF ArtifactsTypeOK, ArtifactRow
  <2> QED
    BY <1>0, <1>6, <2>1, RowDecides DEF UploadLeaseExpires, GracePasses
<1> QED
  BY <1>1, <1>2, <1>3, <1>4, <1>5, <1>6
     DEF ArtifactsNext, UploadStep, RequestEnds, Lookup, CheckModel, VerifyObject, UploadDone,
         TakeNumber, ReconcilerStep, ListReconcilable, CheckObject, ReconcilerEnds,
         ArtifactClock, avars

\* Rows, objects and versions live as ArtifactRegistry says, for any number of contents,
\* uploads and versions, under any lapse of a lease and any crash (upload_artifact,
\* run_once of the Reconciler, create_version).
THEOREM ArtifactsImplementRegistry == ArtifactsSpec => ImplementsRegistry
<1>1. ArtifactsInit => Registry!RegistryInit
  BY DEF ArtifactsInit, Registry!RegistryInit
<1>2. RegistryInv /\ [ArtifactsNext]_avars => [Registry!RegistryNext]_(Registry!registryVars)
  BY StepOfRegistry
<1> QED
  BY <1>1, <1>2, RegistryInvariant, PTL
     DEF ArtifactsSpec, ImplementsRegistry, Registry!RegistrySpec
=============================================================================
