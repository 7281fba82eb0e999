------------------------------- MODULE Artifacts -------------------------------
(***************************************************************************)
(* Content-addressed artifacts: the upload flow of app/services/artifacts.py*)
(* with its upload lease, the Reconciler that decides abandoned uploads,    *)
(* and the dataset and model versions that reference an artifact.  The     *)
(* database row and the object in storage are written by different steps.  *)
(***************************************************************************)
EXTENDS Integers

CONSTANTS
    None,
    Contents,       \* contents uploaded, one per content hash (and storage key)
    Requests,       \* API requests and executor uploads in progress
    Id,             \* uploader_id of each request; "api" for all of the API's
    MaxVersions     \* bound: versions of the dataset and of the model

ASSUME NoneIsNoContent == None \notin Contents
ASSUME MaxVersionsIsNat == MaxVersions \in Nat

Kinds == {"dataset", "model"}       \* one dataset and one model
Numbers == 1..MaxVersions
Ids == {Id[p] : p \in Requests}

VARIABLES
    artifacts,      \* the artifacts row of each content hash
    storage,        \* contents whose object exists
    versions,       \* dataset_versions and model_versions: number -> artifact
    req,            \* what each request holds
    rec             \* what the Reconciler's pass holds

avars == <<artifacts, storage, versions, req, rec>>

ArtifactRow ==
    [status : {"NONE", "PENDING", "UPLOADED", "FAILED"},
     uploader : Ids \cup {None},
     lease : {"none", "live", "expired"},   \* upload_lease_expires_at against now
     aged : BOOLEAN]                        \* created_at is past the grace period

RequestState ==
    [pc : {"idle", "create", "claim", "put", "verify", "mark", "done", "number", "insert"},
     kind : Kinds \cup {None}, content : Contents \cup {None}, number : 0..(MaxVersions + 1)]

RequestIdle == [pc |-> "idle", kind |-> None, content |-> None, number |-> 0]

ReconcilerState ==
    [todo : SUBSET Contents, at : Contents \cup {None}, found : BOOLEAN]

ReconcilerIdle == [todo |-> {}, at |-> None, found |-> FALSE]

ArtifactsInit ==
    /\ artifacts = [c \in Contents |->
          [status |-> "NONE", uploader |-> None, lease |-> "none", aged |-> FALSE]]
    /\ storage = {}
    /\ versions = [k \in Kinds |-> [n \in Numbers |-> None]]
    /\ req = [p \in Requests |-> RequestIdle]
    /\ rec = ReconcilerIdle

Goto(p, pc) == req' = [req EXCEPT ![p] = [@ EXCEPT !.pc = pc]]
Return(p) == req' = [req EXCEPT ![p] = RequestIdle]
SetRow(c, row) == artifacts' = [artifacts EXCEPT ![c] = row]

-----------------------------------------------------------------------------
(* upload_artifact, for a plain upload (kind None) or a dataset version *)

\* Mutant of Reusable: an existing row is returned whatever its status.
Reusable_AnyRow(c) == artifacts[c].status # "NONE"

Reusable(c) == artifacts[c].status = "UPLOADED"

\* get_by_hash: an UPLOADED row is returned as it is, another one is taken over.
Lookup(p, c, k) ==
    /\ req[p].pc = "idle"
    /\ k # "model"
    /\ req' = [req EXCEPT ![p] =
                 [@ EXCEPT !.kind = k, !.content = c,
                           !.pc = IF Reusable(c) THEN "done"
                                  ELSE IF artifacts[c].status = "NONE" THEN "create"
                                  ELSE "claim"]]
    /\ UNCHANGED <<artifacts, storage, versions, rec>>

\* create_pending; a second row for the hash breaks the unique index and raises.
CreatePending(p) ==
    LET c == req[p].content IN
    /\ req[p].pc = "create"
    /\ IF artifacts[c].status = "NONE"
       THEN SetRow(c, [artifacts[c] EXCEPT !.status = "PENDING"]) /\ Goto(p, "claim")
       ELSE Return(p) /\ UNCHANGED artifacts
    /\ UNCHANGED <<storage, versions, rec>>

LeaseIsFree(c) == artifacts[c].status = "PENDING" /\ artifacts[c].lease # "live"

\* claim_upload_lease, or 409 when another upload holds it or the row is decided.
ClaimUploadLease(p) ==
    LET c == req[p].content IN
    /\ req[p].pc = "claim"
    /\ IF LeaseIsFree(c)
       THEN /\ SetRow(c, [artifacts[c] EXCEPT !.uploader = Id[p], !.lease = "live"])
            /\ Goto(p, "put")
       ELSE Return(p) /\ UNCHANGED artifacts
    /\ UNCHANGED <<storage, versions, rec>>

\* storage.upload: put_object writes the whole object or raises.
PutObject(p) ==
    /\ req[p].pc = "put"
    /\ storage' = storage \cup {req[p].content}
    /\ Goto(p, "verify")
    /\ UNCHANGED <<artifacts, versions, rec>>

\* object_exists_with_hash before the flip; a failed check (502) is RequestEnds.
VerifyObject(p) ==
    /\ req[p].pc = "verify"
    /\ req[p].content \in storage
    /\ Goto(p, "mark")
    /\ UNCHANGED <<artifacts, storage, versions, rec>>

\* mark_uploaded, fenced by uploader_id alone; 409 when it matches no row.
MarkUploaded(p) ==
    LET c == req[p].content IN
    /\ req[p].pc = "mark"
    /\ IF artifacts[c].status = "PENDING" /\ artifacts[c].uploader = Id[p]
       THEN /\ SetRow(c, [artifacts[c] EXCEPT !.status = "UPLOADED", !.lease = "none"])
            /\ Goto(p, "done")
       ELSE Return(p) /\ UNCHANGED artifacts
    /\ UNCHANGED <<storage, versions, rec>>

\* The request raises, or its process dies, between any two steps.
RequestEnds(p) ==
    /\ req[p].pc # "idle"
    /\ Return(p)
    /\ UNCHANGED <<artifacts, storage, versions, rec>>

-----------------------------------------------------------------------------
(* Versions *)

Registered(c) == \E n \in Numbers : versions["model"][n] = c

\* Mutant of Registrable: the status of the artifact is not looked at again.
Registrable_AnyStatus(c) == artifacts[c].status # "NONE" /\ ~Registered(c)

Registrable(c) == artifacts[c].status = "UPLOADED" /\ ~Registered(c)

\* register_version's two checks on the artifact it was given.
CheckModel(p, c) ==
    /\ req[p].pc = "idle"
    /\ Registrable(c)
    /\ req' = [req EXCEPT ![p] =
                 [@ EXCEPT !.pc = "number", !.kind = "model", !.content = c]]
    /\ UNCHANGED <<artifacts, storage, versions, rec>>

\* create_dataset_version got its UPLOADED artifact.
UploadDone(p) ==
    /\ req[p].pc = "done"
    /\ IF req[p].kind = "dataset" THEN Goto(p, "number") ELSE Return(p)
    /\ UNCHANGED <<artifacts, storage, versions, rec>>

\* Mutant of next_version_number: max is not filtered by the dataset or the model.
next_version_number_AnyKind(k, n) ==
    /\ \A l \in Kinds, m \in Numbers : versions[l][m] # None => m < n
    /\ n > 1 => \E l \in Kinds : versions[l][n - 1] # None

\* next_version_number: n is max + 1.
next_version_number(k, n) ==
    /\ \A m \in Numbers : versions[k][m] # None => m < n
    /\ n > 1 => versions[k][n - 1] # None

\* The number is read in a query of its own, before the insert.
TakeNumber(p) ==
    /\ req[p].pc = "number"
    /\ \E n \in 1..(MaxVersions + 1) :
          /\ next_version_number(req[p].kind, n)
          /\ req' = [req EXCEPT ![p] = [@ EXCEPT !.pc = "insert", !.number = n]]
    /\ UNCHANGED <<artifacts, storage, versions, rec>>

\* The primary key (and, for models, the unique artifact_id) admits the row.
Insertable(k, n, c) ==
    n \in Numbers /\ versions[k][n] = None /\ (k = "model" => ~Registered(c))

\* create_version; a conflict raises (RequestEnds).
InsertVersion(p) ==
    LET k == req[p].kind
        n == req[p].number
    IN
    /\ req[p].pc = "insert"
    /\ Insertable(k, n, req[p].content)
    /\ versions' = [versions EXCEPT ![k] = [@ EXCEPT ![n] = req[p].content]]
    /\ Return(p)
    /\ UNCHANGED <<artifacts, storage, rec>>

-----------------------------------------------------------------------------
(* The Reconciler *)

\* Mutant of list_reconcilable: rows that were never claimed are forgotten.
list_reconcilable_Claimed ==
    {c \in Contents : artifacts[c].status = "PENDING" /\ artifacts[c].lease = "expired"}

\* list_reconcilable: never claimed and past the grace period, or lease lapsed.
list_reconcilable ==
    {c \in Contents :
        /\ artifacts[c].status = "PENDING"
        /\ \/ artifacts[c].lease = "none" /\ artifacts[c].aged
           \/ artifacts[c].lease = "expired"}

ListReconcilable ==
    /\ rec.todo = {} /\ rec.at = None
    /\ list_reconcilable # {}
    /\ rec' = [rec EXCEPT !.todo = list_reconcilable]
    /\ UNCHANGED <<artifacts, storage, versions, req>>

\* object_exists_with_hash answers FALSE for an absent object and for any
\* ClientError of the storage service.
CheckObject(c) ==
    /\ rec.at = None
    /\ c \in rec.todo
    /\ \E found \in BOOLEAN :
          /\ found => c \in storage
          /\ rec' = [todo |-> rec.todo \ {c}, at |-> c, found |-> found]
    /\ UNCHANGED <<artifacts, storage, versions, req>>

\* Mutant of Verdict: an abandoned upload is taken to have arrived.
Verdict_Trusting == "UPLOADED"

Verdict == IF rec.found THEN "UPLOADED" ELSE "FAILED"

\* Mutant of Reconciled: the flip is not conditioned on PENDING.
Reconciled_AnyStatus(row) == [row EXCEPT !.status = Verdict, !.lease = "none"]

\* reconcile_to_uploaded / reconcile_to_failed, conditioned on PENDING alone.
Reconciled(row) ==
    IF row.status = "PENDING"
    THEN [row EXCEPT !.status = Verdict, !.lease = "none"]
    ELSE row

Reconcile ==
    /\ rec.at # None
    /\ SetRow(rec.at, Reconciled(artifacts[rec.at]))
    /\ rec' = [rec EXCEPT !.at = None, !.found = FALSE]
    /\ UNCHANGED <<storage, versions, req>>

\* The pass raises or the process dies; the next one lists afresh.
ReconcilerEnds ==
    /\ rec # ReconcilerIdle
    /\ rec' = ReconcilerIdle
    /\ UNCHANGED <<artifacts, storage, versions, req>>

-----------------------------------------------------------------------------
(* The clock: nothing renews an upload lease, so every one may lapse. *)

UploadLeaseExpires(c) ==
    /\ artifacts[c].lease = "live"
    /\ SetRow(c, [artifacts[c] EXCEPT !.lease = "expired"])
    /\ UNCHANGED <<storage, versions, req, rec>>

GracePasses(c) ==
    /\ artifacts[c].status = "PENDING" /\ ~artifacts[c].aged
    /\ SetRow(c, [artifacts[c] EXCEPT !.aged = TRUE])
    /\ UNCHANGED <<storage, versions, req, rec>>

UploadStep(p) ==
    \/ \E c \in Contents : \/ \E k \in {"dataset", None} : Lookup(p, c, k)
                           \/ CheckModel(p, c)
    \/ CreatePending(p) \/ ClaimUploadLease(p) \/ PutObject(p) \/ VerifyObject(p)
    \/ MarkUploaded(p) \/ UploadDone(p) \/ TakeNumber(p) \/ InsertVersion(p)

ReconcilerStep ==
    ListReconcilable \/ (\E c \in Contents : CheckObject(c)) \/ Reconcile

ArtifactClock == \E c \in Contents : UploadLeaseExpires(c) \/ GracePasses(c)

ArtifactsNext ==
    \/ \E p \in Requests : UploadStep(p) \/ RequestEnds(p)
    \/ ReconcilerStep \/ ReconcilerEnds
    \/ ArtifactClock

ArtifactsSpec == ArtifactsInit /\ [][ArtifactsNext]_avars

-----------------------------------------------------------------------------
(* Properties *)

\* The tables and the locals hold values of their types.
ArtifactsTypeOK ==
    /\ artifacts \in [Contents -> ArtifactRow]
    /\ storage \subseteq Contents
    /\ versions \in [Kinds -> [Numbers -> Contents \cup {None}]]
    /\ req \in [Requests -> RequestState]
    /\ rec \in ReconcilerState

\* UPLOADED means the bytes are there, whichever of the uploader and the Reconciler
\* wrote it and however long ago it looked (ARTIFACT_LIFECYCLE_V0.5.md).
UploadedIsStored ==
    \A c \in Contents : artifacts[c].status = "UPLOADED" => c \in storage

\* No DatasetVersion or ModelVersion references an artifact that is not UPLOADED,
\* although the status is read in an earlier transaction than the insert.
VersionsAreUploaded ==
    \A k \in Kinds, n \in Numbers :
        versions[k][n] # None => artifacts[versions[k][n]].status = "UPLOADED"

StaysDecided ==
    /\ \A c \in Contents :
          artifacts[c].status \in {"UPLOADED", "FAILED"} =>
              artifacts'[c].status = artifacts[c].status
    /\ \A k \in Kinds, n \in Numbers :
          versions[k][n] # None => versions'[k][n] = versions[k][n]

\* The row of a content is decided once, and a version, once numbered, stands: an
\* uploader that lost its lease and the Reconciler cannot overrule each other, and
\* two requests that took the same number cannot overwrite one another.
DecidedOnce == [][StaysDecided]_avars

\* ADR/013: the Reconciler never touches a row with a still-valid lease.
LiveLeaseIsLeftAlone ==
    [][\A c \in Contents :
          artifacts[c].lease = "live" /\ rec.at = c /\ rec'.at = None =>
              artifacts'[c].status = artifacts[c].status]_avars

\* Why they hold: what the requests and the Reconciler learned stays true until
\* they act on it, because objects are never removed and UPLOADED is for ever.
KnownContent ==
    \A p \in Requests :
        /\ req[p].pc # "idle" => req[p].content \in Contents
        /\ req[p].pc \in {"number", "insert"} => req[p].kind \in Kinds

VerifiedIsStored ==
    /\ \A p \in Requests : req[p].pc = "mark" => req[p].content \in storage
    /\ rec.found => rec.at \in storage

HandedOutIsUploaded ==
    \A p \in Requests :
        req[p].pc \in {"done", "number", "insert"} =>
            artifacts[req[p].content].status = "UPLOADED"

ArtifactsInv ==
    /\ ArtifactsTypeOK
    /\ KnownContent
    /\ VerifiedIsStored
    /\ HandedOutIsUploaded
    /\ UploadedIsStored
    /\ VersionsAreUploaded

\* What the requests know of rows and numbers: bytes are on their way only for a row
\* that exists, and every number below one that was taken or given stands.
NumbersAreDense ==
    \A k \in Kinds, n \in Numbers :
        versions[k][n] # None => \A m \in Numbers : m < n => versions[k][m] # None

RequestsFollowRows ==
    \A p \in Requests :
        /\ req[p].pc = "put" => artifacts[req[p].content].status # "NONE"
        /\ req[p].pc = "insert" =>
              \A m \in Numbers : m < req[p].number => versions[req[p].kind][m] # None

RegistryInv == ArtifactsInv /\ NumbersAreDense /\ RequestsFollowRows

-----------------------------------------------------------------------------
\* The upload flow, its leases and the Reconciler implement the registry.
Registry == INSTANCE ArtifactRegistry
                WITH status <- [c \in Contents |-> artifacts[c].status],
                     stored <- storage,
                     catalogue <- versions

\* Rows, objects and versions change only as ArtifactRegistry says: whichever of an
\* uploader, one that lost its lease, and the Reconciler acts, a row is published only
\* on stored bytes, and although two requests may take the same number, the versions
\* are numbered without a gap.
ImplementsRegistry == Registry!RegistrySpec

(***************************************************************************)
(* Fairness.  The Reconciler's loop polls for ever (WF) far more often     *)
(* than an upload lease is taken, so it lists an abandoned row and reaches *)
(* its flip if it can again and again (SF); time passes.  No request is    *)
(* assumed to finish.                                                      *)
(***************************************************************************)
ListsAbandoned(c) == ListReconcilable /\ c \in list_reconcilable
Decides(c) == Reconcile /\ rec.at = c

ArtifactsFairness ==
    /\ WF_avars(ReconcilerStep)
    /\ \A c \in Contents : /\ SF_avars(ListsAbandoned(c))
                           /\ SF_avars(CheckObject(c))
                           /\ SF_avars(Decides(c))
                           /\ WF_avars(UploadLeaseExpires(c))
                           /\ WF_avars(GracePasses(c))

ArtifactsFairSpec == ArtifactsSpec /\ ArtifactsFairness

\* No upload stays undecided: whatever step its uploader died at, whether or not it
\* had claimed the lease, the row becomes UPLOADED or FAILED.
PendingIsDecided ==
    \A c \in Contents :
        artifacts[c].status = "PENDING" ~> artifacts[c].status \in {"UPLOADED", "FAILED"}
=============================================================================
