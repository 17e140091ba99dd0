---------------------------- MODULE CloudStorage ----------------------------
(***************************************************************************)
(* The CloudStorage controller,                                            *)
(* internal/controller/cloudstorage_controller.go with pkg/bucket: it adds *)
(* a finalizer to a CloudStorage (CR), creates the S3 bucket, and, when    *)
(* the CR is deleted and an annotation asks for it, deletes the bucket     *)
(* before it removes the finalizer.  Updates carry the resourceVersion of  *)
(* the cached copy that was read; the error of the status update is        *)
(* ignored.                                                                *)
(*                                                                         *)
(* Versions are not counted: `event' tells whether the cache is behind and *)
(* `current' whether the copy that was read is still the newest version.   *)
(* The CR has no other finalizers and keeps its spec.name.                 *)
(***************************************************************************)
EXTENDS Naturals

CONSTANTS MaxRequests, MaxAnnotates, MaxEdits, MaxFaults, MaxRestarts

ASSUME BoundAssumption ==
    /\ MaxRequests \in Nat /\ MaxAnnotates \in Nat /\ MaxEdits \in Nat
    /\ MaxFaults \in Nat /\ MaxRestarts \in Nat

VARIABLES
    cr,       \* the CR in the API server: [life, ann, synced]
    cache,    \* the informer's copy of it
    event,    \* its undelivered watch events
    queued,   \* the work queue holds the CR's key
    pc,       \* where Reconcile is
    read,     \* the copy Reconcile works on
    current,  \* that copy is the newest version
    bucket,   \* "none", "foreign" or "ours"
    budget

vars == <<cr, cache, event, queued, pc, read, current, bucket, budget>>

(* The delete annotation: absent or false, true, or not a Boolean. *)
Anns == {"keep", "delete", "bad"}

CRs == [life : {"gone", "bare", "protected", "deleting"}, ann : Anns, synced : {"no", "yes"}]

TypeOK ==
    /\ cr \in CRs /\ cache \in CRs /\ read \in CRs
    /\ event \in {"none", "quiet", "wake"}
    /\ queued \in BOOLEAN /\ current \in BOOLEAN
    /\ pc \in {"idle", "protect", "delete", "release", "exists", "create", "status"}
    /\ pc # "idle" => read.life # "gone"
    /\ bucket \in {"none", "foreign", "ours"}
    /\ budget \in [requests : Nat, annotates : Nat, edits : Nat, faults : Nat, restarts : Nat]

Spend(what) == budget[what] > 0 /\ budget' = [budget EXCEPT ![what] = @ - 1]

bucketPredicateOnGeneration(old, new, edited) ==
    old.life = "gone" \/ new.life = "gone" \/ edited

(* Creations and deletions pass the filter, updates if the spec was edited *)
(* or the new version has a deletion timestamp.                            *)
bucketPredicate(old, new, edited) ==
    old.life = "gone" \/ new.life \in {"gone", "deleting"} \/ edited

(* A write of the CR in the API server. *)
Store(new, edited) ==
    /\ cr' = new
    /\ event' = IF event = "wake" \/ bucketPredicate(cr, new, edited) THEN "wake" ELSE "quiet"
    /\ current' = FALSE

-----------------------------------------------------------------------------
Init ==
    /\ cr = [life |-> "gone", ann |-> "keep", synced |-> "no"]
    /\ cache = cr /\ read = cr
    /\ event = "none"
    /\ queued = FALSE /\ current = FALSE
    /\ pc = "idle"
    /\ bucket \in {"none", "foreign"}
    /\ budget = [requests |-> MaxRequests, annotates |-> MaxAnnotates, edits |-> MaxEdits,
                 faults |-> MaxFaults, restarts |-> MaxRestarts]

UserCreate(a) ==
    /\ cr.life = "gone"
    /\ Spend("requests")
    /\ Store([life |-> "bare", ann |-> a, synced |-> "no"], TRUE)
    /\ UNCHANGED <<cache, queued, pc, read, bucket>>

(* Annotations do not count as a new generation. *)
UserAnnotate(a) ==
    /\ cr.life # "gone" /\ a # cr.ann
    /\ Spend("annotates")
    /\ Store([cr EXCEPT !.ann = a], FALSE)
    /\ UNCHANGED <<cache, queued, pc, read, bucket>>

UserEdit ==
    /\ cr.life # "gone"
    /\ Spend("edits")
    /\ Store(cr, TRUE)
    /\ UNCHANGED <<cache, queued, pc, read, bucket>>

UserDelete ==
    /\ cr.life \in {"bare", "protected"}
    /\ Store([cr EXCEPT !.life = IF @ = "bare" THEN "gone" ELSE "deleting"], FALSE)
    /\ UNCHANGED <<cache, queued, pc, read, bucket, budget>>

Inform ==
    /\ event # "none"
    /\ cache' = cr
    /\ queued' = (queued \/ event = "wake")
    /\ event' = "none"
    /\ UNCHANGED <<cr, pc, read, current, bucket, budget>>

-----------------------------------------------------------------------------
RequeueNever == pc' = "idle" /\ UNCHANGED queued

(* Reconcile ends and the key goes back to the queue, at once or later. *)
Requeue == pc' = "idle" /\ queued' = TRUE

(* The branch Reconcile takes for the copy it read. *)
StepFor(c) ==
    CASE c.life = "bare"                            -> "protect"
      [] c.life = "deleting" /\ c.ann = "delete"    -> "delete"
      [] OTHER                                      -> "exists"

(* The worker takes the key and reads the CR.  A CR that is not found ends *)
(* the reconcile; an annotation that is not a Boolean requeues it.         *)
Start ==
    /\ pc = "idle" /\ queued
    /\ read' = cache
    /\ current' = (event = "none")
    /\ IF cache.life = "gone" THEN pc' = "idle" /\ queued' = FALSE
       ELSE IF cache.life # "bare" /\ cache.ann = "bad" THEN Requeue
       ELSE pc' = StepFor(cache) /\ queued' = FALSE
    /\ UNCHANGED <<cr, cache, event, bucket, budget>>

(* Update of the copy that was read: it is written if it is still current, *)
(* conflicts otherwise, and may fail for another reason.                   *)
Update(new) ==
    \/ current /\ Store(new, FALSE) /\ UNCHANGED budget
    \/ ~current /\ UNCHANGED <<cr, event, current, budget>>
    \/ Spend("faults") /\ UNCHANGED <<cr, event, current>>

(* Update that adds the finalizer; conflicts and other errors are treated  *)
(* like success.                                                           *)
AddFinalizer ==
    /\ pc = "protect"
    /\ Update([cr EXCEPT !.life = "protected"])
    /\ Requeue
    /\ UNCHANGED <<cache, read, bucket>>

(* Delete of the bucket: it fails if there is none, for instance because   *)
(* an earlier reconcile deleted it and could not remove the finalizer.     *)
DeleteBucket ==
    /\ pc = "delete"
    /\ IF bucket = "none" THEN Requeue /\ UNCHANGED bucket
       ELSE bucket' = "none" /\ pc' = "release" /\ UNCHANGED queued
    /\ UNCHANGED <<cr, cache, event, read, current, budget>>

RemoveFinalizer ==
    /\ pc = "release"
    /\ Update([cr EXCEPT !.life = "gone"])
    /\ Requeue
    /\ UNCHANGED <<cache, read, bucket>>

BucketExistsOrWait ==
    /\ pc = "exists"
    /\ IF bucket = "none" THEN Requeue ELSE pc' = "status" /\ UNCHANGED queued
    /\ UNCHANGED <<cr, cache, event, read, current, bucket, budget>>

(* STSStandardizedFlow and Exists, which also tags the bucket. *)
BucketExists ==
    /\ pc = "exists"
    /\ pc' = IF bucket = "none" THEN "create" ELSE "status"
    /\ UNCHANGED <<cr, cache, event, queued, read, current, bucket, budget>>

CreateBucket ==
    /\ pc = "create"
    /\ bucket' = "ours"
    /\ pc' = "status"
    /\ UNCHANGED <<cr, cache, event, queued, read, current, budget>>

ProviderFailsIgnored ==
    /\ pc \in {"delete", "exists", "create"}
    /\ Spend("faults")
    /\ IF pc = "delete" THEN pc' = "release" /\ UNCHANGED queued ELSE Requeue
    /\ UNCHANGED <<cr, cache, event, read, current, bucket>>

(* A call of the provider fails.  The bucket may have been created when    *)
(* Create fails, but not been tagged.                                      *)
ProviderFails ==
    /\ pc \in {"delete", "exists", "create"}
    /\ Spend("faults")
    /\ bucket' \in {bucket} \cup (IF pc = "create" THEN {"ours"} ELSE {})
    /\ Requeue
    /\ UNCHANGED <<cr, cache, event, read, current>>

(* Status().Update with the new time, which may equal the old one to the   *)
(* second; its error is ignored.                                           *)
UpdateStatus ==
    /\ pc = "status"
    /\ \/ Update([cr EXCEPT !.synced = "yes"])
       \/ cr.synced = "yes" /\ UNCHANGED <<cr, event, current, budget>>
    /\ pc' = "idle"
    /\ UNCHANGED <<cache, queued, read, bucket>>

Restart ==
    /\ Spend("restarts")
    /\ cache' = cr
    /\ event' = "none"
    /\ queued' = (cr.life # "gone")
    /\ pc' = "idle"
    /\ UNCHANGED <<cr, read, current, bucket>>

Worker ==
    \/ Start \/ AddFinalizer \/ DeleteBucket \/ RemoveFinalizer
    \/ BucketExists \/ CreateBucket \/ ProviderFails \/ UpdateStatus

User ==
    \/ \E a \in Anns : UserCreate(a) \/ UserAnnotate(a)
    \/ UserEdit \/ UserDelete

Next == Worker \/ Inform \/ User \/ Restart

Spec == Init /\ [][Next]_vars

(* The worker and the informer keep running; requeues happen after at most *)
(* a minute.                                                               *)
FairSpec == Spec /\ WF_vars(Worker) /\ WF_vars(Inform)

-----------------------------------------------------------------------------
Lifecycle == INSTANCE BucketLifecycle WITH life <- cr.life

(* The controller keeps the promise of BucketLifecycle through stale       *)
(* copies, conflicts, failing calls, restarts and a CR that is recreated:  *)
(* it makes a bucket only for a CR with the finalizer, removes one only    *)
(* while the CR is being deleted, and lets the CR go only after that.      *)
KeepsPromise == Lifecycle!Spec

(* No bucket the controller created survives its CR. *)
NoOrphan == cr.life \in {"gone", "bare"} => bucket # "ours"

Quiescent == pc = "idle" /\ ~queued /\ event = "none"

(* A CR never comes to rest without its bucket, though every failure but   *)
(* that of the status update must have requeued it.                        *)
BucketAtRest ==
    Quiescent => \/ cr.life = "gone"
                 \/ cr.life \in {"protected", "deleting"} /\ bucket # "none"

(* A CR that is not being deleted gets its bucket. *)
BucketMade ==
    <>[](cr.life \in {"bare", "protected"} /\ cr.ann # "bad" => bucket # "none")

Undisturbed ==
    budget.edits = MaxEdits /\ budget.faults = MaxFaults /\ budget.restarts = MaxRestarts

(* A CR that is being deleted with the annotation "true" while its bucket  *)
(* exists goes, unless the annotation is changed.  This needs the bucket   *)
(* to be there, and no edit, fault or restart between its deletion and the *)
(* removal of the finalizer: every later Delete fails on a missing bucket  *)
(* and the CR stays for good.                                              *)
DeletionCompletes ==
    cr.life = "deleting" /\ cr.ann = "delete" /\ bucket # "none"
        ~> cr.life = "gone" \/ cr.ann # "delete" \/ ~Undisturbed

-----------------------------------------------------------------------------
(* The inductive invariant behind KeepsPromise, NoOrphan and BucketAtRest. *)

Protected == {"protected", "deleting"}

(* How far the cache may be behind.  A CR with the finalizer does not go   *)
(* before the cache shows it as being deleted with the annotation, and     *)
(* does not get the finalizer before the cache shows it at all.            *)
CacheLag ==
    /\ event = "none" => cache = cr
    /\ event # "wake" /\ cache.life = "gone" => cr.life = "gone"
    /\ cache.life = "protected" => cr.life \in Protected
    /\ cache.life = "deleting" => cr.life = "deleting" \/ (cache.ann = "delete" /\ bucket = "none")
    /\ cr.life = "protected" => cache.life \in {"bare", "protected"}

(* What Reconcile knows at each of its steps. *)
Knows ==
    /\ current /\ pc # "idle" => read = cr /\ cache = cr
    /\ pc = "protect" => read.life = "bare"
    /\ pc = "delete" => cr.life = "deleting" \/ bucket = "none"
    /\ pc \in {"delete", "release"} => read.life = "deleting" /\ read.ann = "delete"
    /\ pc \in {"exists", "create", "status"} => cr.life \in Protected
    /\ pc \in {"create", "release"} => bucket = "none"
    /\ pc = "status" => bucket # "none"

(* Unless something is still to happen the CR has what it asked for. *)
Settled ==
    \/ pc # "idle" \/ queued \/ event = "wake"
    \/ cr.life = "gone"
    \/ cr.life \in Protected /\ bucket # "none"

IInv == TypeOK /\ CacheLag /\ Knows /\ Settled /\ NoOrphan
=============================================================================
