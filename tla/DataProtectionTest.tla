------------------------- MODULE DataProtectionTest -------------------------
(***************************************************************************)
(* The DataProtectionTest (DPT) controller,                                *)
(* internal/controller/dataprotectiontest_controller.go: the protocol      *)
(* between status.phase, spec.forceRun, the informer cache and the work    *)
(* queue.  One reconcile marks the test InProgress and counts on the event *)
(* of its own write to trigger another, which runs the tests and writes    *)
(* the outcome; a deferred patch resets forceRun.  Status writes carry the *)
(* resourceVersion of a cached copy and are retried on conflict; the patch *)
(* carries none.  Every event of the DPT queues a reconcile.               *)
(***************************************************************************)
EXTENDS Naturals

CONSTANTS
    MaxTries,   \* attempts of RetryOnConflict(retry.DefaultRetry)
    MaxAsks,    \* how often a user sets forceRun
    MaxTouches, \* other edits of the DPT
    MaxFaults,  \* API calls that fail for another reason than a conflict
    MaxRestarts

ASSUME BoundAssumption ==
    /\ MaxTries \in Nat \ {0}
    /\ MaxAsks \in Nat /\ MaxTouches \in Nat /\ MaxFaults \in Nat /\ MaxRestarts \in Nat

VARIABLES
    dpt,      \* the DPT in the API server: [phase, force, rv]
    cache,    \* the informer's copy of it
    queued,   \* the work queue holds the DPT's key
    pc,       \* where Reconcile is
    read,     \* r.dpt
    tries,    \* attempts made by the current RetryOnConflict
    err,      \* Reconcile is going to return an error
    owed,     \* "no", or forceRun was set, at rest or not, and no run has begun since
    budget

vars == <<dpt, cache, queued, pc, read, tries, err, owed, budget>>

Ended == {"Complete", "Failed"}

(* The steps of a run. *)
Running == {"resolve", "vendor", "provider", "upload", "snapshots"}

DPTs == [phase : {"", "InProgress"} \cup Ended, force : BOOLEAN, rv : Nat]

TypeOK ==
    /\ dpt \in DPTs /\ cache \in DPTs /\ read \in DPTs
    /\ queued \in BOOLEAN /\ err \in BOOLEAN
    /\ owed \in {"no", "at rest", "busy"}
    /\ pc \in {"idle", "mark", "fail", "complete", "return"} \cup Running
    /\ tries \in 0..MaxTries - 1
    /\ budget \in [asks : Nat, touches : Nat, faults : Nat, restarts : Nat]

(* The test has ended and nobody asks for another run. *)
Skips(d) == d.phase \in Ended /\ ~d.force

Spend(what) == budget[what] > 0 /\ budget' = [budget EXCEPT ![what] = @ - 1]

-----------------------------------------------------------------------------
Init ==
    /\ dpt = [phase |-> "", force |-> FALSE, rv |-> 1]
    /\ cache = [dpt EXCEPT !.rv = 0]
    /\ read = cache
    /\ queued = FALSE /\ err = FALSE
    /\ owed = "no"
    /\ pc = "idle"
    /\ tries = 0
    /\ budget = [asks |-> MaxAsks, touches |-> MaxTouches,
                 faults |-> MaxFaults, restarts |-> MaxRestarts]

(* The worker is idle, the queue empty and the informer up to date. *)
Quiescent == pc = "idle" /\ ~queued /\ cache.rv = dpt.rv

(* A user sets spec.forceRun. *)
AskForceRun ==
    /\ ~dpt.force
    /\ Spend("asks")
    /\ dpt' = [dpt EXCEPT !.force = TRUE, !.rv = @ + 1]
    /\ owed' = IF Quiescent THEN "at rest" ELSE "busy"
    /\ UNCHANGED <<cache, queued, pc, read, tries, err>>

(* A user edits something else of the DPT. *)
Touch ==
    /\ Spend("touches")
    /\ dpt' = [dpt EXCEPT !.rv = @ + 1]
    /\ UNCHANGED <<cache, queued, pc, read, tries, err, owed>>

(* The informer catches up; SetupWithManager installs no predicate. *)
Inform ==
    /\ cache.rv # dpt.rv
    /\ cache' = dpt
    /\ queued' = TRUE
    /\ UNCHANGED <<dpt, pc, read, tries, err, owed, budget>>

-----------------------------------------------------------------------------
StartIgnoringForce ==
    /\ pc = "idle" /\ queued
    /\ queued' = FALSE
    /\ read' = cache
    /\ pc' = IF Skips(cache) THEN "idle" ELSE IF cache.phase \in Ended THEN "return"
             ELSE IF cache.phase # "InProgress" THEN "mark" ELSE "resolve"
    /\ err' = (cache.phase \in Ended /\ cache.force)
    /\ UNCHANGED <<dpt, cache, tries, owed, budget>>


(* Reconcile reads the DPT and stops, marks it or goes on to the tests. *)
Start ==
    /\ pc = "idle" /\ queued
    /\ queued' = FALSE
    /\ read' = cache
    /\ pc' = IF Skips(cache) THEN "idle"
             ELSE IF cache.phase # "InProgress" THEN "mark" ELSE "resolve"
    /\ UNCHANGED <<dpt, cache, tries, err, owed, budget>>

(* A status write by the controller.  If it does not change the phase the  *)
(* timestamp or the results may still change, or nothing at all.           *)
WriteStatus(phase) ==
    \/ dpt' = [dpt EXCEPT !.phase = phase, !.rv = @ + 1]
    \/ dpt.phase = phase /\ UNCHANGED dpt

Leave(failed) == pc' = "return" /\ err' = failed /\ tries' = 0

(* One attempt of RetryOnConflict: write the cached copy with the new      *)
(* phase; on a conflict try again, or give up after MaxTries attempts.     *)
Attempt(phase, failed) ==
    \/ cache.rv = dpt.rv /\ WriteStatus(phase) /\ Leave(failed)
    \/ /\ cache.rv # dpt.rv
       /\ IF tries + 1 < MaxTries THEN tries' = tries + 1 /\ UNCHANGED <<pc, err>>
          ELSE Leave(TRUE)
       /\ UNCHANGED dpt

(* Set the phase to InProgress, unless the test has meanwhile ended. *)
MarkInProgress ==
    /\ pc = "mark"
    /\ IF Skips(cache) THEN Leave(FALSE) /\ UNCHANGED dpt
       ELSE Attempt("InProgress", FALSE)
    /\ UNCHANGED <<cache, queued, read, owed, budget>>

(* One call of a run, which leads from one place to one of several. *)
RunStep(from, tos) ==
    /\ pc = from
    /\ pc' \in tos
    /\ UNCHANGED <<dpt, cache, queued, read, tries, err, budget>>

(* A run begins with the location: inline or fetched, both or neither      *)
(* given, or not found.                                                    *)
resolveBackupLocation == RunStep("resolve", {"fail", "vendor"}) /\ owed' = "no"

(* A HEAD request to an S3 endpoint, whose failure is only logged. *)
determineVendor == RunStep("vendor", {"provider"}) /\ UNCHANGED owed

(* Credentials and client of the provider, if an upload test is configured. *)
initializeProvider ==
    RunStep("provider", {"fail", "upload", "snapshots"}) /\ UNCHANGED owed

(* Upload and bucket metadata; failures are results. *)
runUploadTest == RunStep("upload", {"snapshots"}) /\ UNCHANGED owed

(* SnapshotTests models this step; failures are results. *)
runSnapshotTests == RunStep("snapshots", {"complete"}) /\ UNCHANGED owed

RunTests ==
    \/ resolveBackupLocation \/ determineVendor \/ initializeProvider
    \/ runUploadTest \/ runSnapshotTests

(* updateDPTErrorStatus; Reconcile returns the error that led here. *)
updateDPTErrorStatus ==
    /\ pc = "fail"
    /\ Attempt("Failed", TRUE)
    /\ UNCHANGED <<cache, queued, read, owed, budget>>

updateDPTStatusToComplete ==
    /\ pc = "complete"
    /\ Attempt("Complete", FALSE)
    /\ UNCHANGED <<cache, queued, read, owed, budget>>

(* A status write fails for another reason and is not retried. *)
StatusWriteFails ==
    /\ pc \in {"mark", "fail", "complete"}
    /\ Spend("faults")
    /\ Leave(TRUE)
    /\ UNCHANGED <<dpt, cache, queued, read, owed>>

FinishDroppingError ==
    /\ pc' = "idle" /\ err' = FALSE
    /\ UNCHANGED <<queued, cache, read, tries, owed>>

(* The deferred reset, which ignores its own errors, and the return to     *)
(* controller-runtime, which requeues on an error.                         *)
Finish ==
    /\ pc' = "idle" /\ err' = FALSE
    /\ queued' = (queued \/ err)
    /\ UNCHANGED <<cache, read, tries, owed>>

Return ==
    /\ pc = "return"
    /\ dpt' = IF read.force /\ dpt.force THEN [dpt EXCEPT !.force = FALSE, !.rv = @ + 1]
              ELSE dpt
    /\ Finish
    /\ UNCHANGED budget

ReturnResetFails ==
    /\ pc = "return" /\ read.force
    /\ Spend("faults")
    /\ Finish
    /\ UNCHANGED dpt

(* The operator restarts in the middle of anything. *)
Restart ==
    /\ Spend("restarts")
    /\ cache' = dpt
    /\ queued' = TRUE
    /\ pc' = "idle" /\ tries' = 0 /\ err' = FALSE
    /\ UNCHANGED <<dpt, read, owed>>

Worker ==
    \/ Start \/ MarkInProgress \/ RunTests \/ updateDPTErrorStatus
    \/ updateDPTStatusToComplete \/ StatusWriteFails \/ Return \/ ReturnResetFails

Next == Worker \/ Inform \/ AskForceRun \/ Touch \/ Restart

Spec == Init /\ [][Next]_vars

(* The worker and the informer are goroutines that keep running.  The      *)
(* calls of a run end: uploads and snapshots have timeouts, the request of *)
(* determineVendor has none and is assumed to be answered or refused.      *)
FairSpec == Spec /\ WF_vars(Worker) /\ WF_vars(Inform)

-----------------------------------------------------------------------------
(* No test is left hanging: at rest the phase is Complete or Failed and    *)
(* forceRun is reset, whatever conflicts, faults and restarts happened.    *)
(* The InProgress mark returns without a requeue and relies on its event.  *)
NothingLeftOver == Quiescent => Skips(dpt)

(* "forceRun will re-trigger the DPT even if it already completed": at     *)
(* rest, a run has begun since forceRun was last set.                      *)
RequestServed == Quiescent => owed = "no"

(* The same for a request made while the controller was at rest: as long   *)
(* as no call has failed and nobody else has edited the DPT it is never    *)
(* lost, restarts included.                                                *)
RequestAtRestServed ==
    Quiescent /\ budget.faults = MaxFaults /\ budget.touches = MaxTouches => owed # "at rest"


-----------------------------------------------------------------------------
(* The inductive invariant behind NothingLeftOver. *)

(* The copies are versions of the DPT, identified by the resourceVersion. *)
CopiesAreVersions ==
    /\ cache.rv <= dpt.rv /\ (cache.rv = dpt.rv => cache = dpt)
    /\ pc # "idle" => queued \/ read = cache
    /\ pc = "mark" => read.phase # "InProgress"
    /\ pc \in Running \cup {"fail", "complete"} => read.phase = "InProgress"

(* Whoever is about to fall silent leaves an event or a finished test. *)
SilenceIsJustified ==
    pc = "idle" \/ (pc = "return" /\ ~err) =>
        queued \/ cache.rv # dpt.rv \/ Skips(dpt)

IInv == TypeOK /\ CopiesAreVersions /\ SilenceIsJustified

(* And the one behind RequestAtRestServed.  A request made at rest is      *)
(* first on its way to the worker, or about to be marked, with no other    *)
(* reconcile in the queue; then the mark is on its way to the worker, or   *)
(* its run is about to begin.                                              *)
Unhindered == budget.faults = MaxFaults /\ budget.touches = MaxTouches

Asked ==
    /\ dpt.phase \in Ended /\ dpt.force
    /\ \/ pc = "idle" /\ (queued <=> cache.rv = dpt.rv)
       \/ pc = "mark" /\ ~queued /\ cache.rv = dpt.rv

Marked ==
    /\ dpt.phase = "InProgress"
    /\ queued => cache.phase = "InProgress"
    /\ pc = "return" => ~err
    /\ pc = "resolve" \/ (pc \in {"idle", "return"} /\ (queued \/ cache.rv # dpt.rv))

RequestKept ==
    /\ budget.faults <= MaxFaults /\ budget.touches <= MaxTouches
    /\ owed = "at rest" /\ Unhindered => Asked \/ Marked
=============================================================================
