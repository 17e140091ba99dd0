-------------------------- MODULE CredentialSecret --------------------------
(***************************************************************************)
(* The provider's credential secret and its writers.  The DPA worker       *)
(* checks that it exists, turns carriage returns into newlines, labels it  *)
(* so that its events reach the DPA, adds the region of the first backup   *)
(* location to STS credentials (bsl.go) and copies it into the registry    *)
(* secret (registry.go).  The standardized STS flow                        *)
(* (pkg/credentials/stsflow) writes the role of the operator's environment *)
(* when the operator starts and on every CloudStorage reconcile.  Users    *)
(* write it as well.                                                       *)
(*                                                                         *)
(* The DPA has one AWS location that refers to the secret's "credentials", *)
(* with a region in its config, and backupImages on; the location is in    *)
(* the cache.  Every value parses: parseAWSSecret turns a role into empty  *)
(* keys.  Users keep the labels of a secret they update.                   *)
(***************************************************************************)
EXTENDS Naturals

CONSTANTS
    UserCreds,   \* what users put into the secret: static keys
    MaxCreates, MaxUpdates, MaxDeletes, MaxSyncs, MaxFaults, MaxRestarts

ASSUME BoundAssumption ==
    /\ "env" \notin UserCreds
    /\ MaxCreates \in Nat /\ MaxUpdates \in Nat /\ MaxDeletes \in Nat /\ MaxSyncs \in Nat
    /\ MaxFaults \in Nat /\ MaxRestarts \in Nat

VARIABLES
    sts,       \* the environment holds a role: the standardized flow is on
    secret,    \* the secret in the API server
    view,      \* the informer's copy of it
    event,     \* its undelivered watch events
    queued,    \* the work queue holds the DPA's key
    pc,        \* where the DPA worker is
    cond,      \* the DPA's Reconciled condition
    registry,  \* the credentials in the registry secret, or "none"
    copy,      \* the informer's copy of that
    flow,      \* where the CloudStorage worker's STS flow is
    budget

vars == <<sts, secret, view, event, queued, pc, cond, registry, copy, flow, budget>>

Creds == UserCreds \cup {"env"}

(* creds: whose credentials; region: a line "region = ..."; crlf: carriage *)
(* returns; labelled: OadpOperatorLabel and dataprotectionapplication.name *)
Secrets == [there : BOOLEAN, labelled : BOOLEAN, creds : Creds,
            region : BOOLEAN, crlf : BOOLEAN]

NoSecret == [there |-> FALSE, labelled |-> FALSE, creds |-> "env",
             region |-> FALSE, crlf |-> FALSE]

(* The environment's credentials, the only ones with a role. *)
IsSTS(s) == s.creds = "env"

EnvSecret == [NoSecret EXCEPT !.there = TRUE]

TypeOK ==
    /\ sts \in BOOLEAN
    /\ secret \in Secrets /\ view \in Secrets
    /\ event \in {"none", "quiet", "wake"}
    /\ queued \in BOOLEAN
    /\ pc \in {"idle", "validate", "label", "region", "registry", "status"}
    /\ cond \in {"none", "True", "False"}
    /\ registry \in Creds \cup {"none"} /\ copy \in Creds \cup {"none"}
    /\ flow \in {"idle", "get", "patch"}
    /\ ~sts => flow = "idle" /\ (secret.there => ~IsSTS(secret))
    /\ budget \in [creates : Nat, updates : Nat, deletes : Nat, syncs : Nat, faults : Nat, restarts : Nat]

Bounds == [creates |-> MaxCreates, updates |-> MaxUpdates, deletes |-> MaxDeletes,
           syncs |-> MaxSyncs, faults |-> MaxFaults, restarts |-> MaxRestarts]

Spend(what) == budget[what] > 0 /\ budget' = [budget EXCEPT ![what] = @ - 1]

(* veleroPredicate and labelHandler: updates of a Secret never pass,       *)
(* creations and deletions do if it carries both labels.                   *)
Passes(old, new) ==
    \/ ~old.there /\ new.labelled
    \/ ~new.there /\ old.labelled

Store(new) ==
    /\ secret' = new
    /\ event' = IF new = secret THEN event
                ELSE IF event = "wake" \/ Passes(secret, new) THEN "wake" ELSE "quiet"

(* New credentials in place of the old; the labels stay. *)
WithCreds(s, creds, region, crlf) ==
    [s EXCEPT !.creds = creds, !.region = region, !.crlf = crlf]

-----------------------------------------------------------------------------
(* With the flow on the secret has just been written by it. *)
Init ==
    /\ sts \in BOOLEAN
    /\ secret = IF sts THEN EnvSecret ELSE NoSecret
    /\ view = secret
    /\ event = "none"
    /\ queued = TRUE
    /\ pc = "idle" /\ flow = "idle"
    /\ cond = "none"
    /\ registry = "none" /\ copy = "none"
    /\ budget = Bounds

(* A user creates the secret, without labels, or updates it. *)
UserWrite(creds, crlf) ==
    /\ Spend(IF secret.there THEN "updates" ELSE "creates")
    /\ Store(WithCreds([secret EXCEPT !.there = TRUE], creds, FALSE, crlf))
    /\ UNCHANGED <<sts, view, queued, pc, cond, registry, copy, flow>>

UserDelete ==
    /\ secret.there
    /\ Spend("deletes")
    /\ Store(NoSecret)
    /\ UNCHANGED <<sts, view, queued, pc, cond, registry, copy, flow>>

Inform ==
    /\ event # "none"
    /\ view' = secret
    /\ queued' = (queued \/ event = "wake")
    /\ event' = "none"
    /\ UNCHANGED <<sts, secret, pc, cond, registry, copy, flow, budget>>

InformRegistry ==
    /\ copy # registry
    /\ copy' = registry
    /\ UNCHANGED <<sts, secret, view, event, queued, pc, cond, registry, flow, budget>>

-----------------------------------------------------------------------------
Start ==
    /\ pc = "idle" /\ queued
    /\ queued' = FALSE
    /\ pc' = "validate"
    /\ UNCHANGED <<sts, secret, view, event, cond, registry, copy, flow, budget>>

(* The batch stops with an error: condition and requeue. *)
Fail == pc' = "idle" /\ cond' = "False" /\ queued' = TRUE

Continue(next) == pc' = next /\ UNCHANGED <<cond, queued>>

(* getProviderSecret: the cached secret with its carriage returns removed  *)
(* is patched, and what the API server answers is returned.  Only a secret *)
(* that had some is changed: its credentials become the cached ones.       *)
Normalized(s) ==
    IF s.there /\ view.crlf THEN WithCreds(s, view.creds, view.region, FALSE) ELSE s

(* The error of that patch is ignored; the cached secret is used instead.  *)
Unanswered == [view EXCEPT !.crlf = FALSE]

(* What getProviderSecret may return of a secret that is in the cache, and *)
(* the secret then in the API server.                                      *)
getProviderSecret ==
    IF secret.there
    THEN {[got |-> Normalized(secret), live |-> Normalized(secret), fault |-> FALSE],
          [got |-> Unanswered, live |-> secret, fault |-> TRUE]}
    ELSE {[got |-> Unanswered, live |-> secret, fault |-> FALSE]}

Returned(r) ==
    /\ view.there
    /\ IF r.fault THEN Spend("faults") ELSE UNCHANGED budget

(* ensureSecretDataExists, called by ValidateBackupStorageLocations. *)
ValidateSecret ==
    /\ pc = "validate"
    /\ \E r \in getProviderSecret :
         Returned(r) /\ Store(r.live) /\ Continue("label")
    /\ UNCHANGED <<sts, view, registry, copy, flow>>

LabelNothing ==
    /\ pc = "label"
    /\ \E r \in getProviderSecret :
         Returned(r) /\ Store(r.live) /\ Continue("region")
    /\ UNCHANGED <<sts, view, registry, copy, flow>>

(* UpdateCredentialsSecretLabels patches the labels the returned secret    *)
(* misses, which fails if the secret has gone.                             *)
UpdateCredentialsSecretLabels ==
    /\ pc = "label"
    /\ \E r \in getProviderSecret :
         /\ Returned(r)
         /\ IF r.got.labelled THEN Store(r.live) /\ Continue("region")
            ELSE IF r.live.there
            THEN Store([r.live EXCEPT !.labelled = TRUE]) /\ Continue("region")
            ELSE Fail /\ UNCHANGED <<secret, event>>
    /\ UNCHANGED <<sts, view, registry, copy, flow>>

PatchRegionOnce ==
    /\ pc = "region"
    /\ IF cond = "none" /\ view.there /\ IsSTS(view) /\ ~view.region /\ secret.there
       THEN Store(WithCreds(secret, view.creds, TRUE, view.crlf))
       ELSE UNCHANGED <<secret, event>>
    /\ Continue("registry")
    /\ UNCHANGED <<sts, view, registry, copy, flow, budget>>

(* patchSecretsForBSL and patchAWSSecretWithRegion: cached STS credentials *)
(* without a region are written back with one.  Errors are ignored.        *)
PatchRegion ==
    /\ pc = "region"
    /\ \/ /\ IF view.there /\ IsSTS(view) /\ ~view.region /\ secret.there
             THEN Store(WithCreds(secret, view.creds, TRUE, view.crlf))
             ELSE UNCHANGED <<secret, event>>
          /\ UNCHANGED budget
       \/ Spend("faults") /\ UNCHANGED <<secret, event>>
    /\ Continue("registry")
    /\ UNCHANGED <<sts, view, registry, copy, flow>>

CopyOnlyOnce(creds) == creds # copy /\ copy = "none"

(* CreateOrPatch of the registry secret writes only what differs from the  *)
(* cached one.                                                             *)
NeedsCopy(creds) == creds # copy

CreateRegistrySecrets ==
    /\ pc = "registry"
    /\ \E r \in getProviderSecret :
         /\ Returned(r)
         /\ Store(r.live)
         /\ IF registry # "none" THEN Fail /\ UNCHANGED registry
            ELSE registry' = r.got.creds /\ Continue("status")
    /\ UNCHANGED <<sts, view, copy, flow>>

(* ReconcileRegistrySecrets; the creation fails if the secret exists.      *)
ReconcileRegistrySecrets ==
    /\ pc = "registry"
    /\ \E r \in getProviderSecret :
         /\ Returned(r)
         /\ Store(r.live)
         /\ IF NeedsCopy(r.got.creds) /\ copy = "none" /\ registry # "none"
            THEN Fail /\ UNCHANGED registry
            ELSE /\ registry' = IF NeedsCopy(r.got.creds) THEN r.got.creds ELSE registry
                 /\ Continue("status")
    /\ UNCHANGED <<sts, view, copy, flow>>

(* A function finds no secret in the cache, or one of its calls fails. *)
SecretMissing ==
    /\ pc \in {"validate", "label", "registry"} /\ ~view.there
    /\ Fail
    /\ UNCHANGED <<sts, secret, view, event, registry, copy, flow, budget>>

CallFails ==
    /\ pc \in {"label", "registry"}
    /\ Spend("faults")
    /\ Fail
    /\ UNCHANGED <<sts, secret, view, event, registry, copy, flow>>

(* The rest of the batch and the status update. *)
Finish ==
    /\ pc = "status"
    /\ pc' = "idle" /\ cond' = "True"
    /\ UNCHANGED <<sts, secret, view, event, queued, registry, copy, flow, budget>>

-----------------------------------------------------------------------------
(* The patch carries the whole "credentials" value in stringData, which    *)
(* replaces the stored one.                                                *)
EnvCreds(s) == WithCreds(s, "env", FALSE, FALSE)

(* STSStandardizedFlow, called by the CloudStorage worker: create ...      *)
CreateSTSSecret ==
    /\ sts /\ flow = "idle"
    /\ Spend("syncs")
    /\ IF secret.there THEN flow' = "get" /\ UNCHANGED <<secret, event>>
       ELSE Store(EnvSecret) /\ UNCHANGED flow
    /\ UNCHANGED <<sts, view, queued, pc, cond, registry, copy>>

(* ... or, if it exists, get it and patch it.  The worker retries errors.  *)
GetSTSSecret ==
    /\ flow = "get"
    /\ flow' = IF secret.there THEN "patch" ELSE "idle"
    /\ UNCHANGED <<sts, secret, view, event, queued, pc, cond, registry, copy, budget>>

PatchSTSSecret ==
    /\ flow = "patch"
    /\ IF secret.there THEN Store(EnvCreds(secret)) ELSE UNCHANGED <<secret, event>>
    /\ flow' = "idle"
    /\ UNCHANGED <<sts, view, queued, pc, cond, registry, copy, budget>>

(* The operator restarts; main runs the STS flow before the manager.       *)
Restart ==
    /\ Spend("restarts")
    /\ secret' = IF ~sts THEN secret
                 ELSE IF secret.there THEN EnvCreds(secret) ELSE EnvSecret
    /\ view' = secret' /\ copy' = registry
    /\ event' = "none"
    /\ queued' = TRUE
    /\ pc' = "idle" /\ flow' = "idle"
    /\ UNCHANGED <<sts, cond, registry>>

Worker ==
    \/ Start \/ ValidateSecret \/ UpdateCredentialsSecretLabels \/ PatchRegion
    \/ ReconcileRegistrySecrets \/ SecretMissing \/ CallFails \/ Finish

Flow == CreateSTSSecret \/ GetSTSSecret \/ PatchSTSSecret

Next ==
    \/ Worker \/ Flow \/ Inform \/ InformRegistry \/ Restart \/ UserDelete
    \/ \E creds \in UserCreds, crlf \in BOOLEAN : UserWrite(creds, crlf)

Spec == Init /\ [][Next]_vars

(* Worker and informers keep running; a flow that began goes on. *)
FairSpec ==
    /\ Spec
    /\ WF_vars(Worker) /\ WF_vars(Inform) /\ WF_vars(InformRegistry)
    /\ WF_vars(GetSTSSecret \/ PatchSTSSecret)

-----------------------------------------------------------------------------
Quiescent == pc = "idle" /\ ~queued /\ event = "none" /\ flow = "idle" /\ copy = registry

Unspent(whats) == \A w \in whats : budget[w] = Bounds[w]

(* "When the labeled secret objects get deleted, the operator status gets  *)
(* updated accordingly" (docs/design/watches.md): the controller rests     *)
(* only with a secret that exists and is labelled, so that its deletion    *)
(* will be noticed, however often it was deleted and replaced by an        *)
(* unlabelled one.                                                         *)
SecretAtRest == Quiescent => secret.there /\ secret.labelled /\ cond = "True"

(* The operator patches the secret with the region of the first location   *)
(* (docs/standardized-flow-implementation.md): at rest STS credentials     *)
(* have their region.                                                      *)
RegionKept == Quiescent /\ IsSTS(secret) => secret.region

(* They do as long as no CloudStorage is reconciled and no call fails,     *)
(* restarts, which drop the region, included.                              *)
RegionAtRest == Unspent({"syncs", "faults"}) => RegionKept

(* "In order for the operator to update the current state of its operands  *)
(* in the case where the provider secrets get deleted or updated, the      *)
(* secret object needs to be watched" (watches.md): at rest the registry   *)
(* secret holds the credentials of the provider secret.                    *)
RegistryCurrent == Quiescent => registry = secret.creds

(* It does as long as the secret is only created and deleted, no           *)
(* CloudStorage is reconciled, no call fails, and the informer has seen    *)
(* the registry secret's last write whenever the worker compares with it.  *)
RegistryAtRest ==
    [](pc = "registry" => copy = registry)
        => [](Unspent({"updates", "syncs", "faults"}) => RegistryCurrent)

(* A secret that is there in the end is labelled, and the DPA reports it.  *)
Recovers == <>[](secret.there => secret.labelled /\ cond = "True")

-----------------------------------------------------------------------------
(* The inductive invariants behind these. *)

(* Without a role in the environment no copy of the secret has one. *)
NoRole == \A s \in {secret, view} : ~sts /\ s.there => ~IsSTS(s)

(* A cached secret that has lost its labels is gone, and its deletion will *)
(* wake the worker.                                                        *)
LabelsStay ==
    /\ event = "none" => view = secret
    /\ \A s \in {secret, view} : s.labelled => s.there
    /\ view.labelled /\ ~secret.labelled => event = "wake"

(* Behind the labelling, and until the worker is to look again, the secret *)
(* is there with its labels.                                               *)
Labelled == secret.there /\ secret.labelled

LabelsHold ==
    /\ pc \in {"region", "registry", "status"} => queued \/ event = "wake" \/ Labelled
    /\ pc = "idle" => queued \/ (cond = "True" /\ (event = "wake" \/ Labelled))

WithinBounds == \A w \in DOMAIN Bounds : budget[w] <= Bounds[w]

IInv == TypeOK /\ NoRole /\ LabelsStay /\ LabelsHold /\ WithinBounds

(* Only a start of the operator drops the region of STS credentials, and   *)
(* then the cache shows it.                                                *)
RegionHolds ==
    /\ flow = "idle"
    /\ \A s \in {secret, view} : IsSTS(s) => ~s.crlf
    /\ secret.there /\ IsSTS(secret) /\ ~secret.region
           => view.there /\ IsSTS(view) /\ ~view.region
    /\ pc \in {"registry", "status"} \/ (pc = "idle" /\ ~queued)
           => (secret.there /\ IsSTS(secret) => secret.region)

RegionInv == Unspent({"syncs", "faults"}) => RegionHolds

(* The registry secret has been made from the secret there is, unless the  *)
(* worker is to look again.                                                *)
RegistryHolds ==
    /\ flow = "idle"
    /\ pc \in {"status", "idle"} => queued \/ event = "wake" \/ registry = secret.creds

RegistryInv == Unspent({"updates", "syncs", "faults"}) => RegistryHolds
=============================================================================
