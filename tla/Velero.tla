------------------------------- MODULE Velero -------------------------------
(***************************************************************************)
(* From the DPA's spec to the Velero Deployment: ValidateDataProtectionCR  *)
(* (validator.go, bsl.go, vsl.go), the backup storage locations, the       *)
(* removal of what older versions deployed as registries (registry.go),    *)
(* the labelling of the snapshot locations' secrets (vsl.go) and           *)
(* ReconcileVeleroDeployment (velero.go), against users who edit the spec, *)
(* the secrets and the Deployment, and against the Deployment controller.  *)
(*                                                                         *)
(* The DPA, the secrets, the CloudStorage and the backup storage locations *)
(* are what the informers hold; only the Deployment has a cached copy of   *)
(* its own.  All CloudStorage locations refer to one CloudStorage, and all *)
(* own credentials to one secret.                                          *)
(***************************************************************************)
EXTENDS ProviderSecret, Integers

CONSTANTS
    Specs,      \* the specs of a DPA
    Edits,      \* the specs that users change to
    Starts,     \* the spec, secrets and CloudStorage at the start, and a bound
    Contents,   \* what users put into a secret
    MaxLocations, \* bounds the backup locations of a spec
    MaxEvents   \* bounds what users do, and failing calls and restarts

ASSUME BoundAssumption == MaxLocations \in Nat /\ MaxEvents \in Nat

VARIABLES
    spec,      \* the DPA's spec
    secrets,   \* the secrets, by name
    cloud,     \* the provider of the CloudStorage, or "none"
    bsls,      \* the backup storage locations, by their index in the spec
    legacy,    \* what is left of the registries: pairs of kind and location
    dep,       \* the Velero Deployment in the API server
    view,      \* the informer's copy of it
    event,     \* its undelivered watch events
    queued,    \* the work queue holds the DPA's key
    pc, read,  \* where the worker is, and the spec it works on
    seen,      \* history: the secrets there were when it validated that
    valid,     \* history: the inputs have been validated since they changed
    calm,      \* history: nobody has disturbed the operator
    budget

vars == <<spec, secrets, cloud, bsls, legacy, dep, view, event, queued, pc, read, seen, valid, calm, budget>>

(* credentials.PluginSpecificFields: the provider of a plugin, "" unless   *)
(* it is a cloud provider's, and the provider's default secret.            *)
ProviderName ==
    [p \in {"aws", "legacy-aws", "gcp", "azure", "openshift"} |->
        IF p = "legacy-aws" THEN "aws" ELSE IF p = "openshift" THEN "" ELSE p]

Plugins == DOMAIN ProviderName
Providers == {"aws", "gcp", "azure"}

DefaultSecret ==
    [p \in Providers |->
        IF p = "aws" THEN "cloud-credentials"
        ELSE IF p = "gcp" THEN "cloud-credentials-gcp" ELSE "cloud-credentials-azure"]

SecretNames == {DefaultSecret[p] : p \in Providers} \cup {"own"}

(* kind: what the entry has; prefixed: the provider is given with          *)
(* "velero.io/"; cred: a credential, an incomplete one, config's           *)
(* credentialsFile, or none of these; named: "default"; storage: object    *)
(* storage, bucket and the provider's required config; slow: a             *)
(* backupSyncPeriod not below the non-admin one                            *)
Location == [kind : {"velero", "cloud", "both", "neither"}, provider : Providers \cup {"other"},
             prefixed : BOOLEAN, cred : {"own", "empty", "file", "none"}, profile : {"default", "backup"},
             default : BOOLEAN, named : BOOLEAN, prefix : BOOLEAN, storage : BOOLEAN, slow : BOOLEAN]

Snapshot == [provider : Providers \cup {"other"}, cred : {"own", "empty", "file", "none"}, config : BOOLEAN]

(* refused: something no valid DPA has (a second DPA, no configuration,    *)
(* DataMover, Restic, vsm, an operator type other than mtc, contradictory  *)
(* affinities, unparsable resources); late: a setting that only building   *)
(* the Deployment rejects (log level, metrics port, client QPS, server     *)
(* args of a ConfigMap that does not exist, pod labels or annotations that *)
(* contradict its own)                                                     *)
IsSpec(s) ==
    /\ s.plugins \subseteq Plugins
    /\ s.bsls \in Seq(Location) /\ Len(s.bsls) <= MaxLocations
    /\ s.vsls \in Seq(Snapshot)
    /\ s.nonAdmin \in {"unset", "good", "bad"}
    /\ {s.noDefault, s.images, s.noSecret, s.mtc, s.refused, s.late} \subseteq BOOLEAN

ASSUME SpecAssumption == Edits \subseteq Specs /\ \A s \in Specs : IsSpec(s)

IsSecret(c) ==
    /\ DOMAIN c = {"there", "labelled", "lines"}
    /\ c.there \in BOOLEAN /\ c.labelled \in BOOLEAN

ASSUME StartAssumption ==
    \A start \in Starts :
        /\ start.spec \in Specs /\ start.events \in 0 .. MaxEvents
        /\ DOMAIN start.secrets = SecretNames /\ \A n \in SecretNames : IsSecret(start.secrets[n])
        /\ start.cloud \in Providers \cup {"none"}

Indices == 1 .. MaxLocations

StepAfterWithoutRoutes ==
    [registries |-> "services", services |-> "config", routes |-> "config", config |-> "snapshots"]

(* The kinds of objects of the registries, in the order of their removal,  *)
(* and the step after each.                                                *)
StepAfter == [registries |-> "services", services |-> "routes", routes |-> "config", config |-> "snapshots"]
Kinds == DOMAIN StepAfter

Templates == [plugins : SUBSET Plugins, mounts : SUBSET SecretNames, note : BOOLEAN, revision : -1 .. 1]

(* foreign: what somebody else added: a label, an annotation, or a value   *)
(* for a key the operator sets too.  revision: the Deployment controller's *)
(* annotation, of which only changes matter; rolled: the template it has   *)
(* rolled out.                                                             *)
Deployments == [there : BOOLEAN, foreign : {"none", "label", "note", "clash"}, template : Templates,
                rolled : Templates, revision : 0 .. 1]

NoTemplate == [plugins |-> {}, mounts |-> {}, note |-> FALSE, revision |-> -1]
NoDeployment == [there |-> FALSE, foreign |-> "none", template |-> NoTemplate,
                 rolled |-> NoTemplate, revision |-> 0]
NoBSL == [there |-> FALSE, labelled |-> FALSE, default |-> FALSE, slow |-> FALSE]

TypeOK ==
    /\ spec \in Specs /\ read \in Specs
    /\ DOMAIN secrets = SecretNames /\ \A n \in SecretNames : IsSecret(secrets[n])
    /\ cloud \in Providers \cup {"none"}
    /\ bsls \in [Indices -> [there : BOOLEAN, labelled : BOOLEAN, default : BOOLEAN, slow : BOOLEAN]]
    /\ legacy \subseteq Kinds \X (Indices \cup {0})
    /\ dep \in Deployments /\ view \in Deployments
    /\ event \in {"none", "quiet", "wake"}
    /\ pc \in {"idle", "validate", "locations", "snapshots", "velero"} \cup Kinds
    /\ seen \subseteq SecretNames
    /\ queued \in BOOLEAN /\ valid \in BOOLEAN /\ calm \in BOOLEAN
    /\ budget \in 0 .. MaxEvents

Spend == budget > 0 /\ budget' = budget - 1

StoreUnnoticed(new) ==
    /\ dep' = new
    /\ event' = IF new = dep THEN event
                ELSE IF event = "wake" \/ (new.there /\ new.template # dep.template)
                THEN "wake" ELSE "quiet"

(* veleroPredicate: the Deployment carries OadpOperatorLabel; its events   *)
(* pass if it comes, goes or changes its generation, that of its spec.     *)
Store(new) ==
    /\ dep' = new
    /\ event' = IF new = dep THEN event
                ELSE IF event = "wake" \/ new.there # dep.there \/ new.template # dep.template
                THEN "wake" ELSE "quiet"

-----------------------------------------------------------------------------
(* A fresh installation, or one upgraded from a version with registries.   *)
BSLOf(l) == [there |-> TRUE, labelled |-> l.kind = "velero", default |-> l.default, slow |-> l.slow]

Init ==
    /\ \E start \in Starts :
         /\ spec = start.spec /\ secrets = start.secrets /\ cloud = start.cloud
         /\ budget = start.events
    /\ read = spec
    /\ \/ bsls = [i \in Indices |-> NoBSL] /\ legacy = {}
       \/ /\ bsls = [i \in Indices |-> IF i <= Len(spec.bsls) THEN BSLOf(spec.bsls[i]) ELSE NoBSL]
          /\ legacy = {"registries", "services", "routes"} \X {i \in Indices : bsls[i].labelled}
                          \cup {<<"config", 0>>}
    /\ dep = NoDeployment /\ view = dep /\ event = "none"
    /\ queued = TRUE
    /\ pc = "idle"
    /\ seen = {}
    /\ valid = FALSE /\ calm = TRUE

UserEdit ==
    /\ Spend
    /\ spec' \in Edits \ {spec}
    /\ queued' = TRUE
    /\ valid' = FALSE /\ calm' = FALSE
    /\ UNCHANGED <<secrets, cloud, bsls, legacy, dep, view, event, pc, read, seen>>

(* labelHandler and the predicate: creating an unlabelled secret and       *)
(* updating one wake nobody, deleting a labelled one does.                 *)
UserSecret(n) ==
    /\ Spend
    /\ \/ \E c \in Contents : secrets' = [secrets EXCEPT ![n].there = TRUE, ![n].lines = c] /\ UNCHANGED queued
       \/ /\ secrets[n].there
          /\ secrets' = [secrets EXCEPT ![n].there = FALSE, ![n].labelled = FALSE]
          /\ queued' = (queued \/ secrets[n].labelled)
    /\ valid' = FALSE /\ calm' = FALSE
    /\ UNCHANGED <<spec, cloud, bsls, legacy, dep, view, event, pc, read, seen>>

(* The CloudStorage comes or goes; the DPA controller does not watch it. *)
UserCloudStorage ==
    /\ Spend
    /\ IF cloud = "none" THEN cloud' \in {"aws", "gcp"} ELSE cloud' = "none"
    /\ valid' = FALSE /\ calm' = FALSE
    /\ UNCHANGED <<spec, secrets, bsls, legacy, dep, view, event, queued, pc, read, seen>>

(* Somebody edits the metadata of the Deployment, or deletes it. *)
UserDeployment ==
    /\ Spend
    /\ dep.there
    /\ \/ \E f \in {"none", "label", "note", "clash"} \ {dep.foreign} : Store([dep EXCEPT !.foreign = f])
       \/ Store(NoDeployment)
    /\ calm' = FALSE
    /\ UNCHANGED <<spec, secrets, cloud, bsls, legacy, view, queued, pc, read, seen, valid>>

(* The Deployment controller rolls a new template out and counts it. *)
RollOut ==
    /\ dep.there /\ dep.rolled # dep.template
    /\ Store([dep EXCEPT !.rolled = dep.template, !.revision = 1 - @])
    /\ UNCHANGED <<spec, secrets, cloud, bsls, legacy, view, queued, pc, read, seen, valid, calm, budget>>

Inform ==
    /\ event # "none"
    /\ view' = dep
    /\ queued' = (queued \/ event = "wake")
    /\ event' = "none"
    /\ UNCHANGED <<spec, secrets, cloud, bsls, legacy, dep, pc, read, seen, valid, calm, budget>>

Restart ==
    /\ Spend
    /\ view' = dep /\ event' = "none" /\ queued' = TRUE /\ pc' = "idle"
    /\ calm' = FALSE
    /\ UNCHANGED <<spec, secrets, cloud, bsls, legacy, dep, read, seen, valid>>

-----------------------------------------------------------------------------
There(n) == n \in SecretNames /\ secrets[n].there

(* verifySecretContent: the key exists and is not empty. *)
HasData(n) == There(n) /\ secrets[n].lines # <<>>

(* getSecretNameAndKey and getSecretNameAndKeyFromCloudStorage: the name   *)
(* is looked up by the provider as written, so there is no default secret  *)
(* for one with a prefix.                                                  *)
SecretOf(l) ==
    IF l.cred = "own" \/ (l.cred = "file" /\ l.kind = "velero") THEN "own"
    ELSE IF l.cred = "none" /\ l.kind = "velero" /\ ~l.prefixed /\ l.provider \in Providers
    THEN DefaultSecret[l.provider] ELSE ""

(* The secret a snapshot location is validated with ... *)
SnapshotSecret(v) == IF v.cred = "own" THEN "own" ELSE DefaultSecret[v.provider]

ensureSecretDataExists(s, l) ==
    \/ s.noSecret
    \/ LET provider == IF l.kind = "cloud" THEN cloud ELSE l.provider
           lines == secrets[SecretOf(l)].lines
       IN  /\ IF l.cred = "file" THEN There(SecretOf(l)) ELSE HasData(SecretOf(l))
           /\ provider # "none"
           /\ s.images => CASE provider = "aws" -> parseAWSSecret(lines, l.profile).ok
                            [] provider = "azure" -> parseAzureSecret(lines).ok
                            [] OTHER -> TRUE

(* validateProviderPluginAndSecret and the validation of each provider. *)
ValidateProvider(s, l) ==
    /\ l.provider \in Providers
    /\ s.noSecret \/ There(SecretOf(l))
    /\ l.storage

ValidateBackupStorageLocations(s) ==
    LET Defaults == {i \in DOMAIN s.bsls : s.bsls[i].default}
    IN  /\ \A i \in DOMAIN s.bsls :
             LET l == s.bsls[i]
             IN  /\ l.kind \in {"velero", "cloud"}
                 /\ s.images => l.prefix
                 /\ ensureSecretDataExists(s, l)
                 /\ l.named => l.default
                 /\ l.kind = "velero" => ValidateProvider(s, l)
        /\ Cardinality(Defaults) <= 1
        /\ Defaults = {} => s.noDefault

containsPlugin(s, provider) == \E p \in s.plugins : ProviderName[p] = provider

(* ensureVslSecretDataExists trusts a credentialsFile. *)
ValidateVolumeSnapshotLocations(s) ==
    \A i \in DOMAIN s.vsls :
        LET v == s.vsls[i]
        IN  /\ v.provider \in Providers /\ v.config
            /\ containsPlugin(s, v.provider)
            /\ \/ s.noSecret \/ v.cred = "file"
               \/ v.cred # "empty" /\ HasData(SnapshotSecret(v))

LastLocationDecides(s) ==
    LET Speaks(p) == {i \in DOMAIN s.bsls : s.bsls[i].kind = "velero" /\ s.bsls[i].provider = p}
    IN  {p \in Providers : /\ ~s.noDefault /\ Speaks(p) # {}
                           /\ s.bsls[Max(Speaks(p))].cred \in {"none", "file"}}

(* noDefaultCredentials, with the error of a CloudStorage that is missing: *)
(* the providers that need their default secret.                           *)
noDefaultCredentials(s) ==
    LET Locations == IF s.noDefault THEN {} ELSE Range(s.bsls)
        HasCloudStorage == \E l \in Locations : l.kind = "cloud" /\ l.cred # "none"
    IN  {ProviderName[p] : p \in {q \in s.plugins : s.noDefault /\ s.mtc /\ ProviderName[q] # ""}}
        \cup {l.provider : l \in {k \in Locations : k.kind = "velero" /\ k.cred \in {"none", "file"}}}
        \cup {cloud : l \in {k \in Locations : k.kind = "cloud" /\ k.cred = "none"}}
        \cup {v.provider : v \in {w \in Range(s.vsls) : /\ w.cred \in {"none", "file"}
                                                        /\ ~(w.provider = "aws" /\ HasCloudStorage)}}

(* The error of noDefaultCredentials. *)
CloudStorageMissing(s) ==
    ~s.noDefault /\ cloud = "none" /\ \E l \in Range(s.bsls) : l.kind = "cloud" /\ l.cred = "none"

TrustPlugins(s) ==
    /\ ~CloudStorageMissing(s)
    /\ ~({"aws", "legacy-aws"} \subseteq s.plugins)

(* The secrets of a plugin's locations are looked up, by the name of the   *)
(* plugin: nobody's provider is "legacy-aws".                              *)
ValidateVeleroPlugins(s) ==
    /\ ~CloudStorageMissing(s)
    /\ ~({"aws", "legacy-aws"} \subseteq s.plugins)
    /\ \A p \in s.plugins :
         ProviderName[p] \in noDefaultCredentials(s) /\ ~s.noDefault /\ ~s.noSecret =>
            \A l \in {k \in Range(s.bsls) : k.kind = "velero"} \cup Range(s.vsls) :
                l.provider = p => There(IF l.cred = "own" THEN "own" ELSE DefaultSecret[p])

(* With nonAdmin, the default location found in the cluster must be synced *)
(* often enough.  If the operator labelled it, the spec's default entry    *)
(* counts instead; the search for it dereferences every entry it passes    *)
(* and, if there is none, indexes the spec with the place in the list.     *)
FirstDefault(s) ==
    {i \in DOMAIN s.bsls : /\ s.bsls[i].kind = "velero" /\ s.bsls[i].default
                           /\ \A j \in 1 .. i - 1 : s.bsls[j].kind = "velero" /\ ~s.bsls[j].default}

DefaultBSLRefused(s, i) ==
    IF bsls[i].labelled
    THEN FirstDefault(s) = {} \/ \E j \in FirstDefault(s) : s.bsls[j].slow
    ELSE bsls[i].slow

(* The default locations of which the list may show one first. *)
DefaultBSLs == {i \in Indices : bsls[i].there /\ bsls[i].default}

ValidateNonAdmin(s) ==
    s.nonAdmin # "unset" =>
        /\ s.nonAdmin = "good"
        /\ DefaultBSLs = {} \/ \E i \in DefaultBSLs : ~DefaultBSLRefused(s, i)

MayRefuseNonAdmin(s) ==
    s.nonAdmin # "unset" /\ (s.nonAdmin = "bad" \/ \E i \in DefaultBSLs : DefaultBSLRefused(s, i))

ValidSpec(s) ==
    /\ ~s.refused
    /\ IF s.noDefault THEN s.bsls = <<>> /\ ~s.images ELSE s.bsls # <<>>
    /\ ValidateBackupStorageLocations(s)
    /\ ValidateVolumeSnapshotLocations(s)
    /\ ValidateVeleroPlugins(s)

-----------------------------------------------------------------------------
Start ==
    /\ pc = "idle" /\ queued
    /\ queued' = FALSE
    /\ pc' = "validate" /\ read' = spec
    /\ UNCHANGED <<spec, secrets, cloud, bsls, legacy, dep, view, event, seen, valid, calm, budget>>

(* An error, or a panic that the work queue's loop recovers. *)
Fail == pc' = "idle" /\ queued' = TRUE

Continue(next) == pc' = next /\ UNCHANGED queued

(* A call to the API server fails. *)
Fault == Spend /\ calm' = FALSE /\ Fail

ValidateDataProtectionCR ==
    /\ pc = "validate"
    /\ \/ /\ ValidSpec(read) /\ ValidateNonAdmin(read)
          /\ seen' = {n \in SecretNames : secrets[n].there}
          /\ valid' = (valid \/ read = spec)
          /\ Continue("locations")
       \/ /\ ~ValidSpec(read) \/ MayRefuseNonAdmin(read)
          /\ Fail
          /\ UNCHANGED <<seen, valid>>
    /\ UNCHANGED <<spec, secrets, cloud, bsls, legacy, dep, view, event, read, calm, budget>>

(* UpdateCredentialsSecretLabels, for the secrets of some locations. *)
Labelled(names) ==
    [n \in SecretNames |-> [secrets[n] EXCEPT !.labelled = @ \/ (n \in names /\ There(n))]]

(* A location cannot be made: its secret is missing, even if the no-secret *)
(* flag kept that from being validated, or its CloudStorage is, or is not  *)
(* on AWS.                                                                 *)
Blocked(l) == ~There(SecretOf(l)) \/ (l.kind = "cloud" /\ cloud # "aws")

(* The labels of a location the operator has made before stay. *)
Made(k) ==
    [i \in Indices |->
        IF i > k THEN bsls[i]
        ELSE [BSLOf(read.bsls[i]) EXCEPT !.labelled = @ \/ bsls[i].labelled]]

(* Only labelled locations are listed, and extra ones deleted only if      *)
(* their number differs from the spec's.                                   *)
Pruned(made) ==
    IF Cardinality({i \in Indices : made[i].labelled}) = Len(read.bsls) THEN made
    ELSE [i \in Indices |-> IF i > Len(read.bsls) /\ made[i].labelled THEN NoBSL ELSE made[i]]

(* k locations are made, and the next one fails or there is none. *)
ReconcileBackupStorageLocations ==
    /\ pc = "locations"
    /\ \E k \in 0 .. Len(read.bsls) :
         /\ \A i \in 1 .. k : ~Blocked(read.bsls[i])
         /\ secrets' = Labelled({SecretOf(read.bsls[i]) : i \in 1 .. Min({k + 1, Len(read.bsls)})})
         /\ IF k = Len(read.bsls)
            THEN bsls' = Pruned(Made(k)) /\ Continue("registries") /\ UNCHANGED <<calm, budget>>
            ELSE /\ bsls' = Made(k)
                 /\ IF Blocked(read.bsls[k + 1]) THEN Fail /\ UNCHANGED <<calm, budget>> ELSE Fault
    /\ UNCHANGED <<spec, cloud, legacy, dep, view, event, read, seen, valid>>

(* The locations whose registry objects of a kind a loop asks for. *)
Listed(kind) == IF kind = "config" THEN {0} ELSE {i \in Indices : bsls[i].labelled}

(* ReconcileRegistries, ReconcileRegistrySVCs, ReconcileRegistryRoutes,    *)
(* ReconcileRegistryRouteConfigs: the objects are deleted in the order of  *)
(* the list, which is arbitrary; the first one that is missing ends the    *)
(* loop with success, a failing call with an error.                        *)
Sweep(kind) ==
    /\ pc = kind
    /\ LET present == {i \in Listed(kind) : <<kind, i>> \in legacy}
       IN  \E gone \in SUBSET present :
             /\ legacy' = legacy \ ({kind} \X gone)
             /\ \/ /\ gone = present \/ present # Listed(kind)
                   /\ Continue(StepAfter[kind]) /\ UNCHANGED <<calm, budget>>
                \/ gone # present /\ Fault
    /\ UNCHANGED <<spec, secrets, cloud, bsls, dep, view, event, read, seen, valid>>

(* LabelVSLSecrets: without a credential the default secret is labelled.   *)
LabelVSLSecrets ==
    /\ pc = "snapshots"
    /\ LET Missing == {i \in DOMAIN read.vsls : ~There(SnapshotSecret(read.vsls[i]))}
       IN  /\ secrets' = Labelled({SnapshotSecret(read.vsls[i]) :
                                     i \in {j \in DOMAIN read.vsls : \A m \in Missing : j < m}})
           /\ IF Missing = {} THEN Continue("velero") ELSE Fail
    /\ UNCHANGED <<spec, cloud, bsls, legacy, dep, view, event, read, seen, valid, calm, budget>>

-----------------------------------------------------------------------------
PluginSecret(p) == IF ProviderName[p] = "" THEN "" ELSE DefaultSecret[ProviderName[p]]

(* appendPluginSpecificSpecs: the secrets mounted into the Velero pod. *)
Mounts(s) ==
    {PluginSecret(p) : p \in {q \in s.plugins : /\ ProviderName[q] # ""
                                                /\ ProviderName[q] \in noDefaultCredentials(s)
                                                /\ s.noDefault => s.mtc}}

KeepRevisionAmongNotes(template) == IF template.note THEN template ELSE [template EXCEPT !.revision = -1]

(* The annotation of the Deployment controller stays out of the template. *)
setPodTemplateSpecDefaults(template) == [template EXCEPT !.revision = -1]

(* buildVeleroDeployment takes the annotations of the Deployment it found, *)
(* the Deployment controller's among them, into the pod template.          *)
buildVeleroDeployment ==
    setPodTemplateSpecDefaults(
        [plugins |-> read.plugins, mounts |-> Mounts(read),
         note |-> view.foreign = "note", revision |-> IF view.there THEN view.revision ELSE -1])

BuildFails == read.late \/ view.foreign = "clash" \/ CloudStorageMissing(read)

(* A merge patch of what the built template changes in the copy read. *)
Patched(built) == [f \in DOMAIN built |-> IF built[f] = view.template[f] THEN dep.template[f] ELSE built[f]]

(* ReconcileVeleroDeployment: an extra label on the Deployment gets into   *)
(* its selector, which the API server refuses to change; the Deployment is *)
(* then deleted and the function called again.                             *)
ReconcileVeleroDeployment ==
    /\ pc = "velero"
    /\ \/ /\ BuildFails
          /\ Fail /\ UNCHANGED <<dep, event>>
       \/ /\ ~BuildFails /\ ~view.there
          /\ IF dep.there THEN Fail /\ UNCHANGED <<dep, event>>
             ELSE /\ Store([NoDeployment EXCEPT !.there = TRUE, !.template = buildVeleroDeployment])
                  /\ Continue("idle")
       \/ /\ ~BuildFails /\ view.there /\ view.foreign = "label"
          /\ IF dep.there THEN Store(NoDeployment) /\ Continue("velero")
             ELSE Fail /\ UNCHANGED <<dep, event>>
       \/ /\ ~BuildFails /\ view.there /\ view.foreign # "label"
          /\ IF buildVeleroDeployment = view.template THEN Continue("idle") /\ UNCHANGED <<dep, event>>
             ELSE IF dep.there
             THEN /\ Store([dep EXCEPT !.template = Patched(buildVeleroDeployment)])
                  /\ Continue("idle")
             ELSE Fail /\ UNCHANGED <<dep, event>>
    /\ UNCHANGED <<spec, secrets, cloud, bsls, legacy, view, read, seen, valid, calm, budget>>

CallFails ==
    /\ pc \in {"validate", "snapshots", "velero"}
    /\ Fault
    /\ UNCHANGED <<spec, secrets, cloud, bsls, legacy, dep, view, event, read, seen, valid>>

(* One pass of the DPA controller, as far as the Velero Deployment. *)
Reconcile ==
    \/ Start
    \/ ValidateDataProtectionCR
    \/ ReconcileBackupStorageLocations
    \/ \E kind \in Kinds : Sweep(kind)
    \/ LabelVSLSecrets
    \/ ReconcileVeleroDeployment

Next ==
    \/ UserEdit
    \/ \E n \in SecretNames : UserSecret(n)
    \/ UserCloudStorage
    \/ UserDeployment
    \/ RollOut
    \/ Inform
    \/ Restart
    \/ CallFails
    \/ Reconcile

(* The worker, the informer and the Deployment controller keep running. *)
Fairness == WF_vars(Reconcile) /\ WF_vars(Inform) /\ WF_vars(RollOut)

Spec == Init /\ [][Next]_vars /\ Fairness

-----------------------------------------------------------------------------
AtRest == pc = "idle" /\ ~queued /\ event = "none"

(* When validation reads a secret, whatever it holds, parseAWSSecret takes *)
(* a profile's keys from sections of that profile, and accepts a profile   *)
(* written once exactly if it is usable: validation neither refuses good   *)
(* credentials nor lets keys of another profile pass for them.             *)
ParserAgrees ==
    pc = "validate" =>
        \A n \in {m \in SecretNames : secrets[m].there}, profile \in {"default", "backup"} :
            ReadsOwnProfile(secrets[n].lines, profile)

(* The reasons for mounting a secret that validation has not looked up:    *)
(* no-secret, an MTC installation without locations, and a location with a *)
(* credentialsFile whose plugin is legacy-aws.                             *)
Unchecked(s) ==
    \/ s.noSecret \/ s.noDefault
    \/ "legacy-aws" \in s.plugins /\ \E l \in Range(s.bsls) \cup Range(s.vsls) : l.cred = "file"

(* ReconcileVeleroDeployment writes no template that mounts a secret which *)
(* validation of the same pass did not find, but for those reasons: a pod  *)
(* that mounts a missing secret never starts.                              *)
MountsChecked ==
    [][ dep' # dep /\ dep'.there /\ dep'.template.mounts # dep.template.mounts =>
            Unchecked(read) \/ dep'.template.mounts \subseteq seen ]_vars

(* `mounts` has the default secret of each location that has no credential *)
(* of its own and whose plugin is listed.                                  *)
Fits(s, mounts) ==
    /\ \A l \in Range(s.bsls) :
         /\ l.kind = "velero" /\ l.cred = "none" /\ containsPlugin(s, l.provider)
         => DefaultSecret[l.provider] \in mounts
    /\ \A v \in Range(s.vsls) :
         v.cred = "none" /\ ~s.noDefault =>
            \/ DefaultSecret[v.provider] \in mounts
            \/ v.provider = "aws" /\ \E l \in Range(s.bsls) : l.kind = "cloud" /\ l.cred # "none"

(* When the worker rests, the Deployment mounts the default secret of each *)
(* location that has no credential of its own and whose plugin is listed;  *)
(* snapshot locations are excepted without backup locations, and on AWS    *)
(* next to a CloudStorage with its own credential (noDefaultCredentials).  *)
DefaultsMounted == AtRest /\ dep.there => Fits(spec, dep.template.mounts)

(* After an upgrade in which no call failed and nobody intervened, nothing *)
(* is left of the registries once the worker rests (the loops of           *)
(* ReconcileRegistries and its siblings end at the first missing object).  *)
LegacySwept == AtRest /\ calm => legacy = {}

(* The operator and the Deployment controller stop changing the            *)
(* Deployment: the revision the one counts never makes the other write a   *)
(* new template (setPodTemplateSpecDefaults).                              *)
Settles == <>[][dep' = dep]_vars

(* What validation accepts and the later steps can never carry out. *)
Stuck ==
    \/ spec.late \/ dep.foreign = "clash"
    \/ \E l \in Range(spec.bsls) : Blocked(l)
    \/ \E v \in Range(spec.vsls) : ~There(SnapshotSecret(v))
    \/ MayRefuseNonAdmin(spec)

(* Once users are quiet and the operator has validated what they left, the *)
(* Deployment is there for good, with the plugins and the secrets of the   *)
(* spec, or a later step is stuck: no deletion, relabelling, stale copy or *)
(* restart makes ReconcileVeleroDeployment give up.                        *)
Delivered ==
    <>[](valid => \/ Stuck
                  \/ dep.there /\ dep.template.plugins = spec.plugins /\ dep.template.mounts = Mounts(spec))

-----------------------------------------------------------------------------
(* The invariant the safety properties rest on.                            *)

(* An idle worker has worked on the spec as it is, and what wakes it tells *)
(* of every difference between the cached Deployment's spec and the real   *)
(* one's.                                                                  *)
Fresh ==
    /\ ~queued => read = spec
    /\ event # "wake" => view.there = dep.there /\ view.template = dep.template

(* The pass is beyond ValidateDataProtectionCR. *)
Validated == pc \in {"locations", "snapshots", "velero"} \cup Kinds

(* What validation says of a spec, whatever becomes of the cluster later. *)
Checked(s) ==
    /\ s.noDefault => s.bsls = <<>>
    /\ \A l \in Range(s.bsls) : l.kind = "velero" => l.provider \in Providers
    /\ \A v \in Range(s.vsls) : v.provider \in Providers /\ containsPlugin(s, v.provider)

(* What it says of the secrets: the mounts do not depend on the            *)
(* CloudStorage, which may change, and it has found them all.              *)
Found(s) ==
    /\ \A l \in Range(s.bsls) : l.kind = "cloud" => l.cred # "none"
    /\ Mounts(s) \subseteq seen

(* A worker that rests, and that no event is about to wake, has left the   *)
(* Deployment with the mounts of the spec.                                 *)
Resting ==
    pc = "idle" /\ ~queued /\ event # "wake" /\ dep.there => Fits(spec, dep.template.mounts)

(* Of the registries' objects, a kind is there for all of its listed       *)
(* locations or for none; the kinds of the steps behind the worker are     *)
(* gone.                                                                   *)
Whole(kind) ==
    \/ \A i \in Indices \cup {0} : <<kind, i>> \notin legacy
    \/ \A i \in Indices \cup {0} : <<kind, i>> \in legacy <=> i \in Listed(kind)

Behind ==
    CASE pc = "services" -> {"registries"}
      [] pc = "routes" -> {"registries", "services"}
      [] pc = "config" -> {"registries", "services", "routes"}
      [] pc \in {"snapshots", "velero"} \/ (pc = "idle" /\ ~queued) -> Kinds
      [] OTHER -> {}

Sweeping ==
    calm =>
        /\ read = spec
        /\ \/ legacy = {}
           \/ /\ \A kind \in Kinds : Whole(kind)
              /\ \A i \in Indices : bsls[i].labelled <=> i <= Len(spec.bsls) /\ spec.bsls[i].kind = "velero"
        /\ \A kind \in Behind : \A i \in Indices \cup {0} : <<kind, i>> \notin legacy

IInv ==
    /\ TypeOK
    /\ Fresh
    /\ Validated => Checked(read) /\ (Unchecked(read) \/ Found(read))
    /\ Resting
    /\ Sweeping
=============================================================================
