----------------------------- MODULE NodeAgent -----------------------------
(***************************************************************************)
(* The ConfigMaps of the node agent, of the backup repository and of the   *)
(* repository maintenance, and the node agent's DaemonSet: nodeagent.go,   *)
(* backup_repository.go and repository_maintenance.go.  In one batch the   *)
(* DPA worker brings the ConfigMaps in line with the spec and then builds  *)
(* the DaemonSet, whose pod template names the node agent's ConfigMap and  *)
(* carries the ConfigMap's resourceVersion as a label, so that the pods    *)
(* restart when it changes.  The version is that of the cached ConfigMap.  *)
(*                                                                         *)
(* The ConfigMaps carry OadpOperatorLabel and have no generation: creation *)
(* and deletion wake the worker, updates do not.  The DaemonSet carries no *)
(* such label: none of its events does.  A spec is a record of a Boolean   *)
(* `on' (the agent is enabled) and, for each ConfigMap, the settings that  *)
(* go into it, or "none".                                                  *)
(***************************************************************************)
EXTENDS Naturals

CONSTANTS
    Specs, Settings,
    Exposed,   \* the ConfigMaps somebody else changes
    MaxEdits, MaxTampers,
    MaxMishaps \* calls that fail and restarts of the operator

CMs == {"agent", "repository", "maintenance"}

ASSUME SpecAssumption ==
    /\ "none" \notin Settings
    /\ Exposed \subseteq CMs
    /\ Specs \subseteq [on : BOOLEAN, agent : Settings \cup {"none"},
                        repository : Settings \cup {"none"},
                        maintenance : Settings \cup {"none"}]

ASSUME BoundAssumption ==
    MaxEdits \in Nat /\ MaxTampers \in Nat /\ MaxMishaps \in Nat

VARIABLES
    dpa,      \* the DPA in the API server: [spec, ver]
    cache,    \* the informer's copy of it
    cm,       \* cm[k]: the ConfigMap: [data, rv]; data is "none" if there is none
    view,     \* view[k]: the informer's copy of it
    event,    \* event[k]: its undelivered watch events
    ds,       \* the DaemonSet: [on, config, dying]; config is the version it runs, or 0
    dsView,   \* the informer's copy of it
    queued,   \* the work queue holds the DPA's key
    pc,       \* the next function of the batch
    read,     \* r.dpa
    missed,   \* of what some build of the DaemonSet did not see the latest state
    budget

vars == <<dpa, cache, cm, view, event, ds, dsView, queued, pc, read, missed, budget>>

ConfigMaps == [data : Settings \cup {"none"}, rv : Nat]

DaemonSets == [on : BOOLEAN, config : Nat, dying : BOOLEAN]

NoDS == [on |-> FALSE, config |-> 0, dying |-> FALSE]

TypeOK ==
    /\ dpa \in [spec : Specs, ver : Nat] /\ cache \in [spec : Specs, ver : Nat]
    /\ read \in [spec : Specs, ver : Nat]
    /\ cm \in [CMs -> ConfigMaps] /\ view \in [CMs -> ConfigMaps]
    /\ event \in [CMs -> {"none", "quiet", "wake"}]
    /\ ds \in DaemonSets /\ dsView \in DaemonSets
    /\ ds.config <= cm["agent"].rv /\ (~ds.on => ds = NoDS)
    /\ queued \in BOOLEAN
    /\ pc \in {"idle", "daemonset", "status"} \cup CMs
    /\ missed \subseteq {"DaemonSet", "ConfigMap"}
    /\ budget \in [edits : Nat, tampers : Nat, mishaps : Nat]

Spend(what) == budget[what] > 0 /\ budget' = [budget EXCEPT ![what] = @ - 1]

(* The API server counts a version per write that changes something. *)
Store(k, data) ==
    IF data = cm[k].data THEN UNCHANGED <<cm, event>>
    ELSE /\ cm' = [cm EXCEPT ![k] = [data |-> data, rv |-> @.rv + 1]]
         /\ event' = [event EXCEPT ![k] =
              IF @ = "wake" \/ cm[k].data = "none" \/ data = "none" THEN "wake" ELSE "quiet"]

-----------------------------------------------------------------------------
Init ==
    /\ \E s \in Specs : dpa = [spec |-> s, ver |-> 1]
    /\ cache = dpa /\ read = dpa
    /\ cm = [k \in CMs |-> [data |-> "none", rv |-> 0]]
    /\ view = cm
    /\ event = [k \in CMs |-> "none"]
    /\ ds = NoDS /\ dsView = NoDS
    /\ queued = TRUE
    /\ pc = "idle"
    /\ missed = {}
    /\ budget = [edits |-> MaxEdits, tampers |-> MaxTampers, mishaps |-> MaxMishaps]

UserEdit(s) ==
    /\ s # dpa.spec
    /\ Spend("edits")
    /\ dpa' = [spec |-> s, ver |-> dpa.ver + 1]
    /\ UNCHANGED <<cache, cm, view, event, ds, dsView, queued, pc, read, missed>>

(* Somebody else changes or deletes a ConfigMap, or deletes the DaemonSet. *)
Tamper(k, data) ==
    /\ cm[k].data \notin {data, "none"}
    /\ Spend("tampers")
    /\ Store(k, data)
    /\ UNCHANGED <<dpa, cache, view, ds, dsView, queued, pc, read, missed>>

RemoveDaemonSet ==
    /\ ds.on
    /\ Spend("tampers")
    /\ ds' = NoDS
    /\ UNCHANGED <<dpa, cache, cm, view, event, dsView, queued, pc, read, missed>>

(* A foreground deletion ends once the pods are gone. *)
CollectDaemonSet ==
    /\ ds.dying
    /\ ds' = NoDS
    /\ UNCHANGED <<dpa, cache, cm, view, event, dsView, queued, pc, read, missed, budget>>

InformDPA ==
    /\ cache # dpa
    /\ cache' = dpa
    /\ queued' = TRUE
    /\ UNCHANGED <<dpa, cm, view, event, ds, dsView, pc, read, missed, budget>>

InformConfigMapSilently(k) ==
    /\ event[k] # "none"
    /\ view' = [view EXCEPT ![k] = cm[k]]
    /\ event' = [event EXCEPT ![k] = "none"]
    /\ UNCHANGED <<dpa, cache, cm, ds, dsView, queued, pc, read, missed, budget>>

InformConfigMap(k) ==
    /\ event[k] # "none"
    /\ view' = [view EXCEPT ![k] = cm[k]]
    /\ event' = [event EXCEPT ![k] = "none"]
    /\ queued' = (queued \/ event[k] = "wake")
    /\ UNCHANGED <<dpa, cache, cm, ds, dsView, pc, read, missed, budget>>

InformDaemonSet ==
    /\ dsView # ds
    /\ dsView' = ds
    /\ UNCHANGED <<dpa, cache, cm, view, event, ds, queued, pc, read, missed, budget>>

-----------------------------------------------------------------------------
Start ==
    /\ pc = "idle" /\ queued
    /\ queued' = FALSE
    /\ read' = cache
    /\ pc' = "agent"
    /\ UNCHANGED <<dpa, cache, cm, view, event, ds, dsView, missed, budget>>

FailSilently == pc' = "idle" /\ UNCHANGED queued

Fail == pc' = "idle" /\ queued' = TRUE

Continue(next) == pc' = next /\ UNCHANGED queued

(* isNodeAgentCMRequired and its kin: what the ConfigMap is to hold.  The  *)
(* agent's is not wanted while the agent is disabled; the others do not    *)
(* look at that.                                                           *)
Wanted(s, k) == IF k = "agent" /\ ~s.on THEN "none" ELSE s[k]

ReconcileWithoutDeletion(k, next) ==
    /\ pc = k
    /\ LET want == Wanted(read.spec, k)
       IN  \/ /\ want \in {"none", view[k].data}
              /\ Continue(next) /\ UNCHANGED <<cm, event>>
           \/ /\ want \notin {"none", view[k].data}
              /\ IF (cm[k].data = "none") = (view[k].data = "none")
                 THEN Store(k, want) /\ Continue(next)
                 ELSE Fail /\ UNCHANGED <<cm, event>>
    /\ UNCHANGED <<dpa, cache, view, ds, dsView, read, missed, budget>>

(* Get and Delete, or CreateOrPatch, against the cached ConfigMap.  A      *)
(* Delete accepts NotFound; a create fails if the ConfigMap exists after   *)
(* all, a patch if it has gone.                                            *)
ReconcileConfigMap(k, next) ==
    /\ pc = k
    /\ LET want == Wanted(read.spec, k)
           exists == cm[k].data # "none"
           cached == view[k].data # "none"
       IN  \/ /\ view[k].data = want
              /\ Continue(next) /\ UNCHANGED <<cm, event>>
           \/ /\ view[k].data # want
              /\ want = "none" \/ exists = cached
              /\ Store(k, want) /\ Continue(next)
           \/ /\ view[k].data # want /\ want # "none" /\ exists # cached
              /\ Fail /\ UNCHANGED <<cm, event>>
    /\ UNCHANGED <<dpa, cache, view, ds, dsView, read, missed, budget>>

ReconcileNodeAgentConfigMap == ReconcileConfigMap("agent", "repository")

ReconcileBackupRepositoryConfigMap == ReconcileConfigMap("repository", "maintenance")

ReconcileRepositoryMaintenanceConfigMap == ReconcileConfigMap("maintenance", "daemonset")

buildWithoutVersion ==
    IF view["agent"].data = "none" THEN 0
    ELSE IF dsView.config # 0 THEN dsView.config ELSE view["agent"].rv

(* The version buildNodeAgentDaemonset puts into the pod template, with    *)
(* the ConfigMap's name: that of the cached ConfigMap, 0 if there is none. *)
buildNodeAgentDaemonset == IF view["agent"].data = "none" THEN 0 ELSE view["agent"].rv

(* Get and Delete, which in the foreground leaves the DaemonSet until its  *)
(* pods are gone, or CreateOrPatch, which does not look whether it is      *)
(* being deleted.  Here NotFound is an error.                              *)
ReconcileNodeAgentDaemonset ==
    /\ pc = "daemonset"
    /\ LET want == [on |-> TRUE, config |-> buildNodeAgentDaemonset, dying |-> ds.dying]
           same == IF read.spec.on THEN dsView.on /\ dsView.config = want.config
                   ELSE ~dsView.on
       IN  \/ same /\ Continue("status") /\ UNCHANGED ds
           \/ /\ ~same /\ ds.on = dsView.on
              /\ ds' = IF read.spec.on THEN want ELSE [ds EXCEPT !.dying = TRUE]
              /\ Continue("status")
           \/ ~same /\ ds.on # dsView.on /\ Fail /\ UNCHANGED ds
    /\ missed' = missed \cup (IF dsView = ds /\ ~(ds.dying /\ read.spec.on) THEN {} ELSE {"DaemonSet"})
                        \cup (IF view["agent"] = cm["agent"] THEN {} ELSE {"ConfigMap"})
    /\ UNCHANGED <<dpa, cache, cm, view, event, dsView, read, budget>>

(* A call of one of the functions or the status update fails. *)
CallFails ==
    /\ pc # "idle"
    /\ Spend("mishaps")
    /\ Fail
    /\ UNCHANGED <<dpa, cache, cm, view, event, ds, dsView, read, missed>>

(* The rest of the batch and the status update, which conflicts if the DPA *)
(* has changed since it was read.                                          *)
Finish ==
    /\ pc = "status"
    /\ pc' = "idle"
    /\ queued' = (queued \/ read.ver # dpa.ver)
    /\ UNCHANGED <<dpa, cache, cm, view, event, ds, dsView, read, missed, budget>>

Restart ==
    /\ Spend("mishaps")
    /\ cache' = dpa /\ view' = cm /\ dsView' = ds
    /\ event' = [k \in CMs |-> "none"]
    /\ queued' = TRUE
    /\ pc' = "idle"
    /\ UNCHANGED <<dpa, cm, ds, read, missed>>

Worker ==
    \/ Start
    \/ ReconcileNodeAgentConfigMap \/ ReconcileBackupRepositoryConfigMap
    \/ ReconcileRepositoryMaintenanceConfigMap \/ ReconcileNodeAgentDaemonset
    \/ CallFails \/ Finish

Next ==
    \/ Worker
    \/ InformDPA \/ InformDaemonSet \/ CollectDaemonSet \/ \E k \in CMs : InformConfigMap(k)
    \/ \E s \in Specs : UserEdit(s)
    \/ \E k \in Exposed, data \in Settings \cup {"none"} : Tamper(k, data)
    \/ RemoveDaemonSet \/ Restart

Spec == Init /\ [][Next]_vars

(* The worker and the informers are goroutines that keep running. *)
FairSpec ==
    /\ Spec
    /\ WF_vars(Worker) /\ WF_vars(InformDPA) /\ WF_vars(InformDaemonSet)
    /\ \A k \in CMs : WF_vars(InformConfigMap(k))

-----------------------------------------------------------------------------
Quiescent ==
    /\ pc = "idle" /\ ~queued /\ cache = dpa /\ dsView = ds /\ ~ds.dying
    /\ \A k \in CMs : event[k] = "none"

Untampered == budget.tampers = MaxTampers

(* At rest the DaemonSet exists exactly if the agent is enabled, unless    *)
(* somebody removed it, which nobody notices.  This needs the worker never *)
(* to have met a DaemonSet of which its cache was behind or which was      *)
(* being deleted: it would not delete one that it does not see yet, or     *)
(* would patch one that is about to go, and no event wakes it.             *)
AgentAtRest ==
    Quiescent /\ Untampered /\ "DaemonSet" \notin missed => ds.on = dpa.spec.on

(* Then at rest the pods are given a ConfigMap exactly if there is one,    *)
(* although the batch that creates or deletes the ConfigMap builds the     *)
(* DaemonSet from a cache that may not show it yet.                        *)
ConfigNamed ==
    Quiescent /\ ds.on /\ "DaemonSet" \notin missed
        => (ds.config # 0 <=> cm["agent"].data # "none")

(* If the cache always showed the ConfigMap the same batch had just        *)
(* written, the pods at rest run the version the API server holds, as long *)
(* as nobody else changes it.  Otherwise they may not: the update of a     *)
(* ConfigMap wakes nobody.                                                 *)
VersionRuns ==
    Quiescent /\ ds.on /\ Untampered /\ missed = {}
        => ds.config = IF cm["agent"].data = "none" THEN 0 ELSE cm["agent"].rv

(* Once users and faults stop, each ConfigMap exists exactly if the spec   *)
(* asks for it.                                                            *)
ConfigMapsSettle ==
    <>[](\A k \in CMs : (cm[k].data = "none") <=> (Wanted(dpa.spec, k) = "none"))

-----------------------------------------------------------------------------
(* The inductive invariant behind the three. *)

(* The copies of the DPA are versions of it. *)
CopiesAreVersions ==
    /\ cache.ver <= dpa.ver /\ (cache.ver = dpa.ver => cache = dpa)
    /\ read.ver <= dpa.ver /\ (read.ver = dpa.ver => read = dpa)
    /\ pc # "idle" => read.ver <= cache.ver

(* The copy of a ConfigMap lags behind it, and that one of them exists and *)
(* the other does not is made good by an event that wakes the worker.      *)
Mirrors(k) ==
    /\ view[k].rv <= cm[k].rv
    /\ event[k] = "none" => view[k] = cm[k]
    /\ cm[k].data # "none" => cm[k].rv > 0
    /\ view[k].data # "none" => view[k].rv > 0
    /\ event[k] # "wake" => (view[k].data = "none" <=> cm[k].data = "none")

Version == IF cm["agent"].data = "none" THEN 0 ELSE cm["agent"].rv

(* The DaemonSet exists and will stay. *)
Alive == ds.on /\ ~ds.dying

(* Once the batch has been at the DaemonSet, and until the worker is to    *)
(* look again, the DaemonSet is what a batch that saw everything makes it. *)
AgentRight == Untampered => (Alive <=> (IF pc = "idle" THEN cache ELSE read).spec.on)

ConfigRight ==
    Alive => event["agent"] = "wake" \/ (ds.config # 0 <=> cm["agent"].data # "none")

VersionRight == Alive /\ Untampered /\ missed = {} => ds.config = Version

Settled ==
    pc \in {"idle", "status"} /\ ~queued /\ "DaemonSet" \notin missed
        => AgentRight /\ ConfigRight /\ VersionRight

IInv ==
    /\ TypeOK /\ CopiesAreVersions /\ (\A k \in CMs : Mirrors(k)) /\ Settled
    /\ budget.tampers <= MaxTampers
=============================================================================
