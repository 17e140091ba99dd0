------------------------------ MODULE NonAdmin ------------------------------
(***************************************************************************)
(* The non-admin controller (NAC) that each OADP operator may deploy next  *)
(* to itself: nonadmin_controller.go, and the part of validator.go that    *)
(* wants a single NAC in the whole cluster.  One operator runs in each of  *)
(* Namespaces and serves the one DPA there.  Its batch first lists, past   *)
(* the cache, the DPAs of the other namespaces, and fails when one that    *)
(* enables the NAC has the Deployment; much later in the batch it creates, *)
(* updates or deletes its own.  Nothing locks the cluster in between.      *)
(*                                                                         *)
(* The pod template carries the resourceVersion of the DPA that last       *)
(* changed the NAC's configuration: package variables remember that        *)
(* version and the configuration, until the operator restarts.  The        *)
(* Deployment does not carry OadpOperatorLabel, so none of its events      *)
(* wakes the worker.  `missed' and `contested' are history variables.      *)
(***************************************************************************)
EXTENDS Naturals, FiniteSets

CONSTANTS
    Namespaces,
    Confs,      \* Confs[n]: what n's DPA may say: [enable, other, args]
    MaxEvents   \* edits, writes of a status, calls that fail and restarts

(* enable is nonAdmin.enable; other, the rest of spec.nonAdmin; args,      *)
(* configuration.velero.args: absent, without or with a backupSyncPeriod.  *)
Enables == {"unset", "off", "on"}

Args == {"none", "default", "period"}

ASSUME ConfAssumption ==
    Confs \in [Namespaces -> SUBSET [enable : Enables, other : Nat, args : Args]]

ASSUME BoundAssumption == MaxEvents \in Nat

VARIABLES
    dpa,       \* dpa[n]: the DPA in the API server: [conf, rv]
    cache,     \* the informer's copy of it
    dep,       \* dep[n]: the NAC's Deployment: [on, dying, note, rv]
    view,      \* the informer's copy of it
    queued,    \* the work queue of n's operator holds the DPA's key
    pc,        \* where n's worker is
    read,      \* r.dpa
    others,    \* the namespaces that n's worker has still to look at
    memo,      \* the package variables of n's operator
    missed,    \* n's last reconciliation of the Deployment saw an old state of it
    bare,      \* n's DPA has once been without velero.args
    contested, \* some operator looked while another was installing, or had left a NAC
    budget

vars == <<dpa, cache, dep, view, queued, pc, read, others, memo, missed, bare,
          contested, budget>>

(* The version of the DPA that a pod template names, 0 for none. *)
Conf == UNION {Confs[n] : n \in Namespaces}

Notes == [rv : Nat, conf : Conf]

DPAs == [conf : Conf, rv : Nat \ {0}]

Deployments == [on : BOOLEAN, dying : BOOLEAN, note : Notes, rv : Nat]

TypeOK ==
    /\ dpa \in [Namespaces -> DPAs] /\ cache \in [Namespaces -> DPAs]
    /\ read \in [Namespaces -> DPAs]
    /\ \A n \in Namespaces : cache[n].rv <= dpa[n].rv /\ read[n].rv <= cache[n].rv
    /\ dep \in [Namespaces -> Deployments] /\ view \in [Namespaces -> Deployments]
    /\ \A n \in Namespaces : /\ view[n].rv <= dep[n].rv
                             /\ view[n].rv = dep[n].rv => view[n] = dep[n]
                             /\ dep[n].dying => dep[n].on
    /\ queued \in [Namespaces -> BOOLEAN]
    /\ pc \in [Namespaces -> {"idle", "check", "apply"}]
    /\ others \in [Namespaces -> SUBSET Namespaces]
    /\ memo \in [Namespaces -> [rv : Nat, conf : Conf, sync : {"default", "period"}]]
    /\ missed \in [Namespaces -> BOOLEAN] /\ bare \in [Namespaces -> BOOLEAN]
    /\ contested \in BOOLEAN
    /\ budget \in Nat

Spend == budget > 0 /\ budget' = budget - 1

checkNonAdminEnabled(d) == d.conf.enable = "on"

NonAdminOf(c) == <<c.enable, c.other>>

(* Args.BackupSyncPeriod, which is nil ("default") when it is not given. *)
SyncPeriod(c) == IF c.args = "period" THEN "period" ELSE "default"

NoMemo(c) == [rv |-> 0, conf |-> c, sync |-> "default"]

(* The API server counts a version per write of the Deployment. *)
Store(n, on, dying, note) ==
    dep' = [dep EXCEPT ![n] = [on |-> on, dying |-> dying, note |-> note,
                               rv |-> dep[n].rv + 1]]

-----------------------------------------------------------------------------
Init ==
    /\ \E c \in [Namespaces -> Conf] :
          /\ \A n \in Namespaces : c[n] \in Confs[n]
          /\ dpa = [n \in Namespaces |-> [conf |-> c[n], rv |-> 1]]
    /\ cache = dpa /\ read = dpa
    /\ dep = [n \in Namespaces |-> [on |-> FALSE, dying |-> FALSE, rv |-> 0,
                                    note |-> [rv |-> 0, conf |-> dpa[n].conf]]]
    /\ view = dep
    /\ queued = [n \in Namespaces |-> TRUE]
    /\ pc = [n \in Namespaces |-> "idle"]
    /\ others = [n \in Namespaces |-> {}]
    /\ memo = [n \in Namespaces |-> NoMemo(dpa[n].conf)]
    /\ missed = [n \in Namespaces |-> FALSE]
    /\ bare = [n \in Namespaces |-> dpa[n].conf.args = "none"]
    /\ contested = FALSE
    /\ budget = MaxEvents

UserEdit(n, c) ==
    /\ c # dpa[n].conf
    /\ Spend
    /\ dpa' = [dpa EXCEPT ![n] = [conf |-> c, rv |-> @.rv + 1]]
    /\ bare' = [bare EXCEPT ![n] = @ \/ c.args = "none"]
    /\ UNCHANGED <<cache, dep, view, queued, pc, read, others, memo, missed, contested>>

(* A write of the DPA's status, by the end of some Reconcile or another    *)
(* client, gives it a new resourceVersion.                                 *)
WriteStatus(n) ==
    /\ Spend
    /\ dpa' = [dpa EXCEPT ![n] = [conf |-> @.conf, rv |-> @.rv + 1]]
    /\ UNCHANGED <<cache, dep, view, queued, pc, read, others, memo, missed, bare, contested>>

(* A change of the status alone leaves the generation, and wakes nobody. *)
InformDPA(n) ==
    /\ cache[n] # dpa[n]
    /\ cache' = [cache EXCEPT ![n] = dpa[n]]
    /\ queued' = [queued EXCEPT ![n] = @ \/ dpa[n].conf # cache[n].conf]
    /\ UNCHANGED <<dpa, dep, view, pc, read, others, memo, missed, bare, contested, budget>>

InformDeployment(n) ==
    /\ view[n] # dep[n]
    /\ view' = [view EXCEPT ![n] = dep[n]]
    /\ UNCHANGED <<dpa, cache, dep, queued, pc, read, others, memo, missed, bare,
                   contested, budget>>

(* A foreground deletion ends once the pods are gone. *)
CollectDeployment(n) ==
    /\ dep[n].dying
    /\ Store(n, FALSE, FALSE, dep[n].note)
    /\ UNCHANGED <<dpa, cache, view, queued, pc, read, others, memo, missed, bare,
                   contested, budget>>

Restart(n) ==
    /\ Spend
    /\ cache' = [cache EXCEPT ![n] = dpa[n]]
    /\ read' = [read EXCEPT ![n] = dpa[n]]
    /\ view' = [view EXCEPT ![n] = dep[n]]
    /\ queued' = [queued EXCEPT ![n] = TRUE]
    /\ pc' = [pc EXCEPT ![n] = "idle"]
    /\ others' = [others EXCEPT ![n] = {}]
    /\ memo' = [memo EXCEPT ![n] = NoMemo(dpa[n].conf)]
    /\ UNCHANGED <<dpa, dep, missed, bare, contested>>

-----------------------------------------------------------------------------
Installing(m) == pc[m] \in {"check", "apply"} /\ checkNonAdminEnabled(read[m])

LeftBehind(m) == dep[m].on /\ ~checkNonAdminEnabled(dpa[m])

(* Reconcile, up to the list of ValidateDataProtectionCR: a DPA that sets  *)
(* nonAdmin.enable, be it to false, looks at the other namespaces.         *)
Reconcile(n) ==
    LET rivals == {m \in Namespaces \ {n} : checkNonAdminEnabled(dpa[m])}
        look == IF cache[n].conf.enable = "unset" THEN {} ELSE rivals
    IN  /\ pc[n] = "idle" /\ queued[n]
        /\ queued' = [queued EXCEPT ![n] = FALSE]
        /\ read' = [read EXCEPT ![n] = cache[n]]
        /\ others' = [others EXCEPT ![n] = look]
        /\ pc' = [pc EXCEPT ![n] = IF look = {} THEN "apply" ELSE "check"]
        /\ contested' = (contested \/
              /\ checkNonAdminEnabled(cache[n])
              /\ \E m \in Namespaces \ {n} :
                    \/ Installing(m) /\ (~dep[m].on \/ dep[m].dying)
                    \/ LeftBehind(m))
        /\ UNCHANGED <<dpa, cache, dep, view, memo, missed, bare, budget>>

(* The end of Reconcile: an error of the batch, or of the write of the     *)
(* status under optimistic locking, puts the key back.  What the worker    *)
(* held is of no use any more.                                             *)
Finish(n, good) ==
    /\ pc' = [pc EXCEPT ![n] = "idle"]
    /\ queued' = [queued EXCEPT ![n] = @ \/ ~good \/ read[n].rv # dpa[n].rv]
    /\ read' = [read EXCEPT ![n] = cache[n]]
    /\ others' = [others EXCEPT ![n] = {}]

Pass(n, m) ==
    /\ others' = [others EXCEPT ![n] = @ \ {m}]
    /\ pc' = [pc EXCEPT ![n] = IF others[n] = {m} THEN "apply" ELSE "check"]
    /\ UNCHANGED <<queued, read>>

(* Mutant of ValidateOther: the answer is not looked at. *)
ValidateNobody(n, m) ==
    /\ pc[n] = "check" /\ m \in others[n]
    /\ Pass(n, m)
    /\ UNCHANGED <<dpa, cache, dep, view, memo, missed, bare, contested, budget>>

(* One turn of the loop of ValidateDataProtectionCR over the other DPAs. *)
ValidateOther(n, m) ==
    /\ pc[n] = "check" /\ m \in others[n]
    /\ IF dep[m].on THEN Finish(n, FALSE) ELSE Pass(n, m)
    /\ UNCHANGED <<dpa, cache, dep, view, memo, missed, bare, contested, budget>>

(* Any error of the Get counts as the absence of the Deployment. *)
ValidateOtherUnanswered(n, m) ==
    /\ pc[n] = "check" /\ m \in others[n]
    /\ Spend
    /\ Pass(n, m)
    /\ contested' = (contested \/ dep[m].on)
    /\ UNCHANGED <<dpa, cache, dep, view, memo, missed, bare>>

(* Another function of the batch fails. *)
BatchFails(n) ==
    /\ pc[n] \in {"check", "apply"}
    /\ Spend
    /\ Finish(n, FALSE)
    /\ UNCHANGED <<dpa, cache, dep, view, memo, missed, bare, contested>>

ForgetsNonAdmin(n) ==
    LET c == read[n].conf
    IN  IF memo[n].rv = 0 \/ (c.args # "none" /\ SyncPeriod(c) # memo[n].sync)
        THEN [rv |-> read[n].rv, conf |-> c, sync |-> SyncPeriod(c)] ELSE memo[n]

(* The condition and the assignments at the heart of ensureRequiredSpecs.  *)
ensureRequiredSpecs(n) ==
    LET c == read[n].conf
        given == c.args # "none"
    IN  IF \/ memo[n].rv = 0
           \/ NonAdminOf(c) # NonAdminOf(memo[n].conf)
           \/ given /\ SyncPeriod(c) # memo[n].sync
        THEN [rv |-> read[n].rv, conf |-> c,
              sync |-> IF given THEN SyncPeriod(c) ELSE memo[n].sync]
        ELSE memo[n]

(* Mutant of DeleteNonAdminController: it waits for the Deployment to go. *)
AwaitDeletion(n) ==
    /\ UNCHANGED <<memo, dep>>
    /\ Finish(n, ~view[n].on)

(* ReconcileNonAdminController when the NAC is not enabled. *)
DeleteNonAdminController(n) ==
    /\ UNCHANGED memo
    /\ IF ~view[n].on THEN Finish(n, TRUE) /\ UNCHANGED dep
       ELSE IF ~dep[n].on THEN Finish(n, FALSE) /\ UNCHANGED dep
       ELSE IF dep[n].dying THEN Finish(n, TRUE) /\ UNCHANGED dep
       ELSE Store(n, TRUE, TRUE, dep[n].note) /\ Finish(n, TRUE)

(* CreateOrUpdate: it creates what the cache does not hold, and updates    *)
(* under optimistic locking what it holds and the build has changed.       *)
CreateOrUpdateNonAdminController(n) ==
    LET wanted == ensureRequiredSpecs(n)
        note == [rv |-> wanted.rv, conf |-> wanted.conf]
    IN  /\ memo' = [memo EXCEPT ![n] = wanted]
        /\ IF ~view[n].on
           THEN IF dep[n].on THEN Finish(n, FALSE) /\ UNCHANGED dep
                ELSE Store(n, TRUE, FALSE, note) /\ Finish(n, TRUE)
           ELSE IF view[n].note = note THEN Finish(n, TRUE) /\ UNCHANGED dep
           ELSE IF view[n].rv # dep[n].rv THEN Finish(n, FALSE) /\ UNCHANGED dep
           ELSE Store(n, TRUE, dep[n].dying, note) /\ Finish(n, TRUE)

ReconcileNonAdminController(n) ==
    /\ pc[n] = "apply"
    /\ IF checkNonAdminEnabled(read[n])
       THEN CreateOrUpdateNonAdminController(n) ELSE DeleteNonAdminController(n)
    /\ missed' = [missed EXCEPT ![n] = \/ view[n] # dep[n]
                                       \/ checkNonAdminEnabled(read[n]) /\ dep[n].dying]
    /\ UNCHANGED <<dpa, cache, view, bare, contested, budget>>

Work(n) ==
    \/ Reconcile(n)
    \/ \E m \in Namespaces : ValidateOther(n, m)
    \/ ReconcileNonAdminController(n)

Next ==
    \E n \in Namespaces :
        \/ Work(n)
        \/ InformDPA(n) \/ InformDeployment(n) \/ CollectDeployment(n)
        \/ \E m \in Namespaces : ValidateOtherUnanswered(n, m)
        \/ BatchFails(n) \/ Restart(n) \/ WriteStatus(n)
        \/ \E c \in Confs[n] : UserEdit(n, c)

Fairness ==
    \A n \in Namespaces : /\ WF_vars(Work(n)) /\ WF_vars(InformDPA(n))
                          /\ WF_vars(InformDeployment(n)) /\ WF_vars(CollectDeployment(n))

Spec == Init /\ [][Next]_vars /\ Fairness

-----------------------------------------------------------------------------
Installed == {n \in Namespaces : dep[n].on}

AtRest(n) == pc[n] = "idle" /\ ~queued[n] /\ cache[n] = dpa[n]

(* The package variables tell the NAC's pod of every change it must        *)
(* restart for (ensureRequiredSpecs), and a disabled NAC is deleted: when  *)
(* the worker is at rest, and last saw the Deployment as it was, the pod   *)
(* of an enabled NAC was started for the spec.nonAdmin the DPA has now     *)
(* and, if the DPA never was without velero.args, for its sync period;     *)
(* that of a NAC which is not enabled is gone or going.                    *)
PodKnowsConfig ==
    \A n \in Namespaces : AtRest(n) /\ ~missed[n] =>
        IF checkNonAdminEnabled(dpa[n])
        THEN /\ dep[n].on
             /\ NonAdminOf(dep[n].note.conf) = NonAdminOf(dpa[n].conf)
             /\ ~bare[n] => SyncPeriod(dep[n].note.conf) = SyncPeriod(dpa[n].conf)
        ELSE ~dep[n].on \/ dep[n].dying

(* The check of ValidateDataProtectionCR and the creation at the end of    *)
(* the batch are not atomic.  Two namespaces hold a NAC only if once an    *)
(* operator listed the DPAs while another was between its list and its     *)
(* creation, or had not yet deleted a NAC its DPA no longer enables, or if *)
(* the Get of an existing Deployment failed: there is no other way.        *)
SoleUnlessContested == ~contested => \A m, n \in Installed : m = n

(* A DPA that is refused because the NAC runs elsewhere is retried: once   *)
(* one namespace alone enables it, the others not setting nonAdmin.enable  *)
(* at all, its operator ends up with the only NAC.                         *)
Handover ==
    \A n \in Namespaces :
        <>[](/\ checkNonAdminEnabled(dpa[n])
             /\ \A m \in Namespaces \ {n} : dpa[m].conf.enable = "unset"
             /\ \A m \in Namespaces : ~missed[m]) => <>[](Installed = {n})

(* SoleUnlessContested is not inductive: it needs what holds of the        *)
(* operators on their way.  Of two namespaces with a NAC or an operator    *)
(* that may create one, one has its NAC and no deletion that would cross a *)
(* creation, and the other has still to look at it.                        *)
Claims(n) == dep[n].on \/ Installing(n)

Waits(m, n) ==
    /\ Installing(m) /\ ~dep[m].on
    /\ pc[m] = "check" /\ n \in others[m]
    /\ dep[n].on /\ (Installing(n) => ~dep[n].dying)

OneAhead ==
    ~contested => \A m, n \in Namespaces :
        m # n /\ Claims(m) /\ Claims(n) => Waits(m, n) \/ Waits(n, m)

(* Nor is PodKnowsConfig.  A worker that has nothing to do and saw the     *)
(* Deployment as it was has left it fit for the cached DPA; what it has    *)
(* read under the DPA's version is the DPA; and the package variables hold *)
(* the sync period of the configuration they hold, if the DPA always gives *)
(* one.                                                                    *)
PodFits(n, c) ==
    IF c.enable = "on"
    THEN /\ dep[n].on /\ ~dep[n].dying
         /\ NonAdminOf(dep[n].note.conf) = NonAdminOf(c)
         /\ ~bare[n] => SyncPeriod(dep[n].note.conf) = SyncPeriod(c)
    ELSE ~dep[n].on \/ dep[n].dying

ToldAt(n) ==
    /\ cache[n].rv = dpa[n].rv => cache[n] = dpa[n]
    /\ read[n].rv = dpa[n].rv => read[n] = dpa[n]
    /\ ~bare[n] => /\ dpa[n].conf.args # "none" /\ cache[n].conf.args # "none"
                   /\ read[n].conf.args # "none"
                   /\ memo[n].rv # 0 => memo[n].sync = SyncPeriod(memo[n].conf)
    /\ pc[n] = "idle" /\ ~queued[n] /\ ~missed[n] => PodFits(n, cache[n].conf)

Told == \A n \in Namespaces : ToldAt(n)
=============================================================================
