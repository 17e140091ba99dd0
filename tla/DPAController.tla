--------------------------- MODULE DPAController ---------------------------
(***************************************************************************)
(* The DataProtectionApplication (DPA) controller:                         *)
(* internal/controller/dataprotectionapplication_controller.go and         *)
(* predicate.go.  One worker takes the DPA's key from a de-duplicating     *)
(* work queue, reads the DPA from the informer cache, runs the batch of    *)
(* reconcile functions, each of which brings its own object in line with   *)
(* the spec that was read, and writes the Reconciled condition with an     *)
(* optimistic lock.  Users edit or delete the DPA and tamper with the      *)
(* objects; informers deliver changes late; API calls fail; the operator   *)
(* restarts.                                                               *)
(*                                                                         *)
(* A reconcile function is identified with the object it manages.  The     *)
(* value an object has is a member of Contents; Desired(f, s) is the value *)
(* function f computes for spec s (Absent when s disables the object).     *)
(* Pending watch events of an object are folded into one: "wake" when one  *)
(* of them passes the event filter, "quiet" otherwise.                     *)
(***************************************************************************)
EXTENDS Naturals, Sequences, FiniteSets

CONSTANTS
    Funcs,           \* the reconcile functions of the batch
    Batch,           \* the order in which ReconcileBatch calls them
    Specs,           \* values of the DPA's spec
    Contents,        \* values of a managed object
    Absent,          \* no such object / no such DPA
    Desired(_, _),   \* Desired(f, s): the content f wants under spec s
    Rejects(_, _),   \* Rejects(f, s): f returns an error for spec s
    Labelled,        \* functions whose object carries OadpOperatorLabel
    Generational,    \* functions whose object's kind counts generations
    IgnoresNotFound, \* functions that accept NotFound from their Delete
    MaxEdits, MaxTampers, MaxFaults, MaxRestarts   \* bounds on the environment

ASSUME BatchAssumption ==
    /\ Batch \in Seq(Funcs)
    /\ \A i, j \in 1..Len(Batch) : Batch[i] = Batch[j] => i = j
    /\ \A f \in Funcs : \E i \in 1..Len(Batch) : Batch[i] = f

ASSUME ContentAssumption ==
    /\ Absent \notin Specs
    /\ Funcs \cap {"none", "True", Absent} = {}
    /\ Absent \in Contents
    /\ \A f \in Funcs, s \in Specs : Desired(f, s) \in Contents
    /\ \A f \in Funcs, s \in Specs : Rejects(f, s) \in BOOLEAN

ASSUME BoundAssumption ==
    /\ MaxEdits \in Nat /\ MaxTampers \in Nat
    /\ MaxFaults \in Nat /\ MaxRestarts \in Nat

VARIABLES
    dpa,      \* the DPA in the API server: [spec, gen, cond, rv]
    cache,    \* the informer's copy of it
    obj,      \* obj[f]: the object f manages, in the API server
    view,     \* view[f]: the informer's copy of it
    events,   \* events[f]: undelivered watch events of that object
    queued,   \* the work queue holds the DPA's key
    pc,       \* 0: worker idle; i: about to call Batch[i]; Done: status update
    read,     \* r.dpa, as read at the start of the reconcile
    failed,   \* the function that returned an error, or Absent
    budget    \* what the environment may still do

vars == <<dpa, cache, obj, view, events, queued, pc, read, failed, budget>>

Done == Len(Batch) + 1

(* Values of the Reconciled condition.  A False condition's message is     *)
(* the error, which tells the failing functions apart.                     *)
Conds == {"none", "True"} \cup Funcs

DPAs == [spec : Specs \cup {Absent}, gen : Nat, cond : Conds, rv : Nat]

NoDPA == [spec |-> Absent, gen |-> 0, cond |-> "none", rv |-> 0]

Exists == dpa.spec # Absent

TypeOK ==
    /\ dpa \in DPAs /\ cache \in DPAs /\ read \in DPAs
    /\ obj \in [Funcs -> Contents] /\ view \in [Funcs -> Contents]
    /\ events \in [Funcs -> {"none", "quiet", "wake"}]
    /\ queued \in BOOLEAN
    /\ pc \in 0..Done
    /\ pc # 0 => read.spec \in Specs
    /\ failed \in Funcs \cup {Absent}
    /\ budget \in [edits : Nat, tampers : Nat, faults : Nat, restarts : Nat]

-----------------------------------------------------------------------------
veleroPredicateOnGeneration(f, old, new) == f \in Labelled \cap Generational

(* veleroPredicate on a change of f's object from old to new.  Creations   *)
(* and deletions pass when the object carries the operator's label,        *)
(* updates only if the generation moved as well.                           *)
veleroPredicate(f, old, new) ==
    /\ f \in Labelled
    /\ old = Absent \/ new = Absent \/ f \in Generational

(* Writing c to f's object in the API server; an identical write is no     *)
(* change and produces no event.                                           *)
Store(f, c) ==
    /\ obj' = [obj EXCEPT ![f] = c]
    /\ events' = IF c = obj[f] THEN events
                 ELSE [events EXCEPT ![f] =
                         IF veleroPredicate(f, obj[f], c) THEN "wake"
                         ELSE IF @ = "wake" THEN "wake" ELSE "quiet"]

Spend(what) == budget[what] > 0 /\ budget' = [budget EXCEPT ![what] = @ - 1]

-----------------------------------------------------------------------------
Init ==
    /\ \E s \in Specs : dpa = [spec |-> s, gen |-> 1, cond |-> "none", rv |-> 1]
    /\ cache = NoDPA
    /\ read = NoDPA
    /\ obj = [f \in Funcs |-> Absent]
    /\ view = obj
    /\ events = [f \in Funcs |-> "none"]
    /\ queued = FALSE
    /\ pc = 0
    /\ failed = Absent
    /\ budget = [edits |-> MaxEdits, tampers |-> MaxTampers,
                 faults |-> MaxFaults, restarts |-> MaxRestarts]

(* A user changes the spec (the API server counts a new generation) or     *)
(* deletes the DPA.                                                        *)
UserEdit(s) ==
    /\ Exists
    /\ s # dpa.spec
    /\ Spend("edits")
    /\ dpa' = [dpa EXCEPT !.spec = s, !.gen = @ + 1, !.rv = @ + 1]
    /\ UNCHANGED <<cache, obj, view, events, queued, pc, read, failed>>

(* Somebody else changes or deletes a managed object, leaving its labels. *)
Tamper(f, c) ==
    /\ obj[f] \notin {c, Absent}
    /\ Spend("tampers")
    /\ Store(f, c)
    /\ UNCHANGED <<dpa, cache, view, queued, pc, read, failed>>

(* Kubernetes collects the objects a deleted DPA owned. *)
CollectGarbage(f) ==
    /\ ~Exists
    /\ obj[f] # Absent
    /\ Store(f, Absent)
    /\ UNCHANGED <<dpa, cache, view, queued, pc, read, failed, budget>>

(* The informer catches up with the DPA.  isObjectOurs accepts every DPA,  *)
(* so the filter passes creations, deletions and changes of generation;    *)
(* changes of the status alone are dropped.                                *)
InformDPA ==
    /\ cache.rv # dpa.rv
    /\ cache' = dpa
    /\ queued' = (queued \/ cache.gen # dpa.gen)
    /\ UNCHANGED <<dpa, obj, view, events, pc, read, failed, budget>>

(* The informer catches up with f's object. *)
InformObject(f) ==
    /\ events[f] # "none"
    /\ view' = [view EXCEPT ![f] = obj[f]]
    /\ events' = [events EXCEPT ![f] = "none"]
    /\ queued' = (queued \/ events[f] = "wake")
    /\ UNCHANGED <<dpa, cache, obj, pc, read, failed, budget>>

-----------------------------------------------------------------------------
(* The worker is idle again; r.dpa is not looked at until the next read. *)
Return == pc' = 0 /\ read' = NoDPA /\ failed' = Absent

(* The worker takes the key and reads the DPA from the cache; a DPA that   *)
(* is not found ends the reconcile without an error.                       *)
StartReconcile ==
    /\ pc = 0
    /\ queued
    /\ queued' = FALSE
    /\ IF cache.spec = Absent THEN Return
       ELSE pc' = 1 /\ read' = cache /\ failed' = Absent
    /\ UNCHANGED <<dpa, cache, obj, view, events, budget>>

(* ReconcileBatch goes on with the next function, or stops at an error. *)
Continue == pc' = pc + 1 /\ failed' = Absent

RestartBatch(f) == pc' = 1 /\ failed' = Absent

StopWith(f) == pc' = Done /\ failed' = f

(* What CreateOrPatch, or Get and Delete for an object that is not wanted, *)
(* does.  It compares with the cached object and calls the API server only *)
(* if that differs from what is wanted: a create fails if the object       *)
(* exists after all, a patch if it has gone.  A patch computed from a      *)
(* stale copy may leave somebody else's change in place.                   *)
Apply(f, want) ==
    \/ /\ view[f] = want
       /\ Continue
       /\ UNCHANGED <<obj, events>>
    \/ /\ view[f] # want
       /\ view[f] = Absent \/ want = Absent
       /\ IF view[f] = Absent THEN obj[f] = Absent ELSE obj[f] # Absent
       /\ Store(f, want)
       /\ Continue
    \/ /\ want # Absent /\ view[f] \notin {want, Absent} /\ obj[f] # Absent
       /\ \/ Store(f, want)
          \/ obj[f] # view[f] /\ UNCHANGED <<obj, events>>
       /\ Continue
    \/ /\ view[f] # want
       /\ IF view[f] = Absent THEN obj[f] # Absent ELSE obj[f] = Absent
       /\ IF want = Absent /\ f \in IgnoresNotFound THEN Continue ELSE StopWith(f)
       /\ UNCHANGED <<obj, events>>

(* One iteration of ReconcileBatch: the next reconcile function runs. *)
RunFunc ==
    /\ pc \in 1..Len(Batch)
    /\ LET f == Batch[pc]
       IN  /\ ~Rejects(f, read.spec)
           /\ Apply(f, Desired(f, read.spec))
    /\ UNCHANGED <<dpa, cache, view, queued, read, budget>>

(* The next reconcile function returns an error: because of the spec, or   *)
(* because one of its calls failed.                                        *)
FuncFails ==
    /\ pc \in 1..Len(Batch)
    /\ IF Rejects(Batch[pc], read.spec) THEN UNCHANGED budget ELSE Spend("faults")
    /\ StopWith(Batch[pc])
    /\ UNCHANGED <<dpa, cache, obj, view, events, queued, read>>

(* The optimistic lock of Status().Update on the copy that was read. *)
ConflictUnchecked == FALSE
Conflict == read.rv # dpa.rv

(* Reconcile returns the batch's error or, if there is none, the error of  *)
(* the status write; controller-runtime puts the key back on an error.     *)
ReturnsBatchErrorOnly == failed # Absent
ReturnsError == failed # Absent \/ Conflict

(* The end of Reconcile: set the Reconciled condition on the copy that was *)
(* read and write its status.                                              *)
UpdateStatus ==
    /\ pc = Done
    /\ LET cond == IF failed = Absent THEN "True" ELSE failed
       IN  dpa' = IF Conflict \/ dpa.cond = cond THEN dpa
                  ELSE [dpa EXCEPT !.cond = cond, !.rv = @ + 1]
    /\ queued' = (queued \/ ReturnsError)
    /\ Return
    /\ UNCHANGED <<cache, obj, view, events, budget>>

(* The status write fails for another reason. *)
UpdateStatusFails ==
    /\ pc = Done
    /\ Spend("faults")
    /\ queued' = TRUE
    /\ Return
    /\ UNCHANGED <<dpa, cache, obj, view, events>>

(* The operator restarts: the queue and the reconcile in progress are      *)
(* lost, the informers list everything anew and report it as created.      *)
Restart ==
    /\ Spend("restarts")
    /\ cache' = dpa
    /\ view' = obj
    /\ events' = [f \in Funcs |-> "none"]
    /\ queued' = Exists
    /\ Return
    /\ UNCHANGED <<dpa, obj>>

-----------------------------------------------------------------------------
Worker == StartReconcile \/ RunFunc \/ FuncFails \/ UpdateStatus \/ UpdateStatusFails

Informers == InformDPA \/ \E f \in Funcs : InformObject(f)

Environment ==
    \/ \E s \in Specs \cup {Absent} : UserEdit(s)
    \/ \E f \in Funcs, c \in Contents : Tamper(f, c)
    \/ \E f \in Funcs : CollectGarbage(f)
    \/ Restart

Next == Worker \/ Informers \/ Environment

(* The worker and the informers are goroutines that never stop; the        *)
(* garbage collector runs too.  Users and faults owe nothing.              *)
Fairness ==
    /\ WF_vars(Worker)
    /\ WF_vars(InformDPA)
    /\ \A f \in Funcs : WF_vars(InformObject(f)) /\ WF_vars(CollectGarbage(f))

Spec == Init /\ [][Next]_vars

FairSpec == Spec /\ Fairness

-----------------------------------------------------------------------------
Quiescent ==
    /\ pc = 0 /\ ~queued
    /\ cache.rv = dpa.rv
    /\ \A f \in Funcs : events[f] = "none"

(* Objects every change of which passes the event filter. *)
Watched == Funcs \cap Labelled \cap Generational

(* No wakeup is lost: when the worker is idle, the queue empty and the     *)
(* informers up to date, the DPA reports Reconciled=True and every watched *)
(* object has the content the current spec asks for, whatever edits,       *)
(* conflicts, failures, stale reads and restarts came before.              *)
NoLostWork ==
    Quiescent /\ Exists =>
        /\ dpa.cond = "True"
        /\ \A f \in Watched : obj[f] = Desired(f, dpa.spec)

(* For a labelled object without generations (ConfigMap, Service) updates  *)
(* are not noticed, but creations and deletions are: at rest the object    *)
(* exists exactly if the current spec asks for it.                         *)
PresenceRestored ==
    Quiescent /\ Exists =>
        \A f \in Funcs \cap Labelled : (obj[f] = Absent) <=> (Desired(f, dpa.spec) = Absent)

(* Reconcile turns the condition to True only for the spec the API server  *)
(* holds at that moment: each watched object then has the content this     *)
(* spec asks for, or a change of it is already on its way to the queue.    *)
CompleteIsTruthful ==
    [][dpa.cond # "True" /\ dpa'.cond = "True" =>
         \A f \in Watched :
             obj[f] = Desired(f, dpa.spec) \/ events[f] = "wake" \/ queued]_vars

(* Once users, faults and restarts stop, the controller settles: a DPA     *)
(* with a rejected spec reports the function that rejects it, any other    *)
(* reports True with its watched objects as desired, and a deleted DPA     *)
(* leaves no object behind.                                                *)
Settles ==
    <>[](IF ~Exists THEN \A f \in Funcs : obj[f] = Absent
         ELSE IF \E f \in Funcs : Rejects(f, dpa.spec)
         THEN \E f \in Funcs : Rejects(f, dpa.spec) /\ dpa.cond = f
         ELSE /\ dpa.cond = "True"
              /\ \A f \in Watched : obj[f] = Desired(f, dpa.spec))

-----------------------------------------------------------------------------
(* The inductive invariant behind NoLostWork, PresenceRestored and         *)
(* CompleteIsTruthful, in named parts.                                     *)

(* The copies of the DPA are versions of it: the resourceVersion orders    *)
(* and identifies them, and equal generations have equal specs.            *)
VersionOf(d) ==
    /\ d.rv <= dpa.rv /\ d.gen <= dpa.gen
    /\ d.rv = dpa.rv => d = dpa
    /\ d.gen = dpa.gen => d.spec = dpa.spec

CopiesAreVersions ==
    /\ VersionOf(cache) /\ VersionOf(read)
    /\ read.rv <= cache.rv
    /\ dpa.gen > 0 /\ dpa.rv > 0
    /\ pc # Done => failed = Absent

(* An informer's copy of an object differs only while an event is pending. *)
ViewsAreCurrent ==
    \A f \in Funcs :
        /\ events[f] = "none" => view[f] = obj[f]
        /\ f \in Labelled /\ events[f] = "quiet" => (view[f] = Absent <=> obj[f] = Absent)
        /\ f \in Watched => events[f] # "quiet"

(* A reconcile that will look at f's object again is queued, on its way,   *)
(* or running and either not past f yet or bound to be repeated.           *)
WillVisit(f) ==
    \/ queued
    \/ cache.gen # dpa.gen
    \/ events[f] = "wake"
    \/ /\ pc # 0
       /\ failed # Absent \/ Conflict \/ \E i \in pc..Len(Batch) : Batch[i] = f

ConditionSettled ==
    Exists /\ pc = 0 /\ ~queued /\ cache.gen = dpa.gen => dpa.cond = "True"

AsDesired(f) ==
    IF f \in Generational THEN obj[f] = Desired(f, dpa.spec)
    ELSE obj[f] = Absent <=> Desired(f, dpa.spec) = Absent

ObjectsSettled ==
    Exists => \A f \in Funcs \cap Labelled : WillVisit(f) \/ AsDesired(f)

IInv == TypeOK /\ CopiesAreVersions /\ ViewsAreCurrent /\ ConditionSettled /\ ObjectsSettled
=============================================================================
