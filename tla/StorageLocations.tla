-------------------------- MODULE StorageLocations --------------------------
(***************************************************************************)
(* How the DPA controller keeps a namespace's BackupStorageLocations, or   *)
(* VolumeSnapshotLocations, in step with the list in the DPA's spec:       *)
(* ReconcileBackupStorageLocations (bsl.go) and                            *)
(* ReconcileVolumeSnapshotLocations (vsl.go), which share one algorithm.   *)
(* Each entry of the list is created or patched in turn; then the          *)
(* locations that carry the operator's labels are listed from the cache,   *)
(* and if their number differs from the number of entries those the spec   *)
(* does not name are deleted.                                              *)
(*                                                                         *)
(* An entry has a name ("" for none) and a kind: "velero" for an inline    *)
(* location, "cloud" for a reference to a CloudStorage (never in a VSL),   *)
(* whose location gets no labels.  The queue, the filter and the lock of   *)
(* the status update are those of DPAController.                           *)
(***************************************************************************)
EXTENDS Naturals, Sequences, FiniteSets

CONSTANTS
    Names,           \* names of locations
    SpecLists,       \* values of spec.backupLocations
    DefaultName(_),  \* the name of the i-th entry if it has none
    MaxEdits, MaxDeletes, MaxFaults

Kinds == {"velero", "cloud"}

ASSUME NamesAssumption == IsFiniteSet(Names)

ASSUME SpecListsAssumption ==
    /\ SpecLists \subseteq Seq([name : Names \cup {""}, kind : Kinds])
    /\ \A s \in SpecLists : \A i \in DOMAIN s : DefaultName(i) \in Names

ASSUME BoundAssumption == MaxEdits \in Nat /\ MaxDeletes \in Nat /\ MaxFaults \in Nat

Absent == [ours |-> FALSE, kind |-> "absent"]

VARIABLES
    dpa,      \* the DPA in the API server: [list, ver]
    cache,    \* the informer's copy of it
    locs,     \* locs[n]: location n in the API server: [ours, kind]
    view,     \* view[n]: the informer's copy of it
    events,   \* events[n]: undelivered watch events of location n
    queued,   \* the work queue holds the DPA's key
    pc,       \* "idle", "apply" or "prune"
    read,     \* r.dpa, as read at the start of the reconcile
    next,     \* the entry to apply next
    extras,   \* the locations still to be deleted
    budget

vars == <<dpa, cache, locs, view, events, queued, pc, read, next, extras, budget>>

Locations == {Absent} \cup [ours : BOOLEAN, kind : Kinds]

DPAs == [list : SpecLists, ver : Nat]

TypeOK ==
    /\ dpa \in DPAs /\ cache \in DPAs /\ read \in DPAs
    /\ locs \in [Names -> Locations] /\ view \in [Names -> Locations]
    /\ events \in [Names -> {"none", "quiet", "wake"}]
    /\ queued \in BOOLEAN
    /\ pc \in {"idle", "apply", "prune"}
    /\ next \in Nat
    /\ extras \subseteq Names
    /\ budget \in [edits : Nat, deletes : Nat, faults : Nat]

(* bslName: the name given in the spec, or one made from the position. *)
EntryName(list, i) == IF list[i].name = "" THEN DefaultName(i) ELSE list[i].name

EntryNames(list) == {EntryName(list, i) : i \in DOMAIN list}

WakesOnUpdate(old, new) == old.ours /\ old # Absent /\ new # Absent /\ old.kind # new.kind
WakesWithoutCreate(old, new) == old.ours /\ old.kind # new.kind

(* veleroPredicate: a change of labels alone leaves the generation alone. *)
Wakes(old, new) ==
    IF old = Absent THEN new.ours
    ELSE old.ours /\ old.kind # new.kind

Store(n, loc) ==
    /\ locs' = [locs EXCEPT ![n] = loc]
    /\ events' = IF loc = locs[n] THEN events
                 ELSE [events EXCEPT ![n] =
                         IF @ = "wake" \/ Wakes(locs[n], loc) THEN "wake" ELSE "quiet"]

Spend(what) == budget[what] > 0 /\ budget' = [budget EXCEPT ![what] = @ - 1]

-----------------------------------------------------------------------------
Init ==
    /\ \E s \in SpecLists : dpa = [list |-> s, ver |-> 1]
    /\ cache = dpa
    /\ read = dpa
    /\ locs = [n \in Names |-> Absent]
    /\ view = locs
    /\ events = [n \in Names |-> "none"]
    /\ queued = TRUE
    /\ pc = "idle"
    /\ next = 1
    /\ extras = {}
    /\ budget = [edits |-> MaxEdits, deletes |-> MaxDeletes, faults |-> MaxFaults]

UserEdit(s) ==
    /\ s # dpa.list
    /\ Spend("edits")
    /\ dpa' = [list |-> s, ver |-> dpa.ver + 1]
    /\ UNCHANGED <<cache, locs, view, events, queued, pc, read, next, extras>>

UserDelete(n) ==
    /\ locs[n] # Absent
    /\ Spend("deletes")
    /\ Store(n, Absent)
    /\ UNCHANGED <<dpa, cache, view, queued, pc, read, next, extras>>

InformDPA ==
    /\ cache # dpa
    /\ cache' = dpa
    /\ queued' = TRUE
    /\ UNCHANGED <<dpa, locs, view, events, pc, read, next, extras, budget>>

InformLocation(n) ==
    /\ events[n] # "none"
    /\ view' = [view EXCEPT ![n] = locs[n]]
    /\ events' = [events EXCEPT ![n] = "none"]
    /\ queued' = (queued \/ events[n] = "wake")
    /\ UNCHANGED <<dpa, cache, locs, pc, read, next, extras, budget>>

-----------------------------------------------------------------------------
(* The reconcile ends and leaves nothing behind. *)
Return == pc' = "idle" /\ read' = dpa /\ next' = 1 /\ extras' = {}

(* An error ends the batch; the status update that follows changes nothing *)
(* of interest here, and the key goes back to the queue.                   *)
ReturnError == Return /\ queued' = TRUE

Start ==
    /\ pc = "idle" /\ queued
    /\ queued' = FALSE
    /\ read' = cache
    /\ pc' = "apply"
    /\ UNCHANGED <<dpa, cache, locs, view, events, next, extras, budget>>

(* What the CreateOrPatch callback makes of the cached location.  The      *)
(* inline branch sets the labels; the CloudStorage branch leaves them.     *)
Target(kind, cached) == [ours |-> kind = "velero" \/ cached.ours, kind |-> kind]

(* A merge patch carries only the fields in which the wanted location      *)
(* differs from the cached one; the others keep the API server's value.    *)
Patched(loc, cached, want) ==
    [field \in DOMAIN want |->
        IF want[field] = cached[field] THEN loc[field] ELSE want[field]]

(* The iteration of the loop for entry `next': CreateOrPatch of one        *)
(* location.  Create fails if the location exists after all, Patch if it   *)
(* has gone.                                                               *)
CreateOrPatch ==
    /\ pc = "apply" /\ next \in DOMAIN read.list
    /\ LET n == EntryName(read.list, next)
           want == Target(read.list[next].kind, view[n])
       IN  \/ /\ view[n] # want
              /\ (view[n] = Absent) # (locs[n] = Absent)
              /\ ReturnError
              /\ UNCHANGED <<locs, events>>
           \/ /\ IF view[n] = want THEN UNCHANGED <<locs, events>>
                 ELSE /\ (view[n] = Absent) = (locs[n] = Absent)
                      /\ Store(n, Patched(locs[n], view[n], want))
              /\ next' = next + 1
              /\ UNCHANGED <<queued, pc, read, extras>>
    /\ UNCHANGED <<dpa, cache, view, budget>>

ExtrasWithoutLookup(names, entries, listed) ==
    IF entries # Cardinality(listed) THEN listed ELSE {}

(* The list of labelled locations comes from the cache, and only its       *)
(* length is compared with the spec.                                       *)
ExtrasOf(names, entries, listed) ==
    IF entries # Cardinality(listed) THEN listed \ names ELSE {}

ListLabelled ==
    /\ pc = "apply" /\ next \notin DOMAIN read.list
    /\ extras' = ExtrasOf(EntryNames(read.list), Len(read.list),
                          {n \in Names : view[n].ours})
    /\ pc' = "prune"
    /\ UNCHANGED <<dpa, cache, locs, view, events, queued, read, next, budget>>

DeleteExtraChecked(n) ==
    /\ pc = "prune" /\ n \in extras
    /\ IF locs[n] # Absent THEN ReturnError
       ELSE extras' = extras \ {n} /\ UNCHANGED <<queued, pc, read, next>>
    /\ UNCHANGED <<dpa, cache, locs, view, events, budget>>

(* Delete of one extra location; NotFound is an error like any other. *)
DeleteExtra(n) ==
    /\ pc = "prune" /\ n \in extras
    /\ IF locs[n] = Absent THEN ReturnError /\ UNCHANGED <<locs, events>>
       ELSE /\ Store(n, Absent)
            /\ extras' = extras \ {n}
            /\ UNCHANGED <<queued, pc, read, next>>
    /\ UNCHANGED <<dpa, cache, view, budget>>

(* A call of the loop or of the pruning fails. *)
CallFails ==
    /\ pc \in {"apply", "prune"}
    /\ Spend("faults")
    /\ ReturnError
    /\ UNCHANGED <<dpa, cache, locs, view, events>>

(* The rest of the batch and the status update, which conflicts if the DPA *)
(* has changed since it was read.                                          *)
Finish ==
    /\ pc = "prune" /\ extras = {}
    /\ queued' = (queued \/ read.ver # dpa.ver)
    /\ Return
    /\ UNCHANGED <<dpa, cache, locs, view, events, budget>>

Worker ==
    \/ Start \/ CreateOrPatch \/ ListLabelled \/ Finish \/ CallFails
    \/ \E n \in Names : DeleteExtra(n)

Next ==
    \/ Worker
    \/ InformDPA \/ \E n \in Names : InformLocation(n)
    \/ \E s \in SpecLists : UserEdit(s)
    \/ \E n \in Names : UserDelete(n)

Spec == Init /\ [][Next]_vars

FairSpec ==
    /\ Spec
    /\ WF_vars(Worker) /\ WF_vars(InformDPA)
    /\ \A n \in Names : WF_vars(InformLocation(n))

-----------------------------------------------------------------------------
Quiescent ==
    /\ pc = "idle" /\ ~queued /\ cache = dpa
    /\ \A n \in Names : events[n] = "none"

(* The locations that carry the operator's labels are those of the spec. *)
InStep == {n \in Names : locs[n].ours} = EntryNames(dpa.list)

(* At rest, each inline location of the spec exists and is labelled,       *)
(* although creation skips what a stale cache shows as present.            *)
SpecifiedExist ==
    Quiescent => \A i \in DOMAIN dpa.list :
        dpa.list[i].kind = "velero" =>
            locs[EntryName(dpa.list, i)] = [ours |-> TRUE, kind |-> "velero"]

(* "If current BSLs do not match the spec, delete extra BSLs" (bsl.go,     *)
(* vsl.go): at rest no location with the operator's labels is left that    *)
(* the spec does not name.                                                 *)
ExtrasDeleted ==
    Quiescent => \A n \in Names : locs[n].ours => n \in EntryNames(dpa.list)

(* The spec lists inline locations only, each name once. *)
Plain(list) ==
    /\ \A i \in DOMAIN list : list[i].kind = "velero"
    /\ Cardinality(EntryNames(list)) = Len(list)

(* If the spec has always been of this kind the extras do go, although the *)
(* pruning compares only lengths and works on a cached list that misses    *)
(* what was just created.                                                  *)
PlainExtrasDeleted == []Plain(dpa.list) => []ExtrasDeleted

(* A location named by the spec in the API server is deleted only by a     *)
(* reconcile that read an older spec, and that reconcile is repeated.      *)
NoCurrentLocationDeleted ==
    [][\A n \in EntryNames(dpa.list) :
         pc = "prune" /\ locs[n] # Absent /\ locs'[n] = Absent /\ budget' = budget
             => read.ver < dpa.ver]_vars

(* Then, once edits, deletions and faults stop, labels and spec come in    *)
(* step and stay so, under the fairness of the worker and the informers.   *)
ComesInStep == []Plain(dpa.list) => <>[]InStep

-----------------------------------------------------------------------------
(* The inductive invariants behind these. *)

Inline == [ours |-> TRUE, kind |-> "velero"]

(* The copies of the DPA are versions of it. *)
CopiesAreVersions ==
    /\ cache.ver <= dpa.ver /\ (cache.ver = dpa.ver => cache = dpa)
    /\ read.ver <= dpa.ver /\ (read.ver = dpa.ver => read = dpa)
    /\ pc # "idle" => read.ver <= cache.ver

(* Labels are lost with the location only, and no inline location is       *)
(* without them; so a labelled location cannot go, or change its kind,     *)
(* without waking the worker.                                              *)
LabelsStayOn(n) ==
    /\ events[n] = "none" => view[n] = locs[n]
    /\ locs[n].kind = "velero" => locs[n].ours
    /\ view[n].kind = "velero" => view[n].ours
    /\ view[n].ours => locs[n].ours \/ locs[n] = Absent
    /\ view[n].ours /\ view[n].kind # locs[n].kind => events[n] = "wake"

LabelsStay == \A n \in Names : LabelsStayOn(n)

(* A location that is as the spec wants it, or the worker will look again. *)
InPlace(n) == locs[n] = Inline \/ events[n] = "wake" \/ queued

InPlaceBefore(list, end) ==
    \A i \in DOMAIN list :
        i < end /\ list[i].kind = "velero" => InPlace(EntryName(list, i))

(* So far the batch has done its work, and it spares what it has read. *)
Progress ==
    /\ next >= 1 /\ (pc = "idle" => next = 1)
    /\ pc = "apply" => InPlaceBefore(read.list, next)
    /\ pc = "prune" => /\ InPlaceBefore(read.list, Len(read.list) + 1)
                       /\ extras \cap EntryNames(read.list) = {}
    /\ pc = "idle" => InPlaceBefore(cache.list, Len(cache.list) + 1)

IInv == TypeOK /\ CopiesAreVersions /\ LabelsStay /\ Progress

(* With plain lists every change of a location wakes the worker, and what  *)
(* the spec does not name is to be deleted unless the worker will look     *)
(* again.                                                                  *)
Busy == queued \/ \E n \in Names : events[n] = "wake"

PlainOn(n) ==
    /\ locs[n] \in {Absent, Inline} /\ view[n] \in {Absent, Inline}
    /\ view[n] # locs[n] => events[n] = "wake"

Covered ==
    \A n \in Names : locs[n].ours =>
        /\ pc = "prune" => n \in EntryNames(read.list) \cup extras
        /\ pc = "idle" => n \in EntryNames(cache.list)

PlainInv ==
    /\ Plain(cache.list) /\ Plain(read.list)
    /\ \A n \in Names : PlainOn(n)
    /\ Busy \/ Covered
=============================================================================
