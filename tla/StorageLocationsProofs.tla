----------------------- MODULE StorageLocationsProofs -----------------------
(***************************************************************************)
(* Proofs about StorageLocations, for any lists of entries, the ones that  *)
(* give a name twice included, and any number of edits, deletions and      *)
(* failing calls.                                                          *)
(***************************************************************************)
EXTENDS StorageLocations, FiniteSetTheorems, TLAPS

Entries == [name : Names \cup {""}, kind : Kinds]

(* A list's positions are the numbers up to its length. *)
LEMMA Positions ==
    ASSUME NEW list \in SpecLists
    PROVE  /\ Len(list) \in Nat /\ DOMAIN list = 1..Len(list)
           /\ \A i \in DOMAIN list : list[i] \in Entries /\ list[i].kind \in Kinds
  <1>1. list \in Seq(Entries)
    BY SpecListsAssumption, Zenon DEF Entries
  <1>2. Len(list) \in Nat /\ DOMAIN list = 1..Len(list)
    BY <1>1
  <1>3. \A i \in DOMAIN list : list[i] \in Entries
    BY <1>1
  <1> QED
    BY <1>2, <1>3 DEF Entries

(* Every entry of a list has a name, given or made from its position. *)
LEMMA EntryNamed ==
    ASSUME NEW list \in SpecLists, NEW i \in DOMAIN list
    PROVE  EntryName(list, i) \in Names /\ EntryName(list, i) \in EntryNames(list)
  <1>1. DefaultName(i) \in Names
    BY SpecListsAssumption, Zenon
  <1>2. list[i].name \in Names \cup {""}
    BY Positions DEF Entries
  <1> QED
    BY <1>1, <1>2 DEF EntryName, EntryNames

(* A location is absent, or has labels or not and a kind. *)
LEMMA LocationParts ==
    ASSUME NEW loc \in Locations
    PROVE  /\ loc.ours \in BOOLEAN /\ loc.kind \in Kinds \cup {"absent"}
           /\ loc = Absent <=> loc.kind = "absent"
           /\ loc.ours => loc # Absent
           /\ loc = Inline <=> loc.ours /\ loc.kind = "velero"
  <1>1. Absent.ours = FALSE /\ Absent.kind = "absent"
        /\ Inline.ours = TRUE /\ Inline.kind = "velero"
    BY DEF Absent, Inline
  <1>2. CASE loc = Absent
    BY <1>1, <1>2, Zenon
  <1>3. CASE loc \in [ours : BOOLEAN, kind : Kinds]
    <2>1. loc.ours \in BOOLEAN /\ loc.kind \in Kinds
          /\ loc = [ours |-> loc.ours, kind |-> loc.kind]
      BY <1>3
    <2>2. loc.kind # "absent" /\ loc # Absent
      BY <1>1, <2>1 DEF Kinds
    <2>3. loc = Inline <=> loc.ours /\ loc.kind = "velero"
      BY <1>1, <2>1, Zenon DEF Inline
    <2> QED
      BY <2>1, <2>2, <2>3, Zenon
  <1> QED
    BY <1>2, <1>3, Zenon DEF Locations

(* What the callback may make of a location is a location. *)
LEMMA MakeLocation ==
    ASSUME NEW ours \in BOOLEAN, NEW kind \in Kinds
    PROVE  [ours |-> ours, kind |-> kind] \in Locations
  BY DEF Locations

(* What a patch makes of a location. *)
LEMMA PatchedParts ==
    ASSUME NEW loc \in Locations, NEW cached \in Locations, NEW kind \in Kinds,
           cached = Absent <=> loc = Absent
    PROVE  LET want == Target(kind, cached)
               new == Patched(loc, cached, want)
           IN  /\ new \in Locations /\ new # Absent
               /\ new.ours = IF want.ours = cached.ours THEN loc.ours ELSE want.ours
               /\ new.kind = IF kind = cached.kind THEN loc.kind ELSE kind
  <1> DEFINE want == Target(kind, cached)
             new == Patched(loc, cached, want)
  <1>1. want.ours = (kind = "velero" \/ cached.ours) /\ want.kind = kind
    BY DEF Target
  <1>2. DOMAIN want = {"ours", "kind"}
    BY DEF Target
  <1>3. new.ours = IF want.ours = cached.ours THEN loc.ours ELSE want.ours
    BY <1>2 DEF Patched
  <1>4. new.kind = IF kind = cached.kind THEN loc.kind ELSE kind
    BY <1>1, <1>2 DEF Patched
  <1>5. new = [ours |-> new.ours, kind |-> new.kind]
    BY <1>2 DEF Patched
  <1>6. new.ours \in BOOLEAN /\ new.kind \in Kinds
    <2>1. kind # "absent"
      BY DEF Kinds
    <2>2. kind = cached.kind => loc.kind \in Kinds
      BY <2>1, LocationParts
    <2>3. want.ours \in BOOLEAN /\ loc.ours \in BOOLEAN
      BY <1>1, LocationParts, Zenon
    <2> QED
      BY <1>3, <1>4, <2>2, <2>3, Zenon
  <1> QED
    <2>1. new \in Locations
      BY <1>5, <1>6, MakeLocation, Zenon
    <2>2. new.kind # "absent"
      BY <1>6 DEF Kinds
    <2> QED
      BY <1>3, <1>4, <2>1, <2>2, LocationParts, Zenon

Budgets == [edits : Nat, deletes : Nat, faults : Nat]

(* Spending keeps the budget well typed. *)
LEMMA SpendType ==
    ASSUME TypeOK, NEW what \in {"edits", "deletes", "faults"}, Spend(what)
    PROVE  budget' \in Budgets /\ budget' # budget
  <1>1. budget \in Budgets
    BY DEF TypeOK, Budgets
  <1>2. budget[what] \in Nat /\ budget[what] > 0
    BY <1>1 DEF Budgets, Spend
  <1>3. budget'[what] = budget[what] - 1
    BY <1>1 DEF Spend, Budgets
  <1> QED
    BY <1>1, <1>2, <1>3 DEF Spend, Budgets

(* A write of a location, and the event it leaves. *)
LEMMA StoreEffect ==
    ASSUME TypeOK, NEW n \in Names, NEW loc \in Locations, Store(n, loc)
    PROVE  /\ locs' \in [Names -> Locations] /\ locs'[n] = loc
           /\ events' \in [Names -> {"none", "quiet", "wake"}]
           /\ \A m \in Names \ {n} : locs'[m] = locs[m] /\ events'[m] = events[m]
           /\ events[n] = "wake" => events'[n] = "wake"
           /\ loc # locs[n] /\ Wakes(locs[n], loc) => events'[n] = "wake"
           /\ loc # locs[n] => events'[n] # "none"
           /\ loc = locs[n] => locs' = locs /\ events' = events
  <1>1. locs' = [locs EXCEPT ![n] = loc]
    BY DEF Store
  <1>2. locs \in [Names -> Locations] /\ events \in [Names -> {"none", "quiet", "wake"}]
    BY DEF TypeOK
  <1>3. CASE loc = locs[n]
    BY <1>1, <1>2, <1>3, Zenon DEF Store
  <1>4. CASE loc # locs[n]
    <2> DEFINE e == IF events[n] = "wake" \/ Wakes(locs[n], loc) THEN "wake" ELSE "quiet"
    <2>1. events' = [events EXCEPT ![n] = e]
      BY <1>4 DEF Store
    <2>2. /\ e \in {"none", "quiet", "wake"} /\ e # "none"
          /\ events[n] = "wake" \/ Wakes(locs[n], loc) => e = "wake"
      OBVIOUS
    <2> HIDE DEF e
    <2> QED
      BY <1>1, <1>2, <1>4, <2>1, <2>2
  <1> QED
    BY <1>3, <1>4

(* The initial state has the right types. *)
LEMMA TypeInit == Init => TypeOK
  <1> SUFFICES ASSUME Init PROVE TypeOK
    OBVIOUS
  <1>1. dpa \in DPAs /\ cache \in DPAs /\ read \in DPAs
    BY DEF Init, DPAs
  <1>2. locs \in [Names -> Locations] /\ view \in [Names -> Locations]
    BY DEF Init, Locations
  <1>3. budget \in [edits : Nat, deletes : Nat, faults : Nat]
    BY BoundAssumption DEF Init
  <1> QED
    BY <1>1, <1>2, <1>3 DEF Init, TypeOK

(* Every step keeps the types. *)
LEMMA TypeNext == TypeOK /\ [Next]_vars => TypeOK'
  <1> SUFFICES ASSUME TypeOK, [Next]_vars PROVE TypeOK'
    OBVIOUS
  <1>a. Absent \in Locations
    BY DEF Locations
  <1>r. ASSUME Return PROVE pc' \in {"idle", "apply", "prune"} /\ next' \in Nat
                            /\ read' \in DPAs /\ extras' \subseteq Names
    BY <1>r DEF Return, TypeOK
  <1>1. ASSUME NEW s \in SpecLists, UserEdit(s) PROVE TypeOK'
    <2>1. dpa' \in DPAs
      BY <1>1 DEF UserEdit, TypeOK, DPAs
    <2> QED
      BY <1>1, <2>1, SpendType, Zenon DEF UserEdit, TypeOK, Budgets
  <1>2. ASSUME NEW n \in Names, UserDelete(n) PROVE TypeOK'
    BY <1>2, <1>a, SpendType, StoreEffect, Zenon DEF UserDelete, TypeOK, Budgets
  <1>3. CASE InformDPA
    BY <1>3 DEF InformDPA, TypeOK
  <1>4. ASSUME NEW n \in Names, InformLocation(n) PROVE TypeOK'
    <2>1. view' \in [Names -> Locations] /\ events' \in [Names -> {"none", "quiet", "wake"}]
      BY <1>4 DEF InformLocation, TypeOK
    <2>2. queued' \in BOOLEAN
      BY <1>4 DEF InformLocation
    <2> QED
      BY <1>4, <2>1, <2>2, Zenon DEF InformLocation, TypeOK
  <1>5. CASE Start
    BY <1>5, Zenon DEF Start, TypeOK
  <1>6. CASE CreateOrPatch
    <2>1. read.list \in SpecLists /\ next \in DOMAIN read.list
      BY <1>6 DEF CreateOrPatch, TypeOK, DPAs
    <2> DEFINE n == EntryName(read.list, next)
               want == Target(read.list[next].kind, view[n])
    <2>2. n \in Names /\ read.list[next].kind \in Kinds
      BY <2>1, EntryNamed, Positions
    <2>3. CASE ReturnError /\ UNCHANGED <<locs, events>>
      BY <1>6, <1>r, <2>3, Zenon DEF CreateOrPatch, ReturnError, TypeOK
    <2>4. CASE UNCHANGED <<locs, events>> /\ next' = next + 1 /\ UNCHANGED <<queued, pc, read, extras>>
      BY <1>6, <2>4 DEF CreateOrPatch, TypeOK
    <2>5. CASE /\ (view[n] = Absent) = (locs[n] = Absent)
               /\ Store(n, Patched(locs[n], view[n], want))
               /\ next' = next + 1 /\ UNCHANGED <<queued, pc, read, extras>>
      <3>1. Patched(locs[n], view[n], want) \in Locations
        BY <2>2, <2>5, PatchedParts DEF TypeOK
      <3>2. /\ locs' \in [Names -> Locations]
            /\ events' \in [Names -> {"none", "quiet", "wake"}]
        BY <2>2, <2>5, <3>1, StoreEffect
      <3>3. next' \in Nat
        BY <2>5 DEF TypeOK
      <3> QED
        BY <1>6, <2>5, <3>2, <3>3, Zenon DEF CreateOrPatch, TypeOK
    <2> QED
      BY <1>6, <2>3, <2>4, <2>5, Zenon DEF CreateOrPatch
  <1>7. CASE ListLabelled
    BY <1>7 DEF ListLabelled, ExtrasOf, TypeOK
  <1>8. ASSUME NEW n \in Names, DeleteExtra(n) PROVE TypeOK'
    <2>1. CASE ReturnError /\ UNCHANGED <<locs, events>>
      BY <1>8, <1>r, <2>1, Zenon DEF DeleteExtra, ReturnError, TypeOK
    <2>2. CASE /\ Store(n, Absent) /\ extras' = extras \ {n}
               /\ UNCHANGED <<queued, pc, read, next>>
      BY <1>8, <1>a, <2>2, StoreEffect, Zenon DEF DeleteExtra, TypeOK
    <2> QED
      BY <1>8, <2>1, <2>2, Zenon DEF DeleteExtra
  <1>9. CASE CallFails
    BY <1>9, <1>r, SpendType, Zenon DEF CallFails, ReturnError, TypeOK, Budgets
  <1>10. CASE Finish
    <2>1. queued' \in BOOLEAN
      BY <1>10 DEF Finish
    <2> QED
      BY <1>10, <1>r, <2>1, Zenon DEF Finish, TypeOK
  <1>11. CASE UNCHANGED vars
    BY <1>11, Zenon DEF vars, TypeOK
  <1> QED
    BY <1>1, <1>2, <1>3, <1>4, <1>5, <1>6, <1>7, <1>8, <1>9, <1>10, <1>11, Zenon
    DEF Next, Worker

(* The variables always have their types. *)
THEOREM TypeCorrect == Spec => []TypeOK
  BY TypeInit, TypeNext, PTL DEF Spec

-----------------------------------------------------------------------------
(* The copies of the DPA stay versions of it, identified by their number. *)
LEMMA VersionsStep ==
    ASSUME TypeOK, CopiesAreVersions, [Next]_vars
    PROVE  CopiesAreVersions'
  <1>n. dpa.ver \in Nat /\ cache.ver \in Nat /\ read.ver \in Nat
    BY DEF TypeOK, DPAs
  <1>1. CASE \E s \in SpecLists : UserEdit(s)
    <2>1. dpa'.ver = dpa.ver + 1 /\ UNCHANGED <<cache, read, pc>>
      BY <1>1 DEF UserEdit
    <2> QED
      BY <1>n, <2>1 DEF CopiesAreVersions
  <1>2. CASE InformDPA
    <2>1. cache' = dpa /\ UNCHANGED <<dpa, read, pc>>
      BY <1>2 DEF InformDPA
    <2> QED
      BY <1>n, <2>1 DEF CopiesAreVersions
  <1>3. CASE Start
    <2>1. read' = cache /\ UNCHANGED <<dpa, cache>>
      BY <1>3 DEF Start
    <2> QED
      BY <1>n, <2>1 DEF CopiesAreVersions
  <1>4. CASE Return /\ UNCHANGED <<dpa, cache>>
    <2>1. read' = dpa /\ pc' = "idle" /\ UNCHANGED <<dpa, cache>>
      BY <1>4 DEF Return
    <2> QED
      BY <1>n, <2>1 DEF CopiesAreVersions
  <1>5. CASE UNCHANGED <<dpa, cache, read>> /\ (pc' = pc \/ pc # "idle")
    BY <1>5, Zenon DEF CopiesAreVersions
  <1> QED
    BY <1>1, <1>2, <1>3, <1>4, <1>5, Zenon
    DEF Next, Worker, vars, UserDelete, InformLocation, CreateOrPatch, ReturnError, ListLabelled,
        DeleteExtra, CallFails, Finish

(* The entry that the loop is at, what it wants, and what a patch makes.   *)
AtName == EntryName(read.list, next)
AtKind == read.list[next].kind
Wanted == Target(AtKind, view[AtName])
Stored == Patched(locs[AtName], view[AtName], Wanted)

(* The entry is skipped or patched, and the loop goes on to the next one. *)
Skips == view[AtName] = Wanted /\ UNCHANGED <<locs, events>>

Patches ==
    /\ view[AtName] # Wanted /\ (view[AtName] = Absent <=> locs[AtName] = Absent)
    /\ Store(AtName, Stored)
    /\ Stored \in Locations /\ Stored # Absent
    /\ Stored.ours = IF Wanted.ours = view[AtName].ours THEN locs[AtName].ours ELSE Wanted.ours
    /\ Stored.kind = IF AtKind = view[AtName].kind THEN locs[AtName].kind ELSE AtKind

(* The iteration is refused, or skips or patches its location. *)
LEMMA CreateOrPatchEffect ==
    ASSUME TypeOK, CreateOrPatch
    PROVE  /\ AtName \in Names /\ AtName \in EntryNames(read.list) /\ AtKind \in Kinds
           /\ Wanted.ours = (AtKind = "velero" \/ view[AtName].ours)
           /\ Wanted.kind = AtKind
           /\ pc = "apply" /\ next \in DOMAIN read.list
           /\ UNCHANGED <<dpa, cache, view, budget>>
           /\ \/ ReturnError /\ UNCHANGED <<locs, events>>
              \/ /\ next' = next + 1 /\ UNCHANGED <<queued, pc, read, extras>>
                 /\ Skips \/ Patches
  <1>1. read.list \in SpecLists /\ next \in DOMAIN read.list
    BY DEF CreateOrPatch, TypeOK, DPAs
  <1>2. AtName \in Names /\ AtName \in EntryNames(read.list) /\ AtKind \in Kinds
    BY <1>1, EntryNamed, Positions DEF AtName, AtKind
  <1>3. locs[AtName] \in Locations /\ view[AtName] \in Locations
    BY <1>2 DEF TypeOK
  <1>4. Wanted.ours = (AtKind = "velero" \/ view[AtName].ours) /\ Wanted.kind = AtKind
    BY DEF Wanted, Target
  <1>5. ASSUME view[AtName] = Absent <=> locs[AtName] = Absent
        PROVE  /\ Stored \in Locations /\ Stored # Absent
               /\ Stored.ours = IF Wanted.ours = view[AtName].ours THEN locs[AtName].ours
                                ELSE Wanted.ours
               /\ Stored.kind = IF AtKind = view[AtName].kind THEN locs[AtName].kind ELSE AtKind
    <2>1. PICK name, kind : name = AtName /\ kind = AtKind
      OBVIOUS
    <2>2. PICK loc, cached : loc = locs[name] /\ cached = view[name]
      OBVIOUS
    <2>3. Wanted = Target(kind, cached) /\ Stored = Patched(loc, cached, Target(kind, cached))
      BY <2>1, <2>2 DEF Wanted, Stored
    <2>4. kind \in Kinds /\ loc \in Locations /\ cached \in Locations
          /\ (cached = Absent <=> loc = Absent)
      BY <1>2, <1>3, <1>5, <2>1, <2>2
    <2>5. LET want == Target(kind, cached)
              new == Patched(loc, cached, want)
          IN  /\ new \in Locations /\ new # Absent
              /\ new.ours = IF want.ours = cached.ours THEN loc.ours ELSE want.ours
              /\ new.kind = IF kind = cached.kind THEN loc.kind ELSE kind
      BY <2>4, PatchedParts
    <2> QED
      BY <2>1, <2>2, <2>3, <2>5, Zenon
  <1>6. pc = "apply" /\ UNCHANGED <<dpa, cache, view, budget>>
    BY DEF CreateOrPatch
  <1>7. \/ ReturnError /\ UNCHANGED <<locs, events>>
        \/ /\ next' = next + 1 /\ UNCHANGED <<queued, pc, read, extras>>
           /\ \/ view[AtName] = Wanted /\ UNCHANGED <<locs, events>>
              \/ /\ view[AtName] # Wanted /\ (view[AtName] = Absent <=> locs[AtName] = Absent)
                 /\ Store(AtName, Stored)
    BY Zenon DEF CreateOrPatch, AtName, AtKind, Wanted, Stored
  <1> QED
    BY <1>1, <1>2, <1>4, <1>5, <1>6, <1>7, Zenon DEF Skips, Patches

(* What a patch leaves is labelled if it is inline or its cached copy is.  *)
LEMMA PatchLabels ==
    ASSUME NEW n \in Names, LabelsStayOn(n), NEW kind \in Kinds,
           locs[n] \in Locations, view[n] \in Locations,
           NEW wanted, wanted = (kind = "velero" \/ view[n].ours),
           NEW new, view[n] = Absent <=> locs[n] = Absent,
           new.ours = IF wanted = view[n].ours THEN locs[n].ours ELSE wanted,
           new.kind = IF kind = view[n].kind THEN locs[n].kind ELSE kind
    PROVE  /\ new.kind = "velero" => new.ours
           /\ view[n].ours => new.ours
           /\ kind = "velero" /\ view[n] # Inline => new.ours /\ new.kind = "velero"
  <1>1. view[n].ours => locs[n].ours
    BY LocationParts, Zenon DEF LabelsStayOn
  <1>2. view[n].ours \in BOOLEAN
    BY LocationParts
  <1>i. view[n] = Inline <=> view[n].ours /\ view[n].kind = "velero"
    BY LocationParts
  <1>3. CASE view[n].ours
    <2>1. wanted = TRUE /\ view[n].ours = TRUE
      BY <1>2, <1>3, Zenon
    <2>2. new.ours = locs[n].ours
      BY <2>1, Zenon
    <2> QED
      BY <1>1, <1>3, <1>i, <2>2, Zenon
  <1>4. CASE ~view[n].ours
    <2>1. view[n].ours = FALSE /\ wanted = (kind = "velero")
      BY <1>2, <1>4, Zenon
    <2>2. CASE kind = "velero"
      BY <1>4, <2>1, <2>2, Zenon DEF LabelsStayOn
    <2>3. CASE kind # "velero"
      <3>1. new.ours = locs[n].ours
        BY <2>1, <2>3, Zenon
      <3> QED
        BY <1>4, <2>3, <3>1, Zenon DEF LabelsStayOn
    <2> QED
      BY <2>2, <2>3
  <1> QED
    BY <1>3, <1>4

(* A write that keeps the labels, or deletes, keeps LabelsStay; and one    *)
(* that does away with an inline location wakes the worker.                *)
LEMMA StoreLabels ==
    ASSUME TypeOK, NEW n \in Names, LabelsStayOn(n), NEW loc \in Locations,
           Store(n, loc), view'[n] = view[n],
           loc.kind = "velero" => loc.ours,
           view[n].ours => loc.ours \/ loc = Absent
    PROVE  /\ LabelsStayOn(n)'
           /\ locs[n] = Inline => locs'[n] = Inline \/ events'[n] = "wake"
  <1>1. locs[n] \in Locations /\ view[n] \in Locations
    BY DEF TypeOK
  <1>2. /\ locs'[n] = loc
        /\ events[n] = "wake" => events'[n] = "wake"
        /\ loc # locs[n] /\ Wakes(locs[n], loc) => events'[n] = "wake"
        /\ loc # locs[n] => events'[n] # "none"
        /\ loc = locs[n] => events' = events
    BY StoreEffect
  <1>3. locs[n] # Absent /\ locs[n].ours /\ locs[n].kind # loc.kind => Wakes(locs[n], loc)
    BY DEF Wakes
  <1>4. view[n].ours /\ view[n].kind # loc.kind => events'[n] = "wake"
    <2> SUFFICES ASSUME view[n].ours, view[n].kind # loc.kind, events[n] # "wake"
                 PROVE  events'[n] = "wake"
      BY <1>2
    <2>1. view[n].kind = locs[n].kind
      BY DEF LabelsStayOn
    <2>2. locs[n] # Absent /\ locs[n].ours
      BY <1>1, <2>1, LocationParts, Zenon DEF LabelsStayOn
    <2> QED
      BY <1>2, <1>3, <2>1, <2>2
  <1>5. LabelsStayOn(n)'
    BY <1>2, <1>4, Zenon DEF LabelsStayOn
  <1>6. ASSUME locs[n] = Inline, loc # Inline PROVE events'[n] = "wake"
    <2>1. locs[n].ours /\ locs[n].kind = "velero" /\ locs[n] # Absent
      BY <1>1, <1>6, LocationParts, Zenon
    <2>2. loc.kind # "velero"
      BY <1>6, LocationParts, Zenon
    <2> QED
      BY <1>2, <1>3, <1>6, <2>1, <2>2
  <1> QED
    BY <1>2, <1>5, <1>6

(* A step of any kind, seen from one location: what is stored is labelled  *)
(* if it is inline, and so is a cached labelled location while it exists.  *)
LEMMA LabelsStep ==
    ASSUME TypeOK, LabelsStay, [Next]_vars, NEW n \in Names
    PROVE  /\ LabelsStayOn(n)'
           /\ \/ Start
              \/ InPlace(n) => InPlace(n)'
  <1>1. LabelsStayOn(n)
    BY Zenon DEF LabelsStay
  <1>t. queued \in BOOLEAN /\ locs[n] \in Locations /\ view[n] \in Locations
    BY DEF TypeOK
  <1>u. ASSUME locs'[n] = locs[n], view'[n] = view[n], events'[n] = events[n],
               queued => queued'
        PROVE  LabelsStayOn(n)' /\ (InPlace(n) => InPlace(n)')
    BY <1>1, <1>u, Zenon DEF LabelsStayOn, InPlace
  <1>a. Absent \in Locations /\ Absent.kind # "velero"
    BY DEF Locations, Absent
  <1>s. ASSUME NEW m \in Names, NEW loc \in Locations, Store(m, loc), view' = view,
               queued' = queued,
               m = n => (loc.kind = "velero" => loc.ours),
               m = n => (view[n].ours => loc.ours \/ loc = Absent)
        PROVE  LabelsStayOn(n)' /\ (InPlace(n) => InPlace(n)')
    <2>1. CASE m = n
      <3>1. LabelsStayOn(n)' /\ (locs[n] = Inline => locs'[n] = Inline \/ events'[n] = "wake")
        BY <1>1, <1>s, <2>1, StoreLabels
      <3>2. events[n] = "wake" => events'[n] = "wake"
        BY <1>s, <2>1, StoreEffect
      <3> QED
        BY <1>s, <3>1, <3>2, Zenon DEF InPlace
    <2>2. CASE m # n
      <3>1. locs'[n] = locs[n] /\ events'[n] = events[n]
        BY <1>s, <2>2, StoreEffect
      <3> QED
        BY <1>u, <1>s, <3>1, Zenon
    <2> QED
      BY <2>1, <2>2
  <1>2. ASSUME NEW m \in Names, UserDelete(m) PROVE LabelsStayOn(n)' /\ (InPlace(n) => InPlace(n)')
    BY <1>2, <1>a, <1>s, Zenon DEF UserDelete
  <1>3. CASE InformDPA
    BY <1>3, <1>u, Zenon DEF InformDPA
  <1>4. ASSUME NEW m \in Names, InformLocation(m)
        PROVE  LabelsStayOn(n)' /\ (InPlace(n) => InPlace(n)')
    <2>1. CASE m = n
      <3>1. view'[n] = locs[n] /\ events'[n] = "none" /\ locs' = locs
            /\ (queued \/ events[n] = "wake" => queued')
        BY <1>4, <2>1, Zenon DEF InformLocation, TypeOK
      <3> QED
        BY <1>1, <3>1, Zenon DEF LabelsStayOn, InPlace
    <2>2. CASE m # n
      <3>1. view'[n] = view[n] /\ events'[n] = events[n] /\ locs' = locs
            /\ (queued => queued')
        BY <1>4, <2>2 DEF InformLocation, TypeOK
      <3> QED
        BY <1>1, <3>1, Zenon DEF LabelsStayOn, InPlace
    <2> QED
      BY <2>1, <2>2
  <1>5. CASE Start
    BY <1>1, <1>5, Zenon DEF Start, LabelsStayOn
  <1>6. CASE CreateOrPatch
    <2>1. CASE UNCHANGED <<locs, events>>
      BY <1>6, <1>u, <2>1, CreateOrPatchEffect, Zenon DEF ReturnError
    <2>2. CASE Patches /\ UNCHANGED <<queued, view>>
      <3>1. AtName \in Names /\ AtKind \in Kinds
            /\ Wanted.ours = (AtKind = "velero" \/ view[AtName].ours)
        BY <1>6, CreateOrPatchEffect, Zenon
      <3>2. LabelsStayOn(AtName) /\ locs[AtName] \in Locations /\ view[AtName] \in Locations
        BY <3>1 DEF LabelsStay, TypeOK
      <3>3. (Stored.kind = "velero" => Stored.ours) /\ (view[AtName].ours => Stored.ours)
        BY <2>2, <3>1, <3>2, PatchLabels, ZenonT(30) DEF Patches
      <3> QED
        BY <1>s, <2>2, <3>1, <3>3, Zenon DEF Patches
    <2> QED
      BY <1>6, <2>1, <2>2, CreateOrPatchEffect, Zenon DEF Skips
  <1>7. ASSUME NEW m \in Names, DeleteExtra(m)
        PROVE  LabelsStayOn(n)' /\ (InPlace(n) => InPlace(n)')
    BY <1>7, <1>a, <1>s, <1>u, Zenon DEF DeleteExtra, ReturnError
  <1>8. CASE UNCHANGED <<locs, view, events>> /\ (queued => queued')
    BY <1>1, <1>8, Zenon DEF LabelsStayOn, InPlace
  <1>9. ASSUME ListLabelled \/ Finish \/ CallFails \/ (\E s \in SpecLists : UserEdit(s))
               \/ UNCHANGED vars
        PROVE  UNCHANGED <<locs, view, events>> /\ (queued => queued')
    <2>1. CASE Finish
      BY <2>1, Zenon DEF Finish
    <2> QED
      BY <1>9, <2>1 DEF ListLabelled, CallFails, ReturnError, UserEdit, vars
  <1> QED
    BY <1>2, <1>3, <1>4, <1>5, <1>6, <1>7, <1>8, <1>9, Zenon DEF Next, Worker

(* What has been put in place stays so until the worker starts over. *)
LEMMA InPlaceKept ==
    ASSUME TypeOK, LabelsStay, [Next]_vars, ~Start, NEW list \in SpecLists, NEW end,
           InPlaceBefore(list, end)
    PROVE  InPlaceBefore(list, end)'
  <1>1. ASSUME NEW n \in Names, InPlace(n) PROVE InPlace(n)'
    BY <1>1, LabelsStep, Zenon
  <1>2. \A i \in DOMAIN list : EntryName(list, i) \in Names
    BY EntryNamed
  <1> QED
    BY <1>1, <1>2, Zenon DEF InPlaceBefore

(* While the worker is about to look again, nothing need be in place. *)
LEMMA QueuedInPlace ==
    ASSUME NEW list, NEW end
    PROVE  queued => InPlaceBefore(list, end)
  BY DEF InPlaceBefore, InPlace

(* The entry just applied is in place, even if a stale copy made the       *)
(* callback skip it.                                                       *)
LEMMA AppliedInPlace ==
    ASSUME TypeOK, LabelsStay, CreateOrPatch, AtKind = "velero",
           Skips \/ Patches, NEW n, n = AtName
    PROVE  InPlace(n)'
  <1>1. n \in Names /\ view' = view
    BY CreateOrPatchEffect, Zenon
  <1>2. locs[n] \in Locations /\ view[n] \in Locations /\ LabelsStayOn(n)
    BY <1>1 DEF TypeOK, LabelsStay
  <1>3. Wanted = Inline
    BY Zenon DEF Wanted, Target, Inline
  <1>4. CASE Skips
    <2>1. view[n] = Inline
      BY <1>3, <1>4 DEF Skips
    <2>2. view[n].ours /\ view[n].kind = "velero"
      BY <1>2, <2>1, LocationParts, Zenon
    <2>3. locs[n] = Inline \/ events[n] = "wake"
      BY <1>2, <2>2, LocationParts, Zenon DEF LabelsStayOn
    <2> QED
      BY <1>4, <2>3, Zenon DEF InPlace, Skips
  <1>5. CASE Patches
    <2>1. view[n] # Inline /\ AtKind \in Kinds /\ Stored \in Locations
          /\ Wanted.ours = (AtKind = "velero" \/ view[n].ours)
      BY <1>3, <1>5, CreateOrPatchEffect, Zenon DEF Patches
    <2>2. Stored.ours /\ Stored.kind = "velero"
      <3>1. /\ AtName \in Names /\ LabelsStayOn(AtName) /\ AtKind \in Kinds
            /\ locs[AtName] \in Locations /\ view[AtName] \in Locations
            /\ view[AtName] # Inline
            /\ Wanted.ours = (AtKind = "velero" \/ view[AtName].ours)
        BY <1>1, <1>2, <2>1, Zenon
      <3> QED
        BY <1>5, <3>1, PatchLabels, ZenonT(30) DEF Patches
    <2>3. Stored = Inline
      BY <2>1, <2>2, LocationParts, Zenon
    <2>4. locs'[n] = Inline
      BY <1>1, <1>5, <2>1, <2>3, StoreEffect DEF Patches
    <2> QED
      BY <2>4 DEF InPlace
  <1> QED
    BY <1>4, <1>5

(* The batch makes progress: each iteration puts its entry in place, an    *)
(* error puts the key back, and a batch that ends well has read the spec   *)
(* that the cache holds.                                                   *)
LEMMA ProgressStep ==
    ASSUME IInv, [Next]_vars
    PROVE  Progress'
  <1> USE DEF IInv
  <1>t. next \in Nat /\ read.list \in SpecLists /\ cache.list \in SpecLists
        /\ read.ver \in Nat /\ cache.ver \in Nat /\ dpa.ver \in Nat
    BY DEF TypeOK, DPAs
  <1>l. Len(read.list) \in Nat /\ DOMAIN read.list = 1..Len(read.list)
    BY <1>t, Positions
  <1>k. ASSUME ~Start, NEW list \in SpecLists, NEW end, InPlaceBefore(list, end)
        PROVE  InPlaceBefore(list, end)'
    BY <1>k, InPlaceKept
  <1>e. ASSUME ReturnError PROVE Progress'
    <2>1. queued' /\ pc' = "idle" /\ next' = 1
      BY <1>e DEF ReturnError, Return
    <2>2. InPlaceBefore(cache.list, Len(cache.list) + 1)'
      BY <2>1 DEF InPlaceBefore, InPlace
    <2> QED
      BY <2>1, <2>2 DEF Progress
  <1>u. ASSUME ~Start, UNCHANGED <<cache, pc, read, next, extras>> PROVE Progress'
    <2>1. PICK rl, rn, k, cl, cn : rl = read.list /\ rn = Len(read.list) + 1 /\ k = next
                                   /\ cl = cache.list /\ cn = Len(cache.list) + 1
      OBVIOUS
    <2>2. /\ pc = "apply" => InPlaceBefore(rl, k)
          /\ pc = "prune" => InPlaceBefore(rl, rn)
          /\ pc = "idle" => InPlaceBefore(cl, cn)
      BY <2>1 DEF Progress
    <2>3. /\ pc = "apply" => InPlaceBefore(rl, k)'
          /\ pc = "prune" => InPlaceBefore(rl, rn)'
          /\ pc = "idle" => InPlaceBefore(cl, cn)'
      BY <1>k, <1>t, <1>u, <2>1, <2>2
    <2>4. /\ rl = read'.list /\ rn = Len(read'.list) + 1 /\ k = next'
          /\ cl = cache'.list /\ cn = Len(cache'.list) + 1 /\ pc' = pc /\ extras' = extras
      BY <1>u, <2>1
    <2>5. /\ pc' = "apply" => InPlaceBefore(read.list, next)'
          /\ pc' = "prune" => InPlaceBefore(read.list, Len(read.list) + 1)'
          /\ pc' = "idle" => InPlaceBefore(cache.list, Len(cache.list) + 1)'
      BY <2>3, <2>4, ZenonT(30) DEF InPlaceBefore, InPlace
    <2> QED
      BY <1>u, <2>1, <2>4, <2>5 DEF Progress
  <1>1. CASE InformDPA
    <2>1. queued' /\ UNCHANGED <<pc, read, next, extras>>
      BY <1>1 DEF InformDPA
    <2> QED
      BY <2>1 DEF Progress, InPlaceBefore, InPlace
  <1>2. CASE Start
    <2>1. next = 1 /\ next' = 1 /\ pc' = "apply"
      BY <1>2 DEF Start, Progress
    <2>2. read'.list \in SpecLists
      BY <1>2, <1>t DEF Start
    <2>3. \A i \in DOMAIN read'.list : ~(i < 1)
      BY <2>2, Positions
    <2> QED
      BY <2>1, <2>3 DEF Progress, InPlaceBefore
  <1>3. CASE CreateOrPatch
    <2>1. CASE next' = next + 1 /\ UNCHANGED <<pc, read>> /\ (Skips \/ Patches)
      <3>1. pc = "apply" /\ next \in DOMAIN read.list
        BY <1>3, CreateOrPatchEffect, Zenon
      <3>s. ~Start
        BY <3>1 DEF Start
      <3>2. PICK list, k : list = read.list /\ k = next
        OBVIOUS
      <3>3. InPlaceBefore(list, k)'
        <4>1. InPlaceBefore(list, k)
          BY <3>1, <3>2 DEF Progress
        <4> QED
          BY <1>k, <1>t, <3>s, <3>2, <4>1
      <3>4. list[k].kind = "velero" => InPlace(EntryName(list, k))'
        <4>1. PICK n : n = AtName
          OBVIOUS
        <4>2. list[k].kind = "velero" => InPlace(n)'
          BY <1>3, <2>1, <3>2, <4>1, AppliedInPlace DEF AtKind
        <4> QED
          BY <3>2, <4>1, <4>2, Zenon DEF AtName, EntryName, InPlace
      <3>5. InPlaceBefore(list, k + 1)'
        <4>1. \A i \in DOMAIN list : i < k + 1 => i < k \/ i = k
          BY <1>l, <1>t, <3>2
        <4> QED
          BY <3>3, <3>4, <4>1, Zenon DEF InPlaceBefore
      <3>6. read'.list = list /\ next' = k + 1 /\ pc' = "apply" /\ next' >= 1
        BY <1>t, <2>1, <3>1, <3>2
      <3>7. InPlaceBefore(read.list, next)'
        BY <3>5, <3>6, Zenon DEF InPlaceBefore, InPlace
      <3> QED
        BY <3>6, <3>7 DEF Progress
    <2> QED
      BY <1>3, <1>e, <2>1, CreateOrPatchEffect, Zenon
  <1>4. CASE ListLabelled
    <2>1. ~Start /\ pc = "apply" /\ pc' = "prune" /\ next \notin DOMAIN read.list
          /\ UNCHANGED <<read, next>>
      BY <1>4 DEF ListLabelled, Start
    <2>2. PICK list, end : list = read.list /\ end = Len(read.list) + 1
      OBVIOUS
    <2>3. next > Len(list) /\ DOMAIN list = 1..Len(list) /\ Len(list) \in Nat /\ list \in SpecLists
      BY <1>l, <1>t, <2>1, <2>2 DEF Progress
    <2>4. InPlaceBefore(list, end)
      <3>1. InPlaceBefore(list, next)
        BY <2>1, <2>2 DEF Progress
      <3>2. \A i \in DOMAIN list : i < end => i < next
        BY <1>t, <2>2, <2>3
      <3> QED
        BY <3>1, <3>2, Zenon DEF InPlaceBefore
    <2>5. InPlaceBefore(list, end)'
      BY <1>k, <2>1, <2>3, <2>4
    <2>6. InPlaceBefore(read.list, Len(read.list) + 1)'
      <3>1. read'.list = list /\ Len(read'.list) + 1 = end
        BY <2>1, <2>2
      <3> QED
        BY <2>5, <3>1, Zenon DEF InPlaceBefore, InPlace
    <2>7. extras' \cap EntryNames(read.list) = {}
      BY <1>4 DEF ListLabelled, ExtrasOf
    <2>8. EntryNames(read.list)' = EntryNames(read.list)
      BY <2>1, Zenon
    <2> QED
      BY <2>1, <2>6, <2>7, <2>8 DEF Progress
  <1>5. ASSUME NEW n \in Names, DeleteExtra(n) PROVE Progress'
    <2>1. CASE extras' = extras \ {n} /\ UNCHANGED <<pc, read, next>>
      <3>1. pc = "prune" /\ ~Start
        BY <1>5 DEF DeleteExtra, Start
      <3>2. PICK list, end : list = read.list /\ end = Len(read.list) + 1
        OBVIOUS
      <3>3. InPlaceBefore(list, end)
        BY <3>1, <3>2 DEF Progress
      <3>4. InPlaceBefore(list, end)'
        BY <1>k, <1>t, <3>1, <3>2, <3>3
      <3>5. InPlaceBefore(read.list, Len(read.list) + 1)'
        <4>1. read'.list = list /\ Len(read'.list) + 1 = end
          BY <2>1, <3>2
        <4> QED
          BY <3>4, <4>1, Zenon DEF InPlaceBefore, InPlace
      <3>6. EntryNames(read.list)' = EntryNames(read.list)
        BY <2>1, Zenon
      <3> QED
        BY <2>1, <3>1, <3>5, <3>6 DEF Progress
    <2> QED
      BY <1>5, <1>e, <2>1, Zenon DEF DeleteExtra
  <1>6. CASE CallFails
    BY <1>6, <1>e DEF CallFails
  <1>7. CASE Finish
    <2>1. ~Start /\ pc = "prune" /\ pc' = "idle" /\ next' = 1 /\ cache' = cache
      BY <1>7 DEF Finish, Start, Return
    <2>2. InPlaceBefore(cache.list, Len(cache.list) + 1)'
      <3>1. CASE queued'
        BY <3>1 DEF InPlaceBefore, InPlace
      <3>2. CASE ~queued'
        <4>1. read.ver = dpa.ver
          BY <1>7, <3>2, Zenon DEF Finish
        <4>2. cache = read
          BY <1>t, <2>1, <4>1 DEF CopiesAreVersions
        <4>3. PICK list, end : list = cache.list /\ end = Len(cache.list) + 1
          OBVIOUS
        <4>4. InPlaceBefore(list, end)
          BY <2>1, <4>2, <4>3 DEF Progress
        <4>5. InPlaceBefore(list, end)'
          BY <1>k, <1>t, <2>1, <4>3, <4>4
        <4>6. list = cache'.list /\ end = Len(cache'.list) + 1
          BY <2>1, <4>3
        <4> QED
          BY <4>5, <4>6, Zenon DEF InPlaceBefore, InPlace
      <3> QED
        BY <3>1, <3>2
    <2> QED
      BY <2>1, <2>2 DEF Progress
  <1>8. ASSUME (\E s \in SpecLists : UserEdit(s)) \/ (\E n \in Names : UserDelete(n))
               \/ (\E n \in Names : InformLocation(n)) \/ UNCHANGED vars, ~Start
        PROVE  Progress'
    BY <1>8, <1>u, Zenon DEF UserEdit, UserDelete, InformLocation, vars
  <1> QED
    BY <1>1, <1>2, <1>3, <1>4, <1>5, <1>6, <1>7, <1>8, Zenon DEF Next, Worker

(* The inductive invariant holds at the start. *)
LEMMA IInvInit == Init => IInv
  <1> SUFFICES ASSUME Init PROVE IInv
    OBVIOUS
  <1>1. TypeOK
    BY TypeInit
  <1>2. CopiesAreVersions
    <2>1. dpa.ver = 1 /\ cache = dpa /\ read = dpa /\ pc = "idle"
      BY DEF Init
    <2> QED
      BY <2>1 DEF CopiesAreVersions
  <1>3. LabelsStay
    <2>1. ASSUME NEW n \in Names
          PROVE  locs[n] = Absent /\ view[n] = Absent /\ events[n] = "none"
      BY DEF Init
    <2>2. ~Absent.ours /\ Absent.kind # "velero"
      BY DEF Absent
    <2> QED
      BY <2>1, <2>2, Zenon DEF LabelsStay, LabelsStayOn
  <1>4. Progress
    BY DEF Init, Progress, InPlaceBefore, InPlace
  <1> QED
    BY <1>1, <1>2, <1>3, <1>4 DEF IInv

(* Every step keeps the inductive invariant. *)
LEMMA IInvNext == IInv /\ [Next]_vars => IInv'
  <1> SUFFICES ASSUME IInv, [Next]_vars PROVE IInv'
    OBVIOUS
  <1>1. LabelsStay'
    BY LabelsStep, Zenon DEF IInv, LabelsStay
  <1> QED
    BY <1>1, TypeNext, VersionsStep, ProgressStep, Zenon DEF IInv

(* SpecifiedExist of the runs: at rest every inline location of the spec   *)
(* exists with the operator's labels, although the loop of bsl.go and      *)
(* vsl.go skips an entry that its cache shows as wanted.                   *)
THEOREM InlineLocationsExist == Spec => []SpecifiedExist
  <1>1. IInv => SpecifiedExist
    <2> SUFFICES ASSUME IInv, Quiescent, NEW i \in DOMAIN dpa.list,
                        dpa.list[i].kind = "velero"
                 PROVE  locs[EntryName(dpa.list, i)] = Inline
      BY DEF SpecifiedExist, Inline
    <2>1. pc = "idle" /\ ~queued /\ cache = dpa /\ \A n \in Names : events[n] = "none"
      BY DEF Quiescent
    <2>2. dpa.list \in SpecLists
      BY DEF IInv, TypeOK, DPAs
    <2>3. EntryName(dpa.list, i) \in Names
      BY <2>2, EntryNamed
    <2>4. i < Len(dpa.list) + 1
      BY <2>2, Positions
    <2>5. InPlace(EntryName(dpa.list, i))
      BY <2>1, <2>4 DEF IInv, Progress, InPlaceBefore
    <2> QED
      BY <2>1, <2>3, <2>5 DEF InPlace
  <1> QED
    BY <1>1, IInvInit, IInvNext, PTL DEF Spec

(* NoCurrentLocationDeleted of the runs: a reconcile that deletes a        *)
(* location which the spec names has read an older spec.                   *)
THEOREM OnlyStaleDeletes == Spec => NoCurrentLocationDeleted
  <1> DEFINE Spares == \A n \in EntryNames(dpa.list) :
                         pc = "prune" /\ locs[n] # Absent /\ locs'[n] = Absent /\ budget' = budget
                             => read.ver < dpa.ver
  <1>1. IInv /\ [Next]_vars => Spares
    <2> SUFFICES ASSUME IInv, [Next]_vars, NEW n \in EntryNames(dpa.list), pc = "prune",
                        locs[n] # Absent, locs'[n] = Absent, budget' = budget
                 PROVE  read.ver < dpa.ver
      BY Zenon
    <2>t. TypeOK /\ read.ver \in Nat /\ dpa.ver \in Nat
      BY DEF IInv, TypeOK, DPAs
    <2>1. locs' # locs
      BY Zenon
    <2>2. \A m \in Names : ~UserDelete(m)
      BY <2>t, SpendType, Zenon DEF UserDelete
    <2>3. PICK m \in Names : DeleteExtra(m)
      BY <2>1, <2>2, Zenon
      DEF Next, Worker, vars, Start, CreateOrPatch, ListLabelled, Finish, CallFails, InformDPA,
          InformLocation, UserEdit
    <2>4. m \in extras /\ Store(m, Absent)
      BY <2>1, <2>3, Zenon DEF DeleteExtra
    <2>5. n = m
      BY <2>4 DEF Store, IInv, TypeOK
    <2>6. n \notin EntryNames(read.list)
      BY <2>4, <2>5 DEF IInv, Progress
    <2>7. read # dpa
      BY <2>6, Zenon
    <2> QED
      BY <2>t, <2>7 DEF IInv, CopiesAreVersions
  <1> QED
    BY <1>1, IInvInit, IInvNext, PTL DEF Spec, NoCurrentLocationDeleted

-----------------------------------------------------------------------------
(* The copies of the DPA are plain as long as the DPA is. *)
LEMMA PlainCopies ==
    ASSUME PlainInv, Plain(dpa.list), [Next]_vars
    PROVE  Plain(cache.list)' /\ Plain(read.list)'
  <1>1. (cache' = cache \/ cache' = dpa) /\ (read' = read \/ read' = cache \/ read' = dpa)
    BY Zenon
    DEF Next, Worker, vars, UserEdit, UserDelete, InformDPA, InformLocation, Start, CreateOrPatch,
        ReturnError, Return, ListLabelled, DeleteExtra, CallFails, Finish
  <1>2. Plain(cache.list) /\ Plain(read.list)
    BY DEF PlainInv
  <1> QED
    BY <1>1, <1>2, Zenon

(* With plain lists a write that changes a location wakes the worker. *)
LEMMA PlainStore ==
    ASSUME TypeOK, NEW m \in Names, NEW loc \in {Absent, Inline}, Store(m, loc), view' = view,
           \A n \in Names : PlainOn(n)
    PROVE  /\ \A n \in Names : PlainOn(n)'
           /\ loc # locs[m] => Busy'
           /\ loc = locs[m] => UNCHANGED <<locs, events>>
  <1>1. loc \in Locations
    <2>1. Absent \in Locations /\ Inline \in Locations
      BY DEF Locations, Inline, Kinds
    <2> QED
      BY <2>1
  <1>2. /\ locs'[m] = loc
        /\ \A n \in Names \ {m} : locs'[n] = locs[n] /\ events'[n] = events[n]
        /\ events[m] = "wake" => events'[m] = "wake"
        /\ loc # locs[m] /\ Wakes(locs[m], loc) => events'[m] = "wake"
        /\ loc = locs[m] => locs' = locs /\ events' = events
    BY <1>1, StoreEffect
  <1>3. locs[m] \in {Absent, Inline}
    BY DEF PlainOn
  <1>4. loc # locs[m] => Wakes(locs[m], loc)
    <2>1. Wakes(Absent, Inline) /\ Wakes(Inline, Absent)
      BY DEF Wakes, Absent, Inline
    <2> QED
      BY <1>3, <2>1
  <1>5. loc # locs[m] => events'[m] = "wake"
    BY <1>2, <1>4
  <1>6. ASSUME NEW n \in Names PROVE PlainOn(n)'
    <2>1. PlainOn(n)
      OBVIOUS
    <2>2. CASE n = m
      BY <1>2, <1>5, <2>1, <2>2, Zenon DEF PlainOn
    <2>3. CASE n # m
      <3>1. locs'[n] = locs[n] /\ events'[n] = events[n]
        BY <1>2, <2>3
      <3> QED
        BY <2>1, <3>1, Zenon DEF PlainOn
    <2> QED
      BY <2>2, <2>3
  <1>7. loc # locs[m] => Busy'
    BY <1>5, Zenon DEF Busy
  <1> QED
    BY <1>2, <1>6, <1>7, Zenon

(* The list of the cache is complete when nothing is on its way, and then  *)
(* comparing the lengths is as good as comparing the names.                *)
LEMMA ListCovers ==
    ASSUME IInv, PlainInv, ListLabelled
    PROVE  (Busy \/ Covered)'
  <1>1. pc = "apply" /\ pc' = "prune" /\ next \notin DOMAIN read.list
        /\ UNCHANGED <<locs, view, events, queued, read>>
    BY DEF ListLabelled
  <1>2. CASE Busy
    BY <1>1, <1>2, Zenon DEF Busy
  <1>3. CASE ~Busy
    <2> DEFINE names == EntryNames(read.list)
               listed == {n \in Names : view[n].ours}
    <2>1. read.list \in SpecLists /\ next \in Nat
      BY DEF IInv, TypeOK, DPAs
    <2>2. \A n \in Names : view[n] = locs[n] /\ ~queued /\ events[n] # "wake"
      BY <1>3 DEF Busy, PlainInv, PlainOn
    <2>3. \A i \in DOMAIN read.list : i < next
      BY <1>1, <2>1, Positions DEF IInv, Progress
    <2>4. ASSUME NEW i \in DOMAIN read.list PROVE EntryName(read.list, i) \in listed
      <3>1. EntryName(read.list, i) \in Names
        BY <2>1, EntryNamed
      <3>2. read.list[i].kind = "velero"
        BY DEF PlainInv, Plain
      <3>3. InPlace(EntryName(read.list, i))
        BY <1>1, <2>3, <3>2 DEF IInv, Progress, InPlaceBefore
      <3>4. view[EntryName(read.list, i)] = Inline
        BY <2>2, <3>1, <3>3 DEF InPlace
      <3> QED
        BY <3>1, <3>4 DEF Inline
    <2>5. names \subseteq listed
      BY <2>4 DEF EntryNames
    <2>6. IsFiniteSet(listed)
      BY NamesAssumption, FS_Subset
    <2>7. Cardinality(names) = Len(read.list)
      BY DEF PlainInv, Plain
    <2>8. Len(read.list) = Cardinality(listed) => listed = names
      BY <2>5, <2>6, <2>7, FS_Subset
    <2>9. listed \subseteq names \cup extras'
      BY <2>8, Zenon DEF ListLabelled, ExtrasOf
    <2>10. ASSUME NEW n \in Names, locs'[n].ours PROVE n \in (EntryNames(read.list) \cup extras)'
      <3>1. n \in listed
        BY <1>1, <2>2, <2>10, Zenon
      <3>2. EntryNames(read.list)' = EntryNames(read.list)
        BY <1>1, Zenon
      <3> QED
        BY <2>9, <3>1, <3>2
    <2> QED
      BY <1>1, <2>10 DEF Covered
  <1> QED
    BY <1>2, <1>3

(* Under plain lists every step keeps PlainInv. *)
LEMMA PlainStep ==
    ASSUME IInv, PlainInv, Plain(dpa.list), [Next]_vars
    PROVE  PlainInv'
  <1> DEFINE Each == \A n \in Names : PlainOn(n)
             Rest == Each' /\ (Busy \/ Covered)'
  <1>1. TypeOK /\ Each /\ (Busy \/ Covered)
    BY Zenon DEF IInv, PlainInv
  <1> SUFFICES Rest
    BY PlainCopies, Zenon DEF PlainInv
  <1>i. Absent # Inline
    BY DEF Absent, Inline
  <1>u. ASSUME UNCHANGED <<locs, view, events>> PROVE Each'
    BY <1>1, <1>u, Zenon DEF PlainOn
  <1>q. ASSUME UNCHANGED <<locs, view, events>>, queued' PROVE Rest
    BY <1>q, <1>u, Zenon DEF Busy
  <1>2. ASSUME NEW m \in Names, UserDelete(m) PROVE Rest
    BY <1>1, <1>2, PlainStore, Zenon DEF UserDelete
  <1>3. CASE InformDPA
    BY <1>3, <1>q, Zenon DEF InformDPA
  <1>4. ASSUME NEW m \in Names, InformLocation(m) PROVE Rest
    <2>1. /\ UNCHANGED <<cache, locs, pc, read, extras>>
          /\ queued' = (queued \/ events[m] = "wake")
      BY <1>4 DEF InformLocation
    <2>2. \A n \in Names : \/ n = m /\ view'[n] = locs[n] /\ events'[n] = "none"
                           \/ n # m /\ view'[n] = view[n] /\ events'[n] = events[n]
      BY <1>1, <1>4 DEF InformLocation, TypeOK
    <2>3. Each'
      BY <1>1, <2>1, <2>2, Zenon DEF PlainOn
    <2>4. Busy => Busy'
      <3>1. queued => queued'
        BY <2>1, Zenon
      <3>2. ASSUME NEW n \in Names, events[n] = "wake" PROVE Busy'
        BY <2>1, <2>2, <3>2, Zenon DEF Busy
      <3> QED
        BY <3>1, <3>2, Zenon DEF Busy
    <2>5. Covered => Covered'
      BY <2>1, Zenon DEF Covered
    <2> QED
      BY <1>1, <2>3, <2>4, <2>5, Zenon
  <1>5. CASE Start
    <2>1. pc' = "apply" /\ UNCHANGED <<locs, view, events>>
      BY <1>5 DEF Start
    <2> QED
      BY <1>u, <2>1 DEF Covered
  <1>6. CASE CreateOrPatch
    <2>1. CASE ReturnError /\ UNCHANGED <<locs, events>>
      BY <1>1, <1>6, <1>q, <2>1, CreateOrPatchEffect, Zenon DEF ReturnError
    <2>2. CASE UNCHANGED pc /\ (Skips \/ Patches)
      <3>1. pc' = "apply" /\ view' = view /\ AtName \in Names
        BY <1>1, <1>6, <2>2, CreateOrPatchEffect, Zenon
      <3>2. Covered'
        BY <3>1 DEF Covered
      <3>3. CASE Skips
        BY <1>u, <3>1, <3>2, <3>3, Zenon DEF Skips
      <3>4. CASE Patches
        <4>1. AtKind = "velero"
          BY <1>1, <1>6, CreateOrPatchEffect, Zenon DEF AtKind, PlainInv, Plain
        <4>w. Wanted = Inline
          BY <4>1, Zenon DEF Wanted, Target, Inline
        <4>2. PICK n : n = AtName
          OBVIOUS
        <4>3. view[n] = Absent /\ locs[n] = Absent
          <5>1. view[n] \in {Absent, Inline}
            BY <1>1, <3>1, <4>2 DEF PlainOn
          <5> QED
            BY <3>4, <4>2, <4>w, <5>1, Zenon DEF Patches
        <4>4. Stored = Inline
          <5>1. Stored \in Locations /\ Stored.kind = "velero"
            <6>1. AtKind # view[AtName].kind
              BY <4>1, <4>2, <4>3 DEF Absent
            <6> QED
              BY <3>4, <4>1, <6>1 DEF Patches
          <5>2. Stored.ours
            <6>1. Wanted.ours = TRUE /\ view[AtName].ours = FALSE
              BY <4>2, <4>3, <4>w DEF Inline, Absent
            <6>2. Stored.ours = TRUE
              BY <3>4, <6>1, Zenon DEF Patches
            <6> QED
              BY <6>2
          <5> QED
            BY <5>1, <5>2, LocationParts, Zenon
        <4>5. Each'
          BY <1>1, <3>1, <3>4, <4>4, PlainStore, Zenon DEF Patches
        <4> QED
          BY <3>2, <4>5
      <3> QED
        BY <2>2, <3>3, <3>4
    <2> QED
      BY <1>1, <1>6, <2>1, <2>2, CreateOrPatchEffect, Zenon
  <1>7. CASE ListLabelled
    BY <1>7, <1>u, ListCovers, Zenon DEF ListLabelled
  <1>8. ASSUME NEW m \in Names, DeleteExtra(m) PROVE Rest
    BY <1>1, <1>8, <1>q, PlainStore, Zenon DEF DeleteExtra, ReturnError
  <1>9. CASE CallFails
    BY <1>9, <1>q, Zenon DEF CallFails, ReturnError
  <1>10. CASE Finish
    <2>1. /\ pc = "prune" /\ extras = {} /\ queued' = (queued \/ read.ver # dpa.ver)
          /\ pc' = "idle" /\ UNCHANGED <<cache, locs, view, events>>
      BY <1>10 DEF Finish, Return
    <2>2. CASE queued'
      BY <1>q, <2>1, <2>2, Zenon
    <2>3. CASE ~queued'
      <3>1. ~queued /\ read.ver = dpa.ver
        BY <2>1, <2>3, Zenon
      <3>2. cache = read
        BY <2>1, <3>1 DEF IInv, CopiesAreVersions, TypeOK, DPAs
      <3>3. Covered => Covered'
        BY <2>1, <3>2, Zenon DEF Covered
      <3>4. Busy => Busy'
        BY <2>1, <3>1, Zenon DEF Busy
      <3> QED
        BY <1>1, <1>u, <2>1, <3>3, <3>4, Zenon
    <2> QED
      BY <2>2, <2>3
  <1>11. CASE UNCHANGED <<cache, locs, view, events, queued, pc, read, extras>>
    BY <1>1, <1>11, <1>u, Zenon DEF Busy, Covered
  <1>12. ASSUME (\E s \in SpecLists : UserEdit(s)) \/ UNCHANGED vars PROVE Rest
    BY <1>11, <1>12, Zenon DEF UserEdit, vars
  <1> QED
    BY <1>2, <1>3, <1>4, <1>5, <1>6, <1>7, <1>8, <1>9, <1>10, <1>12, ZenonT(30) DEF Next, Worker

(* PlainExtrasDeleted of the runs: as long as the spec lists inline        *)
(* locations only, each name once, no labelled location that it does not   *)
(* name is left at rest, although the pruning of bsl.go and vsl.go only    *)
(* compares the lengths of two lists, one of them cached.                  *)
THEOREM ExtrasGo == Spec => PlainExtrasDeleted
  <1>1. Init /\ Plain(dpa.list) => PlainInv
    <2> SUFFICES ASSUME Init, Plain(dpa.list) PROVE PlainInv
      OBVIOUS
    <2>1. cache = dpa /\ read = dpa /\ queued
          /\ \A n \in Names : locs[n] = Absent /\ view[n] = Absent
      BY DEF Init
    <2> QED
      BY <2>1, Zenon DEF PlainInv, PlainOn, Busy
  <1>2. IInv /\ PlainInv /\ Plain(dpa.list) /\ [Next]_vars => PlainInv'
    BY PlainStep
  <1>3. PlainInv => ExtrasDeleted
    <2> SUFFICES ASSUME PlainInv, Quiescent, NEW n \in Names, locs[n].ours
                 PROVE  n \in EntryNames(dpa.list)
      BY DEF ExtrasDeleted
    <2>1. pc = "idle" /\ ~queued /\ cache = dpa /\ \A m \in Names : events[m] = "none"
      BY DEF Quiescent
    <2>2. ~Busy
      BY <2>1 DEF Busy
    <2> QED
      BY <2>1, <2>2, Zenon DEF PlainInv, Covered
  <1> QED
    BY <1>1, <1>2, <1>3, IInvInit, IInvNext, PTL DEF Spec, PlainExtrasDeleted
=============================================================================
