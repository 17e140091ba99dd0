-------------------------- MODULE NodeAgentProofs --------------------------
(***************************************************************************)
(* Proofs about NodeAgent, for any specs, any settings, any ConfigMaps     *)
(* that others may change, and any number of edits, changes by others,     *)
(* failing calls and restarts.                                             *)
(***************************************************************************)
EXTENDS NodeAgent, TLAPS

Data == Settings \cup {"none"}
Events == {"none", "quiet", "wake"}
Budgets == [edits : Nat, tampers : Nat, mishaps : Nat]
DPAs == [spec : Specs, ver : Nat]
Mirrored == \A k \in CMs : Mirrors(k)

(* What a spec holds for the DaemonSet and for each ConfigMap. *)
LEMMA SpecParts ==
    ASSUME NEW s \in Specs
    PROVE  s.on \in BOOLEAN /\ \A k \in CMs : Wanted(s, k) \in Data
  <1>1. s \in [on : BOOLEAN, agent : Data, repository : Data, maintenance : Data]
    BY SpecAssumption, Zenon DEF Data
  <1>2. s.on \in BOOLEAN
    BY <1>1
  <1>3. \A k \in CMs : s[k] \in Data
    BY <1>1 DEF CMs
  <1>4. "none" \in Data
    BY DEF Data
  <1> QED
    BY <1>2, <1>3, <1>4, Zenon DEF Wanted

(* Spending keeps the budget well typed, and who changes something that is *)
(* not theirs has spent of it.                                             *)
LEMMA SpendType ==
    ASSUME TypeOK, budget.tampers <= MaxTampers, NEW what \in {"edits", "tampers", "mishaps"},
           Spend(what)
    PROVE  /\ budget' \in Budgets /\ budget'.tampers <= MaxTampers
           /\ Untampered' => Untampered /\ what # "tampers"
  <1>1. budget \in Budgets
    BY DEF TypeOK, Budgets
  <1>2. budget[what] \in Nat /\ budget[what] > 0
    BY <1>1 DEF Budgets, Spend
  <1>3. budget' = [budget EXCEPT ![what] = budget[what] - 1]
    BY DEF Spend
  <1>4. budget' \in Budgets
    BY <1>1, <1>2, <1>3 DEF Budgets
  <1>5. CASE what = "tampers"
    <2>1. budget'.tampers = budget.tampers - 1
      BY <1>1, <1>3, <1>5 DEF Budgets
    <2> QED
      BY <1>1, <1>4, <2>1, BoundAssumption DEF Untampered, Budgets
  <1>6. CASE what # "tampers"
    <2>1. budget'.tampers = budget.tampers
      BY <1>1, <1>3, <1>6 DEF Budgets
    <2> QED
      BY <1>4, <1>6, <2>1 DEF Untampered
  <1> QED
    BY <1>5, <1>6

(* A write of a ConfigMap and the event it leaves: the informer's copy     *)
(* still mirrors it.                                                       *)
LEMMA StoreEffect ==
    ASSUME TypeOK, Mirrored, NEW k \in CMs, NEW data \in Data, Store(k, data)
    PROVE  /\ cm' \in [CMs -> ConfigMaps] /\ event' \in [CMs -> Events]
           /\ \A j \in CMs : /\ cm[j].rv <= cm'[j].rv
                             /\ j # k => cm'[j] = cm[j] /\ event'[j] = event[j]
                             /\ event[j] = "wake" => event'[j] = "wake"
                             /\ \/ event'[j] = "wake"
                                \/ cm[j].data = "none" <=> cm'[j].data = "none"
           /\ view' = view => Mirrored'
  <1>1. /\ cm \in [CMs -> ConfigMaps] /\ view \in [CMs -> ConfigMaps]
        /\ event \in [CMs -> Events]
    BY DEF TypeOK, Events
  <1>2. \A j \in CMs : cm[j].rv \in Nat /\ view[j].rv \in Nat
    BY <1>1 DEF ConfigMaps
  <1>3. CASE data = cm[k].data
    <2>1. cm' = cm /\ event' = event
      BY <1>3 DEF Store
    <2> QED
      BY <1>1, <1>2, <2>1 DEF Mirrored, Mirrors
  <1>4. CASE data # cm[k].data
    <2> DEFINE e == IF event[k] = "wake" \/ cm[k].data = "none" \/ data = "none"
                    THEN "wake" ELSE "quiet"
               new == [data |-> data, rv |-> cm[k].rv + 1]
    <2>1. cm' = [cm EXCEPT ![k] = new] /\ event' = [event EXCEPT ![k] = e]
      BY <1>4 DEF Store
    <2>2. /\ e \in Events /\ e # "none" /\ (event[k] = "wake" => e = "wake")
          /\ e = "wake" \/ (cm[k].data # "none" /\ data # "none")
      BY DEF Events
    <2>3. new \in ConfigMaps /\ new.rv = cm[k].rv + 1 /\ new.data = data
      BY <1>2 DEF ConfigMaps, Data
    <2> HIDE DEF e, new
    <2>4. cm' \in [CMs -> ConfigMaps] /\ event' \in [CMs -> Events]
      BY <1>1, <2>1, <2>2, <2>3
    <2>5. cm'[k] = new /\ event'[k] = e
          /\ \A j \in CMs : j # k => cm'[j] = cm[j] /\ event'[j] = event[j]
      BY <1>1, <2>1
    <2>6. ASSUME NEW j \in CMs
          PROVE  /\ cm[j].rv <= cm'[j].rv
                 /\ event[j] = "wake" => event'[j] = "wake"
                 /\ \/ event'[j] = "wake"
                    \/ cm[j].data = "none" <=> cm'[j].data = "none"
      BY <1>2, <2>2, <2>3, <2>5
    <2>7. ASSUME NEW j \in CMs, view' = view PROVE Mirrors(j)'
      <3>1. Mirrors(j)
        BY DEF Mirrored
      <3>2. CASE j # k
        BY <2>5, <2>7, <3>1, <3>2 DEF Mirrors
      <3>3. CASE j = k
        <4>1. cm'[j].rv = cm[j].rv + 1 /\ cm'[j].data = data /\ event'[j] = e
          BY <2>3, <2>5, <3>3
        <4>2. view'[j].rv <= cm'[j].rv /\ cm'[j].rv > 0
          BY <1>2, <2>7, <3>1, <4>1 DEF Mirrors
        <4>3. event'[j] # "wake" => (view'[j].data = "none" <=> cm'[j].data = "none")
          BY <2>2, <2>7, <3>1, <3>3, <4>1, Zenon DEF Mirrors
        <4> QED
          BY <2>2, <2>7, <3>1, <4>1, <4>2, <4>3, Zenon DEF Mirrors
      <3> QED
        BY <3>2, <3>3
    <2> QED
      BY <2>4, <2>5, <2>6, <2>7 DEF Mirrored
  <1> QED
    BY <1>3, <1>4

(* A function that reconciles a ConfigMap writes nothing else; then the    *)
(* batch goes on, or the key goes back.                                    *)
LEMMA ReconcileEffect ==
    ASSUME TypeOK, NEW k \in CMs, NEW next, ReconcileConfigMap(k, next)
    PROVE  /\ pc = k
           /\ UNCHANGED <<dpa, cache, view, ds, dsView, read, missed, budget>>
           /\ UNCHANGED <<cm, event>> \/ \E data \in Data : Store(k, data)
           /\ Continue(next) \/ Fail
  <1>1. Wanted(read.spec, k) \in Data
    BY SpecParts DEF TypeOK
  <1> QED
    BY <1>1, Zenon DEF ReconcileConfigMap

-----------------------------------------------------------------------------
CMTypes ==
    /\ cm \in [CMs -> ConfigMaps] /\ view \in [CMs -> ConfigMaps]
    /\ event \in [CMs -> {"none", "quiet", "wake"}]

(* The ConfigMaps, their copies and events keep their types, and the       *)
(* copies mirror what they are copies of, through every write, watch event *)
(* and restart.                                                            *)
LEMMA MirroredStep ==
    ASSUME TypeOK, Mirrored, [Next]_vars
    PROVE  CMTypes' /\ Mirrored' /\ cm["agent"].rv <= cm'["agent"].rv
  <1>t. CMTypes
    BY DEF CMTypes, TypeOK
  <1>n. \A k \in CMs : cm[k].rv \in Nat
    BY <1>t DEF CMTypes, ConfigMaps
  <1>a. "agent" \in CMs
    BY DEF CMs
  <1>u. ASSUME UNCHANGED <<cm, view, event>>
        PROVE  CMTypes' /\ Mirrored' /\ cm["agent"].rv <= cm'["agent"].rv
    <2>1. CMTypes' /\ Mirrored'
      BY <1>t, <1>u, Zenon DEF CMTypes, Mirrored, Mirrors
    <2> QED
      BY <1>a, <1>n, <1>u, <2>1
  <1>s. ASSUME NEW k \in CMs, NEW data \in Data, Store(k, data), view' = view
        PROVE  CMTypes' /\ Mirrored' /\ cm["agent"].rv <= cm'["agent"].rv
    BY <1>a, <1>s, <1>t, StoreEffect DEF CMTypes, Events
  <1>1. ASSUME NEW k \in CMs, NEW next, ReconcileConfigMap(k, next)
        PROVE  CMTypes' /\ Mirrored' /\ cm["agent"].rv <= cm'["agent"].rv
    BY <1>1, <1>s, <1>u, ReconcileEffect, Zenon
  <1>2. ASSUME NEW k \in Exposed, NEW data \in Data, Tamper(k, data)
        PROVE  CMTypes' /\ Mirrored' /\ cm["agent"].rv <= cm'["agent"].rv
    BY <1>2, <1>s, SpecAssumption, Zenon DEF Tamper
  <1>3. ASSUME NEW k \in CMs, InformConfigMap(k)
        PROVE  CMTypes' /\ Mirrored' /\ cm["agent"].rv <= cm'["agent"].rv
    <2>1. cm' = cm /\ view' = [view EXCEPT ![k] = cm[k]] /\ event' = [event EXCEPT ![k] = "none"]
      BY <1>3 DEF InformConfigMap
    <2>2. CMTypes'
      BY <1>t, <2>1 DEF CMTypes
    <2>3. ASSUME NEW j \in CMs PROVE Mirrors(j)'
      <3>1. Mirrors(j)
        BY DEF Mirrored
      <3>2. CASE j = k
        <4>1. view'[j] = cm[j] /\ event'[j] = "none" /\ cm'[j] = cm[j]
          BY <1>t, <2>1, <3>2 DEF CMTypes
        <4>2. view'[j].rv <= cm'[j].rv
          BY <1>n, <4>1
        <4> QED
          BY <3>1, <4>1, <4>2, Zenon DEF Mirrors
      <3>3. CASE j # k
        <4>1. view'[j] = view[j] /\ event'[j] = event[j] /\ cm'[j] = cm[j]
          BY <1>t, <2>1, <3>3 DEF CMTypes
        <4> QED
          BY <3>1, <4>1, Zenon DEF Mirrors
      <3> QED
        BY <3>2, <3>3
    <2> QED
      BY <1>a, <1>n, <2>1, <2>2, <2>3 DEF Mirrored
  <1>4. CASE Restart
    <2>1. cm' = cm /\ view' = cm /\ event' = [k \in CMs |-> "none"]
      BY <1>4 DEF Restart
    <2>2. CMTypes'
      BY <1>t, <2>1 DEF CMTypes
    <2>3. ASSUME NEW j \in CMs PROVE Mirrors(j)'
      <3>1. Mirrors(j) /\ view'[j] = cm'[j] /\ cm'[j] = cm[j]
        BY <2>1 DEF Mirrored
      <3>2. view'[j].rv <= cm'[j].rv
        BY <1>n, <3>1
      <3> QED
        BY <3>1, <3>2, Zenon DEF Mirrors
    <2> QED
      BY <1>a, <1>n, <2>1, <2>2, <2>3 DEF Mirrored
  <1> QED
    BY <1>1, <1>2, <1>3, <1>4, <1>a, <1>u, Zenon
    DEF Next, Worker, vars, Start, ReconcileNodeAgentConfigMap, ReconcileBackupRepositoryConfigMap,
        ReconcileRepositoryMaintenanceConfigMap, ReconcileNodeAgentDaemonset, CallFails, Finish,
        InformDPA, InformDaemonSet, CollectDaemonSet, UserEdit, RemoveDaemonSet, Data, CMs

(* What ReconcileNodeAgentDaemonset does: fail, or leave the DaemonSet as  *)
(* it is, or patch, create or delete it.                                   *)
LEMMA DaemonSetEffect ==
    ASSUME TypeOK, Mirrored, ReconcileNodeAgentDaemonset
    PROVE  /\ UNCHANGED <<dpa, cache, cm, view, event, dsView, read, budget>>
           /\ pc = "daemonset" /\ missed' \subseteq {"DaemonSet", "ConfigMap"}
           /\ missed \subseteq missed'
           /\ "DaemonSet" \notin missed' => dsView = ds /\ ~(ds.dying /\ read.spec.on)
           /\ "ConfigMap" \notin missed' => view["agent"] = cm["agent"]
           /\ buildNodeAgentDaemonset \in Nat /\ buildNodeAgentDaemonset <= cm["agent"].rv
           /\ buildNodeAgentDaemonset # 0 <=> view["agent"].data # "none"
           /\ \/ Fail /\ ds' = ds
              \/ /\ Continue("status") /\ read.spec.on
                 /\ \/ dsView.on /\ dsView.config = buildNodeAgentDaemonset /\ ds' = ds
                    \/ ds' = [on |-> TRUE, config |-> buildNodeAgentDaemonset, dying |-> ds.dying]
              \/ /\ Continue("status") /\ ~read.spec.on
                 /\ \/ ~dsView.on /\ ds' = ds
                    \/ ds.on /\ ds' = [ds EXCEPT !.dying = TRUE]
  <1>a. "agent" \in CMs
    BY DEF CMs
  <1>1. /\ UNCHANGED <<dpa, cache, cm, view, event, dsView, read, budget>>
        /\ pc = "daemonset"
        /\ missed' = missed
             \cup (IF dsView = ds /\ ~(ds.dying /\ read.spec.on) THEN {} ELSE {"DaemonSet"})
             \cup (IF view["agent"] = cm["agent"] THEN {} ELSE {"ConfigMap"})
    BY DEF ReconcileNodeAgentDaemonset
  <1>2. missed \subseteq {"DaemonSet", "ConfigMap"}
    BY DEF TypeOK
  <1>3. /\ missed' \subseteq {"DaemonSet", "ConfigMap"} /\ missed \subseteq missed'
        /\ "DaemonSet" \notin missed' => dsView = ds /\ ~(ds.dying /\ read.spec.on)
        /\ "ConfigMap" \notin missed' => view["agent"] = cm["agent"]
    BY <1>1, <1>2, Zenon
  <1>4. view["agent"] \in ConfigMaps /\ cm["agent"] \in ConfigMaps /\ Mirrors("agent")
    BY <1>a DEF TypeOK, Mirrored
  <1>5. /\ buildNodeAgentDaemonset \in Nat /\ buildNodeAgentDaemonset <= cm["agent"].rv
        /\ buildNodeAgentDaemonset # 0 <=> view["agent"].data # "none"
    BY <1>4 DEF buildNodeAgentDaemonset, ConfigMaps, Mirrors
  <1>6. ds.on \in BOOLEAN /\ dsView.on \in BOOLEAN /\ read.spec.on \in BOOLEAN
    BY SpecParts DEF TypeOK, DaemonSets
  <1> DEFINE want == [on |-> TRUE, config |-> buildNodeAgentDaemonset, dying |-> ds.dying]
             same == IF read.spec.on THEN dsView.on /\ dsView.config = want.config ELSE ~dsView.on
  <1>7. \/ same /\ Continue("status") /\ ds' = ds
        \/ /\ ~same /\ ds.on = dsView.on /\ Continue("status")
           /\ ds' = IF read.spec.on THEN want ELSE [ds EXCEPT !.dying = TRUE]
        \/ Fail /\ ds' = ds
    BY Zenon DEF ReconcileNodeAgentDaemonset
  <1>8. want.config = buildNodeAgentDaemonset
    OBVIOUS
  <1>9. \/ Fail /\ ds' = ds
        \/ /\ Continue("status") /\ read.spec.on
           /\ \/ dsView.on /\ dsView.config = buildNodeAgentDaemonset /\ ds' = ds
              \/ ds' = want
        \/ /\ Continue("status") /\ ~read.spec.on
           /\ \/ ~dsView.on /\ ds' = ds
              \/ ds.on /\ ds' = [ds EXCEPT !.dying = TRUE]
    <2> HIDE DEF want
    <2> QED
      BY <1>6, <1>7, <1>8, Zenon
  <1> QED
    BY <1>1, <1>3, <1>5, <1>9, Zenon

(* Every step keeps the types; that the DaemonSet names no version that    *)
(* does not exist needs the copies of the ConfigMaps to lag behind.        *)
LEMMA TypeStep ==
    ASSUME TypeOK, Mirrored, budget.tampers <= MaxTampers, [Next]_vars
    PROVE  TypeOK' /\ budget'.tampers <= MaxTampers
  <1> DEFINE DSType == /\ ds \in DaemonSets /\ dsView \in DaemonSets
                       /\ ds.config <= cm["agent"].rv /\ (~ds.on => ds = NoDS)
             Rest == /\ dpa \in DPAs /\ cache \in DPAs /\ read \in DPAs
                     /\ queued \in BOOLEAN
                     /\ pc \in {"idle", "daemonset", "status"} \cup CMs
                     /\ missed \subseteq {"DaemonSet", "ConfigMap"}
                     /\ budget \in Budgets /\ budget.tampers <= MaxTampers
  <1>t. DSType /\ Rest
    BY Zenon DEF TypeOK, DPAs, Budgets
  <1>c. CMTypes' /\ cm["agent"].rv <= cm'["agent"].rv
    BY MirroredStep, Zenon
  <1> SUFFICES DSType' /\ Rest'
    BY <1>c, Zenon DEF TypeOK, CMTypes, DPAs, Budgets
  <1>n. cm["agent"].rv \in Nat /\ cm'["agent"].rv \in Nat /\ ds.config \in Nat
    <2>1. "agent" \in CMs
      BY DEF CMs
    <2> QED
      BY <1>c, <2>1 DEF TypeOK, CMTypes, ConfigMaps, DaemonSets
  <1>0. NoDS \in DaemonSets /\ NoDS.config = 0
    BY DEF NoDS, DaemonSets
  <1>d. ASSUME ds' = ds \/ ds' = NoDS, dsView' = dsView \/ dsView' = ds PROVE DSType'
    <2>1. ds' \in DaemonSets /\ dsView' \in DaemonSets
      BY <1>0, <1>d, <1>t, Zenon
    <2>2. ds'.config <= cm'["agent"].rv
      BY <1>0, <1>c, <1>d, <1>n, <1>t
    <2>3. ~ds'.on => ds' = NoDS
      BY <1>d, <1>t, Zenon
    <2> QED
      BY <2>1, <2>2, <2>3, Zenon
  <1>b. \A what \in {"edits", "tampers", "mishaps"} :
            Spend(what) => budget' \in Budgets /\ budget'.tampers <= MaxTampers
    BY SpendType, Zenon
  <1>1. ASSUME NEW s \in Specs, UserEdit(s) PROVE DSType' /\ Rest'
    <2>1. dpa' \in DPAs
      BY <1>1, <1>t DEF UserEdit, DPAs
    <2> QED
      BY <1>1, <1>b, <1>d, <1>t, <2>1, Zenon DEF UserEdit
  <1>2. ASSUME NEW k, NEW data, Tamper(k, data) PROVE DSType' /\ Rest'
    BY <1>2, <1>b, <1>d, <1>t, Zenon DEF Tamper
  <1>3. CASE RemoveDaemonSet
    BY <1>3, <1>b, <1>d, <1>t, Zenon DEF RemoveDaemonSet
  <1>4. CASE CollectDaemonSet
    BY <1>4, <1>d, <1>t, Zenon DEF CollectDaemonSet
  <1>5. CASE InformDPA
    BY <1>5, <1>d, <1>t, Zenon DEF InformDPA
  <1>6. ASSUME NEW k \in CMs, InformConfigMap(k) PROVE DSType' /\ Rest'
    <2>1. queued' \in BOOLEAN
      BY <1>6, Zenon DEF InformConfigMap
    <2> QED
      BY <1>6, <1>d, <1>t, <2>1, Zenon DEF InformConfigMap
  <1>7. CASE InformDaemonSet
    BY <1>7, <1>d, <1>t, Zenon DEF InformDaemonSet
  <1>8. CASE Start
    <2>1. pc' \in CMs
      BY <1>8 DEF Start, CMs
    <2> QED
      BY <1>8, <1>d, <1>t, <2>1, Zenon DEF Start
  <1>9. ASSUME NEW k \in CMs, NEW next \in CMs \cup {"daemonset"}, ReconcileConfigMap(k, next)
        PROVE  DSType' /\ Rest'
    BY <1>9, <1>d, <1>t, ReconcileEffect, Zenon DEF Continue, Fail
  <1>10. CASE ReconcileNodeAgentDaemonset
    <2>1. Rest'
      <3>1. /\ UNCHANGED <<dpa, cache, read, budget>>
            /\ missed' \subseteq {"DaemonSet", "ConfigMap"}
        BY <1>10, DaemonSetEffect, Zenon
      <3>2. Fail \/ Continue("status")
        BY <1>10, DaemonSetEffect, Zenon
      <3> QED
        BY <1>t, <3>1, <3>2, Zenon DEF Continue, Fail
    <2>2. UNCHANGED <<cm, dsView>> /\ buildNodeAgentDaemonset \in Nat
          /\ buildNodeAgentDaemonset <= cm["agent"].rv
      BY <1>10, DaemonSetEffect, Zenon
    <2>3. CASE ds' = ds
      BY <1>d, <2>1, <2>2, <2>3, Zenon
    <2>4. CASE ds' = [on |-> TRUE, config |-> buildNodeAgentDaemonset, dying |-> ds.dying]
      <3>1. ds' \in DaemonSets /\ ds'.on = TRUE /\ ds'.config = buildNodeAgentDaemonset
        BY <1>t, <2>2, <2>4 DEF DaemonSets
      <3> QED
        BY <1>t, <2>1, <2>2, <3>1, Zenon
    <2>5. CASE ds.on /\ ds' = [ds EXCEPT !.dying = TRUE]
      <3>1. ds' \in DaemonSets /\ ds'.on = ds.on /\ ds'.config = ds.config
        BY <1>t, <2>5, Zenon DEF DaemonSets
      <3> QED
        BY <1>t, <2>1, <2>2, <2>5, <3>1, Zenon
    <2> QED
      BY <1>10, <2>3, <2>4, <2>5, DaemonSetEffect, Zenon
  <1>11. CASE CallFails
    BY <1>11, <1>b, <1>d, <1>t, Zenon DEF CallFails, Fail
  <1>12. CASE Finish
    <2>1. queued' \in BOOLEAN
      BY <1>12, Zenon DEF Finish
    <2> QED
      BY <1>12, <1>d, <1>t, <2>1, Zenon DEF Finish
  <1>13. CASE Restart
    <2>1. dsView' = ds /\ ds' = ds
      BY <1>13 DEF Restart
    <2> QED
      BY <1>13, <1>b, <1>d, <1>t, <2>1, Zenon DEF Restart
  <1>14. CASE UNCHANGED vars
    BY <1>14, <1>d, <1>t, Zenon DEF vars
  <1> QED
    BY <1>1, <1>2, <1>3, <1>4, <1>5, <1>6, <1>7, <1>8, <1>9, <1>10, <1>11, <1>12, <1>13, <1>14,
       Zenon
    DEF Next, Worker, ReconcileNodeAgentConfigMap, ReconcileBackupRepositoryConfigMap,
        ReconcileRepositoryMaintenanceConfigMap, CMs

(* The copies of the DPA stay versions of it, identified by their number. *)
LEMMA VersionsStep ==
    ASSUME TypeOK, CopiesAreVersions, [Next]_vars
    PROVE  CopiesAreVersions'
  <1>n. dpa.ver \in Nat /\ cache.ver \in Nat /\ read.ver \in Nat
    BY DEF TypeOK
  <1>1. CASE \E s \in Specs : UserEdit(s)
    <2>1. dpa'.ver = dpa.ver + 1 /\ UNCHANGED <<cache, read, pc>>
      BY <1>1 DEF UserEdit
    <2> QED
      BY <1>n, <2>1 DEF CopiesAreVersions
  <1>2. CASE cache' = dpa /\ UNCHANGED <<dpa, read>> /\ (pc' = pc \/ pc' = "idle")
    BY <1>n, <1>2 DEF CopiesAreVersions
  <1>3. CASE Start
    <2>1. read' = cache /\ UNCHANGED <<dpa, cache>>
      BY <1>3 DEF Start
    <2> QED
      BY <1>n, <2>1 DEF CopiesAreVersions
  <1>4. CASE UNCHANGED <<dpa, cache, read>> /\ (pc' = pc \/ pc # "idle")
    BY <1>4, Zenon DEF CopiesAreVersions
  <1>5. ASSUME NEW k \in CMs, NEW next, ReconcileConfigMap(k, next)
        PROVE  UNCHANGED <<dpa, cache, read>> /\ pc # "idle"
    BY <1>5 DEF ReconcileConfigMap, CMs
  <1>6. ReconcileNodeAgentDaemonset => UNCHANGED <<dpa, cache, read>> /\ pc # "idle"
    BY DEF ReconcileNodeAgentDaemonset
  <1> QED
    BY <1>1, <1>2, <1>3, <1>4, <1>5, <1>6, Zenon
    DEF Next, Worker, vars, ReconcileNodeAgentConfigMap, ReconcileBackupRepositoryConfigMap,
        ReconcileRepositoryMaintenanceConfigMap, CallFails, Finish, InformDPA, InformDaemonSet,
        InformConfigMap, CollectDaemonSet, Tamper, RemoveDaemonSet, Restart, CMs

-----------------------------------------------------------------------------
(* A batch that has seen everything leaves the DaemonSet as it should be. *)
LEMMA BuildSettles ==
    ASSUME IInv, ReconcileNodeAgentDaemonset
    PROVE  Settled'
  <1>1. TypeOK /\ Mirrored
    BY Zenon DEF IInv, Mirrored
  <1>s. pc' = "status" \/ queued'
    BY <1>1, DaemonSetEffect, Zenon DEF Fail, Continue
  <1> SUFFICES ASSUME "DaemonSet" \notin missed', ~queued', pc' = "status"
               PROVE  (AgentRight /\ ConfigRight /\ VersionRight)'
    BY <1>s, Zenon DEF Settled
  <1>2. /\ UNCHANGED <<cm, view, event, dsView, read, budget>>
        /\ dsView = ds /\ ~(ds.dying /\ read.spec.on)
        /\ "ConfigMap" \notin missed' => view["agent"] = cm["agent"]
        /\ buildNodeAgentDaemonset # 0 <=> view["agent"].data # "none"
    BY <1>1, DaemonSetEffect, Zenon
  <1>3. ds \in DaemonSets /\ ds.on \in BOOLEAN /\ ds.dying \in BOOLEAN
    BY <1>1 DEF TypeOK, DaemonSets
  <1>4. CASE read.spec.on /\ ds'.on = TRUE /\ ds'.dying = FALSE
             /\ ds'.config = buildNodeAgentDaemonset
    <2>1. AgentRight'
      BY <1>2, <1>4 DEF AgentRight, Alive
    <2>2. ConfigRight'
      <3>1. event["agent"] # "wake" => (view["agent"].data = "none" <=> cm["agent"].data = "none")
        BY <1>1 DEF Mirrored, Mirrors, CMs
      <3> QED
        BY <1>2, <1>4, <3>1, Zenon DEF ConfigRight
    <2>3. VersionRight'
      <3>1. missed' = {} => buildNodeAgentDaemonset = Version
        BY <1>2 DEF buildNodeAgentDaemonset, Version
      <3>2. Version' = Version
        BY <1>2 DEF Version
      <3> QED
        BY <1>4, <3>1, <3>2 DEF VersionRight
    <2> QED
      BY <2>1, <2>2, <2>3
  <1>5. CASE ~read.spec.on /\ ~Alive'
    <2>1. AgentRight'
      BY <1>2, <1>5 DEF AgentRight
    <2> QED
      BY <1>5, <2>1 DEF ConfigRight, VersionRight
  <1>6. ~Fail
    BY Zenon DEF Fail
  <1>7. CASE read.spec.on
    <2>0. ds.dying = FALSE
      BY <1>2, <1>3, <1>7, Zenon
    <2>1. CASE dsView.on /\ dsView.config = buildNodeAgentDaemonset /\ ds' = ds
      <3>1. ds'.on = TRUE
        BY <1>2, <1>3, <2>1, Zenon
      <3> QED
        BY <1>2, <1>4, <1>7, <2>0, <2>1, <3>1, Zenon
    <2>2. CASE ds' = [on |-> TRUE, config |-> buildNodeAgentDaemonset, dying |-> ds.dying]
      <3>1. ds'.on = TRUE /\ ds'.dying = ds.dying /\ ds'.config = buildNodeAgentDaemonset
        BY <2>2
      <3> QED
        BY <1>4, <1>7, <2>0, <3>1, Zenon
    <2> QED
      BY <1>1, <1>6, <1>7, <2>1, <2>2, DaemonSetEffect, Zenon
  <1>8. CASE ~read.spec.on
    <2>1. CASE ~dsView.on /\ ds' = ds
      BY <1>2, <1>5, <1>8, <2>1, Zenon DEF Alive
    <2>2. CASE ds' = [ds EXCEPT !.dying = TRUE]
      <3>1. ds'.dying = TRUE
        BY <1>3, <2>2 DEF DaemonSets
      <3> QED
        BY <1>5, <1>8, <3>1, Zenon DEF Alive
    <2> QED
      BY <1>1, <1>6, <1>8, <2>1, <2>2, DaemonSetEffect, Zenon
  <1> QED
    BY <1>7, <1>8

(* Every step keeps Settled: what could unsettle the DaemonSet puts the    *)
(* key into the queue, is an event that will, or is somebody else's doing. *)
LEMMA SettledStep ==
    ASSUME IInv, [Next]_vars
    PROVE  Settled'
  <1>1. TypeOK /\ Mirrored /\ Settled /\ CopiesAreVersions /\ budget.tampers <= MaxTampers
    BY Zenon DEF IInv, Mirrored
  <1>a. "agent" \in CMs
    BY DEF CMs
  <1>q. ASSUME queued' = TRUE \/ pc' \notin {"idle", "status"} PROVE Settled'
    BY <1>q, Zenon DEF Settled
  <1>v. ASSUME cm' = cm PROVE Version' = Version
    BY <1>v DEF Version
  <1>u. ASSUME UNCHANGED <<cache, cm, event, ds, queued, pc, read, missed>>,
               Untampered' => Untampered
        PROVE  Settled'
    <2>1. Version' = Version
      BY <1>u, <1>v
    <2> QED
      BY <1>1, <1>u, <2>1, Zenon DEF Settled, AgentRight, ConfigRight, VersionRight, Alive
  <1>2. ASSUME NEW s \in Specs, UserEdit(s) PROVE Settled'
    BY <1>1, <1>2, <1>u, SpendType, Zenon DEF UserEdit
  <1>3. ASSUME NEW k \in Exposed, NEW data \in Data, Tamper(k, data) PROVE Settled'
    <2>1. ~Untampered'
      BY <1>1, <1>3, SpendType, Zenon DEF Tamper
    <2>2. \/ event'["agent"] = "wake"
          \/ event["agent"] # "wake" /\ (cm["agent"].data = "none" <=> cm'["agent"].data = "none")
      <3>1. k \in CMs
        BY SpecAssumption, Zenon
      <3> QED
        BY <1>1, <1>3, <1>a, <3>1, StoreEffect, Zenon DEF Tamper
    <2>3. UNCHANGED <<ds, queued, pc, missed>>
      BY <1>3 DEF Tamper
    <2> QED
      BY <1>1, <2>1, <2>2, <2>3, Zenon
      DEF Settled, AgentRight, ConfigRight, VersionRight, Alive
  <1>4. CASE RemoveDaemonSet
    <2>1. ~Untampered'
      BY <1>1, <1>4, SpendType, Zenon DEF RemoveDaemonSet
    <2>2. ~Alive'
      BY <1>4 DEF RemoveDaemonSet, Alive, NoDS
    <2> QED
      BY <2>1, <2>2, Zenon DEF Settled, AgentRight, ConfigRight, VersionRight
  <1>5. CASE CollectDaemonSet
    <2>1. ~Alive /\ ~Alive'
      BY <1>5 DEF CollectDaemonSet, Alive, NoDS
    <2>2. UNCHANGED <<cache, queued, pc, read, missed, budget>>
      BY <1>5 DEF CollectDaemonSet
    <2>3. AgentRight => AgentRight'
      BY <2>1, <2>2, Zenon DEF AgentRight, Untampered
    <2> QED
      BY <1>1, <2>1, <2>2, <2>3, Zenon DEF Settled, ConfigRight, VersionRight
  <1>6. CASE InformDPA
    BY <1>6, <1>q DEF InformDPA
  <1>7. ASSUME NEW k \in CMs, InformConfigMap(k) PROVE Settled'
    <2>1. UNCHANGED <<dpa, cache, cm, ds, pc, read, missed, budget>>
          /\ queued' = (queued \/ event[k] = "wake")
      BY <1>7 DEF InformConfigMap
    <2>2. k # "agent" => event'["agent"] = event["agent"]
      BY <1>7, <1>a DEF InformConfigMap, TypeOK
    <2>3. CASE ~queued' /\ event["agent"] # event'["agent"]
      <3>1. event["agent"] # "wake" /\ ~queued
        BY <2>1, <2>2, <2>3, Zenon
      <3>2. Version' = Version
        BY <1>v, <2>1
      <3> QED
        BY <1>1, <2>1, <3>1, <3>2, Zenon
        DEF Settled, AgentRight, ConfigRight, VersionRight, Alive, Untampered
    <2>4. CASE ~queued' /\ event["agent"] = event'["agent"]
      <3>1. ~queued
        BY <2>1, <2>4, Zenon
      <3>2. Version' = Version
        BY <1>v, <2>1
      <3> QED
        BY <1>1, <2>1, <2>4, <3>1, <3>2, Zenon
        DEF Settled, AgentRight, ConfigRight, VersionRight, Alive, Untampered
    <2> QED
      BY <2>3, <2>4, Zenon DEF Settled
  <1>8. CASE InformDaemonSet
    BY <1>8, <1>u, Zenon DEF InformDaemonSet, Untampered
  <1>9. CASE Start
    BY <1>9, <1>q DEF Start
  <1>10. ASSUME NEW k \in CMs, NEW next \in {"repository", "maintenance", "daemonset"},
                ReconcileConfigMap(k, next)
         PROVE  Settled'
    <2>1. Continue(next) \/ Fail
      BY <1>1, <1>10, ReconcileEffect, Zenon
    <2> QED
      BY <1>q, <2>1, Zenon DEF Continue, Fail
  <1>11. CASE CallFails
    BY <1>11, <1>q DEF CallFails, Fail
  <1>12. CASE Finish
    <2>1. /\ UNCHANGED <<cache, cm, event, ds, read, missed, budget>>
          /\ pc = "status" /\ pc' = "idle" /\ queued' = (queued \/ read.ver # dpa.ver)
      BY <1>12 DEF Finish
    <2> SUFFICES ASSUME ~queued' PROVE Settled'
      BY Zenon DEF Settled
    <2>2. ~queued /\ read.ver = dpa.ver
      BY <2>1, Zenon
    <2>3. cache = read
      BY <1>1, <2>1, <2>2 DEF CopiesAreVersions, TypeOK
    <2>4. Version' = Version
      BY <1>v, <2>1
    <2>5. AgentRight => AgentRight'
      BY <2>1, <2>3 DEF AgentRight, Alive, Untampered
    <2> QED
      BY <1>1, <2>1, <2>2, <2>4, <2>5, Zenon
      DEF Settled, ConfigRight, VersionRight, Alive, Untampered
  <1>13. CASE Restart
    BY <1>13, <1>q DEF Restart
  <1>14. CASE UNCHANGED vars
    BY <1>14, <1>u, Zenon DEF vars, Untampered
  <1> QED
    BY <1>2, <1>3, <1>4, <1>5, <1>6, <1>7, <1>8, <1>9, <1>10, <1>11, <1>12, <1>13, <1>14,
       BuildSettles, Zenon
    DEF Next, Worker, ReconcileNodeAgentConfigMap, ReconcileBackupRepositoryConfigMap,
        ReconcileRepositoryMaintenanceConfigMap, CMs, Data

(* The inductive invariant holds at the start. *)
LEMMA IInvInit == Init => IInv
  <1> SUFFICES ASSUME Init PROVE IInv
    OBVIOUS
  <1>1. dpa \in DPAs /\ cache = dpa /\ read = dpa /\ dpa.ver = 1
    BY DEF Init, DPAs
  <1>2. CMTypes
    BY DEF Init, CMTypes, ConfigMaps
  <1>3. ds = NoDS /\ dsView = NoDS /\ NoDS \in DaemonSets /\ NoDS.config = 0
    BY DEF Init, NoDS, DaemonSets
  <1>4. /\ queued = TRUE /\ pc = "idle" /\ missed = {} /\ budget \in Budgets
        /\ budget.tampers <= MaxTampers
    BY BoundAssumption DEF Init, Budgets
  <1>5. ds.config <= cm["agent"].rv
    BY <1>3 DEF Init, CMs
  <1>6. TypeOK
    BY <1>1, <1>2, <1>3, <1>4, <1>5, Zenon DEF TypeOK, CMTypes, DPAs, Budgets
  <1>7. CopiesAreVersions
    BY <1>1, <1>4 DEF CopiesAreVersions
  <1>8. ASSUME NEW k \in CMs PROVE Mirrors(k)
    <2>1. view[k] = cm[k] /\ cm[k].data = "none" /\ cm[k].rv = 0
      BY DEF Init
    <2> QED
      BY <2>1 DEF Mirrors
  <1>9. Settled
    BY <1>4, Zenon DEF Settled
  <1> QED
    BY <1>4, <1>6, <1>7, <1>8, <1>9, Zenon DEF IInv

(* Every step keeps the inductive invariant. *)
LEMMA IInvNext == IInv /\ [Next]_vars => IInv'
  <1> SUFFICES ASSUME IInv, [Next]_vars PROVE IInv'
    OBVIOUS
  <1>1. TypeOK /\ Mirrored /\ CopiesAreVersions /\ budget.tampers <= MaxTampers
    BY Zenon DEF IInv, Mirrored
  <1>2. Mirrored'
    BY <1>1, MirroredStep, Zenon
  <1> QED
    BY <1>1, <1>2, TypeStep, VersionsStep, SettledStep, Zenon DEF IInv, Mirrored

(* The inductive invariant always holds. *)
LEMMA Invariant == Spec => []IInv
  BY IInvInit, IInvNext, PTL DEF Spec

(* AgentAtRest of the runs: the DaemonSet exists at rest exactly if the    *)
(* DPA enables the node agent.                                             *)
THEOREM AgentFollowsSpec == Spec => []AgentAtRest
  <1>1. IInv => AgentAtRest
    <2> SUFFICES ASSUME IInv, Quiescent, Untampered, "DaemonSet" \notin missed
                 PROVE  ds.on = dpa.spec.on
      BY DEF AgentAtRest
    <2>1. pc = "idle" /\ ~queued /\ cache = dpa /\ ~ds.dying
      BY DEF Quiescent
    <2>2. Alive <=> dpa.spec.on
      BY <2>1 DEF IInv, Settled, AgentRight
    <2>3. ds.on \in BOOLEAN /\ dpa.spec.on \in BOOLEAN
      BY SpecParts DEF IInv, TypeOK, DaemonSets
    <2> QED
      BY <2>1, <2>2, <2>3, Zenon DEF Alive
  <1> QED
    BY <1>1, Invariant, PTL

(* ConfigNamed of the runs: at rest the DaemonSet's pods are given a       *)
(* ConfigMap exactly if there is one.                                      *)
THEOREM ConfigMapNamed == Spec => []ConfigNamed
  <1>1. IInv => ConfigNamed
    <2> SUFFICES ASSUME IInv, Quiescent, ds.on, "DaemonSet" \notin missed
                 PROVE  ds.config # 0 <=> cm["agent"].data # "none"
      BY DEF ConfigNamed
    <2>1. pc = "idle" /\ ~queued /\ ~ds.dying /\ event["agent"] = "none"
      BY DEF Quiescent, CMs
    <2> QED
      BY <2>1, Zenon DEF IInv, Settled, ConfigRight, Alive
  <1> QED
    BY <1>1, Invariant, PTL

(* VersionRuns of the runs: at rest the pods run the latest version of the *)
(* ConfigMap, if no build of the DaemonSet used a stale one.               *)
THEOREM LatestVersionRuns == Spec => []VersionRuns
  <1>1. IInv => VersionRuns
    <2> SUFFICES ASSUME IInv, Quiescent, ds.on, Untampered, missed = {}
                 PROVE  ds.config = Version
      BY DEF VersionRuns, Version
    <2>1. pc = "idle" /\ ~queued /\ ~ds.dying
      BY DEF Quiescent
    <2> QED
      BY <2>1, Zenon DEF IInv, Settled, VersionRight, Alive
  <1> QED
    BY <1>1, Invariant, PTL

(* The variables always have their types, and the DaemonSet never names a  *)
(* version of the ConfigMap that does not exist yet.                       *)
THEOREM TypeCorrect == Spec => []TypeOK
  <1>1. IInv => TypeOK
    BY DEF IInv
  <1> QED
    BY <1>1, Invariant, PTL
=============================================================================
