--------------------------- MODULE NonAdminProofs ---------------------------
(***************************************************************************)
(* For any number of namespaces: two NACs are installed only in the ways   *)
(* that NonAdmin records in `contested'.                                   *)
(***************************************************************************)
EXTENDS NonAdmin, TLAPS

(* The state that the steps of one namespace's worker, informers and DPA   *)
(* start from is well-typed: Init establishes the type invariant.          *)
LEMMA InitTyped == Init => TypeOK
  <1> SUFFICES ASSUME Init PROVE TypeOK
    OBVIOUS
  <1>1. PICK c \in [Namespaces -> Conf] :
          dpa = [n \in Namespaces |-> [conf |-> c[n], rv |-> 1]]
    BY SMTT(30) DEF Init
  <1>2. dpa \in [Namespaces -> DPAs] /\ \A n \in Namespaces : dpa[n].conf \in Conf
    BY <1>1 DEF DPAs
  <1>3. dep \in [Namespaces -> Deployments]
    BY <1>2 DEF Init, Deployments, Notes
  <1>4. memo \in [Namespaces -> [rv : Nat, conf : Conf, sync : {"default", "period"}]]
    BY <1>2 DEF Init, NoMemo
  <1>5. \A n \in Namespaces : cache[n].rv <= dpa[n].rv /\ read[n].rv <= cache[n].rv
    BY <1>2 DEF Init, DPAs
  <1>6. \A n \in Namespaces : ~dep[n].dying /\ view[n].rv <= dep[n].rv
    BY DEF Init
  <1>7. missed \in [Namespaces -> BOOLEAN] /\ bare \in [Namespaces -> BOOLEAN]
    BY DEF Init
  <1> QED
    BY <1>2, <1>3, <1>4, <1>5, <1>6, <1>7, BoundAssumption, Zenon DEF Init, TypeOK

(* The part of TypeOK that a step of the Deployment can disturb.           *)
DeploymentsOK ==
  /\ dep \in [Namespaces -> Deployments] /\ view \in [Namespaces -> Deployments]
  /\ \A n \in Namespaces : /\ view[n].rv <= dep[n].rv
                           /\ view[n].rv = dep[n].rv => view[n] = dep[n]
                           /\ dep[n].dying => dep[n].on

(* A write of the Deployment keeps that part.                              *)
LEMMA StoreTyped ==
  ASSUME TypeOK, NEW n \in Namespaces, NEW on \in BOOLEAN, NEW dying \in BOOLEAN,
         NEW note \in Notes, dying => on, Store(n, on, dying, note), UNCHANGED view
  PROVE  DeploymentsOK'
  <1> DEFINE d == [on |-> on, dying |-> dying, note |-> note, rv |-> dep[n].rv + 1]
  <1>0. dep[n].rv \in Nat /\ \A k \in Namespaces : view[k].rv \in Nat
    BY DEF TypeOK, Deployments
  <1>1. d \in Deployments /\ d.rv = dep[n].rv + 1 /\ (d.dying => d.on)
    BY <1>0 DEF Deployments
  <1>2. dep' = [dep EXCEPT ![n] = d]
    BY DEF Store
  <1> HIDE DEF d
  <1> QED
    BY <1>0, <1>1, <1>2 DEF TypeOK, DeploymentsOK

(* The memory of the configuration that a build leaves is well-typed.      *)
LEMMA MemoTyped ==
  ASSUME TypeOK, NEW n \in Namespaces
  PROVE  ensureRequiredSpecs(n) \in [rv : Nat, conf : Conf, sync : {"default", "period"}]
  BY DEF TypeOK, DPAs, ensureRequiredSpecs, SyncPeriod

(* The end of a batch keeps the types of what the worker holds.            *)
LEMMA FinishTyped ==
  ASSUME TypeOK, NEW n \in Namespaces, NEW good \in BOOLEAN, Finish(n, good), UNCHANGED cache
  PROVE  /\ queued' \in [Namespaces -> BOOLEAN]
         /\ pc' \in [Namespaces -> {"idle", "check", "apply"}]
         /\ read' \in [Namespaces -> DPAs]
         /\ \A k \in Namespaces : read'[k].rv <= cache[k].rv
         /\ others' \in [Namespaces -> SUBSET Namespaces]
  <1>1. queued' \in [Namespaces -> BOOLEAN]
    BY Zenon DEF Finish, TypeOK
  <1>2. \A k \in Namespaces : read'[k].rv <= cache[k].rv
    BY DEF Finish, TypeOK, DPAs
  <1> QED
    BY <1>1, <1>2 DEF Finish, TypeOK

(* Every step keeps the types, the order of the versions of the Deployment *)
(* and of its cached copy, and that only an existing one can be going.     *)
LEMMA StepTyped == TypeOK /\ [Next]_vars => TypeOK'
  <1> SUFFICES ASSUME TypeOK, [Next]_vars PROVE TypeOK'
    OBVIOUS
  <1> USE DEF TypeOK
  <1>1. CASE UNCHANGED vars
    BY <1>1 DEF vars
  <1>2. ASSUME NEW n \in Namespaces, Reconcile(n) PROVE TypeOK'
    <2>1. queued' \in [Namespaces -> BOOLEAN]
      BY <1>2 DEF Reconcile
    <2>2. read' \in [Namespaces -> DPAs] /\ UNCHANGED <<dpa, cache>>
      BY <1>2 DEF Reconcile
    <2>3. \A k \in Namespaces : read'[k].rv <= cache[k].rv
      BY <1>2 DEF Reconcile, DPAs
    <2>4. others' \in [Namespaces -> SUBSET Namespaces]
      BY <1>2 DEF Reconcile
    <2>5. pc' \in [Namespaces -> {"idle", "check", "apply"}]
      BY <1>2 DEF Reconcile
    <2>6. contested' \in BOOLEAN
      BY <1>2 DEF Reconcile
    <2> QED
      BY <1>2, <2>1, <2>2, <2>3, <2>4, <2>5, <2>6 DEF Reconcile
  <1>3. ASSUME NEW n \in Namespaces, NEW m \in Namespaces, ValidateOther(n, m) PROVE TypeOK'
    <2>1. CASE Finish(n, FALSE)
      BY <1>3, <2>1, FinishTyped, Zenon DEF ValidateOther
    <2>2. CASE Pass(n, m)
      BY <1>3, <2>2 DEF ValidateOther, Pass
    <2> QED
      BY <1>3, <2>1, <2>2, Zenon DEF ValidateOther
  <1>4. ASSUME NEW n \in Namespaces, ReconcileNonAdminController(n) PROVE TypeOK'
    <2>0. missed' \in [Namespaces -> BOOLEAN]
      BY <1>4, Zenon DEF ReconcileNonAdminController
    <2>1. CASE checkNonAdminEnabled(read[n])
      <3> DEFINE w == ensureRequiredSpecs(n)
      <3>1. w \in [rv : Nat, conf : Conf, sync : {"default", "period"}]
        BY MemoTyped
      <3> HIDE DEF w
      <3>2. memo' = [memo EXCEPT ![n] = w]
        BY <1>4, <2>1 DEF ReconcileNonAdminController, CreateOrUpdateNonAdminController, w
      <3> DEFINE note == [rv |-> w.rv, conf |-> w.conf]
      <3>3. \/ UNCHANGED dep
            \/ Store(n, TRUE, FALSE, note)
            \/ Store(n, TRUE, dep[n].dying, note)
        BY <1>4, <2>1, Zenon DEF ReconcileNonAdminController, CreateOrUpdateNonAdminController, w
      <3>4. Finish(n, TRUE) \/ Finish(n, FALSE)
        BY <1>4, <2>1, Zenon DEF ReconcileNonAdminController, CreateOrUpdateNonAdminController
      <3>5. memo' \in [Namespaces -> [rv : Nat, conf : Conf, sync : {"default", "period"}]]
        BY <3>1, <3>2
      <3>6. note \in Notes /\ dep[n].dying \in BOOLEAN
        BY <3>1 DEF Notes, Deployments
      <3> HIDE DEF note
      <3>7. DeploymentsOK'
        <4>1. CASE UNCHANGED dep
          BY <1>4, <4>1 DEF ReconcileNonAdminController, DeploymentsOK
        <4>2. CASE Store(n, TRUE, FALSE, note)
          BY <1>4, <4>2, <3>6, StoreTyped, Zenon DEF ReconcileNonAdminController
        <4>3. CASE Store(n, TRUE, dep[n].dying, note)
          BY <1>4, <4>3, <3>6, StoreTyped, Zenon DEF ReconcileNonAdminController
        <4> QED BY <3>3, <4>1, <4>2, <4>3, Zenon
      <3> QED
        BY <1>4, <3>4, <3>5, <3>7, <2>0, FinishTyped, Zenon
        DEF ReconcileNonAdminController, DeploymentsOK
    <2>2. CASE ~checkNonAdminEnabled(read[n])
      <3>1. Finish(n, TRUE) \/ Finish(n, FALSE)
        BY <1>4, <2>2, Zenon DEF ReconcileNonAdminController, DeleteNonAdminController
      <3>2. DeploymentsOK'
        <4>1. UNCHANGED dep \/ Store(n, TRUE, TRUE, dep[n].note)
          BY <1>4, <2>2, Zenon DEF ReconcileNonAdminController, DeleteNonAdminController
        <4>2. dep[n].note \in Notes
          BY DEF Deployments
        <4> QED
          BY <1>4, <4>1, <4>2, StoreTyped, Zenon DEF ReconcileNonAdminController, DeploymentsOK
      <3>3. UNCHANGED memo
        BY <1>4, <2>2 DEF ReconcileNonAdminController, DeleteNonAdminController
      <3> QED
        BY <1>4, <3>1, <3>2, <3>3, <2>0, FinishTyped, Zenon
        DEF ReconcileNonAdminController, DeploymentsOK
    <2> QED BY <2>1, <2>2
  <1>5. ASSUME NEW n \in Namespaces, InformDPA(n) PROVE TypeOK'
    <2>1. queued' \in [Namespaces -> BOOLEAN]
      BY <1>5, Zenon DEF InformDPA
    <2>2. \A k \in Namespaces : cache'[k].rv <= dpa[k].rv /\ read[k].rv <= cache'[k].rv
      BY <1>5, SMTT(30) DEF InformDPA, DPAs
    <2> QED
      BY <1>5, <2>1, <2>2 DEF InformDPA
  <1>6. ASSUME NEW n \in Namespaces, InformDeployment(n) PROVE TypeOK'
    BY <1>6, SMTT(30) DEF InformDeployment, Deployments
  <1>7. ASSUME NEW n \in Namespaces, CollectDeployment(n) PROVE TypeOK'
    <2>1. DeploymentsOK'
      <3>1. dep[n].note \in Notes
        BY DEF Deployments
      <3> QED
        BY <1>7, <3>1, StoreTyped, Zenon DEF CollectDeployment
    <2> QED
      BY <1>7, <2>1, SMTT(30) DEF CollectDeployment, DeploymentsOK
  <1>8. ASSUME NEW n \in Namespaces, NEW m \in Namespaces, ValidateOtherUnanswered(n, m)
        PROVE  TypeOK'
    <2>1. contested' \in BOOLEAN
      BY <1>8 DEF ValidateOtherUnanswered
    <2> QED
      BY <1>8, <2>1 DEF ValidateOtherUnanswered, Pass, Spend
  <1>9. ASSUME NEW n \in Namespaces, BatchFails(n) PROVE TypeOK'
    <2>1. Finish(n, FALSE) /\ UNCHANGED cache
      BY <1>9, ZenonT(30) DEF BatchFails
    <2>2. budget' \in Nat
      BY <1>9 DEF BatchFails, Spend
    <2> QED
      BY <1>9, <2>1, <2>2, FinishTyped, Zenon DEF BatchFails
  <1>10. ASSUME NEW n \in Namespaces, Restart(n) PROVE TypeOK'
    <2>1. \A k \in Namespaces : cache'[k].rv <= dpa[k].rv /\ read'[k].rv <= cache'[k].rv
      BY <1>10, SMTT(30) DEF Restart, DPAs
    <2>2. DeploymentsOK'
      BY <1>10, SMTT(30) DEF Restart, DeploymentsOK, Deployments
    <2>3. memo' \in [Namespaces -> [rv : Nat, conf : Conf, sync : {"default", "period"}]]
      BY <1>10, SMTT(30) DEF Restart, NoMemo, DPAs
    <2> QED
      BY <1>10, <2>1, <2>2, <2>3, SMTT(30) DEF Restart, Spend, DeploymentsOK
  <1>11. ASSUME NEW n \in Namespaces, WriteStatus(n) PROVE TypeOK'
    <2>1. /\ dpa' \in [Namespaces -> DPAs]
          /\ \A k \in Namespaces : cache[k].rv <= dpa'[k].rv
      <3>1. \A k \in Namespaces : dpa[k].rv \in Nat \ {0} /\ dpa[k].conf \in Conf
                                     /\ cache[k].rv \in Nat
        BY SMTT(30) DEF DPAs
      <3>2. [conf |-> dpa[n].conf, rv |-> dpa[n].rv + 1] \in DPAs
        BY <3>1, SMTT(30) DEF DPAs
      <3> QED
        BY <1>11, <3>1, <3>2, SMTT(30) DEF WriteStatus
    <2> QED
      BY <1>11, <2>1, SMTT(30) DEF WriteStatus, Spend
  <1>12. ASSUME NEW n \in Namespaces, NEW c \in Confs[n], UserEdit(n, c) PROVE TypeOK'
    <2>0. c \in Conf
      BY SMTT(30) DEF Conf
    <2>1. /\ dpa' \in [Namespaces -> DPAs]
          /\ \A k \in Namespaces : cache[k].rv <= dpa'[k].rv
      <3>1. \A k \in Namespaces : dpa[k].rv \in Nat \ {0} /\ cache[k].rv \in Nat
        BY SMTT(30) DEF DPAs
      <3>2. [conf |-> c, rv |-> dpa[n].rv + 1] \in DPAs
        BY <2>0, <3>1 DEF DPAs
      <3> QED
        BY <1>12, <3>1, <3>2, SMTT(30) DEF UserEdit
    <2>2. bare' \in [Namespaces -> BOOLEAN]
      BY <1>12, Zenon DEF UserEdit
    <2> QED
      BY <1>12, <2>1, <2>2, SMTT(30) DEF UserEdit, Spend
  <1> QED
    BY <1>1, <1>2, <1>3, <1>4, <1>5, <1>6, <1>7, <1>8, <1>9, <1>10, <1>11, <1>12, Zenon
    DEF Next, Work

(* Every reachable state is well-typed.                                    *)
THEOREM Typed == Spec => []TypeOK
  BY InitTyped, StepTyped, PTL DEF Spec

(* A step after which an operator that enables the NAC has just listed the *)
(* other DPAs keeps OneAhead: whoever already claims the NAC has it, and   *)
(* the list has shown that namespace.                                      *)
LEMMA ReconcileAhead ==
  ASSUME TypeOK, OneAhead, NEW n \in Namespaces, Reconcile(n)
  PROVE  OneAhead'
  <1> SUFFICES ASSUME ~contested',
                      NEW k \in Namespaces, NEW l \in Namespaces,
                      k # l, Claims(k)', Claims(l)'
               PROVE  Waits(k, l)' \/ Waits(l, k)'
    BY SMTT(30) DEF OneAhead
  <1>0. /\ ~contested /\ UNCHANGED <<dpa, dep, cache>>
        /\ \A m \in Namespaces \ {n} :
              /\ pc'[m] = pc[m] /\ read'[m] = read[m] /\ others'[m] = others[m]
              /\ Claims(m)' = Claims(m)
        /\ pc[n] = "idle" /\ read'[n] = cache[n]
    BY ZenonT(30) DEF Reconcile, TypeOK, Claims, Installing, checkNonAdminEnabled
  <1>1. CASE k # n /\ l # n
    <2>1. Waits(k, l) \/ Waits(l, k)
      BY <1>0, <1>1 DEF OneAhead
    <2> QED
      BY <1>0, <1>1, <2>1 DEF Waits, Installing, checkNonAdminEnabled
  <1>2. ASSUME NEW m \in Namespaces, m # n, Claims(m)', Claims(n)'
        PROVE  Waits(n, m)' \/ Waits(m, n)'
    <2>1. Claims(m)
      BY <1>0, <1>2, SMTT(30)
    <2>2. CASE checkNonAdminEnabled(cache[n])
      <3>1. ~(Installing(m) /\ (~dep[m].on \/ dep[m].dying)) /\ ~LeftBehind(m)
        BY <1>0, <1>2, <2>2, ZenonT(30) DEF Reconcile
      <3>2. dep[m].on /\ checkNonAdminEnabled(dpa[m]) /\ (Installing(m) => ~dep[m].dying)
        BY <2>1, <3>1 DEF Claims, LeftBehind
      <3>3. ~dep[n].on
        BY <1>0, <1>2, <2>1, <3>2, SMTT(30) DEF OneAhead, Claims, Waits, Installing
      <3>4. others'[n] = {j \in Namespaces \ {n} : checkNonAdminEnabled(dpa[j])}
        BY <2>2 DEF Reconcile, TypeOK, checkNonAdminEnabled
      <3>5. m \in others'[n]
        BY <1>2, <3>2, <3>4, SMTT(30)
      <3>6. pc'[n] = "check"
        BY <3>5, SMTT(30) DEF Reconcile, TypeOK
      <3> QED
        BY <1>0, <1>2, <2>2, <3>2, <3>3, <3>5, <3>6, SMTT(30)
        DEF Waits, Installing, checkNonAdminEnabled
    <2>3. CASE ~checkNonAdminEnabled(cache[n])
      <3>1. dep[n].on
        BY <1>0, <1>2, <2>3, SMTT(30) DEF Claims, Installing, checkNonAdminEnabled
      <3>2. Waits(m, n)
        BY <1>0, <1>2, <2>1, <3>1 DEF OneAhead, Claims, Waits, Installing
      <3> QED
        BY <1>0, <1>2, <2>3, <3>2, SMTT(30) DEF Waits, Installing, checkNonAdminEnabled
    <2> QED BY <2>2, <2>3
  <1> QED
    BY <1>1, <1>2

(* The worker's look at another namespace keeps OneAhead: it strikes out   *)
(* only a namespace without the NAC.                                       *)
LEMMA PassAhead ==
  ASSUME TypeOK, OneAhead, NEW n \in Namespaces, NEW m \in others[n], pc[n] = "check",
         Pass(n, m), UNCHANGED dep, ~dep[m].on, ~contested
  PROVE  OneAhead'
  <1> SUFFICES ASSUME NEW k \in Namespaces, NEW l \in Namespaces,
                      k # l, Claims(k)', Claims(l)'
               PROVE  Waits(k, l)' \/ Waits(l, k)'
    BY SMTT(30) DEF OneAhead
  <1>1. \A j \in Namespaces : Installing(j)' = Installing(j)
    BY DEF Pass, TypeOK, Installing, checkNonAdminEnabled
  <1>2. Waits(k, l) \/ Waits(l, k)
    BY <1>1 DEF OneAhead, Claims
  <1>3. ASSUME NEW i \in Namespaces, NEW j \in Namespaces, Waits(i, j)
        PROVE  Waits(i, j)'
    <2>1. CASE i # n
      BY <1>1, <1>3, <2>1, SMTT(30) DEF Waits, Pass, TypeOK
    <2>2. CASE i = n
      <3>1. j # m /\ j \in others[n]
        BY <1>3, <2>2, SMTT(30) DEF Waits
      <3>2. j \in others'[n] /\ pc'[n] = "check"
        BY <3>1 DEF Pass, TypeOK
      <3> QED
        BY <1>1, <1>3, <2>2, <3>2 DEF Waits
    <2> QED BY <2>1, <2>2, SMTT(30)
  <1> QED
    BY <1>2, <1>3

(* An operator that only stops being on its way keeps OneAhead.            *)
LEMMA StopAhead ==
  ASSUME TypeOK, OneAhead, NEW n \in Namespaces, pc' = [pc EXCEPT ![n] = "idle"],
         \A j \in Namespaces \ {n} : read'[j] = read[j] /\ others'[j] = others[j],
         UNCHANGED <<dep, contested>>
  PROVE  OneAhead'
  <1> SUFFICES ASSUME ~contested, NEW k \in Namespaces, NEW l \in Namespaces,
                      k # l, Claims(k)', Claims(l)'
               PROVE  Waits(k, l)' \/ Waits(l, k)'
    BY SMTT(30) DEF OneAhead
  <1>1. /\ ~Installing(n)'
        /\ \A j \in Namespaces \ {n} : Installing(j)' = Installing(j) /\ pc'[j] = pc[j]
    BY SMTT(30) DEF Installing, TypeOK, checkNonAdminEnabled
  <1>2. Waits(k, l) \/ Waits(l, k)
    BY <1>1, SMTT(30) DEF OneAhead, Claims
  <1>3. ASSUME NEW i \in Namespaces, NEW j \in Namespaces, i # j, Waits(i, j), Claims(i)'
        PROVE  Waits(i, j)'
    BY <1>1, <1>3 DEF Waits, Claims
  <1> QED
    BY <1>2, <1>3

(* The end of a batch stops the worker of its namespace, and no other.     *)
LEMMA FinishStops ==
  ASSUME TypeOK, NEW n \in Namespaces, NEW good, Finish(n, good)
  PROVE  /\ pc'[n] = "idle"
         /\ \A j \in Namespaces \ {n} :
               pc'[j] = pc[j] /\ read'[j] = read[j] /\ others'[j] = others[j]
  <1>1. pc'[n] = "idle"
    BY SMTT(30) DEF Finish, TypeOK
  <1>2. ASSUME NEW j \in Namespaces, j # n
        PROVE  pc'[j] = pc[j] /\ read'[j] = read[j] /\ others'[j] = others[j]
    BY <1>2 DEF Finish, TypeOK
  <1> QED
    BY <1>1, <1>2, SMTT(30)

(* An operator past its check is alone, or waited for by an operator that  *)
(* has still to see its NAC: its creation, update or deletion keeps        *)
(* OneAhead.                                                               *)
LEMMA ApplyAhead ==
  ASSUME TypeOK, OneAhead, NEW n \in Namespaces, ReconcileNonAdminController(n)
  PROVE  OneAhead'
  <1> SUFFICES ASSUME ~contested, NEW k \in Namespaces, NEW l \in Namespaces,
                      k # l, Claims(k)', Claims(l)'
               PROVE  Waits(k, l)' \/ Waits(l, k)'
    BY SMTT(30) DEF OneAhead, ReconcileNonAdminController
  <1>0. Finish(n, TRUE) \/ Finish(n, FALSE)
    BY ZenonT(30) DEF ReconcileNonAdminController, CreateOrUpdateNonAdminController,
           DeleteNonAdminController
  <1>1. /\ ~Installing(n)' /\ pc[n] = "apply"
        /\ \A j \in Namespaces \ {n} :
              /\ Installing(j)' = Installing(j) /\ pc'[j] = pc[j]
              /\ others'[j] = others[j]
    <2>1. pc[n] = "apply"
      BY SMTT(30) DEF ReconcileNonAdminController
    <2>2. /\ pc'[n] = "idle"
          /\ \A j \in Namespaces \ {n} :
                pc'[j] = pc[j] /\ read'[j] = read[j] /\ others'[j] = others[j]
      BY <1>0, FinishStops, Zenon
    <2> HIDE DEF TypeOK, OneAhead
    <2> QED
      BY <2>1, <2>2 DEF Installing, checkNonAdminEnabled
  <1>2. /\ \A j \in Namespaces \ {n} : dep'[j] = dep[j]
        /\ dep[n].on => dep'[n].on
        /\ dep'[n].on => Claims(n)
    <2>1. CASE checkNonAdminEnabled(read[n])
      <3>1. Claims(n)
        BY <1>1, <2>1 DEF Claims, Installing
      <3>2. UNCHANGED dep \/ \E d, v : Store(n, TRUE, d, v)
        BY <2>1, Zenon DEF ReconcileNonAdminController, CreateOrUpdateNonAdminController
      <3>3. CASE UNCHANGED dep
        BY <3>1, <3>3
      <3>4. ASSUME NEW d, NEW v, Store(n, TRUE, d, v)
            PROVE  dep'[n].on /\ \A j \in Namespaces \ {n} : dep'[j] = dep[j]
        BY <3>4 DEF Store, TypeOK
      <3> QED
        BY <3>1, <3>2, <3>3, <3>4, Zenon
    <2>2. CASE ~checkNonAdminEnabled(read[n])
      <3>1. UNCHANGED dep \/ (dep[n].on /\ Store(n, TRUE, TRUE, dep[n].note))
        BY <2>2, ZenonT(30) DEF ReconcileNonAdminController, DeleteNonAdminController
      <3>2. CASE UNCHANGED dep
        BY <3>2 DEF Claims
      <3>3. CASE dep[n].on /\ Store(n, TRUE, TRUE, dep[n].note)
        BY <3>3 DEF Store, TypeOK, Claims
      <3> QED
        BY <3>1, <3>2, <3>3, Zenon
    <2> QED BY <2>1, <2>2
  <1>3. Claims(k) /\ Claims(l)
    BY <1>1, <1>2 DEF Claims
  <1>4. Waits(k, l) \/ Waits(l, k)
    BY <1>3, SMTT(30) DEF OneAhead
  <1>5. ASSUME NEW i \in Namespaces, NEW j \in Namespaces, i # j, Waits(i, j)
        PROVE  Waits(i, j)'
    <2>1. i # n
      BY <1>1, <1>5, SMTT(30) DEF Waits
    <2> QED
      BY <1>1, <1>2, <1>5, <2>1, SMTT(30) DEF Waits
  <1> QED
    BY <1>4, <1>5, SMTT(30)

(* Every step keeps OneAhead.                                              *)
LEMMA StepAhead == TypeOK /\ OneAhead /\ [Next]_vars => OneAhead'
  <1> SUFFICES ASSUME TypeOK, OneAhead, [Next]_vars PROVE OneAhead'
    BY SMTT(30)
  <1>0. ASSUME UNCHANGED <<dep, pc, read, others, contested>> PROVE OneAhead'
    BY <1>0 DEF OneAhead, Claims, Waits, Installing, checkNonAdminEnabled
  <1>1. CASE UNCHANGED vars
    BY <1>0, <1>1 DEF vars
  <1>2. ASSUME NEW n \in Namespaces, Reconcile(n) PROVE OneAhead'
    BY <1>2, ReconcileAhead
  <1>3. ASSUME NEW n \in Namespaces, NEW m \in Namespaces, ValidateOther(n, m)
        PROVE  OneAhead'
    <2>1. CASE dep[m].on
      BY <1>3, <2>1, StopAhead, Zenon DEF ValidateOther, Finish, TypeOK
    <2>2. CASE ~dep[m].on
      <3>1. CASE contested
        BY <1>3, <3>1 DEF ValidateOther, OneAhead
      <3>2. CASE ~contested
        BY <1>3, <2>2, <3>2, PassAhead DEF ValidateOther
      <3> QED BY <3>1, <3>2
    <2> QED BY <2>1, <2>2, SMTT(30)
  <1>4. ASSUME NEW n \in Namespaces, ReconcileNonAdminController(n) PROVE OneAhead'
    BY <1>4, ApplyAhead
  <1>5. ASSUME NEW n \in Namespaces, InformDPA(n) PROVE OneAhead'
    BY <1>0, <1>5 DEF InformDPA
  <1>6. ASSUME NEW n \in Namespaces, InformDeployment(n) PROVE OneAhead'
    BY <1>0, <1>6 DEF InformDeployment
  <1>7. ASSUME NEW n \in Namespaces, CollectDeployment(n) PROVE OneAhead'
    <2> SUFFICES ASSUME ~contested, NEW k \in Namespaces, NEW l \in Namespaces,
                        k # l, Claims(k)', Claims(l)'
                 PROVE  Waits(k, l)' \/ Waits(l, k)'
      BY <1>7, SMTT(30) DEF OneAhead, CollectDeployment
    <2>1. /\ \A j \in Namespaces : Installing(j)' = Installing(j)
          /\ \A j \in Namespaces \ {n} : dep'[j] = dep[j]
          /\ ~dep'[n].on /\ dep[n].on /\ dep[n].dying
      BY <1>7, SMTT(30) DEF CollectDeployment, Store, TypeOK, Installing, checkNonAdminEnabled
    <2>2. Claims(k) /\ Claims(l)
      BY <2>1, SMTT(30) DEF Claims
    <2>3. ASSUME NEW i \in Namespaces, NEW j \in Namespaces, i # j, Waits(i, j), Claims(j)'
          PROVE  Waits(i, j)'
      <3>1. i # n /\ j # n
        BY <2>1, <2>3 DEF Waits, Claims
      <3> QED
        BY <1>7, <2>1, <2>3, <3>1, SMTT(30) DEF Waits, CollectDeployment
    <2> QED
      BY <2>2, <2>3 DEF OneAhead
  <1>8. ASSUME NEW n \in Namespaces, NEW m \in Namespaces, ValidateOtherUnanswered(n, m)
        PROVE  OneAhead'
    <2>1. CASE contested \/ dep[m].on
      BY <1>8, <2>1, Zenon DEF ValidateOtherUnanswered, OneAhead
    <2>2. CASE ~contested /\ ~dep[m].on
      BY <1>8, <2>2, PassAhead DEF ValidateOtherUnanswered
    <2> QED BY <2>1, <2>2
  <1>9. ASSUME NEW n \in Namespaces, BatchFails(n) PROVE OneAhead'
    BY <1>9, StopAhead, Zenon DEF BatchFails, Finish, TypeOK
  <1>10. ASSUME NEW n \in Namespaces, Restart(n) PROVE OneAhead'
    BY <1>10, StopAhead, ZenonT(30) DEF Restart, TypeOK
  <1>11. ASSUME NEW n \in Namespaces, WriteStatus(n) PROVE OneAhead'
    BY <1>0, <1>11 DEF WriteStatus
  <1>12. ASSUME NEW n \in Namespaces, NEW c \in Confs[n], UserEdit(n, c) PROVE OneAhead'
    BY <1>0, <1>12 DEF UserEdit
  <1> QED
    BY <1>1, <1>2, <1>3, <1>4, <1>5, <1>6, <1>7, <1>8, <1>9, <1>10, <1>11, <1>12
    DEF Next, Work

(* However many operators run, two NACs are installed only after one of    *)
(* the three events that ValidateDataProtectionCR does not exclude: a      *)
(* check that overlaps a creation, a NAC left behind, an unanswered Get.   *)
THEOREM Sole == Spec => []SoleUnlessContested
  <1>1. Init => OneAhead
    BY DEF Init, OneAhead, Claims, Installing
  <1>2. OneAhead => SoleUnlessContested
    BY SMTT(30) DEF OneAhead, SoleUnlessContested, Installed, Claims, Waits
  <1> QED
    BY <1>1, <1>2, Typed, StepAhead, PTL DEF Spec

(* What a step of another namespace's operator leaves alone keeps ToldAt.  *)
LEMMA Elsewhere ==
  ASSUME NEW k \in Namespaces, ToldAt(k),
         dpa'[k] = dpa[k], cache'[k] = cache[k], read'[k] = read[k], dep'[k] = dep[k],
         memo'[k] = memo[k], pc'[k] = pc[k], queued'[k] = queued[k],
         missed'[k] = missed[k], bare'[k] = bare[k]
  PROVE  ToldAt(k)'
  BY SMTT(30) DEF ToldAt, PodFits

(* What the build of the pod template remembers is what the DPA says of    *)
(* the NAC and, if the DPA always gives velero.args, of the sync period.   *)
LEMMA BuildTells ==
  ASSUME TypeOK, NEW n \in Namespaces, ToldAt(n)
  PROVE  LET w == ensureRequiredSpecs(n) IN
         /\ NonAdminOf(w.conf) = NonAdminOf(read[n].conf)
         /\ ~bare[n] => /\ w.sync = SyncPeriod(w.conf)
                        /\ w.sync = SyncPeriod(read[n].conf)
  <1> DEFINE c == read[n].conf
             given == c.args # "none"
             new == [rv |-> read[n].rv, conf |-> c,
                     sync |-> IF given THEN SyncPeriod(c) ELSE memo[n].sync]
             w == ensureRequiredSpecs(n)
  <1>1. CASE w = new
    BY <1>1, SMTT(30) DEF ToldAt
  <1>2. CASE /\ w = memo[n] /\ memo[n].rv # 0
             /\ NonAdminOf(c) = NonAdminOf(memo[n].conf)
             /\ ~(given /\ SyncPeriod(c) # memo[n].sync)
    BY <1>2, SMTT(30) DEF ToldAt
  <1> QED
    BY <1>1, <1>2, ZenonT(30) DEF ensureRequiredSpecs

(* The end of a batch keeps ToldAt if it puts the key back, or the         *)
(* Deployment it leaves fits what it has read.                             *)
LEMMA FinishTold ==
  ASSUME TypeOK, NEW n \in Namespaces, ToldAt(n), NEW good \in BOOLEAN, Finish(n, good),
         dpa'[n] = dpa[n], cache'[n] = cache[n], bare'[n] = bare[n],
         NEW c, c = read[n].conf,
         ~bare[n] /\ memo'[n].rv # 0 => memo'[n].sync = SyncPeriod(memo'[n].conf),
         good /\ ~missed'[n] => PodFits(n, c)'
  PROVE  ToldAt(n)'
  <1>1. read'[n] = cache[n]
    BY ZenonT(30) DEF Finish, TypeOK
  <1>2. ASSUME ~queued'[n]
        PROVE  good /\ c = cache[n].conf
    <2>1. good /\ read[n].rv = dpa[n].rv
      BY <1>2, ZenonT(30) DEF Finish, TypeOK
    <2>2. read[n] = dpa[n]
      BY <2>1, ZenonT(30) DEF ToldAt
    <2>3. /\ cache[n].rv <= dpa[n].rv /\ read[n].rv <= cache[n].rv
          /\ cache[n].rv \in Nat /\ dpa[n].rv \in Nat
      BY SMTT(30) DEF TypeOK, DPAs
    <2>4. cache[n].rv = dpa[n].rv
      BY <2>1, <2>3
    <2>5. cache[n] = dpa[n]
      BY <2>4, ZenonT(30) DEF ToldAt
    <2> QED
      BY <2>1, <2>2, <2>5
  <1>3. ~queued'[n] /\ ~missed'[n] => PodFits(n, cache[n].conf)'
    BY <1>2, SMTT(30) DEF PodFits
  <1>4. /\ cache'[n].rv = dpa'[n].rv => cache'[n] = dpa'[n]
        /\ read'[n].rv = dpa'[n].rv => read'[n] = dpa'[n]
        /\ ~bare'[n] => /\ dpa'[n].conf.args # "none" /\ cache'[n].conf.args # "none"
                        /\ read'[n].conf.args # "none"
    BY <1>1 DEF ToldAt
  <1> QED
    BY <1>3, <1>4, Zenon DEF ToldAt

(* A write leaves the Deployment with the fields it was given, whatever    *)
(* version the API server stamps on it.                                    *)
LEMMA WrittenFields ==
  ASSUME TypeOK, NEW n \in Namespaces, NEW on, NEW dying, NEW note,
         Store(n, on, dying, note)
  PROVE  dep'[n].on = on /\ dep'[n].dying = dying /\ dep'[n].note = note
  BY DEF Store, TypeOK

(* The creation or the update of the Deployment keeps ToldAt: a build from *)
(* an up-to-date view leaves a pod template with what it remembers.        *)
LEMMA CreateOrUpdateTold ==
  ASSUME TypeOK, NEW n \in Namespaces, ToldAt(n), ReconcileNonAdminController(n),
         checkNonAdminEnabled(read[n])
  PROVE  ToldAt(n)'
  <1> DEFINE w == ensureRequiredSpecs(n)
             note == [rv |-> w.rv, conf |-> w.conf]
  <1>0. PICK c : c = read[n].conf
    OBVIOUS
  <1>1. NonAdminOf(w.conf) = NonAdminOf(c)
    BY <1>0, BuildTells
  <1>2. ~bare[n] => w.sync = SyncPeriod(w.conf) /\ w.sync = SyncPeriod(c)
    BY <1>0, BuildTells
  <1>3. CreateOrUpdateNonAdminController(n) /\ UNCHANGED <<dpa, cache, bare>>
    BY Zenon DEF ReconcileNonAdminController
  <1>4. \/ Finish(n, FALSE)
        \/ Finish(n, TRUE) /\ Store(n, TRUE, FALSE, note)
        \/ Finish(n, TRUE) /\ UNCHANGED dep /\ view[n].on /\ view[n].note = note
        \/ Finish(n, TRUE) /\ Store(n, TRUE, dep[n].dying, note)
    BY <1>3, Zenon DEF CreateOrUpdateNonAdminController
  <1>5. memo' = [memo EXCEPT ![n] = w]
    BY <1>3, Zenon DEF CreateOrUpdateNonAdminController
  <1>6. missed'[n] = (view[n] # dep[n] \/ dep[n].dying)
    BY Zenon DEF ReconcileNonAdminController, TypeOK
  <1> HIDE DEF w
  <1>n. note.conf = w.conf
    BY Zenon
  <1> HIDE DEF note
  <1>p. ASSUME dep'[n].on, ~dep'[n].dying, dep'[n].note = note PROVE PodFits(n, c)'
    BY <1>0, <1>1, <1>2, <1>3, <1>n, <1>p DEF PodFits, checkNonAdminEnabled
  <1>7. ASSUME ~Finish(n, FALSE), ~missed'[n] PROVE PodFits(n, c)'
    <2>1. view[n] = dep[n] /\ ~dep[n].dying
      BY <1>6, <1>7, Zenon
    <2>2. CASE UNCHANGED dep /\ view[n].on /\ view[n].note = note
      BY <1>p, <2>1, <2>2, Zenon
    <2>3. ASSUME NEW d \in {FALSE, dep[n].dying}, Store(n, TRUE, d, note)
          PROVE  PodFits(n, c)'
      <3>1. dep'[n].on = TRUE /\ dep'[n].dying = d /\ dep'[n].note = note
        BY <2>3, WrittenFields, Zenon
      <3>2. ~d
        BY <2>1, Zenon
      <3> QED
        BY <1>p, <3>1, <3>2, Zenon
    <2> QED
      BY <1>4, <1>7, <2>2, <2>3, Zenon
  <1>8. memo'[n] = w
    BY <1>5 DEF TypeOK
  <1>9. ~bare[n] /\ memo'[n].rv # 0 => memo'[n].sync = SyncPeriod(memo'[n].conf)
    BY <1>2, <1>8 
  <1>10. CASE Finish(n, FALSE)
    BY <1>0, <1>3, <1>9, <1>10, FinishTold, Zenon
  <1>11. CASE ~Finish(n, FALSE)
    BY <1>0, <1>3, <1>4, <1>7, <1>9, <1>11, FinishTold, Zenon
  <1> QED
    BY <1>10, <1>11, Zenon

(* So does its deletion: a worker that sees no Deployment has seen, if the *)
(* view is up to date, that there is none.                                 *)
LEMMA DeleteTold ==
  ASSUME TypeOK, NEW n \in Namespaces, ToldAt(n), ReconcileNonAdminController(n),
         ~checkNonAdminEnabled(read[n])
  PROVE  ToldAt(n)'
  <1>0. PICK c : c = read[n].conf
    OBVIOUS
  <1>1. /\ DeleteNonAdminController(n)
        /\ UNCHANGED <<dpa, cache, bare, memo>>
    BY Zenon DEF ReconcileNonAdminController, DeleteNonAdminController
  <1>2. \/ Finish(n, FALSE)
        \/ Finish(n, TRUE) /\ ~view[n].on /\ UNCHANGED dep
        \/ Finish(n, TRUE) /\ dep[n].dying /\ UNCHANGED dep
        \/ Finish(n, TRUE) /\ Store(n, TRUE, TRUE, dep[n].note)
    BY <1>1, Zenon DEF DeleteNonAdminController
  <1>3. ~missed'[n] => view[n] = dep[n]
    BY Zenon DEF ReconcileNonAdminController, TypeOK
  <1>4. ASSUME ~dep'[n].on \/ dep'[n].dying PROVE PodFits(n, c)'
    BY <1>0, <1>4, Zenon DEF PodFits, checkNonAdminEnabled
  <1>5. CASE Finish(n, FALSE)
    BY <1>0, <1>1, <1>5, FinishTold, Zenon DEF ToldAt
  <1>6. CASE Finish(n, TRUE) /\ ~missed'[n]
    <2>1. ASSUME Store(n, TRUE, TRUE, dep[n].note) PROVE dep'[n].dying = TRUE
      BY <2>1 DEF Store, TypeOK
    <2>2. Finish(n, FALSE) \/ PodFits(n, c)'
      BY <1>2, <1>3, <1>4, <1>6, <2>1, Zenon
    <2> QED
      BY <1>0, <1>1, <1>5, <1>6, <2>2, FinishTold, ZenonT(30) DEF ToldAt
  <1>7. CASE Finish(n, TRUE) /\ missed'[n]
    BY <1>0, <1>1, <1>7, FinishTold, Zenon DEF ToldAt
  <1> QED
    BY <1>2, <1>5, <1>6, <1>7, Zenon

(* Every step keeps Told: only n's own steps reach n's part of it, and a   *)
(* batch that stops early puts the key back.                               *)
LEMMA StepTold == TypeOK /\ Told /\ [Next]_vars => Told'
  <1> SUFFICES ASSUME TypeOK, Told, [Next]_vars, NEW k \in Namespaces PROVE ToldAt(k)'
    BY DEF Told
  <1>0. ToldAt(k)
    BY DEF Told
  <1>1. CASE UNCHANGED vars
    BY <1>0, <1>1, Elsewhere, Zenon DEF vars
  <1>2. ASSUME NEW n \in Namespaces, Reconcile(n) PROVE ToldAt(k)'
    <2>1. CASE k # n
      BY <1>0, <1>2, <2>1, Elsewhere, ZenonT(30) DEF Reconcile, TypeOK
    <2>2. CASE k = n
      <3>1. pc'[n] # "idle" /\ read'[n] = cache[n] /\ UNCHANGED <<dpa, cache, dep, memo, bare>>
        BY <1>2, Zenon DEF Reconcile, TypeOK
      <3>2. read'[k].rv = dpa'[k].rv => read'[k] = dpa'[k]
        BY <1>0, <2>2, <3>1, Zenon DEF ToldAt
      <3>3. ~bare'[k] => read'[k].conf.args # "none"
        BY <1>0, <2>2, <3>1, Zenon DEF ToldAt
      <3> QED
        BY <1>0, <2>2, <3>1, <3>2, <3>3, ZenonT(30) DEF ToldAt
    <2> QED BY <2>1, <2>2
  <1>3. ASSUME NEW n \in Namespaces, NEW m \in Namespaces, pc[n] = "check", Pass(n, m),
               UNCHANGED <<dpa, cache, dep, view, memo, missed, bare>>
        PROVE  ToldAt(k)'
    <2>1. CASE k # n
      BY <1>0, <1>3, <2>1, Elsewhere, ZenonT(30) DEF Pass, TypeOK
    <2>2. CASE k = n
      <3>1. pc'[n] # "idle"
        BY <1>3 DEF Pass, TypeOK
      <3> QED
        BY <1>0, <1>3, <2>2, <3>1 DEF ToldAt, Pass
    <2> QED BY <2>1, <2>2
  <1>4. ASSUME NEW n \in Namespaces, Finish(n, FALSE),
               UNCHANGED <<dpa, cache, dep, view, memo, missed, bare>>
        PROVE  ToldAt(k)'
    <2>1. CASE k # n
      BY <1>0, <1>4, <2>1, Elsewhere, Zenon DEF Finish, TypeOK
    <2>2. CASE k = n
      BY <1>0, <1>4, <2>2, FinishTold, Zenon DEF ToldAt
    <2> QED BY <2>1, <2>2
  <1>5. ASSUME NEW n \in Namespaces, ReconcileNonAdminController(n) PROVE ToldAt(k)'
    <2>1. CASE k # n
      <3>1. Finish(n, TRUE) \/ Finish(n, FALSE)
        BY <1>5, Zenon DEF ReconcileNonAdminController, CreateOrUpdateNonAdminController,
                     DeleteNonAdminController
      <3>2. UNCHANGED dep \/ \E on, d, v : Store(n, on, d, v)
        BY <1>5, Zenon DEF ReconcileNonAdminController, CreateOrUpdateNonAdminController,
                     DeleteNonAdminController
      <3>3. UNCHANGED memo \/ \E w : memo' = [memo EXCEPT ![n] = w]
        BY <1>5, Zenon DEF ReconcileNonAdminController, CreateOrUpdateNonAdminController,
                     DeleteNonAdminController
      <3>4. /\ UNCHANGED <<dpa, cache, view, bare>>
            /\ \E w : missed' = [missed EXCEPT ![n] = w]
        BY <1>5, Zenon DEF ReconcileNonAdminController
      <3>5. pc'[k] = pc[k] /\ read'[k] = read[k] /\ queued'[k] = queued[k]
        BY <2>1, <3>1, ZenonT(30) DEF Finish, TypeOK
      <3>6. dep'[k] = dep[k] /\ memo'[k] = memo[k] /\ missed'[k] = missed[k]
        BY <2>1, <3>2, <3>3, <3>4, ZenonT(30) DEF Store, TypeOK
      <3> QED
        BY <1>0, <3>4, <3>5, <3>6, Elsewhere, Zenon
    <2>2. CASE k = n
      BY <1>0, <1>5, <2>2, CreateOrUpdateTold, DeleteTold, Zenon
    <2> QED BY <2>1, <2>2
  <1>6. ASSUME NEW n \in Namespaces, InformDPA(n) PROVE ToldAt(k)'
    <2>1. CASE k # n
      BY <1>0, <1>6, <2>1, Elsewhere, ZenonT(30) DEF InformDPA, TypeOK
    <2>2. CASE k = n
      <3>1. cache'[n] = dpa[n] /\ UNCHANGED <<dpa, dep, pc, read, memo, missed, bare>>
        BY <1>6 DEF InformDPA, TypeOK
      <3>2. ~queued'[n] => ~queued[n] /\ dpa[n].conf = cache[n].conf
        BY <1>6, Zenon DEF InformDPA, TypeOK
      <3> QED
        BY <1>0, <2>2, <3>1, <3>2, ZenonT(30) DEF ToldAt, PodFits
    <2> QED BY <2>1, <2>2
  <1>7. ASSUME NEW n \in Namespaces, InformDeployment(n) PROVE ToldAt(k)'
    BY <1>0, <1>7, Elsewhere, Zenon DEF InformDeployment
  <1>8. ASSUME NEW n \in Namespaces, CollectDeployment(n) PROVE ToldAt(k)'
    <2>1. CASE k # n
      BY <1>0, <1>8, <2>1, Elsewhere, Zenon DEF CollectDeployment, Store, TypeOK
    <2>2. CASE k = n
      <3>1. /\ dep[n].dying /\ dep'[n].on = FALSE
            /\ UNCHANGED <<dpa, cache, queued, pc, read, memo, missed, bare>>
        BY <1>8 DEF CollectDeployment, Store, TypeOK
      <3> QED
        BY <1>0, <2>2, <3>1, ZenonT(30) DEF ToldAt, PodFits
    <2> QED BY <2>1, <2>2
  <1>9. ASSUME NEW n \in Namespaces, Restart(n) PROVE ToldAt(k)'
    <2>1. CASE k # n
      BY <1>0, <1>9, <2>1, Elsewhere, ZenonT(30) DEF Restart, TypeOK
    <2>2. CASE k = n
      <3>1. /\ queued'[n] = TRUE /\ cache'[n] = dpa[n] /\ read'[n] = dpa[n]
            /\ memo'[n].rv = 0 /\ UNCHANGED <<dpa, bare>>
        BY <1>9 DEF Restart, TypeOK, NoMemo
      <3> QED
        BY <1>0, <2>2, <3>1, ZenonT(30) DEF ToldAt
    <2> QED BY <2>1, <2>2
  <1>10. ASSUME NEW n \in Namespaces, NEW c,
                dpa' = [dpa EXCEPT ![n] = [conf |-> c, rv |-> @.rv + 1]],
                bare' = [bare EXCEPT ![n] = @ \/ c.args = "none"] ,
                UNCHANGED <<cache, dep, view, queued, pc, read, memo, missed>>
         PROVE  ToldAt(k)'
    <2>1. CASE k # n
      BY <1>0, <1>10, <2>1, Elsewhere, ZenonT(30) DEF TypeOK
    <2>2. CASE k = n
      <3>1. dpa'[n].conf = c /\ dpa'[n].rv = dpa[n].rv + 1
        BY <1>10, SMTT(30) DEF TypeOK
      <3>2. cache[n].rv # dpa'[n].rv /\ read[n].rv # dpa'[n].rv
        BY <3>1 DEF TypeOK, DPAs
      <3>3. bare'[n] = (bare[n] \/ c.args = "none")
        BY <1>10, Zenon DEF TypeOK
      <3> QED
        BY <1>0, <1>10, <2>2, <3>1, <3>2, <3>3, ZenonT(30) DEF ToldAt, PodFits
    <2> QED BY <2>1, <2>2
  <1>11. ASSUME NEW n \in Namespaces, WriteStatus(n) PROVE ToldAt(k)'
    <2>1. CASE k # n
      BY <1>0, <1>11, <2>1, Elsewhere, ZenonT(30) DEF WriteStatus, TypeOK
    <2>2. CASE k = n
      <3>1. dpa'[n].conf = dpa[n].conf /\ dpa'[n].rv = dpa[n].rv + 1
        BY <1>11, SMTT(30) DEF WriteStatus, TypeOK
      <3>2. cache[n].rv # dpa'[n].rv /\ read[n].rv # dpa'[n].rv
        BY <3>1 DEF TypeOK, DPAs
      <3>3. UNCHANGED <<cache, dep, queued, pc, read, memo, missed, bare>>
        BY <1>11 DEF WriteStatus
      <3> QED
        BY <1>0, <2>2, <3>1, <3>2, <3>3, SMTT(30) DEF ToldAt, PodFits
    <2> QED BY <2>1, <2>2
  <1>12. ASSUME NEW n \in Namespaces, NEW m \in Namespaces, ValidateOther(n, m)
         PROVE  ToldAt(k)'
    BY <1>3, <1>4, <1>12, Zenon DEF ValidateOther
  <1>13. ASSUME NEW n \in Namespaces, NEW m \in Namespaces, ValidateOtherUnanswered(n, m)
         PROVE  ToldAt(k)'
    BY <1>3, <1>13, Zenon DEF ValidateOtherUnanswered
  <1>14. ASSUME NEW n \in Namespaces, BatchFails(n) PROVE ToldAt(k)'
    BY <1>4, <1>14, Zenon DEF BatchFails
  <1>15. ASSUME NEW n \in Namespaces, NEW c \in Confs[n], UserEdit(n, c) PROVE ToldAt(k)'
    BY <1>10, <1>15, ZenonT(30) DEF UserEdit
  <1> QED
    BY <1>1, <1>2, <1>5, <1>6, <1>7, <1>8, <1>9, <1>11, <1>12, <1>13, <1>14, <1>15, Zenon
    DEF Next, Work

(* A worker at rest that last saw the Deployment as it was has told the    *)
(* NAC's pod of the configuration the DPA has, or has the NAC deleted:     *)
(* ensureRequiredSpecs forgets nothing, whatever failures, restarts and    *)
(* writes of the status came in between.                                   *)
THEOREM PodsAreTold == Spec => []PodKnowsConfig
  <1>1. Init => Told
    <2> SUFFICES ASSUME Init, NEW n \in Namespaces PROVE ToldAt(n)
      BY SMTT(30) DEF Told
    <2>1. cache = dpa /\ read = dpa /\ queued[n] = TRUE
      BY SMTT(30) DEF Init
    <2>2. memo[n].rv = 0
      BY DEF Init, NoMemo
    <2>3. bare[n] = (dpa[n].conf.args = "none")
      BY ZenonT(30) DEF Init
    <2> QED
      BY <2>1, <2>2, <2>3, Zenon DEF ToldAt
  <1>2. Told => PodKnowsConfig
    BY DEF Told, ToldAt, PodFits, PodKnowsConfig, AtRest, checkNonAdminEnabled
  <1> QED
    BY <1>1, <1>2, Typed, StepTold, PTL DEF Spec
=============================================================================
