------------------------ MODULE DPAControllerProofs ------------------------
(***************************************************************************)
(* Proofs about DPAController, for every batch of reconcile functions,     *)
(* every assignment of labels and generations to their objects, and any    *)
(* number of edits, tamperings, faults and restarts.                       *)
(***************************************************************************)
EXTENDS DPAController, TLAPS

(* What a write to one object of the API server changes. *)
LEMMA StoreEffect ==
    ASSUME TypeOK, NEW f \in Funcs, NEW c \in Contents, Store(f, c)
    PROVE  /\ obj' \in [Funcs -> Contents]
           /\ events' \in [Funcs -> {"none", "quiet", "wake"}]
           /\ obj'[f] = c
           /\ \A g \in Funcs : g # f => obj'[g] = obj[g] /\ events'[g] = events[g]
           /\ c = obj[f] => events'[f] = events[f]
           /\ c # obj[f] => events'[f] # "none"
           /\ c # obj[f] /\ f \in Watched => events'[f] = "wake"
           /\ f \in Labelled /\ c # obj[f] /\ (c = Absent \/ obj[f] = Absent)
                 => events'[f] = "wake"
           /\ events[f] = "wake" => events'[f] = "wake"
  BY DEF TypeOK, Store, veleroPredicate, Watched

(* A call of a reconcile function is a call of a function of the batch. *)
LEMMA BatchMember == \A i \in 1..Len(Batch) : Batch[i] \in Funcs
  BY BatchAssumption

(* Spending keeps the budget well typed. *)
LEMMA SpendType ==
    ASSUME TypeOK, NEW what \in {"edits", "tampers", "faults", "restarts"}, Spend(what)
    PROVE  budget' \in [edits : Nat, tampers : Nat, faults : Nat, restarts : Nat]
  BY DEF Spend, TypeOK

(* Initial states satisfy the type invariant. *)
LEMMA TypeInit == Init => TypeOK
  <1> SUFFICES ASSUME Init PROVE TypeOK
    OBVIOUS
  <1>1. Done \in Nat /\ 0 \in 0..Done
    BY BatchAssumption DEF Done
  <1>2. dpa \in DPAs /\ cache \in DPAs /\ read \in DPAs
    BY DEF Init, DPAs, NoDPA, Conds
  <1>3. obj \in [Funcs -> Contents] /\ view \in [Funcs -> Contents]
    BY ContentAssumption DEF Init
  <1>4. budget \in [edits : Nat, tampers : Nat, faults : Nat, restarts : Nat]
    BY BoundAssumption DEF Init
  <1> QED
    BY <1>1, <1>2, <1>3, <1>4, Zenon DEF Init, TypeOK

(* Every step preserves the type invariant. *)
LEMMA TypeNext == TypeOK /\ [Next]_vars => TypeOK'
  <1> SUFFICES ASSUME TypeOK, [Next]_vars PROVE TypeOK'
    OBVIOUS
  <1>len. Len(Batch) \in Nat /\ Done = Len(Batch) + 1 /\ Done \in Nat
    BY BatchAssumption DEF Done
  <1>nodpa. NoDPA \in DPAs
    BY DEF NoDPA, DPAs, Conds
  <1>1. ASSUME NEW s \in Specs \cup {Absent}, UserEdit(s) PROVE TypeOK'
    <2>1. dpa' \in DPAs
      <3>1. dpa' = [spec |-> s, gen |-> dpa.gen + 1, cond |-> dpa.cond, rv |-> dpa.rv + 1]
        BY <1>1, Zenon DEF UserEdit, TypeOK, DPAs
      <3> QED
        BY <3>1 DEF TypeOK, DPAs
    <2>2. budget' \in [edits : Nat, tampers : Nat, faults : Nat, restarts : Nat]
      BY <1>1, SpendType DEF UserEdit, TypeOK
    <2> QED
      BY <1>1, <2>1, <2>2 DEF UserEdit, TypeOK
  <1>2. ASSUME NEW f \in Funcs, NEW c \in Contents, Tamper(f, c) PROVE TypeOK'
    BY <1>2, StoreEffect DEF Tamper, Spend, TypeOK
  <1>3. ASSUME NEW f \in Funcs, CollectGarbage(f) PROVE TypeOK'
    BY <1>3, StoreEffect, ContentAssumption DEF CollectGarbage, TypeOK
  <1>4. CASE InformDPA
    BY <1>4 DEF InformDPA, TypeOK
  <1>5. ASSUME NEW f \in Funcs, InformObject(f) PROVE TypeOK'
    BY <1>5 DEF InformObject, TypeOK
  <1>6. CASE StartReconcile
    <2>1. read' \in DPAs /\ failed' \in Funcs \cup {Absent} /\ pc' \in 0..Done
      BY <1>6, <1>len, <1>nodpa DEF StartReconcile, Return, TypeOK
    <2>2. pc' # 0 => read'.spec \in Specs
      BY <1>6 DEF StartReconcile, Return, TypeOK, DPAs
    <2> QED
      BY <1>6, <2>1, <2>2, Zenon DEF StartReconcile, TypeOK
  <1>7. CASE RunFunc
    <2> DEFINE f == Batch[pc]
    <2>1. f \in Funcs /\ pc \in 1..Len(Batch)
      BY <1>7, BatchMember DEF RunFunc
    <2>2. (obj' = obj /\ events' = events) \/ Store(f, Desired(f, read.spec))
      BY <1>7 DEF RunFunc, Apply
    <2>3. pc' \in 0..Done /\ failed' \in Funcs \cup {Absent}
      BY <1>7, <2>1, <1>len DEF RunFunc, Apply, Continue, StopWith
    <2>4. Desired(f, read.spec) \in Contents
      BY <1>7, <2>1, ContentAssumption DEF TypeOK, DPAs
    <2> QED
      BY <1>7, <2>1, <2>2, <2>3, <2>4, StoreEffect DEF RunFunc, TypeOK
  <1>8. CASE FuncFails
    BY <1>8, <1>len, BatchMember, SMTT(30) DEF FuncFails, StopWith, Spend, TypeOK
  <1>9. CASE UpdateStatus
    <2>1. dpa' \in DPAs
      <3>1. dpa' = dpa \/ \E c \in Conds :
              dpa' = [spec |-> dpa.spec, gen |-> dpa.gen, cond |-> c, rv |-> dpa.rv + 1]
        BY <1>9, Zenon DEF UpdateStatus, TypeOK, DPAs, Conds
      <3> QED
        BY <3>1 DEF TypeOK, DPAs
    <2> QED
      BY <1>9, <2>1, <1>len, <1>nodpa DEF UpdateStatus, Return, ReturnsError, Conflict, TypeOK
  <1>10. CASE UpdateStatusFails
    BY <1>10, <1>len, <1>nodpa DEF UpdateStatusFails, Return, Spend, TypeOK
  <1>11. CASE Restart
    BY <1>11, <1>len, <1>nodpa DEF Restart, Return, Spend, TypeOK, Exists
  <1>12. CASE UNCHANGED vars
    BY <1>12 DEF vars, TypeOK
  <1> QED
    BY <1>1, <1>2, <1>3, <1>4, <1>5, <1>6, <1>7, <1>8, <1>9, <1>10, <1>11, <1>12
    DEF Next, Worker, Informers, Environment

(* Type correctness of the controller, its queue and its informers. *)
THEOREM TypeCorrect == Spec => []TypeOK
  BY TypeInit, TypeNext, PTL DEF Spec

-----------------------------------------------------------------------------
(* What a step does to the DPA: nothing, a new generation, or a new        *)
(* condition under the same generation.                                    *)
LEMMA DPAStep ==
    ASSUME TypeOK, [Next]_vars
    PROVE  \/ dpa' = dpa
           \/ /\ dpa'.gen = dpa.gen + 1 /\ dpa'.rv = dpa.rv + 1
              /\ \E s \in Specs \cup {Absent} : UserEdit(s)
           \/ /\ dpa'.gen = dpa.gen /\ dpa'.rv = dpa.rv + 1 /\ dpa'.spec = dpa.spec
              /\ UpdateStatus
  <1>1. ASSUME NEW s \in Specs \cup {Absent}, UserEdit(s)
        PROVE  dpa'.gen = dpa.gen + 1 /\ dpa'.rv = dpa.rv + 1
    BY <1>1 DEF UserEdit, TypeOK, DPAs
  <1>2. CASE UpdateStatus
    BY <1>2 DEF UpdateStatus, TypeOK, DPAs
  <1> QED
    BY <1>1, <1>2
    DEF Next, Worker, Informers, Environment, Tamper, CollectGarbage, InformDPA,
        InformObject, StartReconcile, RunFunc, FuncFails, UpdateStatusFails, Restart, vars

(* The copies of the DPA stay versions of it. *)
LEMMA CopiesStep ==
    TypeOK /\ CopiesAreVersions /\ [Next]_vars => CopiesAreVersions'
  <1> SUFFICES ASSUME TypeOK, CopiesAreVersions, [Next]_vars PROVE CopiesAreVersions'
    OBVIOUS
  <1>1. ASSUME NEW d \in DPAs, VersionOf(d)
        PROVE  /\ d.rv <= dpa'.rv /\ d.gen <= dpa'.gen
               /\ d.rv = dpa'.rv => d = dpa'
               /\ d.gen = dpa'.gen => d.spec = dpa'.spec
    BY <1>1, DPAStep DEF VersionOf, TypeOK, DPAs
  <1>2. \/ UNCHANGED <<cache, read>>
        \/ cache' = dpa /\ dpa' = dpa /\ (read' = read \/ read' = NoDPA)
        \/ cache' = cache /\ dpa' = dpa /\ (read' = cache \/ read' = NoDPA)
        \/ cache' = cache /\ read' = NoDPA
    BY Zenon DEF Next, Worker, Informers, Environment, UserEdit, Tamper, CollectGarbage,
           InformDPA, InformObject, StartReconcile, RunFunc, FuncFails, UpdateStatus,
           UpdateStatusFails, Restart, Return, vars
  <1>3. NoDPA \in DPAs /\ VersionOf(NoDPA) /\ VersionOf(dpa) /\ dpa.rv > 0 /\ dpa.gen > 0
    BY DEF NoDPA, DPAs, Conds, VersionOf, CopiesAreVersions, TypeOK
  <1>4. VersionOf(cache) /\ VersionOf(read) /\ read.rv <= cache.rv
        /\ cache \in DPAs /\ read \in DPAs /\ dpa \in DPAs
    BY DEF CopiesAreVersions, TypeOK
  <1>5. VersionOf(cache)'
    <2>1. cache' = cache \/ cache' = dpa
      BY <1>2
    <2> QED
      BY <2>1, <1>1, <1>3, <1>4 DEF VersionOf
  <1>6. VersionOf(read)'
    <2>1. read' = read \/ read' = cache \/ read' = NoDPA
      BY <1>2
    <2> QED
      BY <2>1, <1>1, <1>3, <1>4 DEF VersionOf
  <1>7. read'.rv <= cache'.rv
    BY <1>2, <1>3, <1>4 DEF VersionOf, NoDPA, DPAs
  <1>8. dpa'.gen > 0 /\ dpa'.rv > 0
    BY DPAStep, <1>3, SMTT(30) DEF TypeOK, DPAs
  <1>9. (pc # Done => failed = Absent)'
    BY BatchAssumption, Zenon
    DEF CopiesAreVersions, TypeOK, Next, Worker, Informers, Environment, UserEdit, Tamper,
        CollectGarbage, InformDPA, InformObject, StartReconcile, RunFunc, Apply, Continue,
        StopWith, FuncFails, UpdateStatus, UpdateStatusFails, Restart, Return, Done, vars
  <1> QED
    BY <1>5, <1>6, <1>7, <1>8, <1>9 DEF CopiesAreVersions

(* Informers' copies of objects stay current up to pending events. *)
LEMMA ViewsStep ==
    TypeOK /\ ViewsAreCurrent /\ [Next]_vars => ViewsAreCurrent'
  <1> SUFFICES ASSUME TypeOK, ViewsAreCurrent, [Next]_vars,
                      NEW g \in Funcs
               PROVE  /\ events'[g] = "none" => view'[g] = obj'[g]
                      /\ g \in Labelled /\ events'[g] = "quiet"
                            => (view'[g] = Absent <=> obj'[g] = Absent)
                      /\ g \in Watched => events'[g] # "quiet"
    BY DEF ViewsAreCurrent, Watched
  <1>0. /\ events[g] = "none" => view[g] = obj[g]
        /\ g \in Labelled /\ events[g] = "quiet" => (view[g] = Absent <=> obj[g] = Absent)
        /\ g \in Watched => events[g] # "quiet"
    BY DEF ViewsAreCurrent
  <1>1. ASSUME NEW f \in Funcs, NEW c \in Contents, Store(f, c), view' = view
        PROVE  /\ events'[g] = "none" => view'[g] = obj'[g]
               /\ g \in Labelled /\ events'[g] = "quiet"
                     => (view'[g] = Absent <=> obj'[g] = Absent)
               /\ g \in Watched => events'[g] # "quiet"
    BY <1>0, <1>1, StoreEffect DEF TypeOK, Watched
  <1>2. ASSUME NEW f \in Funcs, NEW c \in Contents, Tamper(f, c) PROVE Store(f, c) /\ view' = view
    BY <1>2 DEF Tamper
  <1>3. ASSUME NEW f \in Funcs, CollectGarbage(f) PROVE Store(f, Absent) /\ view' = view
    BY <1>3 DEF CollectGarbage
  <1>4. ASSUME RunFunc
        PROVE  /\ view' = view
               /\ \/ obj' = obj /\ events' = events
                  \/ \E f \in Funcs, c \in Contents : Store(f, c)
    <2>1. Batch[pc] \in Funcs /\ Desired(Batch[pc], read.spec) \in Contents
      BY <1>4, BatchMember, ContentAssumption DEF RunFunc, TypeOK
    <2> QED
      BY <1>4, <2>1 DEF RunFunc, Apply
  <1>5. ASSUME NEW f \in Funcs, InformObject(f)
        PROVE  IF g = f THEN events'[g] = "none" /\ view'[g] = obj'[g]
               ELSE events'[g] = events[g] /\ view'[g] = view[g] /\ obj'[g] = obj[g]
    BY <1>5 DEF InformObject, TypeOK
  <1>6. CASE Restart
    BY <1>6 DEF Restart
  <1>7. CASE UNCHANGED <<obj, view, events>>
    BY <1>0, <1>7, SMTT(30)
  <1>8. \/ UNCHANGED <<obj, view, events>> \/ Restart \/ RunFunc
        \/ \E f \in Funcs : InformObject(f) \/ CollectGarbage(f)
        \/ \E f \in Funcs, c \in Contents : Tamper(f, c)
    BY Zenon DEF Next, Worker, Informers, Environment, UserEdit, InformDPA, StartReconcile,
           FuncFails, UpdateStatus, UpdateStatusFails, vars
  <1> QED
    BY <1>0, <1>1, <1>2, <1>3, <1>4, <1>5, <1>6, <1>7, <1>8, ContentAssumption DEF Watched

(* An idle, empty, up-to-date controller stays one that reports True. *)
LEMMA ConditionStep ==
    TypeOK /\ CopiesAreVersions /\ ConditionSettled /\ [Next]_vars => ConditionSettled'
  <1> SUFFICES ASSUME TypeOK, CopiesAreVersions, ConditionSettled, [Next]_vars,
                      Exists', pc' = 0, ~queued', cache'.gen = dpa'.gen
               PROVE  dpa'.cond = "True"
    BY DEF ConditionSettled
  <1>done. Done # 0 /\ Len(Batch) \in Nat
    BY BatchAssumption DEF Done
  <1>1. ASSUME NEW s \in Specs \cup {Absent}, UserEdit(s) PROVE FALSE
    <2>1. dpa'.gen = dpa.gen + 1 /\ cache' = cache /\ dpa.gen \in Nat /\ cache.gen \in Nat
      BY <1>1 DEF UserEdit, TypeOK, DPAs
    <2>2. cache.gen <= dpa.gen
      BY DEF CopiesAreVersions, VersionOf
    <2> QED
      BY <2>1, <2>2
  <1>2. CASE UpdateStatus
    <2>1. ~Conflict /\ failed = Absent
      BY <1>2, Zenon DEF UpdateStatus, ReturnsError
    <2> QED
      BY <1>2, <2>1 DEF UpdateStatus, TypeOK, DPAs
  <1>3. CASE StartReconcile
    <2>1. cache.spec = Absent /\ dpa' = dpa /\ cache' = cache
      BY <1>3 DEF StartReconcile, Return
    <2> QED
      BY <2>1 DEF CopiesAreVersions, VersionOf, Exists
  <1>4. CASE InformDPA
    BY <1>4, Zenon DEF InformDPA, ConditionSettled, Exists, TypeOK
  <1>5. CASE Restart
    BY <1>5, Zenon DEF Restart, Exists
  <1>6. CASE RunFunc \/ FuncFails \/ UpdateStatusFails
    BY <1>6, <1>done DEF RunFunc, FuncFails, UpdateStatusFails, Apply, Continue, StopWith, TypeOK
  <1>7. CASE /\ UNCHANGED <<dpa, cache, pc>> /\ (queued => queued')
    BY <1>7 DEF ConditionSettled, Exists
  <1>8. ASSUME NEW f \in Funcs, InformObject(f) PROVE queued => queued'
    BY <1>8, Zenon DEF InformObject
  <1> QED
    BY <1>1, <1>2, <1>3, <1>4, <1>5, <1>6, <1>7, <1>8
    DEF Next, Worker, Informers, Environment, Tamper, CollectGarbage, InformObject, vars

(* What the call of a reconcile function achieves: if it returns no error, *)
(* its object is as desired or a change of it is about to wake the worker. *)
LEMMA RunFuncEffect ==
    ASSUME TypeOK, ViewsAreCurrent, RunFunc
    PROVE  LET f == Batch[pc]
               want == Desired(f, read.spec)
           IN  /\ f \in Funcs
               /\ \A g \in Funcs : g # f => obj'[g] = obj[g] /\ events'[g] = events[g]
               /\ \/ pc' = Done /\ failed' = f
                  \/ /\ pc' = pc + 1 /\ failed' = Absent
                     /\ f \in Watched => obj'[f] = want \/ events'[f] = "wake"
                     /\ f \in Labelled =>
                           (obj'[f] = Absent <=> want = Absent) \/ events'[f] = "wake"
  <1> DEFINE f == Batch[pc]
             want == Desired(f, read.spec)
  <1>1. f \in Funcs /\ want \in Contents
    BY BatchMember, ContentAssumption DEF RunFunc, TypeOK
  <1>2. /\ events[f] = "none" => view[f] = obj[f]
        /\ f \in Labelled /\ events[f] = "quiet" => (view[f] = Absent <=> obj[f] = Absent)
        /\ f \in Watched => events[f] # "quiet"
        /\ events[f] \in {"none", "quiet", "wake"}
    BY <1>1 DEF ViewsAreCurrent, TypeOK
  <1>3. Apply(f, want)
    BY DEF RunFunc
  <1>4. ASSUME Store(f, want)
        PROVE  /\ obj'[f] = want
               /\ \A g \in Funcs : g # f => obj'[g] = obj[g] /\ events'[g] = events[g]
    BY <1>1, <1>4, StoreEffect
  <1>5. \A g \in Funcs : g # f => obj'[g] = obj[g] /\ events'[g] = events[g]
    BY <1>3, <1>4 DEF Apply
  <1>6. \/ pc' = Done /\ failed' = f
        \/ /\ pc' = pc + 1 /\ failed' = Absent
           /\ f \in Watched => obj'[f] = want \/ events'[f] = "wake"
           /\ f \in Labelled => (obj'[f] = Absent <=> want = Absent) \/ events'[f] = "wake"
    BY <1>2, <1>3, <1>4 DEF Apply, Continue, StopWith
  <1> QED
    BY <1>1, <1>5, <1>6

(* A labelled object stays as desired or bound to be visited. *)
LEMMA ObjectsStep ==
    IInv /\ [Next]_vars => ObjectsSettled'
  <1> SUFFICES ASSUME IInv, [Next]_vars, Exists',
                      NEW g \in Funcs, g \in Labelled, ~WillVisit(g)'
               PROVE  AsDesired(g)'
    BY DEF ObjectsSettled
  <1> USE DEF IInv
  <1>len. Len(Batch) \in Nat /\ Done = Len(Batch) + 1 /\ Done # 0
    BY BatchAssumption DEF Done
  <1>0. /\ ~queued' /\ cache'.gen = dpa'.gen /\ events'[g] # "wake"
        /\ pc' # 0 => /\ failed' = Absent /\ read'.rv = dpa'.rv
                      /\ \A i \in pc'..Len(Batch) : Batch[i] # g
    BY DEF WillVisit, Conflict
  <1>ih. ASSUME Exists, ~WillVisit(g) PROVE AsDesired(g)
    BY <1>ih DEF ObjectsSettled
  <1>1. ASSUME NEW s \in Specs \cup {Absent}, UserEdit(s) PROVE FALSE
    <2>1. dpa'.gen = dpa.gen + 1 /\ cache' = cache /\ dpa.gen \in Nat /\ cache.gen \in Nat
      BY <1>1 DEF UserEdit, TypeOK, DPAs
    <2>2. cache.gen <= dpa.gen
      BY DEF CopiesAreVersions, VersionOf
    <2> QED
      BY <1>0, <2>1, <2>2
  <1>2. ASSUME NEW f \in Funcs, NEW c \in Contents, Tamper(f, c) PROVE AsDesired(g)'
    <2>1. Store(f, c) /\ obj[f] # c /\ UNCHANGED <<dpa, cache, queued, pc, read, failed>>
      BY <1>2 DEF Tamper
    <2>2. events[g] # "wake"
      BY <1>0, <2>1, StoreEffect
    <2>3. ~WillVisit(g) /\ Exists
      BY <2>1, <2>2 DEF WillVisit, Conflict, Exists
    <2>4. CASE f = g
      <3>1. g \notin Generational /\ c # Absent /\ obj[g] # Absent /\ obj'[g] = c
        BY <1>0, <2>1, <2>4, StoreEffect DEF Watched
      <3> QED
        BY <1>ih, <2>1, <2>3, <3>1 DEF AsDesired
    <2>5. CASE f # g
      BY <1>ih, <2>1, <2>3, <2>5, StoreEffect DEF AsDesired
    <2> QED
      BY <2>4, <2>5
  <1>3. ASSUME NEW f \in Funcs, CollectGarbage(f) PROVE FALSE
    BY <1>3 DEF CollectGarbage, Exists
  <1>4. CASE InformDPA
    <2>1. ~WillVisit(g) /\ Exists /\ dpa' = dpa /\ obj' = obj
      BY <1>0, <1>4, Zenon DEF InformDPA, WillVisit, Conflict, Exists
    <2> QED
      BY <1>ih, <2>1 DEF AsDesired
  <1>5. ASSUME NEW f \in Funcs, InformObject(f) PROVE AsDesired(g)'
    <2>1. events[g] # "wake"
      BY <1>0, <1>5, Zenon DEF InformObject, TypeOK
    <2>2. ~WillVisit(g) /\ Exists /\ dpa' = dpa /\ obj' = obj
      BY <1>0, <1>5, <2>1, Zenon DEF InformObject, WillVisit, Conflict, Exists
    <2> QED
      BY <1>ih, <2>2 DEF AsDesired
  <1>6. CASE StartReconcile
    <2>0. PICK i \in 1..Len(Batch) : Batch[i] = g
      BY BatchAssumption
    <2>1. pc' = 0
      BY <1>0, <1>6, <2>0 DEF StartReconcile, Return
    <2>2. cache.spec = Absent /\ cache' = cache /\ dpa' = dpa
      BY <1>6, <2>1 DEF StartReconcile
    <2> QED
      BY <1>0, <2>2 DEF CopiesAreVersions, VersionOf, Exists
  <1>7. CASE RunFunc
    <2> DEFINE f == Batch[pc]
    <2>1. pc \in 1..Len(Batch) /\ f \in Funcs /\ f # Absent
          /\ UNCHANGED <<dpa, cache, queued, read>>
      BY <1>7, BatchMember, ContentAssumption DEF RunFunc
    <2>2. pc' = pc + 1 /\ failed' = Absent
      <3>1. (pc' = Done /\ failed' = f) \/ (pc' = pc + 1 /\ failed' = Absent)
        BY <1>7 DEF RunFunc, Apply, Continue, StopWith
      <3> QED
        BY <1>0, <1>len, <2>1, <3>1
    <2>3. read.rv = dpa.rv /\ (\A i \in pc + 1..Len(Batch) : Batch[i] # g)
      BY <1>0, <2>1, <2>2
    <2>4. read.spec = dpa.spec
      BY <2>3 DEF CopiesAreVersions, VersionOf
    <2>5. CASE f = g
      BY <1>0, <1>7, <1>len, <2>1, <2>2, <2>4, <2>5, RunFuncEffect, SMTT(30) DEF AsDesired, Watched
    <2>6. CASE f # g
      <3>1. obj'[g] = obj[g] /\ events'[g] = events[g]
        BY <1>7, <2>6, RunFuncEffect
      <3>2. failed = Absent
        BY <2>1, <1>len DEF CopiesAreVersions
      <3>3. \A i \in pc..Len(Batch) : Batch[i] # g
        BY <2>1, <2>3, <2>6
      <3>4. ~WillVisit(g) /\ Exists
        BY <1>0, <2>1, <2>3, <3>1, <3>2, <3>3 DEF WillVisit, Conflict, Exists
      <3> QED
        BY <1>ih, <2>1, <3>1, <3>4 DEF AsDesired
    <2> QED
      BY <2>5, <2>6
  <1>8. CASE FuncFails
    BY <1>0, <1>8, <1>len, BatchMember, ContentAssumption DEF FuncFails, StopWith
  <1>9. CASE UpdateStatus
    <2>1. failed = Absent /\ ~Conflict /\ ~queued /\ pc = Done
          /\ UNCHANGED <<cache, obj, events>>
      BY <1>0, <1>9, Zenon DEF UpdateStatus, ReturnsError
    <2>2. dpa'.spec = dpa.spec /\ dpa'.gen = dpa.gen
      BY <1>9 DEF UpdateStatus, TypeOK, DPAs
    <2>3. \A i \in pc..Len(Batch) : FALSE
      BY <2>1, <1>len
    <2>4. ~WillVisit(g) /\ Exists
      BY <1>0, <2>1, <2>2, <2>3 DEF WillVisit, Exists
    <2> QED
      BY <1>ih, <2>1, <2>2, <2>4 DEF AsDesired
  <1>10. CASE UpdateStatusFails
    BY <1>0, <1>10 DEF UpdateStatusFails
  <1>11. CASE Restart
    BY <1>0, <1>11, Zenon DEF Restart, Exists
  <1>12. CASE UNCHANGED vars
    BY <1>ih, <1>12 DEF vars, WillVisit, Conflict, Exists, AsDesired
  <1> QED
    BY <1>1, <1>2, <1>3, <1>4, <1>5, <1>6, <1>7, <1>8, <1>9, <1>10, <1>11, <1>12
    DEF Next, Worker, Informers, Environment

-----------------------------------------------------------------------------
(* The invariant holds initially. *)
LEMMA IInvInit == Init => IInv
  <1> SUFFICES ASSUME Init PROVE IInv
    OBVIOUS
  <1>1. Done # 0
    BY BatchAssumption DEF Done
  <1>2. CopiesAreVersions
    BY <1>1 DEF Init, CopiesAreVersions, VersionOf, NoDPA
  <1>3. ViewsAreCurrent
    BY DEF Init, ViewsAreCurrent, Watched
  <1>4. cache.gen # dpa.gen
    BY DEF Init, NoDPA
  <1> QED
    BY TypeInit, <1>2, <1>3, <1>4 DEF IInv, ConditionSettled, ObjectsSettled, WillVisit

(* Every step keeps the invariant. *)
LEMMA IInvNext == IInv /\ [Next]_vars => IInv'
  BY TypeNext, CopiesStep, ViewsStep, ConditionStep, ObjectsStep DEF IInv

(* The inductive invariant holds throughout. *)
THEOREM Inductive == Spec => []IInv
  BY IInvInit, IInvNext, PTL DEF Spec

(* No wakeup is lost: whenever the controller is at rest, the DPA reports  *)
(* Reconciled=True and every watched object is as the spec asks.           *)
THEOREM WorkIsNeverLost == Spec => []NoLostWork
  <1>1. IInv => NoLostWork
    <2> SUFFICES ASSUME IInv, Quiescent, Exists PROVE
            /\ dpa.cond = "True"
            /\ \A f \in Watched : obj[f] = Desired(f, dpa.spec)
      BY DEF NoLostWork
    <2>1. cache.gen = dpa.gen
      BY DEF IInv, Quiescent, CopiesAreVersions, VersionOf
    <2>2. dpa.cond = "True"
      BY <2>1 DEF IInv, Quiescent, ConditionSettled
    <2>3. \A f \in Watched : obj[f] = Desired(f, dpa.spec)
      BY <2>1 DEF IInv, Quiescent, ObjectsSettled, WillVisit, AsDesired, Watched
    <2> QED
      BY <2>2, <2>3
  <1> QED
    BY <1>1, Inductive, PTL

(* At rest a labelled object exists exactly if the spec asks for it. *)
THEOREM PresenceIsRestored == Spec => []PresenceRestored
  <1>1. IInv => PresenceRestored
    <2> SUFFICES ASSUME IInv, Quiescent, Exists, NEW f \in Funcs, f \in Labelled
                 PROVE  obj[f] = Absent <=> Desired(f, dpa.spec) = Absent
      BY DEF PresenceRestored
    <2>1. cache.gen = dpa.gen
      BY DEF IInv, Quiescent, CopiesAreVersions, VersionOf
    <2> QED
      BY <2>1 DEF IInv, Quiescent, ObjectsSettled, WillVisit, AsDesired
  <1> QED
    BY <1>1, Inductive, PTL

(* The condition turns True only when the work for the spec held by the    *)
(* API server at that moment is done or about to be repeated.              *)
THEOREM CompletionIsTruthful == Spec => CompleteIsTruthful
  <1> DEFINE A == dpa.cond # "True" /\ dpa'.cond = "True" =>
                    \A f \in Watched :
                        obj[f] = Desired(f, dpa.spec) \/ events[f] = "wake" \/ queued
  <1>1. IInv /\ [Next]_vars => [A]_vars
    <2> SUFFICES ASSUME IInv, [Next]_vars, dpa.cond # "True", dpa'.cond = "True",
                        NEW f \in Watched
                 PROVE  obj[f] = Desired(f, dpa.spec) \/ events[f] = "wake" \/ queued
      OBVIOUS
    <2> USE DEF IInv
    <2>1. UpdateStatus
      <3>1. ASSUME NEW s \in Specs \cup {Absent}, UserEdit(s) PROVE dpa'.cond = dpa.cond
        BY <3>1 DEF UserEdit, TypeOK, DPAs
      <3> QED
        BY <3>1, DPAStep
    <2>2. failed = Absent /\ ~Conflict /\ pc = Done
      BY <2>1, ContentAssumption DEF UpdateStatus, TypeOK, DPAs
    <2>3. read = dpa /\ cache = dpa
      BY <2>2 DEF Conflict, CopiesAreVersions, VersionOf, TypeOK, DPAs
    <2>4. Done # 0 /\ (\A i \in pc..Len(Batch) : FALSE)
      BY <2>2, BatchAssumption DEF Done
    <2>5. Exists
      BY <2>2, <2>3, <2>4, ContentAssumption DEF Exists, TypeOK
    <2> QED
      BY <2>2, <2>3, <2>4, <2>5, SMTT(30) DEF ObjectsSettled, WillVisit, AsDesired, Watched
  <1> QED
    BY <1>1, Inductive, PTL DEF Spec, CompleteIsTruthful
=============================================================================
