---------------------------- MODULE VeleroProofs ----------------------------
(***************************************************************************)
(* Proofs about Velero, for any specs, secrets and credentials files and   *)
(* any number of edits, failing calls and restarts.                        *)
(***************************************************************************)
EXTENDS Velero, TLAPS

(* The kinds of objects of the registries. *)
LEMMA KindsAre ==
    /\ Kinds = {"registries", "services", "routes", "config"}
    /\ StepAfter["registries"] = "services" /\ StepAfter["services"] = "routes"
    /\ StepAfter["routes"] = "config" /\ StepAfter["config"] = "snapshots"
BY DEF Kinds, StepAfter

(* A pod template is made of its parts. *)
LEMMA TemplateIntro ==
    ASSUME NEW p \in SUBSET Plugins, NEW m \in SUBSET SecretNames, NEW n \in BOOLEAN, NEW r \in -1 .. 1
    PROVE  [plugins |-> p, mounts |-> m, note |-> n, revision |-> r] \in Templates
BY Zenon DEF Templates

(* The parts of a template, and nothing else. *)
LEMMA TemplateElim ==
    ASSUME NEW t \in Templates
    PROVE  /\ t.plugins \in SUBSET Plugins /\ t.mounts \in SUBSET SecretNames
           /\ t.note \in BOOLEAN /\ t.revision \in -1 .. 1
           /\ t = [plugins |-> t.plugins, mounts |-> t.mounts, note |-> t.note, revision |-> t.revision]
<1>1. /\ t.plugins \in SUBSET Plugins /\ t.mounts \in SUBSET SecretNames
      /\ t.note \in BOOLEAN /\ t.revision \in -1 .. 1
  BY Zenon DEF Templates
<1>2. t = [plugins |-> t.plugins, mounts |-> t.mounts, note |-> t.note, revision |-> t.revision]
  BY DEF Templates
<1>3. QED
  BY <1>1, <1>2

(* The Velero Deployment is made of its parts. *)
LEMMA DeploymentIntro ==
    ASSUME NEW b \in BOOLEAN, NEW f \in {"none", "label", "note", "clash"}, NEW t \in Templates,
           NEW o \in Templates, NEW r \in 0 .. 1
    PROVE  [there |-> b, foreign |-> f, template |-> t, rolled |-> o, revision |-> r] \in Deployments
BY Zenon DEF Deployments

(* The parts of the Velero Deployment, and nothing else. *)
LEMMA DeploymentElim ==
    ASSUME NEW d \in Deployments
    PROVE  /\ d.there \in BOOLEAN /\ d.foreign \in {"none", "label", "note", "clash"}
           /\ d.template \in Templates /\ d.rolled \in Templates /\ d.revision \in 0 .. 1
           /\ d = [there |-> d.there, foreign |-> d.foreign, template |-> d.template,
                   rolled |-> d.rolled, revision |-> d.revision]
<1>1. /\ d.there \in BOOLEAN /\ d.foreign \in {"none", "label", "note", "clash"}
      /\ d.template \in Templates /\ d.rolled \in Templates /\ d.revision \in 0 .. 1
  BY Zenon DEF Deployments
<1>2. d = [there |-> d.there, foreign |-> d.foreign, template |-> d.template,
           rolled |-> d.rolled, revision |-> d.revision]
  BY DEF Deployments
<1>3. QED
  BY <1>1, <1>2

(* What stands for a Deployment that has not been created is of its type. *)
LEMMA NoDeploymentType == NoTemplate \in Templates /\ NoDeployment \in Deployments
<1>1. NoTemplate \in Templates
  <2>1. -1 \in -1 .. 1 /\ {} \in SUBSET Plugins /\ {} \in SUBSET SecretNames /\ FALSE \in BOOLEAN
    OBVIOUS
  <2>2. QED
    BY <2>1, TemplateIntro, Zenon DEF NoTemplate
<1>2. NoDeployment \in Deployments
  <2>1. 0 \in 0 .. 1 /\ FALSE \in BOOLEAN /\ "none" \in {"none", "label", "note", "clash"}
    OBVIOUS
  <2>2. QED
    BY <1>1, <2>1, DeploymentIntro, Zenon DEF NoDeployment
<1>3. QED
  BY <1>1, <1>2

(* What ReconcileVeleroDeployment writes for a spec is a template, that of *)
(* the spec's plugins and mounts, without the revision the Deployment      *)
(* controller counts.                                                      *)
LEMMA Built ==
    ASSUME TypeOK
    PROVE  /\ buildVeleroDeployment \in Templates
           /\ buildVeleroDeployment.mounts = Mounts(read)
           /\ DOMAIN buildVeleroDeployment = {"plugins", "mounts", "note", "revision"}
           /\ buildVeleroDeployment = [f \in DOMAIN buildVeleroDeployment |-> buildVeleroDeployment[f]]
<1>1. buildVeleroDeployment = [plugins |-> read.plugins, mounts |-> Mounts(read),
                               note |-> view.foreign = "note", revision |-> -1]
  BY DEF buildVeleroDeployment, setPodTemplateSpecDefaults
<1>2. read.plugins \in SUBSET Plugins
  BY SpecAssumption DEF TypeOK, IsSpec
<1>3. Mounts(read) \in SUBSET SecretNames
  <2>1. ASSUME NEW p \in Plugins, ProviderName[p] # ""
        PROVE  PluginSecret(p) \in SecretNames
    <3>1. ProviderName[p] \in Providers
      BY <2>1 DEF Plugins, ProviderName, Providers
    <3>2. QED
      BY <2>1, <3>1 DEF PluginSecret, SecretNames
  <2>2. QED
    BY <1>2, <2>1 DEF Mounts
<1>4. (view.foreign = "note") \in BOOLEAN /\ -1 \in -1 .. 1
  OBVIOUS
<1>5. buildVeleroDeployment \in Templates
  BY <1>1, <1>2, <1>3, <1>4, TemplateIntro, Zenon
<1>6. QED
  BY <1>1, <1>5

BSLs == [there : BOOLEAN, labelled : BOOLEAN, default : BOOLEAN, slow : BOOLEAN]

(* Storing a Deployment stores one, and tells of it. *)
LEMMA StoreType ==
    ASSUME TypeOK, NEW new \in Deployments, Store(new)
    PROVE  dep' \in Deployments /\ event' \in {"none", "quiet", "wake"}
BY DEF Store, TypeOK

(* Users, failing calls and restarts stay within their bound. *)
LEMMA SpendType ==
    ASSUME TypeOK, Spend
    PROVE  budget' \in 0 .. MaxEvents
<1>1. budget \in 0 .. MaxEvents /\ budget > 0 /\ budget' = budget - 1
  BY DEF TypeOK, Spend
<1>2. QED
  BY <1>1, BoundAssumption

(* UpdateCredentialsSecretLabels changes labels only. *)
LEMMA LabelledType ==
    ASSUME TypeOK, NEW names, secrets' = Labelled(names)
    PROVE  DOMAIN secrets' = SecretNames /\ \A n \in SecretNames : IsSecret(secrets'[n])
<1>1. DOMAIN secrets' = SecretNames
  BY DEF Labelled
<1>2. ASSUME NEW n \in SecretNames PROVE IsSecret(secrets'[n])
  <2> DEFINE label == secrets[n].labelled \/ (n \in names /\ There(n))
  <2>1. secrets'[n] = [secrets[n] EXCEPT !.labelled = label]
    BY DEF Labelled
  <2>2. IsSecret(secrets[n])
    BY DEF TypeOK
  <2>3. label \in BOOLEAN
    OBVIOUS
  <2> HIDE DEF label
  <2>4. /\ DOMAIN secrets'[n] = {"there", "labelled", "lines"}
        /\ secrets'[n].there = secrets[n].there /\ secrets'[n].labelled = label
    BY <2>1, <2>2 DEF IsSecret
  <2>5. QED
    BY <2>2, <2>3, <2>4, Zenon DEF IsSecret
<1>3. QED
  BY <1>1, <1>2

(* A secret that a user writes or deletes is a secret. *)
LEMMA UserSecretType ==
    ASSUME TypeOK, NEW n \in SecretNames, UserSecret(n)
    PROVE  DOMAIN secrets' = SecretNames /\ \A m \in SecretNames : IsSecret(secrets'[m])
<1>1. CASE \E c \in Contents : secrets' = [secrets EXCEPT ![n].there = TRUE, ![n].lines = c]
  <2>1. PICK c \in Contents : secrets' = [secrets EXCEPT ![n].there = TRUE, ![n].lines = c]
    BY <1>1, Zenon
  <2>2. DOMAIN secrets' = SecretNames
    BY <2>1 DEF TypeOK
  <2>3. ASSUME NEW m \in SecretNames PROVE IsSecret(secrets'[m])
    <3>1. IsSecret(secrets[m]) /\ IsSecret(secrets[n])
      BY DEF TypeOK
    <3>2. CASE m # n
      BY <2>1, <3>1, <3>2 DEF TypeOK
    <3>3. CASE m = n
      <4>1. /\ DOMAIN secrets'[n] = {"there", "labelled", "lines"}
            /\ secrets'[n].there = TRUE /\ secrets'[n].labelled = secrets[n].labelled
        BY <2>1, <3>1 DEF IsSecret, TypeOK
      <4>2. QED
        BY <3>1, <3>3, <4>1, Zenon DEF IsSecret
    <3>4. QED
      BY <3>2, <3>3
  <2>4. QED
    BY <2>2, <2>3
<1>2. CASE secrets' = [secrets EXCEPT ![n].there = FALSE, ![n].labelled = FALSE]
  <2>2. DOMAIN secrets' = SecretNames
    BY <1>2 DEF TypeOK
  <2>3. ASSUME NEW m \in SecretNames PROVE IsSecret(secrets'[m])
    <3>1. IsSecret(secrets[m]) /\ IsSecret(secrets[n])
      BY DEF TypeOK
    <3>2. CASE m # n
      BY <1>2, <3>1, <3>2 DEF TypeOK
    <3>3. CASE m = n
      <4>1. /\ DOMAIN secrets'[n] = {"there", "labelled", "lines"}
            /\ secrets'[n].there = FALSE /\ secrets'[n].labelled = FALSE
        BY <1>2, <3>1 DEF IsSecret, TypeOK
      <4>2. QED
        BY <3>1, <3>3, <4>1, Zenon DEF IsSecret
    <3>4. QED
      BY <3>2, <3>3
  <2>4. QED
    BY <2>2, <2>3
<1>3. QED
  BY <1>1, <1>2, Zenon DEF UserSecret

(* A location that the operator makes or prunes is a location. *)
LEMMA BSLIntro ==
    ASSUME NEW a \in BOOLEAN, NEW b \in BOOLEAN, NEW c \in BOOLEAN, NEW d \in BOOLEAN
    PROVE  [there |-> a, labelled |-> b, default |-> c, slow |-> d] \in BSLs
BY Zenon DEF BSLs

(* What ReconcileBackupStorageLocations makes of an entry of the spec. *)
LEMMA BSLOfType ==
    ASSUME NEW s \in Specs, NEW i \in DOMAIN s.bsls
    PROVE  BSLOf(s.bsls[i]) \in BSLs
<1>1. s.bsls[i] \in Location
  BY SpecAssumption DEF IsSpec
<1>2. s.bsls[i].default \in BOOLEAN /\ s.bsls[i].slow \in BOOLEAN
  BY <1>1, Zenon DEF Location
<1>3. (s.bsls[i].kind = "velero") \in BOOLEAN /\ TRUE \in BOOLEAN
  OBVIOUS
<1>4. QED
  BY <1>2, <1>3, BSLIntro, Zenon DEF BSLOf

(* What stands for a location that does not exist. *)
LEMMA NoBSLType == NoBSL \in BSLs
<1>1. FALSE \in BOOLEAN
  OBVIOUS
<1>2. QED
  BY <1>1, BSLIntro, Zenon DEF NoBSL

(* What making and pruning the locations comes to, place by place. *)
LEMMA MadeType ==
    ASSUME TypeOK, NEW k \in 0 .. Len(read.bsls)
    PROVE  /\ Made(k) \in [Indices -> BSLs]
           /\ Pruned(Made(k)) \in [Indices -> BSLs]
           /\ \A i \in Indices :
                Made(k)[i].labelled <=> \/ bsls[i].labelled
                                        \/ i <= k /\ read.bsls[i].kind = "velero"
<1>1. bsls \in [Indices -> BSLs] /\ read \in Specs /\ read.bsls \in Seq(Location)
  BY SpecAssumption DEF TypeOK, BSLs, IsSpec
<1>2. ASSUME NEW i \in Indices
      PROVE  /\ Made(k)[i] \in BSLs
             /\ Made(k)[i].labelled <=> \/ bsls[i].labelled
                                        \/ i <= k /\ read.bsls[i].kind = "velero"
  <2>1. CASE i > k
    <3>1. Made(k)[i] = bsls[i] /\ ~ (i <= k)
      BY <2>1 DEF Made, Indices
    <3>2. QED
      BY <1>1, <3>1, Zenon
  <2>2. CASE ~ (i > k)
    <3> DEFINE l == read.bsls[i]
    <3> DEFINE label == (l.kind = "velero") \/ bsls[i].labelled
    <3>1. i \in DOMAIN read.bsls /\ i <= k
      BY <1>1, <2>2 DEF Indices
    <3>2. Made(k)[i] = [there |-> TRUE, labelled |-> label, default |-> l.default, slow |-> l.slow]
      BY <2>2, Zenon DEF Made, BSLOf
    <3>3. l \in Location
      BY <1>1, <3>1
    <3>4. l.default \in BOOLEAN /\ l.slow \in BOOLEAN
      BY <3>3, Zenon DEF Location
    <3>5. label \in BOOLEAN /\ TRUE \in BOOLEAN
      OBVIOUS
    <3> HIDE DEF label, l
    <3>6. Made(k)[i] \in BSLs
      BY <3>2, <3>4, <3>5, BSLIntro, Zenon
    <3>7. Made(k)[i].labelled <=> label
      BY <3>2
    <3>8. QED
      BY <3>1, <3>6, <3>7, Zenon DEF label, l
  <2>3. QED
    BY <2>1, <2>2
<1>3. Made(k) \in [Indices -> BSLs]
  <2>1. Made(k) = [i \in Indices |-> Made(k)[i]]
    BY DEF Made
  <2>2. QED
    BY <1>2, <2>1
<1>4. Pruned(Made(k)) \in [Indices -> BSLs]
  BY <1>3, NoBSLType DEF Pruned
<1>5. QED
  BY <1>2, <1>3, <1>4, Zenon

(* What a merge patch of the built template makes of the Deployment's: in  *)
(* each field, what was built or what was there.                           *)
LEMMA PatchedType ==
    ASSUME TypeOK
    PROVE  /\ Patched(buildVeleroDeployment) \in Templates
           /\ Patched(buildVeleroDeployment).mounts \in {Mounts(read), dep.template.mounts}
           /\ view.template = dep.template => Patched(buildVeleroDeployment) = buildVeleroDeployment
<1> DEFINE b == buildVeleroDeployment
<1>1. /\ b \in Templates /\ b.mounts = Mounts(read) /\ DOMAIN b = {"plugins", "mounts", "note", "revision"}
      /\ b = [f \in DOMAIN b |-> b[f]]
  BY Built, Zenon
<1>2. dep.template \in Templates /\ view.template \in Templates
  BY DeploymentElim, Zenon DEF TypeOK
<1> HIDE DEF b
<1> DEFINE t == Patched(b)
<1>3. t = [plugins |-> t.plugins, mounts |-> t.mounts, note |-> t.note, revision |-> t.revision]
  BY <1>1 DEF Patched
<1>4. /\ t.plugins \in {b.plugins, dep.template.plugins} /\ t.mounts \in {b.mounts, dep.template.mounts}
      /\ t.note \in {b.note, dep.template.note} /\ t.revision \in {b.revision, dep.template.revision}
  BY <1>1 DEF Patched
<1>5. view.template = dep.template => t = b
  BY <1>1 DEF Patched
<1> HIDE DEF t
<1>6. t \in Templates
  <2>1. /\ t.plugins \in SUBSET Plugins /\ t.mounts \in SUBSET SecretNames
        /\ t.note \in BOOLEAN /\ t.revision \in -1 .. 1
    BY <1>1, <1>2, <1>4, TemplateElim, Zenon
  <2>2. QED
    BY <1>3, <2>1, TemplateIntro, Zenon
<1>7. QED
  BY <1>1, <1>4, <1>5, <1>6, Zenon DEF b, t

(* A Deployment with another value in one of its fields is a Deployment. *)
LEMMA DeploymentExcept ==
    ASSUME NEW d \in Deployments
    PROVE  /\ \A b \in BOOLEAN : [d EXCEPT !.there = b] \in Deployments
           /\ \A f \in {"none", "label", "note", "clash"} : [d EXCEPT !.foreign = f] \in Deployments
           /\ \A t \in Templates : [d EXCEPT !.template = t] \in Deployments
           /\ \A t \in Templates : [d EXCEPT !.rolled = t] \in Deployments
           /\ \A r \in 0 .. 1 : [d EXCEPT !.revision = r] \in Deployments
<1>1. /\ d.there \in BOOLEAN /\ d.foreign \in {"none", "label", "note", "clash"}
      /\ d.template \in Templates /\ d.rolled \in Templates /\ d.revision \in 0 .. 1
  BY DeploymentElim, Zenon
<1>2. d = [there |-> d.there, foreign |-> d.foreign, template |-> d.template,
           rolled |-> d.rolled, revision |-> d.revision]
  BY DeploymentElim, Zenon
<1>3. ASSUME NEW b \in BOOLEAN
      PROVE  [d EXCEPT !.there = b] \in Deployments
  <2>1. [d EXCEPT !.there = b] =
        [there |-> b, foreign |-> d.foreign, template |-> d.template,
         rolled |-> d.rolled, revision |-> d.revision]
    BY <1>2
  <2>2. [there |-> b, foreign |-> d.foreign, template |-> d.template,
         rolled |-> d.rolled, revision |-> d.revision] \in Deployments
    BY <1>1, DeploymentIntro, Zenon
  <2>3. QED
    BY <2>1, <2>2
<1>4. ASSUME NEW f \in {"none", "label", "note", "clash"}
      PROVE  [d EXCEPT !.foreign = f] \in Deployments
  <2>1. [d EXCEPT !.foreign = f] =
        [there |-> d.there, foreign |-> f, template |-> d.template,
         rolled |-> d.rolled, revision |-> d.revision]
    BY <1>2
  <2>2. [there |-> d.there, foreign |-> f, template |-> d.template,
         rolled |-> d.rolled, revision |-> d.revision] \in Deployments
    BY <1>1, DeploymentIntro, Zenon
  <2>3. QED
    BY <2>1, <2>2
<1>5. ASSUME NEW t \in Templates
      PROVE  [d EXCEPT !.template = t] \in Deployments
  <2>1. [d EXCEPT !.template = t] =
        [there |-> d.there, foreign |-> d.foreign, template |-> t,
         rolled |-> d.rolled, revision |-> d.revision]
    BY <1>2
  <2>2. [there |-> d.there, foreign |-> d.foreign, template |-> t,
         rolled |-> d.rolled, revision |-> d.revision] \in Deployments
    BY <1>1, DeploymentIntro, ZenonT(30)
  <2>3. QED
    BY <2>1, <2>2
<1>6. ASSUME NEW t \in Templates
      PROVE  [d EXCEPT !.rolled = t] \in Deployments
  <2>1. [d EXCEPT !.rolled = t] =
        [there |-> d.there, foreign |-> d.foreign, template |-> d.template,
         rolled |-> t, revision |-> d.revision]
    BY <1>2
  <2>2. [there |-> d.there, foreign |-> d.foreign, template |-> d.template,
         rolled |-> t, revision |-> d.revision] \in Deployments
    BY <1>1, DeploymentIntro, ZenonT(30)
  <2>3. QED
    BY <2>1, <2>2
<1>7. ASSUME NEW r \in 0 .. 1
      PROVE  [d EXCEPT !.revision = r] \in Deployments
  <2>1. [d EXCEPT !.revision = r] =
        [there |-> d.there, foreign |-> d.foreign, template |-> d.template,
         rolled |-> d.rolled, revision |-> r]
    BY <1>2
  <2>2. [there |-> d.there, foreign |-> d.foreign, template |-> d.template,
         rolled |-> d.rolled, revision |-> r] \in Deployments
    BY <1>1, DeploymentIntro, Zenon
  <2>3. QED
    BY <2>1, <2>2
<1>8. QED
  BY <1>3, <1>4, <1>5, <1>6, <1>7

(* What the operator, a user and the Deployment controller store. *)
LEMMA StoredTypes ==
    ASSUME TypeOK
    PROVE  /\ [NoDeployment EXCEPT !.there = TRUE, !.template = buildVeleroDeployment] \in Deployments
           /\ [dep EXCEPT !.template = Patched(buildVeleroDeployment)] \in Deployments
           /\ \A f \in {"none", "label", "note", "clash"} : [dep EXCEPT !.foreign = f] \in Deployments
           /\ [dep EXCEPT !.rolled = dep.template, !.revision = 1 - @] \in Deployments
<1> DEFINE b == buildVeleroDeployment
<1> DEFINE t == Patched(buildVeleroDeployment)
<1> DEFINE r == 1 - dep.revision
<1>1. b \in Templates /\ t \in Templates /\ dep \in Deployments
  BY Built, PatchedType, Zenon DEF TypeOK
<1>2. dep.template \in Templates /\ dep.revision \in 0 .. 1
  BY <1>1, DeploymentElim, Zenon
<1>3. r \in 0 .. 1
  BY <1>2
<1>4. TRUE \in BOOLEAN
  OBVIOUS
<1>5. [dep EXCEPT !.rolled = dep.template, !.revision = 1 - @]
      = [dep EXCEPT !.rolled = dep.template, !.revision = r]
  BY <1>1 DEF Deployments
<1> HIDE DEF b, t, r
<1>6. [NoDeployment EXCEPT !.there = TRUE, !.template = b] \in Deployments
  <2>1. [NoDeployment EXCEPT !.there = TRUE] \in Deployments
    BY <1>4, NoDeploymentType, DeploymentExcept, Zenon
  <2>2. [[NoDeployment EXCEPT !.there = TRUE] EXCEPT !.template = b] \in Deployments
    BY <1>1, <2>1, DeploymentExcept, Zenon
  <2>3. [NoDeployment EXCEPT !.there = TRUE, !.template = b]
        = [[NoDeployment EXCEPT !.there = TRUE] EXCEPT !.template = b]
    BY Zenon
  <2>4. QED
    BY <2>2, <2>3, Zenon
<1>7. [dep EXCEPT !.rolled = dep.template, !.revision = r] \in Deployments
  <2>1. [dep EXCEPT !.rolled = dep.template] \in Deployments
    BY <1>1, <1>2, DeploymentExcept, Zenon
  <2>2. [[dep EXCEPT !.rolled = dep.template] EXCEPT !.revision = r] \in Deployments
    BY <1>3, <2>1, DeploymentExcept, Zenon
  <2>3. [dep EXCEPT !.rolled = dep.template, !.revision = r]
        = [[dep EXCEPT !.rolled = dep.template] EXCEPT !.revision = r]
    BY Zenon
  <2>4. QED
    BY <2>2, <2>3, Zenon
<1>8. [dep EXCEPT !.template = t] \in Deployments
  BY <1>1, DeploymentExcept, Zenon
<1>9. \A f \in {"none", "label", "note", "clash"} : [dep EXCEPT !.foreign = f] \in Deployments
  BY <1>1, DeploymentExcept, Zenon
<1>10. QED
  BY <1>5, <1>6, <1>7, <1>8, <1>9 DEF b, t

(* Every step keeps the types. *)
LEMMA TypeStep ==
    ASSUME TypeOK, [Next]_vars
    PROVE  TypeOK'
<1> USE DEF BSLs
<1>1. CASE UserEdit
  <2>1. budget' \in 0 .. MaxEvents
    BY <1>1, SpendType DEF UserEdit
  <2>2. spec' \in Specs
    BY <1>1, SpecAssumption DEF UserEdit
  <2>3. QED
    BY <1>1, <2>1, <2>2, Zenon DEF UserEdit, TypeOK
<1>2. ASSUME NEW n \in SecretNames, UserSecret(n)
      PROVE  TypeOK'
  <2>1. budget' \in 0 .. MaxEvents
    BY <1>2, SpendType DEF UserSecret
  <2>2. DOMAIN secrets' = SecretNames /\ \A m \in SecretNames : IsSecret(secrets'[m])
    BY <1>2, UserSecretType
  <2>3. queued' \in BOOLEAN
    BY <1>2, Zenon DEF UserSecret, TypeOK
  <2>4. valid' = FALSE /\ calm' = FALSE
        /\ UNCHANGED <<spec, cloud, bsls, legacy, dep, view, event, pc, read, seen>>
    BY <1>2 DEF UserSecret
  <2>5. QED
    BY <2>1, <2>2, <2>3, <2>4, Zenon DEF TypeOK
<1>3. CASE UserCloudStorage
  <2>1. budget' \in 0 .. MaxEvents
    BY <1>3, SpendType DEF UserCloudStorage
  <2>2. cloud' \in Providers \cup {"none"}
    BY <1>3 DEF UserCloudStorage, Providers
  <2>3. QED
    BY <1>3, <2>1, <2>2, Zenon DEF UserCloudStorage, TypeOK
<1>4. CASE UserDeployment
  <2>1. budget' \in 0 .. MaxEvents
    BY <1>4, SpendType DEF UserDeployment
  <2>2. dep' \in Deployments /\ event' \in {"none", "quiet", "wake"}
    BY <1>4, StoredTypes, NoDeploymentType, StoreType, Zenon DEF UserDeployment
  <2>3. QED
    BY <1>4, <2>1, <2>2, Zenon DEF UserDeployment, TypeOK
<1>5. CASE RollOut
  <2>1. dep' \in Deployments /\ event' \in {"none", "quiet", "wake"}
    BY <1>5, StoredTypes, StoreType, Zenon DEF RollOut
  <2>2. QED
    BY <1>5, <2>1 DEF RollOut, TypeOK
<1>6. CASE Inform
  BY <1>6 DEF Inform, TypeOK
<1>7. CASE Restart
  <2>1. budget' \in 0 .. MaxEvents
    BY <1>7, SpendType DEF Restart
  <2>2. QED
    BY <1>7, <2>1, Zenon DEF Restart, TypeOK
<1>8. CASE CallFails
  <2>1. budget' \in 0 .. MaxEvents
    BY <1>8, SpendType DEF CallFails, Fault
  <2>2. QED
    BY <1>8, <2>1, Zenon DEF CallFails, Fault, Fail, TypeOK
<1>9. CASE Start
  BY <1>9, Zenon DEF Start, TypeOK
<1>10. CASE ValidateDataProtectionCR
  <2>1. /\ pc' \in {"locations", "idle"} /\ queued' \in BOOLEAN /\ valid' \in BOOLEAN
        /\ seen' \subseteq SecretNames
    BY <1>10, Zenon DEF ValidateDataProtectionCR, Fail, Continue, TypeOK
  <2>2. QED
    BY <1>10, <2>1 DEF ValidateDataProtectionCR, TypeOK
<1>11. CASE ReconcileBackupStorageLocations
  <2>1. PICK k \in 0 .. Len(read.bsls) :
          /\ secrets' = Labelled({SecretOf(read.bsls[i]) : i \in 1 .. Min({k + 1, Len(read.bsls)})})
          /\ \/ bsls' = Pruned(Made(k)) /\ Continue("registries") /\ UNCHANGED <<calm, budget>>
             \/ bsls' = Made(k) /\ Fail /\ UNCHANGED <<calm, budget>>
             \/ bsls' = Made(k) /\ Fault
    BY <1>11, Zenon DEF ReconcileBackupStorageLocations
  <2>2. DOMAIN secrets' = SecretNames /\ \A n \in SecretNames : IsSecret(secrets'[n])
    BY <2>1, LabelledType, Zenon
  <2>3. bsls' \in [Indices -> BSLs]
    BY <2>1, MadeType, ZenonT(30)
  <2>4. budget' \in 0 .. MaxEvents
    BY <2>1, SpendType DEF Fault, TypeOK
  <2>5. pc' \in {"idle"} \cup Kinds /\ queued' \in BOOLEAN /\ calm' \in BOOLEAN
    BY <2>1, KindsAre, Zenon DEF Fault, Fail, Continue, TypeOK
  <2>6. UNCHANGED <<spec, cloud, legacy, dep, view, event, read, seen, valid>>
    BY <1>11 DEF ReconcileBackupStorageLocations
  <2>7. QED
    BY <2>2, <2>3, <2>4, <2>5, <2>6 DEF TypeOK
<1>12. ASSUME NEW kind \in Kinds, Sweep(kind)
       PROVE  TypeOK'
  <2>1. PICK gone : /\ legacy' = legacy \ ({kind} \X gone)
                    /\ \/ Continue(StepAfter[kind]) /\ UNCHANGED <<calm, budget>>
                       \/ Fault
    BY <1>12 DEF Sweep
  <2>2. budget' \in 0 .. MaxEvents
    BY <2>1, SpendType DEF Fault, TypeOK
  <2>3. pc' \in {"idle", "snapshots"} \cup Kinds /\ queued' \in BOOLEAN /\ calm' \in BOOLEAN
    BY <2>1, KindsAre, Zenon DEF Fault, Fail, Continue, TypeOK
  <2>4. legacy' \subseteq Kinds \X (Indices \cup {0})
    BY <2>1 DEF TypeOK
  <2>5. UNCHANGED <<spec, secrets, cloud, bsls, dep, view, event, read, seen, valid>>
    BY <1>12 DEF Sweep
  <2>6. QED
    BY <2>2, <2>3, <2>4, <2>5 DEF TypeOK
<1>13. CASE LabelVSLSecrets
  <2>1. DOMAIN secrets' = SecretNames /\ \A n \in SecretNames : IsSecret(secrets'[n])
    BY <1>13, LabelledType, Zenon DEF LabelVSLSecrets
  <2>2. pc' \in {"idle", "velero"} /\ queued' \in BOOLEAN
    BY <1>13, Zenon DEF LabelVSLSecrets, Fail, Continue, TypeOK
  <2>3. UNCHANGED <<spec, cloud, bsls, legacy, dep, view, event, read, seen, valid, calm, budget>>
    BY <1>13 DEF LabelVSLSecrets
  <2>4. QED
    BY <2>1, <2>2, <2>3 DEF TypeOK
<1>14. CASE ReconcileVeleroDeployment
  <2>1. pc' \in {"idle", "velero"} /\ queued' \in BOOLEAN
    BY <1>14, Zenon DEF ReconcileVeleroDeployment, Fail, Continue, TypeOK
  <2>2. \/ UNCHANGED <<dep, event>>
        \/ Store([NoDeployment EXCEPT !.there = TRUE, !.template = buildVeleroDeployment])
        \/ Store(NoDeployment)
        \/ Store([dep EXCEPT !.template = Patched(buildVeleroDeployment)])
    BY <1>14, Zenon DEF ReconcileVeleroDeployment
  <2>3. dep' \in Deployments /\ event' \in {"none", "quiet", "wake"}
    <3>1. dep \in Deployments /\ event \in {"none", "quiet", "wake"}
      BY DEF TypeOK
    <3>2. QED
      BY <2>2, <3>1, StoredTypes, NoDeploymentType, StoreType, Zenon
  <2>4. UNCHANGED <<spec, secrets, cloud, bsls, legacy, view, read, seen, valid, calm, budget>>
    BY <1>14 DEF ReconcileVeleroDeployment
  <2>5. QED
    BY <2>1, <2>3, <2>4 DEF TypeOK
<1>15. CASE UNCHANGED vars
  BY <1>15 DEF TypeOK, vars
<1>16. QED
  BY <1>1, <1>2, <1>3, <1>4, <1>5, <1>6, <1>7, <1>8, <1>9, <1>10, <1>11, <1>12, <1>13, <1>14, <1>15,
     ZenonT(30) DEF Next, Reconcile

(* Unless veleroPredicate lets an event pass, the spec of the Deployment   *)
(* stays as it is.                                                         *)
LEMMA StoreTells ==
    ASSUME NEW new, Store(new), event' # "wake"
    PROVE  dep' = new /\ event # "wake" /\ new.there = dep.there /\ new.template = dep.template
BY DEF Store

(* The calls of a pass: each leaves the DPA's key in the queue, or out of  *)
(* it, or puts it back.                                                    *)
LEMMA Passing ==
    ASSUME \/ ValidateDataProtectionCR \/ ReconcileBackupStorageLocations
           \/ \E kind \in Kinds : Sweep(kind)
           \/ LabelVSLSecrets \/ ReconcileVeleroDeployment \/ CallFails
    PROVE  UNCHANGED <<spec, read, view>> /\ (queued' = TRUE \/ UNCHANGED queued)
<1>1. CASE ValidateDataProtectionCR
  BY <1>1 DEF ValidateDataProtectionCR, Fail, Continue
<1>2. CASE ReconcileBackupStorageLocations
  BY <1>2 DEF ReconcileBackupStorageLocations, Fault, Fail, Continue
<1>3. CASE \E kind \in Kinds : Sweep(kind)
  BY <1>3, SMTT(30) DEF Sweep, Fault, Fail, Continue
<1>4. CASE LabelVSLSecrets
  BY <1>4 DEF LabelVSLSecrets, Fail, Continue
<1>5. CASE ReconcileVeleroDeployment
  BY <1>5 DEF ReconcileVeleroDeployment, Fail, Continue
<1>6. CASE CallFails
  BY <1>6 DEF CallFails, Fault, Fail
<1>7. QED
  BY <1>1, <1>2, <1>3, <1>4, <1>5, <1>6, Zenon

(* What a step does to the Deployment and the events about it: nothing, it *)
(* stores another Deployment, or the informer catches up.                  *)
LEMMA Telling ==
    ASSUME [Next]_vars
    PROVE  \/ UNCHANGED <<dep, view, event>>
           \/ (\E new : Store(new)) /\ UNCHANGED view
           \/ view' = dep /\ UNCHANGED dep
<1>1. CASE UserEdit \/ UserCloudStorage \/ Inform \/ Restart \/ CallFails \/ UNCHANGED vars
  BY <1>1 DEF UserEdit, UserCloudStorage, Inform, Restart, CallFails, vars
<1>2. CASE \E n \in SecretNames : UserSecret(n)
  BY <1>2 DEF UserSecret
<1>3. CASE UserDeployment
  BY <1>3, Zenon DEF UserDeployment
<1>4. CASE RollOut
  BY <1>4, ZenonT(30) DEF RollOut
<1>5. CASE \/ Start \/ ValidateDataProtectionCR \/ ReconcileBackupStorageLocations
           \/ LabelVSLSecrets \/ \E kind \in Kinds : Sweep(kind)
  BY <1>5 DEF Start, ValidateDataProtectionCR, ReconcileBackupStorageLocations, LabelVSLSecrets, Sweep
<1>6. CASE ReconcileVeleroDeployment
  <2>1. UNCHANGED <<dep, event>> \/ \E new : Store(new)
    BY <1>6, Zenon DEF ReconcileVeleroDeployment
  <2>2. UNCHANGED view
    BY <1>6 DEF ReconcileVeleroDeployment
  <2>3. QED
    BY <2>1, <2>2
<1>7. QED
  BY <1>1, <1>2, <1>3, <1>4, <1>5, <1>6, Zenon DEF Next, Reconcile

(* Every step keeps the worker and the cached copy up to date. *)
LEMMA FreshStep ==
    ASSUME Fresh, [Next]_vars
    PROVE  Fresh'
<1>1. event' # "wake" => view'.there = dep'.there /\ view'.template = dep'.template
  <2>1. CASE UNCHANGED <<dep, view, event>>
    BY <2>1 DEF Fresh
  <2>2. CASE (\E new : Store(new)) /\ UNCHANGED view
    <3>1. PICK new : Store(new)
      BY <2>2
    <3>2. QED
      BY <2>2, <3>1, StoreTells DEF Fresh
  <2>3. CASE view' = dep /\ UNCHANGED dep
    BY <2>3
  <2>4. QED
    BY <2>1, <2>2, <2>3, Telling
<1>2. ~queued' => read' = spec'
  <2>1. CASE UserEdit \/ Restart \/ Start
    BY <2>1 DEF UserEdit, Restart, Start
  <2>2. CASE \E n \in SecretNames : UserSecret(n)
    <3>1. PICK n \in SecretNames : UserSecret(n)
      BY <2>2
    <3>2. spec' = spec /\ read' = read
      BY <3>1 DEF UserSecret
    <3>3. queued' = queued \/ queued' = (queued \/ secrets[n].labelled)
      BY <3>1, Zenon DEF UserSecret
    <3>4. queued => queued'
      BY <3>3, Zenon
    <3>5. QED
      BY <3>2, <3>4, Zenon DEF Fresh
  <2>3. CASE UserCloudStorage \/ UserDeployment \/ RollOut \/ Inform \/ UNCHANGED vars
    BY <2>3, Zenon DEF UserCloudStorage, UserDeployment, RollOut, Inform, vars, Fresh
  <2>4. CASE UNCHANGED <<spec, read, view>> /\ (queued' = TRUE \/ UNCHANGED queued)
    BY <2>4 DEF Fresh
  <2>5. QED
    BY <2>1, <2>2, <2>3, <2>4, Passing, Zenon DEF Next, Reconcile
<1>3. QED
  BY <1>1, <1>2 DEF Fresh

(* The entries of a spec are entries of its lists. *)
LEMMA Entries ==
    ASSUME NEW s \in Specs
    PROVE  /\ s.plugins \subseteq Plugins
           /\ \A l \in Range(s.bsls) : l \in Location /\ \E i \in DOMAIN s.bsls : l = s.bsls[i]
           /\ \A v \in Range(s.vsls) : v \in Snapshot /\ \E i \in DOMAIN s.vsls : v = s.vsls[i]
<1>1. s.plugins \subseteq Plugins /\ s.bsls \in Seq(Location) /\ s.vsls \in Seq(Snapshot)
  BY SpecAssumption DEF IsSpec
<1>2. QED
  BY <1>1 DEF Range

(* What ValidateDataProtectionCR says of the entries of a spec. *)
LEMMA ValidIsChecked ==
    ASSUME NEW s \in Specs, ValidSpec(s)
    PROVE  Checked(s)
<1>1. s.noDefault => s.bsls = <<>>
  BY DEF ValidSpec
<1>2. ASSUME NEW l \in Range(s.bsls), l.kind = "velero"
      PROVE  l.provider \in Providers
  <2>1. PICK i \in DOMAIN s.bsls : l = s.bsls[i]
    BY Entries
  <2>2. ValidateProvider(s, l)
    BY <1>2, <2>1 DEF ValidSpec, ValidateBackupStorageLocations
  <2>3. QED
    BY <2>2 DEF ValidateProvider
<1>3. ASSUME NEW v \in Range(s.vsls)
      PROVE  v.provider \in Providers /\ containsPlugin(s, v.provider)
  <2>1. PICK i \in DOMAIN s.vsls : v = s.vsls[i]
    BY Entries
  <2>2. QED
    BY <2>1 DEF ValidSpec, ValidateVolumeSnapshotLocations
<1>4. QED
  BY <1>1, <1>2, <1>3 DEF Checked

(* Unless the no-secret flag is set, ensureSecretDataExists has found the  *)
(* secret of every location.                                               *)
LEMMA SecretsFound ==
    ASSUME NEW s \in Specs, ValidSpec(s), ~s.noSecret, NEW l \in Range(s.bsls)
    PROVE  There(SecretOf(l))
<1>1. PICK i \in DOMAIN s.bsls : l = s.bsls[i]
  BY Entries
<1>2. ensureSecretDataExists(s, l)
  BY <1>1 DEF ValidSpec, ValidateBackupStorageLocations
<1>3. IF l.cred = "file" THEN There(SecretOf(l)) ELSE HasData(SecretOf(l))
  BY <1>2, Zenon DEF ensureSecretDataExists
<1>4. QED
  BY <1>3 DEF HasData

(* The plugin of a provider that a mounted secret belongs to. *)
LEMMA PluginProvider ==
    ASSUME NEW p \in Plugins, ProviderName[p] # ""
    PROVE  /\ ProviderName[p] \in Providers /\ PluginSecret(p) = DefaultSecret[ProviderName[p]]
           /\ p # "legacy-aws" => ProviderName[p] = p
BY DEF Plugins, ProviderName, Providers, PluginSecret

(* The secret that no name stands for is not there. *)
LEMMA NoName == ~There("")
BY DEF There, SecretNames, DefaultSecret, Providers

(* Validation finds every secret that the Velero pod will mount, but for   *)
(* the reasons of Unchecked: the default secrets of the locations and      *)
(* snapshot locations without a credential when their data is read, those  *)
(* of the ones with a credentialsFile by way of the plugins.               *)
LEMMA ValidIsFound ==
    ASSUME NEW s \in Specs, ValidSpec(s), ~Unchecked(s)
    PROVE  /\ \A l \in Range(s.bsls) : l.kind = "cloud" => l.cred # "none"
           /\ \A m \in Mounts(s) : There(m)
<1>1. ~s.noSecret /\ ~s.noDefault
  BY DEF Unchecked
<1>2. ASSUME NEW l \in Range(s.bsls), l.kind = "cloud", l.cred = "none"
      PROVE  FALSE
  <2>1. SecretOf(l) = ""
    BY <1>2 DEF SecretOf
  <2>2. QED
    BY <1>1, <2>1, SecretsFound, NoName
<1>3. ASSUME NEW m \in Mounts(s)
      PROVE  There(m)
  <2>1. PICK p \in s.plugins : /\ m = PluginSecret(p) /\ ProviderName[p] # ""
                               /\ ProviderName[p] \in noDefaultCredentials(s)
    BY DEF Mounts
  <2> DEFINE provider == ProviderName[p]
  <2>2. provider \in Providers /\ m = DefaultSecret[provider] /\ (p # "legacy-aws" => provider = p)
    BY <2>1, Entries, PluginProvider
  <2>3. ASSUME NEW l \in {k \in Range(s.bsls) : k.kind = "velero"} \cup Range(s.vsls),
               l.cred = "file", l.provider = provider
        PROVE  There(m)
    <3>1. p # "legacy-aws"
      BY <2>3, SMTT(30) DEF Unchecked
    <3>2. There(IF l.cred = "own" THEN "own" ELSE DefaultSecret[p])
      BY <1>1, <2>1, <2>2, <2>3, <3>1 DEF ValidSpec, ValidateVeleroPlugins
    <3>3. QED
      BY <2>2, <2>3, <3>1, <3>2
  <2>4. ASSUME NEW l \in Range(s.bsls), l.kind = "velero", l.cred = "none", l.provider = provider
        PROVE  There(m)
    <3>1. SecretOf(l) \in {"", DefaultSecret[provider]}
      BY <2>4 DEF SecretOf
    <3>2. QED
      BY <1>1, <2>2, <3>1, SecretsFound, NoName
  <2>5. ASSUME NEW v \in Range(s.vsls), v.cred = "none", v.provider = provider
        PROVE  There(m)
    <3>1. PICK i \in DOMAIN s.vsls : v = s.vsls[i]
      BY Entries, SMTT(30)
    <3>2. HasData(SnapshotSecret(v))
      BY <1>1, <2>5, <3>1, SMTT(30) DEF ValidSpec, ValidateVolumeSnapshotLocations
    <3>3. QED
      BY <2>2, <2>5, <3>2 DEF HasData, SnapshotSecret
  <2>6. \/ \E l \in Range(s.bsls) : l.kind = "velero" /\ l.cred \in {"none", "file"} /\ l.provider = provider
        \/ \E l \in Range(s.bsls) : l.kind = "cloud" /\ l.cred = "none"
        \/ \E v \in Range(s.vsls) : v.cred \in {"none", "file"} /\ v.provider = provider
    BY <1>1, <2>1 DEF noDefaultCredentials
  <2>7. QED
    BY <1>2, <2>3, <2>4, <2>5, <2>6
<1>4. QED
  BY <1>2, <1>3

(* What the spec mounts depends on the CloudStorage only if a location     *)
(* takes its credential from it.                                           *)
LEMMA MountsStay ==
    ASSUME UNCHANGED read, \A l \in Range(read.bsls) : l.kind = "cloud" => l.cred # "none"
    PROVE  Mounts(read)' = Mounts(read)
<1>1. noDefaultCredentials(read)' = noDefaultCredentials(read)
  BY ZenonT(30) DEF noDefaultCredentials
<1>2. QED
  BY <1>1 DEF Mounts, PluginSecret

(* A pass is beyond validation only by validating, and from then on works  *)
(* on what it has validated.                                               *)
LEMMA BeyondValidation ==
    ASSUME [Next]_vars, Validated'
    PROVE  \/ ValidateDataProtectionCR /\ ValidSpec(read) /\ seen' = {n \in SecretNames : secrets[n].there}
           \/ Validated /\ UNCHANGED <<read, seen>>
<1> USE KindsAre
<1>1. CASE UserEdit \/ UserCloudStorage \/ UserDeployment \/ RollOut \/ Inform \/ UNCHANGED vars
  BY <1>1 DEF UserEdit, UserCloudStorage, UserDeployment, RollOut, Inform, vars, Validated
<1>2. CASE \E n \in SecretNames : UserSecret(n)
  BY <1>2 DEF UserSecret, Validated
<1>3. CASE Restart \/ CallFails \/ Start
  BY <1>3 DEF Restart, CallFails, Fault, Fail, Start, Validated
<1>4. CASE ValidateDataProtectionCR
  BY <1>4 DEF ValidateDataProtectionCR, Fail, Validated
<1>5. CASE ReconcileBackupStorageLocations \/ LabelVSLSecrets \/ ReconcileVeleroDeployment
  BY <1>5 DEF ReconcileBackupStorageLocations, LabelVSLSecrets, ReconcileVeleroDeployment, Validated
<1>6. CASE \E kind \in Kinds : Sweep(kind)
  BY <1>6 DEF Sweep, Validated
<1>7. QED
  BY <1>1, <1>2, <1>3, <1>4, <1>5, <1>6, Zenon DEF Next, Reconcile

(* Whatever users do to the secrets and the CloudStorage during a pass, it *)
(* goes on with a spec that was valid and, but for the reasons of          *)
(* Unchecked, with mounts that were found.                                 *)
LEMMA PassStep ==
    ASSUME TypeOK, [Next]_vars, Validated',
           Validated => Checked(read) /\ (Unchecked(read) \/ Found(read))
    PROVE  Checked(read)' /\ (Unchecked(read)' \/ Found(read)')
<1>1. UNCHANGED read
  BY BeyondValidation DEF ValidateDataProtectionCR
<1>2. Checked(read)' <=> Checked(read)
  BY <1>1 DEF Checked, containsPlugin
<1>3. Unchecked(read)' <=> Unchecked(read)
  BY <1>1 DEF Unchecked
<1>4. CASE ValidateDataProtectionCR /\ ValidSpec(read) /\ seen' = {n \in SecretNames : secrets[n].there}
  <2>1. read \in Specs
    BY DEF TypeOK
  <2>2. Checked(read)
    BY <1>4, <2>1, ValidIsChecked
  <2>3. ASSUME ~Unchecked(read)
        PROVE  Found(read)'
    <3>1. /\ \A l \in Range(read.bsls) : l.kind = "cloud" => l.cred # "none"
          /\ \A m \in Mounts(read) : There(m)
      BY <1>4, <2>1, <2>3, ValidIsFound
    <3>2. Mounts(read) \subseteq seen'
      BY <1>4, <3>1 DEF There
    <3>3. QED
      BY <1>1, <3>1, <3>2, MountsStay DEF Found
  <2>4. QED
    BY <1>2, <1>3, <2>2, <2>3
<1>5. CASE Validated /\ UNCHANGED <<read, seen>>
  <2>1. Found(read) => Found(read)'
    BY <1>5, MountsStay DEF Found
  <2>2. QED
    BY <1>2, <1>3, <1>5, <2>1
<1>6. QED
  BY <1>4, <1>5, BeyondValidation

(* appendPluginSpecificSpecs mounts what the locations of a valid spec     *)
(* need by default.                                                        *)
LEMMA MountsFit ==
    ASSUME NEW s \in Specs, Checked(s)
    PROVE  Fits(s, Mounts(s))
<1>1. ASSUME NEW provider \in Providers \cap noDefaultCredentials(s),
             containsPlugin(s, provider), ~s.noDefault
      PROVE  DefaultSecret[provider] \in Mounts(s)
  <2>1. PICK p \in s.plugins : ProviderName[p] = provider
    BY <1>1 DEF containsPlugin
  <2>2. ProviderName[p] # "" /\ PluginSecret(p) = DefaultSecret[provider]
    BY <2>1 DEF Providers, PluginSecret
  <2>3. QED
    BY <1>1, <2>1, <2>2 DEF Mounts
<1>2. ASSUME NEW l \in Range(s.bsls), l.kind = "velero", l.cred = "none", containsPlugin(s, l.provider)
      PROVE  DefaultSecret[l.provider] \in Mounts(s)
  <2>1. ~s.noDefault
    <3>1. PICK i \in DOMAIN s.bsls : l = s.bsls[i]
      BY Entries
    <3>2. QED
      BY <3>1 DEF Checked
  <2>2. l.provider \in Providers
    BY <1>2 DEF Checked
  <2>3. l.provider \in noDefaultCredentials(s)
    BY <1>2, <2>1 DEF noDefaultCredentials
  <2>4. QED
    BY <1>1, <1>2, <2>1, <2>2, <2>3
<1>3. ASSUME NEW v \in Range(s.vsls), v.cred = "none", ~s.noDefault,
             ~ (v.provider = "aws" /\ \E l \in Range(s.bsls) : l.kind = "cloud" /\ l.cred # "none")
      PROVE  DefaultSecret[v.provider] \in Mounts(s)
  <2>1. v.provider \in Providers /\ containsPlugin(s, v.provider)
    BY SMTT(30) DEF Checked
  <2>2. v.provider \in noDefaultCredentials(s)
    BY <1>3 DEF noDefaultCredentials
  <2>3. QED
    BY <1>1, <1>3, <2>1, <2>2
<1>4. QED
  BY <1>2, <1>3 DEF Fits

(* The worker rests, and no event is about to wake it. *)
Dormant == pc = "idle" /\ ~queued /\ event # "wake"

(* Unless ReconcileVeleroDeployment has just ended, a worker that rests    *)
(* with nothing to wake it has rested before, and the Deployment's spec    *)
(* has not changed under it.                                               *)
LEMMA StillDormant ==
    ASSUME [Next]_vars, Dormant', ~ReconcileVeleroDeployment
    PROVE  Dormant /\ UNCHANGED <<spec, read, bsls, legacy>>
           /\ dep'.there = dep.there /\ dep'.template = dep.template
<1>1. ~ (UserEdit \/ Restart \/ Start \/ CallFails \/ ValidateDataProtectionCR)
  BY SMTT(30) DEF Dormant, UserEdit, Restart, Start, CallFails, ValidateDataProtectionCR,
                  Fault, Fail, Continue
<1>2. ~ (ReconcileBackupStorageLocations \/ LabelVSLSecrets \/ \E kind \in Kinds : Sweep(kind))
  BY KindsAre, Zenon DEF Dormant, ReconcileBackupStorageLocations, LabelVSLSecrets, Sweep,
                         Fault, Fail, Continue
<1>3. CASE \E n \in SecretNames : UserSecret(n)
  <2>1. PICK n \in SecretNames : UserSecret(n)
    BY <1>3
  <2>2. queued' = queued \/ queued' = (queued \/ secrets[n].labelled)
    BY <2>1, Zenon DEF UserSecret
  <2>3. queued => queued'
    BY <2>2, Zenon
  <2>4. UNCHANGED <<spec, read, bsls, legacy, dep, event, pc>>
    BY <2>1 DEF UserSecret
  <2>5. QED
    BY <2>3, <2>4 DEF Dormant
<1>4. CASE UserCloudStorage \/ UNCHANGED vars
  BY <1>4 DEF UserCloudStorage, vars, Dormant
<1>5. CASE UserDeployment \/ RollOut
  <2>1. PICK new : Store(new)
    BY <1>5, Zenon DEF UserDeployment, RollOut
  <2>2. UNCHANGED <<spec, read, bsls, legacy, pc, queued>>
    BY <1>5 DEF UserDeployment, RollOut
  <2>3. QED
    BY <2>1, <2>2, StoreTells DEF Dormant
<1>6. CASE Inform
  <2>1. queued' = (queued \/ event = "wake")
    BY <1>6 DEF Inform
  <2>2. ~queued' => ~queued /\ event # "wake"
    BY <2>1, Zenon
  <2>3. UNCHANGED <<spec, read, bsls, legacy, dep, pc>>
    BY <1>6 DEF Inform
  <2>4. QED
    BY <2>2, <2>3 DEF Dormant
<1>7. QED
  BY <1>1, <1>2, <1>3, <1>4, <1>5, <1>6, ZenonT(30) DEF Next, Reconcile

(* When ReconcileVeleroDeployment leaves the worker resting with nothing   *)
(* to wake it, it has found the Deployment as it would write it.           *)
LEMMA NothingToDo ==
    ASSUME TypeOK, Fresh, Dormant', ReconcileVeleroDeployment
    PROVE  UNCHANGED <<spec, read, bsls, legacy, dep>> /\ read = spec /\ dep.template.mounts = Mounts(read)
<1>1. Continue("idle")
  BY DEF Dormant, ReconcileVeleroDeployment, Fail, Continue
<1>2. read = spec
  BY <1>1 DEF Continue, Dormant, Fresh
<1>3. UNCHANGED <<spec, read, bsls, legacy>>
  BY DEF ReconcileVeleroDeployment
<1>4. CASE Store([NoDeployment EXCEPT !.there = TRUE, !.template = buildVeleroDeployment]) /\ ~dep.there
  <2>1. [NoDeployment EXCEPT !.there = TRUE, !.template = buildVeleroDeployment].there = dep.there
    BY <1>4, StoreTells, Zenon DEF Dormant
  <2>2. [NoDeployment EXCEPT !.there = TRUE, !.template = buildVeleroDeployment].there = TRUE
    BY DEF NoDeployment
  <2>3. QED
    BY <1>4, <2>1, <2>2, Zenon
<1>5. CASE buildVeleroDeployment = view.template /\ UNCHANGED <<dep, event>>
  <2>1. dep.template = view.template
    BY <1>5 DEF Dormant, Fresh
  <2>2. QED
    BY <1>2, <1>3, <1>5, <2>1, Built
<1>6. CASE /\ buildVeleroDeployment # view.template
           /\ Store([dep EXCEPT !.template = Patched(buildVeleroDeployment)])
  <2>1. /\ event # "wake"
        /\ [dep EXCEPT !.template = Patched(buildVeleroDeployment)].template = dep.template
    BY <1>6, StoreTells, Zenon DEF Dormant
  <2>2. dep \in Deployments
    BY DEF TypeOK
  <2>3. Patched(buildVeleroDeployment) = dep.template
    BY <2>1, <2>2 DEF Deployments
  <2>4. view.template = dep.template
    BY <2>1, SMTT(30) DEF Fresh
  <2>5. QED
    BY <1>6, <2>3, <2>4, PatchedType
<1>7. QED
  BY <1>1, <1>4, <1>5, <1>6, Zenon DEF ReconcileVeleroDeployment, Dormant, Fail, Continue

(* Every step keeps the mounts of the Deployment that a resting worker     *)
(* leaves alone.                                                           *)
LEMMA RestingStep ==
    ASSUME TypeOK, Fresh, Validated => Checked(read), Resting, [Next]_vars
    PROVE  Resting'
<1> SUFFICES ASSUME Dormant', dep'.there
             PROVE  Fits(spec, dep.template.mounts)'
  BY DEF Resting, Dormant
<1> USE DEF Fits, containsPlugin
<1>1. CASE ReconcileVeleroDeployment
  <2>1. UNCHANGED <<spec, dep>> /\ read = spec /\ dep.template.mounts = Mounts(read)
    BY <1>1, NothingToDo
  <2>2. Checked(read) /\ read \in Specs
    BY <1>1 DEF ReconcileVeleroDeployment, Validated, TypeOK
  <2>3. Fits(read, Mounts(read))
    BY <2>2, MountsFit, Zenon
  <2>4. Fits(spec, dep.template.mounts)
    BY <2>1, <2>3, ZenonT(30)
  <2>5. QED
    BY <2>1, <2>4
<1>2. CASE ~ReconcileVeleroDeployment
  <2>1. Dormant /\ UNCHANGED spec /\ dep'.there = dep.there /\ dep'.template = dep.template
    BY <1>2, StillDormant, Zenon
  <2>2. Fits(spec, dep.template.mounts)
    BY <2>1, Zenon DEF Resting, Dormant
  <2>3. QED
    BY <2>1, <2>2
<1>3. QED
  BY <1>1, <1>2

(* The kinds that the steps of a pass have behind them. *)
LEMMA BehindIs ==
    /\ Behind \subseteq Kinds
    /\ pc \in {"validate", "locations", "registries"} \/ (pc = "idle" /\ queued) => Behind = {}
    /\ pc = "services" => Behind = {"registries"}
    /\ pc = "routes" => Behind = {"registries", "services"}
    /\ pc = "config" => Behind = {"registries", "services", "routes"}
    /\ pc \in {"snapshots", "velero"} => Behind = Kinds
    /\ pc = "idle" /\ ~queued => Behind = Kinds
BY KindsAre DEF Behind

(* The same after a step. *)
LEMMA BehindIsNext ==
    /\ Behind' \subseteq Kinds
    /\ pc' \in {"validate", "locations", "registries"} \/ (pc' = "idle" /\ queued') => Behind' = {}
    /\ pc' = "services" => Behind' = {"registries"}
    /\ pc' = "routes" => Behind' = {"registries", "services"}
    /\ pc' = "config" => Behind' = {"registries", "services", "routes"}
BY KindsAre DEF Behind

(* None of the registries' objects of a kind is left. *)
Gone(kind) == \A i \in Indices \cup {0} : <<kind, i>> \notin legacy

(* Until somebody intervenes or a call fails, only the loops over the      *)
(* registries remove their objects or put a kind behind the worker, and    *)
(* the worker works on the spec as it is.                                  *)
LEMMA Undisturbed ==
    ASSUME TypeOK, [Next]_vars, calm', ~ \E kind \in Kinds : Sweep(kind)
    PROVE  calm /\ UNCHANGED <<legacy, spec>> /\ read' \in {read, spec} /\ Behind' \subseteq Behind
           /\ (UNCHANGED bsls \/ ReconcileBackupStorageLocations)
<1> USE BehindIs, BehindIsNext
<1>1. CASE RollOut \/ UNCHANGED vars
  BY <1>1, ZenonT(30) DEF RollOut, vars, Behind
<1>2. CASE Inform
  <2>1. calm /\ UNCHANGED <<legacy, read, spec, bsls, pc>> /\ queued' = (queued \/ event = "wake")
    BY <1>2 DEF Inform
  <2>2. queued => queued'
    BY <2>1, Zenon
  <2>3. Behind' \subseteq Behind
    BY <2>1, <2>2 DEF Behind
  <2>4. QED
    BY <2>1, <2>3
<1>3. CASE Start
  BY <1>3 DEF Start
<1>4. CASE ValidateDataProtectionCR
  BY <1>4 DEF ValidateDataProtectionCR, Fail, Continue
<1>5. CASE ReconcileBackupStorageLocations
  BY <1>5, ZenonT(30) DEF ReconcileBackupStorageLocations, Fault, Fail, Continue
<1>6. CASE LabelVSLSecrets
  BY <1>6 DEF LabelVSLSecrets
<1>7. CASE ReconcileVeleroDeployment
  BY <1>7 DEF ReconcileVeleroDeployment
<1>8. ~ (UserEdit \/ UserCloudStorage \/ UserDeployment \/ Restart \/ CallFails)
  BY DEF UserEdit, UserCloudStorage, UserDeployment, Restart, CallFails, Fault
<1>9. ~ \E n \in SecretNames : UserSecret(n)
  BY DEF UserSecret
<1>10. QED
  BY <1>1, <1>2, <1>3, <1>4, <1>5, <1>6, <1>7, <1>8, <1>9, Zenon DEF Next, Reconcile

(* Once the labels are those of the spec's entries, making and pruning the *)
(* locations changes none of them.                                         *)
LEMMA LabelsStay ==
    ASSUME TypeOK, ReconcileBackupStorageLocations,
           \A i \in Indices : bsls[i].labelled <=> i <= Len(read.bsls) /\ read.bsls[i].kind = "velero"
    PROVE  \A i \in Indices : bsls'[i].labelled <=> bsls[i].labelled
<1>1. Len(read.bsls) \in Nat
  BY SpecAssumption DEF TypeOK, IsSpec
<1>2. PICK k \in 0 .. Len(read.bsls) : bsls' = Made(k) \/ bsls' = Pruned(Made(k))
  BY Zenon DEF ReconcileBackupStorageLocations
<1>3. Made(k) \in [Indices -> BSLs]
  BY MadeType, Zenon
<1>4. ASSUME NEW i \in Indices PROVE Made(k)[i].labelled <=> bsls[i].labelled
  <2>1. Made(k)[i].labelled <=> \/ bsls[i].labelled
                                \/ i <= k /\ read.bsls[i].kind = "velero"
    BY MadeType, Zenon
  <2>2. i <= k => i <= Len(read.bsls)
    BY <1>1 DEF Indices
  <2>3. QED
    BY <2>1, <2>2, Zenon
<1>5. ASSUME NEW i \in Indices PROVE Pruned(Made(k))[i] = Made(k)[i]
  <2>1. ~ (i > Len(read.bsls) /\ Made(k)[i].labelled)
    <3>1. bsls[i].labelled => i <= Len(read.bsls)
      OBVIOUS
    <3>2. i <= Len(read.bsls) => ~ (i > Len(read.bsls))
      BY <1>1 DEF Indices
    <3>3. QED
      BY <1>4, <3>1, <3>2, Zenon
  <2>2. QED
    BY <2>1, Zenon DEF Pruned
<1>6. QED
  BY <1>2, <1>4, <1>5, Zenon

(* A loop over the registries that ends without an error has removed all   *)
(* objects of its kind: either the first one asked for is missing, and     *)
(* then all are, or none is.                                               *)
LEMMA SweptAll ==
    ASSUME TypeOK, NEW kind \in Kinds, Sweep(kind), calm', legacy = {} \/ Whole(kind)
    PROVE  /\ calm /\ UNCHANGED <<spec, read, bsls>>
           /\ legacy' \subseteq legacy
           /\ Gone(kind)'
           /\ \A k \in Kinds \ {kind} : \A i : <<k, i>> \in legacy' <=> <<k, i>> \in legacy
           /\ Behind' \subseteq Behind \cup {kind}
<1> DEFINE present == {i \in Listed(kind) : <<kind, i>> \in legacy}
<1>1. PICK gone \in SUBSET present :
        /\ legacy' = legacy \ ({kind} \X gone)
        /\ gone = present \/ present # Listed(kind)
        /\ Continue(StepAfter[kind]) /\ UNCHANGED <<calm, budget>>
  BY Zenon DEF Sweep, Fault
<1>2. calm /\ UNCHANGED <<spec, read, bsls>> /\ pc = kind
  BY <1>1 DEF Sweep
<1>3. /\ legacy' \subseteq legacy
      /\ \A k \in Kinds \ {kind} : \A i : <<k, i>> \in legacy' <=> <<k, i>> \in legacy
  BY <1>1
<1>4. Gone(kind)'
  <2>1. CASE \A i \in Indices \cup {0} : <<kind, i>> \notin legacy
    BY <1>3, <2>1 DEF Gone
  <2>2. CASE \A i \in Indices \cup {0} : <<kind, i>> \in legacy <=> i \in Listed(kind)
    <3>1. Listed(kind) \subseteq Indices \cup {0}
      BY DEF Listed
    <3>2. present = Listed(kind)
      BY <2>2, <3>1
    <3>3. gone = Listed(kind)
      BY <1>1, <3>2, ZenonT(30)
    <3>4. QED
      BY <1>1, <2>2, <3>3 DEF Gone
  <2>3. QED
    BY <2>1, <2>2 DEF Whole
<1>5. Behind' \subseteq Behind \cup {kind}
  <2>1. kind \in {"registries", "services", "routes", "config"} /\ pc' = StepAfter[kind]
    BY <1>1, KindsAre DEF Continue
  <2>2. CASE kind = "config"
    BY <1>2, <2>2, KindsAre, BehindIs, BehindIsNext
  <2>3. CASE kind = "registries"
    BY <1>2, <2>1, <2>3, KindsAre, BehindIs, BehindIsNext
  <2>4. CASE kind = "services"
    BY <1>2, <2>1, <2>4, KindsAre, BehindIs, BehindIsNext, SMTT(30)
  <2>5. CASE kind = "routes"
    BY <1>2, <2>1, <2>5, KindsAre, BehindIs, BehindIsNext
  <2>6. QED
    BY <2>1, <2>2, <2>3, <2>4, <2>5
<1>6. QED
  BY <1>2, <1>3, <1>4, <1>5, SMTT(30)

(* Every step keeps what is left of the registries in order. *)
LEMMA SweepingStep ==
    ASSUME TypeOK, Sweeping, [Next]_vars
    PROVE  Sweeping'
<1> DEFINE Labels == \A i \in Indices :
                       bsls[i].labelled <=> i <= Len(spec.bsls) /\ spec.bsls[i].kind = "velero"
<1> SUFFICES ASSUME calm'
             PROVE  /\ read' = spec'
                    /\ legacy' = {} \/ ((\A kind \in Kinds : Whole(kind)') /\ Labels')
                    /\ \A kind \in Behind' : Gone(kind)'
  BY SMTT(30) DEF Sweeping, Gone
<1>1. calm => /\ read = spec
              /\ legacy = {} \/ ((\A kind \in Kinds : Whole(kind)) /\ Labels)
              /\ \A kind \in Behind : Gone(kind)
  BY DEF Sweeping, Gone
<1> HIDE DEF Labels
<1>2. CASE \E kind \in Kinds : Sweep(kind)
  <2>1. PICK kind \in Kinds : Sweep(kind)
    BY <1>2
  <2>2. calm
    BY <2>1, Zenon DEF Sweep, Fault
  <2>3. legacy = {} \/ Whole(kind)
    BY <1>1, <2>2
  <2>4. /\ UNCHANGED <<spec, read, bsls>> /\ legacy' \subseteq legacy /\ Gone(kind)'
        /\ \A k \in Kinds \ {kind} : \A i : <<k, i>> \in legacy' <=> <<k, i>> \in legacy
        /\ Behind' \subseteq Behind \cup {kind}
    BY <2>1, <2>3, SweptAll, Zenon
  <2>5. Labels => Labels'
    BY <2>4 DEF Labels
  <2>6. ASSUME NEW k \in Kinds, Whole(k) PROVE Whole(k)'
    <3>1. CASE k = kind
      BY <2>4, <3>1 DEF Whole, Gone
    <3>2. CASE k # kind
      BY <2>4, <2>6, <3>2 DEF Whole, Listed
    <3>3. QED
      BY <3>1, <3>2
  <2>7. ASSUME NEW k \in Behind' PROVE Gone(k)'
    BY <1>1, <2>2, <2>4 DEF Gone
  <2>8. legacy = {} => legacy' = {}
    BY <2>4
  <2>9. QED
    BY <1>1, <2>2, <2>4, <2>5, <2>6, <2>7, <2>8
<1>3. CASE ~ \E kind \in Kinds : Sweep(kind)
  <2>1. /\ calm /\ UNCHANGED <<legacy, spec>> /\ read' \in {read, spec} /\ Behind' \subseteq Behind
        /\ UNCHANGED bsls \/ ReconcileBackupStorageLocations
    BY <1>3, Undisturbed
  <2>2. read' = spec'
    BY <1>1, <2>1
  <2>3. ASSUME Labels PROVE \A i \in Indices : bsls'[i].labelled <=> bsls[i].labelled
    <3>1. CASE UNCHANGED bsls
      BY <3>1
    <3>2. CASE ReconcileBackupStorageLocations
      <4>1. \A i \in Indices : bsls[i].labelled <=> i <= Len(read.bsls) /\ read.bsls[i].kind = "velero"
        BY <1>1, <2>1, <2>3, Zenon DEF Labels
      <4>2. QED
        BY <3>2, <4>1, LabelsStay, Zenon
    <3>3. QED
      BY <2>1, <3>1, <3>2
  <2>4. Labels => Labels'
    BY <2>1, <2>3 DEF Labels
  <2>5. ASSUME NEW k \in Kinds, Whole(k), Labels PROVE Whole(k)'
    <3>1. Listed(k)' = Listed(k)
      BY <2>3, <2>5 DEF Listed
    <3>2. QED
      BY <2>1, <2>5, <3>1 DEF Whole
  <2>6. ASSUME NEW k \in Behind' PROVE Gone(k)'
    BY <1>1, <2>1 DEF Gone
  <2>7. QED
    BY <1>1, <2>1, <2>2, <2>4, <2>5, <2>6
<1>4. QED
  BY <1>2, <1>3, SMTT(30)

(* Initially the invariant holds: whether the installation is fresh or     *)
(* upgraded, the worker has the DPA to work on.                            *)
LEMMA Initially ==
    ASSUME Init
    PROVE  IInv
<1>1. PICK start \in Starts : /\ spec = start.spec /\ secrets = start.secrets
                              /\ cloud = start.cloud /\ budget = start.events
  BY DEF Init
<1>2. /\ read = spec /\ dep = NoDeployment /\ view = dep /\ event = "none" /\ queued = TRUE /\ pc = "idle"
      /\ seen = {} /\ valid = FALSE /\ calm = TRUE
  BY DEF Init
<1>3. spec \in Specs /\ spec.bsls \in Seq(Location) /\ Len(spec.bsls) \in Nat
  BY <1>1, StartAssumption, SpecAssumption, SMTT(30) DEF IsSpec
<1>4. bsls \in [Indices -> BSLs] /\ legacy \subseteq Kinds \X (Indices \cup {0})
  <2>1. CASE bsls = [i \in Indices |-> NoBSL] /\ legacy = {}
    BY <2>1, NoBSLType
  <2>2. CASE /\ bsls = [i \in Indices |-> IF i <= Len(spec.bsls) THEN BSLOf(spec.bsls[i]) ELSE NoBSL]
             /\ legacy = {"registries", "services", "routes"} \X {i \in Indices : bsls[i].labelled}
                            \cup {<<"config", 0>>}
    <3>1. ASSUME NEW i \in Indices, i <= Len(spec.bsls) PROVE BSLOf(spec.bsls[i]) \in BSLs
      <4>1. i \in DOMAIN spec.bsls
        BY <1>3, <3>1, SMTT(30) DEF Indices
      <4>2. QED
        BY <1>3, <4>1, BSLOfType, Zenon
    <3>2. bsls \in [Indices -> BSLs]
      BY <2>2, <3>1, NoBSLType
    <3>3. legacy \subseteq Kinds \X (Indices \cup {0})
      BY <2>2, KindsAre, SMTT(30)
    <3>4. QED
      BY <3>2, <3>3
  <2>3. QED
    BY <2>1, <2>2 DEF Init
<1>5. TypeOK
  <2>1. /\ DOMAIN secrets = SecretNames /\ \A n \in SecretNames : IsSecret(secrets[n])
        /\ cloud \in Providers \cup {"none"} /\ budget \in 0 .. MaxEvents
    BY <1>1, StartAssumption
  <2>2. QED
    BY <1>2, <1>3, <1>4, <2>1, NoDeploymentType, Zenon DEF TypeOK, BSLs
<1>6. Fresh /\ ~Validated /\ Resting
  BY <1>2, KindsAre DEF Fresh, Validated, Resting
<1>7. Sweeping
  <2>1. Behind = {}
    BY <1>2, BehindIs
  <2>2. CASE legacy = {}
    BY <1>2, <2>1, <2>2 DEF Sweeping
  <2>3. CASE /\ bsls = [i \in Indices |-> IF i <= Len(spec.bsls) THEN BSLOf(spec.bsls[i]) ELSE NoBSL]
             /\ legacy = {"registries", "services", "routes"} \X {i \in Indices : bsls[i].labelled}
                            \cup {<<"config", 0>>}
    <3>1. ASSUME NEW i \in Indices
          PROVE  bsls[i].labelled <=> i <= Len(spec.bsls) /\ spec.bsls[i].kind = "velero"
      <4>1. CASE i <= Len(spec.bsls)
        <5>1. bsls[i] = BSLOf(spec.bsls[i])
          BY <2>3, <4>1, SMTT(30)
        <5>2. bsls[i].labelled = (spec.bsls[i].kind = "velero")
          BY <5>1 DEF BSLOf
        <5>3. QED
          BY <4>1, <5>2, Zenon
      <4>2. CASE ~ (i <= Len(spec.bsls))
        <5>1. bsls[i] = NoBSL
          BY <2>3, <4>2
        <5>2. QED
          BY <4>2, <5>1 DEF NoBSL
      <4>3. QED
        BY <4>1, <4>2
    <3>2. ASSUME NEW kind \in {"registries", "services", "routes"}, NEW i \in Indices \cup {0}
          PROVE  <<kind, i>> \in legacy <=> i \in Indices /\ bsls[i].labelled
      BY <2>3
    <3>3. ASSUME NEW i \in Indices \cup {0}
          PROVE  <<"config", i>> \in legacy <=> i = 0
      BY <2>3
    <3>4. ASSUME NEW kind \in Kinds PROVE Whole(kind)
      BY <3>2, <3>3, KindsAre DEF Whole, Listed
    <3>5. QED
      BY <1>2, <2>1, <3>1, <3>4 DEF Sweeping
  <2>4. QED
    BY <2>2, <2>3 DEF Init
<1>8. QED
  BY <1>5, <1>6, <1>7, SMTT(30) DEF IInv

(* The invariant holds in every state. *)
THEOREM Invariance == Spec => []IInv
<1>1. Init => IInv
  BY Initially
<1>2. IInv /\ [Next]_vars => IInv'
  <2> SUFFICES ASSUME IInv, [Next]_vars
               PROVE  IInv'
    OBVIOUS
  <2>1. /\ TypeOK /\ Fresh /\ Resting /\ Sweeping
        /\ Validated => Checked(read) /\ (Unchecked(read) \/ Found(read))
    BY DEF IInv
  <2>2. TypeOK'
    BY <2>1, TypeStep
  <2>3. Fresh'
    BY <2>1, FreshStep
  <2>4. Validated' => Checked(read)' /\ (Unchecked(read)' \/ Found(read)')
    BY <2>1, PassStep
  <2>5. Resting'
    BY <2>1, RestingStep
  <2>6. Sweeping'
    BY <2>1, SweepingStep
  <2>7. QED
    BY <2>2, <2>3, <2>4, <2>5, <2>6 DEF IInv
<1>3. QED
  BY <1>1, <1>2, PTL DEF Spec

(* The values of all variables are those the API server and the operator   *)
(* can hold.                                                               *)
THEOREM TypeCorrect == Spec => []TypeOK
<1>1. IInv => TypeOK
  BY DEF IInv
<1>2. QED
  BY <1>1, Invariance, PTL

(* However edits, deletions, restarts and stale copies interleave with the *)
(* passes, ReconcileVeleroDeployment never leaves a Deployment without the *)
(* default secret of a location that has no credential of its own.         *)
THEOREM DefaultsAreMounted == Spec => []DefaultsMounted
<1>1. IInv => DefaultsMounted
  BY DEF IInv, Resting, DefaultsMounted, AtRest
<1>2. QED
  BY <1>1, Invariance, PTL

(* After an upgrade that nobody disturbs, the loops of ReconcileRegistries *)
(* and its siblings leave nothing of the registries, although each ends at *)
(* the first missing object.                                               *)
THEOREM LegacyIsSwept == Spec => []LegacySwept
<1>1. IInv => LegacySwept
  <2> SUFFICES ASSUME IInv, AtRest, calm
               PROVE  legacy = {}
    BY DEF LegacySwept
  <2>1. Behind = Kinds
    BY BehindIs, SMTT(30) DEF AtRest
  <2>2. legacy \subseteq Kinds \X (Indices \cup {0})
    BY SMTT(30) DEF IInv, TypeOK
  <2>3. \A kind \in Kinds : \A i \in Indices \cup {0} : <<kind, i>> \notin legacy
    BY <2>1 DEF IInv, Sweeping
  <2>4. QED
    BY <2>2, <2>3
<1>2. QED
  BY <1>1, Invariance, PTL

(* ReconcileVeleroDeployment writes no template that mounts a secret which *)
(* ValidateDataProtectionCR of the same pass did not find, but for the     *)
(* reasons of Unchecked, whatever users do to the secrets in between.      *)
THEOREM MountsAreChecked == Spec => MountsChecked
<1> DEFINE Act == dep' # dep /\ dep'.there /\ dep'.template.mounts # dep.template.mounts =>
                    Unchecked(read) \/ dep'.template.mounts \subseteq seen
<1>1. IInv /\ [Next]_vars => [Act]_vars
  <2> SUFFICES ASSUME IInv, [Next]_vars, dep' # dep, dep'.there,
                      dep'.template.mounts # dep.template.mounts, ~Unchecked(read)
               PROVE  dep'.template.mounts \subseteq seen
    BY SMTT(30)
  <2>1. TypeOK /\ (Validated => Found(read) \/ Unchecked(read)) /\ dep \in Deployments
    BY DEF IInv, TypeOK
  <2>2. ~ NoDeployment.there
    BY DEF NoDeployment
  <2>3. ~ (UserDeployment \/ RollOut)
    <3>1. ~ Store(NoDeployment)
      BY <2>2, Zenon DEF Store
    <3>2. ASSUME NEW f, Store([dep EXCEPT !.foreign = f]) PROVE FALSE
      BY <2>1, <3>2 DEF Store, Deployments
    <3>3. ASSUME Store([dep EXCEPT !.rolled = dep.template, !.revision = 1 - @]) PROVE FALSE
      BY <2>1, <3>3, SMTT(30) DEF Store, Deployments
    <3>4. QED
      BY <3>1, <3>2, <3>3, Zenon DEF UserDeployment, RollOut
  <2>4. ~ (UserEdit \/ UserCloudStorage \/ Inform \/ Restart \/ CallFails \/ UNCHANGED vars)
    BY DEF UserEdit, UserCloudStorage, Inform, Restart, CallFails, vars
  <2>5. ~ \E n \in SecretNames : UserSecret(n)
    BY Zenon DEF UserSecret
  <2>6. ~ (\/ Start \/ ValidateDataProtectionCR \/ ReconcileBackupStorageLocations
           \/ LabelVSLSecrets \/ \E kind \in Kinds : Sweep(kind))
    BY Zenon DEF Start, ValidateDataProtectionCR, ReconcileBackupStorageLocations, LabelVSLSecrets, Sweep
  <2>7. ReconcileVeleroDeployment
    BY <2>3, <2>4, <2>5, <2>6, Zenon DEF Next, Reconcile
  <2>8. Mounts(read) \subseteq seen
    BY <2>1, <2>7 DEF ReconcileVeleroDeployment, Validated, Found
  <2>9. \/ Store([NoDeployment EXCEPT !.there = TRUE, !.template = buildVeleroDeployment])
        \/ Store(NoDeployment)
        \/ Store([dep EXCEPT !.template = Patched(buildVeleroDeployment)])
    BY <2>7, ZenonT(30) DEF ReconcileVeleroDeployment
  <2>10. ~ Store(NoDeployment)
    BY <2>2, Zenon DEF Store
  <2>11. CASE Store([NoDeployment EXCEPT !.there = TRUE, !.template = buildVeleroDeployment])
    <3> DEFINE b == buildVeleroDeployment
    <3>1. b.mounts = Mounts(read)
      BY <2>1, Built, Zenon
    <3>2. dep' = [NoDeployment EXCEPT !.there = TRUE, !.template = b]
      BY <2>11 DEF Store
    <3> HIDE DEF b
    <3>3. dep'.template = b
      BY <3>2 DEF NoDeployment
    <3>4. QED
      BY <2>8, <3>1, <3>3
  <2>12. CASE Store([dep EXCEPT !.template = Patched(buildVeleroDeployment)])
    <3> DEFINE t == Patched(buildVeleroDeployment)
    <3>1. t.mounts \in {Mounts(read), dep.template.mounts}
      BY <2>1, PatchedType, Zenon
    <3>2. dep' = [dep EXCEPT !.template = t]
      BY <2>12 DEF Store
    <3> HIDE DEF t
    <3>3. dep'.template = t
      BY <2>1, <3>2 DEF Deployments
    <3>4. QED
      BY <2>8, <3>1, <3>3
  <2>13. QED
    BY <2>9, <2>10, <2>11, <2>12
<1>2. QED
  BY <1>1, Invariance, PTL DEF Spec, MountsChecked
=============================================================================
