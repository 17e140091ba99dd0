----------------------- MODULE CredentialSecretProofs -----------------------
(***************************************************************************)
(* Proofs about CredentialSecret, for any credentials of users and any     *)
(* number of creations, updates and deletions of the secret, of runs of    *)
(* the STS flow, of failing calls and of restarts.                         *)
(***************************************************************************)
EXTENDS CredentialSecret, TLAPS

Events == {"none", "quiet", "wake"}
Budgets == [creates : Nat, updates : Nat, deletes : Nat, syncs : Nat, faults : Nat, restarts : Nat]
Whats == {"creates", "updates", "deletes", "syncs", "faults", "restarts"}

(* The fields of a secret. *)
LEMMA SecretParts ==
    ASSUME NEW s \in Secrets
    PROVE  /\ s.there \in BOOLEAN /\ s.labelled \in BOOLEAN /\ s.creds \in Creds
           /\ s.region \in BOOLEAN /\ s.crlf \in BOOLEAN
  BY DEF Secrets

(* New credentials leave a secret where it is, with its labels. *)
LEMMA WithCredsParts ==
    ASSUME NEW s \in Secrets, NEW creds \in Creds, NEW region \in BOOLEAN, NEW crlf \in BOOLEAN
    PROVE  /\ WithCreds(s, creds, region, crlf) \in Secrets
           /\ WithCreds(s, creds, region, crlf).there = s.there
           /\ WithCreds(s, creds, region, crlf).labelled = s.labelled
           /\ WithCreds(s, creds, region, crlf).creds = creds
           /\ WithCreds(s, creds, region, crlf).region = region
           /\ WithCreds(s, creds, region, crlf).crlf = crlf
  BY Zenon DEF WithCreds, Secrets

(* The secrets that nobody has labelled: none, and that of the STS flow. *)
LEMMA PlainSecrets ==
    /\ NoSecret \in Secrets /\ NoSecret.there = FALSE /\ NoSecret.labelled = FALSE
    /\ NoSecret.creds = "env" /\ NoSecret.region = FALSE /\ NoSecret.crlf = FALSE
    /\ EnvSecret \in Secrets /\ EnvSecret.there = TRUE /\ EnvSecret.labelled = FALSE
    /\ EnvSecret.creds = "env" /\ EnvSecret.region = FALSE /\ EnvSecret.crlf = FALSE
  BY Zenon DEF NoSecret, EnvSecret, Secrets, Creds

(* What a user writes has the user's credentials, and the labels there     *)
(* were.                                                                   *)
LEMMA UserSecret ==
    ASSUME secret \in Secrets, NEW creds \in UserCreds, NEW crlf \in BOOLEAN,
           NEW new, new = WithCreds([secret EXCEPT !.there = TRUE], creds, FALSE, crlf)
    PROVE  /\ new \in Secrets /\ new.there = TRUE /\ new.labelled = secret.labelled
           /\ new.creds = creds /\ ~IsSTS(new)
  <1>1. creds \in Creds /\ creds # "env"
    BY BoundAssumption, Zenon DEF Creds
  <1> DEFINE s == [secret EXCEPT !.there = TRUE]
  <1>2. s \in Secrets /\ s.there = TRUE /\ s.labelled = secret.labelled
    BY Zenon DEF Secrets
  <1>f. FALSE \in BOOLEAN
    OBVIOUS
  <1>3. /\ new \in Secrets /\ new.there = s.there /\ new.labelled = s.labelled
        /\ new.creds = creds
    <2> HIDE DEF s
    <2>1. /\ WithCreds(s, creds, FALSE, crlf) \in Secrets
          /\ WithCreds(s, creds, FALSE, crlf).there = s.there
          /\ WithCreds(s, creds, FALSE, crlf).labelled = s.labelled
          /\ WithCreds(s, creds, FALSE, crlf).creds = creds
      BY <1>1, <1>2, <1>f, Zenon DEF WithCreds, Secrets
    <2>2. new = WithCreds(s, creds, FALSE, crlf)
      BY DEF s
    <2> QED
      BY <2>1, <2>2, Zenon
  <1> QED
    BY <1>1, <1>2, <1>3, Zenon DEF IsSTS

(* What getProviderSecret answers, and what it leaves in the API server:   *)
(* the same secret, with the cached credentials if those had carriage      *)
(* returns.                                                                *)
LEMMA Provided ==
    ASSUME secret \in Secrets, view \in Secrets, view.there, NEW r \in getProviderSecret
    PROVE  /\ r.got \in Secrets /\ r.live \in Secrets /\ r.fault \in BOOLEAN
           /\ r.live.there = secret.there /\ r.live.labelled = secret.labelled
           /\ r.live = secret \/ (r.live.creds = view.creds /\ view.crlf)
           /\ \/ r.got = r.live /\ secret.there
              \/ /\ r.got.labelled = view.labelled /\ r.live = secret
                 /\ r.fault \/ ~secret.there
  <1> DEFINE normal == Normalized(secret)
  <1>1. /\ normal \in Secrets /\ normal.there = secret.there
        /\ normal.labelled = secret.labelled
        /\ normal = secret \/ (normal.creds = view.creds /\ view.crlf)
    <2>1. CASE secret.there /\ view.crlf
      <3>1. normal = WithCreds(secret, view.creds, view.region, FALSE)
        BY <2>1 DEF Normalized
      <3>2. view.creds \in Creds /\ view.region \in BOOLEAN /\ FALSE \in BOOLEAN
        BY SecretParts
      <3> HIDE DEF normal
      <3>3. normal \in Secrets /\ normal.there = secret.there
            /\ normal.labelled = secret.labelled /\ normal.creds = view.creds
        BY <3>1, <3>2, Zenon DEF WithCreds, Secrets
      <3> QED
        BY <2>1, <3>3, Zenon
    <2>2. CASE ~(secret.there /\ view.crlf)
      BY <2>2, Zenon DEF Normalized
    <2> QED
      BY <2>1, <2>2
  <1>2. Unanswered \in Secrets /\ Unanswered.labelled = view.labelled
    BY Zenon DEF Unanswered, Secrets
  <1>3. CASE secret.there
    <2>1. \/ r = [got |-> normal, live |-> normal, fault |-> FALSE]
          \/ r = [got |-> Unanswered, live |-> secret, fault |-> TRUE]
      BY <1>3, Zenon DEF getProviderSecret
    <2>2. \/ r.got = normal /\ r.live = normal /\ r.fault = FALSE
          \/ r.got = Unanswered /\ r.live = secret /\ r.fault = TRUE
      <3> HIDE DEF normal
      <3> QED
        BY <2>1
    <2> QED
      BY <1>1, <1>2, <1>3, <2>2, Zenon
  <1>4. CASE ~secret.there
    <2>1. r = [got |-> Unanswered, live |-> secret, fault |-> FALSE]
      BY <1>4, Zenon DEF getProviderSecret
    <2>2. r.got = Unanswered /\ r.live = secret /\ r.fault = FALSE
      BY <2>1
    <2> QED
      BY <1>2, <1>4, <2>2, Zenon
  <1> QED
    BY <1>3, <1>4, Zenon

(* A write of the secret and the event it leaves. *)
LEMMA StoreEffect ==
    ASSUME TypeOK, NEW new \in Secrets, Store(new)
    PROVE  /\ secret' = new /\ event' \in Events
           /\ event = "wake" => event' = "wake"
           /\ new # secret /\ Passes(secret, new) => event' = "wake"
           /\ new # secret => event' # "none"
           /\ new = secret => event' = event
  <1>1. event \in Events
    BY DEF TypeOK, Events
  <1>2. CASE new = secret
    BY <1>1, <1>2 DEF Store
  <1>3. CASE new # secret
    BY <1>3, Zenon DEF Store, Events
  <1> QED
    BY <1>2, <1>3

(* Spending keeps the budget within its bounds, and shows. *)
LEMMA SpendEffect ==
    ASSUME TypeOK, WithinBounds, NEW what \in Whats, Spend(what)
    PROVE  /\ budget' \in Budgets /\ WithinBounds' /\ budget'[what] # Bounds[what]
           /\ \A w \in Whats : budget'[w] = Bounds[w] => budget[w] = Bounds[w]
  <1>1. budget \in Budgets /\ Bounds \in Budgets
    BY BoundAssumption DEF TypeOK, Budgets, Bounds
  <1>2. DOMAIN Bounds = Whats
    BY DEF Bounds, Whats
  <1>3. \A w \in Whats : budget[w] \in Nat /\ Bounds[w] \in Nat /\ budget[w] <= Bounds[w]
    BY <1>1, <1>2 DEF Budgets, Whats, WithinBounds
  <1>4. budget[what] > 0 /\ budget' = [budget EXCEPT ![what] = budget[what] - 1]
    BY DEF Spend
  <1>5. budget' \in Budgets
    BY <1>1, <1>3, <1>4 DEF Budgets, Whats
  <1>6. \A w \in Whats : budget'[w] = IF w = what THEN budget[w] - 1 ELSE budget[w]
    BY <1>1, <1>4 DEF Budgets, Whats
  <1>7. \A w \in Whats : budget'[w] <= Bounds[w]
                         /\ (budget'[w] = Bounds[w] => budget[w] = Bounds[w] /\ w # what)
    BY <1>3, <1>4, <1>6
  <1> QED
    BY <1>2, <1>5, <1>7, Zenon DEF WithinBounds

(* What the STS flow makes of a secret that exists. *)
LEMMA EnvCredsParts ==
    ASSUME NEW s \in Secrets
    PROVE  /\ EnvCreds(s) \in Secrets /\ EnvCreds(s).there = s.there
           /\ EnvCreds(s).labelled = s.labelled /\ EnvCreds(s).creds = "env"
           /\ EnvCreds(s).region = FALSE /\ EnvCreds(s).crlf = FALSE
  BY Zenon DEF EnvCreds, WithCreds, Secrets, Creds

Regional == WithCreds(secret, view.creds, TRUE, view.crlf)

(* What PatchRegion writes: the cached credentials with their region. *)
LEMMA RegionalParts ==
    ASSUME secret \in Secrets, view \in Secrets
    PROVE  /\ Regional \in Secrets /\ Regional.there = secret.there
           /\ Regional.labelled = secret.labelled /\ Regional.creds = view.creds
           /\ Regional.region = TRUE /\ Regional.crlf = view.crlf
  BY Zenon DEF Regional, WithCreds, Secrets

-----------------------------------------------------------------------------
(* A write that keeps the labels of what it keeps wakes the worker if it   *)
(* takes a labelled secret away.                                           *)
LEMMA StoreKeeps ==
    ASSUME TypeOK, NoRole, LabelsStay, NEW new \in Secrets, Store(new), UNCHANGED <<view, sts>>,
           new.labelled => new.there,
           secret.labelled => new.labelled \/ ~new.there,
           ~sts /\ new.there => ~IsSTS(new)
    PROVE  /\ secret' \in Secrets /\ event' \in Events /\ NoRole' /\ LabelsStay'
           /\ Labelled \/ event = "wake" => Labelled' \/ event' = "wake"
  <1>1. /\ secret' = new /\ event' \in Events
        /\ event = "wake" => event' = "wake"
        /\ new # secret /\ Passes(secret, new) => event' = "wake"
        /\ new # secret => event' # "none"
        /\ new = secret => event' = event
    BY StoreEffect, Zenon
  <1>2. secret.labelled /\ ~new.labelled => event' = "wake"
    BY <1>1, Zenon DEF Passes
  <1>3. NoRole'
    <2>1. ~sts' /\ secret'.there => ~IsSTS(secret)'
      BY <1>1, Zenon DEF IsSTS
    <2>2. ~sts' /\ view'.there => ~IsSTS(view)'
      BY Zenon DEF NoRole, IsSTS
    <2> QED
      BY <2>1, <2>2, Zenon DEF NoRole, IsSTS
  <1>4. LabelsStay'
    <2>1. event' = "none" => view' = secret'
      BY <1>1, Zenon DEF LabelsStay
    <2>2. /\ secret'.labelled => secret'.there
          /\ view'.labelled => view'.there
      BY <1>1, Zenon DEF LabelsStay
    <2>3. view'.labelled /\ ~secret'.labelled => event' = "wake"
      BY <1>1, <1>2, Zenon DEF LabelsStay
    <2> QED
      BY <2>1, <2>2, <2>3, Zenon DEF LabelsStay
  <1>5. Labelled \/ event = "wake" => Labelled' \/ event' = "wake"
    BY <1>1, <1>2, Zenon DEF Labelled
  <1> QED
    BY <1>1, <1>3, <1>4, <1>5, Zenon

(* The secret, its copy and its events keep their types, no role comes     *)
(* from nowhere, and labels go with the secret only.                       *)
SecretOK ==
    secret \in Secrets /\ view \in Secrets /\ event \in Events /\ NoRole /\ LabelsStay

(* Every step keeps SecretOK, and the deletion of a labelled secret is on  *)
(* its way to the worker.                                                  *)
LEMMA SecretStep ==
    ASSUME TypeOK, NoRole, LabelsStay, [Next]_vars
    PROVE  /\ SecretOK'
           /\ queued' \/ (Labelled \/ event = "wake" => Labelled' \/ event' = "wake")
  <1> DEFINE Goal == /\ SecretOK'
                     /\ queued' \/ (Labelled \/ event = "wake" => Labelled' \/ event' = "wake")
  <1> SUFFICES Goal
    OBVIOUS
  <1>t. SecretOK /\ secret \in Secrets /\ view \in Secrets /\ event \in Events
    BY Zenon DEF SecretOK, TypeOK, Events
  <1>p. \A s \in {secret, view} : s.labelled => s.there
    BY Zenon DEF LabelsStay
  <1>u. ASSUME UNCHANGED <<sts, secret, view, event>> PROVE Goal
    BY <1>t, <1>u, Zenon DEF SecretOK, NoRole, LabelsStay, Labelled, IsSTS
  <1>s. ASSUME NEW new \in Secrets, Store(new), UNCHANGED <<view, sts>>,
               new.labelled => new.there,
               secret.labelled => new.labelled \/ ~new.there,
               ~sts /\ new.there => ~IsSTS(new)
        PROVE  Goal
    BY <1>s, <1>t, StoreKeeps, Zenon DEF SecretOK
  <1>l. ASSUME NEW r \in getProviderSecret, view.there
        PROVE  /\ r.live \in Secrets /\ r.live.there = secret.there
               /\ r.live.labelled = secret.labelled /\ (~sts /\ r.live.there => ~IsSTS(r.live))
    <2>1. /\ r.live \in Secrets /\ r.live.there = secret.there
          /\ r.live.labelled = secret.labelled
          /\ r.live = secret \/ r.live.creds = view.creds
      BY <1>l, <1>t, Provided, Zenon
    <2> QED
      BY <1>l, <2>1, Zenon DEF NoRole, IsSTS
  <1>k. ASSUME NEW r \in getProviderSecret, Returned(r), Store(r.live), UNCHANGED <<view, sts>>
        PROVE  Goal
    <2>1. view.there
      BY <1>k DEF Returned
    <2> QED
      BY <1>k, <1>l, <1>p, <1>s, <2>1, Zenon
  <1>1. ASSUME NEW creds \in UserCreds, NEW crlf \in BOOLEAN, UserWrite(creds, crlf) PROVE Goal
    <2>1. PICK new : new = WithCreds([secret EXCEPT !.there = TRUE], creds, FALSE, crlf)
      BY Zenon
    <2>2. /\ new \in Secrets /\ new.there = TRUE /\ new.labelled = secret.labelled
          /\ ~IsSTS(new)
      BY <1>t, <2>1, UserSecret, ZenonT(30)
    <2>3. Store(new) /\ UNCHANGED <<view, sts>>
      BY <1>1, <2>1, Zenon DEF UserWrite
    <2> QED
      BY <1>s, <2>2, <2>3, Zenon
  <1>2. CASE UserDelete
    BY <1>2, <1>s, PlainSecrets, Zenon DEF UserDelete
  <1>3. CASE Inform
    <2>1. view' = secret /\ event' = "none" /\ UNCHANGED <<sts, secret>>
          /\ queued' = (queued \/ event = "wake")
      BY <1>3 DEF Inform
    <2>2. SecretOK'
      BY <1>t, <1>p, <2>1, Zenon DEF SecretOK, NoRole, LabelsStay, IsSTS, Events
    <2> QED
      BY <2>1, <2>2, Zenon DEF Labelled
  <1>4. CASE ValidateSecret
    BY <1>4, <1>k, Zenon DEF ValidateSecret
  <1>5. CASE UpdateCredentialsSecretLabels
    <2>1. PICK r \in getProviderSecret :
            /\ Returned(r)
            /\ IF r.got.labelled THEN Store(r.live) /\ Continue("region")
               ELSE IF r.live.there
               THEN Store([r.live EXCEPT !.labelled = TRUE]) /\ Continue("region")
               ELSE Fail /\ UNCHANGED <<secret, event>>
      BY <1>5, Zenon DEF UpdateCredentialsSecretLabels
    <2>2. UNCHANGED <<view, sts>> /\ view.there
      BY <1>5, <2>1, Zenon DEF UpdateCredentialsSecretLabels, Returned
    <2>3. CASE r.live.there /\ Store([r.live EXCEPT !.labelled = TRUE])
      <3>1. PICK new : new = [r.live EXCEPT !.labelled = TRUE]
        BY Zenon
      <3>2. r.live \in Secrets /\ (~sts /\ r.live.there => ~IsSTS(r.live))
        BY <1>l, <2>2, Zenon
      <3>3. /\ new \in Secrets /\ new.labelled = TRUE /\ new.there = r.live.there
            /\ new.creds = r.live.creds
        BY <3>1, <3>2, Zenon DEF Secrets
      <3> QED
        BY <1>s, <2>2, <2>3, <3>1, <3>2, <3>3, Zenon DEF IsSTS
    <2>4. CASE UNCHANGED <<secret, event>>
      BY <1>u, <2>2, <2>4, Zenon
    <2> QED
      BY <1>k, <2>1, <2>2, <2>3, <2>4, Zenon
  <1>6. CASE PatchRegion
    <2>1. CASE UNCHANGED <<secret, event>>
      BY <1>6, <1>u, <2>1, Zenon DEF PatchRegion
    <2>2. CASE view.there /\ Store(Regional)
      <3>1. ~sts => ~IsSTS(Regional)
        BY <1>t, <2>2, RegionalParts, Zenon DEF NoRole, IsSTS
      <3> QED
        BY <1>6, <1>p, <1>s, <1>t, <2>2, <3>1, RegionalParts, Zenon DEF PatchRegion
    <2> QED
      BY <1>6, <2>1, <2>2, Zenon DEF PatchRegion, Regional
  <1>7. CASE ReconcileRegistrySecrets
    BY <1>7, <1>k, Zenon DEF ReconcileRegistrySecrets
  <1>8. CASE CreateSTSSecret
    BY <1>8, <1>p, <1>s, <1>u, PlainSecrets, Zenon DEF CreateSTSSecret
  <1>9. CASE PatchSTSSecret
    <2>1. sts
      BY <1>9 DEF PatchSTSSecret, TypeOK
    <2> QED
      BY <1>9, <1>p, <1>s, <1>t, <1>u, <2>1, EnvCredsParts, Zenon DEF PatchSTSSecret
  <1>10. CASE Restart
    <2>1. /\ view' = secret' /\ event' = "none" /\ queued' = TRUE /\ sts' = sts
          /\ secret' = IF ~sts THEN secret
                       ELSE IF secret.there THEN EnvCreds(secret) ELSE EnvSecret
      BY <1>10 DEF Restart
    <2>2. secret' \in Secrets /\ (secret'.labelled => secret'.there)
      BY <1>p, <1>t, <2>1, EnvCredsParts, PlainSecrets, Zenon
    <2>3. ~sts' /\ secret'.there => ~IsSTS(secret)'
      BY <2>1, Zenon DEF NoRole, IsSTS
    <2> QED
      BY <2>1, <2>2, <2>3, Zenon DEF SecretOK, NoRole, LabelsStay, IsSTS, Events
  <1> QED
    BY <1>1, <1>2, <1>3, <1>4, <1>5, <1>6, <1>7, <1>8, <1>9, <1>10, <1>u, Zenon
    DEF Next, Worker, Flow, vars, InformRegistry, Start, SecretMissing, CallFails, Finish,
        GetSTSSecret

(* Every step keeps the types and the bounds. *)
LEMMA TypeStep ==
    ASSUME TypeOK, NoRole, LabelsStay, WithinBounds, [Next]_vars
    PROVE  TypeOK' /\ WithinBounds'
  <1> DEFINE Role == ~sts => flow = "idle"
             Rest == /\ sts \in BOOLEAN /\ queued \in BOOLEAN
                     /\ pc \in {"idle", "validate", "label", "region", "registry", "status"}
                     /\ cond \in {"none", "True", "False"}
                     /\ registry \in Creds \cup {"none"} /\ copy \in Creds \cup {"none"}
                     /\ flow \in {"idle", "get", "patch"}
                     /\ Role
                     /\ budget \in Budgets /\ WithinBounds
  <1>t. Rest /\ secret \in Secrets /\ view \in Secrets
    BY Zenon DEF TypeOK, Budgets
  <1>s. SecretOK'
    BY SecretStep, Zenon
  <1> SUFFICES Rest'
    BY <1>s, Zenon DEF TypeOK, Budgets, SecretOK, NoRole, Events, IsSTS
  <1>w. UNCHANGED budget => budget' \in Budgets /\ WithinBounds'
    BY <1>t, Zenon DEF WithinBounds, Bounds
  <1>b. ASSUME NEW what \in Whats, Spend(what) PROVE budget' \in Budgets /\ WithinBounds'
    BY <1>b, SpendEffect, Zenon
  <1>d. /\ "creates" \in Whats /\ "updates" \in Whats /\ "deletes" \in Whats
        /\ "syncs" \in Whats /\ "faults" \in Whats /\ "restarts" \in Whats
    BY DEF Whats
  <1>r. ASSUME NEW r \in getProviderSecret, Returned(r)
        PROVE  /\ budget' \in Budgets /\ WithinBounds' /\ r.got.creds \in Creds
    <2>1. view.there
      BY <1>r DEF Returned
    <2>2. r.got \in Secrets
      BY <1>t, <2>1, Provided, Zenon
    <2>3. r.got.creds \in Creds
      BY <2>2, SecretParts, Zenon
    <2> QED
      BY <1>b, <1>d, <1>r, <1>w, <2>3, Zenon DEF Returned
  <1>1. ASSUME NEW creds \in UserCreds, NEW crlf \in BOOLEAN, UserWrite(creds, crlf) PROVE Rest'
    BY <1>1, <1>b, <1>d, <1>t, Zenon DEF UserWrite
  <1>2. CASE UserDelete
    BY <1>2, <1>b, <1>d, <1>t, Zenon DEF UserDelete
  <1>3. CASE Inform
    <2>1. queued' \in BOOLEAN
      BY <1>3, Zenon DEF Inform
    <2> QED
      BY <1>3, <1>t, <1>w, <2>1, Zenon DEF Inform
  <1>4. CASE InformRegistry
    BY <1>4, <1>t, <1>w, Zenon DEF InformRegistry
  <1>5. CASE Start
    BY <1>5, <1>t, <1>w, Zenon DEF Start
  <1>6. CASE ValidateSecret
    BY <1>6, <1>r, <1>t, Zenon DEF ValidateSecret, Continue
  <1>7. CASE UpdateCredentialsSecretLabels
    BY <1>7, <1>r, <1>t, Zenon DEF UpdateCredentialsSecretLabels, Continue, Fail
  <1>8. CASE PatchRegion
    BY <1>8, <1>b, <1>d, <1>t, <1>w, Zenon DEF PatchRegion, Continue
  <1>9. CASE ReconcileRegistrySecrets
    BY <1>9, <1>r, <1>t, Zenon DEF ReconcileRegistrySecrets, Continue, Fail
  <1>10. CASE SecretMissing
    BY <1>10, <1>t, <1>w, Zenon DEF SecretMissing, Fail
  <1>11. CASE CallFails
    BY <1>11, <1>b, <1>d, <1>t, Zenon DEF CallFails, Fail
  <1>12. CASE Finish
    BY <1>12, <1>t, <1>w, Zenon DEF Finish
  <1>13. CASE CreateSTSSecret
    BY <1>13, <1>b, <1>d, <1>t, Zenon DEF CreateSTSSecret
  <1>14. CASE GetSTSSecret
    BY <1>14, <1>t, <1>w, Zenon DEF GetSTSSecret
  <1>15. CASE PatchSTSSecret
    BY <1>15, <1>t, <1>w, Zenon DEF PatchSTSSecret
  <1>16. CASE Restart
    BY <1>16, <1>b, <1>d, <1>t, Zenon DEF Restart
  <1>17. CASE UNCHANGED vars
    BY <1>17, <1>t, <1>w, ZenonT(30) DEF vars
  <1> QED
    BY <1>1, <1>2, <1>3, <1>4, <1>5, <1>6, <1>7, <1>8, <1>9, <1>10, <1>11, <1>12, <1>13, <1>14,
       <1>15, <1>16, <1>17, Zenon
    DEF Next, Worker, Flow

(* The worker rests, or passes the labelling, only with a labelled secret, *)
(* unless its deletion is on its way.                                      *)
LEMMA LabelsHoldStep ==
    ASSUME IInv, [Next]_vars
    PROVE  LabelsHold'
  <1>t. TypeOK /\ NoRole /\ LabelsStay /\ LabelsHold /\ secret \in Secrets /\ view \in Secrets
    BY Zenon DEF IInv, TypeOK
  <1>k. queued' \/ (Labelled \/ event = "wake" => Labelled' \/ event' = "wake")
    BY <1>t, SecretStep, Zenon
  <1>q. ASSUME queued' = TRUE \/ pc' \in {"validate", "label"} PROVE LabelsHold'
    BY <1>q DEF LabelsHold
  <1>u. ASSUME UNCHANGED <<pc, cond>>, queued => queued' PROVE LabelsHold'
    BY <1>k, <1>t, <1>u, Zenon DEF LabelsHold
  <1>1. CASE UpdateCredentialsSecretLabels
    <2>1. PICK r \in getProviderSecret :
            /\ Returned(r)
            /\ IF r.got.labelled THEN Store(r.live) /\ Continue("region")
               ELSE IF r.live.there
               THEN Store([r.live EXCEPT !.labelled = TRUE]) /\ Continue("region")
               ELSE Fail /\ UNCHANGED <<secret, event>>
      BY <1>1, Zenon DEF UpdateCredentialsSecretLabels
    <2>2. /\ r.live \in Secrets
          /\ r.live.there = secret.there /\ r.live.labelled = secret.labelled
          /\ \/ r.got = r.live
             \/ r.got.labelled = view.labelled /\ r.live = secret
      BY <1>t, <2>1, Provided, Zenon DEF Returned
    <2>3. CASE r.got.labelled /\ Store(r.live) /\ Continue("region")
      <3>1. secret.labelled \/ event = "wake"
        BY <1>t, <2>2, <2>3, Zenon DEF LabelsStay
      <3>2. secret.labelled => secret.there
        BY <1>t, Zenon DEF LabelsStay
      <3> QED
        BY <1>k, <2>3, <3>1, <3>2, Zenon DEF LabelsHold, Continue, Labelled
    <2>4. CASE r.live.there /\ Store([r.live EXCEPT !.labelled = TRUE]) /\ Continue("region")
      <3>1. PICK new : new = [r.live EXCEPT !.labelled = TRUE]
        BY Zenon
      <3>2. new \in Secrets /\ new.labelled = TRUE /\ new.there = r.live.there
        BY <2>2, <3>1, Zenon DEF Secrets
      <3>3. secret' = new
        BY <2>4, <3>1, Zenon DEF Store
      <3> QED
        BY <2>4, <3>2, <3>3, Zenon DEF LabelsHold, Continue, Labelled
    <2> QED
      BY <1>q, <2>1, <2>3, <2>4, Zenon DEF Fail
  <1>2. CASE PatchRegion \/ ReconcileRegistrySecrets
    <2>1. pc \in {"region", "registry"} /\ (Fail \/ Continue("registry") \/ Continue("status"))
      BY <1>2, Zenon DEF PatchRegion, ReconcileRegistrySecrets
    <2>2. CASE Continue("registry") \/ Continue("status")
      <3>1. queued \/ event = "wake" \/ Labelled
        BY <1>t, <2>1, Zenon DEF LabelsHold
      <3>3. pc' # "idle" /\ queued' = queued
        BY <2>2 DEF Continue
      <3>2. queued' \/ event' = "wake" \/ Labelled'
        BY <1>k, <3>1, <3>3, Zenon
      <3> QED
        BY <3>2, <3>3, Zenon DEF LabelsHold
    <2> QED
      BY <1>q, <2>1, <2>2, Zenon DEF Fail
  <1>3. CASE Finish
    BY <1>3, <1>t, Zenon DEF Finish, LabelsHold, Labelled
  <1>4. CASE SecretMissing \/ CallFails \/ Restart
    BY <1>4, <1>q, Zenon DEF SecretMissing, CallFails, Restart, Fail
  <1>5. CASE Start \/ ValidateSecret
    BY <1>5, <1>q, Zenon DEF Start, ValidateSecret, Continue
  <1>6. CASE Inform
    BY <1>6, <1>u, Zenon DEF Inform
  <1>7. CASE UNCHANGED vars \/ InformRegistry \/ Flow \/ UserDelete
    <2>1. UNCHANGED <<pc, cond, queued>>
      BY <1>7, Zenon
      DEF vars, InformRegistry, Flow, CreateSTSSecret, GetSTSSecret, PatchSTSSecret, UserDelete
    <2> QED
      BY <1>u, <2>1, Zenon
  <1>8. ASSUME NEW creds \in UserCreds, NEW crlf \in BOOLEAN, UserWrite(creds, crlf)
        PROVE  LabelsHold'
    BY <1>8, <1>u, Zenon DEF UserWrite
  <1> QED
    BY <1>1, <1>2, <1>3, <1>4, <1>5, <1>6, <1>7, <1>8, Zenon DEF Next, Worker

(* The inductive invariant holds at the start. *)
LEMMA IInvInit == Init => IInv
  <1> SUFFICES ASSUME Init PROVE IInv
    OBVIOUS
  <1>1. /\ sts \in BOOLEAN /\ secret = (IF sts THEN EnvSecret ELSE NoSecret) /\ view = secret
        /\ event = "none" /\ queued = TRUE /\ pc = "idle" /\ flow = "idle" /\ cond = "none"
        /\ registry = "none" /\ copy = "none" /\ budget = Bounds
    BY DEF Init
  <1>2. secret \in Secrets /\ secret.labelled = FALSE /\ (~sts => secret.there = FALSE)
    BY <1>1, PlainSecrets, Zenon
  <1>3. Bounds \in Budgets /\ \A w \in DOMAIN Bounds : Bounds[w] <= Bounds[w]
    <2>1. \A w \in DOMAIN Bounds : Bounds[w] \in Nat
      BY BoundAssumption DEF Bounds
    <2>2. Bounds \in Budgets
      BY BoundAssumption DEF Bounds, Budgets
    <2> QED
      BY <2>1, <2>2
  <1>4. TypeOK
    BY <1>1, <1>2, <1>3, Zenon DEF TypeOK, Budgets
  <1> QED
    BY <1>1, <1>2, <1>3, <1>4, Zenon DEF IInv, NoRole, LabelsStay, LabelsHold, WithinBounds

(* Every step keeps the inductive invariant. *)
LEMMA IInvNext == IInv /\ [Next]_vars => IInv'
  <1> SUFFICES ASSUME IInv, [Next]_vars PROVE IInv'
    OBVIOUS
  <1>1. TypeOK /\ NoRole /\ LabelsStay /\ WithinBounds
    BY DEF IInv
  <1> QED
    BY <1>1, SecretStep, TypeStep, LabelsHoldStep, Zenon DEF IInv, SecretOK

(* The inductive invariant always holds. *)
LEMMA Invariant == Spec => []IInv
  BY IInvInit, IInvNext, PTL DEF Spec

(* SecretAtRest of the runs: the controller rests only with a secret that  *)
(* exists and carries the labels by which its deletion is noticed.         *)
THEOREM RestsWithLabelledSecret == Spec => []SecretAtRest
  <1>1. IInv => SecretAtRest
    BY Zenon DEF IInv, LabelsHold, Labelled, SecretAtRest, Quiescent
  <1> QED
    BY <1>1, Invariant, PTL

(* The variables always have their types, and without a role in the        *)
(* environment the secret never holds one.                                 *)
THEOREM TypeCorrect == Spec => []TypeOK
  <1>1. IInv => TypeOK
    BY DEF IInv
  <1> QED
    BY <1>1, Invariant, PTL

-----------------------------------------------------------------------------
(* As long as nothing of some kinds has been spent, no step spends it. *)
LEMMA UnspentStep ==
    ASSUME IInv, [Next]_vars, NEW whats \in SUBSET Whats, Unspent(whats)'
    PROVE  Unspent(whats) /\ \A w \in whats : ~Spend(w)
  <1>t. TypeOK /\ WithinBounds
    BY DEF IInv
  <1>1. ASSUME NEW what \in Whats, Spend(what)
        PROVE  Unspent(whats) /\ what \notin whats
    <2>1. /\ budget'[what] # Bounds[what]
          /\ \A w \in Whats : budget'[w] = Bounds[w] => budget[w] = Bounds[w]
      BY <1>t, <1>1, SpendEffect, Zenon
    <2> QED
      BY <2>1, Zenon DEF Unspent, Bounds
  <1>2. CASE UNCHANGED budget
    BY <1>1, <1>2, Zenon DEF Unspent, Bounds
  <1>3. CASE \E what \in Whats : Spend(what)
    BY <1>1, <1>3, Zenon
  <1>d. /\ "creates" \in Whats /\ "updates" \in Whats /\ "deletes" \in Whats
        /\ "syncs" \in Whats /\ "faults" \in Whats /\ "restarts" \in Whats
    BY DEF Whats
  <1>4. UNCHANGED budget \/ \E what \in Whats : Spend(what)
    BY <1>d, Zenon
    DEF Next, Worker, Flow, vars, UserWrite, UserDelete, Inform, InformRegistry, Start,
        ValidateSecret, UpdateCredentialsSecretLabels, PatchRegion, ReconcileRegistrySecrets,
        Returned, SecretMissing, CallFails, Finish, CreateSTSSecret, GetSTSSecret, PatchSTSSecret,
        Restart
  <1> QED
    BY <1>2, <1>3, <1>4

(* Nothing of the flow runs before a CloudStorage is reconciled. *)
LEMMA FlowRests ==
    ASSUME flow = "idle", ~Spend("syncs"), [Next]_vars
    PROVE  flow' = "idle" /\ ~Flow
  BY Zenon
  DEF Next, Worker, Flow, vars, UserWrite, UserDelete, Inform, InformRegistry, Start,
      ValidateSecret, UpdateCredentialsSecretLabels, PatchRegion, ReconcileRegistrySecrets,
      SecretMissing, CallFails, Finish, CreateSTSSecret, GetSTSSecret, PatchSTSSecret, Restart

-----------------------------------------------------------------------------
(* STS credentials without their region. *)
Dropped(s) == s.there /\ IsSTS(s) /\ ~s.region

(* Where the region has been added, unless the worker is to look again. *)
Late == pc \in {"registry", "status"} \/ (pc = "idle" /\ ~queued)

Clean == \A s \in {secret, view} : IsSTS(s) => ~s.crlf

RegionParts == Clean /\ (Dropped(secret) => Dropped(view))

(* A write that drops no region and adds no carriage return to a role. *)
LEMMA RegionStore ==
    ASSUME RegionParts, NEW new, secret' = new, view' = view,
           IsSTS(new) => ~new.crlf, Dropped(new) => Dropped(secret)
    PROVE  RegionParts' /\ (Dropped(secret)' => Dropped(secret))
  <1>1. Clean'
    BY Zenon DEF RegionParts, Clean, IsSTS
  <1>2. Dropped(secret)' => Dropped(secret)
    BY Zenon DEF Dropped, IsSTS
  <1>3. Dropped(secret)' => Dropped(view)'
    BY <1>2, Zenon DEF RegionParts, Dropped, IsSTS
  <1> QED
    BY <1>1, <1>2, <1>3, Zenon DEF RegionParts

(* As long as no CloudStorage is reconciled and no call fails, every step  *)
(* keeps the region where the worker has added it.                         *)
LEMMA RegionStep ==
    ASSUME IInv, RegionInv, [Next]_vars
    PROVE  RegionInv'
  <1> DEFINE S == {"syncs", "faults"}
  <1> SUFFICES ASSUME Unspent(S)' PROVE RegionHolds'
    BY Zenon DEF RegionInv
  <1>s. S \in SUBSET Whats
    BY DEF Whats
  <1>1. Unspent(S) /\ ~Spend("syncs") /\ ~Spend("faults")
    <2> HIDE DEF S
    <2>1. Unspent(S) /\ \A w \in S : ~Spend(w)
      BY <1>s, UnspentStep, Zenon
    <2> QED
      BY <2>1 DEF S
  <1>2. flow = "idle" /\ RegionParts /\ (Late => ~Dropped(secret))
    BY <1>1, Zenon DEF RegionInv, RegionHolds, RegionParts, Clean, Dropped, Late
  <1>3. flow' = "idle" /\ ~Flow
    BY <1>1, <1>2, FlowRests, Zenon
  <1> DEFINE Goal == RegionParts' /\ (Late' => ~Dropped(secret)')
  <1> HIDE DEF S
  <1> SUFFICES Goal
    BY <1>3, Zenon DEF RegionHolds, RegionParts, Clean, Dropped, Late, IsSTS
  <1>t. secret \in Secrets /\ view \in Secrets /\ TypeOK
    BY DEF IInv, TypeOK
  <1>u. ASSUME UNCHANGED <<secret, view>>, Late' => Late PROVE Goal
    BY <1>2, <1>u, Zenon DEF RegionParts, Clean, Dropped, IsSTS
  <1>w. ASSUME NEW new, secret' = new, view' = view, IsSTS(new) => ~new.crlf,
               Dropped(new) => Dropped(secret), Late' => Late
        PROVE  Goal
    BY <1>2, <1>w, RegionStore, Zenon
  <1>l. ASSUME NEW r \in getProviderSecret, Returned(r)
        PROVE  /\ r.live \in Secrets /\ (IsSTS(r.live) => ~r.live.crlf)
               /\ Dropped(r.live) => Dropped(secret)
    <2>1. /\ r.live \in Secrets
          /\ r.live = secret \/ (r.live.creds = view.creds /\ view.crlf)
      BY <1>l, <1>t, Provided, Zenon DEF Returned
    <2> QED
      BY <1>2, <2>1, Zenon DEF RegionParts, Clean, Dropped, IsSTS
  <1>k. ASSUME NEW r \in getProviderSecret, Returned(r), Store(r.live), view' = view, Late' => Late
        PROVE  Goal
    BY <1>k, <1>l, <1>w, Zenon DEF Store
  <1>f. Fail => ~Late'
    BY DEF Fail, Late
  <1>c. \A next \in {"label", "region"} : Continue(next) => ~Late'
    BY DEF Continue, Late
  <1>p. ASSUME UNCHANGED pc, queued => queued' PROVE Late' => Late
    BY <1>p, Zenon DEF Late
  <1>4. ASSUME NEW creds \in UserCreds, NEW crlf \in BOOLEAN, UserWrite(creds, crlf) PROVE Goal
    <2>1. PICK new : new = WithCreds([secret EXCEPT !.there = TRUE], creds, FALSE, crlf)
      BY Zenon
    <2>2. ~IsSTS(new)
      BY <1>t, <2>1, UserSecret, Zenon
    <2>3. secret' = new /\ view' = view /\ (Late' => Late)
      BY <1>4, <1>p, <2>1, Zenon DEF UserWrite, Store
    <2> QED
      BY <1>w, <2>2, <2>3, Zenon DEF Dropped
  <1>5. CASE UserDelete
    <2>1. secret' = NoSecret /\ view' = view /\ (Late' => Late)
      BY <1>5, <1>p, Zenon DEF UserDelete, Store
    <2> QED
      BY <1>w, <2>1, PlainSecrets, Zenon DEF Dropped
  <1>6. CASE Inform
    <2>1. view' = secret /\ secret' = secret /\ UNCHANGED pc /\ (queued => queued')
      BY <1>6, Zenon DEF Inform
    <2>2. Late' => Late
      BY <1>p, <2>1
    <2> QED
      BY <1>2, <2>1, <2>2, Zenon DEF RegionParts, Clean, Dropped, IsSTS
  <1>7. CASE ValidateSecret
    BY <1>7, <1>c, <1>k, Zenon DEF ValidateSecret
  <1>8. CASE UpdateCredentialsSecretLabels
    <2>1. PICK r \in getProviderSecret :
            /\ Returned(r)
            /\ IF r.got.labelled THEN Store(r.live) /\ Continue("region")
               ELSE IF r.live.there
               THEN Store([r.live EXCEPT !.labelled = TRUE]) /\ Continue("region")
               ELSE Fail /\ UNCHANGED <<secret, event>>
      BY <1>8, Zenon DEF UpdateCredentialsSecretLabels
    <2>2. view' = view
      BY <1>8 DEF UpdateCredentialsSecretLabels
    <2>3. CASE Store(r.live) /\ Continue("region")
      BY <1>c, <1>k, <2>1, <2>2, <2>3, Zenon
    <2>4. CASE Store([r.live EXCEPT !.labelled = TRUE]) /\ Continue("region")
      <3>1. PICK new : new = [r.live EXCEPT !.labelled = TRUE]
        BY Zenon
      <3>2. /\ r.live \in Secrets /\ (IsSTS(r.live) => ~r.live.crlf)
            /\ Dropped(r.live) => Dropped(secret)
        BY <1>l, <2>1, Zenon
      <3>3. /\ new.there = r.live.there /\ new.creds = r.live.creds
            /\ new.region = r.live.region /\ new.crlf = r.live.crlf
        BY <3>1, <3>2, Zenon DEF Secrets
      <3>4. secret' = new
        BY <2>4, <3>1, Zenon DEF Store
      <3> QED
        BY <1>c, <1>w, <2>2, <2>4, <3>2, <3>3, <3>4, Zenon DEF Dropped, IsSTS
    <2>5. CASE Fail /\ UNCHANGED <<secret, event>>
      BY <1>f, <1>u, <2>2, <2>5, Zenon
    <2> QED
      BY <2>1, <2>3, <2>4, <2>5, Zenon
  <1>9. CASE PatchRegion
    <2>1. view' = view /\ pc = "region"
      BY <1>9 DEF PatchRegion
    <2>2. CASE Store(Regional) /\ view.there /\ IsSTS(view)
      <3>1. Regional.region = TRUE /\ Regional.crlf = view.crlf /\ Regional.creds = view.creds
        BY <1>t, RegionalParts, Zenon
      <3>2. ~Dropped(Regional) /\ (IsSTS(Regional) => ~Regional.crlf)
        BY <1>2, <3>1, Zenon DEF Dropped, RegionParts, Clean, IsSTS
      <3>3. secret' = Regional
        BY <2>2 DEF Store
      <3>4. RegionParts'
        BY <1>2, <2>1, <3>2, <3>3, RegionStore, Zenon
      <3> QED
        BY <3>2, <3>3, <3>4, Zenon DEF Dropped, IsSTS
    <2>3. CASE UNCHANGED <<secret, event>> /\ ~(Dropped(view) /\ secret.there)
      <3>1. ~Dropped(secret)
        BY <1>2, <2>3, Zenon DEF RegionParts, Dropped
      <3> QED
        BY <1>2, <2>1, <2>3, <3>1, Zenon DEF RegionParts, Clean, Dropped, IsSTS
    <2> QED
      BY <1>1, <1>9, <2>2, <2>3, Zenon DEF PatchRegion, Regional, Dropped
  <1>10. CASE ReconcileRegistrySecrets
    <2>1. Late
      BY <1>10 DEF ReconcileRegistrySecrets, Late
    <2> QED
      BY <1>10, <1>k, <2>1, Zenon DEF ReconcileRegistrySecrets
  <1>11. CASE SecretMissing \/ CallFails
    BY <1>11, <1>f, <1>u, Zenon DEF SecretMissing, CallFails
  <1>12. CASE Finish
    <2>1. Late /\ UNCHANGED <<secret, view>>
      BY <1>12 DEF Finish, Late
    <2> QED
      BY <1>u, <2>1, Zenon
  <1>13. CASE Start
    <2>1. ~Late' /\ UNCHANGED <<secret, view>>
      BY <1>13 DEF Start, Late
    <2> QED
      BY <1>u, <2>1, Zenon
  <1>14. CASE Restart
    <2>1. /\ view' = secret' /\ ~Late'
          /\ secret' = IF ~sts THEN secret
                       ELSE IF secret.there THEN EnvCreds(secret) ELSE EnvSecret
      BY <1>14 DEF Restart, Late
    <2>2. IsSTS(secret)' => ~secret'.crlf
      BY <1>2, <1>t, <2>1, EnvCredsParts, PlainSecrets, Zenon DEF RegionParts, Clean, IsSTS
    <2> QED
      BY <2>1, <2>2, Zenon DEF RegionParts, Clean, Dropped, IsSTS
  <1>15. CASE UNCHANGED vars \/ InformRegistry
    <2>1. UNCHANGED <<secret, view, pc, queued>>
      BY <1>15, Zenon DEF vars, InformRegistry
    <2> QED
      BY <1>p, <1>u, <2>1, Zenon
  <1> QED
    BY <1>3, <1>4, <1>5, <1>6, <1>7, <1>8, <1>9, <1>10, <1>11, <1>12, <1>13, <1>14, <1>15, Zenon
    DEF Next, Worker

(* RegionAtRest of the runs: as long as no CloudStorage is reconciled and  *)
(* no call fails, STS credentials have their region at rest, although each *)
(* restart writes them without it.                                         *)
THEOREM RegionIsThere == Spec => []RegionAtRest
  <1>1. Init => RegionInv
    <2> SUFFICES ASSUME Init PROVE RegionHolds
      BY Zenon DEF RegionInv
    <2>1. /\ flow = "idle" /\ view = secret /\ pc = "idle" /\ queued = TRUE
          /\ secret = IF sts THEN EnvSecret ELSE NoSecret
      BY DEF Init
    <2>2. secret.crlf = FALSE
      BY <2>1, PlainSecrets, Zenon
    <2> QED
      BY <2>1, <2>2, Zenon DEF RegionHolds
  <1>2. IInv /\ RegionInv /\ [Next]_vars => RegionInv'
    BY RegionStep
  <1>3. IInv /\ RegionInv => RegionAtRest
    <2> SUFFICES ASSUME IInv, RegionInv, Unspent({"syncs", "faults"}), Quiescent, IsSTS(secret)
                 PROVE  secret.region
      BY Zenon DEF RegionAtRest, RegionKept
    <2>1. secret.there /\ pc = "idle" /\ ~queued
      BY Zenon DEF IInv, LabelsHold, Labelled, Quiescent
    <2> QED
      BY <2>1, Zenon DEF RegionInv, RegionHolds
  <1> QED
    BY <1>1, <1>2, <1>3, Invariant, PTL DEF Spec

-----------------------------------------------------------------------------
(* As long as the secret is only created and deleted, no CloudStorage is   *)
(* reconciled and no call fails, a registry secret made while the cache    *)
(* showed the last one stays the copy of the provider secret.              *)
LEMMA RegistryStep ==
    ASSUME IInv, RegistryInv, pc = "registry" => copy = registry, [Next]_vars
    PROVE  RegistryInv'
  <1> DEFINE S == {"updates", "syncs", "faults"}
  <1> SUFFICES ASSUME Unspent(S)' PROVE RegistryHolds'
    BY Zenon DEF RegistryInv
  <1>s. S \in SUBSET Whats
    BY DEF Whats
  <1>1. Unspent(S) /\ ~Spend("syncs") /\ ~Spend("faults") /\ ~Spend("updates")
    <2> HIDE DEF S
    <2>1. Unspent(S) /\ \A w \in S : ~Spend(w)
      BY <1>s, UnspentStep, Zenon
    <2> QED
      BY <2>1 DEF S
  <1>2. RegistryHolds /\ flow = "idle"
    BY <1>1, Zenon DEF RegistryInv, RegistryHolds
  <1>3. flow' = "idle" /\ ~Flow
    BY <1>1, <1>2, FlowRests, Zenon
  <1> HIDE DEF S
  <1>t. /\ secret \in Secrets /\ view \in Secrets /\ TypeOK /\ NoRole /\ LabelsStay
        /\ LabelsHold
    BY Zenon DEF IInv, TypeOK
  <1>k. queued' \/ (Labelled \/ event = "wake" => Labelled' \/ event' = "wake")
    BY <1>t, SecretStep, Zenon
  <1> DEFINE Past == pc \in {"status", "idle"}
             Right == queued \/ event = "wake" \/ registry = secret.creds
  <1> SUFFICES Past' => Right'
    BY <1>3, Zenon DEF RegistryHolds
  <1>r. Past => Right
    BY <1>2, Zenon DEF RegistryHolds
  <1>h. Past => queued \/ event = "wake" \/ Labelled
    BY <1>t, Zenon DEF LabelsHold
  <1>u. ASSUME UNCHANGED <<pc, secret, event, registry>>, queued => queued' PROVE Past' => Right'
    BY <1>r, <1>u, Zenon
  <1>q. ASSUME queued' = TRUE \/ pc' \in {"validate", "label", "region", "registry"}
        PROVE  Past' => Right'
    BY <1>q
  <1>g. ASSUME Past => ~Labelled', UNCHANGED <<pc, queued>> PROVE Past' => Right'
    BY <1>g, <1>h, <1>k, Zenon
  <1>4. ASSUME NEW creds \in UserCreds, NEW crlf \in BOOLEAN, UserWrite(creds, crlf)
        PROVE  Past' => Right'
    <2>1. ~secret.there /\ UNCHANGED <<pc, queued>>
      BY <1>1, <1>4, Zenon DEF UserWrite
    <2>2. ~secret.labelled
      BY <1>t, <2>1, Zenon DEF LabelsStay
    <2>3. PICK new : new = WithCreds([secret EXCEPT !.there = TRUE], creds, FALSE, crlf)
      BY Zenon
    <2>4. new.labelled = secret.labelled
      BY <1>t, <2>3, UserSecret, ZenonT(30)
    <2>5. secret' = new
      BY <1>4, <2>3, Zenon DEF UserWrite, Store
    <2> QED
      BY <1>g, <2>1, <2>2, <2>4, <2>5, Zenon DEF Labelled
  <1>5. CASE UserDelete
    <2>1. secret' = NoSecret /\ UNCHANGED <<pc, queued>>
      BY <1>5 DEF UserDelete, Store
    <2> QED
      BY <1>g, <2>1, PlainSecrets, Zenon DEF Labelled
  <1>6. CASE Inform
    <2>1. UNCHANGED <<pc, secret, registry>> /\ queued' = (queued \/ event = "wake")
      BY <1>6 DEF Inform
    <2> QED
      BY <1>r, <2>1, Zenon
  <1>7. CASE InformRegistry \/ UNCHANGED vars
    <2>1. UNCHANGED <<pc, secret, event, registry, queued>>
      BY <1>7, Zenon DEF InformRegistry, vars
    <2> QED
      BY <1>u, <2>1, Zenon
  <1>8. CASE Start \/ Restart \/ SecretMissing \/ CallFails
    BY <1>8, <1>q, Zenon DEF Start, Restart, SecretMissing, CallFails, Fail
  <1>9. CASE ValidateSecret \/ UpdateCredentialsSecretLabels \/ PatchRegion
    <2>1. Fail \/ Continue("label") \/ Continue("region") \/ Continue("registry")
      BY <1>9, Zenon DEF ValidateSecret, UpdateCredentialsSecretLabels, PatchRegion
    <2> QED
      BY <1>q, <2>1, Zenon DEF Fail, Continue
  <1>10. CASE ReconcileRegistrySecrets
    <2>1. PICK r \in getProviderSecret :
            /\ Returned(r) /\ Store(r.live)
            /\ IF NeedsCopy(r.got.creds) /\ copy = "none" /\ registry # "none"
               THEN Fail /\ UNCHANGED registry
               ELSE /\ registry' = IF NeedsCopy(r.got.creds) THEN r.got.creds ELSE registry
                    /\ Continue("status")
      BY <1>10, Zenon DEF ReconcileRegistrySecrets
    <2>2. pc = "registry" /\ copy = registry
      BY <1>10 DEF ReconcileRegistrySecrets
    <2>3. CASE Fail
      BY <1>q, <2>3 DEF Fail
    <2>4. CASE /\ registry' = IF NeedsCopy(r.got.creds) THEN r.got.creds ELSE registry
               /\ Continue("status")
      <3>1. registry' = r.got.creds
        BY <2>2, <2>4 DEF NeedsCopy
      <3>2. /\ r.got = r.live \/ r.fault \/ ~secret.there
            /\ r.live.there = secret.there
        BY <1>t, <2>1, Provided, Zenon DEF Returned
      <3>3. ~r.fault
        BY <1>1, <2>1, Zenon DEF Returned
      <3>4. secret' = r.live
        BY <2>1 DEF Store
      <3>5. CASE r.got = r.live
        BY <3>1, <3>4, <3>5
      <3>6. CASE ~secret.there
        <4>1. queued \/ event = "wake"
          BY <1>t, <2>2, <3>6, Zenon DEF LabelsHold, Labelled
        <4>2. ~Labelled' /\ queued' = queued
          <5>1. queued' = queued
            BY <2>4 DEF Continue
          <5> QED
            BY <3>2, <3>4, <3>6, <5>1, Zenon DEF Labelled
        <4> QED
          BY <1>k, <4>1, <4>2, Zenon
      <3> QED
        BY <3>2, <3>3, <3>5, <3>6, Zenon
    <2> QED
      BY <2>1, <2>3, <2>4, Zenon
  <1>11. CASE Finish
    <2>1. pc = "status" /\ UNCHANGED <<secret, event, queued, registry>>
      BY <1>11 DEF Finish
    <2> QED
      BY <1>r, <2>1, Zenon
  <1> QED
    BY <1>3, <1>4, <1>5, <1>6, <1>7, <1>8, <1>9, <1>10, <1>11, Zenon DEF Next, Worker

(* RegistryAtRest of the runs: under these conditions the registry secret  *)
(* holds the credentials of the provider secret at rest.                   *)
THEOREM RegistryIsCurrent == Spec => RegistryAtRest
  <1>1. Init => RegistryInv
    BY Zenon DEF Init, RegistryInv, RegistryHolds
  <1>2. IInv /\ RegistryInv /\ (pc = "registry" => copy = registry) /\ [Next]_vars
            => RegistryInv'
    BY RegistryStep
  <1>3. RegistryInv => (Unspent({"updates", "syncs", "faults"}) => RegistryCurrent)
    BY Zenon DEF RegistryInv, RegistryHolds, RegistryCurrent, Quiescent
  <1> QED
    BY <1>1, <1>2, <1>3, Invariant, PTL DEF Spec, RegistryAtRest
=============================================================================
