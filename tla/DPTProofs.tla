----------------------------- MODULE DPTProofs -----------------------------
(***************************************************************************)
(* Proofs about the DataProtectionTest controller: that runSnapshotTests   *)
(* loses no result and no error and counts none twice, for any number of   *)
(* snapshot tests (SnapshotTests), and the protocol of phase and forceRun, *)
(* for any number of requests, edits, failing calls and restarts and any   *)
(* number of attempts per status write (DataProtectionTest).               *)
(***************************************************************************)
EXTENDS SnapshotTests, DataProtectionTest, FiniteSetTheorems, TLAPS

-----------------------------------------------------------------------------
(* The snapshot tests.                                                     *)

(* The sets the lists and the wait group are compared with are finite,     *)
(* since the spec holds N configurations.                                  *)
LEMMA Finite ==
  /\ IsFiniteSet(Complete)
  /\ IsFiniteSet(UnderWay) /\ IsFiniteSet(Done)
  /\ IsFiniteSet(Passed) /\ IsFiniteSet(Reported)
  <1>1. IsFiniteSet(Tests)
    BY FS_Interval, ConfigAssumption DEF Tests
  <1>2. \A T \in SUBSET Tests : IsFiniteSet(T)
    BY <1>1, FS_Subset
  <1> QED
    BY <1>2 DEF Complete, UnderWay, Done, Passed, Reported

(* The positions of the results that passed are finitely many.             *)
LEMMA FiniteResults ==
  ASSUME NEW s \in Seq(Tests \X {"Ready", "Failed"})
  PROVE  IsFiniteSet({k \in DOMAIN s : s[k][2] = "Ready"})
  <1>1. DOMAIN s = 1..Len(s) /\ Len(s) \in Nat
    OBVIOUS
  <1>2. IsFiniteSet(DOMAIN s)
    BY <1>1, FS_Interval
  <1> QED
    BY <1>2, FS_Subset

(* A step of a goroutine that neither starts nor ends it and leaves both   *)
(* lists alone keeps what the invariant says of the lists and counters.    *)
LEMMA Steady ==
  ASSUME TestsInv, NEW i \in Tests, at[i] \notin {"none", "done"},
         NEW v \in PCs \ {"none", "done"}, at' = [at EXCEPT ![i] = v],
         NEW s, status' = [status EXCEPT ![i] = s],
         Reported' = Reported,
         UNCHANGED <<main, wg, results, combined, summary>>
  PROVE  /\ ErrorInv' /\ ResultInv' /\ wg' = Cardinality(UnderWay')
         /\ (Returned => wg = 0 /\ summary = <<Cardinality(ReadyResults), Len(results)>>)'
  <1>1. UnderWay' = UnderWay /\ Done' = Done
    BY ZenonT(30) DEF TestsInv, TestsTypeOK, UnderWay, Done, PCs
  <1>2. \A j \in Done : j # i /\ status'[j] = status[j]
    BY DEF TestsInv, TestsTypeOK, Done
  <1>3. Passed' = Passed
    BY <1>1, <1>2 DEF Passed
  <1>4. ReadyResults' = ReadyResults
    BY DEF ReadyResults
  <1>5. ErrorInv'
    BY DEF TestsInv, ErrorInv
  <1>6. ResultInv'
    BY <1>1, <1>2, <1>3, <1>4 DEF TestsInv, ResultInv
  <1>7. wg' = Cardinality(UnderWay')
    BY <1>1 DEF TestsInv, LoopInv
  <1>8. (Returned => wg = 0 /\ summary = <<Cardinality(ReadyResults), Len(results)>>)'
    BY <1>4 DEF TestsInv, Returned
  <1> QED
    BY <1>5, <1>6, <1>7, <1>8

(* The loop starts a goroutine, or skips a configuration that misses a     *)
(* field.                                                                  *)
LEMMA LaunchKeeps ==
  ASSUME TestsInv, Launch
  PROVE  TestsInv'
  <1>0. /\ main \in Tests /\ main' = main + 1
        /\ main' \in 1..N + 2 /\ main' # N + 2
        /\ \A j \in Tests : j >= main' <=> j >= main /\ j # main
        /\ main >= main
    BY ConfigAssumption DEF Launch, Tests
  <1>1. CASE main \in Incomplete
    <2>1. UNCHANGED <<UnderWay, Done, Passed, Reported, ReadyResults>>
      BY <1>1 DEF Launch, UnderWay, Done, Passed, Reported, ReadyResults
    <2>2. TestsTypeOK'
      BY <1>0, <1>1 DEF TestsInv, Launch, TestsTypeOK
    <2>3. LoopInv'
      BY <1>0, <1>1, <2>1 DEF TestsInv, Launch, LoopInv
    <2>4. LockInv' /\ ErrorInv'
      BY <1>1, <2>1 DEF TestsInv, Launch, LockInv, ErrorInv
    <2>5. ResultInv'
      BY <1>1, <2>1 DEF TestsInv, Launch, ResultInv
    <2>6. ~Returned'
      BY <1>0 DEF Returned
    <2> QED
      BY <2>2, <2>3, <2>4, <2>5, <2>6 DEF TestsInv
  <1>2. CASE main \notin Incomplete
    <2>1. at[main] = "none" /\ main \notin UnderWay /\ status[main] = ""
      BY <1>0, <1>2 DEF TestsInv, LoopInv, UnderWay
    <2>2. UnderWay' = UnderWay \cup {main}
      BY <1>0, <1>2, Zenon DEF TestsInv, Launch, TestsTypeOK, UnderWay, PCs
    <2>3. UNCHANGED <<Done, Passed, Reported, ReadyResults>>
      BY <1>0, <1>2, <2>1, ZenonT(30) DEF TestsInv, Launch, TestsTypeOK, Done, Passed, Reported, ReadyResults
    <2>4. wg' = Cardinality(UnderWay')
      BY <1>2, <2>1, <2>2, Finite, FS_AddElement, ZenonT(30) DEF TestsInv, Launch, LoopInv
    <2>5. wg' \in 0..Cardinality(Complete)
      <3>1. UnderWay' \subseteq Complete
        BY <1>0, <1>2, <2>2 DEF TestsInv, LoopInv, UnderWay, Complete
      <3>2. Cardinality(UnderWay') <= Cardinality(Complete) /\ IsFiniteSet(UnderWay')
        BY <3>1, Finite, FS_Subset
      <3> QED
        BY <2>4, <3>2, Finite, FS_CardinalityType
    <2>6. TestsTypeOK'
      BY <1>0, <1>2, <2>5 DEF TestsInv, Launch, TestsTypeOK, PCs
    <2>7. \A j \in Tests : at'[j] = IF j = main THEN "create" ELSE at[j]
      BY <1>0, <1>2 DEF TestsInv, Launch, TestsTypeOK
    <2>8. LoopInv' /\ LockInv'
      <3>1. LoopInv'
        BY <1>0, <1>2, <2>1, <2>4, <2>7 DEF TestsInv, Launch, LoopInv
      <3>2. LockInv'
        BY <2>1, <2>7, Zenon DEF TestsInv, Launch, LockInv
      <3> QED
        BY <3>1, <3>2
    <2>9. ErrorInv'
      BY <1>2, <2>3 DEF TestsInv, Launch, ErrorInv
    <2>10. ResultInv'
      BY <1>2, <2>3 DEF TestsInv, Launch, ResultInv
    <2>11. ~Returned'
      BY <1>0 DEF Returned
    <2> QED
      BY <2>6, <2>8, <2>9, <2>10, <2>11 DEF TestsInv
  <1> QED
    BY <1>1, <1>2

(* A step of a goroutine that reports nothing: it creates its snapshot,    *)
(* concludes its wait, takes a mutex or reads a list.                      *)
LEMMA QuietKeeps ==
  ASSUME TestsInv, NEW i \in Tests,
         \/ createVolumeSnapshot(i)
         \/ SnapshotReady(i) \/ GetFails(i) \/ TimedOut(i)
         \/ LockErr(i) \/ ReadErr(i) \/ Lock(i) \/ ReadResults(i)
  PROVE  TestsInv'
  <1> USE DEF TestsInv
  <1>1. ASSUME createVolumeSnapshot(i)
        PROVE  TestsInv'
    <2>1. PICK v \in {"wait", "errLock"}, s \in {"", "Failed"} :
             /\ at[i] = "create" /\ status[i] = ""
             /\ at' = [at EXCEPT ![i] = v] /\ status' = [status EXCEPT ![i] = s]
             /\ v = "wait" <=> s = ""
             /\ snap' \in [Tests -> {"none", "pending", "ready"}]
      <3>1. at[i] = "create" /\ status[i] = ""
        BY <1>1 DEF createVolumeSnapshot, LoopInv
      <3>2. CASE /\ at' = [at EXCEPT ![i] = "wait"]
                 /\ snap' = [snap EXCEPT ![i] = "pending"] /\ UNCHANGED status
        <4>1. status' = [status EXCEPT ![i] = ""]
          BY <3>1, <3>2 DEF TestsTypeOK
        <4> QED
          BY <3>1, <3>2, <4>1 DEF TestsTypeOK
      <3>3. CASE /\ at' = [at EXCEPT ![i] = "errLock"]
                 /\ status' = [status EXCEPT ![i] = "Failed"] /\ UNCHANGED snap
        BY <3>1, <3>3 DEF TestsTypeOK
      <3> QED
        BY <1>1, <3>2, <3>3 DEF createVolumeSnapshot
    <2>2. Reported' = Reported
      BY <2>1 DEF Reported, TestsTypeOK
    <2>3. TestsTypeOK'
      BY <1>1, <2>1 DEF createVolumeSnapshot, TestsTypeOK, PCs
    <2>4. LockInv'
      BY <1>1, <2>1 DEF createVolumeSnapshot, LockInv, TestsTypeOK
    <2>5. /\ ErrorInv' /\ ResultInv' /\ wg' = Cardinality(UnderWay')
          /\ (Returned => wg = 0 /\ summary = <<Cardinality(ReadyResults), Len(results)>>)'
      BY <1>1, <2>1, <2>2, Steady DEF createVolumeSnapshot, PCs
    <2>6. LoopInv'
      <3>1. \A j \in Tests : /\ at'[j] = IF j = i THEN v ELSE at[j]
                             /\ status'[j] = IF j = i THEN s ELSE status[j]
        BY <2>1 DEF TestsTypeOK
      <3>2. main' = main
        BY <1>1 DEF createVolumeSnapshot
      <3>3. LoopInv
        OBVIOUS
      <3> HIDE DEF TestsInv
      <3>4. \A j \in Tests : at'[j] = "none" <=> j >= main' \/ j \in Incomplete
        <4>1. \A j \in Tests \ {i} : at'[j] = "none" <=> j >= main' \/ j \in Incomplete
          BY <3>1, <3>2, <3>3 DEF LoopInv
        <4>2. at'[i] # "none" /\ at[i] # "none"
          BY <2>1, <3>1
        <4>3. ~(i >= main' \/ i \in Incomplete)
          BY <3>2, <3>3, <4>2 DEF LoopInv
        <4> QED
          BY <4>1, <4>2, <4>3
      <3>5. \A j \in Tests : at'[j] \in {"none", "create", "wait"} <=> status'[j] = ""
        <4>1. \A j \in Tests \ {i} :
                 at'[j] \in {"none", "create", "wait"} <=> status'[j] = ""
          BY <3>1, <3>3 DEF LoopInv
        <4>2. at'[i] \in {"none", "create", "wait"} <=> status'[i] = ""
          BY <2>1, <3>1
        <4> QED
          BY <4>1, <4>2
      <3>6. \A j \in Tests : at'[j] \in {"errLock", "errRead", "errWrite"}
                                 => status'[j] = "Failed"
        <4>1. \A j \in Tests \ {i} : at'[j] \in {"errLock", "errRead", "errWrite"}
                                         => status'[j] = "Failed"
          BY <3>1, <3>3 DEF LoopInv
        <4>2. at'[i] \in {"errLock", "errRead", "errWrite"} => status'[i] = "Failed"
          BY <2>1, <3>1
        <4> QED
          BY <4>1, <4>2
      <3> QED
        BY <2>5, <3>4, <3>5, <3>6 DEF LoopInv
    <2> QED
      BY <2>3, <2>4, <2>5, <2>6
  <1>2. ASSUME SnapshotReady(i) \/ GetFails(i) \/ TimedOut(i)
        PROVE  TestsInv'
    <2>1. PICK v \in {"lock", "errLock"}, s \in {"Ready", "Failed"} :
             /\ at[i] = "wait" /\ status[i] = ""
             /\ at' = [at EXCEPT ![i] = v] /\ status' = [status EXCEPT ![i] = s]
             /\ v = "lock" <=> s = "Ready"
             /\ UNCHANGED <<main, wg, snap, expired, mu, errMu, results, combined, seen, summary>>
      BY <1>2 DEF SnapshotReady, GetFails, TimedOut, Conclude, LoopInv
    <2>2. Reported' = Reported
      BY <2>1 DEF Reported, TestsTypeOK
    <2>3. TestsTypeOK'
      BY <2>1 DEF TestsTypeOK, PCs
    <2>4. LockInv'
      BY <2>1, ZenonT(30) DEF LockInv, TestsTypeOK
    <2>5. /\ ErrorInv' /\ ResultInv' /\ wg' = Cardinality(UnderWay')
          /\ (Returned => wg = 0 /\ summary = <<Cardinality(ReadyResults), Len(results)>>)'
      BY <2>1, <2>2, Steady DEF PCs
    <2>6. LoopInv'
      BY <2>1, <2>5, ZenonT(30) DEF LoopInv, TestsTypeOK
    <2> QED
      BY <2>3, <2>4, <2>5, <2>6, SMTT(30)
  <1>3. ASSUME LockErr(i) \/ ReadErr(i) \/ Lock(i) \/ ReadResults(i)
        PROVE  TestsInv'
    <2>1. PICK v \in {"errRead", "errWrite", "read", "append"} :
             /\ at' = [at EXCEPT ![i] = v]
             /\ at[i] \in {"errLock", "errRead", "lock", "read"}
             /\ v \in {"read", "append"} <=> at[i] \in {"lock", "read"}
             /\ UNCHANGED <<main, wg, snap, expired, status, results, combined, summary>>
      BY <1>3 DEF LockErr, ReadErr, Lock, ReadResults
    <2>2. status' = [status EXCEPT ![i] = status[i]]
      BY <2>1 DEF TestsTypeOK
    <2>3. Reported' = Reported
      BY <2>1 DEF Reported, TestsTypeOK
    <2>4. TestsTypeOK'
      <3>1. mu' \in 0..N /\ errMu' \in 0..N
        <4>1. i \in 0..N
          BY ConfigAssumption DEF Tests
        <4> QED
          BY <1>3, <4>1 DEF LockErr, ReadErr, Lock, ReadResults, TestsTypeOK
      <3> QED
        BY <2>1, <3>1, Zenon DEF TestsTypeOK, PCs
    <2>5. LockInv'
      <3>1. 0 \notin Tests
        BY DEF Tests
      <3>2. CASE LockErr(i)
        BY <3>1, <3>2 DEF LockErr, Free, LockInv, TestsTypeOK
      <3>3. CASE ReadErr(i)
        BY <3>3, Zenon DEF ReadErr, LockInv, TestsTypeOK
      <3>4. CASE Lock(i)
        BY <3>1, <3>4 DEF Lock, Free, LockInv, TestsTypeOK
      <3>5. CASE ReadResults(i)
        BY <3>5 DEF ReadResults, LockInv, TestsTypeOK
      <3> QED
        BY <1>3, <3>2, <3>3, <3>4, <3>5
    <2>6. /\ ErrorInv' /\ ResultInv' /\ wg' = Cardinality(UnderWay')
          /\ (Returned => wg = 0 /\ summary = <<Cardinality(ReadyResults), Len(results)>>)'
      BY <2>1, <2>2, <2>3, Steady, Zenon DEF PCs
    <2>7. LoopInv'
      BY <2>1, <2>6, ZenonT(30) DEF LoopInv, TestsTypeOK
    <2> QED
      BY <2>4, <2>5, <2>6, <2>7
  <1> QED
    BY <1>1, <1>2, <1>3

(* What Append does to positions.                                          *)
LEMMA AppendAt ==
  ASSUME NEW S, NEW s \in Seq(S), NEW e \in S
  PROVE  /\ Append(s, e) \in Seq(S)
         /\ Len(s) \in Nat /\ Len(Append(s, e)) = Len(s) + 1
         /\ Len(s) + 1 \notin DOMAIN s
         /\ DOMAIN Append(s, e) = DOMAIN s \cup {Len(s) + 1}
         /\ \A k \in DOMAIN s : Append(s, e)[k] = s[k]
         /\ Append(s, e)[Len(s) + 1] = e
  OBVIOUS

(* The list of errors gets the goroutine's configuration, which was not    *)
(* in it: what was read under the mutex is still the list's value.         *)
LEMMA AppendErrKeeps ==
  ASSUME TestsInv, NEW i \in Tests, AppendErr(i)
  PROVE  TestsInv'
  <1> USE DEF TestsInv
  <1>1. /\ at[i] = "errWrite" /\ status[i] = "Failed" /\ errMu = i /\ seen[i] = combined
        /\ combined \in Seq(Tests)
        /\ combined' = Append(combined, i)
    BY DEF AppendErr, LockInv, LoopInv, TestsTypeOK
  <1>2. \A j \in Tests : at'[j] = IF j = i THEN "lock" ELSE at[j]
    BY DEF AppendErr, TestsTypeOK
  <1>3. UNCHANGED <<main, wg, status, results, summary, mu>> /\ errMu' = 0
    BY DEF AppendErr
  <1>4. UnderWay' = UnderWay /\ Done' = Done /\ Passed' = Passed /\ ReadyResults' = ReadyResults
    BY <1>1, <1>2, <1>3 DEF UnderWay, Done, Passed, ReadyResults
  <1>5. Reported' = Reported \cup {i} /\ i \notin Reported
    BY <1>1, <1>2, <1>3 DEF Reported
  <1>6. TestsTypeOK'
    <2>1. errMu' \in 0..N
      BY <1>3, ConfigAssumption
    <2>2. combined' \in Seq(Tests)
      BY <1>1, AppendAt
    <2> QED
      BY <1>3, <2>1, <2>2 DEF AppendErr, TestsTypeOK, PCs
  <1>7. LoopInv'
    BY <1>1, <1>2, <1>3, <1>4, ZenonT(30) DEF LoopInv
  <1>8. LockInv'
    <2>1. 0 \notin Tests
      BY DEF Tests
    <2>2. DOMAIN seen' = Tests /\ \A j \in Tests \ {i} : seen'[j] = seen[j]
      BY DEF AppendErr, LockInv
    <2>3. \A j \in Tests : at'[j] \notin {"errRead", "errWrite"}
      BY <1>1, <1>2 DEF LockInv
    <2> QED
      BY <1>1, <1>2, <1>3, <2>1, <2>2, <2>3, SMTT(30) DEF LockInv
  <1>9. ErrorInv'
    <2>1. {combined'[k] : k \in DOMAIN combined'}
             = {combined[k] : k \in DOMAIN combined} \cup {i}
      BY <1>1, AppendAt
    <2>2. Len(combined') = Len(combined) + 1
      BY <1>1, AppendAt
    <2>3. Cardinality(Reported \cup {i}) = Cardinality(Reported) + 1
      BY <1>5, Finite, FS_AddElement, ZenonT(30)
    <2> QED
      BY <1>5, <2>1, <2>2, <2>3, Zenon DEF ErrorInv
  <1>10. ResultInv'
    BY <1>3, <1>4 DEF ResultInv
  <1>11. (Returned => wg = 0 /\ summary = <<Cardinality(ReadyResults), Len(results)>>)'
    BY <1>3, <1>4 DEF Returned
  <1> QED
    BY <1>6, <1>7, <1>8, <1>9, <1>10, <1>11

(* The list of results gets the goroutine's only one, and the wait group   *)
(* is one goroutine down.                                                  *)
LEMMA AppendResultKeeps ==
  ASSUME TestsInv, NEW i \in Tests, AppendResult(i)
  PROVE  TestsInv'
  <1> USE DEF TestsInv
  <1> DEFINE e == <<i, status[i]>>
             n == Len(results) + 1
  <1>1. /\ at[i] = "append" /\ status[i] \in {"Ready", "Failed"}
        /\ mu = i /\ seen[i] = results
        /\ results \in Seq(Tests \X {"Ready", "Failed"})
        /\ e \in Tests \X {"Ready", "Failed"}
        /\ results' = Append(results, e)
    BY Zenon DEF AppendResult, LockInv, LoopInv, TestsTypeOK
  <1>2. \A j \in Tests : at'[j] = IF j = i THEN "done" ELSE at[j]
    BY DEF AppendResult, TestsTypeOK
  <1>3. UNCHANGED <<main, status, combined, summary, errMu>> /\ mu' = 0
    BY DEF AppendResult
  <1>4. /\ Done' = Done \cup {i} /\ i \notin Done
        /\ UnderWay' = UnderWay \ {i} /\ i \in UnderWay
        /\ Reported' = Reported
    BY <1>1, <1>2, <1>3, SMTT(30) DEF Done, UnderWay, Reported
  <1>5. Passed' = IF status[i] = "Ready" THEN Passed \cup {i} ELSE Passed
    BY <1>3, <1>4 DEF Passed
  <1>6. i \notin Passed
    BY <1>4 DEF Passed
  <1>7. /\ results' \in Seq(Tests \X {"Ready", "Failed"})
        /\ Len(results) \in Nat /\ Len(results') = n /\ n \notin DOMAIN results
        /\ DOMAIN results' = DOMAIN results \cup {n}
        /\ \A k \in DOMAIN results : results'[k] = results[k]
        /\ results'[n] = e
    BY <1>1, AppendAt
  <1> HIDE DEF e, n
  <1>8. e[1] = i /\ e[2] = status[i]
    BY DEF e
  <1>9. ReadyResults' = IF status[i] = "Ready" THEN ReadyResults \cup {n} ELSE ReadyResults
    BY <1>7, <1>8 DEF ReadyResults
  <1>10. n \notin ReadyResults /\ IsFiniteSet(ReadyResults)
    BY <1>1, <1>7, FiniteResults DEF ReadyResults
  <1>11. /\ wg' = wg - 1 /\ wg = Cardinality(UnderWay)
         /\ wg \in Nat /\ wg >= 1 /\ wg' = Cardinality(UnderWay')
    <2>1. wg' = wg - 1 /\ wg = Cardinality(UnderWay)
      BY DEF AppendResult, LoopInv
    <2>2. Cardinality(UnderWay \ {i}) = Cardinality(UnderWay) - 1
      BY <1>4, Finite, FS_RemoveElement, ZenonT(30)
    <2>3. IsFiniteSet(UnderWay \ {i})
      BY <1>4, Finite, FS_RemoveElement
    <2>4. Cardinality(UnderWay) \in Nat /\ Cardinality(UnderWay \ {i}) \in Nat
      BY <2>3, Finite, FS_CardinalityType
    <2> QED
      BY <1>4, <2>1, <2>2, <2>4, SMTT(30)
  <1>12. TestsTypeOK'
    <2>1. mu' \in 0..N
      BY <1>3, ConfigAssumption
    <2>2. wg' \in 0..Cardinality(Complete)
      <3>1. Cardinality(Complete) \in Nat /\ wg \in 0..Cardinality(Complete)
        BY Finite, FS_CardinalityType DEF TestsTypeOK
      <3> QED
        BY <1>11, <3>1
    <2> QED
      BY <1>3, <1>7, <2>1, <2>2 DEF AppendResult, TestsTypeOK, PCs
  <1>13. LoopInv'
    BY <1>1, <1>2, <1>3, <1>11, ZenonT(30) DEF LoopInv
  <1>14. LockInv'
    <2>1. 0 \notin Tests
      BY DEF Tests
    <2>2. DOMAIN seen' = Tests /\ \A j \in Tests \ {i} : seen'[j] = seen[j]
      BY DEF AppendResult, LockInv
    <2>3. \A j \in Tests : at'[j] \notin {"read", "append"}
      BY <1>1, <1>2, SMTT(30) DEF LockInv
    <2> QED
      BY <1>1, <1>2, <1>3, <2>1, <2>2, <2>3, SMTT(30) DEF LockInv
  <1>15. ErrorInv'
    BY <1>3, <1>4, SMTT(30) DEF ErrorInv
  <1>16. ResultInv'
    <2>1. \A k \in DOMAIN results' : /\ results'[k][1] \in Done'
                                     /\ results'[k][2] = status'[results'[k][1]]
      BY <1>3, <1>4, <1>7, <1>8, SMTT(30) DEF ResultInv
    <2>2. \A j \in Done' : \E k \in DOMAIN results' : results'[k][1] = j
      BY <1>4, <1>7, <1>8, SMTT(30) DEF ResultInv
    <2>3. \A k, l \in DOMAIN results' : results'[k][1] = results'[l][1] => k = l
      BY <1>4, <1>7, <1>8, SMTT(30) DEF ResultInv
    <2>4. Len(results') = Cardinality(Done')
      <3>1. Cardinality(Done \cup {i}) = Cardinality(Done) + 1
        BY <1>4, Finite, FS_AddElement, Zenon
      <3> QED
        BY <1>4, <1>7, <3>1 DEF ResultInv, n
    <2>5. Cardinality(ReadyResults') = Cardinality(Passed')
      <3>1. Cardinality(Passed \cup {i}) = Cardinality(Passed) + 1
        BY <1>6, Finite, FS_AddElement, Zenon
      <3>2. Cardinality(ReadyResults \cup {n}) = Cardinality(ReadyResults) + 1
        BY <1>10, FS_AddElement
      <3> QED
        BY <1>5, <1>9, <3>1, <3>2 DEF ResultInv
    <2> QED
      BY <2>1, <2>2, <2>3, <2>4, <2>5, SMTT(30) DEF ResultInv
  <1>17. ~Returned'
    BY <1>3, <1>11 DEF Returned
  <1> QED
    BY <1>12, <1>13, <1>14, <1>15, <1>16, <1>17

(* wg.Wait returns and the results are counted.                            *)
LEMMA SummarizeKeeps ==
  ASSUME TestsInv, Summarize
  PROVE  TestsInv'
  <1> USE DEF TestsInv
  <1>1. UNCHANGED <<wg, at, snap, expired, status, mu, errMu, results, combined, seen>>
    BY DEF Summarize
  <1>2. UNCHANGED <<UnderWay, Done, Passed, Reported, ReadyResults>>
    BY <1>1 DEF UnderWay, Done, Passed, Reported, ReadyResults
  <1>3. main = N + 1 /\ main' = N + 2 /\ wg = 0
    BY DEF Summarize
  <1>4. summary' = <<Cardinality(ReadyResults), Len(results)>>
    BY DEF Summarize, ReadyResults
  <1>5. TestsTypeOK'
    <2>1. main' \in 1..N + 2
      BY <1>3, ConfigAssumption
    <2>2. Cardinality(ReadyResults) \in Nat /\ Len(results) \in Nat
      <3>1. results \in Seq(Tests \X {"Ready", "Failed"})
        BY DEF TestsTypeOK
      <3>2. IsFiniteSet(ReadyResults)
        BY <3>1, FiniteResults DEF ReadyResults
      <3> QED
        BY <3>1, <3>2, FS_CardinalityType
    <2> QED
      BY <1>1, <1>4, <2>1, <2>2 DEF TestsTypeOK
  <1>6. LoopInv'
    <2>1. \A j \in Tests : ~(j >= main) /\ ~(j >= main')
      BY <1>3, ConfigAssumption, SMTT(30) DEF Tests
    <2> QED
      BY <1>1, <1>2, <2>1 DEF LoopInv
  <1>7. LockInv' /\ ErrorInv'
    BY <1>1, <1>2, SMTT(30) DEF LockInv, ErrorInv
  <1>8. ResultInv'
    BY <1>1, <1>2, SMTT(30) DEF ResultInv
  <1> QED
    BY <1>1, <1>2, <1>3, <1>4, <1>5, <1>6, <1>7, <1>8

(* A snapshot becomes ready, a timer fires, or nothing happens.            *)
LEMMA OutsideKeeps ==
  ASSUME TestsInv,
         \/ \E i \in Tests : BecomeReady(i) \/ TimerFires(i)
         \/ UNCHANGED testVars
  PROVE  TestsInv'
  <1> USE DEF TestsInv
  <1>1. UNCHANGED <<main, wg, at, status, mu, errMu, results, combined, seen, summary>>
    BY SMTT(30) DEF BecomeReady, TimerFires, testVars
  <1>2. UNCHANGED <<UnderWay, Done, Passed, Reported, ReadyResults>>
    BY <1>1 DEF UnderWay, Done, Passed, Reported, ReadyResults
  <1>3. TestsTypeOK'
    <2>1. snap' \in [Tests -> {"none", "pending", "ready"}] /\ expired' \subseteq Tests
      BY DEF BecomeReady, TimerFires, testVars, TestsTypeOK
    <2> QED
      BY <1>1, <2>1, Zenon DEF TestsTypeOK
  <1>4. LoopInv'
    BY <1>1, <1>2, ZenonT(30) DEF LoopInv
  <1>5. LockInv' /\ ErrorInv'
    BY <1>1, <1>2, SMTT(30) DEF LockInv, ErrorInv
  <1>6. ResultInv'
    BY <1>1, <1>2 DEF ResultInv
  <1> QED
    BY <1>1, <1>2, <1>3, <1>4, <1>5, <1>6, SMTT(30) DEF Returned

(* The empty list.                                                         *)
LEMMA Empty ==
  ASSUME NEW S
  PROVE  <<>> \in Seq(S) /\ Len(<<>>) = 0 /\ DOMAIN <<>> = {}
  OBVIOUS

(* The invariant holds before the loop begins.                             *)
LEMMA InitEstablishes ==
  ASSUME TestsInit
  PROVE  TestsInv
  <1>1. main = 1 /\ wg = 0 /\ mu = 0 /\ errMu = 0
    BY DEF TestsInit
  <1>2. /\ \A i \in Tests : at[i] = "none" /\ status[i] = "" /\ i >= 1 /\ i # 0
        /\ DOMAIN results = {} /\ Len(results) = 0
        /\ DOMAIN combined = {} /\ Len(combined) = 0
        /\ DOMAIN seen = Tests
    <2>1. \A i \in Tests : at[i] = "none" /\ status[i] = ""
      BY DEF TestsInit
    <2>2. \A i \in Tests : i >= 1 /\ i # 0
      BY DEF Tests
    <2>3. results = <<>> /\ combined = <<>> /\ DOMAIN seen = Tests
      BY DEF TestsInit
    <2> QED
      BY <2>1, <2>2, <2>3, Empty
  <1>3. UnderWay = {} /\ Done = {} /\ Passed = {} /\ Reported = {} /\ ReadyResults = {}
    BY <1>2 DEF UnderWay, Done, Passed, Reported, ReadyResults
  <1>4. Cardinality({}) = 0 /\ Cardinality(Complete) \in Nat
    BY FS_EmptySet, Finite, FS_CardinalityType, SMTT(30)
  <1>5. TestsTypeOK
    <2>1. /\ main \in 1..N + 2 /\ wg \in 0..Cardinality(Complete)
          /\ mu \in 0..N /\ errMu \in 0..N
      BY <1>1, <1>4, ConfigAssumption
    <2>2. /\ at \in [Tests -> PCs] /\ status \in [Tests -> {"", "Ready", "Failed"}]
          /\ snap \in [Tests -> {"none", "pending", "ready"}] /\ expired \subseteq Tests
      BY DEF TestsInit, PCs
    <2>3. results \in Seq(Tests \X {"Ready", "Failed"}) /\ combined \in Seq(Tests)
      BY Empty DEF TestsInit
    <2>4. summary \in Nat \X Nat
      BY DEF TestsInit
    <2> QED
      BY <2>1, <2>2, <2>3, <2>4 DEF TestsTypeOK
  <1>6. LoopInv
    BY <1>1, <1>2, <1>3, <1>4, Zenon DEF LoopInv
  <1>7. LockInv
    BY <1>1, <1>2 DEF LockInv
  <1>8. ErrorInv
    BY <1>2, <1>3, <1>4, Zenon DEF ErrorInv
  <1>9. ResultInv
    BY <1>2, <1>3, <1>4 DEF ResultInv
  <1>10. ~Returned
    BY <1>1, ConfigAssumption DEF Returned
  <1> QED
    BY <1>5, <1>6, <1>7, <1>8, <1>9, <1>10, SMTT(30) DEF TestsInv

-----------------------------------------------------------------------------
(* At every moment of runSnapshotTests the wait group counts the           *)
(* goroutines under way, whoever is in a locked region holds its mutex,    *)
(* and the two lists hold what the goroutines have reported, once each.    *)
THEOREM ListsAreSound == TestsSpec => []TestsInv
  <1>1. TestsInit => TestsInv
    BY InitEstablishes
  <1>2. TestsInv /\ [TestsNext]_testVars => TestsInv'
    <2> SUFFICES ASSUME TestsInv, [TestsNext]_testVars
                 PROVE  TestsInv'
      OBVIOUS
    <2>1. CASE Main
      BY <2>1, LaunchKeeps, SummarizeKeeps DEF Main
    <2>2. ASSUME NEW i \in Tests, Step(i) \/ GetFails(i)
          PROVE  TestsInv'
      BY <2>2, QuietKeeps, AppendErrKeeps, AppendResultKeeps DEF Step
    <2>3. CASE \/ \E i \in Tests : BecomeReady(i) \/ TimerFires(i)
               \/ UNCHANGED testVars
      BY <2>3, OutsideKeeps
    <2> QED
      BY <2>1, <2>2, <2>3 DEF TestsNext
  <1> QED
    BY <1>1, <1>2, PTL DEF TestsSpec

(* After wg.Wait every complete configuration's goroutine is done and no   *)
(* other has begun.                                                        *)
LEMMA AllDone ==
  ASSUME TestsInv, Returned
  PROVE  /\ Done = Complete
         /\ Passed = {i \in Complete : status[i] = "Ready"}
         /\ Reported = {i \in Complete : status[i] = "Failed"}
  <1>1. UnderWay = {}
    BY Finite, FS_EmptySet DEF TestsInv, LoopInv
  <1>2. \A i \in Tests : ~(i >= main)
    BY ConfigAssumption DEF Returned, Tests
  <1>3. \A i \in Tests : at[i] = IF i \in Incomplete THEN "none" ELSE "done"
    BY <1>1, <1>2 DEF TestsInv, LoopInv, UnderWay
  <1>4. Done = Complete
    BY <1>3 DEF Done, Complete
  <1>5. \A i \in Incomplete \cap Tests : status[i] = ""
    BY <1>3 DEF TestsInv, LoopInv
  <1> QED
    BY <1>3, <1>4, <1>5 DEF Passed, Reported, Complete

(* When runSnapshotTests returns, each complete configuration has exactly  *)
(* one result, an incomplete one none, and the summary counts them, for    *)
(* any number of configurations and any order of the goroutines.           *)
THEOREM NoResultLost == TestsSpec => []OneResultEach
  <1>1. TestsInv => OneResultEach
    <2> SUFFICES ASSUME TestsInv, Returned
                 PROVE  /\ \A i \in Tests :
                              Cardinality({k \in DOMAIN results : results[k] = <<i, status[i]>>})
                                = (IF i \in Complete THEN 1 ELSE 0)
                        /\ summary = <<Cardinality({i \in Complete : status[i] = "Ready"}),
                                       Cardinality(Complete)>>
      BY Zenon DEF OneResultEach
    <2>1. \A k \in DOMAIN results : results[k] = <<results[k][1], results[k][2]>>
      <3>1. results \in Seq(Tests \X {"Ready", "Failed"})
        BY DEF TestsInv, TestsTypeOK
      <3>2. \A k \in DOMAIN results : results[k] \in Tests \X {"Ready", "Failed"}
        BY <3>1
      <3> QED
        BY <3>2
    <2>2. ASSUME NEW i \in Complete
          PROVE  Cardinality({k \in DOMAIN results : results[k] = <<i, status[i]>>}) = 1
      <3>1. PICK k \in DOMAIN results : results[k][1] = i
        BY AllDone DEF TestsInv, ResultInv
      <3>2. results[k] = <<i, status[i]>>
        BY <2>1, <3>1 DEF TestsInv, ResultInv
      <3>3. \A l \in DOMAIN results : results[l] = <<i, status[i]>> => l = k
        BY <3>1 DEF TestsInv, ResultInv
      <3>4. {l \in DOMAIN results : results[l] = <<i, status[i]>>} = {k}
        BY <3>2, <3>3
      <3> QED
        BY <3>4, FS_Singleton, Zenon
    <2>3. ASSUME NEW i \in Tests \ Complete
          PROVE  Cardinality({k \in DOMAIN results : results[k] = <<i, status[i]>>}) = 0
      <3>1. {k \in DOMAIN results : results[k] = <<i, status[i]>>} = {}
        BY AllDone, SMTT(30) DEF TestsInv, ResultInv
      <3> QED
        BY <3>1, FS_EmptySet, SMTT(30)
    <2>4. summary = <<Cardinality({i \in Complete : status[i] = "Ready"}), Cardinality(Complete)>>
      BY AllDone, Zenon DEF TestsInv, ResultInv
    <2> QED
      BY <2>2, <2>3, <2>4, Zenon
  <1> QED
    BY <1>1, ListsAreSound, PTL

(* The combined error that runSnapshotTests returns names each failed      *)
(* test once and no other.                                                 *)
THEOREM NoErrorLost == TestsSpec => []ErrorsComplete
  <1>1. TestsInv => ErrorsComplete
    BY AllDone, Zenon DEF TestsInv, ErrorInv, ErrorsComplete
  <1> QED
    BY <1>1, ListsAreSound, PTL

-----------------------------------------------------------------------------
(* The protocol.                                                           *)

Budgets == [asks : Nat, touches : Nat, faults : Nat, restarts : Nat]

Phases == {"", "InProgress"} \cup Ended

(* A DPT is made of a phase, a flag and a version. *)
LEMMA DPTIntro ==
    ASSUME NEW p \in Phases, NEW b \in BOOLEAN, NEW n \in Nat
    PROVE  [phase |-> p, force |-> b, rv |-> n] \in DPTs
  BY Zenon DEF DPTs, Phases

(* Its parts have their types and make it up. *)
LEMMA DPTElim ==
    ASSUME NEW d \in DPTs
    PROVE  /\ d.phase \in Phases /\ d.force \in BOOLEAN /\ d.rv \in Nat /\ d.rv + 1 \in Nat
           /\ d = [phase |-> d.phase, force |-> d.force, rv |-> d.rv]
  <1>1. d.phase \in Phases /\ d.force \in BOOLEAN /\ d.rv \in Nat
    BY Zenon DEF DPTs, Phases
  <1>2. d = [phase |-> d.phase, force |-> d.force, rv |-> d.rv]
    BY DEF DPTs
  <1> QED
    BY <1>1, <1>2

(* Spending keeps the budget well typed. *)
LEMMA SpendType ==
    ASSUME TypeOK, NEW what \in {"asks", "touches", "faults", "restarts"}, Spend(what)
    PROVE  budget' \in Budgets
  <1>1. budget \in Budgets
    BY DEF TypeOK, Budgets
  <1> QED
    BY <1>1 DEF Spend, Budgets

(* What one attempt of RetryOnConflict may do. *)
LEMMA AttemptEffect ==
    ASSUME TypeOK, NEW phase \in {"InProgress"} \cup Ended, NEW failed \in BOOLEAN,
           Attempt(phase, failed)
    PROVE  /\ dpt' \in DPTs /\ tries' \in 0..MaxTries - 1
           /\ \/ dpt' = dpt /\ cache.rv # dpt.rv
                 /\ (UNCHANGED <<pc, err>> \/ (pc' = "return" /\ err' = TRUE))
              \/ dpt'.rv = dpt.rv + 1 /\ pc' = "return" /\ err' = failed
              \/ dpt' = dpt /\ cache.rv = dpt.rv /\ dpt.phase = phase
                 /\ pc' = "return" /\ err' = failed
  <1>1. ASSUME WriteStatus(phase)
        PROVE  dpt' \in DPTs /\ (dpt'.rv = dpt.rv + 1 \/ (dpt' = dpt /\ dpt.phase = phase))
    <2>1. CASE dpt' = [dpt EXCEPT !.phase = phase, !.rv = @ + 1]
      <3>0. dpt \in DPTs
        BY DEF TypeOK
      <3>1. dpt' = [phase |-> phase, force |-> dpt.force, rv |-> dpt.rv + 1]
        BY <2>1, <3>0 DEF DPTs
      <3> QED
        BY <3>0, <3>1, DPTIntro, DPTElim DEF Phases
    <2> QED
      BY <1>1, <2>1 DEF WriteStatus, TypeOK
  <1>2. 0 \in 0..MaxTries - 1
    BY BoundAssumption
  <1>3. tries + 1 < MaxTries => tries + 1 \in 0..MaxTries - 1
    <2>1. tries \in 0..MaxTries - 1
      BY DEF TypeOK
    <2> QED
      BY <2>1, BoundAssumption
  <1>4. CASE cache.rv = dpt.rv /\ WriteStatus(phase) /\ Leave(failed)
    BY <1>1, <1>2, <1>4 DEF Leave, TypeOK
  <1>5. CASE /\ cache.rv # dpt.rv
             /\ IF tries + 1 < MaxTries THEN tries' = tries + 1 /\ UNCHANGED <<pc, err>>
                ELSE Leave(TRUE)
             /\ UNCHANGED dpt
    BY <1>2, <1>3, <1>5 DEF Leave, TypeOK
  <1> QED
    BY <1>4, <1>5, Zenon DEF Attempt

(* A call of a run moves the worker on and changes nothing else of IInv. *)
LEMMA RunTestsEffect ==
    ASSUME RunTests
    PROVE  /\ pc \in Running
           /\ pc' \in Running \cup {"fail", "complete"}
           /\ owed' \in {owed, "no"}
           /\ UNCHANGED <<dpt, cache, queued, read, tries, err, budget>>
  BY DEF RunTests, RunStep, resolveBackupLocation, determineVendor, initializeProvider,
         runUploadTest, runSnapshotTests, Running

(* The initial state has the right types. *)
LEMMA TypeInit == Init => TypeOK
  <1> SUFFICES ASSUME Init PROVE TypeOK
    OBVIOUS
  <1>1. dpt \in DPTs /\ cache \in DPTs /\ read \in DPTs
    BY DEF Init, DPTs
  <1>2. 0 \in 0..MaxTries - 1
    BY BoundAssumption
  <1>3. budget \in [asks : Nat, touches : Nat, faults : Nat, restarts : Nat]
    BY BoundAssumption DEF Init
  <1> QED
    BY <1>1, <1>2, <1>3 DEF Init, TypeOK

(* Every step keeps the types. *)
LEMMA TypeNext == TypeOK /\ [Next]_vars => TypeOK'
  <1> SUFFICES ASSUME TypeOK, [Next]_vars PROVE TypeOK'
    OBVIOUS
  <1>0. 0 \in 0..MaxTries - 1
    BY BoundAssumption
  <1>dpt. dpt \in DPTs
    BY DEF TypeOK
  <1>1. CASE AskForceRun
    <2>1. dpt' = [phase |-> dpt.phase, force |-> TRUE, rv |-> dpt.rv + 1]
      BY <1>1, <1>dpt DEF AskForceRun, DPTs
    <2>2. dpt' \in DPTs
      BY <2>1, <1>dpt, DPTIntro, DPTElim, Zenon
    <2> QED
      BY <1>1, <2>2, SpendType DEF AskForceRun, TypeOK, Budgets
  <1>2. CASE Touch
    <2>1. dpt' = [phase |-> dpt.phase, force |-> dpt.force, rv |-> dpt.rv + 1]
      BY <1>2, <1>dpt DEF Touch, DPTs
    <2>2. dpt' \in DPTs
      BY <2>1, <1>dpt, DPTIntro, DPTElim
    <2> QED
      BY <1>2, <2>2, SpendType DEF Touch, TypeOK, Budgets
  <1>3. CASE Inform
    BY <1>3 DEF Inform, TypeOK
  <1>4. CASE Start
    BY <1>4 DEF Start, Running, TypeOK
  <1>5. CASE MarkInProgress
    BY <1>0, <1>5, AttemptEffect DEF MarkInProgress, Leave, TypeOK
  <1>6. CASE RunTests
    BY <1>6, RunTestsEffect DEF TypeOK
  <1>8. CASE updateDPTErrorStatus
    BY <1>8, AttemptEffect DEF updateDPTErrorStatus, TypeOK, Ended
  <1>9. CASE updateDPTStatusToComplete
    BY <1>9, AttemptEffect DEF updateDPTStatusToComplete, TypeOK, Ended
  <1>10. CASE StatusWriteFails
    BY <1>0, <1>10, SpendType DEF StatusWriteFails, Leave, TypeOK, Budgets
  <1>11. CASE Return
    <2>1. dpt' = dpt \/ dpt' = [phase |-> dpt.phase, force |-> FALSE, rv |-> dpt.rv + 1]
      BY <1>11, <1>dpt DEF Return, DPTs
    <2>2. dpt' \in DPTs
      BY <2>1, <1>dpt, DPTIntro, DPTElim, ZenonT(30)
    <2> QED
      BY <1>11, <2>2 DEF Return, Finish, TypeOK
  <1>12. CASE ReturnResetFails
    BY <1>12, SpendType DEF ReturnResetFails, Finish, TypeOK, Budgets
  <1>13. CASE Restart
    BY <1>0, <1>13, SpendType DEF Restart, TypeOK, Budgets
  <1>14. CASE UNCHANGED vars
    BY <1>14 DEF vars, TypeOK
  <1> QED
    BY <1>1, <1>2, <1>3, <1>4, <1>5, <1>6, <1>8, <1>9, <1>10, <1>11, <1>12, <1>13, <1>14
    DEF Next, Worker

(* The variables always have their types. *)
THEOREM TypeCorrect == Spec => []TypeOK
  BY TypeInit, TypeNext, PTL DEF Spec

-----------------------------------------------------------------------------
(* Every write of the DPT takes the next resourceVersion. *)
LEMMA DPTStep ==
    ASSUME TypeOK, [Next]_vars
    PROVE  dpt' = dpt \/ dpt'.rv = dpt.rv + 1
  <1>dpt. dpt \in DPTs
    BY DEF TypeOK
  <1>1. CASE AskForceRun
    BY <1>1, <1>dpt DEF AskForceRun, DPTs
  <1>2. CASE Touch
    BY <1>2, <1>dpt DEF Touch, DPTs
  <1>3. CASE MarkInProgress
    BY <1>3, AttemptEffect, Zenon DEF MarkInProgress
  <1>4. CASE updateDPTErrorStatus
    BY <1>4, AttemptEffect, Zenon DEF updateDPTErrorStatus, Ended
  <1>5. CASE updateDPTStatusToComplete
    BY <1>5, AttemptEffect, Zenon DEF updateDPTStatusToComplete, Ended
  <1>6. CASE Return
    BY <1>6, <1>dpt DEF Return, DPTs
  <1> QED
    BY <1>1, <1>2, <1>3, <1>4, <1>5, <1>6, RunTestsEffect, Zenon
    DEF Next, Worker, vars, Inform, Start, StatusWriteFails,
        ReturnResetFails, Restart

(* A copy of an old version differs from the DPT in its resourceVersion. *)
LEMMA CopiesStep ==
    ASSUME TypeOK, TypeOK', CopiesAreVersions, [Next]_vars
    PROVE  CopiesAreVersions'
  <1>rv. dpt.rv \in Nat /\ cache.rv \in Nat
    BY DPTElim DEF TypeOK
  <1>0. cache' = cache \/ (cache' = dpt /\ dpt' = dpt)
    BY RunTestsEffect
       DEF Next, Worker, vars, AskForceRun, Touch, Inform, Start, MarkInProgress,
           updateDPTErrorStatus, updateDPTStatusToComplete, StatusWriteFails,
           Return, ReturnResetFails, Finish, Restart
  <1>1. cache'.rv <= dpt'.rv /\ (cache'.rv = dpt'.rv => cache' = dpt')
    BY <1>rv, <1>0, DPTStep DEF CopiesAreVersions
  <1>2. /\ pc' # "idle" => queued' \/ read' = cache'
        /\ pc' = "mark" => read'.phase # "InProgress"
        /\ pc' \in Running \cup {"fail", "complete"} => read'.phase = "InProgress"
    <2>1. CASE Inform
      BY <2>1 DEF Inform, CopiesAreVersions
    <2>2. CASE Start
      BY <2>2 DEF Start, Running
    <2>3. CASE MarkInProgress
      BY <2>3, AttemptEffect, Zenon DEF MarkInProgress, Leave, Running, CopiesAreVersions
    <2>4. CASE RunTests
      BY <2>4, RunTestsEffect DEF Running, CopiesAreVersions
    <2>6. CASE updateDPTErrorStatus
      BY <2>6, AttemptEffect, Zenon DEF updateDPTErrorStatus, Ended, CopiesAreVersions
    <2>7. CASE updateDPTStatusToComplete
      BY <2>7, AttemptEffect, Zenon DEF updateDPTStatusToComplete, Ended, CopiesAreVersions
    <2>8. CASE StatusWriteFails
      BY <2>8 DEF StatusWriteFails, Leave, Running, CopiesAreVersions
    <2>9. CASE Return \/ ReturnResetFails \/ Restart
      BY <2>9 DEF Return, ReturnResetFails, Finish, Restart, Running
    <2>10. CASE AskForceRun \/ Touch \/ UNCHANGED vars
      BY <2>10 DEF AskForceRun, Touch, vars, CopiesAreVersions
    <2> QED
      BY <2>1, <2>2, <2>3, <2>4, <2>6, <2>7, <2>8, <2>9, <2>10 DEF Next, Worker
  <1> QED
    BY <1>1, <1>2 DEF CopiesAreVersions

(* Whoever falls silent has left an event behind, or the test has ended.   *)
(* A status write that changes nothing leaves no event; but then the DPT   *)
(* has moved since Reconcile read it, and that event is already queued.    *)
LEMMA SilenceStep ==
    ASSUME TypeOK, TypeOK', CopiesAreVersions, SilenceIsJustified, [Next]_vars
    PROVE  SilenceIsJustified'
  <1>rv. dpt.rv \in Nat /\ cache.rv \in Nat
    BY DPTElim DEF TypeOK
  <1>1. ASSUME dpt'.rv = dpt.rv + 1, cache' = cache PROVE cache'.rv # dpt'.rv
    BY <1>1, <1>rv DEF CopiesAreVersions
  <1>2. CASE Inform \/ Restart
    BY <1>2 DEF Inform, Restart, SilenceIsJustified
  <1>3. CASE Start
    BY <1>3 DEF Start, SilenceIsJustified, CopiesAreVersions
  <1>4. CASE MarkInProgress
    <2>1. CASE Skips(cache)
      BY <1>4, <2>1 DEF MarkInProgress, SilenceIsJustified, CopiesAreVersions
    <2>2. CASE ~Skips(cache)
      <3>1. Attempt("InProgress", FALSE)
        BY <1>4, <2>2 DEF MarkInProgress
      <3>2. cache.rv = dpt.rv /\ dpt.phase = "InProgress" => queued
        BY <1>4 DEF MarkInProgress, CopiesAreVersions
      <3> QED
        BY <1>1, <1>4, <3>1, <3>2, AttemptEffect, Zenon
        DEF MarkInProgress, SilenceIsJustified
    <2> QED
      BY <2>1, <2>2
  <1>5. CASE updateDPTErrorStatus
    BY <1>5, AttemptEffect, Zenon DEF updateDPTErrorStatus, Ended, SilenceIsJustified
  <1>6. CASE updateDPTStatusToComplete
    <2>1. Attempt("Complete", FALSE) /\ UNCHANGED <<cache, queued>> /\ pc = "complete"
      BY <1>6 DEF updateDPTStatusToComplete
    <2>2. cache.rv = dpt.rv /\ dpt.phase = "Complete" => queued
      BY <2>1 DEF CopiesAreVersions
    <2> QED
      BY <1>1, <2>1, <2>2, AttemptEffect, Zenon DEF Ended, SilenceIsJustified
  <1>7. CASE Return
    <2>1. CASE dpt' = dpt
      BY <1>7, <2>1, Zenon DEF Return, Finish, SilenceIsJustified, Skips
    <2>2. CASE dpt' # dpt
      BY <1>1, <1>7, <2>2, DPTStep DEF Return, Finish, SilenceIsJustified
    <2> QED
      BY <2>1, <2>2
  <1>8. CASE ReturnResetFails
    BY <1>8, Zenon DEF ReturnResetFails, Finish, SilenceIsJustified, Skips
  <1>9. CASE AskForceRun \/ Touch
    <2>1. dpt'.rv = dpt.rv + 1 /\ cache' = cache
      BY <1>9 DEF AskForceRun, Touch, TypeOK, DPTs
    <2> QED
      BY <1>1, <2>1 DEF SilenceIsJustified
  <1>10. CASE RunTests \/ StatusWriteFails
    BY <1>10, RunTestsEffect DEF StatusWriteFails, Leave, Running, SilenceIsJustified
  <1>11. CASE UNCHANGED vars
    <2>1. UNCHANGED <<dpt, cache, queued, pc, err>>
      BY <1>11 DEF vars
    <2> QED
      BY <2>1, Zenon DEF SilenceIsJustified, Skips
  <1> QED
    BY <1>2, <1>3, <1>4, <1>5, <1>6, <1>7, <1>8, <1>9, <1>10, <1>11 DEF Next, Worker

(* The invariant holds initially. *)
LEMMA IInvInit == Init => IInv
  <1> SUFFICES ASSUME Init PROVE IInv
    OBVIOUS
  <1>1. dpt.rv = 1 /\ cache.rv = 0
    BY DEF Init
  <1>2. CopiesAreVersions
    <2>1. cache.rv <= dpt.rv /\ cache.rv # dpt.rv
      BY <1>1
    <2>2. pc = "idle"
      BY DEF Init
    <2> QED
      BY <2>1, <2>2 DEF Running, CopiesAreVersions
  <1>3. SilenceIsJustified
    BY <1>1 DEF SilenceIsJustified
  <1> QED
    BY <1>2, <1>3, TypeInit DEF IInv

(* Every step keeps the invariant. *)
LEMMA IInvNext == IInv /\ [Next]_vars => IInv'
  BY TypeNext, CopiesStep, SilenceStep DEF IInv

(* The inductive invariant holds in every reachable state. *)
THEOREM Inductive == Spec => []IInv
  BY IInvInit, IInvNext, PTL DEF Spec

(* When controller, queue and informer are at rest the test has ended and  *)
(* no forceRun is pending, for any number of conflicts, faults, restarts.  *)
THEOREM NothingIsLeftOver == Spec => []NothingLeftOver
  <1>1. IInv => NothingLeftOver
    BY DEF IInv, SilenceIsJustified, NothingLeftOver, Quiescent
  <1> QED
    BY <1>1, Inductive, PTL

-----------------------------------------------------------------------------
(* The failing calls and the edits still to come only become fewer.        *)
LEMMA SpendDown ==
    ASSUME TypeOK, NEW what \in {"asks", "touches", "faults", "restarts"}, Spend(what)
    PROVE  \A w \in {"touches", "faults"} :
             /\ budget[w] \in Nat
             /\ budget'[w] = IF w = what THEN budget[w] - 1 ELSE budget[w]
  BY DEF Spend, TypeOK

(* As long as no call has failed and nobody edits the DPT none did before, *)
(* and the step is none of those.                                          *)
LEMMA BudgetStep ==
    ASSUME TypeOK, [Next]_vars, budget.faults <= MaxFaults, budget.touches <= MaxTouches
    PROVE  /\ budget'.faults <= MaxFaults /\ budget'.touches <= MaxTouches
           /\ Unhindered' => /\ Unhindered
                             /\ ~Touch /\ ~StatusWriteFails /\ ~ReturnResetFails
  <1>0. budget.faults \in Nat /\ budget.touches \in Nat
    BY DEF TypeOK
  <1>1. ASSUME NEW what \in {"touches", "faults"}, Spend(what)
        PROVE  /\ budget'.faults <= MaxFaults /\ budget'.touches <= MaxTouches
               /\ ~Unhindered'
    BY <1>0, <1>1, SpendDown, BoundAssumption DEF Unhindered
  <1>2. CASE Touch \/ StatusWriteFails \/ ReturnResetFails
    BY <1>1, <1>2, Zenon DEF Touch, StatusWriteFails, ReturnResetFails
  <1>3. CASE ~Touch /\ ~StatusWriteFails /\ ~ReturnResetFails
    <2>1. UNCHANGED budget \/ Spend("asks") \/ Spend("restarts")
      BY <1>3, RunTestsEffect, Zenon
      DEF Next, Worker, vars, AskForceRun, Inform, Start, MarkInProgress, updateDPTErrorStatus,
          updateDPTStatusToComplete, Return, Restart
    <2>2. budget'.faults = budget.faults /\ budget'.touches = budget.touches
      BY <2>1, SpendDown
    <2> QED
      BY <1>3, <2>2 DEF Unhindered
  <1> QED
    BY <1>2, <1>3

(* The next version is none of the versions so far. *)
LEMMA NextVersion == \A v, w \in Nat : v <= w => v # w + 1
  OBVIOUS

(* A request made at rest stays on its way, whatever restarts happen.      *)
LEMMA RequestStep ==
    ASSUME IInv, RequestKept, [Next]_vars
    PROVE  RequestKept'
  <1>t. TypeOK /\ CopiesAreVersions
    BY DEF IInv
  <1>dpt. dpt \in DPTs
    BY <1>t DEF TypeOK
  <1>rv. dpt.rv \in Nat /\ cache.rv \in Nat
    BY <1>t, DPTElim DEF TypeOK
  <1>v. cache.rv # dpt.rv + 1
    BY <1>t, <1>rv, NextVersion, Zenon DEF CopiesAreVersions
  <1>b. /\ budget'.faults <= MaxFaults /\ budget'.touches <= MaxTouches
        /\ Unhindered' => Unhindered /\ ~Touch /\ ~StatusWriteFails /\ ~ReturnResetFails
    BY <1>t, BudgetStep DEF RequestKept
  <1> SUFFICES ASSUME owed' = "at rest", Unhindered,
                      ~Touch, ~StatusWriteFails, ~ReturnResetFails
               PROVE  (Asked \/ Marked)'
    BY <1>b DEF RequestKept
  <1>0. ASSUME owed = "at rest" PROVE Asked \/ Marked
    BY <1>0 DEF RequestKept
  <1>1. CASE AskForceRun
    <2>1. Quiescent
      BY <1>1 DEF AskForceRun
    <2>2. Skips(dpt)
      BY <2>1 DEF IInv, SilenceIsJustified, Quiescent
    <2>3. dpt'.phase = dpt.phase /\ dpt'.force = TRUE /\ dpt'.rv = dpt.rv + 1
      BY <1>1, <1>dpt DEF AskForceRun, DPTs
    <2>4. pc' = "idle" /\ ~queued' /\ cache' = cache /\ cache.rv = dpt.rv
      BY <1>1, <2>1, Zenon DEF AskForceRun, Quiescent
    <2>5. cache'.rv # dpt'.rv
      BY <1>v, <2>3, <2>4, Zenon
    <2> QED
      BY <2>2, <2>3, <2>4, <2>5, Zenon DEF Asked, Skips
  <1>2. CASE Inform
    BY <1>0, <1>2 DEF Inform, Asked, Marked
  <1>3. CASE Restart
    BY <1>0, <1>3 DEF Restart, Asked, Marked
  <1>4. CASE Start
    <2>1. cache.rv = dpt.rv => cache = dpt
      BY <1>t DEF CopiesAreVersions
    <2>2. CASE Asked
      <3>1. cache = dpt /\ dpt.phase \in Ended /\ dpt.force
        BY <1>4, <2>1, <2>2, Zenon DEF Start, Asked
      <3>2. pc' = "mark"
        BY <1>4, <3>1 DEF Start, Skips, Ended
      <3> QED
        BY <1>4, <3>1, <3>2 DEF Start, Asked
    <2>3. CASE Marked
      BY <1>4, <2>3 DEF Start, Marked, Skips, Ended
    <2> QED
      BY <1>0, <1>4, <2>2, <2>3 DEF Start
  <1>5. CASE MarkInProgress
    <2>1. Asked /\ pc = "mark"
      BY <1>0, <1>5 DEF MarkInProgress, Marked
    <2>2. cache = dpt /\ dpt.phase \in Ended /\ dpt.force
      BY <1>t, <2>1 DEF Asked, CopiesAreVersions
    <2>3. Attempt("InProgress", FALSE) /\ UNCHANGED <<cache, queued>>
      BY <1>5, <2>2 DEF MarkInProgress, Skips
    <2>4. /\ dpt' = [dpt EXCEPT !.phase = "InProgress", !.rv = @ + 1]
          /\ pc' = "return" /\ err' = FALSE
      BY <2>2, <2>3, Zenon DEF Attempt, WriteStatus, Leave, Ended
    <2>5. dpt'.phase = "InProgress" /\ dpt'.rv = dpt.rv + 1
      BY <1>dpt, <2>4 DEF DPTs
    <2>6. cache'.rv # dpt'.rv
      BY <1>v, <2>2, <2>3, <2>5, Zenon
    <2> QED
      BY <2>1, <2>3, <2>4, <2>5, <2>6, Zenon DEF Asked, Marked
  <1>6. CASE RunTests
    <2>1. pc \in Running /\ owed = "at rest" /\ ~resolveBackupLocation
      BY <1>6, RunTestsEffect DEF resolveBackupLocation
    <2>2. pc = "resolve"
      BY <1>0, <2>1 DEF Asked, Marked, Running
    <2> QED
      BY <1>6, <2>1, <2>2
      DEF RunTests, RunStep, determineVendor, initializeProvider, runUploadTest, runSnapshotTests
  <1>7. CASE updateDPTErrorStatus \/ updateDPTStatusToComplete
    BY <1>0, <1>7 DEF updateDPTErrorStatus, updateDPTStatusToComplete, Asked, Marked
  <1>8. CASE Return
    <2>1. Marked /\ pc = "return"
      BY <1>0, <1>8 DEF Return, Finish, Asked
    <2>2. dpt' = dpt \/ (dpt'.phase = dpt.phase /\ dpt'.rv = dpt.rv + 1)
      BY <1>8, <1>dpt DEF Return, DPTs
    <2>3. cache.rv <= dpt.rv /\ pc' = "idle" /\ cache' = cache
      BY <1>t, <1>8 DEF Return, Finish, CopiesAreVersions
    <2>4. cache.rv # dpt.rv => cache'.rv # dpt'.rv
      <3>1. CASE dpt' = dpt
        BY <2>3, <3>1
      <3>2. CASE dpt'.rv = dpt.rv + 1
        BY <1>v, <2>3, <3>2, Zenon
      <3> QED
        BY <2>2, <3>1, <3>2
    <2>5. (queued => queued') /\ (queued' => queued \/ err)
      BY <1>8 DEF Return, Finish
    <2> QED
      BY <2>1, <2>2, <2>3, <2>4, <2>5, Zenon DEF Marked
  <1>9. CASE UNCHANGED vars
    BY <1>0, <1>9 DEF vars, Asked, Marked
  <1> QED
    BY <1>1, <1>2, <1>3, <1>4, <1>5, <1>6, <1>7, <1>8, <1>9 DEF Next, Worker

(* A forceRun set while the controller is at rest leads to a run before    *)
(* the controller is at rest again, for any number of attempts per status  *)
(* write and restarts, as long as no call fails and nobody edits the DPT.  *)
THEOREM RequestsAtRestAreServed == Spec => []RequestAtRestServed
  <1>1. Init => RequestKept
    <2> SUFFICES ASSUME Init PROVE RequestKept
      OBVIOUS
    <2>1. budget.faults = MaxFaults /\ budget.touches = MaxTouches
      BY DEF Init
    <2>2. owed # "at rest"
      BY DEF Init
    <2>3. budget.faults <= MaxFaults /\ budget.touches <= MaxTouches
      BY <2>1, BoundAssumption
    <2> QED
      BY <2>2, <2>3 DEF RequestKept
  <1>2. RequestKept => RequestAtRestServed
    BY DEF RequestKept, Unhindered, Asked, Marked, RequestAtRestServed, Quiescent
  <1> QED
    BY <1>1, <1>2, RequestStep, Inductive, PTL DEF Spec
=============================================================================
