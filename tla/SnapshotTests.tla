--------------------------- MODULE SnapshotTests ---------------------------
(***************************************************************************)
(* runSnapshotTests of dataprotectiontest_controller.go: one goroutine per *)
(* complete test configuration creates a VolumeSnapshot, polls it until it *)
(* is ready or a timer fires, records an error under one mutex and its     *)
(* result under another; the caller waits for all of them and counts the   *)
(* results.  A locked region is two steps, a read and a write, so that two *)
(* goroutines in it at once would be seen.                                 *)
(***************************************************************************)
EXTENDS Naturals, Sequences, FiniteSets

CONSTANTS
    N,           \* number of configurations in the spec
    Incomplete   \* those that miss a required field

ASSUME ConfigAssumption == N \in Nat /\ Incomplete \subseteq 1..N

Tests == 1..N
Complete == Tests \ Incomplete

VARIABLES
    main,      \* the configuration the loop is at; N + 1: wg.Wait; N + 2: returned
    wg,        \* the wait group's counter
    at,        \* at[i]: where the goroutine of configuration i is
    snap,      \* snap[i]: its VolumeSnapshot in the cluster
    expired,   \* the configurations whose timer has fired
    status,    \* status[i]: the goroutine's own result
    mu, errMu, \* who holds the mutexes, 0 for nobody
    results,   \* results, a sequence of <<configuration, status>>
    combined,  \* combinedErr, the sequence of configurations that failed
    seen,      \* seen[i]: what goroutine i read inside a locked region
    summary    \* SnapshotSummary, <<passed, total>>

testVars == <<main, wg, at, snap, expired, status, mu, errMu, results, combined, seen, summary>>

PCs == {"none", "create", "wait", "errLock", "errRead", "errWrite",
        "lock", "read", "append", "done"}

TestsTypeOK ==
    /\ main \in 1..N + 2
    /\ wg \in 0..Cardinality(Complete)
    /\ at \in [Tests -> PCs]
    /\ snap \in [Tests -> {"none", "pending", "ready"}]
    /\ expired \subseteq Tests
    /\ status \in [Tests -> {"", "Ready", "Failed"}]
    /\ mu \in 0..N /\ errMu \in 0..N
    /\ results \in Seq(Tests \X {"Ready", "Failed"})
    /\ combined \in Seq(Tests)
    /\ summary \in Nat \X Nat

TestsInit ==
    /\ main = 1
    /\ wg = 0
    /\ at = [i \in Tests |-> "none"]
    /\ snap = [i \in Tests |-> "none"]
    /\ expired = {}
    /\ status = [i \in Tests |-> ""]
    /\ mu = 0 /\ errMu = 0
    /\ results = <<>> /\ combined = <<>>
    /\ seen = [i \in Tests |-> <<>>]
    /\ summary = <<0, 0>>

-----------------------------------------------------------------------------
(* One iteration of the loop: skip an incomplete configuration or count    *)
(* and start a goroutine.                                                  *)
Launch ==
    /\ main \in Tests
    /\ main' = main + 1
    /\ IF main \in Incomplete THEN UNCHANGED <<wg, at>>
       ELSE wg' = wg + 1 /\ at' = [at EXCEPT ![main] = "create"]
    /\ UNCHANGED <<snap, expired, status, mu, errMu, results, combined, seen, summary>>

(* createVolumeSnapshot, which may fail. *)
createVolumeSnapshot(i) ==
    /\ at[i] = "create"
    /\ \/ /\ at' = [at EXCEPT ![i] = "wait"]
          /\ snap' = [snap EXCEPT ![i] = "pending"]
          /\ UNCHANGED status
       \/ /\ at' = [at EXCEPT ![i] = "errLock"]
          /\ status' = [status EXCEPT ![i] = "Failed"]
          /\ UNCHANGED snap
    /\ UNCHANGED <<main, wg, expired, mu, errMu, results, combined, seen, summary>>

ConcludeWithoutError(i, result) ==
    /\ at' = [at EXCEPT ![i] = "lock"]
    /\ status' = [status EXCEPT ![i] = result]
    /\ UNCHANGED <<main, wg, snap, expired, mu, errMu, results, combined, seen, summary>>

(* The goroutine's wait is over. *)
Conclude(i, result) ==
    /\ at' = [at EXCEPT ![i] = IF result = "Ready" THEN "lock" ELSE "errLock"]
    /\ status' = [status EXCEPT ![i] = result]
    /\ UNCHANGED <<main, wg, snap, expired, mu, errMu, results, combined, seen, summary>>

(* waitForSnapshotReady.  A tick reads the snapshot: if it is ready the    *)
(* wait is over, if it is pending nothing changes, and if the read fails   *)
(* so does the test.  Once the timer has fired the select may take either. *)
SnapshotReady(i) == at[i] = "wait" /\ snap[i] = "ready" /\ Conclude(i, "Ready")

GetFails(i) == at[i] = "wait" /\ Conclude(i, "Failed")

TimedOut(i) == at[i] = "wait" /\ i \in expired /\ Conclude(i, "Failed")

(* The snapshot controller makes the snapshot ready, if it ever does. *)
BecomeReady(i) ==
    /\ snap[i] = "pending"
    /\ snap' = [snap EXCEPT ![i] = "ready"]
    /\ UNCHANGED <<main, wg, at, expired, status, mu, errMu, results, combined, seen, summary>>

TimerFires(i) ==
    /\ at[i] = "wait" /\ i \notin expired
    /\ expired' = expired \cup {i}
    /\ UNCHANGED <<main, wg, at, snap, status, mu, errMu, results, combined, seen, summary>>

-----------------------------------------------------------------------------
FreeUnchecked(owner) == TRUE

(* A sync.Mutex can be taken only when nobody holds it. *)
Free(owner) == owner = 0

(* combinedErr = multierror.Append(combinedErr, err) under errMu. *)
LockErr(i) ==
    /\ at[i] = "errLock" /\ Free(errMu)
    /\ errMu' = i
    /\ at' = [at EXCEPT ![i] = "errRead"]
    /\ UNCHANGED <<main, wg, snap, expired, status, mu, results, combined, seen, summary>>

ReadErr(i) ==
    /\ at[i] = "errRead"
    /\ seen' = [seen EXCEPT ![i] = combined]
    /\ at' = [at EXCEPT ![i] = "errWrite"]
    /\ UNCHANGED <<main, wg, snap, expired, status, mu, errMu, results, combined, summary>>

AppendErr(i) ==
    /\ at[i] = "errWrite"
    /\ combined' = Append(seen[i], i)
    /\ errMu' = 0
    /\ seen' = [seen EXCEPT ![i] = <<>>]
    /\ at' = [at EXCEPT ![i] = "lock"]
    /\ UNCHANGED <<main, wg, snap, expired, status, mu, results, summary>>

(* results = append(results, status) under mu, then wg.Done. *)
Lock(i) ==
    /\ at[i] = "lock" /\ Free(mu)
    /\ mu' = i
    /\ at' = [at EXCEPT ![i] = "read"]
    /\ UNCHANGED <<main, wg, snap, expired, status, errMu, results, combined, seen, summary>>

ReadResults(i) ==
    /\ at[i] = "read"
    /\ seen' = [seen EXCEPT ![i] = results]
    /\ at' = [at EXCEPT ![i] = "append"]
    /\ UNCHANGED <<main, wg, snap, expired, status, mu, errMu, results, combined, summary>>

AppendWithoutUnlock(i) ==
    /\ at[i] = "append"
    /\ results' = Append(seen[i], <<i, status[i]>>)
    /\ wg' = wg - 1
    /\ seen' = [seen EXCEPT ![i] = <<>>]
    /\ at' = [at EXCEPT ![i] = "done"]
    /\ UNCHANGED <<main, snap, expired, status, mu, errMu, combined, summary>>

AppendResult(i) ==
    /\ at[i] = "append"
    /\ results' = Append(seen[i], <<i, status[i]>>)
    /\ mu' = 0
    /\ wg' = wg - 1
    /\ seen' = [seen EXCEPT ![i] = <<>>]
    /\ at' = [at EXCEPT ![i] = "done"]
    /\ UNCHANGED <<main, snap, expired, status, errMu, combined, summary>>

(* wg.Wait returns and the results are summarised. *)
Summarize ==
    /\ main = N + 1 /\ wg = 0
    /\ main' = N + 2
    /\ summary' = <<Cardinality({k \in DOMAIN results : results[k][2] = "Ready"}), Len(results)>>
    /\ UNCHANGED <<wg, at, snap, expired, status, mu, errMu, results, combined, seen>>

-----------------------------------------------------------------------------
Main == Launch \/ Summarize

(* What a goroutine does by itself, and what may happen to it. *)
Step(i) ==
    \/ createVolumeSnapshot(i) \/ SnapshotReady(i) \/ TimedOut(i)
    \/ LockErr(i) \/ ReadErr(i) \/ AppendErr(i)
    \/ Lock(i) \/ ReadResults(i) \/ AppendResult(i)

TestsNext ==
    \/ Main
    \/ \E i \in Tests : Step(i) \/ GetFails(i) \/ BecomeReady(i) \/ TimerFires(i)

TestsSpec == TestsInit /\ [][TestsNext]_testVars

(* Goroutines are scheduled and timers fire; snapshots owe nothing. *)
TestsFairSpec ==
    /\ TestsSpec
    /\ WF_testVars(Main)
    /\ \A i \in Tests : WF_testVars(Step(i)) /\ WF_testVars(TimerFires(i))

-----------------------------------------------------------------------------
Returned == main = N + 2

(* When runSnapshotTests returns, each complete configuration has exactly  *)
(* one result, an incomplete one none, and the summary counts them.        *)
OneResultEach ==
    Returned =>
        /\ \A i \in Tests :
               Cardinality({k \in DOMAIN results : results[k] = <<i, status[i]>>})
                   = (IF i \in Complete THEN 1 ELSE 0)
        /\ summary = <<Cardinality({i \in Complete : status[i] = "Ready"}), Cardinality(Complete)>>

(* The combined error that is returned names each failed test once and no  *)
(* other: it is nil exactly if all passed.                                 *)
ErrorsComplete ==
    Returned =>
        /\ {combined[k] : k \in DOMAIN combined} = {i \in Complete : status[i] = "Failed"}
        /\ Len(combined) = Cardinality({i \in Complete : status[i] = "Failed"})

(* The tests end, even if a snapshot never becomes ready: the timer ends   *)
(* the wait, and the two mutexes are never awaited in a circle.            *)
TestsEnd == <>Returned

-----------------------------------------------------------------------------
(* The inductive invariant behind OneResultEach and ErrorsComplete: what   *)
(* holds of both lists while goroutines are still on their way.            *)
UnderWay == {i \in Tests : at[i] \notin {"none", "done"}}
Done == {i \in Tests : at[i] = "done"}
Passed == {i \in Done : status[i] = "Ready"}
Reported == {i \in Tests : at[i] \in {"lock", "read", "append", "done"} /\ status[i] = "Failed"}

(* The loop, the wait group and the goroutines agree.                      *)
LoopInv ==
    /\ \A i \in Tests : at[i] = "none" <=> i >= main \/ i \in Incomplete
    /\ \A i \in Tests : at[i] \in {"none", "create", "wait"} <=> status[i] = ""
    /\ \A i \in Tests : at[i] \in {"errLock", "errRead", "errWrite"} => status[i] = "Failed"
    /\ wg = Cardinality(UnderWay)

(* Whoever is in a locked region holds its mutex, and what it has read     *)
(* there is still the list's value.                                        *)
LockInv ==
    /\ DOMAIN seen = Tests
    /\ \A i \in Tests : at[i] \in {"errRead", "errWrite"} <=> errMu = i
    /\ \A i \in Tests : at[i] \in {"read", "append"} <=> mu = i
    /\ \A i \in Tests : at[i] = "errWrite" => seen[i] = combined
    /\ \A i \in Tests : at[i] = "append" => seen[i] = results

ErrorInv ==
    /\ {combined[k] : k \in DOMAIN combined} = Reported
    /\ Len(combined) = Cardinality(Reported)

ReadyResults == {k \in DOMAIN results : results[k][2] = "Ready"}

ResultInv ==
    /\ \A k \in DOMAIN results : /\ results[k][1] \in Done
                                  /\ results[k][2] = status[results[k][1]]
    /\ \A i \in Done : \E k \in DOMAIN results : results[k][1] = i
    /\ \A k, l \in DOMAIN results : results[k][1] = results[l][1] => k = l
    /\ Len(results) = Cardinality(Done)
    /\ Cardinality(ReadyResults) = Cardinality(Passed)

TestsInv ==
    /\ TestsTypeOK /\ LoopInv /\ LockInv /\ ErrorInv /\ ResultInv
    /\ Returned => wg = 0 /\ summary = <<Cardinality(ReadyResults), Len(results)>>
=============================================================================
