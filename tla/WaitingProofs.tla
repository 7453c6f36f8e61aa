---------------------------- MODULE WaitingProofs ---------------------------
(***************************************************************************)
(* Proofs about three threads of V8 that wait for others: one that cancels *)
(* the tasks of an isolate (CancelableTask), for any set of tasks, any     *)
(* width of the ids and any number of aborts and wakeups; one in           *)
(* Atomics.wait (FutexEmulation), for any finite set of isolates and any   *)
(* addresses, values and numbers of waiters to wake; and one that runs a   *)
(* job over pages in parallel (PageParallelJob), for any number of pages,  *)
(* of tasks and of threads.                                                *)
(***************************************************************************)
EXTENDS CancelableTask, FutexEmulation, PageParallelJob, TLAPS

(* How far the owner is bounds what status_ can be.                        *)
ProgressMatchesStatus ==
  \A t \in Tasks :
    /\ object[t] = "unborn" => status[t] = "kWaiting"
    /\ object[t] = "queued" => status[t] # "kRunning"
    /\ object[t] \in {"running", "removing"} => status[t] = "kRunning"
    /\ object[t] = "checking" => status[t] # "kWaiting"

(* During a scan no entry disappears that the scan has still to visit, and *)
(* what it has visited and left in the map is running.                     *)
VisitedEntriesRun ==
  canceler = "scan" =>
    /\ scan \subseteq Registered
    /\ \A key \in Registered \ scan : status[cancelable_tasks[key]] = "kRunning"

(* CancelAndWait returns when the map is empty.                            *)
DoneMeansEmpty == canceler = "done" => Registered = {}

(* The inductive invariant.                                                *)
IInv ==
  /\ TypeOK
  /\ ProgressMatchesStatus
  /\ NoDanglingEntry
  /\ LiveTaskIsRegistered
  /\ VisitedEntriesRun
  /\ WaitsForARunningTask
  /\ DoneMeansEmpty

USE DEF Ids

(* No task is registered before the first constructor runs.                *)
LEMMA InitIInv == Init => IInv
  BY CancelableAssumption
  DEF Init, IInv, TypeOK, Status, Progress, CancelerPc, ProgressMatchesStatus,
      NoDanglingEntry, LiveTaskIsRegistered, VisitedEntriesRun,
      WaitsForARunningTask, DoneMeansEmpty, Registered, Live

(* A running task is registered: it keeps CancelAndWait from returning.    *)
LEMMA RunningIsRegistered ==
  ASSUME IInv, NEW t \in Tasks, object[t] = "running"
  PROVE  Registered # {}
  BY Zenon, CancelableAssumption
  DEF IInv, TypeOK, ProgressMatchesStatus, LiveTaskIsRegistered, Registered,
      Live

(* Register enters a task under an id that no entry has, whatever the wrap *)
(* of task_id_counter_.                                                    *)
LEMMA RegisterIInv ==
  ASSUME IInv, NEW t \in Tasks, Register(t)
  PROVE  IInv'
<1> PICK new \in Ids :
      /\ new \notin Registered
      /\ id' = [id EXCEPT ![t] = new]
      /\ cancelable_tasks' = [cancelable_tasks EXCEPT ![new] = t]
  BY Zenon DEF Register, IsNextFreeId
<1> USE CancelableAssumption
<1>1. canceler # "done"
  BY Zenon, RunningIsRegistered DEF Register, CallerExists, IInv, DoneMeansEmpty
<1>2. TypeOK'
  BY DEF IInv, TypeOK, Register, Progress
<1>3. ProgressMatchesStatus'
  BY Zenon DEF IInv, TypeOK, ProgressMatchesStatus, Register
<1>4. NoDanglingEntry'
  BY DEF IInv, TypeOK, NoDanglingEntry, ProgressMatchesStatus, Register,
         Registered, Live
<1>5. LiveTaskIsRegistered'
  BY DEF IInv, TypeOK, LiveTaskIsRegistered, Register, Registered, Live
<1>6. VisitedEntriesRun'
  BY Zenon DEF IInv, VisitedEntriesRun, Register, MutexFree
<1>7. WaitsForARunningTask'
  BY Zenon DEF IInv, TypeOK, WaitsForARunningTask, Register, Registered
<1>8. DoneMeansEmpty'
  BY Zenon, <1>1 DEF DoneMeansEmpty, Register
<1> QED
  BY Zenon, <1>2, <1>3, <1>4, <1>5, <1>6, <1>7, <1>8 DEF IInv

(* The steps of the owner before RemoveFinishedTask leave the map alone    *)
(* and change status_ only from kWaiting to kRunning.                      *)
LEMMA OwnerIInv ==
  ASSUME IInv, NEW t \in Tasks,
         \/ RunStarts(t) \/ RunSkips(t) \/ RunEnds(t) \/ DeleteUnrun(t)
         \/ DestructorTryRun(t) \/ DestructorIsRunning(t)
  PROVE  IInv'
<1> USE CancelableAssumption
<1> USE DEF RunStarts, RunSkips, RunEnds, DeleteUnrun, DestructorTryRun,
            DestructorIsRunning
<1>1. TypeOK'
  BY Zenon DEF IInv, TypeOK, Progress, Status
<1>2. ProgressMatchesStatus'
  BY SMTT(60) DEF IInv, TypeOK, ProgressMatchesStatus, Progress, Status
<1>3. Registered' = Registered
  BY Zenon DEF Registered
<1>4. NoDanglingEntry'
  <2> SUFFICES ASSUME NEW key \in Registered
               PROVE  LET u == cancelable_tasks[key]
                      IN  (Live(u) /\ id[u] = key /\ status[u] # "kCanceled")'
    BY Zenon, <1>3 DEF NoDanglingEntry
  <2> QED
    BY DEF IInv, TypeOK, NoDanglingEntry, ProgressMatchesStatus, Registered,
           Live, Status
<1>5. LiveTaskIsRegistered'
  BY Zenon DEF IInv, TypeOK, LiveTaskIsRegistered, Live, Status
<1>6. \A key \in Registered : status[cancelable_tasks[key]] = "kRunning" =>
                              status'[cancelable_tasks'[key]] = "kRunning"
  BY DEF IInv, TypeOK, Registered
<1>7. UNCHANGED <<canceler, scan>>
  BY Zenon
<1>8. VisitedEntriesRun'
  <2> HIDE DEF RunStarts, RunSkips, RunEnds, DeleteUnrun, DestructorTryRun,
               DestructorIsRunning
  <2> QED BY Zenon, <1>3, <1>6, <1>7 DEF IInv, VisitedEntriesRun
<1>9. WaitsForARunningTask'
  BY Zenon, <1>3, <1>6 DEF IInv, WaitsForARunningTask
<1>10. DoneMeansEmpty'
  BY Zenon, <1>3 DEF IInv, DoneMeansEmpty
<1> QED
  BY Zenon, <1>1, <1>2, <1>4, <1>5, <1>8, <1>9, <1>10 DEF IInv

(* RemoveFinishedTask erases the entry of the task that calls it, and      *)
(* notifies a sleeping CancelAndWait.                                      *)
LEMMA RemoveFinishedTaskIInv ==
  ASSUME IInv, NEW t \in Tasks, RemoveFinishedTask(t)
  PROVE  IInv'
<1> USE CancelableAssumption DEF RemoveFinishedTask, NotifyOne, MutexFree
<1>1. TypeOK'
  BY Zenon DEF IInv, TypeOK, Progress, CancelerPc
<1>2. ProgressMatchesStatus'
  BY Zenon DEF IInv, TypeOK, ProgressMatchesStatus
<1>3. cancelable_tasks[id[t]] = t
  BY Zenon DEF IInv, ProgressMatchesStatus, LiveTaskIsRegistered, Live
<1>4. Registered' = Registered \ {id[t]}
  BY Zenon DEF IInv, TypeOK, Registered
<1>5. NoDanglingEntry'
  BY <1>3, <1>4 DEF IInv, TypeOK, NoDanglingEntry, Registered, Live
<1>6. LiveTaskIsRegistered'
  BY Zenon, <1>3 DEF IInv, TypeOK, LiveTaskIsRegistered, Live
<1>7. VisitedEntriesRun' /\ WaitsForARunningTask'
  BY Zenon DEF VisitedEntriesRun, WaitsForARunningTask, IInv, TypeOK, CancelerPc
<1>8. DoneMeansEmpty'
  BY Zenon, <1>4 DEF IInv, DoneMeansEmpty
<1> QED
  BY Zenon, <1>1, <1>2, <1>5, <1>6, <1>7, <1>8 DEF IInv

(* What Cancel and the erase that follows do to the parts of IInv that do  *)
(* not depend on where CancelAndWait is.                                   *)
LEMMA CancelEntryFacts ==
  ASSUME IInv, NEW key \in Registered, CancelEntry(key), UNCHANGED <<object, id>>
  PROVE  /\ status' \in [Tasks -> Status]
         /\ cancel_counter' \in [Tasks -> Nat]
         /\ cancelable_tasks' \in [Ids -> Tasks \cup {NoTask}]
         /\ ProgressMatchesStatus'
         /\ NoDanglingEntry'
         /\ LiveTaskIsRegistered'
         /\ Registered' \in {Registered, Registered \ {key}}
         /\ key \in Registered' => status'[cancelable_tasks'[key]] = "kRunning"
         /\ \A j \in Registered \ {key} :
              /\ j \in Registered'
              /\ cancelable_tasks'[j] = cancelable_tasks[j]
              /\ status'[cancelable_tasks[j]] = status[cancelable_tasks[j]]
<1> USE CancelableAssumption DEF CancelEntry
<1> DEFINE t == cancelable_tasks[key]
<1>1. t \in Tasks /\ Live(t) /\ id[t] = key /\ status[t] \in {"kWaiting", "kRunning"}
  BY Zenon DEF IInv, TypeOK, NoDanglingEntry, Registered, Status
<1>2. /\ status' \in [Tasks -> Status]
      /\ cancel_counter' \in [Tasks -> Nat]
      /\ cancelable_tasks' \in [Ids -> Tasks \cup {NoTask}]
  <2>1. status' \in [Tasks -> Status]
    <3>1. status' = status \/ status' = [status EXCEPT ![t] = "kCanceled"]
      BY Zenon
    <3>2. status \in [Tasks -> Status]
      BY Zenon DEF IInv, TypeOK
    <3> HIDE DEF CancelEntry, t
    <3> QED
      BY Zenon, <1>1, <3>1, <3>2 DEF Status
  <2>2. cancel_counter' \in [Tasks -> Nat]
    <3>1. \/ cancel_counter' = cancel_counter
          \/ cancel_counter' = [cancel_counter EXCEPT ![t] = cancel_counter[t] + 1]
      BY Zenon
    <3>2. cancel_counter \in [Tasks -> Nat]
      BY Zenon DEF IInv, TypeOK
    <3> HIDE DEF CancelEntry, t
    <3> QED
      BY <1>1, <3>1, <3>2
  <2>3. cancelable_tasks' \in [Ids -> Tasks \cup {NoTask}]
    BY Zenon, <1>1 DEF IInv, TypeOK
  <2> QED
    BY Zenon, <2>1, <2>2, <2>3
<1>3. ProgressMatchesStatus'
  BY Zenon, <1>1 DEF IInv, TypeOK, ProgressMatchesStatus, Live
<1>4. \A j \in Registered \ {key} : cancelable_tasks[j] # t
  BY Zenon, <1>1 DEF IInv, NoDanglingEntry
<1>5. \A j \in Registered \ {key} :
         /\ j \in Registered'
         /\ cancelable_tasks'[j] = cancelable_tasks[j]
         /\ status'[cancelable_tasks[j]] = status[cancelable_tasks[j]]
  BY Zenon, <1>1, <1>4 DEF IInv, TypeOK, Registered
<1>6. key \in Registered' => status'[cancelable_tasks'[key]] = "kRunning"
  BY Zenon, <1>1 DEF IInv, TypeOK, Registered
<1>7. Registered' \in {Registered, Registered \ {key}}
  BY Zenon DEF IInv, TypeOK, Registered
<1>8. NoDanglingEntry'
  BY <1>1, <1>5, <1>6, <1>7 DEF IInv, TypeOK, NoDanglingEntry, Registered, Live
<1>9. LiveTaskIsRegistered'
  BY <1>1 DEF IInv, TypeOK, LiveTaskIsRegistered, Live, Registered
<1> QED
  BY Zenon, <1>2, <1>3, <1>5, <1>6, <1>7, <1>8, <1>9

(* TryAbort erases an entry only after its Cancel succeeded, or changes    *)
(* cancel_counter_ alone.                                                  *)
LEMMA TryAbortIInv ==
  ASSUME IInv, NEW key \in Ids, TryAbort(key)
  PROVE  IInv'
<1> USE CancelableAssumption
<1>1. CASE key \notin Registered
  <2>1. aborts' = aborts + 1
    BY Zenon DEF TryAbort
  <2>2. UNCHANGED <<object, status, id, cancel_counter, task_id_counter,
                    cancelable_tasks, canceler, scan, spurious>>
    BY Zenon, <1>1 DEF TryAbort
  <2>3. TypeOK'
    BY <2>1, <2>2 DEF IInv, TypeOK
  <2>4. /\ ProgressMatchesStatus' /\ NoDanglingEntry' /\ LiveTaskIsRegistered'
        /\ VisitedEntriesRun' /\ WaitsForARunningTask' /\ DoneMeansEmpty'
    BY <2>2
    DEF IInv, ProgressMatchesStatus, NoDanglingEntry, LiveTaskIsRegistered,
        VisitedEntriesRun, WaitsForARunningTask, DoneMeansEmpty, Registered, Live
  <2> QED
    BY Zenon, <2>3, <2>4 DEF IInv
<1>2. CASE key \in Registered
  <2>1. CancelEntry(key) /\ UNCHANGED <<object, id>>
    BY Zenon, <1>2 DEF TryAbort
  <2>2. canceler' = IF key \in Registered' \/ canceler # "wait" THEN canceler
                    ELSE "relock"
    BY Zenon, <1>2 DEF TryAbort, NotifyOne, Registered
  <2>3. TypeOK'
    <3>1. /\ status' \in [Tasks -> Status]
          /\ cancel_counter' \in [Tasks -> Nat]
          /\ cancelable_tasks' \in [Ids -> Tasks \cup {NoTask}]
      BY Zenon, <1>2, <2>1, CancelEntryFacts
    <3>2. canceler' \in CancelerPc
      BY Zenon, <2>2 DEF IInv, TypeOK, CancelerPc
    <3>3. aborts' \in Nat
      BY DEF TryAbort, IInv, TypeOK
    <3>4. UNCHANGED <<object, id, task_id_counter, scan, spurious>>
      BY Zenon DEF TryAbort
    <3> QED
      BY Zenon, <3>1, <3>2, <3>3, <3>4 DEF IInv, TypeOK
  <2>4. VisitedEntriesRun'
    BY Zenon, <2>2 DEF VisitedEntriesRun, TryAbort, MutexFree
  <2>5. WaitsForARunningTask'
    BY Zenon, <1>2, <2>1, <2>2, CancelEntryFacts DEF WaitsForARunningTask
  <2>6. DoneMeansEmpty'
    BY Zenon, <1>2, <2>2 DEF IInv, DoneMeansEmpty
  <2> QED
    BY Zenon, <1>2, <2>1, <2>3, <2>4, <2>5, <2>6, CancelEntryFacts DEF IInv
<1> QED
  BY Zenon, <1>1, <1>2

(* One iteration of the loop of CancelAndWait over the map.                *)
LEMMA CancelNextIInv ==
  ASSUME IInv, CancelNext
  PROVE  IInv'
<1> PICK key \in scan : CancelEntry(key) /\ scan' = scan \ {key}
  BY Zenon DEF CancelNext
<1>1. key \in Registered /\ UNCHANGED <<object, id>> /\ canceler' = "scan"
  BY Zenon DEF IInv, VisitedEntriesRun, CancelNext
<1>2. TypeOK'
  BY <1>1, CancelEntryFacts DEF CancelNext, IInv, TypeOK
<1>3. VisitedEntriesRun'
  <2>1. /\ scan \subseteq Registered
        /\ \A j \in Registered \ scan : status[cancelable_tasks[j]] = "kRunning"
    BY Zenon DEF CancelNext, IInv, VisitedEntriesRun
  <2>2. /\ Registered' \in {Registered, Registered \ {key}}
        /\ key \in Registered' => status'[cancelable_tasks'[key]] = "kRunning"
        /\ \A j \in Registered \ {key} :
             /\ j \in Registered'
             /\ cancelable_tasks'[j] = cancelable_tasks[j]
             /\ status'[cancelable_tasks[j]] = status[cancelable_tasks[j]]
    BY Zenon, <1>1, CancelEntryFacts
  <2>3. scan' \subseteq Registered'
    BY Zenon, <2>1, <2>2
  <2>4. \A j \in Registered' \ scan' : status'[cancelable_tasks'[j]] = "kRunning"
    BY Zenon, <2>1, <2>2
  <2> QED
    BY Zenon, <2>3, <2>4 DEF VisitedEntriesRun
<1>4. WaitsForARunningTask' /\ DoneMeansEmpty'
  BY Zenon, <1>1 DEF WaitsForARunningTask, DoneMeansEmpty
<1> QED
  BY Zenon, <1>1, <1>2, <1>3, <1>4, CancelEntryFacts DEF IInv

(* The other steps of CancelAndWait change only canceler, scan, spurious.  *)
LEMMA CancelerIInv ==
  ASSUME IInv, CancelAndWait \/ ScanEnds \/ CancelerWakesUp \/ CancelerRelocks
  PROVE  IInv'
<1> USE CancelableAssumption
        DEF CancelAndWait, ScanEnds, CancelerWakesUp, CancelerRelocks, WhileNotEmpty
<1>1. Registered' = Registered
  BY Zenon DEF Registered
<1>2. TypeOK'
  <2>1. canceler' \in CancelerPc /\ scan' \subseteq Ids
    BY Zenon DEF IInv, TypeOK, CancelerPc, Registered
  <2>2. spurious' \in Nat /\ UNCHANGED <<object, status, id, cancel_counter,
                             task_id_counter, cancelable_tasks, aborts>>
    BY DEF IInv, TypeOK
  <2> QED
    BY Zenon, <2>1, <2>2 DEF IInv, TypeOK
<1>3. ProgressMatchesStatus' /\ LiveTaskIsRegistered'
  BY Zenon DEF IInv, ProgressMatchesStatus, LiveTaskIsRegistered, Live
<1>4. NoDanglingEntry'
  BY Zenon, <1>1 DEF IInv, NoDanglingEntry, Live
<1>5. VisitedEntriesRun'
  BY Zenon, <1>1 DEF IInv, VisitedEntriesRun
<1>6. WaitsForARunningTask'
  BY Zenon, <1>1 DEF IInv, VisitedEntriesRun, WaitsForARunningTask
<1>7. DoneMeansEmpty'
  BY Zenon, <1>1 DEF IInv, DoneMeansEmpty
<1> QED
  BY Zenon, <1>2, <1>3, <1>4, <1>5, <1>6, <1>7 DEF IInv

(* Every step preserves the inductive invariant.                           *)
LEMMA NextIInv == IInv /\ [Next]_vars => IInv'
<1> SUFFICES ASSUME IInv, [Next]_vars PROVE IInv'
  BY Zenon
<1>1. CASE UNCHANGED vars
  BY <1>1
  DEF vars, IInv, TypeOK, ProgressMatchesStatus, NoDanglingEntry,
      LiveTaskIsRegistered, VisitedEntriesRun, WaitsForARunningTask,
      DoneMeansEmpty, Registered, Live
<1>2. CASE Next
  BY Zenon, <1>2, RegisterIInv, OwnerIInv, RemoveFinishedTaskIInv, TryAbortIInv,
     CancelNextIInv, CancelerIInv
  DEF Next, Owner, Canceler
<1> QED
  BY Zenon, <1>1, <1>2

(* The inductive invariant holds throughout.                               *)
LEMMA Invariance == Spec => []IInv
  BY InitIInv, NextIInv, PTL DEF Spec

(* Type correctness of the cancelable tasks and their manager.             *)
THEOREM TypeCorrect == Spec => []TypeOK
<1>1. IInv => TypeOK
  BY Zenon DEF IInv
<1> QED
  BY <1>1, Invariance, PTL

(* TryAbort and CancelAndWait never follow a dangling pointer, and the     *)
(* destructor of a task always finds the task's own entry to remove.       *)
THEOREM MapIsExact == Spec => []MapMatchesTasks
<1>1. IInv => MapMatchesTasks
  BY Zenon DEF IInv, MapMatchesTasks
<1> QED
  BY <1>1, Invariance, PTL

(* After CancelAndWait no task runs, and none calls the manager again.     *)
THEOREM ManagerCanDie == Spec => []ManagerOutlivesTasks
<1>1. IInv => ManagerOutlivesTasks
  <2> SUFFICES ASSUME IInv, canceler = "done", NEW t \in Tasks, Live(t)
               PROVE  /\ status[t] = "kCanceled"
                      /\ object[t] \notin {"running", "removing"}
    BY Zenon DEF ManagerOutlivesTasks
  <2>1. cancelable_tasks[id[t]] = NoTask
    BY Zenon DEF IInv, DoneMeansEmpty, TypeOK, Registered
  <2>2. status[t] = "kCanceled"
    BY Zenon, <2>1, CancelableAssumption DEF IInv, LiveTaskIsRegistered
  <2> QED
    BY Zenon, <2>2 DEF IInv, ProgressMatchesStatus
<1> QED
  BY <1>1, Invariance, PTL

(* CancelAndWait sleeps only when a running task is there to wake it up.   *)
THEOREM NoLostWakeup == Spec => []WaitsForARunningTask
<1>1. IInv => WaitsForARunningTask
  BY Zenon DEF IInv
<1> QED
  BY <1>1, Invariance, PTL
-----------------------------------------------------------------------------
(* Atomics.wait.                                                           *)
HIDE DEF Ids

(* The variables that Wait, Wake and NotifyWake decide by, in their        *)
(* domains.                                                                *)
FutexTyping ==
  /\ memory \in [Addrs -> Values]
  /\ pc \in [Isolates -> Pc]
  /\ call \in [Isolates -> Calls]
  /\ waiting \in [Isolates -> BOOLEAN]
  /\ interrupted \in [Isolates -> BOOLEAN]
  /\ wait_list \in Seq(Isolates)
  /\ waked \in [Addrs -> BOOLEAN]

(* The inductive invariant.                                                *)
FutexIInv == FutexTyping /\ ListIsExact /\ NothingIsSleptOver

(* The arguments that stand for no call are arguments.                     *)
LEMMA NoCallType == NoCall \in Calls
<1>1. \E c \in Calls : ~c.timed /\ c.value = 0
  <2>1. PICK a \in Addrs : TRUE
    BY Zenon, FutexAssumption
  <2>2. [addr |-> a, value |-> 0, timed |-> FALSE] \in Calls
    BY Zenon, FutexAssumption DEF Calls
  <2> QED
    BY Zenon, <2>2
<1> QED
  BY Zenon, <1>1 DEF NoCall

(* The members of two lists, one after the other.                          *)
LEMMA Concatenation ==
  ASSUME NEW S, NEW a \in Seq(S), NEW b \in Seq(S)
  PROVE  /\ a \o b \in Seq(S) /\ Len(a \o b) = Len(a) + Len(b)
         /\ \A j \in 1 .. Len(a) + Len(b) :
              (a \o b)[j] = IF j <= Len(a) THEN a[j] ELSE b[j - Len(a)]
  OBVIOUS

(* RemoveNode takes out the node it is given, and no other.                *)
LEMMA RemoveNodeRemoves ==
  ASSUME NEW S, NEW list \in Seq(S), IsInjective(list), NEW iso \in Range(list)
  PROVE  /\ RemoveNode(list, iso) \in Seq(S)
         /\ IsInjective(RemoveNode(list, iso))
         /\ Range(RemoveNode(list, iso)) = Range(list) \ {iso}
<1> DEFINE k == CHOOSE k \in DOMAIN list : list[k] = iso
           n == Len(list)
           rest == RemoveNode(list, iso)
<1>1. k \in 1 .. n /\ list[k] = iso /\ DOMAIN list = 1 .. n /\ n \in Nat
  <2>1. \E j \in DOMAIN list : list[j] = iso
    BY Zenon DEF Range
  <2> QED
    BY <2>1
<1>2. rest = SubSeq(list, 1, k - 1) \o SubSeq(list, k + 1, n)
  BY Zenon DEF RemoveNode
<1> HIDE DEF k, rest
<1>3. /\ rest \in Seq(S) /\ Len(rest) = n - 1
      /\ \A j \in 1 .. n - 1 : rest[j] = IF j < k THEN list[j] ELSE list[j + 1]
  <2> DEFINE left == SubSeq(list, 1, k - 1)
             right == SubSeq(list, k + 1, n)
  <2>1. \A j \in 1 .. n : list[j] \in S
    BY <1>1
  <2> HIDE DEF n
  <2>2. /\ left \in Seq(S) /\ Len(left) = k - 1
        /\ \A j \in 1 .. k - 1 : left[j] = list[j]
    <3>1. 1 \in Int /\ k - 1 \in Int /\ \A j \in 1 .. k - 1 : list[j] \in S
      BY <1>1, <2>1
    <3> HIDE DEF left
    <3>2. /\ left \in Seq(S) /\ Len(left) = IF 1 <= k - 1 THEN k - 1 - 1 + 1 ELSE 0
          /\ \A j \in 1 .. k - 1 - 1 + 1 : left[j] = list[1 + j - 1]
      BY <3>1 DEF left
    <3> QED
      BY <1>1, <3>2
  <2>3. /\ right \in Seq(S) /\ Len(right) = n - k
        /\ \A j \in 1 .. n - k : right[j] = list[k + j]
    <3>1. k + 1 \in Int /\ n \in Int /\ \A j \in k + 1 .. n : list[j] \in S
      BY <1>1, <2>1
    <3> HIDE DEF right
    <3>2. /\ right \in Seq(S)
          /\ Len(right) = IF k + 1 <= n THEN n - (k + 1) + 1 ELSE 0
          /\ \A j \in 1 .. n - (k + 1) + 1 : right[j] = list[k + 1 + j - 1]
      BY <3>1 DEF right
    <3>3. Len(right) = n - k /\ n - (k + 1) + 1 = n - k
      BY <1>1, <3>2
    <3>4. ASSUME NEW j \in 1 .. n - k PROVE right[j] = list[k + j]
      <4>1. k + 1 + j - 1 = k + j
        BY <1>1
      <4> QED
        BY Zenon, <3>2, <3>3, <4>1
    <3> QED
      BY Zenon, <3>2, <3>3, <3>4
  <2> HIDE DEF left, right
  <2>4. /\ left \o right \in Seq(S) /\ Len(left \o right) = Len(left) + Len(right)
        /\ \A j \in 1 .. Len(left) + Len(right) :
             (left \o right)[j] = IF j <= Len(left) THEN left[j] ELSE right[j - Len(left)]
    BY Zenon, <2>2, <2>3, Concatenation
  <2>5. rest = left \o right
    BY Zenon, <1>2 DEF left, right, n
  <2>6. /\ rest \in Seq(S) /\ Len(rest) = n - 1
        /\ \A j \in 1 .. n - 1 : rest[j] = IF j <= k - 1 THEN left[j] ELSE right[j - (k - 1)]
    BY <1>1, <2>2, <2>3, <2>4, <2>5
  <2>7. ASSUME NEW j \in 1 .. n - 1
        PROVE  rest[j] = IF j < k THEN list[j] ELSE list[j + 1]
    <3>1. CASE j < k
      BY <1>1, <2>2, <2>6, <3>1
    <3>2. CASE j >= k
      <4>1. j - (k - 1) \in 1 .. n - k /\ k + (j - (k - 1)) = j + 1
        BY <1>1, <3>2
      <4>2. right[j - (k - 1)] = list[j + 1]
        BY Zenon, <2>3, <4>1
      <4> QED
        BY <1>1, <2>6, <3>2, <4>2
    <3> QED
      BY <1>1, <3>1, <3>2
  <2> QED
    BY Zenon, <2>6, <2>7 DEF n
<1>4. IsInjective(rest)
  <2>1. ASSUME NEW x \in 1 .. n - 1, NEW y \in 1 .. n - 1, rest[x] = rest[y] PROVE x = y
    <3> DEFINE up(j) == IF j < k THEN j ELSE j + 1
    <3>1. up(x) \in 1 .. n /\ up(y) \in 1 .. n /\ list[up(x)] = list[up(y)]
      BY <1>1, <1>3, <2>1
    <3>2. up(x) = up(y)
      BY Zenon, <1>1, <3>1 DEF IsInjective
    <3> QED
      BY <1>1, <3>2
  <2>2. DOMAIN rest = 1 .. n - 1
    BY <1>1, <1>3
  <2> QED
    BY Zenon, <2>1, <2>2 DEF IsInjective
<1>5. Range(rest) = Range(list) \ {iso}
  <2>1. ASSUME NEW x \in Range(rest) PROVE x \in Range(list) \ {iso}
    <3>1. PICK j \in 1 .. n - 1 : rest[j] = x
      BY <1>1, <1>3, <2>1 DEF Range
    <3> DEFINE up == IF j < k THEN j ELSE j + 1
    <3>2. up \in 1 .. n /\ up # k /\ list[up] = x
      BY <1>1, <1>3, <3>1
    <3> HIDE DEF up
    <3>3. x # iso
      BY Zenon, <1>1, <3>2 DEF IsInjective
    <3> QED
      BY Zenon, <1>1, <3>2, <3>3 DEF Range
  <2>2. ASSUME NEW x \in Range(list) \ {iso} PROVE x \in Range(rest)
    <3>1. PICK j \in 1 .. n : list[j] = x /\ j # k
      BY Zenon, <1>1, <2>2 DEF Range
    <3>2. CASE j < k
      BY SMTT(60), <1>1, <1>3, <3>1, <3>2 DEF Range
    <3>3. CASE j > k
      <4>1. j - 1 \in 1 .. n - 1 /\ rest[j - 1] = x
        BY <1>1, <1>3, <3>1, <3>3
      <4> QED
        BY <1>3, <4>1 DEF Range
    <3> QED
      BY <1>1, <3>1, <3>2, <3>3
  <2> QED
    BY Zenon, <2>1, <2>2
<1> QED
  BY Zenon, <1>3, <1>4, <1>5 DEF rest

(* AddNode appends a node that is not in the list yet.                     *)
LEMMA AddNodeAdds ==
  ASSUME NEW S, NEW list \in Seq(S), IsInjective(list), NEW iso \in S, iso \notin Range(list)
  PROVE  /\ AddNode(list, iso) \in Seq(S)
         /\ IsInjective(AddNode(list, iso))
         /\ Range(AddNode(list, iso)) = Range(list) \cup {iso}
<1>1. /\ AddNode(list, iso) \in Seq(S)
      /\ DOMAIN AddNode(list, iso) = 1 .. Len(list) + 1
      /\ \A j \in 1 .. Len(list) + 1 :
           AddNode(list, iso)[j] = IF j = Len(list) + 1 THEN iso ELSE list[j]
  BY DEF AddNode
<1>2. DOMAIN list = 1 .. Len(list) /\ Len(list) \in Nat
  OBVIOUS
<1> QED
  BY <1>1, <1>2 DEF IsInjective, Range

(* No call, no node and nothing to sleep over at the start.                *)
LEMMA FutexInitIInv == FutexInit => FutexIInv
<1> SUFFICES ASSUME FutexInit PROVE FutexIInv
  BY Zenon
<1>1. FutexTyping
  BY NoCallType, FutexAssumption DEF FutexInit, FutexTyping, Pc
<1>2. ListIsExact
  BY DEF FutexInit, ListIsExact, IsInjective, Range, InWait
<1>3. NothingIsSleptOver
  BY Zenon DEF FutexInit, NothingIsSleptOver, InWait
<1> QED
  BY Zenon, <1>1, <1>2, <1>3 DEF FutexIInv

(* A return of Wait, whatever the reason, takes its own node out.          *)
LEMMA ReturnKeepsIInv ==
  ASSUME FutexIInv, NEW iso \in Isolates, NEW r, InWait(iso), Return(iso, r)
  PROVE  FutexIInv'
<1> USE DEF FutexIInv, FutexTyping, Pc
<1>1. iso \in Range(wait_list)
  BY Zenon DEF ListIsExact
<1>2. /\ wait_list' \in Seq(Isolates) /\ IsInjective(wait_list')
      /\ Range(wait_list') = Range(wait_list) \ {iso}
  BY Zenon, <1>1, RemoveNodeRemoves DEF Return, ListIsExact
<1>3. FutexTyping'
  BY Zenon, <1>2, NoCallType DEF Return, LocalsDie
<1>4. {j \in Isolates : InWait(j)}' = {j \in Isolates : InWait(j)} \ {iso}
  BY Zenon DEF Return, InWait
<1>5. ListIsExact'
  BY Zenon, <1>2, <1>4 DEF ListIsExact
<1>6. NothingIsSleptOver'
  BY Zenon DEF Return, LocalsDie, NothingIsSleptOver, InWait
<1> QED
  BY Zenon, <1>3, <1>5, <1>6

(* A step that changes neither the list nor who is in Wait, and which      *)
(* leaves no thread asleep that it has woken.                              *)
LEMMA QuietStep ==
  ASSUME FutexIInv, wait_list' = wait_list,
         pc' \in [Isolates -> Pc],
         \A iso \in Isolates : InWait(iso)' <=> InWait(iso)
  PROVE  ListIsExact'
  BY Zenon DEF FutexIInv, FutexTyping, ListIsExact

(* Every step of a thread in Wait keeps the invariant.                     *)
LEMMA ThreadStepKeepsIInv ==
  ASSUME FutexIInv, NEW iso \in Isolates, ThreadStep(iso)
  PROVE  FutexIInv'
<1> USE DEF FutexIInv, FutexTyping, Pc
<1>1. CASE WaitNotEqual(iso)
  <2>1. FutexTyping'
    BY Zenon, <1>1, NoCallType DEF WaitNotEqual, LocalsDie
  <2>2. ListIsExact'
    BY Zenon, <1>1, QuietStep DEF WaitNotEqual, InWait
  <2>3. NothingIsSleptOver'
    BY Zenon, <1>1 DEF WaitNotEqual, LocalsDie, NothingIsSleptOver, InWait
  <2> QED
    BY Zenon, <2>1, <2>2, <2>3
<1>2. CASE WaitBegin(iso)
  <2>1. iso \notin Range(wait_list)
    BY Zenon, <1>2 DEF WaitBegin, ListIsExact, InWait
  <2>2. /\ wait_list' \in Seq(Isolates) /\ IsInjective(wait_list')
        /\ Range(wait_list') = Range(wait_list) \cup {iso}
    BY <1>2, <2>1, AddNodeAdds DEF WaitBegin, ListIsExact
  <2>3. FutexTyping'
    BY Zenon, <1>2, <2>2 DEF WaitBegin
  <2>4. {j \in Isolates : InWait(j)}' = {j \in Isolates : InWait(j)} \cup {iso}
    BY Zenon, <1>2 DEF WaitBegin, InWait
  <2>5. ListIsExact'
    BY Zenon, <2>2, <2>4 DEF ListIsExact
  <2>6. NothingIsSleptOver'
    BY Zenon, <1>2 DEF WaitBegin, NothingIsSleptOver, InWait
  <2> QED
    BY Zenon, <2>3, <2>5, <2>6
<1>3. CASE CheckInterrupted(iso)
  <2>1. FutexTyping'
    BY Zenon, <1>3 DEF CheckInterrupted
  <2>2. ListIsExact'
    BY Zenon, <1>3, <2>1, QuietStep DEF CheckInterrupted, InWait
  <2>3. NothingIsSleptOver'
    BY Zenon, <1>3 DEF CheckInterrupted, NothingIsSleptOver, InWait
  <2> QED
    BY Zenon, <2>1, <2>2, <2>3
<1>4. CASE HandleTerminate(iso)
  <2>1. FutexTyping'
    BY Zenon, <1>4 DEF HandleTerminate
  <2>2. ListIsExact'
    BY Zenon, <1>4, <2>1, QuietStep DEF HandleTerminate, InWait
  <2>3. NothingIsSleptOver'
    BY Zenon, <1>4 DEF HandleTerminate, NothingIsSleptOver, InWait
  <2> QED
    BY Zenon, <2>1, <2>2, <2>3
<1>5. CASE HandleApi(iso)
  <2>1. FutexTyping'
    BY Zenon, <1>5 DEF HandleApi
  <2>2. ListIsExact'
    BY Zenon, <1>5, <2>1, QuietStep DEF HandleApi, InWait
  <2>3. NothingIsSleptOver'
    BY Zenon, <1>5 DEF HandleApi, NothingIsSleptOver, InWait
  <2> QED
    BY Zenon, <2>1, <2>2, <2>3
<1>6. CASE WakesUp(iso) \/ Continue(iso)
  <2>0. Iterate(iso) /\ InWait(iso)
    BY Zenon, <1>6 DEF WakesUp, Continue, Relock, InWait
  <2>1. FutexTyping'
    BY Zenon, <2>0 DEF Iterate
  <2>2. ListIsExact'
    BY Zenon, <2>0, <2>1, QuietStep DEF Iterate, InWait
  <2>3. NothingIsSleptOver'
    BY Zenon, <2>0 DEF Iterate, NothingIsSleptOver, InWait
  <2> QED
    BY Zenon, <2>1, <2>2, <2>3
<1>7. CASE ReturnException(iso) \/ ReturnOk(iso) \/ ReturnTimedOut(iso)
  <2>1. InWait(iso) /\ \E r \in Results : Return(iso, r)
    BY Zenon, <1>7 DEF ReturnException, ReturnOk, ReturnTimedOut, Relock, InWait, Results
  <2> QED
    BY Zenon, <2>1, ReturnKeepsIInv
<1>8. CASE Block(iso)
  <2>1. FutexTyping'
    BY Zenon, <1>8 DEF Block, Sleep
  <2>2. ListIsExact'
    BY Zenon, <1>8, <2>1, QuietStep DEF Block, Sleep, Relock, InWait
  <2>3. NothingIsSleptOver'
    BY Zenon, <1>8 DEF Block, Sleep, Relock, NothingIsSleptOver, InWait
  <2> QED
    BY Zenon, <2>1, <2>2, <2>3
<1> QED
  BY Zenon, <1>1, <1>2, <1>3, <1>4, <1>5, <1>6, <1>7, <1>8 DEF ThreadStep

(* What other threads, the clock and the caller do.                        *)
LEMMA OutsideKeepsIInv ==
  ASSUME FutexIInv, NEW iso \in Isolates,
         \/ \E c \in Calls : CallWait(iso, c)
         \/ Timeout(iso)
         \/ SpuriousWakeup(iso)
         \/ \E f \in Flags : RequestInterrupt(iso, f)
         \/ NotifyWake(iso)
  PROVE  FutexIInv'
<1> USE DEF FutexIInv, FutexTyping, Pc
<1>1. ASSUME NEW c \in Calls, CallWait(iso, c) PROVE FutexIInv'
  <2>1. FutexTyping'
    BY Zenon, <1>1 DEF CallWait
  <2>2. ListIsExact'
    BY Zenon, <1>1, <2>1, QuietStep DEF CallWait, InWait
  <2>3. NothingIsSleptOver'
    BY Zenon, <1>1 DEF CallWait, NothingIsSleptOver, InWait
  <2> QED
    BY Zenon, <2>1, <2>2, <2>3
<1>2. CASE Timeout(iso)
  <2>1. FutexTyping'
    BY Zenon, <1>2 DEF Timeout
  <2>2. ListIsExact'
    BY Zenon, <1>2, <2>1, QuietStep DEF Timeout, InWait
  <2>3. NothingIsSleptOver'
    BY Zenon, <1>2 DEF Timeout, NothingIsSleptOver, InWait
  <2> QED
    BY Zenon, <2>1, <2>2, <2>3
<1>3. CASE SpuriousWakeup(iso)
  <2>1. FutexTyping'
    BY Zenon, <1>3 DEF SpuriousWakeup
  <2>2. ListIsExact'
    BY Zenon, <1>3, <2>1, QuietStep DEF SpuriousWakeup, InWait
  <2>3. NothingIsSleptOver'
    BY Zenon, <1>3 DEF SpuriousWakeup, NothingIsSleptOver, InWait
  <2> QED
    BY Zenon, <2>1, <2>2, <2>3
<1>4. ASSUME NEW f \in Flags, RequestInterrupt(iso, f) PROVE FutexIInv'
  <2>1. FutexTyping'
    BY Zenon, <1>4 DEF RequestInterrupt
  <2>2. ListIsExact'
    BY Zenon, <1>4, <2>1, QuietStep DEF RequestInterrupt, InWait
  <2>3. NothingIsSleptOver'
    BY Zenon, <1>4 DEF RequestInterrupt, NothingIsSleptOver, InWait
  <2> QED
    BY Zenon, <2>1, <2>2, <2>3
<1>5. CASE NotifyWake(iso)
  <2>1. FutexTyping'
    BY Zenon, <1>5 DEF NotifyWake
  <2>2. ListIsExact'
    BY Zenon, <1>5, <2>1, QuietStep DEF NotifyWake, InWait
  <2>3. NothingIsSleptOver'
    BY Zenon, <1>5 DEF NotifyWake, NothingIsSleptOver, InWait
  <2> QED
    BY Zenon, <2>1, <2>2, <2>3
<1> QED
  BY Zenon, <1>1, <1>2, <1>3, <1>4, <1>5

(* A store gives the waiters at its address a new reason to be woken.      *)
LEMMA StoreKeepsIInv ==
  ASSUME FutexIInv, NEW a \in Addrs, NEW v \in Values, Store(a, v)
  PROVE  FutexIInv'
<1> USE DEF FutexIInv, FutexTyping, Pc
<1>1. FutexTyping'
  BY Zenon DEF Store
<1>2. ListIsExact'
  BY Zenon, <1>1, QuietStep DEF Store, InWait
<1>3. NothingIsSleptOver'
  BY Zenon DEF Store, NothingIsSleptOver, InWait, Calls
<1> QED
  BY Zenon, <1>1, <1>2, <1>3
-----------------------------------------------------------------------------
(* Parallel page jobs: the types of their variables.                      *)
JobTyping ==
  /\ main \in MainPc
  /\ i \in Nat /\ next_start \in Nat
  /\ num_items \in 0 .. MaxItems /\ num_tasks \in 0 .. kMaxNumberOfTasks
  /\ item_state \in [Items -> ProcessingState]
  /\ task \in [TaskIds -> TaskPc]
  /\ current \in [TaskIds -> Nat] /\ steps \in [TaskIds -> Nat]
  /\ pending_tasks \in Nat

(* The tasks that have been created are the first i or the first           *)
(* num_tasks, and each of them is at a page of the list.                   *)
Created == IF main = "create" THEN i ELSE num_tasks

LoopsAreInRange ==
  /\ main = "idle" => num_items = 0
  /\ num_items = 0 =>
       main \in {"idle", "done"} /\ i = 0 /\ next_start = 0 /\ num_tasks = 0
  /\ num_items > 0 =>
       num_tasks >= 1 /\ next_start < 2 * num_items /\ main # "idle"
  /\ i <= num_tasks
  /\ (main = "blocked" => i < num_tasks) /\ (main = "done" => i = num_tasks)
  /\ main = "create" /\ i = 0 => next_start = 0
  /\ \A t \in TaskIds : task[t] # "none" <=> t < Created
  /\ \A t \in TaskIds : t < Created => current[t] < num_items

(* The main thread's own task starts with the first page, and leaves no    *)
(* page behind that nobody has taken.                                      *)
MainTaskWalks ==
  /\ main \in {"idle", "create"} => task[0] \in {"none", "waiting"}
  /\ main = "work" => task[0] \in {"look", "process", "signal", "over"}
  /\ main \in {"collect", "blocked", "done"} /\ num_items > 0 => task[0] = "over"
  /\ task[0] \in {"none", "waiting"} => steps[0] = 0 /\ current[0] = 0
  /\ task[0] \in {"look", "process"} => steps[0] < num_items /\ current[0] = steps[0]
  /\ task[0] \in {"signal", "over"} => steps[0] = num_items
  /\ \A k \in Items : k < steps[0] => item_state[k] # "kAvailable"

(* A page is being processed by exactly one task.                          *)
PagesHaveOwners ==
  /\ \A t \in TaskIds : task[t] = "process" => item_state[current[t]] = "kProcessing"
  /\ \A t, u \in TaskIds :
       task[t] = "process" /\ task[u] = "process" /\ current[t] = current[u] => t = u
  /\ \A k \in Items : item_state[k] = "kProcessing" =>
       \E t \in TaskIds : task[t] = "process" /\ current[t] = k

(* The semaphore counts the signals that Run has not waited for yet: for   *)
(* each task that its last loop has passed, it has either aborted a task   *)
(* or taken a signal.                                                      *)
Settled == {t \in TaskIds : task[t] \in {"over", "canceled"}}
Passed == IF main \in {"collect", "blocked", "done"} THEN i ELSE 0
SignalsAreCounted == Cardinality(Settled) = pending_tasks + Passed

Walking == JobTyping /\ LoopsAreInRange /\ MainTaskWalks
JobIInv == Walking /\ PagesHaveOwners /\ SignalsAreCounted

(* The pages are shared out in portions no larger than the list.           *)
LEMMA PortionIsSmall ==
  ASSUME NEW n \in Nat, NEW m \in Nat, n >= 1, m >= 1
  PROVE  (n + m - 1) \div m \in 0 .. n
<1> DEFINE q == (n + m - 1) \div m
           r == (n + m - 1) % m
<1>1. q \in Int /\ r \in 0 .. m - 1 /\ n + m - 1 = m * q + r
  OBVIOUS
<1> HIDE DEF q, r
<1>2. q >= 0
  <2> SUFFICES ASSUME q <= -1 PROVE FALSE
    BY <1>1
  <2>1. m * q <= -m
    BY <1>1
  <2> QED
    BY <1>1, <2>1
<1>3. q <= n
  <2> SUFFICES ASSUME q >= n + 1 PROVE FALSE
    BY <1>1
  <2>1. m * q >= m * (n + 1)
    BY <1>1
  <2>2. m * (n + 1) = m * n + m /\ m * n >= n
    OBVIOUS
  <2> QED
    BY <1>1, <2>1, <2>2
<1> QED
  BY <1>1, <1>2, <1>3 DEF q

(* The next page, without division.                                        *)
LEMMA NextPage ==
  ASSUME NEW c \in Nat, NEW n \in Nat, c < n
  PROVE  (c + 1) % n = IF c + 1 = n THEN 0 ELSE c + 1
<1>1. CASE c + 1 = n
  BY <1>1
<1>2. CASE c + 1 < n
  BY <1>2
<1> QED
  BY <1>1, <1>2

(* There is a first task, and every page of the list is one of Items.      *)
LEMMA Ranges ==
  ASSUME JobTyping
  PROVE  /\ 0 \in TaskIds /\ \A t \in TaskIds : t \in Nat
         /\ num_items \in Nat /\ num_tasks \in Nat
         /\ \A t \in TaskIds : current[t] \in Nat /\ steps[t] \in Nat
         /\ \A c \in Nat : c < num_items => c \in Items
         /\ \A n \in Nat : n < num_tasks => n \in TaskIds
BY SMTT(60), JobAssumption DEF JobTyping, TaskIds, Items

(* At first there is no list and no task.                                  *)
LEMMA InitWalks == JobInit => Walking
BY JobAssumption
DEF JobInit, Walking, JobTyping, LoopsAreInRange, MainTaskWalks, MainPc,
    ProcessingState, TaskPc, TaskIds, Items, Created

(* Run chooses a number of tasks from 1 to kMaxNumberOfTasks.              *)
LEMMA RunWalks ==
  ASSUME Walking, NEW n \in 0 .. MaxItems, NEW num \in 1 .. kMaxNumberOfTasks,
         NEW threads \in 0 .. MaxThreads, Run(n, num, threads)
  PROVE  Walking'
<1> USE DEF Walking
<1>1. 0 \in TaskIds
  BY Zenon, Ranges
<1>2. n > 0 => num_tasks' \in 1 .. kMaxNumberOfTasks
  BY SMTT(60), JobAssumption DEF Run, Smaller, Larger
<1>3. /\ num_items = 0 /\ i = 0 /\ next_start = 0 /\ num_tasks = 0
      /\ num_items' = n /\ main' = IF n = 0 THEN "done" ELSE "create"
      /\ n = 0 => num_tasks' = 0
      /\ UNCHANGED <<i, next_start, item_state, task, current, steps, pending_tasks>>
  BY Zenon DEF Run, LoopsAreInRange, JobTyping
<1>4. \A t \in TaskIds : task[t] = "none"
  BY <1>3, Ranges DEF LoopsAreInRange, Created, Run
<1>5. JobTyping'
  BY SMTT(60), <1>2, <1>3, JobAssumption DEF JobTyping, MainPc
<1>6. LoopsAreInRange'
  BY SMTT(60), <1>2, <1>3, <1>4, Ranges, JobAssumption DEF LoopsAreInRange, Created
<1>7. MainTaskWalks'
  BY <1>1, <1>3, <1>4 DEF MainTaskWalks
<1> QED
  BY Zenon, <1>5, <1>6, <1>7

(* The start of a task is a page of the list, and for the first one it is  *)
(* the first page.                                                         *)
LEMMA CreateTaskWalks == ASSUME Walking, CreateTask PROVE Walking'
<1> USE DEF Walking
<1> DEFINE start == IF next_start >= num_items THEN next_start - num_items
                    ELSE next_start
<1>1. /\ i \in TaskIds /\ num_items >= 1 /\ num_tasks >= 1
      /\ main = "create" /\ i < num_tasks
  BY SMTT(60), Ranges DEF CreateTask, LoopsAreInRange, JobTyping
<1>2. start \in Nat /\ start < num_items /\ (i = 0 => start = 0)
  BY <1>1, Ranges DEF LoopsAreInRange, JobTyping
<1>3. ItemsPerTask \in 0 .. num_items
  BY Zenon, <1>1, Ranges, PortionIsSmall DEF ItemsPerTask
<1>4. /\ current' = [current EXCEPT ![i] = start]
      /\ task' = [task EXCEPT ![i] = "waiting"]
      /\ next_start' = start + ItemsPerTask
      /\ i' = i + 1
      /\ UNCHANGED <<main, num_items, num_tasks, item_state, steps, pending_tasks>>
  BY Zenon DEF CreateTask
<1> HIDE DEF start
<1>5. JobTyping'
  BY <1>1, <1>2, <1>3, <1>4 DEF JobTyping, TaskPc
<1>6. LoopsAreInRange'
  BY SMTT(60), <1>1, <1>2, <1>3, <1>4, Ranges DEF LoopsAreInRange, JobTyping, Created
<1>7. MainTaskWalks'
  BY Zenon, <1>1, <1>2, <1>4, Ranges DEF MainTaskWalks, JobTyping
<1> QED
  BY Zenon, <1>5, <1>6, <1>7

(* The other steps of the main thread change no page and no index of one.  *)
LEMMA MainStepWalks == ASSUME Walking, MainStep PROVE Walking'
<1> USE DEF Walking
<1>1. CASE CreateTask
  BY Zenon, <1>1, CreateTaskWalks
<1>2. CASE RunMainTask
  <2>1. task[0] = "waiting"
    BY <1>2, Ranges DEF RunMainTask, MainTaskWalks, LoopsAreInRange, JobTyping, Created
  <2>2. JobTyping'
    BY Zenon, <1>2 DEF RunMainTask, JobTyping, TaskPc, MainPc
  <2>3. LoopsAreInRange'
    BY Zenon, <1>2, <2>1, Ranges DEF RunMainTask, LoopsAreInRange, JobTyping, Created
  <2>4. MainTaskWalks'
    BY Zenon, <1>2, <2>1, Ranges DEF RunMainTask, MainTaskWalks, LoopsAreInRange, JobTyping
  <2> QED
    BY Zenon, <2>2, <2>3, <2>4
<1>3. CASE MainTaskReturns
  <2>1. JobTyping'
    BY Zenon, <1>3 DEF MainTaskReturns, JobTyping, MainPc
  <2>2. LoopsAreInRange'
    BY <1>3, Ranges DEF MainTaskReturns, LoopsAreInRange, JobTyping, Created
  <2>3. MainTaskWalks'
    BY Zenon, <1>3 DEF MainTaskReturns, MainTaskWalks
  <2> QED
    BY Zenon, <2>1, <2>2, <2>3
<1>4. CASE TryAbortTask
  <2>1. i \in TaskIds /\ num_items > 0
    BY SMTT(60), <1>4, Ranges DEF TryAbortTask, LoopsAreInRange, JobTyping
  <2>2. i # 0 \/ task[i] # "waiting"
    BY Zenon, <1>4, <2>1 DEF TryAbortTask, MainTaskWalks
  <2>3. JobTyping'
    BY SMTT(60), <1>4 DEF TryAbortTask, JobTyping, TaskPc, MainPc
  <2>4. LoopsAreInRange'
    BY SMTT(60), <1>4, <2>1, Ranges DEF TryAbortTask, LoopsAreInRange, JobTyping, Created
  <2>5. MainTaskWalks'
    BY Zenon, <1>4, <2>1, <2>2, Ranges DEF TryAbortTask, MainTaskWalks, JobTyping
  <2> QED
    BY Zenon, <2>3, <2>4, <2>5
<1>5. CASE SemaphoreWait
  <2>1. JobTyping'
    BY SMTT(60), <1>5 DEF SemaphoreWait, JobTyping, MainPc
  <2>2. LoopsAreInRange'
    BY SMTT(60), <1>5, Ranges DEF SemaphoreWait, LoopsAreInRange, JobTyping, Created
  <2>3. MainTaskWalks'
    BY Zenon, <1>5 DEF SemaphoreWait, MainTaskWalks
  <2> QED
    BY Zenon, <2>1, <2>2, <2>3
<1>6. CASE FinalizePages
  <2>1. JobTyping'
    BY Zenon, <1>6 DEF FinalizePages, JobTyping, MainPc
  <2>2. LoopsAreInRange'
    BY Zenon, <1>6, Ranges DEF FinalizePages, LoopsAreInRange, JobTyping, Created
  <2>3. MainTaskWalks'
    BY Zenon, <1>6 DEF FinalizePages, MainTaskWalks
  <2> QED
    BY Zenon, <2>1, <2>2, <2>3
<1> QED
  BY Zenon, <1>1, <1>2, <1>3, <1>4, <1>5, <1>6 DEF MainStep

(* A task goes on to the next page, or to its signal.                      *)
LEMMA AdvanceWalks ==
  ASSUME Walking, NEW t \in TaskIds, task[t] \in {"look", "process"}, Advance(t),
         item_state' \in [Items -> ProcessingState],
         \A k \in Items : item_state[k] # "kAvailable" => item_state'[k] # "kAvailable",
         t = 0 => item_state'[current[0]] # "kAvailable",
         UNCHANGED <<runVars, pending_tasks>>
  PROVE  Walking'
<1> USE DEF Walking
<1>1. current[t] \in Nat /\ steps[t] \in Nat /\ current[t] < num_items
  BY Zenon, Ranges DEF LoopsAreInRange
<1> DEFINE next == IF current[t] + 1 = num_items THEN 0 ELSE current[t] + 1
           place == IF steps[t] + 1 = num_items THEN "signal" ELSE "look"
<1>2. /\ current' = [current EXCEPT ![t] = next]
      /\ steps' = [steps EXCEPT ![t] = steps[t] + 1]
      /\ task' = [task EXCEPT ![t] = place]
  BY Zenon, <1>1, Ranges, NextPage DEF Advance
<1>3. next \in Nat /\ next < num_items /\ place \in {"signal", "look"}
  BY SMTT(60), <1>1, Ranges
<1>4. JobTyping'
  BY SMTT(60), <1>1, <1>2, <1>3 DEF JobTyping, TaskPc, runVars
<1>5. LoopsAreInRange'
  <2> HIDE DEF next, place
  <2>1. \A u \in TaskIds : task'[u] # "none" <=> task[u] # "none"
    BY Zenon, <1>2, <1>3 DEF JobTyping
  <2>2. \A u \in TaskIds : current'[u] = current[u] \/ current'[u] < num_items
    BY Zenon, <1>2, <1>3 DEF JobTyping
  <2> QED
    BY Zenon, <2>1, <2>2 DEF LoopsAreInRange, runVars, Created
<1>6. MainTaskWalks'
  <2>1. CASE t = 0
    <3>1. main = "work"
      BY SMTT(60), <2>1, <1>1, Ranges DEF MainTaskWalks, JobTyping, MainPc
    <3>2. steps[0] < num_items /\ current[0] = steps[0]
      BY Zenon, <2>1 DEF MainTaskWalks
    <3>3. /\ task'[0] = place /\ steps'[0] = steps[0] + 1 /\ current'[0] = next
      BY Zenon, <1>2, <2>1 DEF JobTyping
    <3>4. \A k \in Items : k < steps'[0] => item_state'[k] # "kAvailable"
      <4> SUFFICES ASSUME NEW k \in Items, k < steps'[0]
                   PROVE  item_state'[k] # "kAvailable"
        BY Zenon
      <4>1. k < steps[0] \/ k = current[0]
        BY SMTT(60), <1>1, <2>1, <3>2, <3>3 DEF Items
      <4> QED
        BY Zenon, <2>1, <4>1 DEF MainTaskWalks
    <3>5. num_items \in Nat
      BY Zenon, Ranges
    <3>6. task'[0] = "look" => steps'[0] < num_items /\ current'[0] = steps'[0]
      BY SMTT(60), <1>1, <2>1, <3>2, <3>3, <3>5
    <3>7. task'[0] = "signal" => steps'[0] = num_items
      BY Zenon, <2>1, <3>3
    <3>8. task'[0] \in {"look", "signal"}
      BY Zenon, <3>3
    <3> QED
      BY Zenon, <3>1, <3>4, <3>6, <3>7, <3>8 DEF MainTaskWalks, runVars
  <2>2. CASE t # 0
    <3>1. task'[0] = task[0] /\ steps'[0] = steps[0] /\ current'[0] = current[0]
      BY Zenon, <1>2, <2>2, Ranges DEF JobTyping
    <3> QED
      BY Zenon, <3>1 DEF MainTaskWalks, runVars
  <2> QED
    BY Zenon, <2>1, <2>2
<1> QED
  BY Zenon, <1>4, <1>5, <1>6

(* A task moves to another place and stays at its page.                    *)
LEMMA MoveWalks ==
  ASSUME Walking, NEW t \in TaskIds, NEW place \in TaskPc \ {"none"},
         task[t] # "none", task' = [task EXCEPT ![t] = place],
         t = 0 => place \notin {"waiting", "canceled"} /\ task[0] # "over"
                  /\ (place \in {"look", "process"} <=> task[0] \in {"look", "process"})
                  /\ task[0] \in {"look", "process", "signal"},
         item_state' \in [Items -> ProcessingState],
         \A k \in Items : item_state[k] # "kAvailable" => item_state'[k] # "kAvailable",
         pending_tasks' \in Nat,
         UNCHANGED <<runVars, current, steps>>
  PROVE  Walking'
<1> USE DEF Walking
<1>1. JobTyping'
  BY Zenon DEF JobTyping, runVars
<1>2. LoopsAreInRange'
  <2>1. \A u \in TaskIds : task'[u] # "none" <=> task[u] # "none"
    BY Zenon DEF JobTyping
  <2> QED
    BY Zenon, <2>1 DEF LoopsAreInRange, runVars, Created
<1>3. MainTaskWalks'
  <2>1. CASE t = 0
    <3>1. main = "work"
      BY <2>1, Ranges DEF MainTaskWalks, JobTyping, MainPc, LoopsAreInRange, Created
    <3>2. task'[0] = place
      BY Zenon, <2>1 DEF JobTyping
    <3> QED
      BY Zenon, <2>1, <3>1, <3>2 DEF MainTaskWalks, runVars, TaskPc
  <2>2. CASE t # 0
    <3>1. task'[0] = task[0]
      BY Zenon, <2>2, Ranges DEF JobTyping
    <3> QED
      BY Zenon, <3>1 DEF MainTaskWalks, runVars
  <2> QED
    BY Zenon, <2>1, <2>2
<1> QED
  BY Zenon, <1>1, <1>2, <1>3

(* Every step keeps the loops in range and the main task's walk.           *)
LEMMA StepWalks == ASSUME Walking, [JobNext]_jobVars PROVE Walking'
<1> USE DEF Walking
<1>1. CASE UNCHANGED jobVars
  BY ZenonT(60), <1>1 DEF jobVars, runVars, JobTyping, LoopsAreInRange, MainTaskWalks, Created
<1>2. CASE \E n \in 0 .. MaxItems, num \in 1 .. kMaxNumberOfTasks,
              threads \in 0 .. MaxThreads : Run(n, num, threads)
  BY Zenon, <1>2, RunWalks
<1>3. CASE MainStep
  BY Zenon, <1>3, MainStepWalks
<1>4. ASSUME NEW t \in TaskIds, StartTask(t) PROVE Walking'
  <2>1. /\ t # 0 /\ task[t] = "waiting" /\ task' = [task EXCEPT ![t] = "look"]
        /\ pending_tasks' \in Nat /\ UNCHANGED item_state
        /\ UNCHANGED <<runVars, current, steps>>
    BY <1>4, Ranges DEF StartTask, JobTyping
  <2>2. item_state \in [Items -> ProcessingState]
    BY Zenon DEF JobTyping
  <2> QED
    BY Zenon, <2>1, <2>2, MoveWalks DEF TaskPc
<1>5. ASSUME NEW t \in TaskIds, LookAtPage(t) PROVE Walking'
  <2>1. /\ task[t] = "look" /\ current[t] \in Items
        /\ item_state \in [Items -> ProcessingState] /\ pending_tasks \in Nat
    BY Zenon, <1>5, Ranges DEF LookAtPage, Take, LoopsAreInRange, JobTyping
  <2>2. CASE item_state[current[t]] = "kAvailable"
    <3>1. /\ item_state' = [item_state EXCEPT ![current[t]] = "kProcessing"]
          /\ task' = [task EXCEPT ![t] = "process"]
          /\ pending_tasks' = pending_tasks
          /\ UNCHANGED <<runVars, current, steps>>
      BY Zenon, <1>5, <2>2 DEF LookAtPage, Take
    <3>2. /\ item_state' \in [Items -> ProcessingState]
          /\ \A k \in Items : item_state[k] # "kAvailable" => item_state'[k] # "kAvailable"
      BY Zenon, <2>1, <3>1 DEF ProcessingState
    <3> QED
      BY Zenon, <2>1, <3>1, <3>2, MoveWalks DEF TaskPc
  <2>3. CASE item_state[current[t]] # "kAvailable"
    <3>1. Advance(t) /\ UNCHANGED item_state /\ UNCHANGED <<runVars, pending_tasks>>
      BY Zenon, <1>5, <2>3 DEF LookAtPage, Take
    <3> QED
      BY Zenon, <2>1, <2>3, <3>1, AdvanceWalks
  <2> QED
    BY Zenon, <2>2, <2>3
<1>6. ASSUME NEW t \in TaskIds, NEW success \in BOOLEAN, PageProcessed(t, success)
      PROVE  Walking'
  <2>1. /\ task[t] = "process" /\ current[t] \in Items
        /\ item_state \in [Items -> ProcessingState]
    BY Zenon, <1>6, Ranges DEF PageProcessed, LoopsAreInRange, JobTyping
  <2>2. /\ Advance(t) /\ UNCHANGED <<runVars, pending_tasks>>
        /\ item_state' = [item_state EXCEPT ![current[t]] =
                            IF success THEN "kFinished" ELSE "kFailed"]
    BY Zenon, <1>6 DEF PageProcessed
  <2>3. /\ item_state' \in [Items -> ProcessingState]
        /\ \A k \in Items : item_state[k] # "kAvailable" => item_state'[k] # "kAvailable"
        /\ item_state'[current[t]] # "kAvailable"
    BY Zenon, <2>1, <2>2 DEF ProcessingState
  <2> QED
    BY Zenon, <2>1, <2>2, <2>3, AdvanceWalks
<1>7. ASSUME NEW t \in TaskIds, Signal(t) PROVE Walking'
  <2>1. /\ task[t] = "signal" /\ task' = [task EXCEPT ![t] = "over"]
        /\ pending_tasks' \in Nat /\ UNCHANGED item_state
        /\ UNCHANGED <<runVars, current, steps>>
    BY SMTT(60), <1>7 DEF Signal, JobTyping
  <2>2. item_state \in [Items -> ProcessingState]
    BY Zenon DEF JobTyping
  <2> QED
    BY Zenon, <2>1, <2>2, MoveWalks DEF TaskPc
<1> QED
  BY Zenon, <1>1, <1>2, <1>3, <1>4, <1>5, <1>6, <1>7 DEF JobNext, TaskStep

(* A step in which no task begins or ends to process a page.               *)
LEMMA OwnersStay ==
  ASSUME PagesHaveOwners, UNCHANGED item_state,
         \A t \in TaskIds : task'[t] = "process" <=> task[t] = "process",
         \A t \in TaskIds : task[t] = "process" => current'[t] = current[t]
  PROVE  PagesHaveOwners'
BY SMTT(60) DEF PagesHaveOwners

(* Every step keeps the owners of the pages.                               *)
LEMMA StepKeepsOwners ==
  ASSUME Walking, PagesHaveOwners, [JobNext]_jobVars
  PROVE  PagesHaveOwners'
<1> USE DEF Walking
<1>1. CASE UNCHANGED jobVars
  BY Zenon, <1>1, OwnersStay DEF jobVars
<1>2. ASSUME NEW n, NEW num, NEW threads, Run(n, num, threads) PROVE PagesHaveOwners'
  BY Zenon, <1>2, OwnersStay DEF Run
<1>3. CASE CreateTask
  <2>1. i \in TaskIds /\ task[i] = "none"
    BY SMTT(60), <1>3, Ranges DEF CreateTask, LoopsAreInRange, Created, JobTyping
  <2>2. /\ \A t \in TaskIds : task'[t] = "process" <=> task[t] = "process"
        /\ \A t \in TaskIds : task[t] = "process" => current'[t] = current[t]
        /\ UNCHANGED item_state
    BY Zenon, <1>3, <2>1 DEF CreateTask, JobTyping
  <2> QED
    BY Zenon, <2>2, OwnersStay
<1>4. CASE RunMainTask
  <2>1. task[0] # "process"
    BY Zenon, <1>4 DEF RunMainTask, MainTaskWalks
  <2>2. /\ \A t \in TaskIds : task'[t] = "process" <=> task[t] = "process"
        /\ UNCHANGED <<item_state, current>>
    BY Zenon, <1>4, <2>1 DEF RunMainTask, JobTyping
  <2> QED
    BY Zenon, <2>2, OwnersStay
<1>5. CASE TryAbortTask
  <2>1. /\ \A t \in TaskIds : task'[t] = "process" <=> task[t] = "process"
        /\ UNCHANGED <<item_state, current>>
    BY Zenon, <1>5 DEF TryAbortTask, JobTyping
  <2> QED
    BY Zenon, <2>1, OwnersStay
<1>6. CASE MainTaskReturns \/ SemaphoreWait \/ FinalizePages
  BY Zenon, <1>6, OwnersStay DEF MainTaskReturns, SemaphoreWait, FinalizePages
<1>7. ASSUME NEW t \in TaskIds, StartTask(t) \/ Signal(t) PROVE PagesHaveOwners'
  <2>1. /\ \A u \in TaskIds : task'[u] = "process" <=> task[u] = "process"
        /\ UNCHANGED <<item_state, current>>
    BY Zenon, <1>7 DEF StartTask, Signal, JobTyping
  <2> QED
    BY Zenon, <2>1, OwnersStay
<1>8. ASSUME NEW t \in TaskIds, LookAtPage(t) PROVE PagesHaveOwners'
  <2>1. /\ task[t] = "look" /\ current[t] \in Items
        /\ item_state \in [Items -> ProcessingState] /\ task \in [TaskIds -> TaskPc]
        /\ current \in [TaskIds -> Nat]
    BY Zenon, <1>8, Ranges DEF LookAtPage, Take, LoopsAreInRange, JobTyping
  <2>2. CASE item_state[current[t]] = "kAvailable"
    <3>1. /\ item_state' = [item_state EXCEPT ![current[t]] = "kProcessing"]
          /\ task' = [task EXCEPT ![t] = "process"]
          /\ current' = current
      BY Zenon, <1>8, <2>2 DEF LookAtPage, Take
    <3>2. \A u \in TaskIds : task[u] = "process" => current[u] # current[t]
      BY Zenon, <2>2 DEF PagesHaveOwners
    <3>3. /\ task'[t] = "process" /\ item_state'[current[t]] = "kProcessing"
          /\ \A u \in TaskIds \ {t} : task'[u] = task[u]
          /\ \A k \in Items \ {current[t]} : item_state'[k] = item_state[k]
      BY Zenon, <2>1, <3>1
    <3>4. \A u \in TaskIds : task'[u] = "process" => item_state'[current'[u]] = "kProcessing"
      <4> SUFFICES ASSUME NEW u \in TaskIds, task'[u] = "process", u # t
                   PROVE  item_state'[current[u]] = "kProcessing"
        BY Zenon, <3>1, <3>3
      <4>1. current[u] \in Items
        BY Zenon, <3>3, Ranges DEF LoopsAreInRange
      <4> QED
        BY ZenonT(60), <3>2, <3>3, <4>1 DEF PagesHaveOwners
    <3>5. \A u, v \in TaskIds :
            task'[u] = "process" /\ task'[v] = "process" /\ current'[u] = current'[v] => u = v
      BY SMTT(60), <3>1, <3>2, <3>3 DEF PagesHaveOwners
    <3>6. \A k \in Items : item_state'[k] = "kProcessing" =>
            \E u \in TaskIds : task'[u] = "process" /\ current'[u] = k
      <4> SUFFICES ASSUME NEW k \in Items, item_state'[k] = "kProcessing", k # current[t]
                   PROVE  \E u \in TaskIds : task'[u] = "process" /\ current[u] = k
        BY Zenon, <3>1, <3>3
      <4>1. PICK u \in TaskIds : task[u] = "process" /\ current[u] = k
        BY Zenon, <3>3 DEF PagesHaveOwners
      <4> QED
        BY Zenon, <2>1, <3>3, <4>1
    <3> QED
      BY Zenon, <3>4, <3>5, <3>6 DEF PagesHaveOwners
  <2>3. CASE item_state[current[t]] # "kAvailable"
    <3>1. /\ \A u \in TaskIds : task'[u] = "process" <=> task[u] = "process"
          /\ \A u \in TaskIds : task[u] = "process" => current'[u] = current[u]
          /\ UNCHANGED item_state
      BY Zenon, <1>8, <2>1, <2>3 DEF LookAtPage, Take, Advance
    <3> QED
      BY Zenon, <3>1, OwnersStay
  <2> QED
    BY Zenon, <2>2, <2>3
<1>9. ASSUME NEW t \in TaskIds, NEW success, PageProcessed(t, success)
      PROVE  PagesHaveOwners'
  <2>1. /\ task[t] = "process" /\ current[t] \in Items
        /\ item_state \in [Items -> ProcessingState] /\ task \in [TaskIds -> TaskPc]
        /\ current \in [TaskIds -> Nat]
    BY Zenon, <1>9, Ranges DEF PageProcessed, LoopsAreInRange, JobTyping
  <2>2. /\ item_state'[current[t]] # "kProcessing"
        /\ \A k \in Items \ {current[t]} : item_state'[k] = item_state[k]
        /\ task'[t] # "process"
        /\ \A u \in TaskIds \ {t} : task'[u] = task[u] /\ current'[u] = current[u]
    BY Zenon, <1>9, <2>1 DEF PageProcessed, Advance
  <2>3. \A u \in TaskIds : task'[u] = "process" => item_state'[current'[u]] = "kProcessing"
    <3> SUFFICES ASSUME NEW u \in TaskIds, task'[u] = "process", u # t
                 PROVE  item_state'[current'[u]] = "kProcessing"
      BY Zenon, <2>2
    <3>1. current[u] \in Items /\ current[u] # current[t]
      BY SMTT(60), <2>1, <2>2, Ranges DEF LoopsAreInRange, PagesHaveOwners
    <3>2. item_state[current[u]] = "kProcessing"
      BY ZenonT(60), <2>2 DEF PagesHaveOwners
    <3> QED
      BY Zenon, <2>2, <3>1, <3>2
  <2>4. \A u, v \in TaskIds :
          task'[u] = "process" /\ task'[v] = "process" /\ current'[u] = current'[v] => u = v
    <3> SUFFICES ASSUME NEW u \in TaskIds, NEW v \in TaskIds, task'[u] = "process",
                        task'[v] = "process", current'[u] = current'[v]
                 PROVE  u = v
      BY Zenon
    <3>1. u # t /\ v # t
      BY Zenon, <2>2
    <3>2. task[u] = "process" /\ task[v] = "process" /\ current[u] = current[v]
      BY Zenon, <2>2, <3>1
    <3> QED
      BY Zenon, <3>2 DEF PagesHaveOwners
  <2>5. \A k \in Items : item_state'[k] = "kProcessing" =>
          \E u \in TaskIds : task'[u] = "process" /\ current'[u] = k
    <3> SUFFICES ASSUME NEW k \in Items, item_state'[k] = "kProcessing", k # current[t]
                 PROVE  \E u \in TaskIds : task'[u] = "process" /\ current'[u] = k
      BY Zenon, <2>2
    <3>1. PICK u \in TaskIds : task[u] = "process" /\ current[u] = k
      BY Zenon, <2>2 DEF PagesHaveOwners
    <3> QED
      BY Zenon, <2>2, <3>1
  <2> QED
    BY Zenon, <2>3, <2>4, <2>5 DEF PagesHaveOwners
<1> QED
  BY Zenon, <1>1, <1>2, <1>3, <1>4, <1>5, <1>6, <1>7, <1>8, <1>9 DEF JobNext, MainStep, TaskStep
-----------------------------------------------------------------------------
(* What remains counts the members of finite sets: of the isolates that    *)
(* Wake can wake, and of the tasks of a job that are settled.              *)
INSTANCE FiniteSetTheorems

(* A Wake of as many waiters as there are isolates visits every node that  *)
(* waits at the address.                                                   *)
LEMMA WakeOfAll ==
  ASSUME FutexTyping, IsInjective(wait_list),
         NEW a \in Addrs, NEW n \in Nat, n >= Cardinality(Isolates),
         NEW iso \in Range(wait_list), call[iso].addr = a
  PROVE  iso \in Targets(a, n)
<1> DEFINE size == Len(wait_list)
<1>1. size \in Nat /\ DOMAIN wait_list = 1 .. size
  BY SMTT(60) DEF FutexTyping
<1>2. PICK k \in 1 .. size : wait_list[k] = iso
  BY Zenon, <1>1 DEF Range
<1>0. wait_list \in [1 .. size -> Isolates]
  BY SMTT(60), <1>1 DEF FutexTyping
<1> HIDE DEF size
<1>3. size <= Cardinality(Isolates)
  <2>1. wait_list \in Injection(1 .. size, Isolates)
    BY Zenon, <1>0 DEF Injection
  <2>2. Cardinality(1 .. size) = size
    BY SMTT(60), <1>1, FS_Interval
  <2> QED
    BY SMTT(60), <2>1, <2>2, FS_Injection, FutexAssumption
<1>4. /\ Cardinality({j \in Matching(a) : j < k}) <= k - 1
      /\ Cardinality({j \in Matching(a) : j < k}) \in Nat
  <2>1. {j \in Matching(a) : j < k} \in SUBSET (1 .. k - 1)
    BY SMTT(60), <1>1, <1>2 DEF Matching
  <2>2. k - 1 \in Int /\ 1 \in Int
    BY SMTT(60), <1>1, <1>2
  <2>3. IsFiniteSet(1 .. k - 1)
        /\ Cardinality(1 .. k - 1) = IF 1 > k - 1 THEN 0 ELSE k - 1 - 1 + 1
    BY Zenon, <2>2, FS_Interval
  <2>4. Cardinality(1 .. k - 1) = k - 1
    BY SMTT(60), <1>1, <1>2, <2>3
  <2>5. IsFiniteSet({j \in Matching(a) : j < k})
        /\ Cardinality({j \in Matching(a) : j < k}) <= Cardinality(1 .. k - 1)
    BY Zenon, <2>1, <2>3, FS_Subset
  <2> QED
    BY Zenon, <2>4, <2>5, FS_CardinalityType
<1>5. Cardinality({j \in Matching(a) : j < k}) < n
  <2>1. Cardinality(Isolates) \in Nat
    BY Zenon, FS_CardinalityType, FutexAssumption
  <2> QED
    BY SMTT(60), <1>1, <1>2, <1>3, <1>4, <2>1
<1>6. k \in Matching(a)
  BY Zenon, <1>1, <1>2 DEF Matching
<1> QED
  BY Zenon, <1>2, <1>5, <1>6 DEF Targets

(* Wake wakes whoever it no longer lets wait, and a Wake of everybody      *)
(* leaves nobody waiting at the address.                                   *)
LEMMA WakeKeepsIInv ==
  ASSUME FutexIInv, NEW a \in Addrs, NEW n \in WakeCounts, Wake(a, n)
  PROVE  FutexIInv'
<1> USE DEF FutexIInv, FutexTyping, Pc
<1>1. FutexTyping'
  BY Zenon DEF Wake
<1>2. ListIsExact'
  BY Zenon, <1>1, QuietStep DEF Wake, InWait
<1>3. ASSUME NEW iso \in Isolates, pc[iso]' = "blocked" PROVE waiting[iso]' /\ ~interrupted[iso]'
  BY Zenon, <1>3 DEF Wake, NothingIsSleptOver
<1>4. ASSUME NEW iso \in Isolates, InWait(iso)', waiting[iso]',
             memory[call[iso].addr]' # call[iso].value'
      PROVE  ~waked[call[iso].addr]'
  <2>1. /\ InWait(iso) /\ waiting[iso] /\ iso \notin Targets(a, n)
        /\ memory' = memory /\ call' = call
    BY Zenon, <1>4 DEF Wake, InWait
  <2>2. ~waked[call[iso].addr]
    BY Zenon, <1>4, <2>1 DEF NothingIsSleptOver
  <2>3. CASE call[iso].addr # a
    BY SMTT(60), <2>1, <2>2, <2>3 DEF Wake
  <2>4. CASE call[iso].addr = a
    <3>1. iso \in Range(wait_list)
      BY Zenon, <2>1 DEF ListIsExact
    <3>2. n \in Nat
      BY Zenon, FutexAssumption
    <3>3. ~(n >= Cardinality(Isolates))
      BY Zenon, <2>1, <2>4, <3>1, <3>2, WakeOfAll DEF ListIsExact
    <3> QED
      BY Zenon, <2>1, <2>2, <2>4, <3>3 DEF Wake
  <2> QED
    BY Zenon, <2>3, <2>4
<1>5. NothingIsSleptOver'
  BY Zenon, <1>3, <1>4 DEF NothingIsSleptOver
<1> QED
  BY Zenon, <1>1, <1>2, <1>5

(* The invariant of Wait, Wake and NotifyWake holds throughout.            *)
LEMMA FutexInvariance == FutexSpec => []FutexIInv
<1>1. ASSUME FutexIInv, [FutexNext]_futexVars PROVE FutexIInv'
  <2>1. CASE UNCHANGED futexVars
    BY Zenon, <1>1, <2>1 DEF futexVars, FutexIInv, FutexTyping, ListIsExact,
                      NothingIsSleptOver, InWait
  <2>2. CASE FutexNext
    BY Zenon, <1>1, <2>2, ThreadStepKeepsIInv, WakeKeepsIInv, OutsideKeepsIInv,
       StoreKeepsIInv DEF FutexNext
  <2> QED
    BY Zenon, <1>1, <2>1, <2>2
<1> QED
  BY <1>1, FutexInitIInv, PTL DEF FutexSpec

(* However calls of Wait begin, are woken, time out and are interrupted,   *)
(* the wait list holds the nodes of the threads in Wait, each once.        *)
THEOREM WaitListExact == FutexSpec => []ListIsExact
<1>1. FutexIInv => ListIsExact
  BY Zenon DEF FutexIInv
<1> QED
  BY <1>1, FutexInvariance, PTL

(* For any isolates, addresses and values: no thread sleeps over a Wake or *)
(* an interrupt that found its node registered, and after a store and a    *)
(* Wake of everybody nobody waits for the old value.                       *)
THEOREM NoEventSleptOver == FutexSpec => []NothingIsSleptOver
<1>1. FutexIInv => NothingIsSleptOver
  BY Zenon DEF FutexIInv
<1> QED
  BY <1>1, FutexInvariance, PTL

(* The settled tasks can be counted.                                       *)
LEMMA SettledIsFinite ==
  IsFiniteSet(Settled) /\ Cardinality(Settled) \in Nat
<1>1. IsFiniteSet(TaskIds)
  BY SMTT(60), FS_Interval, JobAssumption DEF TaskIds
<1> QED
  BY Zenon, <1>1, FS_Subset, FS_CardinalityType DEF Settled

(* A task is settled by being aborted and by its signal.                   *)
LEMMA SettledGrows ==
  ASSUME task \in [TaskIds -> TaskPc], NEW t \in TaskIds,
         task[t] \notin {"over", "canceled"}, NEW place \in {"over", "canceled"},
         task' = [task EXCEPT ![t] = place]
  PROVE  Cardinality(Settled') = Cardinality(Settled) + 1
<1>1. Settled' = Settled \cup {t} /\ t \notin Settled
  BY Zenon DEF Settled
<1> QED
  BY Zenon, <1>1, SettledIsFinite, FS_AddElement

(* Every step keeps the count of the semaphore.                            *)
LEMMA StepCounts ==
  ASSUME Walking, SignalsAreCounted, [JobNext]_jobVars
  PROVE  SignalsAreCounted'
<1> USE DEF Walking
<1> DEFINE n == Cardinality(Settled)
<1>0. n \in Nat /\ n = pending_tasks + Passed /\ pending_tasks \in Nat /\ i \in Nat
      /\ task \in [TaskIds -> TaskPc]
  BY Zenon, SettledIsFinite DEF SignalsAreCounted, JobTyping
<1>1. CASE UNCHANGED jobVars
  BY Zenon, <1>1 DEF jobVars, runVars, SignalsAreCounted, Settled, Passed
<1>2. ASSUME NEW m, NEW num, NEW threads, Run(m, num, threads)
      PROVE  SignalsAreCounted'
  <2>1. Passed = 0 /\ Passed' = 0 /\ Settled' = Settled /\ pending_tasks' = pending_tasks
    BY Zenon, <1>2 DEF Run, Passed, Settled, LoopsAreInRange
  <2> QED
    BY Zenon, <2>1 DEF SignalsAreCounted
<1>3. CASE CreateTask
  <2>1. i \in TaskIds /\ task[i] = "none"
    BY <1>3, Ranges DEF CreateTask, LoopsAreInRange, Created, JobTyping
  <2>2. Settled' = Settled /\ Passed' = Passed /\ pending_tasks' = pending_tasks
    BY Zenon, <1>0, <1>3, <2>1 DEF CreateTask, Settled, Passed
  <2> QED
    BY Zenon, <2>2 DEF SignalsAreCounted
<1>4. CASE RunMainTask
  <2>1. task[0] \notin {"over", "canceled"}
    BY Zenon, <1>4 DEF RunMainTask, MainTaskWalks
  <2>2. Settled' = Settled /\ Passed' = Passed /\ pending_tasks' = pending_tasks
    BY Zenon, <1>0, <1>4, <2>1 DEF RunMainTask, Settled, Passed
  <2> QED
    BY Zenon, <2>2 DEF SignalsAreCounted
<1>5. CASE MainTaskReturns
  <2>1. Settled' = Settled /\ Passed' = 0 /\ Passed = 0 /\ pending_tasks' = pending_tasks
    BY Zenon, <1>5 DEF MainTaskReturns, Settled, Passed
  <2> QED
    BY Zenon, <2>1 DEF SignalsAreCounted
<1>6. CASE TryAbortTask
  <2>1. i \in TaskIds
    BY Zenon, <1>6, Ranges DEF TryAbortTask, LoopsAreInRange, JobTyping
  <2>2. CASE task[i] = "waiting"
    <3>1. n' = n + 1
      BY Zenon, <1>0, <1>6, <2>1, <2>2, SettledGrows DEF TryAbortTask
    <3>2. Passed' = Passed + 1 /\ Passed = i /\ pending_tasks' = pending_tasks
      BY Zenon, <1>6, <2>2 DEF TryAbortTask, Passed
    <3> QED
      BY SMTT(60), <1>0, <3>1, <3>2 DEF SignalsAreCounted
  <2>3. CASE task[i] # "waiting"
    <3>1. Settled' = Settled /\ Passed' = Passed /\ pending_tasks' = pending_tasks
      BY Zenon, <1>6, <2>3 DEF TryAbortTask, Settled, Passed
    <3> QED
      BY Zenon, <3>1 DEF SignalsAreCounted
  <2> QED
    BY Zenon, <2>2, <2>3
<1>7. CASE SemaphoreWait
  <2>1. /\ Settled' = Settled /\ Passed = i /\ Passed' = i + 1
        /\ pending_tasks' = pending_tasks - 1
    BY Zenon, <1>7 DEF SemaphoreWait, Settled, Passed
  <2> QED
    BY SMTT(60), <1>0, <2>1 DEF SignalsAreCounted
<1>8. CASE FinalizePages
  <2>1. Settled' = Settled /\ Passed' = Passed /\ pending_tasks' = pending_tasks
    BY Zenon, <1>8 DEF FinalizePages, Settled, Passed
  <2> QED
    BY Zenon, <2>1 DEF SignalsAreCounted
<1>9. ASSUME NEW t \in TaskIds, StartTask(t) \/ LookAtPage(t) PROVE SignalsAreCounted'
  <2>1. Settled' = Settled /\ Passed' = Passed /\ pending_tasks' = pending_tasks
    BY Zenon, <1>0, <1>9 DEF StartTask, LookAtPage, Take, Advance, runVars, Settled, Passed
  <2> QED
    BY Zenon, <2>1 DEF SignalsAreCounted
<1>10. ASSUME NEW t \in TaskIds, NEW success, PageProcessed(t, success)
       PROVE  SignalsAreCounted'
  <2>1. Settled' = Settled /\ Passed' = Passed /\ pending_tasks' = pending_tasks
    BY Zenon, <1>0, <1>10 DEF PageProcessed, Advance, runVars, Settled, Passed
  <2> QED
    BY Zenon, <2>1 DEF SignalsAreCounted
<1>11. ASSUME NEW t \in TaskIds, Signal(t) PROVE SignalsAreCounted'
  <2>1. n' = n + 1
    BY Zenon, <1>0, <1>11, SettledGrows DEF Signal
  <2>2. Passed' = Passed /\ pending_tasks' = pending_tasks + 1
    BY Zenon, <1>11 DEF Signal, runVars, Passed
  <2>3. Passed \in Nat
    BY Zenon, <1>0 DEF Passed
  <2> QED
    BY SMTT(60), <1>0, <2>1, <2>2, <2>3 DEF SignalsAreCounted
<1> QED
  BY Zenon, <1>1, <1>2, <1>3, <1>4, <1>5, <1>6, <1>7, <1>8, <1>9, <1>10, <1>11
  DEF JobNext, MainStep, TaskStep

(* The invariant holds in every reachable state.                           *)
LEMMA JobInvariant == JobSpec => []JobIInv
<1>1. JobInit => JobIInv
  <2> SUFFICES ASSUME JobInit PROVE JobIInv
    BY Zenon
  <2>1. Settled = {} /\ Passed = 0 /\ pending_tasks = 0
    BY Zenon DEF JobInit, Settled, Passed
  <2>2. SignalsAreCounted
    BY SMTT(60), <2>1, FS_EmptySet DEF SignalsAreCounted
  <2>3. PagesHaveOwners
    BY Zenon DEF JobInit, PagesHaveOwners
  <2> QED
    BY Zenon, <2>2, <2>3, InitWalks DEF JobIInv
<1>2. JobIInv /\ [JobNext]_jobVars => JobIInv'
  BY Zenon, StepWalks, StepKeepsOwners, StepCounts DEF JobIInv
<1> QED
  BY <1>1, <1>2, PTL DEF JobSpec

(* When Run of a page parallel job returns, every page of the list has     *)
(* been processed, no task that it created is running or can still start,  *)
(* and the semaphore is at 0: as many tasks are settled as were created,   *)
(* so each of them is, and no signal is left over.                         *)
THEOREM JobEnds == JobSpec => []JobIsOver
<1>1. JobIInv => JobIsOver
  <2> SUFFICES ASSUME JobIInv, main = "done"
               PROVE  /\ \A k \in 0 .. num_items - 1 : item_state[k] \in {"kFinished", "kFailed"}
                      /\ \A t \in TaskIds : task[t] \in {"none", "canceled", "over"}
                      /\ pending_tasks = 0
    BY Zenon DEF JobIsOver
  <2> USE DEF JobIInv, Walking
  <2> DEFINE created == 0 .. num_tasks - 1
  <2>1. num_tasks \in Nat /\ num_items \in Nat /\ pending_tasks \in Nat /\ i = num_tasks
    BY Zenon, Ranges DEF LoopsAreInRange, JobTyping
  <2>2. IsFiniteSet(created) /\ Cardinality(created) = num_tasks
    BY SMTT(60), <2>1, FS_Interval
  <2>3. Settled \subseteq created
    BY <2>1, Ranges DEF Settled, LoopsAreInRange, Created
  <2>4. Cardinality(Settled) = pending_tasks + num_tasks
    BY Zenon, <2>1 DEF SignalsAreCounted, Passed
  <2>5. /\ Cardinality(Settled) <= Cardinality(created)
        /\ Cardinality(created) = Cardinality(Settled) => created = Settled
    BY Zenon, <2>2, <2>3, FS_Subset
  <2>6. pending_tasks = 0 /\ created = Settled
    <3> HIDE DEF created
    <3> QED
      BY SMTT(60), <2>1, <2>2, <2>4, <2>5
  <2>7. \A t \in TaskIds : task[t] \in {"none", "canceled", "over"}
    BY <2>1, <2>6, Ranges DEF Settled, LoopsAreInRange, Created
  <2>8. ASSUME NEW k \in 0 .. num_items - 1
        PROVE  item_state[k] \in {"kFinished", "kFailed"}
    <3>1. k \in Items /\ steps[0] = num_items
      BY SMTT(60), <2>1, Ranges DEF MainTaskWalks
    <3>2. item_state[k] # "kAvailable" /\ item_state[k] \in ProcessingState
      BY SMTT(60), <2>1, <3>1 DEF MainTaskWalks, JobTyping
    <3>3. item_state[k] # "kProcessing"
      BY Zenon, <2>7, <3>1 DEF PagesHaveOwners
    <3> QED
      BY Zenon, <3>2, <3>3 DEF ProcessingState
  <2> QED
    BY Zenon, <2>6, <2>7, <2>8
<1> QED
  BY <1>1, JobInvariant, PTL

(* A page whose outcome has been written by the task that processed it is  *)
(* not taken and written again, however the walks of the tasks overlap.    *)
THEOREM PagesProcessedOnce == JobSpec => ProcessedOnce
<1>1. ASSUME JobIInv, [JobNext]_jobVars, NEW k \in Items, item_state[k] \in {"kFinished", "kFailed"}
      PROVE  item_state'[k] = item_state[k]
  <2> USE DEF JobIInv, Walking
  <2>1. item_state \in [Items -> ProcessingState]
    BY Zenon, <1>1 DEF JobTyping
  <2>2. ASSUME NEW t \in TaskIds, LookAtPage(t) PROVE item_state'[k] = item_state[k]
    BY Zenon, <1>1, <2>1, <2>2 DEF LookAtPage, Take
  <2>3. ASSUME NEW t \in TaskIds, NEW success, PageProcessed(t, success)
        PROVE  item_state'[k] = item_state[k]
    <3>1. current[t] # k
      BY Zenon, <1>1, <2>3 DEF PageProcessed, PagesHaveOwners
    <3> QED
      BY Zenon, <2>1, <2>3, <3>1 DEF PageProcessed
  <2>4. CASE UNCHANGED item_state
    BY Zenon, <2>4
  <2> QED
    BY Zenon, <1>1, <2>2, <2>3, <2>4
    DEF JobNext, MainStep, TaskStep, Run, CreateTask, RunMainTask, MainTaskReturns, TryAbortTask,
        SemaphoreWait, FinalizePages, StartTask, Signal, jobVars
<1>2. JobIInv /\ [JobNext]_jobVars =>
        [\A k \in Items : item_state[k] \in {"kFinished", "kFailed"}
           => item_state'[k] = item_state[k]]_jobVars
  BY Zenon, <1>1
<1> QED
  BY <1>2, JobInvariant, PTL DEF JobSpec, ProcessedOnce
=============================================================================
