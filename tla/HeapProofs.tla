----------------------------- MODULE HeapProofs -----------------------------
(***************************************************************************)
(* Proofs about the heap's components.                                     *)
(*                                                                         *)
(* The memory reducer, for any delays and any limit on the collections: it *)
(* has one timer exactly while it waits, marking is in progress while it   *)
(* is in kRun, and it implements the automaton of its header.              *)
(*                                                                         *)
(* The sweeper, for any spaces and any finite set of pages (the steps of   *)
(* the threads that sweep are in SweeperSteps): a page is swept once in a  *)
(* cycle, and when EnsureCompleted returns sweeping is over.               *)
(***************************************************************************)
EXTENDS MemoryReducer, SweeperSteps, FiniteSetTheorems

(* The tasks that run are finitely many, and one less when one ends.       *)
LEMMA ActiveIsFinite ==
  /\ IsFiniteSet(Active) /\ Cardinality(Active) \in Nat
  /\ \A t \in Active : /\ Cardinality(Active \ {t}) \in Nat
                       /\ Cardinality(Active \ {t}) + 1 = Cardinality(Active)
<1>1. IsFiniteSet(SweeperTasks) /\ Active \subseteq SweeperTasks
  BY ThreadFacts, FS_Interval DEF SweeperTasks, Active
<1>2. IsFiniteSet(Active) /\ Cardinality(Active) \in Nat
  BY Zenon, <1>1, FS_Subset, FS_CardinalityType
<1>3. ASSUME NEW t \in Active
      PROVE  Cardinality(Active \ {t}) \in Nat /\ Cardinality(Active \ {t}) + 1 = Cardinality(Active)
  <2>1. Cardinality(Active \ {t}) \in Nat /\ Cardinality(Active \ {t}) = Cardinality(Active) - 1
    BY Zenon, <1>2, FS_RemoveElement, FS_CardinalityType
  <2> QED
    BY <1>2, <2>1
<1> QED
  BY Zenon, <1>2, <1>3

(* IsSweepingCompleted takes as many signals as there are.                 *)
LEMMA SignalsAreTaken ==
  ASSUME SweeperIInv
  PROVE  /\ num_sweeping_tasks \in Nat /\ pending_sweeper_tasks \in Nat /\ Unfinished \in Nat
         /\ TakeSignals =>
              /\ num_sweeping_tasks' \in Nat /\ pending_sweeper_tasks' \in Nat
              /\ num_sweeping_tasks' - pending_sweeper_tasks'
                   = num_sweeping_tasks - pending_sweeper_tasks
              /\ num_sweeping_tasks' <= num_sweeping_tasks
         /\ ~HelpIsNeeded =>
              FLAG_concurrent_sweeping /\ num_sweeping_tasks = pending_sweeper_tasks
<1>1. num_sweeping_tasks \in Nat /\ pending_sweeper_tasks \in Nat /\ Cardinality(Active) \in Nat
  BY Zenon, ActiveIsFinite DEF SweeperIInv, SweeperTyping
<1>2. Unfinished = Cardinality(Active)
  BY <1>1 DEF SweeperIInv, TasksAreCounted, Unfinished
<1>3. TakeSignals => num_sweeping_tasks' = Unfinished /\ pending_sweeper_tasks' = 0
  BY Zenon DEF TakeSignals
<1>4. Unfinished = num_sweeping_tasks - pending_sweeper_tasks
  BY Zenon DEF Unfinished
<1>5. ~HelpIsNeeded => FLAG_concurrent_sweeping /\ Unfinished = 0
  BY Zenon DEF HelpIsNeeded
<1> QED
  BY SMTT(60), <1>1, <1>2, <1>3, <1>4, <1>5

(* When the semaphore has been signalled for every task, no task runs.     *)
LEMMA NoTaskRuns ==
  ASSUME SweeperIInv, num_sweeping_tasks = pending_sweeper_tasks
  PROVE  \A t \in SweeperTasks : sweep[t] = Off
<1>1. Cardinality(Active) \in Nat /\ num_sweeping_tasks \in Nat /\ pending_sweeper_tasks \in Nat
  BY Zenon, ActiveIsFinite DEF SweeperIInv, SweeperTyping
<1>2. Cardinality(Active) = 0
  BY <1>1 DEF SweeperIInv, TasksAreCounted
<1>3. Active = {}
  BY Zenon, <1>2, ActiveIsFinite, FS_EmptySet
<1> QED
  BY Zenon, <1>3 DEF Active

(* EnsureCompleted takes the signal of a task, or finds that none is       *)
(* awaited and ends.                                                       *)
LEMMA WaitForTaskKeeps ==
  ASSUME SweeperIInv, WaitForTask
  PROVE  SweeperIInv'
<1> USE DEF SweeperIInv
<1>1. /\ collector.at = "ensure" /\ collector' = collector /\ sweep' = sweep
      /\ sweep[Main].at = "take" /\ sweep[Main].page = NoPage
      /\ UNCHANGED <<flags, lists, sweeping_state, page_mutex, skipped>>
  BY DEF WaitForTask, phase, MainSwept, Through, At
<1>2. /\ num_sweeping_tasks' \in Nat /\ pending_sweeper_tasks' \in Nat
      /\ num_sweeping_tasks' - pending_sweeper_tasks' = num_sweeping_tasks - pending_sweeper_tasks
      /\ num_sweeping_tasks' <= num_sweeping_tasks
  BY SignalsAreTaken DEF WaitForTask, WaitForTasks
<1>3. collector.at = "ensure" =>
        \A s \in SpaceIds : sweeping_list[s] # <<>> => s \in Range(sweep[Main].spaces)
  BY Zenon DEF ListsAreVisited
<1>4. MainGoesTo(sweep[Main])
  BY Zenon, <1>1, <1>2, <1>3, MainInNoCall DEF MainGoesTo, lists, SweeperTyping, Visits, ThreadsArePlaced
<1>5. NewSpaceIsDone'
  BY Zenon, <1>1 DEF NewSpaceIsDone
<1> QED
  BY Zenon, <1>4, <1>5, MainMoves

(* A task that has no space left signals its end.                          *)
LEMMA SignalEndKeeps ==
  ASSUME SweeperIInv, NEW t \in Threads, SignalEnd(t)
  PROVE  SweeperIInv'
<1> USE DEF SweeperIInv
<1>1. /\ t # Main /\ t \in SweeperTasks
      /\ sweep[t].at = "take" /\ sweep[t].spaces = <<>> /\ sweep[t].page = NoPage
      /\ sweep' = [u \in Threads |-> IF u = t THEN Off ELSE sweep[u]]
      /\ pending_sweeper_tasks' = pending_sweeper_tasks + 1
      /\ UNCHANGED <<lists, sweeping_state, page_mutex, num_sweeping_tasks, skipped, phase>>
  <2>1. t # Main /\ t \in SweeperTasks
    BY Zenon, ThreadFacts DEF SignalEnd
  <2>2. sweep[t].at = "take" /\ sweep[t].spaces = <<>> /\ sweep[t].page = NoPage
    BY DEF SignalEnd, Through, At
  <2>3. sweep' = [u \in Threads |-> IF u = t THEN Off ELSE sweep[u]]
    BY Zenon DEF SignalEnd, SweeperTyping
  <2> QED
    BY Zenon, <2>1, <2>2, <2>3 DEF SignalEnd
<1>2. Off \in Places /\ Off.at = "off" /\ Off.page = NoPage /\ Off.spaces = <<>>
  BY SMTT(60) DEF Off, At, Places, SweepPc
<1>3. SweeperTyping'
  BY SMTT(60), <1>1, <1>2 DEF SweeperTyping, lists, phase, flags, Places
<1>4. \A u \in Threads : u # t => sweep'[u] = sweep[u]
  BY Zenon, <1>1
<1>5. sweep'[t] = Off /\ sweep[t] # Off
  BY Zenon, <1>1, <1>2
<1>6. ThreadsArePlaced'
  BY Zenon, <1>1, <1>2, <1>4, <1>5, ThreadFacts DEF ThreadsArePlaced, phase, flags, Visits
<1>7. MutexesAreHeld'
  <2>1. \A u \in Threads : \A p \in Pages : Sweeps(u, p)' <=> Sweeps(u, p)
    BY Zenon, <1>1, <1>2, <1>4, <1>5 DEF Sweeps
  <2>2. \A u \in Threads : u # t => sweep'[u].at = sweep[u].at
    BY Zenon, <1>4
  <2>3. \A p : ~Sweeps(t, p)
    BY Zenon, <1>1 DEF Sweeps
  <2>4. \A p \in Pages : page_mutex[p] # NoPage => page_mutex[p] \in Threads
    BY Zenon DEF SweeperTyping
  <2> QED
    BY <1>1, <2>1, <2>2, <2>3, <2>4 DEF MutexesAreHeld, phase
<1>8. PendingIsFound'
  BY Zenon, <1>1, <1>4 DEF PendingIsFound, lists
<1>9. ListsAreVisited'
  <2>1. \A u \in Threads : sweep'[u].spaces = sweep[u].spaces
    BY Zenon, <1>1, <1>2, <1>4, <1>5
  <2> QED
    BY Zenon, <1>1, <2>1, ThreadFacts DEF ListsAreVisited, lists, phase, flags
<1>10. TasksAreCounted'
  <2>1. Active' = Active \ {t} /\ t \in Active
    BY Zenon, <1>1, <1>4, <1>5, ThreadFacts DEF Active
  <2>2. Cardinality(Active') + 1 = Cardinality(Active) /\ Cardinality(Active') \in Nat
    BY Zenon, <2>1, ActiveIsFinite
  <2> QED
    BY SMTT(60), <1>1, <2>2 DEF TasksAreCounted, SweeperTyping, phase, flags
<1>11. LateAreUntouched'
  BY SMTT(60), <1>1, <1>2, <1>4, <1>5, ThreadFacts
     DEF LateAreUntouched, lists, phase, flags, ThreadsArePlaced
<1>12. SweptAreOnce'
  BY SMTT(60), <1>1, <1>2, <1>4, <1>5 DEF SweptAreOnce, lists, phase, flags
<1>13. BetweenCycles' /\ NewSpaceIsDone'
  BY Zenon, <1>1, <1>4, ThreadFacts DEF BetweenCycles, NewSpaceIsDone, phase, flags
<1> QED
  BY Zenon, <1>3, <1>6, <1>7, <1>8, <1>9, <1>10, <1>11, <1>12, <1>13

(* EnsureNewSpaceCompleted begins.                                         *)
LEMMA EnsureNewSpaceKeeps ==
  ASSUME SweeperIInv, EnsureNewSpaceCompleted
  PROVE  SweeperIInv'
<1> USE DEF SweeperIInv
<1> DEFINE left == IF HelpIsNeeded THEN PagesOf(NEW_SPACE) ELSE {}
<1>1. /\ collector = Doing("mutator") /\ collector.at = "mutator" /\ sweeping_in_progress
      /\ sweep[Main] = Off /\ sweep' = sweep /\ TakeSignals
      /\ collector' = [at |-> "newspace", left |-> left]
      /\ UNCHANGED <<flags, lists, sweeping_state, page_mutex, skipped>>
  BY Zenon, MainInNoCall DEF EnsureNewSpaceCompleted, Doing
<1>2. left \subseteq Pages
  BY Zenon DEF PagesOf
<1>3. HelpIsNeeded => left = PagesOf(NEW_SPACE)
  BY Zenon
<1> HIDE DEF left
<1>4. /\ collector' \in [at : CollectorPc, left : SUBSET (Pages \cup SpaceIds)]
      /\ collector'.at = "newspace" /\ collector'.left = left
  BY Zenon, <1>1, <1>2 DEF CollectorPc
<1>5. MainGoesTo(Off)
  BY Zenon, <1>1, <1>2, <1>4, MainInNoCall, OffIsAPlace, SignalsAreTaken
     DEF MainGoesTo, lists, SweeperTyping, Visits
<1>6. ~HelpIsNeeded => \A p \in Pages \ skipped : sweeping_state[p] = "kSweepingDone"
  <2> SUFFICES ASSUME ~HelpIsNeeded
               PROVE  \A p \in Pages \ skipped : sweeping_state[p] = "kSweepingDone"
    BY Zenon
  <2>1. FLAG_concurrent_sweeping /\ \A t \in SweeperTasks : sweep[t] = Off
    BY Zenon, SignalsAreTaken, NoTaskRuns
  <2>2. \A t \in Threads : sweep[t].at \in {"off", "take"}
    BY Zenon, <1>1, <2>1, ThreadFacts, OffIsAPlace
  <2>3. \A s \in SpaceIds : sweeping_list[s] = <<>>
    BY Zenon, <1>1, <2>1, ListsAreEmpty
  <2> QED
    BY Zenon, <2>2, <2>3, PagesAreDone
<1>7. NewSpaceIsDone'
  BY Zenon, <1>1, <1>3, <1>4, <1>6, OffIsAPlace DEF NewSpaceIsDone, PagesOf
<1> QED
  BY Zenon, <1>5, <1>7, MainMoves

(* EnsureCompleted begins, and takes the signal of a task.                 *)
LEMMA EnsureCompletedKeeps ==
  ASSUME SweeperIInv, EnsureCompleted
  PROVE  SweeperIInv'
<1> USE DEF SweeperIInv
<1> DEFINE rest == IF HelpIsNeeded THEN Spaces ELSE <<>>
           place == Through(rest)
<1>1. /\ collector = Doing("mutator") /\ collector.at = "mutator" /\ sweeping_in_progress
      /\ sweep[Main] = Off /\ sweep' = [u \in Threads |-> IF u = Main THEN place ELSE sweep[u]]
      /\ collector' = Doing("ensure") /\ "ensure" \in CollectorPc
      /\ UNCHANGED <<flags, lists, sweeping_state, page_mutex, skipped>>
  <2>1. collector = Doing("mutator") /\ collector.at = "mutator" /\ sweep[Main] = Off
    BY Zenon, MainInNoCall DEF EnsureCompleted, Doing
  <2>2. sweep' = [u \in Threads |-> IF u = Main THEN place ELSE sweep[u]]
    BY Zenon, ThreadFacts DEF EnsureCompleted, SweeperTyping
  <2> QED
    BY Zenon, <2>1, <2>2 DEF EnsureCompleted, CollectorPc
<1>2. /\ num_sweeping_tasks' \in Nat /\ pending_sweeper_tasks' \in Nat
      /\ num_sweeping_tasks' - pending_sweeper_tasks' = num_sweeping_tasks - pending_sweeper_tasks
      /\ num_sweeping_tasks' <= num_sweeping_tasks
  BY SignalsAreTaken DEF EnsureCompleted, tasks
<1>3. \A s \in SpaceIds : sweeping_list[s] # <<>> => s \in Range(rest)
  <2>1. CASE HelpIsNeeded
    BY Zenon, <2>1 DEF SpaceIds
  <2>2. CASE ~HelpIsNeeded
    <3>1. FLAG_concurrent_sweeping /\ \A t \in SweeperTasks : sweep[t] = Off
      BY Zenon, <2>2, SignalsAreTaken, NoTaskRuns
    <3> QED
      BY Zenon, <1>1, <3>1, ListsAreEmpty
  <2> QED
    BY Zenon, <2>1, <2>2
<1>4. rest \in Seq(SpaceIds)
  BY SMTT(60), SweeperAssumption DEF SpaceIds
<1>5. place \in Places /\ place.at = "take" /\ place.page = NoPage /\ place.spaces = rest
  BY Zenon, <1>4 DEF Through, At, Places, SweepPc
<1> HIDE DEF rest, place
<1>6. collector'.at = "ensure" /\ collector' \in [at : CollectorPc, left : SUBSET (Pages \cup SpaceIds)]
  BY Zenon, <1>1, MainInNoCall
<1>7. MainGoesTo(place)
  BY Zenon, <1>1, <1>2, <1>3, <1>5, <1>6, OffIsAPlace DEF MainGoesTo, lists, SweeperTyping, Visits
<1>8. NewSpaceIsDone'
  BY Zenon, <1>1, <1>5, <1>6, ThreadFacts DEF NewSpaceIsDone
<1> QED
  BY Zenon, <1>7, <1>8, MainMoves

(* EnsureCompleted returns.                                                *)
LEMMA SweepingCompletedKeeps ==
  ASSUME SweeperIInv, SweepingCompleted
  PROVE  SweeperIInv'
<1> USE DEF SweeperIInv
<1>1. /\ collector.at = "ensure" /\ sweep[Main].at = "take" /\ sweep[Main].spaces = <<>>
      /\ sweep' = [u \in Threads |-> IF u = Main THEN Off ELSE sweep[u]]
      /\ swept_list' = [s \in SpaceIds |-> <<>>] /\ late_pages' = FALSE
      /\ sweeping_in_progress' = FALSE /\ collector' = Doing("mutator") /\ "mutator" \in CollectorPc
      /\ UNCHANGED <<FLAG_concurrent_sweeping, sweeping_list, sweeping_state, page_mutex, tasks,
                     skipped>>
  <2>1. sweep[Main].at = "take" /\ sweep[Main].spaces = <<>>
    BY SMTT(60) DEF SweepingCompleted, MainSwept, Through, At
  <2>2. sweep' = [u \in Threads |-> IF u = Main THEN Off ELSE sweep[u]]
    BY Zenon, ThreadFacts DEF SweepingCompleted, MainIsOff, SweeperTyping
  <2> QED
    BY Zenon, <2>1, <2>2 DEF SweepingCompleted, SpaceIds, CollectorPc
<1>2. \A s \in SpaceIds : sweeping_list[s] = <<>>
  BY <1>1 DEF ListsAreVisited, Range
<1>3. num_sweeping_tasks = 0 /\ num_sweeping_tasks = pending_sweeper_tasks
  <2>1. num_sweeping_tasks = 0
    BY SignalsAreTaken DEF SweepingCompleted, WaitForTasks, TasksAreCounted
  <2>2. Cardinality(Active) \in Nat
    BY Zenon, ActiveIsFinite
  <2> QED
    BY SMTT(60), <2>1, <2>2, SignalsAreTaken DEF TasksAreCounted
<1>4. \A t \in SweeperTasks : sweep[t] = Off
  BY Zenon, <1>3, NoTaskRuns
<1>5. \A t \in Threads : sweep'[t] = Off
  BY Zenon, <1>1, <1>4, ThreadFacts
<1>6. \A p \in Pages \ skipped : sweeping_state[p] = "kSweepingDone"
  <2>1. \A t \in Threads : sweep[t].at \in {"off", "take"}
    BY Zenon, <1>1, <1>4, ThreadFacts, OffIsAPlace
  <2> QED
    BY Zenon, <1>2, <2>1, PagesAreDone
<1>7. collector'.at = "mutator" /\ collector' \in [at : CollectorPc, left : SUBSET (Pages \cup SpaceIds)]
  BY Zenon, <1>1, MainInNoCall
<1>8. SweeperTyping'
  <2>1. swept_list' \in [SpaceIds -> Seq(Pages)]
    BY SMTT(60), <1>1
  <2>2. sweep' \in [Threads -> Places]
    BY Zenon, <1>1, OffIsAPlace DEF SweeperTyping, Places
  <2> QED
    BY Zenon, <1>1, <1>7, <2>1, <2>2 DEF SweeperTyping, tasks, Places
<1>9. ThreadsArePlaced'
  BY Zenon, <1>1, <1>5, <1>7, ThreadFacts, OffIsAPlace DEF ThreadsArePlaced, Visits
<1>10. MutexesAreHeld'
  <2>1. \A t \in Threads : \A p : ~Sweeps(t, p) /\ ~Sweeps(t, p)'
    BY Zenon, <1>1, <1>4, <1>5, ThreadFacts, OffIsAPlace DEF Sweeps
  <2>2. \A p \in Pages : page_mutex[p] = NoPage /\ sweeping_state[p] # "kSweepingInProgress"
    <3>1. \A p \in Pages : page_mutex[p] # NoPage => page_mutex[p] \in Threads
      BY Zenon DEF SweeperTyping
    <3> QED
      BY SMTT(60), <1>1, <2>1, <3>1 DEF MutexesAreHeld
  <2> QED
    BY Zenon, <1>1, <1>7, <2>1, <2>2 DEF MutexesAreHeld
<1>11. PendingIsFound' /\ ListsAreVisited'
  BY Zenon, <1>1, <1>2, <1>6 DEF PendingIsFound, ListsAreVisited
<1>12. TasksAreCounted'
  <2>1. Active' = Active
    BY Zenon, <1>4, <1>5, ThreadFacts DEF Active
  <2> QED
    BY Zenon, <1>1, <1>3, <2>1 DEF TasksAreCounted, tasks
<1>13. LateAreUntouched' /\ NewSpaceIsDone'
  BY Zenon, <1>5, <1>7, ThreadFacts, OffIsAPlace DEF LateAreUntouched, NewSpaceIsDone
<1>14. SweptAreOnce'
  <2>1. \A p \in Pages : swept_list'[Home[p]] = <<>>
    BY Zenon, <1>1, ThreadFacts
  <2> QED
    BY Zenon, <2>1, NothingIsListed DEF SweptAreOnce, Listed
<1>15. BetweenCycles'
  BY Zenon, <1>1, <1>5, <1>6, ThreadFacts, OffIsAPlace DEF BetweenCycles
<1> QED
  BY Zenon, <1>8, <1>9, <1>10, <1>11, <1>12, <1>13, <1>14, <1>15

(* A list has the pages it was made of.                                    *)
LEMMA SortedLists ==
  ASSUME NEW pages \in SUBSET Pages, NEW list \in ListsOf(pages)
  PROVE  /\ list \in Seq(Pages) /\ \A k \in 1 .. Len(list) : list[k] \in pages
         /\ \A p \in pages : Listed(list, p)
<1>1. Cardinality(pages) \in Nat
  BY Zenon, SweeperAssumption, FS_Subset, FS_CardinalityType
<1>2. list \in [1 .. Cardinality(pages) -> pages] /\ \A p \in pages : \E k \in DOMAIN list : list[k] = p
  BY Zenon DEF ListsOf
<1>3. list \in Seq(pages) /\ Len(list) = Cardinality(pages) /\ DOMAIN list = 1 .. Len(list)
  BY <1>1, <1>2
<1>4. list \in Seq(Pages)
  BY SMTT(60), <1>1, <1>2
<1> QED
  BY Zenon, <1>2, <1>3, <1>4 DEF Listed

(* Before a collection no thread has a page and nothing is to be swept.    *)
LEMMA NothingIsSwept ==
  ASSUME SweeperIInv, collector.at = "mutator", ~sweeping_in_progress
  PROVE  /\ \A t \in Threads : sweep[t] = Off
         /\ num_sweeping_tasks = 0 /\ pending_sweeper_tasks = 0
         /\ \A p \in Pages : page_mutex[p] = NoPage /\ sweeping_state[p] # "kSweepingInProgress"
         /\ \A p \in Pages \ skipped :
              sweeping_state[p] = "kSweepingDone" /\ ~Listed(swept_list[Home[p]], p)
<1> USE DEF SweeperIInv
<1>1. \A t \in Threads : sweep[t] = Off
  BY Zenon, ThreadFacts, MainInNoCall DEF ThreadsArePlaced
<1>2. num_sweeping_tasks = 0 /\ pending_sweeper_tasks = 0
  <2>1. Cardinality(Active) \in Nat
    BY Zenon, ActiveIsFinite
  <2> QED
    BY <2>1 DEF TasksAreCounted, SweeperTyping
<1>3. \A t \in Threads : \A p : ~Sweeps(t, p)
  BY Zenon, <1>1, OffIsAPlace DEF Sweeps
<1>4. \A p \in Pages : page_mutex[p] = NoPage /\ sweeping_state[p] # "kSweepingInProgress"
  <2>1. \A p \in Pages : page_mutex[p] # NoPage => page_mutex[p] \in Threads
    BY Zenon DEF SweeperTyping
  <2> QED
    BY SMTT(60), <1>3, <2>1 DEF MutexesAreHeld
<1> QED
  BY Zenon, <1>1, <1>2, <1>4 DEF BetweenCycles, SweptAreOnce

(* A collection starts to sweep.                                           *)
LEMMA SweepSpacesKeeps ==
  ASSUME SweeperIInv, SweepSpaces
  PROVE  SweeperIInv'
<1> USE DEF SweeperIInv
<1> DEFINE n == Len(Spaces)
<1>1. collector.at = "mutator" /\ ~sweeping_in_progress
  BY Zenon DEF SweepSpaces
<1>2. PICK pages \in SUBSET Pages, late \in SUBSET Pages :
        /\ late \subseteq Pages \ pages
        /\ sweeping_list' \in [SpaceIds -> UNION {ListsOf(pages \cap PagesOf(s)) :
                                                  s \in SpaceIds}]
        /\ \A s \in SpaceIds : sweeping_list'[s] \in ListsOf(pages \cap PagesOf(s))
        /\ sweeping_state' = Prepared(pages)
        /\ collector' = [at |-> "evacuate", left |-> late]
  BY Zenon DEF SweepSpaces, SpaceIds
<1>3. /\ sweeping_in_progress'
      /\ FLAG_concurrent_sweeping =>
           /\ num_sweeping_tasks' = num_sweeping_tasks + n - 1
           /\ sweep' = [t \in Threads |-> IF t \in 1 .. n - 1 THEN Through(From(t + 1)) ELSE sweep[t]]
      /\ ~FLAG_concurrent_sweeping => UNCHANGED <<num_sweeping_tasks, sweep>>
      /\ UNCHANGED <<FLAG_concurrent_sweeping, swept_list, page_mutex, pending_sweeper_tasks,
                     late_pages, skipped>>
  BY Zenon DEF SweepSpaces
<1>4. ASSUME NEW s \in SpaceIds
      PROVE  /\ sweeping_list'[s] \in Seq(Pages)
             /\ \A k \in 1 .. Len(sweeping_list'[s]) : sweeping_list'[s][k] \in pages \cap PagesOf(s)
             /\ \A p \in pages \cap PagesOf(s) : Listed(sweeping_list'[s], p)
  <2>1. pages \cap PagesOf(s) \in SUBSET Pages
    BY Zenon
  <2> QED
    BY Zenon, <1>2, <2>1, SortedLists
<1>5. n \in Nat /\ n >= 2 /\ n \notin 1 .. n - 1 /\ 1 \in 1 .. n - 1 /\ 1 \in SweeperTasks
  BY SMTT(60), ThreadFacts, SweeperAssumption DEF SweeperTasks
<1>6. ASSUME NEW t \in 1 .. n - 1
      PROVE  /\ t \in SweeperTasks /\ t \in Threads /\ t # Main
             /\ Through(From(t + 1)) \in Places /\ Through(From(t + 1)).at = "take"
             /\ Through(From(t + 1)).page = NoPage
             /\ \A s \in SpaceIds : s \in Range(Through(From(t + 1)).spaces)
  <2>1. t + 1 \in 2 .. Len(Spaces) /\ t \in SweeperTasks
    BY <1>5 DEF SweeperTasks
  <2>2. From(t + 1) \in Seq(SpaceIds) /\ \A s \in SpaceIds : s \in Range(From(t + 1))
    BY Zenon, <2>1, FromVisitsAll
  <2> QED
    BY Zenon, <2>1, <2>2, ThreadFacts DEF Through, At, Places, SweepPc
<1> HIDE DEF n
<1>7. /\ \A t \in Threads : sweep[t] = Off
      /\ num_sweeping_tasks = 0 /\ pending_sweeper_tasks = 0
      /\ \A p \in Pages : page_mutex[p] = NoPage /\ sweeping_state[p] # "kSweepingInProgress"
      /\ \A p \in Pages \ skipped :
           sweeping_state[p] = "kSweepingDone" /\ ~Listed(swept_list[Home[p]], p)
  BY Zenon, <1>1, NothingIsSwept
<1>8. \A t \in Threads : \/ FLAG_concurrent_sweeping /\ t \in 1 .. n - 1 /\ sweep'[t] = Through(From(t + 1))
                         \/ ~(FLAG_concurrent_sweeping /\ t \in 1 .. n - 1) /\ sweep'[t] = Off
  BY Zenon, <1>3, <1>7
<1>9. \A t \in Threads : /\ sweep'[t] \in Places /\ sweep'[t].page = NoPage
                         /\ (sweep'[t].at = "off" /\ sweep'[t] = Off) \/ sweep'[t].at = "take"
  BY Zenon, <1>6, <1>8, OffIsAPlace
<1>10. /\ collector'.at = "evacuate" /\ collector'.left = late
       /\ collector' \in [at : CollectorPc, left : SUBSET (Pages \cup SpaceIds)]
  BY Zenon, <1>2 DEF CollectorPc
<1>11. /\ \A p \in pages : sweeping_state'[p] = "kSweepingPending"
       /\ \A p \in Pages \ pages : sweeping_state'[p] = sweeping_state[p]
       /\ sweeping_state' \in [Pages -> SweepingState]
  BY Zenon, <1>2 DEF Prepared, SweeperTyping, SweepingState
<1>12. SweeperTyping'
  <2>1. sweep' \in [Threads -> Places]
    <3>1. sweep' = [t \in Threads |-> sweep'[t]]
      BY Zenon, <1>3 DEF SweeperTyping
    <3> QED
      BY Zenon, <1>9, <3>1
  <2>2. sweeping_list' \in [SpaceIds -> Seq(Pages)]
    BY Zenon, <1>2, <1>4
  <2>3. num_sweeping_tasks' \in Nat
    BY SMTT(60), <1>3, <1>5, <1>7
  <2> QED
    BY Zenon, <1>3, <1>10, <1>11, <2>1, <2>2, <2>3 DEF SweeperTyping, Places
<1>13. ThreadsArePlaced'
  <2>1. sweep'[Main] = Off
    BY Zenon, <1>6, <1>8, ThreadFacts
  <2>2. sweep'[Len(Spaces)] = Off
    BY Zenon, <1>5, <1>8, ThreadFacts DEF n
  <2>3. ~FLAG_concurrent_sweeping => \A t \in SweeperTasks : sweep'[t] = Off
    BY Zenon, <1>8, ThreadFacts
  <2> QED
    BY Zenon, <1>3, <1>9, <1>10, <2>1, <2>2, <2>3 DEF ThreadsArePlaced, Visits
<1>14. MutexesAreHeld'
  <2>1. \A t \in Threads : \A p : ~Sweeps(t, p)'
    BY Zenon, <1>9 DEF Sweeps
  <2>2. \A p \in Pages : page_mutex'[p] = NoPage /\ sweeping_state'[p] # "kSweepingInProgress"
    BY Zenon, <1>3, <1>7, <1>11
  <2> QED
    BY Zenon, <1>10, <2>1, <2>2 DEF MutexesAreHeld
<1>15. PendingIsFound'
  <2>1. \A s \in SpaceIds : \A k \in 1 .. Len(sweeping_list'[s]) : Home[sweeping_list'[s][k]] = s
    BY Zenon, <1>4 DEF PagesOf
  <2>2. ASSUME NEW p \in Pages \ skipped, sweeping_state'[p] = "kSweepingPending"
        PROVE  Listed(sweeping_list'[Home[p]], p)
    <3>1. p \in pages /\ Home[p] \in SpaceIds
      BY Zenon, <1>7, <1>11, <2>2, ThreadFacts
    <3>2. p \in pages \cap PagesOf(Home[p])
      BY Zenon, <3>1 DEF PagesOf
    <3> QED
      BY Zenon, <1>4, <3>1, <3>2
  <2> QED
    BY Zenon, <1>3, <2>1, <2>2 DEF PendingIsFound
<1>16. ListsAreVisited'
  <2>1. FLAG_concurrent_sweeping => \A s \in SpaceIds : s \in Range(sweep'[1].spaces)
    BY Zenon, <1>5, <1>6, <1>8, ThreadFacts
  <2> QED
    BY Zenon, <1>3, <1>5, <1>10, <2>1 DEF ListsAreVisited
<1>17. TasksAreCounted'
  <2>1. CASE FLAG_concurrent_sweeping
    <3>1. Active' = 1 .. n - 1
      BY SMTT(60), <1>6, <1>8, <2>1, ThreadFacts, OffIsAPlace DEF Active
    <3>2. Cardinality(1 .. n - 1) = n - 1
      BY SMTT(60), <1>5, FS_Interval
    <3> QED
      BY SMTT(60), <1>3, <1>5, <1>7, <2>1, <3>1, <3>2 DEF TasksAreCounted
  <2>2. CASE ~FLAG_concurrent_sweeping
    <3>1. Active' = {}
      BY Zenon, <1>8, <2>2, ThreadFacts DEF Active
    <3> QED
      BY SMTT(60), <1>3, <1>7, <2>2, <3>1, FS_EmptySet DEF TasksAreCounted
  <2> QED
    BY Zenon, <2>1, <2>2
<1>18. LateAreUntouched'
  <2> SUFFICES ASSUME NEW p \in late
               PROVE  /\ \A t \in Threads : sweep'[t].page # p
                      /\ ~Listed(sweeping_list'[Home[p]], p)
                      /\ p \notin skipped =>
                           sweeping_state'[p] = "kSweepingDone" /\ ~Listed(swept_list[Home[p]], p)
    BY Zenon, <1>3, <1>10 DEF LateAreUntouched
  <2>1. p \in Pages /\ p \notin pages /\ Home[p] \in SpaceIds
    BY Zenon, <1>2, ThreadFacts
  <2>2. ~Listed(sweeping_list'[Home[p]], p)
    BY Zenon, <1>4, <2>1 DEF Listed
  <2> QED
    BY Zenon, <1>7, <1>9, <1>11, <2>1, <2>2, ThreadFacts
<1>19. SweptAreOnce'
  BY Zenon, <1>3, <1>7 DEF SweptAreOnce, Listed
<1>20. BetweenCycles' /\ NewSpaceIsDone'
  BY Zenon, <1>3, <1>9, <1>10, ThreadFacts DEF BetweenCycles, NewSpaceIsDone
<1> QED
  BY Zenon, <1>12, <1>13, <1>14, <1>15, <1>16, <1>17, <1>18, <1>19, <1>20

(* The collection is finished; pages that were added late get a task.      *)
LEMMA FinishKeeps ==
  ASSUME SweeperIInv, Finish
  PROVE  SweeperIInv'
<1> USE DEF SweeperIInv
<1> DEFINE n == Len(Spaces)
           started == late_pages /\ FLAG_concurrent_sweeping
           place == IF started THEN Through(From(2)) ELSE Off
<1>1. /\ collector.at = "evacuate" /\ collector'.at = "mutator" /\ collector'.left = {}
      /\ collector' \in [at : CollectorPc, left : SUBSET (Pages \cup SpaceIds)]
  BY Zenon DEF Finish, Doing, CollectorPc
<1>2. UNCHANGED <<FLAG_concurrent_sweeping, sweeping_in_progress, late_pages, sweeping_list,
                  swept_list, sweeping_state, page_mutex, pending_sweeper_tasks, skipped>>
  BY Zenon DEF Finish, flags, lists
<1>3. /\ started => num_sweeping_tasks' = num_sweeping_tasks + 1 /\ sweep' = [sweep EXCEPT ![n] = Through(From(2))]
      /\ ~started => UNCHANGED <<num_sweeping_tasks, sweep>>
  BY Zenon DEF Finish
<1>4. /\ sweep[n] = Off /\ sweep[Main] = Off /\ sweeping_in_progress
      /\ n \in SweeperTasks /\ n \in Threads /\ n # Main
  BY Zenon, <1>1, ThreadFacts DEF ThreadsArePlaced
<1>5. /\ Through(From(2)) \in Places /\ Through(From(2)).at = "take" /\ Through(From(2)) # Off
      /\ Through(From(2)).page = NoPage
      /\ \A s \in SpaceIds : s \in Range(Through(From(2)).spaces)
  <2>1. 2 \in 2 .. Len(Spaces)
    BY SMTT(60), SweeperAssumption, ThreadFacts
  <2>2. From(2) \in Seq(SpaceIds) /\ \A s \in SpaceIds : s \in Range(From(2))
    BY Zenon, <2>1, FromVisitsAll
  <2> QED
    BY Zenon, <2>2 DEF Through, At, Places, SweepPc, Off
<1> HIDE DEF n, started
<1>6. /\ place \in Places /\ place.page = NoPage
      /\ (place = Off /\ place.at = "off") \/ place.at = "take"
  BY Zenon, <1>5, OffIsAPlace
<1>7. sweep \in [Threads -> Places]
  BY Zenon DEF SweeperTyping, Places
<1>8. sweep' = [u \in Threads |-> IF u = n THEN place ELSE sweep[u]]
  <2>1. CASE started
    BY Zenon, <1>3, <1>4, <1>7, <2>1
  <2>2. CASE ~started
    BY Zenon, <1>3, <1>4, <1>7, <2>2
  <2> QED
    BY Zenon, <2>1, <2>2
<1>9. sweep'[n] = place /\ \A u \in Threads : u # n => sweep'[u] = sweep[u]
  BY Zenon, <1>4, <1>8
<1>10. \A u \in Threads : \A p \in Pages :
         /\ Sweeps(u, p)' <=> Sweeps(u, p)
         /\ sweep'[u].page = p <=> sweep[u].page = p
         /\ sweep'[u].page = p => sweep'[u] = sweep[u]
  <2>1. sweep'[n].page = NoPage /\ sweep[n].page = NoPage
    BY Zenon, <1>4, <1>6, <1>9, OffIsAPlace
  <2> QED
    BY Zenon, <1>9, <2>1, ThreadFacts DEF Sweeps
<1> HIDE DEF place
<1>11. SweeperTyping'
  <2>1. num_sweeping_tasks' \in Nat
    BY <1>3 DEF SweeperTyping
  <2>2. sweep' \in [Threads -> Places]
    BY Zenon, <1>6, <1>7, <1>8
  <2> QED
    BY Zenon, <1>1, <1>2, <2>1, <2>2 DEF SweeperTyping, Places
<1>12. ThreadsArePlaced'
  <2>1. \A t \in Threads :
          /\ sweep'[t].at = "off" => sweep'[t] = Off
          /\ sweep'[t].at = "take" => sweep'[t].page = NoPage
          /\ sweep'[t].at \notin {"off", "take"} => sweep'[t].page \in Pages
          /\ sweep'[t].at = "tried" => t = Main
    <3>1. \A t \in Threads :
            /\ sweep[t].at = "off" => sweep[t] = Off
            /\ sweep[t].at = "take" => sweep[t].page = NoPage
            /\ sweep[t].at \notin {"off", "take"} => sweep[t].page \in Pages
            /\ sweep[t].at = "tried" => t = Main
      BY Zenon DEF ThreadsArePlaced
    <3> QED
      BY Zenon, <1>6, <1>9, <3>1
  <2>2. sweep'[Main] = Off
    BY Zenon, <1>4, <1>9, ThreadFacts
  <2>3. ~FLAG_concurrent_sweeping => \A t \in SweeperTasks : sweep'[t] = Off
    BY Zenon, <1>3, ThreadFacts DEF ThreadsArePlaced, started
  <2> QED
    BY Zenon, <1>1, <1>2, <1>4, <2>1, <2>2, <2>3 DEF ThreadsArePlaced, Visits
<1>13. MutexesAreHeld'
  <2> SUFFICES ASSUME NEW q \in Pages
               PROVE  /\ \A t \in Threads : Sweeps(t, q)' => page_mutex'[q] = t
                      /\ page_mutex'[q] # NoPage =>
                           \/ Sweeps(page_mutex[q], q)'
                           \/ page_mutex'[q] = Main /\ collector' = [at |-> "tracker", left |-> {q}]
                      /\ collector'.at = "tracker" /\ q \in collector'.left => page_mutex'[q] = Main
                      /\ \A t \in Threads : Sweeps(t, q)' =>
                           sweeping_state'[q] = IF sweep'[t].at = "sweep" THEN "kSweepingInProgress"
                                                                          ELSE "kSweepingDone"
                      /\ sweeping_state'[q] = "kSweepingInProgress" =>
                           page_mutex'[q] \in Threads /\ Sweeps(page_mutex[q], q)'
    BY Zenon DEF MutexesAreHeld
  <2>1. page_mutex[q] # NoPage => page_mutex[q] \in Threads /\ Sweeps(page_mutex[q], q)
    BY SMTT(60), <1>1 DEF MutexesAreHeld, SweeperTyping
  <2>2. page_mutex[q] # NoPage => Sweeps(page_mutex[q], q)'
    <3> SUFFICES ASSUME NEW u, u = page_mutex[q], u # NoPage PROVE Sweeps(u, q)'
      BY Zenon, <1>2 DEF Sweeps
    <3> QED
      BY Zenon, <1>10, <2>1
  <2>3. \A t \in Threads : Sweeps(t, q)' => Sweeps(t, q) /\ sweep'[t] = sweep[t]
    BY Zenon, <1>10 DEF Sweeps
  <2>4. page_mutex' = page_mutex /\ sweeping_state' = sweeping_state
    BY Zenon, <1>2
  <2>5. sweeping_state[q] = "kSweepingInProgress" => page_mutex[q] \in Threads
    BY Zenon DEF MutexesAreHeld
  <2> QED
    BY SMTT(60), <1>1, <2>2, <2>3, <2>4, <2>5, ThreadFacts DEF MutexesAreHeld
<1>14. PendingIsFound'
  BY SMTT(60), <1>2, <1>10 DEF PendingIsFound
<1>15. ListsAreVisited'
  <2> SUFFICES ASSUME NEW s \in SpaceIds, sweeping_list[s] # <<>>, FLAG_concurrent_sweeping
               PROVE  \E t \in SweeperTasks : s \in Range(sweep'[t].spaces)
    BY Zenon, <1>1, <1>2, <1>4 DEF ListsAreVisited
  <2>1. CASE late_pages
    BY Zenon, <1>4, <1>5, <1>9, <2>1 DEF place, started
  <2>2. CASE ~late_pages
    BY Zenon, <1>3, <2>2 DEF ListsAreVisited, started
  <2> QED
    BY Zenon, <2>1, <2>2
<1>16. TasksAreCounted'
  <2>1. CASE started
    <3>1. Active' = Active \cup {n} /\ n \notin Active
      BY Zenon, <1>4, <1>5, <1>9, <2>1, ThreadFacts DEF Active, place
    <3>2. Cardinality(Active \cup {n}) = Cardinality(Active) + 1
      BY Zenon, <3>1, ActiveIsFinite, FS_AddElement
    <3>3. Cardinality(Active) \in Nat
      BY Zenon, ActiveIsFinite
    <3> QED
      BY SMTT(60), <1>2, <1>3, <1>4, <2>1, <3>1, <3>2, <3>3 DEF TasksAreCounted, SweeperTyping, started
  <2>2. CASE ~started
    BY Zenon, <1>2, <1>3, <2>2 DEF TasksAreCounted, Active
  <2> QED
    BY Zenon, <2>1, <2>2
<1>17. LateAreUntouched'
  BY Zenon, <1>1 DEF LateAreUntouched
<1>18. SweptAreOnce'
  BY SMTT(60), <1>2, <1>10 DEF SweptAreOnce
<1>19. BetweenCycles' /\ NewSpaceIsDone'
  <2>1. sweep'[Main] = Off
    BY Zenon, <1>4, <1>9, ThreadFacts
  <2> QED
    BY Zenon, <1>1, <1>2, <1>4, <2>1, OffIsAPlace DEF BetweenCycles, NewSpaceIsDone
<1> QED
  BY Zenon, <1>11, <1>12, <1>13, <1>14, <1>15, <1>16, <1>17, <1>18, <1>19

(* At the start nothing is swept.                                          *)
LEMMA SweeperStarts == SweeperInit => SweeperIInv
<1> SUFFICES ASSUME SweeperInit PROVE SweeperIInv
  BY Zenon
<1>1. /\ \A t \in Threads : sweep[t] = Off
      /\ \A s \in SpaceIds : sweeping_list[s] = <<>> /\ swept_list[s] = <<>>
      /\ \A p \in Pages : sweeping_state[p] = "kSweepingDone" /\ page_mutex[p] = NoPage
      /\ collector.at = "mutator" /\ collector.left = {}
      /\ ~sweeping_in_progress /\ skipped = {}
  BY Zenon DEF SweeperInit, SpaceIds, Doing
<1>2. SweeperTyping
  <2>1. <<>> \in Seq(Pages)
    OBVIOUS
  <2>2. sweep \in [Threads -> Places]
    BY Zenon, OffIsAPlace DEF SweeperInit
  <2> QED
    BY Zenon, <2>1, <2>2 DEF SweeperInit, SweeperTyping, Places, SpaceIds, CollectorPc, SweepingState, Doing
<1>3. ThreadsArePlaced
  BY Zenon, <1>1, ThreadFacts, OffIsAPlace DEF ThreadsArePlaced, Visits
<1>4. MutexesAreHeld
  <2>1. \A t \in Threads : \A p : ~Sweeps(t, p)
    BY Zenon, <1>1, OffIsAPlace DEF Sweeps
  <2> QED
    BY Zenon, <1>1, <2>1 DEF MutexesAreHeld
<1>5. PendingIsFound
  BY SMTT(60), <1>1 DEF PendingIsFound
<1>6. ListsAreVisited
  BY Zenon, <1>1 DEF ListsAreVisited
<1>7. TasksAreCounted
  <2>1. Active = {}
    BY Zenon, <1>1, ThreadFacts DEF Active
  <2> QED
    BY SMTT(60), <2>1, FS_EmptySet DEF TasksAreCounted, SweeperInit
<1>8. LateAreUntouched
  BY Zenon, <1>1 DEF LateAreUntouched
<1>9. SweptAreOnce
  BY SMTT(60), <1>1, ThreadFacts, NothingIsListed DEF SweptAreOnce
<1>10. BetweenCycles /\ NewSpaceIsDone
  BY Zenon, <1>1, ThreadFacts, OffIsAPlace DEF BetweenCycles, NewSpaceIsDone
<1> QED
  BY Zenon, <1>2, <1>3, <1>4, <1>5, <1>6, <1>7, <1>8, <1>9, <1>10 DEF SweeperIInv

(* The steps of the main thread inside its calls keep the invariant.       *)
LEMMA CollectorStepKeeps ==
  ASSUME SweeperIInv, CollectorStep
  PROVE  SweeperIInv'
<1>1. CASE SweepStep(Main)
  BY Zenon, <1>1, SweepStepKeeps, ThreadFacts
<1>2. CASE RefillAndRetry \/ VisitsDone \/ TrackerUnlocks \/ Finish
  BY Zenon, <1>2, RefillAndRetryKeeps, VisitsDoneKeeps, TrackerKeeps, FinishKeeps
<1>3. ASSUME NEW p \in Pages, SweepOrWait(p) \/ WaitUntilSweepingCompleted(p) \/ AddLatePage(p)
      PROVE  SweeperIInv'
  BY Zenon, <1>3, VisitKeeps, AddLatePageKeeps
<1>4. CASE WaitForTask \/ SweepingCompleted
  BY Zenon, <1>4, WaitForTaskKeeps, SweepingCompletedKeeps
<1> QED
  BY Zenon, <1>1, <1>2, <1>3, <1>4 DEF CollectorStep

(* The calls of the main thread keep the invariant.                        *)
LEMMA CollectorCallKeeps ==
  ASSUME SweeperIInv, CollectorCall
  PROVE  SweeperIInv'
<1>1. CASE SweepSpaces \/ EnsureNewSpaceCompleted \/ EnsureCompleted
  BY Zenon, <1>1, SweepSpacesKeeps, EnsureNewSpaceKeeps, EnsureCompletedKeeps
<1>2. CASE \E p \in Pages : TrackerLocks(p)
  BY Zenon, <1>2, TrackerKeeps
<1>3. ASSUME NEW p \in Pages, IterateOver(p) PROVE SweeperIInv'
  BY Zenon, <1>3, VisitKeeps
<1>4. ASSUME NEW space \in Paged, SlowAllocateRaw(space) PROVE SweeperIInv'
  BY Zenon, <1>4, AllocationKeeps
<1> QED
  BY Zenon, <1>1, <1>2, <1>3, <1>4 DEF CollectorCall

(* The invariant holds in every state the sweeper reaches: whichever way   *)
(* the steps of the sweeper tasks, of the allocation that helps them, of   *)
(* EnsureNewSpaceCompleted and of EnsureCompleted interleave, over any     *)
(* number of cycles.                                                       *)
THEOREM SweeperInvariant == SweeperSpec => []SweeperIInv
<1>1. SweeperInit => SweeperIInv
  BY Zenon, SweeperStarts
<1>2. SweeperIInv /\ [SweeperNext]_sweeperVars => SweeperIInv'
  <2> SUFFICES ASSUME SweeperIInv, [SweeperNext]_sweeperVars PROVE SweeperIInv'
    BY Zenon
  <2>1. ASSUME NEW t \in SweeperTasks, SweeperTaskStep(t) PROVE SweeperIInv'
    BY Zenon, <2>1, SweepStepKeeps, SignalEndKeeps, ThreadFacts DEF SweeperTaskStep
  <2> QED
    BY Zenon, <2>1, CollectorStepKeeps, CollectorCallKeeps, SweeperIdles DEF SweeperNext
<1> QED
  BY <1>1, <1>2, PTL DEF SweeperSpec

(* Sweeper::ParallelSweepPage sweeps a page at most once in a cycle,       *)
(* whichever of the tasks and of the calls of the main thread come to it:  *)
(* no page is twice in the lists of swept pages (SweptOnce).  The pages    *)
(* that a task skipped because the array buffer tracker had them are       *)
(* excepted.                                                               *)
THEOREM PagesAreSweptOnce == SweeperSpec => []SweptOnce
<1>1. SweeperIInv => SweptOnce
  <2> SUFFICES ASSUME SweeperIInv, NEW p \in Pages \ skipped
               PROVE  Cardinality({t \in Threads : sweep[t].page = p /\ sweep[t].at \in {"sweep", "add"}})
                      + Cardinality({k \in DOMAIN swept_list[Home[p]] : swept_list[Home[p]][k] = p}) <= 1
    BY Zenon DEF SweptOnce
  <2> DEFINE list == swept_list[Home[p]]
             a == {t \in Threads : sweep[t].page = p /\ sweep[t].at \in {"sweep", "add"}}
             b == {k \in DOMAIN list : list[k] = p}
  <2>1. list \in Seq(Pages) /\ DOMAIN list = 1 .. Len(list)
    BY SMTT(60), ThreadFacts DEF SweeperIInv, SweeperTyping
  <2>2. \A t, u \in a : t = u
    BY SMTT(60) DEF SweeperIInv, MutexesAreHeld, Sweeps
  <2>3. \A j, k \in b : j = k
    BY Zenon, <2>1 DEF SweeperIInv, SweptAreOnce
  <2>4. a = {} \/ b = {}
    <3> SUFFICES ASSUME NEW t \in a PROVE b = {}
      BY Zenon
    <3>1. sweeping_state[p] # "kSweepingDone" \/ sweep[t].at = "add"
      BY SMTT(60) DEF SweeperIInv, MutexesAreHeld, Sweeps
    <3>2. ~Listed(list, p)
      BY Zenon, <3>1 DEF SweeperIInv, SweptAreOnce
    <3> QED
      BY Zenon, <2>1, <3>2 DEF Listed
  <2> HIDE DEF a, b
  <2>5. a = {} \/ \E t : a = {t}
    BY <2>2
  <2>6. b = {} \/ \E t : b = {t}
    BY <2>3
  <2>7. Cardinality(a) = 0 \/ Cardinality(a) = 1
    BY Zenon, <2>5, FS_Singleton, FS_EmptySet
  <2>8. Cardinality(b) = 0 \/ Cardinality(b) = 1
    BY Zenon, <2>6, FS_Singleton, FS_EmptySet
  <2>9. Cardinality(a) + Cardinality(b) <= 1
    <3>1. CASE a = {}
      BY <2>8, <3>1, FS_EmptySet
    <3>2. CASE b = {}
      BY SMTT(60), <2>7, <3>2, FS_EmptySet
    <3> QED
      BY Zenon, <2>4, <3>1, <3>2
  <2> QED
    BY Zenon, <2>9 DEF a, b
<1> QED
  BY <1>1, SweeperInvariant, PTL

(* When EnsureCompleted has reset sweeping_in_progress_, no list holds a   *)
(* page, no task runs, no signal waits and every page is swept, and when   *)
(* EnsureNewSpaceCompleted has been through its pages those of the new     *)
(* space are (SweepingIsOver); pages that a task skipped are excepted.     *)
THEOREM SweepingEnds == SweeperSpec => []SweepingIsOver
<1>1. SweeperIInv => SweepingIsOver
  <2> SUFFICES ASSUME SweeperIInv PROVE SweepingIsOver
    BY Zenon
  <2>1. ASSUME ~sweeping_in_progress
        PROVE  /\ \A t \in SweeperTasks : sweep[t] = Off
               /\ num_sweeping_tasks = 0 /\ pending_sweeper_tasks = 0
               /\ \A s \in SpaceIds : sweeping_list[s] = <<>>
               /\ \A p \in Pages \ skipped : sweeping_state[p] = "kSweepingDone"
    <3>1. Cardinality(Active) \in Nat
      BY Zenon, ActiveIsFinite
    <3>2. num_sweeping_tasks = 0 /\ pending_sweeper_tasks = 0
      BY SMTT(60), <2>1, <3>1 DEF SweeperIInv, TasksAreCounted, SweeperTyping
    <3> QED
      BY Zenon, <2>1, <3>2 DEF SweeperIInv, ThreadsArePlaced, ListsAreVisited, BetweenCycles
  <2>2. ASSUME collector = Doing("newspace")
        PROVE  \A p \in PagesOf(NEW_SPACE) \ skipped : sweeping_state[p] = "kSweepingDone"
    <3>1. collector.at = "newspace" /\ collector.left = {}
      BY Zenon, <2>2 DEF Doing
    <3> QED
      BY Zenon, <3>1 DEF SweeperIInv, NewSpaceIsDone
  <2> QED
    BY Zenon, <2>1, <2>2 DEF SweepingIsOver, SpaceIds
<1> QED
  BY <1>1, SweeperInvariant, PTL
-----------------------------------------------------------------------------
(* The type of the state, apart from the pending timers.                   *)
States == [action : {"kDone", "kWait", "kRun"}, started_gcs : 0 .. MaxGCs,
           next_gc : 0 .. LongDelay, last_gc : 0 .. WatchdogDelay + 1 \cup {Never}]

(* What makes OneTimerInWait inductive: next_gc is never further away than *)
(* the long delay (States), which is what a collection in kWait puts       *)
(* next_gc to, so that the timer is still early enough for it.             *)
TimerShape ==
  IF state.action = "kWait"
  THEN \E n \in Nat : timers = <<n>> /\ n <= state.next_gc + Slack + MarkingTime
  ELSE timers = <<>>

IInv ==
  /\ state \in States
  /\ marking \in BOOLEAN /\ mutator \in {"busy", "idle"} /\ torn_down \in BOOLEAN
  /\ full \in BOOLEAN /\ serializer_enabled \in BOOLEAN
  /\ TimerShape
  /\ RunMeansMarking
  /\ WaitHasBudget

(* Step keeps to the states, and to the budget: the three operators of the *)
(* step function, for any state the invariant allows.                      *)
LEMMA StepIsTyped ==
  ASSUME NEW s \in States, NEW more \in BOOLEAN, NEW should \in BOOLEAN,
         NEW can \in BOOLEAN,
         s.action = "kWait" => s.started_gcs < MaxGCs,
         s.action = "kRun" => s.started_gcs >= 1
  PROVE  /\ StepPossibleGarbage(s) \in States
         /\ StepMarkCompact(s, more) \in States
         /\ StepTimer(s, should, can) \in States
BY ReducerAssumption DEF States, StepPossibleGarbage, StepMarkCompact,
   StepTimer, State

(* The reducer starts at rest in kDone, with no timer.                     *)
LEMMA Initially == Init => IInv
<1> SUFFICES ASSUME Init PROVE IInv
  BY Zenon
<1>1. state = [action |-> "kDone", started_gcs |-> 0, next_gc |-> 0,
               last_gc |-> Never]
  BY Zenon DEF Init, State
<1>2. state \in States
  BY <1>1, ReducerAssumption DEF States
<1>3. TimerShape /\ RunMeansMarking /\ WaitHasBudget
  BY <1>1 DEF Init, TimerShape, RunMeansMarking, WaitHasBudget
<1> QED
  BY Zenon, <1>2, <1>3 DEF Init, IInv

(* Possible garbage moves the reducer from kDone to kWait and starts its   *)
(* timer, and does nothing elsewhere.                                      *)
LEMMA PossibleGarbageKeeps == IInv /\ NotifyPossibleGarbage => IInv'
<1> SUFFICES ASSUME IInv, NotifyPossibleGarbage PROVE IInv'
  BY Zenon
<1>1. CASE state.action = "kDone"
  <2>1. state' = State("kWait", 0, LongDelay, state.last_gc)
    BY Zenon, <1>1 DEF NotifyPossibleGarbage, StepPossibleGarbage
  <2>2. timers' = <<LongDelay + Slack>>
    BY <1>1, <2>1 DEF IInv, TimerShape, NotifyPossibleGarbage,
       StartTimerOnWait, State
  <2> QED
    BY <2>1, <2>2, ReducerAssumption DEF IInv, States, State, TimerShape,
       RunMeansMarking, WaitHasBudget, NotifyPossibleGarbage
<1>2. CASE state.action # "kDone"
  <2>1. state' = state /\ timers' = timers
    BY Zenon, <1>2 DEF NotifyPossibleGarbage, StepPossibleGarbage, StartTimerOnWait
  <2> QED
    BY <2>1 DEF IInv, TimerShape, RunMeansMarking, WaitHasBudget,
       NotifyPossibleGarbage
<1> QED
  BY Zenon, <1>1, <1>2

(* A collection leaves kRun, puts kWait off, and wakes the reducer from    *)
(* kDone; in each case the timer is the one that the new state needs.      *)
LEMMA MarkCompactKeeps == IInv /\ MarkCompact => IInv'
<1> SUFFICES ASSUME IInv, MarkCompact PROVE IInv'
  BY Zenon
<1>1. PICK more \in BOOLEAN : state' = StepMarkCompact(state, more)
  BY Zenon DEF MarkCompact, Collect
<1>2. state' \in States
  BY Zenon, <1>1, StepIsTyped DEF IInv, RunMeansMarking, WaitHasBudget
<1>3. state'.action # "kRun"
  BY Zenon, <1>1 DEF StepMarkCompact, State
<1>4. state'.action = "kWait" => state'.started_gcs < MaxGCs
  BY <1>1, ReducerAssumption DEF StepMarkCompact, State, IInv, WaitHasBudget,
     States
<1>5. TimerShape'
  <2>1. CASE state.action = "kWait"
    <3>1. state'.action = "kWait" /\ state'.next_gc = LongDelay /\ timers' = timers
      BY Zenon, <1>1, <2>1 DEF StepMarkCompact, State, MarkCompact, StartTimerOnWait
    <3>2. PICK n \in Nat : timers = <<n>> /\ n <= LongDelay + Slack + MarkingTime
      BY <2>1, ReducerAssumption DEF IInv, TimerShape, States
    <3> QED
      BY Zenon, <3>1, <3>2 DEF TimerShape
  <2>2. CASE state.action # "kWait" /\ state'.action = "kWait"
    <3>1. timers' = <<state'.next_gc + Slack>>
      BY <2>2 DEF MarkCompact, StartTimerOnWait, IInv, TimerShape
    <3>2. state'.next_gc \in Nat /\ state'.next_gc <= LongDelay
      BY <1>1, <2>2, ReducerAssumption DEF StepMarkCompact, State
    <3> QED
      BY <3>1, <3>2, <2>2, ReducerAssumption DEF TimerShape
  <2>3. CASE state.action # "kWait" /\ state'.action # "kWait"
    BY Zenon, <2>3 DEF MarkCompact, StartTimerOnWait, IInv, TimerShape
  <2> QED
    BY Zenon, <2>1, <2>2, <2>3
<1>6. marking' \in BOOLEAN /\ full' \in BOOLEAN
  BY Zenon DEF MarkCompact, Collect
<1> QED
  BY Zenon, <1>2, <1>3, <1>4, <1>5, <1>6 DEF MarkCompact, IInv, RunMeansMarking,
     WaitHasBudget

(* The timer is consumed, and started again in kWait only; marking is      *)
(* started in kRun; and a nested collection is the one of kWait.           *)
LEMMA TimerKeeps == IInv /\ RunTimerTask => IInv'
<1> SUFFICES ASSUME IInv, RunTimerTask PROVE IInv'
  BY Zenon
<1>1. state.action = "kWait" /\ Tail(timers) = <<>>
  <2>1. state.action = "kWait"
    BY Zenon DEF IInv, TimerShape, RunTimerTask
  <2>2. PICK n \in Nat : timers = <<n>>
    BY Zenon, <2>1 DEF IInv, TimerShape
  <2> QED
    BY <2>1, <2>2
<1>2. PICK optimize \in BOOLEAN :
        NotifyTimer(StepTimer(state, mutator = "idle" \/ optimize,
                              ~marking /\ (CanBeActivated \/ optimize)),
                    optimize)
  BY Zenon DEF RunTimerTask
<1> DEFINE s == StepTimer(state, mutator = "idle" \/ optimize,
                          ~marking /\ (CanBeActivated \/ optimize))
<1>3. s \in States
  BY Zenon, StepIsTyped DEF IInv, RunMeansMarking, WaitHasBudget
<1>4. /\ s.action \in {"kWait", "kRun"}
      /\ s.action = "kWait" => /\ s.started_gcs = state.started_gcs
                               /\ s.next_gc \in {LongDelay, state.next_gc}
      /\ s.action = "kRun" => s.started_gcs = state.started_gcs + 1
  BY <1>1, ReducerAssumption DEF StepTimer, State, IInv, WaitHasBudget, States
<1>5. PICK took \in 0 .. MarkingTime :
        timers' = IF s.action = "kWait" THEN <<state'.next_gc + Slack + took>> ELSE <<>>
  <2>1. PICK took \in 0 .. MarkingTime :
          timers' = IF s.action = "kWait"
                    THEN Append(Tail(timers), state'.next_gc + Slack + took) ELSE Tail(timers)
    BY Zenon, <1>2 DEF NotifyTimer
  <2>2. Append(<<>>, state'.next_gc + Slack + took) = <<state'.next_gc + Slack + took>>
    OBVIOUS
  <2> HIDE DEF s
  <2> QED
    BY Zenon, <1>1, <2>1, <2>2
<1>6. \/ state' = s /\ marking' = (marking \/ s.action = "kRun") /\ UNCHANGED full
      \/ s.action = "kWait" /\ Collect(s)
  BY Zenon, <1>2 DEF NotifyTimer, Advances
<1> HIDE DEF s
<1>7. UNCHANGED <<mutator, serializer_enabled, torn_down>>
  BY Zenon DEF RunTimerTask
<1>8. s.action = "kWait" => TimerShape'
  <2> SUFFICES ASSUME s.action = "kWait" PROVE TimerShape'
    BY Zenon
  <2>1. state'.action = "kWait" /\ state'.next_gc \in {LongDelay, s.next_gc}
    <3>1. state' = s \/ state' = State("kWait", s.started_gcs, LongDelay, 0)
      BY Zenon, <1>6 DEF Collect, StepMarkCompact
    <3> QED
      BY <3>1 DEF State
  <2>2. state'.next_gc \in Nat
    BY <1>3, <2>1, ReducerAssumption DEF States
  <2> QED
    BY <1>5, <2>1, <2>2, ReducerAssumption DEF TimerShape
<1>9. CASE state' = s /\ marking' = (marking \/ s.action = "kRun") /\ UNCHANGED full
  <2>1. TimerShape'
    BY Zenon, <1>4, <1>5, <1>8, <1>9 DEF TimerShape
  <2>2. marking' \in BOOLEAN
    BY Zenon, <1>9 DEF IInv
  <2>3. s.action = "kRun" => marking'
    BY Zenon, <1>9
  <2>4. s.action = "kRun" => s.started_gcs >= 1
    BY <1>4 DEF IInv, States
  <2>5. RunMeansMarking'
    BY Zenon, <1>9, <2>3, <2>4 DEF RunMeansMarking
  <2>6. WaitHasBudget'
    BY Zenon, <1>1, <1>4, <1>9 DEF IInv, WaitHasBudget
  <2> QED
    BY Zenon, <1>3, <1>7, <1>9, <2>1, <2>2, <2>5, <2>6 DEF IInv
<1>10. CASE s.action = "kWait" /\ Collect(s)
  <2>1. state' = State("kWait", s.started_gcs, LongDelay, 0)
    BY Zenon, <1>10 DEF Collect, StepMarkCompact
  <2>2. state' \in States /\ state'.action = "kWait" /\ state'.started_gcs = s.started_gcs
    BY <2>1, <1>3, ReducerAssumption DEF States, State
  <2>3. WaitHasBudget'
    BY Zenon, <1>1, <1>4, <1>10, <2>2 DEF IInv, WaitHasBudget
  <2>4. RunMeansMarking'
    BY Zenon, <2>2 DEF RunMeansMarking
  <2>5. marking' \in BOOLEAN /\ full' \in BOOLEAN
    BY Zenon, <1>10 DEF Collect
  <2> QED
    BY Zenon, <1>7, <1>8, <1>10, <2>2, <2>3, <2>4, <2>5 DEF IInv
<1> QED
  BY Zenon, <1>6, <1>9, <1>10

(* Time brings the timer and next_gc nearer together.                      *)
LEMMA TickKeeps == IInv /\ Tick => IInv'
<1> SUFFICES ASSUME IInv, Tick PROVE IInv'
  BY Zenon
<1>1. /\ state'.action = state.action
      /\ state'.started_gcs = state.started_gcs
      /\ state'.next_gc = Less(state.next_gc)
  BY Zenon DEF Tick, State
<1>2. state' \in States
  <2>1. (IF state.last_gc \in {Never, WatchdogDelay + 1}
         THEN state.last_gc ELSE state.last_gc + 1)
          \in 0 .. WatchdogDelay + 1 \cup {Never}
    BY ReducerAssumption DEF IInv, States
  <2>2. Less(state.next_gc) \in 0 .. LongDelay
    BY ReducerAssumption DEF IInv, States, Less
  <2> QED
    BY Zenon, <2>1, <2>2 DEF Tick, State, IInv, States
<1>3. TimerShape'
  <2>1. CASE state.action = "kWait"
    <3>1. PICK n \in Nat : timers = <<n>> /\ n <= state.next_gc + Slack + MarkingTime
      BY Zenon, <2>1 DEF IInv, TimerShape
    <3>2. timers' = <<Less(n)>>
      BY <3>1 DEF Tick
    <3>3. Less(n) \in Nat /\ Less(n) <= Less(state.next_gc) + Slack + MarkingTime
      BY <3>1, ReducerAssumption DEF Less, IInv, States
    <3> QED
      BY Zenon, <1>1, <2>1, <3>2, <3>3 DEF TimerShape
  <2>2. CASE state.action # "kWait"
    <3>1. timers = <<>>
      BY Zenon, <2>2 DEF IInv, TimerShape
    <3>2. timers' = <<>>
      BY <3>1 DEF Tick
    <3> QED
      BY Zenon, <1>1, <2>2, <3>2 DEF TimerShape
  <2> QED
    BY Zenon, <2>1, <2>2
<1> QED
  BY Zenon, <1>1, <1>2, <1>3 DEF Tick, IInv, RunMeansMarking, WaitHasBudget

(* Every step of the heap, the clock and the timer task preserves the      *)
(* invariant.                                                              *)
LEMMA Inductive == IInv /\ [Next]_vars => IInv'
<1> SUFFICES ASSUME IInv, [Next]_vars PROVE IInv'
  BY Zenon
<1>1. CASE NotifyPossibleGarbage
  BY Zenon, <1>1, PossibleGarbageKeeps
<1>2. CASE MutatorGC \/ MarkingEnds
  BY Zenon, <1>2, MarkCompactKeeps DEF MutatorGC, MarkingEnds
<1>3. CASE MutatorStartsMarking
  BY Zenon, <1>3 DEF MutatorStartsMarking, IInv, TimerShape, RunMeansMarking,
     WaitHasBudget
<1>4. CASE RunTimerTask
  BY Zenon, <1>4, TimerKeeps
<1>5. CASE Tick
  BY Zenon, <1>5, TickKeeps
<1>6. CASE MutatorChanges
  BY Zenon, <1>6 DEF MutatorChanges, IInv, TimerShape, RunMeansMarking, WaitHasBudget
<1>7. CASE TearDown
  <2>1. state' = [action |-> "kDone", started_gcs |-> 0, next_gc |-> 0,
                  last_gc |-> Never]
    BY Zenon, <1>7 DEF TearDown, State
  <2>2. state' \in States
    BY <2>1, ReducerAssumption DEF States
  <2> QED
    BY <1>7, <2>1, <2>2 DEF TearDown, IInv, TimerShape, RunMeansMarking,
       WaitHasBudget
<1>8. CASE UNCHANGED vars
  BY Zenon, <1>8 DEF vars, IInv, TimerShape, RunMeansMarking, WaitHasBudget
<1> QED
  BY Zenon, <1>1, <1>2, <1>3, <1>4, <1>5, <1>6, <1>7, <1>8 DEF Next

(* The inductive invariant: types, one timer exactly in kWait, marking in  *)
(* kRun, and started_gcs below its bound in kWait.                         *)
THEOREM Invariance == Spec => []IInv
BY Initially, Inductive, PTL DEF Spec

(* The state of the reducer is always well typed.                          *)
THEOREM TypeCorrect == Spec => []TypeOK
<1>1. IInv => TypeOK
  <2> SUFFICES ASSUME IInv PROVE TypeOK
    BY Zenon
  <2>1. timers \in Seq(Nat)
    <3>1. CASE timers = <<>>
      BY <3>1
    <3>2. CASE \E n \in Nat : timers = <<n>>
      BY <3>2
    <3> QED
      BY Zenon, <3>1, <3>2 DEF IInv, TimerShape
  <2> QED
    BY <2>1, ReducerAssumption DEF IInv, States, TypeOK
<1> QED
  BY <1>1, Invariance, PTL

(* What moves the reducer on is always pending: in kWait one timer, late   *)
(* by no more than the slack and the time its handler took, so that        *)
(* NotifyTimer is only ever called in kWait; in kRun the marking that will *)
(* end it.                                                                 *)
THEOREM NextEventPending == Spec => []NextEventIsPending
<1>1. IInv => NextEventIsPending
  BY DEF IInv, TimerShape, OneTimerInWait, NextEventIsPending
<1> QED
  BY <1>1, Invariance, PTL
-----------------------------------------------------------------------------
(* A collection is a transition of the automaton from each of its states,  *)
(* or in kWait puts the next start off.                                    *)
LEMMA MarkCompactImplements ==
  ASSUME IInv, NEW more \in BOOLEAN, state' = StepMarkCompact(state, more)
  PROVE  Automaton!AutomatonNext
<1>1. CASE state.action = "kDone"
  BY Zenon, <1>1 DEF StepMarkCompact, State, Automaton!AutomatonNext,
     Automaton!DoneToWait, Automaton!MaybeGC
<1>2. CASE state.action = "kWait"
  BY Zenon, <1>2 DEF StepMarkCompact, State, Automaton!AutomatonNext,
     Automaton!WaitToWait, Automaton!MaybeGC
<1>3. CASE state.action = "kRun"
  <2>1. state.started_gcs \in 1 .. MaxGCs
    BY <1>3 DEF IInv, RunMeansMarking, States
  <2>2. CASE state.started_gcs < MaxGCs /\ (more \/ state.started_gcs = 1)
    BY Zenon, <1>3, <2>2 DEF StepMarkCompact, State, Automaton!AutomatonNext,
       Automaton!RunToWait
  <2>3. CASE ~(state.started_gcs < MaxGCs /\ (more \/ state.started_gcs = 1))
    BY <1>3, <2>1, <2>3, ReducerAssumption
       DEF StepMarkCompact, State, Automaton!AutomatonNext,
       Automaton!RunToDone
  <2> QED
    BY Zenon, <2>2, <2>3
<1> QED
  BY Zenon, <1>1, <1>2, <1>3 DEF IInv, States

(* The timer puts the next start off, starts a collection if its time has  *)
(* come, or changes nothing; with a nested collection it puts the start    *)
(* off.                                                                    *)
LEMMA TimerImplements ==
  ASSUME IInv, RunTimerTask
  PROVE  [Automaton!AutomatonNext]_(Automaton!automatonVars)
<1>1. state.action = "kWait" /\ state.started_gcs < MaxGCs
  BY Zenon DEF IInv, TimerShape, RunTimerTask, WaitHasBudget
<1>2. PICK optimize \in BOOLEAN :
        NotifyTimer(StepTimer(state, mutator = "idle" \/ optimize,
                              ~marking /\ (CanBeActivated \/ optimize)),
                    optimize)
  BY Zenon DEF RunTimerTask
<1> DEFINE s == StepTimer(state, mutator = "idle" \/ optimize,
                          ~marking /\ (CanBeActivated \/ optimize))
<1>3. \/ s = state
      \/ /\ state.next_gc = 0
         /\ s = State("kRun", state.started_gcs + 1, 0, state.last_gc)
      \/ s = State("kWait", state.started_gcs, LongDelay, state.last_gc)
  BY <1>1, ReducerAssumption DEF StepTimer, IInv, States
<1>4. \/ state' = s
      \/ /\ s.action = "kWait"
         /\ \E more \in BOOLEAN : state' = StepMarkCompact(s, more)
  BY Zenon, <1>2 DEF NotifyTimer, Advances, Collect
<1> HIDE DEF s
<1>5. CASE state' = s
  <2>1. CASE s = state
    BY Zenon, <1>5, <2>1 DEF Automaton!automatonVars
  <2>2. CASE /\ state.next_gc = 0
             /\ s = State("kRun", state.started_gcs + 1, 0, state.last_gc)
    BY Zenon, <1>1, <1>5, <2>2 DEF State, Automaton!AutomatonNext,
       Automaton!WaitToRun
  <2>3. CASE s = State("kWait", state.started_gcs, LongDelay, state.last_gc)
    BY Zenon, <1>1, <1>5, <2>3 DEF State, Automaton!AutomatonNext,
       Automaton!WaitToWait, Automaton!MaybeGC
  <2> QED
    BY Zenon, <1>3, <2>1, <2>2, <2>3
<1>6. CASE /\ s.action = "kWait"
           /\ \E more \in BOOLEAN : state' = StepMarkCompact(s, more)
  <2>1. s.started_gcs = state.started_gcs
    BY <1>3, <1>6 DEF State
  <2>2. state' = State("kWait", state.started_gcs, LongDelay, 0)
    BY Zenon, <1>6, <2>1 DEF StepMarkCompact
  <2> QED
    BY Zenon, <1>1, <2>2 DEF State, Automaton!AutomatonNext, Automaton!WaitToWait,
       Automaton!MaybeGC
<1> QED
  BY Zenon, <1>4, <1>5, <1>6

(* Each step of the reducer is a transition of the automaton or leaves its *)
(* state alone.                                                            *)
LEMMA StepImplements ==
  IInv /\ [Next]_vars => [Automaton!AutomatonNext]_(Automaton!automatonVars)
<1> SUFFICES ASSUME IInv, [Next]_vars
             PROVE  [Automaton!AutomatonNext]_(Automaton!automatonVars)
  BY Zenon
<1>1. CASE NotifyPossibleGarbage
  <2>1. CASE state.action = "kDone"
    BY Zenon, <1>1, <2>1 DEF NotifyPossibleGarbage, StepPossibleGarbage, State,
       Automaton!AutomatonNext, Automaton!DoneToWait, Automaton!MaybeGC
  <2>2. CASE state.action # "kDone"
    BY Zenon, <1>1, <2>2 DEF NotifyPossibleGarbage, StepPossibleGarbage,
       Automaton!automatonVars
  <2> QED
    BY Zenon, <2>1, <2>2
<1>2. CASE MutatorGC \/ MarkingEnds
  BY Zenon, <1>2, MarkCompactImplements DEF MutatorGC, MarkingEnds, MarkCompact, Collect
<1>3. CASE RunTimerTask
  BY Zenon, <1>3, TimerImplements
<1>4. CASE Tick
  BY Zenon, <1>4 DEF Tick, State, Less, Automaton!AutomatonNext,
     Automaton!TimePasses
<1>5. CASE TearDown
  BY Zenon, <1>5 DEF TearDown, State, Automaton!AutomatonNext, Automaton!Reset
<1>6. CASE MutatorStartsMarking \/ MutatorChanges \/ UNCHANGED vars
  BY Zenon, <1>6 DEF MutatorStartsMarking, MutatorChanges, vars,
     Automaton!automatonVars
<1> QED
  BY Zenon, <1>1, <1>2, <1>3, <1>4, <1>5, <1>6 DEF Next

(* The reducer implements the automaton its header describes: at most      *)
(* kMaxNumberOfGCs collections between two rests, each started no earlier  *)
(* than next_gc_start_ms.                                                  *)
THEOREM Refinement == Spec => ImplementsAutomaton
<1>1. Init => Automaton!AutomatonInit
  BY DEF Init, State, Automaton!AutomatonInit
<1> QED
  BY <1>1, StepImplements, Invariance, PTL
     DEF Spec, ImplementsAutomaton, Automaton!AutomatonSpec
=============================================================================
