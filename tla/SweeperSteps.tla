---------------------------- MODULE SweeperSteps ----------------------------
(***************************************************************************)
(* The inductive invariant of the sweeper, for any spaces and any finite   *)
(* set of pages, and the steps that keep it whatever is counted: those of  *)
(* a thread in ParallelSweepSpace, and the moves of the main thread into,  *)
(* within and out of its calls.                                            *)
(***************************************************************************)
EXTENDS Sweeper, TLAPS

(* Where ParallelSweepSpace is, where the main thread is in its calls, and *)
(* what a page says of its sweeping (concurrent_sweeping_state).           *)
SweepPc == {"off", "take", "lock", "sweep", "add", "unlock", "tried"}
CollectorPc == {"mutator", "evacuate", "tracker", "allocate", "visit", "newspace", "ensure"}
SweepingState == {"kSweepingDone", "kSweepingPending", "kSweepingInProgress"}
SpaceIds == Range(Spaces)

(* The types of the state.                                                 *)
SweeperTyping ==
  /\ FLAG_concurrent_sweeping \in BOOLEAN /\ sweeping_in_progress \in BOOLEAN
  /\ late_pages \in BOOLEAN
  /\ sweeping_list \in [SpaceIds -> Seq(Pages)] /\ swept_list \in [SpaceIds -> Seq(Pages)]
  /\ sweeping_state \in [Pages -> SweepingState]
  /\ page_mutex \in [Pages -> Threads \cup {NoPage}]
  /\ num_sweeping_tasks \in Nat /\ pending_sweeper_tasks \in Nat
  /\ sweep \in [Threads -> [at : SweepPc, spaces : Seq(SpaceIds), page : Pages \cup {NoPage}]]
  /\ collector \in [at : CollectorPc, left : SUBSET (Pages \cup SpaceIds)]
  /\ skipped \in SUBSET Pages

(* A page is in a list.                                                    *)
Listed(list, p) == \E k \in 1 .. Len(list) : list[k] = p

(* The thread has the mutex of the page because it sweeps it.              *)
Sweeps(t, p) == sweep[t].page = p /\ sweep[t].at \in {"sweep", "add", "unlock"}

(* Where a thread has a page, and what the collector waits for then.       *)
ThreadsArePlaced ==
  /\ \A t \in Threads :
       /\ sweep[t].at = "off" => sweep[t] = Off
       /\ sweep[t].at = "take" => sweep[t].page = NoPage
       /\ sweep[t].at \notin {"off", "take"} => sweep[t].page \in Pages
       /\ sweep[t].at = "tried" => t = Main
  /\ sweep[Main] # Off => collector.at \in {"allocate", "visit", "newspace", "ensure"}
  /\ collector.at \in {"evacuate", "allocate", "newspace", "ensure"} => sweeping_in_progress
  /\ collector.at \in {"visit", "newspace", "tracker", "evacuate"} => collector.left \subseteq Pages
  /\ collector.at = "allocate" => collector.left \subseteq SpaceIds
  /\ ~FLAG_concurrent_sweeping \/ ~sweeping_in_progress => \A t \in SweeperTasks : sweep[t] = Off
  /\ collector.at = "evacuate" => sweep[Len(Spaces)] = Off
  /\ Visits /\ sweep[Main] # Off => sweep[Main].page \in collector.left

(* The mutex of a page is held by the one thread that sweeps it, or by the *)
(* main thread for the tracker; the state of the page says how far its     *)
(* sweeping is.                                                            *)
MutexesAreHeld ==
  \A p \in Pages :
    /\ \A t \in Threads : Sweeps(t, p) => page_mutex[p] = t
    /\ page_mutex[p] # NoPage =>
         \/ Sweeps(page_mutex[p], p)
         \/ page_mutex[p] = Main /\ collector = [at |-> "tracker", left |-> {p}]
    /\ collector.at = "tracker" /\ p \in collector.left => page_mutex[p] = Main
    /\ \A t \in Threads : Sweeps(t, p) =>
         sweeping_state[p] = IF sweep[t].at = "sweep" THEN "kSweepingInProgress"
                                                      ELSE "kSweepingDone"
    /\ sweeping_state[p] = "kSweepingInProgress" =>
         page_mutex[p] \in Threads /\ Sweeps(page_mutex[p], p)

(* A page that waits to be swept is in the list of its space, or a thread  *)
(* has taken it and goes to lock it.                                       *)
PendingIsFound ==
  /\ \A s \in SpaceIds : \A k \in 1 .. Len(sweeping_list[s]) : Home[sweeping_list[s][k]] = s
  /\ \A p \in Pages \ skipped : sweeping_state[p] = "kSweepingPending" =>
       \/ Listed(sweeping_list[Home[p]], p)
       \/ \E t \in Threads : sweep[t].at = "lock" /\ sweep[t].page = p

(* A list that is not empty has a task that will still come to it, and so  *)
(* has EnsureCompleted.                                                    *)
ListsAreVisited ==
  \A s \in SpaceIds : sweeping_list[s] # <<>> =>
    /\ sweeping_in_progress
    /\ FLAG_concurrent_sweeping =>
         \/ collector.at = "evacuate" /\ late_pages
         \/ \E t \in SweeperTasks : s \in Range(sweep[t].spaces)
    /\ collector.at = "ensure" => s \in Range(sweep[Main].spaces)

(* The tasks that run are counted: the ones that have not signalled their  *)
(* end, and the signals that wait in the semaphore.                        *)
Active == {t \in SweeperTasks : sweep[t] # Off}
TasksAreCounted ==
  /\ Cardinality(Active) \in Nat
  /\ num_sweeping_tasks = pending_sweeper_tasks + Cardinality(Active)
  /\ ~FLAG_concurrent_sweeping \/ ~sweeping_in_progress => num_sweeping_tasks = 0

(* Until AddLatePage no thread meets a page that is evacuated.             *)
LateAreUntouched ==
  collector.at = "evacuate" =>
    \A p \in collector.left :
      /\ \A t \in Threads : sweep[t].page # p
      /\ ~Listed(sweeping_list[Home[p]], p)
      /\ p \notin skipped =>
           sweeping_state[p] = "kSweepingDone" /\ ~Listed(swept_list[Home[p]], p)

(* A page is in the list of swept pages at most once, and only after it is *)
(* swept.                                                                  *)
SweptAreOnce ==
  \A p \in Pages \ skipped :
    /\ \A j, k \in 1 .. Len(swept_list[Home[p]]) :
         swept_list[Home[p]][j] = p /\ swept_list[Home[p]][k] = p => j = k
    /\ \/ sweeping_state[p] # "kSweepingDone"
       \/ \E t \in Threads : sweep[t].page = p /\ sweep[t].at = "add"
       \/ ~sweeping_in_progress
       => ~Listed(swept_list[Home[p]], p)

(* Between two cycles every page is swept.                                 *)
BetweenCycles ==
  ~sweeping_in_progress =>
    /\ sweep[Main].page \in skipped \cup {NoPage}
    /\ \A p \in Pages \ skipped : sweeping_state[p] = "kSweepingDone"

(* The pages EnsureNewSpaceCompleted has visited are swept, and a page the *)
(* main thread has tried is not pending.                                   *)
NewSpaceIsDone ==
  /\ collector.at = "newspace" =>
       \A p \in PagesOf(NEW_SPACE) \ (collector.left \cup skipped) :
         sweeping_state[p] = "kSweepingDone"
  /\ sweep[Main].at = "tried" /\ sweep[Main].page \notin skipped =>
       sweeping_state[sweep[Main].page] # "kSweepingPending"

(* The inductive invariant of the sweeper.                                 *)
SweeperIInv ==
  /\ SweeperTyping /\ ThreadsArePlaced /\ MutexesAreHeld /\ PendingIsFound /\ ListsAreVisited
  /\ TasksAreCounted /\ LateAreUntouched /\ SweptAreOnce /\ BetweenCycles /\ NewSpaceIsDone

(* The places where a thread can be.                                       *)
Places == [at : SweepPc, spaces : Seq(SpaceIds), page : Pages \cup {NoPage}]

-----------------------------------------------------------------------------
(* The main thread begins, goes on with or ends a call in which it sweeps  *)
(* or waits; swept pages may be taken and signals be counted.              *)
MainGoesTo(place) ==
  /\ place \in Places
  /\ sweep' = [u \in Threads |-> IF u = Main THEN place ELSE sweep[u]]
  /\ sweep[Main].at \in {"off", "take", "tried"}
  /\ \/ place = Off
     \/ place.at = "take" /\ place.page = NoPage /\ collector'.at \in {"allocate", "ensure"}
     \/ place.at = "lock" /\ Visits' /\ place.page \in collector'.left
  /\ UNCHANGED <<flags, sweeping_list, sweeping_state, page_mutex, skipped>>
  /\ swept_list' \in [SpaceIds -> Seq(Pages)]
  /\ \A s \in SpaceIds : swept_list'[s] \in {swept_list[s], <<>>}
  /\ collector' \in [at : CollectorPc, left : SUBSET (Pages \cup SpaceIds)]
  /\ collector.at \notin {"evacuate", "tracker"} /\ collector'.at \notin {"evacuate", "tracker"}
  /\ collector'.at \in {"allocate", "newspace", "ensure"} => sweeping_in_progress
  /\ Visits' => collector'.left \subseteq Pages
  /\ collector'.at = "allocate" => collector'.left \subseteq SpaceIds
  /\ collector'.at = "ensure" =>
       \A s \in SpaceIds : sweeping_list[s] # <<>> => s \in Range(place.spaces)
  /\ num_sweeping_tasks' \in Nat /\ pending_sweeper_tasks' \in Nat
  /\ num_sweeping_tasks' - pending_sweeper_tasks' = num_sweeping_tasks - pending_sweeper_tasks
  /\ num_sweeping_tasks' <= num_sweeping_tasks
  /\ ~sweeping_in_progress => place.page \in skipped \cup {NoPage}
-----------------------------------------------------------------------------
(* Who the threads are.                                                    *)
LEMMA ThreadFacts ==
  /\ Main \in Threads /\ SweeperTasks \subseteq Threads /\ Main \notin SweeperTasks
  /\ Len(Spaces) \in SweeperTasks /\ Len(Spaces) \in Nat /\ Len(Spaces) \in Threads
  /\ NoPage \notin Pages /\ NoPage \notin Threads
  /\ \A t \in Threads : t = Main \/ t \in SweeperTasks
  /\ \A p \in Pages : Home[p] \in SpaceIds
BY SweeperAssumption DEF Threads, SweeperTasks, SpaceIds

(* A page of a list is its head or in its tail.                            *)
LEMMA HeadOrTail ==
  ASSUME NEW S, NEW list \in Seq(S), list # <<>>
  PROVE  /\ Head(list) \in S /\ Tail(list) \in Seq(S)
         /\ Len(list) \in Nat /\ Len(Tail(list)) = Len(list) - 1 /\ 1 \in 1 .. Len(list)
         /\ \A k \in 1 .. Len(Tail(list)) : k + 1 \in 1 .. Len(list) /\ Tail(list)[k] = list[k + 1]
         /\ \A k \in 1 .. Len(list) : k = 1 \/ k - 1 \in 1 .. Len(Tail(list))
         /\ list[1] = Head(list)
  OBVIOUS

(* A page of a list is taken from its head.                                *)
LEMMA ListedInTail ==
  ASSUME NEW list \in Seq(Pages), list # <<>>, NEW p
  PROVE  /\ Head(list) \in Pages /\ Tail(list) \in Seq(Pages) /\ Listed(list, Head(list))
         /\ Listed(list, p) => p = Head(list) \/ Listed(Tail(list), p)
         /\ Listed(Tail(list), p) => Listed(list, p)
<1>1. ASSUME Listed(list, p), p # Head(list) PROVE Listed(Tail(list), p)
  <2>1. PICK k \in 1 .. Len(list) : list[k] = p
    BY Zenon, <1>1 DEF Listed
  <2>2. k # 1 /\ k - 1 \in 1 .. Len(Tail(list)) /\ Tail(list)[k - 1] = list[(k - 1) + 1]
    BY Zenon, <1>1, <2>1, HeadOrTail
  <2>3. (k - 1) + 1 = k
    BY <2>1
  <2> QED
    BY Zenon, <2>1, <2>2, <2>3 DEF Listed
<1>2. ASSUME Listed(Tail(list), p) PROVE Listed(list, p)
  <2>1. PICK k \in 1 .. Len(Tail(list)) : Tail(list)[k] = p
    BY Zenon, <1>2 DEF Listed
  <2> QED
    BY Zenon, <2>1, HeadOrTail DEF Listed
<1> QED
  BY Zenon, <1>1, <1>2, HeadOrTail DEF Listed

(* A space that a thread has still to visit after the first.               *)
LEMMA VisitsTail ==
  ASSUME NEW spaces \in Seq(SpaceIds), spaces # <<>>, NEW s \in Range(spaces), s # Head(spaces)
  PROVE  s \in Range(Tail(spaces))
<1>1. PICK k \in 1 .. Len(spaces) : spaces[k] = s
  BY DEF Range
<1>2. k # 1 /\ k - 1 \in 1 .. Len(Tail(spaces)) /\ Tail(spaces)[k - 1] = spaces[(k - 1) + 1]
  BY Zenon, <1>1, HeadOrTail
<1>3. (k - 1) + 1 = k
  BY <1>1
<1>4. DOMAIN Tail(spaces) = 1 .. Len(Tail(spaces))
  BY HeadOrTail
<1> QED
  BY Zenon, <1>1, <1>2, <1>3, <1>4 DEF Range

(* What an appended page adds to a list.                                   *)
LEMMA AppendLists ==
  ASSUME NEW list \in Seq(Pages), NEW p \in Pages, NEW q
  PROVE  /\ Append(list, p) \in Seq(Pages)
         /\ Len(list) \in Nat /\ Len(Append(list, p)) = Len(list) + 1
         /\ Append(list, p)[Len(list) + 1] = p
         /\ \A k \in 1 .. Len(list) : Append(list, p)[k] = list[k]
         /\ Listed(Append(list, p), q) <=> Listed(list, q) \/ q = p
<1>1. /\ Append(list, p) \in Seq(Pages)
      /\ Len(list) \in Nat /\ Len(Append(list, p)) = Len(list) + 1
      /\ Append(list, p)[Len(list) + 1] = p
      /\ \A k \in 1 .. Len(list) : Append(list, p)[k] = list[k]
  OBVIOUS
<1>2. /\ \A k \in 1 .. Len(list) + 1 : k \in 1 .. Len(list) \/ k = Len(list) + 1
      /\ \A k \in 1 .. Len(list) : k \in 1 .. Len(list) + 1
      /\ Len(list) + 1 \in 1 .. Len(list) + 1
  BY <1>1
<1>3. Listed(Append(list, p), q) => Listed(list, q) \/ q = p
  BY Zenon, <1>1, <1>2 DEF Listed
<1>4. Listed(list, q) \/ q = p => Listed(Append(list, p), q)
  BY Zenon, <1>1, <1>2 DEF Listed
<1> QED
  BY Zenon, <1>1, <1>3, <1>4

(* Nothing is in an empty list.                                            *)
LEMMA NothingIsListed == \A p : ~Listed(<<>>, p)
BY DEF Listed

(* A thread outside ParallelSweepSpace is at a place.                      *)
LEMMA OffIsAPlace ==
  Off \in Places /\ Off.at = "off" /\ Off.page = NoPage /\ Off.spaces = <<>>
BY DEF Off, At, Places, SweepPc

(* GetSweepingPageSafe finds no page: the thread goes on to its next space. *)
LEMMA NextSpaceKeeps ==
  ASSUME SweeperIInv, NEW t \in Threads, TakePage(t), sweeping_list[Head(sweep[t].spaces)] = <<>>
  PROVE  SweeperIInv'
<1> USE DEF SweeperIInv
<1>1. /\ sweep' = [u \in Threads |->
                     IF u = t THEN At("take", Tail(sweep[t].spaces), NoPage) ELSE sweep[u]]
      /\ UNCHANGED <<lists, sweeping_state, page_mutex, tasks, skipped, phase>>
      /\ sweep[t].at = "take" /\ sweep[t].spaces # <<>> /\ sweep[t].page = NoPage
  BY Zenon DEF TakePage, SweeperTyping, Through, At, ThreadsArePlaced, lists
<1>2. Tail(sweep[t].spaces) \in Seq(SpaceIds) /\ sweep[t].spaces \in Seq(SpaceIds)
  BY Zenon, <1>1, HeadOrTail DEF SweeperTyping
<1>3. SweeperTyping'
  <2>1. At("take", Tail(sweep[t].spaces), NoPage) \in Places
    BY Zenon, <1>2 DEF At, Places, SweepPc
  <2>2. sweep' \in [Threads -> Places]
    BY Zenon, <1>1, <2>1 DEF SweeperTyping, Places
  <2>3. UNCHANGED <<lists, sweeping_state, page_mutex, tasks, skipped, phase>>
    BY Zenon, <1>1
  <2> QED
    BY Zenon, <2>2, <2>3 DEF SweeperTyping, lists, tasks, phase, flags, Places
<1>4. \A u \in Threads : sweep'[u].at = sweep[u].at /\ sweep'[u].page = sweep[u].page
  BY Zenon, <1>1 DEF At
<1>5. \A u \in Threads : sweep'[u] = Off <=> sweep[u] = Off
  BY <1>1 DEF At, Off
<1>6. ThreadsArePlaced'
  BY Zenon, <1>1, <1>4, <1>5, ThreadFacts DEF ThreadsArePlaced, phase, flags, Visits
<1>7. MutexesAreHeld'
  <2>1. \A u \in Threads : \A p : Sweeps(u, p)' <=> Sweeps(u, p)
    BY Zenon, <1>4 DEF Sweeps
  <2>2. \A p \in Pages : page_mutex[p] # NoPage => page_mutex[p] \in Threads
    BY Zenon DEF SweeperTyping
  <2> QED
    BY <1>1, <1>4, <2>1, <2>2 DEF MutexesAreHeld, phase, flags
<1>8. PendingIsFound'
  BY <1>1, <1>4 DEF PendingIsFound, lists
<1>9. ListsAreVisited'
  <2> SUFFICES ASSUME NEW s \in SpaceIds, sweeping_list[s] # <<>>, NEW u \in Threads,
                      s \in Range(sweep[u].spaces)
               PROVE  s \in Range(sweep'[u].spaces)
    BY Zenon, <1>1 DEF ListsAreVisited, lists, phase, flags, Threads
  <2>1. CASE u = t
    <3>1. s # Head(sweep[t].spaces) /\ sweep'[t].spaces = Tail(sweep[t].spaces)
      BY Zenon, <1>1 DEF At
    <3> QED
      BY Zenon, <1>1, <1>2, <2>1, <3>1, VisitsTail
  <2>2. CASE u # t
    BY Zenon, <1>1, <2>2
  <2> QED
    BY Zenon, <2>1, <2>2
<1>10. TasksAreCounted'
  <2>1. Active' = Active
    BY Zenon, <1>5 DEF Active, Threads
  <2> QED
    BY Zenon, <1>1, <2>1 DEF TasksAreCounted, tasks, phase, flags
<1>11. LateAreUntouched'
  BY <1>1, <1>4 DEF LateAreUntouched, lists, phase, flags
<1>12. SweptAreOnce'
  BY <1>1, <1>4 DEF SweptAreOnce, lists, phase, flags
<1>13. BetweenCycles' /\ NewSpaceIsDone'
  BY Zenon, <1>1, <1>4, ThreadFacts DEF BetweenCycles, NewSpaceIsDone, phase, flags
<1> QED
  BY Zenon, <1>3, <1>6, <1>7, <1>8, <1>9, <1>10, <1>11, <1>12, <1>13

(* A thread that goes on and has the same spaces to visit.                 *)
LEMMA ThreadMoves ==
  ASSUME SweeperIInv, NEW t \in Threads, NEW place \in Places,
         sweep' = [u \in Threads |-> IF u = t THEN place ELSE sweep[u]],
         UNCHANGED <<tasks, phase>>,
         \A s \in SpaceIds : sweeping_list'[s] # <<>> => sweeping_list[s] # <<>>,
         sweep[t].at # "off", place.at # "off",
         place.at = "take" => place.page = NoPage,
         place.at # "take" => place.page \in Pages,
         place.at = "tried" => t = Main,
         t = Main /\ Visits => place.page = sweep[t].page,
         t \in SweeperTasks \/ collector.at = "ensure" => place.spaces = sweep[t].spaces
  PROVE  ThreadsArePlaced' /\ ListsAreVisited' /\ TasksAreCounted'
<1> USE DEF SweeperIInv
<1>1. sweep[t] # Off /\ place # Off
  BY DEF Off, At
<1>2. \A u \in Threads : sweep'[u] = Off <=> sweep[u] = Off
  BY Zenon, <1>1
<1>3. ThreadsArePlaced'
  BY Zenon, <1>1, <1>2, ThreadFacts DEF ThreadsArePlaced, phase, flags, Visits
<1>4. \A u \in SweeperTasks : sweep'[u].spaces = sweep[u].spaces
  BY Zenon, ThreadFacts
<1>5. collector.at = "ensure" => sweep'[Main].spaces = sweep[Main].spaces
  BY Zenon, ThreadFacts
<1>6. ListsAreVisited'
  BY Zenon, <1>4, <1>5 DEF ListsAreVisited, phase, flags
<1>7. Active' = Active
  BY Zenon, <1>2, ThreadFacts DEF Active
<1> QED
  BY Zenon, <1>3, <1>6, <1>7 DEF TasksAreCounted, tasks, phase, flags

(* GetSweepingPageSafe finds a page.                                       *)
LEMMA TakePageKeeps ==
  ASSUME SweeperIInv, NEW t \in Threads, TakePage(t), sweeping_list[Head(sweep[t].spaces)] # <<>>
  PROVE  SweeperIInv'
<1> USE DEF SweeperIInv
<1> DEFINE h == Head(sweep[t].spaces)
           q == Head(sweeping_list[h])
<1>1. /\ sweep' = [u \in Threads |-> IF u = t THEN At("lock", sweep[t].spaces, q) ELSE sweep[u]]
      /\ sweeping_list' = [s \in SpaceIds |-> IF s = h THEN Tail(sweeping_list[h])
                                                       ELSE sweeping_list[s]]
      /\ UNCHANGED <<swept_list, sweeping_state, page_mutex, tasks, skipped, phase>>
      /\ sweep[t].at = "take" /\ sweep[t].spaces # <<>> /\ sweep[t].page = NoPage
  BY Zenon DEF TakePage, SweeperTyping, ThreadsArePlaced
<1>2. sweep[t].spaces \in Seq(SpaceIds) /\ h \in SpaceIds
  BY Zenon, <1>1, HeadOrTail DEF SweeperTyping
<1>3. /\ sweeping_list[h] \in Seq(Pages) /\ sweeping_list[h] # <<>>
      /\ q \in Pages /\ Tail(sweeping_list[h]) \in Seq(Pages)
      /\ Listed(sweeping_list[h], q) /\ Home[q] = h
  <2>1. sweeping_list[h] \in Seq(Pages) /\ sweeping_list[h] # <<>>
    BY Zenon, <1>2 DEF SweeperTyping
  <2>2. q \in Pages /\ Tail(sweeping_list[h]) \in Seq(Pages) /\ Listed(sweeping_list[h], q)
    BY Zenon, <2>1, ListedInTail
  <2> HIDE DEF h, q
  <2>3. PICK k \in 1 .. Len(sweeping_list[h]) : sweeping_list[h][k] = q
    BY Zenon, <2>2 DEF Listed
  <2> QED
    BY Zenon, <1>2, <2>1, <2>2, <2>3 DEF PendingIsFound
<1>4. \A p : Listed(sweeping_list[h], p) => p = q \/ Listed(Tail(sweeping_list[h]), p)
  BY Zenon, <1>3, ListedInTail
<1>5. \A p : Listed(Tail(sweeping_list[h]), p) => Listed(sweeping_list[h], p)
  BY Zenon, <1>3, ListedInTail
<1>6. \A k \in 1 .. Len(Tail(sweeping_list[h])) :
        k + 1 \in 1 .. Len(sweeping_list[h]) /\ Tail(sweeping_list[h])[k] = sweeping_list[h][k + 1]
  BY Zenon, <1>3, HeadOrTail
<1> HIDE DEF h, q
<1>7. At("lock", sweep[t].spaces, q) \in Places
  BY Zenon, <1>2, <1>3 DEF At, Places, SweepPc
<1>8. SweeperTyping'
  <2>1. sweep' \in [Threads -> Places] /\ sweeping_list' \in [SpaceIds -> Seq(Pages)]
    BY Zenon, <1>1, <1>3, <1>7 DEF SweeperTyping, Places
  <2>2. UNCHANGED <<swept_list, sweeping_state, page_mutex, tasks, skipped, phase>>
    BY Zenon, <1>1
  <2> QED
    BY Zenon, <2>1, <2>2 DEF SweeperTyping, tasks, phase, flags, Places
<1>9. ThreadsArePlaced' /\ ListsAreVisited' /\ TasksAreCounted'
  <2>1. ~(t = Main /\ Visits)
    BY <1>1, ThreadFacts DEF ThreadsArePlaced, Visits, Off, At
  <2> QED
    BY Zenon, <1>1, <1>2, <1>3, <1>7, <2>1, ThreadMoves DEF At
<1>10. \A u \in Threads :
         /\ u # t => sweep'[u] = sweep[u]
         /\ sweep'[t].at = "lock" /\ sweep'[t].page = q
  BY Zenon, <1>1 DEF At
<1>11. MutexesAreHeld'
  <2>1. \A u \in Threads : \A p : Sweeps(u, p)' <=> Sweeps(u, p)
    BY Zenon, <1>1, <1>10 DEF Sweeps
  <2>2. \A u \in Threads : u # t => sweep'[u].at = sweep[u].at
    BY Zenon, <1>10
  <2>3. \A p : ~Sweeps(t, p)
    BY Zenon, <1>1 DEF Sweeps
  <2>4. \A p \in Pages : page_mutex[p] # NoPage => page_mutex[p] \in Threads
    BY Zenon DEF SweeperTyping
  <2> QED
    BY <1>1, <2>1, <2>2, <2>3, <2>4 DEF MutexesAreHeld, phase, flags
<1>12. PendingIsFound'
  <2>1. ASSUME NEW s \in SpaceIds, NEW k \in 1 .. Len(sweeping_list'[s])
        PROVE  Home[sweeping_list'[s][k]] = s
    <3>1. sweeping_list'[s] = IF s = h THEN Tail(sweeping_list[h]) ELSE sweeping_list[s]
      BY Zenon, <1>1, <1>2 DEF SweeperTyping
    <3>2. \A i \in 1 .. Len(sweeping_list[s]) : Home[sweeping_list[s][i]] = s
      BY Zenon DEF PendingIsFound
    <3>3. CASE s = h
      <4>1. k \in 1 .. Len(Tail(sweeping_list[h])) /\ sweeping_list'[s] = Tail(sweeping_list[h])
        BY Zenon, <3>1, <3>3
      <4>2. k + 1 \in 1 .. Len(sweeping_list[s]) /\ sweeping_list'[s][k] = sweeping_list[s][k + 1]
        BY Zenon, <1>6, <3>3, <4>1
      <4> QED
        BY Zenon, <3>2, <4>2
    <3>4. CASE s # h
      <4>1. sweeping_list'[s] = sweeping_list[s]
        BY Zenon, <3>1, <3>4
      <4> QED
        BY Zenon, <3>2, <4>1
    <3> QED
      BY Zenon, <3>3, <3>4
  <2>2. ASSUME NEW p \in Pages \ skipped, sweeping_state[p] = "kSweepingPending"
        PROVE  \/ Listed(sweeping_list'[Home[p]], p)
               \/ \E u \in Threads : sweep'[u].at = "lock" /\ sweep'[u].page = p
    <3>1. CASE p = q
      BY Zenon, <1>10, <3>1
    <3>2. CASE p # q /\ Listed(sweeping_list[Home[p]], p)
      BY Zenon, <1>1, <1>3, <1>4, <3>2, ThreadFacts
    <3>3. CASE \E u \in Threads : sweep[u].at = "lock" /\ sweep[u].page = p
      BY Zenon, <1>1, <1>10, <3>3
    <3> QED
      BY Zenon, <2>2, <3>1, <3>2, <3>3 DEF PendingIsFound
  <2> QED
    BY Zenon, <1>1, <2>1, <2>2 DEF PendingIsFound
<1>13. LateAreUntouched'
  <2> SUFFICES ASSUME collector.at = "evacuate", NEW p \in collector.left
               PROVE  /\ \A u \in Threads : sweep'[u].page # p
                      /\ ~Listed(sweeping_list'[Home[p]], p)
    BY Zenon, <1>1 DEF LateAreUntouched, phase, flags
  <2>1. p # q /\ p \in Pages
    BY Zenon, <1>3 DEF LateAreUntouched, ThreadsArePlaced
  <2> QED
    BY Zenon, <1>1, <1>5, <1>10, <2>1, ThreadFacts DEF LateAreUntouched
<1>14. SweptAreOnce'
  BY <1>1, <1>10 DEF SweptAreOnce, phase, flags
<1>15. BetweenCycles' /\ NewSpaceIsDone'
  <2>1. sweeping_in_progress
    BY Zenon, <1>2, <1>3 DEF ListsAreVisited
  <2> QED
    BY Zenon, <1>1, <1>10, <2>1, ThreadFacts DEF BetweenCycles, NewSpaceIsDone, phase, flags
<1> QED
  BY Zenon, <1>8, <1>9, <1>11, <1>12, <1>13, <1>14, <1>15

(* Where a thread goes when a page is over.                                *)
LEMMA PageIsOver ==
  ASSUME SweeperIInv, NEW t \in Threads, NextPage(t), sweep[t].at \in {"lock", "unlock"}
  PROVE  \E place \in Places :
           /\ sweep' = [u \in Threads |-> IF u = t THEN place ELSE sweep[u]]
           /\ place.at \in {"take", "tried"}
           /\ place.at = "take" => place.page = NoPage
           /\ place.at = "tried" => t = Main /\ place.page = sweep[t].page
           /\ t = Main /\ Visits => place.page = sweep[t].page
           /\ t \in SweeperTasks \/ collector.at = "ensure" => place.spaces = sweep[t].spaces
<1> USE DEF SweeperIInv
<1>1. sweep[t].page \in Pages /\ sweep[t].spaces \in Seq(SpaceIds) /\ <<>> \in Seq(SpaceIds)
  <2>1. sweep[t].page \in Pages
    BY Zenon DEF ThreadsArePlaced
  <2>2. sweep[t].spaces \in Seq(SpaceIds)
    BY Zenon DEF SweeperTyping
  <2> QED
    BY <2>1, <2>2
<1>2. CASE t = Main /\ Visits
  <2>1. At("tried", <<>>, sweep[t].page) \in Places
    BY Zenon, <1>1 DEF At, Places, SweepPc
  <2>2. sweep' = [u \in Threads |-> IF u = t THEN At("tried", <<>>, sweep[t].page) ELSE sweep[u]]
    BY Zenon, <1>2 DEF NextPage, SweeperTyping
  <2>3. t \notin SweeperTasks /\ collector.at # "ensure"
    BY Zenon, <1>2, ThreadFacts DEF Visits
  <2> QED
    BY Zenon, <1>2, <2>1, <2>2, <2>3 DEF At
<1>3. CASE ~(t = Main /\ Visits)
  <2> DEFINE rest == IF t = Main /\ collector.at = "allocate" THEN <<>> ELSE sweep[t].spaces
  <2>1. At("take", rest, NoPage) \in Places
    BY Zenon, <1>1 DEF At, Places, SweepPc
  <2>2. sweep' = [u \in Threads |-> IF u = t THEN At("take", rest, NoPage) ELSE sweep[u]]
    BY Zenon, <1>3 DEF NextPage, SweeperTyping, Through
  <2>3. t \in SweeperTasks \/ collector.at = "ensure" => rest = sweep[t].spaces
    BY Zenon, ThreadFacts
  <2> HIDE DEF rest
  <2> QED
    BY Zenon, <1>3, <2>1, <2>2, <2>3 DEF At
<1> QED
  BY Zenon, <1>2, <1>3

(* TryLock fails, or the page is not to be swept any more.                 *)
LEMMA TryLockFailsKeeps ==
  ASSUME SweeperIInv, NEW t \in Threads, TryLockPage(t),
         page_mutex[sweep[t].page] # NoPage \/ sweeping_state[sweep[t].page] # "kSweepingPending"
  PROVE  SweeperIInv'
<1> USE DEF SweeperIInv
<1> DEFINE q == sweep[t].page
<1>1. /\ sweep[t].at = "lock" /\ q \in Pages /\ NextPage(t)
      /\ skipped \subseteq skipped' /\ skipped' \subseteq skipped \cup {q}
      /\ page_mutex[q] = Main /\ collector.at = "tracker" => q \in skipped'
      /\ UNCHANGED <<lists, sweeping_state, page_mutex, tasks, phase>>
  BY Zenon, ThreadFacts DEF TryLockPage, ThreadsArePlaced
<1> HIDE DEF q
<1>2. PICK place \in Places :
        /\ sweep' = [u \in Threads |-> IF u = t THEN place ELSE sweep[u]]
        /\ place.at \in {"take", "tried"}
        /\ place.at = "take" => place.page = NoPage
        /\ place.at = "tried" => t = Main /\ place.page = q
        /\ t = Main /\ Visits => place.page = q
        /\ t \in SweeperTasks \/ collector.at = "ensure" => place.spaces = sweep[t].spaces
  BY Zenon, <1>1, PageIsOver DEF q
<1>3. sweeping_state[q] = "kSweepingPending" => q \in skipped'
  <2>1. page_mutex[q] = NoPage \/ page_mutex[q] \in Threads
    BY Zenon, <1>1 DEF SweeperTyping
  <2> QED
    BY <1>1, <2>1 DEF MutexesAreHeld, q
<1>4. SweeperTyping'
  BY Zenon, <1>1, <1>2 DEF SweeperTyping, lists, tasks, phase, flags, Places
<1>5. ThreadsArePlaced' /\ ListsAreVisited' /\ TasksAreCounted'
  BY Zenon, <1>1, <1>2, ThreadMoves DEF lists, q
<1>6. \A u \in Threads : u # t => sweep'[u] = sweep[u]
  BY Zenon, <1>2
<1>7. /\ sweep'[t].at \in {"take", "tried"} /\ sweep'[t].page \in {NoPage, q}
      /\ sweep'[t].at = "tried" => t = Main /\ sweep'[t].page = q
  BY Zenon, <1>2
<1>8. MutexesAreHeld'
  <2>1. \A u \in Threads : \A p : Sweeps(u, p)' <=> Sweeps(u, p)
    BY Zenon, <1>1, <1>6, <1>7 DEF Sweeps
  <2>2. \A u \in Threads : u # t => sweep'[u].at = sweep[u].at
    BY Zenon, <1>6
  <2>3. \A p : ~Sweeps(t, p)
    BY Zenon, <1>1 DEF Sweeps
  <2>4. \A p \in Pages : page_mutex[p] # NoPage => page_mutex[p] \in Threads
    BY Zenon DEF SweeperTyping
  <2> QED
    BY <1>1, <2>1, <2>2, <2>3, <2>4 DEF MutexesAreHeld, phase, flags
<1>9. PendingIsFound'
  <2> SUFFICES ASSUME NEW p \in Pages \ skipped', sweeping_state[p] = "kSweepingPending"
               PROVE  \/ Listed(sweeping_list[Home[p]], p)
                      \/ \E u \in Threads : sweep'[u].at = "lock" /\ sweep'[u].page = p
    BY Zenon, <1>1 DEF PendingIsFound, lists
  <2>1. p # q /\ p \in Pages \ skipped
    BY Zenon, <1>1, <1>3
  <2> QED
    BY <1>6, <2>1 DEF PendingIsFound, q
<1>10. LateAreUntouched'
  BY SMTT(60), <1>1, <1>6, <1>7, ThreadFacts DEF LateAreUntouched, lists, phase, flags, ThreadsArePlaced, q
<1>11. SweptAreOnce'
  BY SMTT(60), <1>1, <1>6, <1>7 DEF SweptAreOnce, lists, phase, flags
<1>12. BetweenCycles'
  BY Zenon, <1>1, <1>6, <1>7, ThreadFacts DEF BetweenCycles, phase, flags, q
<1>13. NewSpaceIsDone'
  BY Zenon, <1>1, <1>3, <1>6, <1>7, ThreadFacts DEF NewSpaceIsDone, phase, flags
<1> QED
  BY Zenon, <1>4, <1>5, <1>8, <1>9, <1>10, <1>11, <1>12, <1>13

(* A thread that takes, uses or gives back the mutex of one page.          *)
LEMMA MutexMoves ==
  ASSUME SweeperIInv, NEW t \in Threads, NEW q \in Pages,
         sweep[t].page = q, sweep[t].at # "off", page_mutex[q] \in {NoPage, t},
         sweep'[t].page \in {q, NoPage}, collector' = collector,
         \A u \in Threads : u # t => sweep'[u] = sweep[u],
         \A p \in Pages : p # q => page_mutex'[p] = page_mutex[p]
                                  /\ sweeping_state'[p] = sweeping_state[p],
         \/ /\ sweep'[t].at = "sweep" /\ sweep'[t].page = q
            /\ page_mutex'[q] = t /\ sweeping_state'[q] = "kSweepingInProgress"
         \/ /\ sweep'[t].at \in {"add", "unlock"} /\ sweep'[t].page = q
            /\ page_mutex'[q] = t /\ sweeping_state'[q] = "kSweepingDone"
         \/ /\ sweep'[t].at \notin {"sweep", "add", "unlock"}
            /\ page_mutex'[q] = NoPage /\ sweeping_state'[q] = "kSweepingDone"
  PROVE  MutexesAreHeld'
<1> USE DEF SweeperIInv
<1>1. \A u \in Threads : u # t => ~Sweeps(u, q) /\ ~Sweeps(u, q)'
  BY ThreadFacts DEF MutexesAreHeld, Sweeps
<1>2. \A u \in Threads : \A p \in Pages : p # q => (Sweeps(u, p)' <=> Sweeps(u, p))
  BY Zenon, ThreadFacts DEF Sweeps
<1>3. \A p \in Pages : p # q => ~Sweeps(t, p)
  BY Zenon DEF Sweeps
<1>4. \A p \in Pages : page_mutex[p] = NoPage \/ page_mutex[p] \in Threads
  BY Zenon DEF SweeperTyping
<1>5. collector.at = "tracker" => q \notin collector.left
  <2> SUFFICES ASSUME collector.at = "tracker", q \in collector.left PROVE FALSE
    BY Zenon
  <2>1. t = Main
    BY ThreadFacts DEF MutexesAreHeld
  <2> QED
    BY <2>1 DEF ThreadsArePlaced, Off, At
<1>6. Sweeps(t, q)' <=> sweep'[t].at \in {"sweep", "add", "unlock"}
  BY Zenon DEF Sweeps
<1>7. ASSUME NEW p \in Pages, p # q
      PROVE  /\ \A u \in Threads : Sweeps(u, p)' => page_mutex[p] = u
             /\ page_mutex[p] # NoPage =>
                  \/ Sweeps(page_mutex[p], p)'
                  \/ page_mutex[p] = Main /\ collector = [at |-> "tracker", left |-> {p}]
             /\ collector.at = "tracker" /\ p \in collector.left => page_mutex[p] = Main
             /\ sweeping_state[p] = "kSweepingInProgress" =>
                  page_mutex[p] \in Threads /\ Sweeps(page_mutex[p], p)'
  BY Zenon, <1>2, <1>4, <1>7 DEF MutexesAreHeld
<1>8. ASSUME NEW p \in Pages, p # q, NEW u \in Threads, Sweeps(u, p)'
      PROVE  sweeping_state[p] = IF sweep'[u].at = "sweep" THEN "kSweepingInProgress"
                                                           ELSE "kSweepingDone"
  <2>1. Sweeps(u, p) /\ u # t /\ sweep'[u] = sweep[u]
    BY Zenon, <1>2, <1>3, <1>8
  <2> QED
    BY <2>1 DEF MutexesAreHeld
<1>9. /\ \A u \in Threads : Sweeps(u, q)' => page_mutex'[q] = u
      /\ page_mutex'[q] # NoPage => Sweeps(page_mutex[q], q)'
      /\ \A u \in Threads : Sweeps(u, q)' =>
           sweeping_state'[q] = IF sweep'[u].at = "sweep" THEN "kSweepingInProgress"
                                                          ELSE "kSweepingDone"
      /\ sweeping_state'[q] = "kSweepingInProgress" =>
           page_mutex'[q] \in Threads /\ Sweeps(page_mutex[q], q)'
  <2>1. \A u \in Threads : Sweeps(u, q)' => u = t
    BY Zenon, <1>1
  <2>2. page_mutex'[q] = t /\ Sweeps(t, q)' => Sweeps(page_mutex[q], q)'
    BY Zenon DEF Sweeps
  <2> QED
    BY Zenon, <1>6, <2>1, <2>2, ThreadFacts
<1> SUFFICES ASSUME NEW p \in Pages
             PROVE  /\ \A u \in Threads : Sweeps(u, p)' => page_mutex'[p] = u
                    /\ page_mutex'[p] # NoPage =>
                         \/ Sweeps(page_mutex[p], p)'
                         \/ page_mutex'[p] = Main /\ collector = [at |-> "tracker", left |-> {p}]
                    /\ collector.at = "tracker" /\ p \in collector.left => page_mutex'[p] = Main
                    /\ \A u \in Threads : Sweeps(u, p)' =>
                         sweeping_state'[p] = IF sweep'[u].at = "sweep" THEN "kSweepingInProgress"
                                                                        ELSE "kSweepingDone"
                    /\ sweeping_state'[p] = "kSweepingInProgress" =>
                         page_mutex'[p] \in Threads /\ Sweeps(page_mutex[p], p)'
  BY Zenon DEF MutexesAreHeld
<1>10. CASE p = q
  BY Zenon, <1>5, <1>9, <1>10
<1>11. CASE p # q
  BY <1>7, <1>8, <1>11
<1> QED
  BY Zenon, <1>10, <1>11

(* A thread that goes on with its page.                                    *)
LEMMA StaysOnPage ==
  ASSUME SweeperTyping, NEW t \in Threads, NEW pc, sweep' = [sweep EXCEPT ![t].at = pc]
  PROVE  sweep' = [u \in Threads |-> IF u = t THEN At(pc, sweep[t].spaces, sweep[t].page)
                                               ELSE sweep[u]]
<1>1. sweep[t] \in [at : SweepPc, spaces : Seq(SpaceIds), page : Pages \cup {NoPage}]
  BY Zenon DEF SweeperTyping
<1>2. [sweep[t] EXCEPT !.at = pc] = At(pc, sweep[t].spaces, sweep[t].page)
  BY <1>1 DEF At
<1>3. sweep' = [u \in Threads |-> IF u = t THEN [sweep[t] EXCEPT !.at = pc] ELSE sweep[u]]
  BY Zenon DEF SweeperTyping
<1> QED
  BY Zenon, <1>2, <1>3

(* TryLock succeeds and the page is to be swept.                           *)
LEMMA TryLockKeeps ==
  ASSUME SweeperIInv, NEW t \in Threads, TryLockPage(t),
         page_mutex[sweep[t].page] = NoPage, sweeping_state[sweep[t].page] = "kSweepingPending"
  PROVE  SweeperIInv'
<1> USE DEF SweeperIInv
<1> DEFINE q == sweep[t].page
           place == At("sweep", sweep[t].spaces, q)
<1>1. /\ sweep[t].at = "lock" /\ q \in Pages
      /\ page_mutex[q] = NoPage /\ sweeping_state[q] = "kSweepingPending"
      /\ sweep' = [u \in Threads |-> IF u = t THEN place ELSE sweep[u]]
      /\ sweeping_state' = [p \in Pages |-> IF p = q THEN "kSweepingInProgress"
                                                     ELSE sweeping_state[p]]
      /\ page_mutex' = [p \in Pages |-> IF p = q THEN t ELSE page_mutex[p]]
      /\ UNCHANGED <<lists, skipped, tasks, phase>>
  <2>1. sweep[t].at = "lock" /\ q \in Pages
    BY Zenon DEF TryLockPage, ThreadsArePlaced
  <2>2. sweep' = [u \in Threads |-> IF u = t THEN place ELSE sweep[u]]
    BY Zenon, StaysOnPage DEF TryLockPage
  <2> QED
    BY Zenon, <2>1, <2>2 DEF TryLockPage, SweeperTyping
<1>2. place \in Places /\ place.at = "sweep" /\ place.page = q /\ place.spaces = sweep[t].spaces
  BY Zenon, <1>1 DEF At, Places, SweepPc, SweeperTyping
<1> HIDE DEF q, place
<1>3. SweeperTyping'
  BY Zenon, <1>1, <1>2 DEF SweeperTyping, SweepingState, lists, tasks, phase, flags, Places
<1>4. ThreadsArePlaced' /\ ListsAreVisited' /\ TasksAreCounted'
  BY Zenon, <1>1, <1>2, ThreadMoves DEF lists, q
<1>5. \A u \in Threads : u # t => sweep'[u] = sweep[u]
  BY Zenon, <1>1
<1>6. sweep'[t].at = "sweep" /\ sweep'[t].page = q
  BY Zenon, <1>1, <1>2
<1>7. MutexesAreHeld'
  BY Zenon, <1>1, <1>5, <1>6, MutexMoves DEF phase, q
<1>8. PendingIsFound'
  BY SMTT(60), <1>1, <1>5 DEF PendingIsFound, lists, q
<1>9. LateAreUntouched'
  BY SMTT(60), <1>1, <1>5, <1>6 DEF LateAreUntouched, lists, phase, flags, ThreadsArePlaced, q
<1>10. SweptAreOnce'
  BY SMTT(60), <1>1, <1>5, <1>6 DEF SweptAreOnce, lists, phase, flags
<1>11. BetweenCycles'
  BY Zenon, <1>1, <1>5, <1>6, ThreadFacts DEF BetweenCycles, phase, flags, q
<1>12. NewSpaceIsDone'
  BY Zenon, <1>1, <1>5, <1>6, ThreadFacts DEF NewSpaceIsDone, phase, flags, PagesOf, ThreadsArePlaced
<1> QED
  BY Zenon, <1>3, <1>4, <1>7, <1>8, <1>9, <1>10, <1>11, <1>12

(* RawSweep.                                                               *)
LEMMA RawSweepKeeps ==
  ASSUME SweeperIInv, NEW t \in Threads, RawSweep(t)
  PROVE  SweeperIInv'
<1> USE DEF SweeperIInv
<1> DEFINE q == sweep[t].page
           place == At("add", sweep[t].spaces, q)
<1>1. /\ sweep[t].at = "sweep" /\ q \in Pages
      /\ sweep' = [u \in Threads |-> IF u = t THEN place ELSE sweep[u]]
      /\ sweeping_state' = [p \in Pages |-> IF p = q THEN "kSweepingDone" ELSE sweeping_state[p]]
      /\ UNCHANGED <<lists, page_mutex, skipped, tasks, phase>>
  <2>1. sweep[t].at = "sweep" /\ q \in Pages
    BY Zenon DEF RawSweep, ThreadsArePlaced
  <2>2. sweep' = [u \in Threads |-> IF u = t THEN place ELSE sweep[u]]
    BY Zenon, StaysOnPage DEF RawSweep
  <2> QED
    BY Zenon, <2>1, <2>2 DEF RawSweep, SweeperTyping
<1>2. place \in Places /\ place.at = "add" /\ place.page = q /\ place.spaces = sweep[t].spaces
  BY Zenon, <1>1 DEF At, Places, SweepPc, SweeperTyping
<1>3. page_mutex[q] = t /\ sweeping_state[q] = "kSweepingInProgress"
  BY SMTT(60), <1>1 DEF MutexesAreHeld, Sweeps
<1> HIDE DEF q, place
<1>4. SweeperTyping'
  BY Zenon, <1>1, <1>2 DEF SweeperTyping, SweepingState, lists, tasks, phase, flags, Places
<1>5. ThreadsArePlaced' /\ ListsAreVisited' /\ TasksAreCounted'
  BY Zenon, <1>1, <1>2, ThreadMoves DEF lists, q
<1>6. \A u \in Threads : u # t => sweep'[u] = sweep[u]
  BY Zenon, <1>1
<1>7. sweep'[t].at = "add" /\ sweep'[t].page = q
  BY Zenon, <1>1, <1>2
<1>8. MutexesAreHeld'
  BY Zenon, <1>1, <1>3, <1>6, <1>7, MutexMoves DEF phase, q
<1>9. PendingIsFound'
  BY Zenon, <1>1, <1>6 DEF PendingIsFound, lists
<1>10. LateAreUntouched'
  BY SMTT(60), <1>1, <1>6, <1>7 DEF LateAreUntouched, lists, phase, flags, ThreadsArePlaced, q
<1>11. SweptAreOnce'
  BY SMTT(60), <1>1, <1>3, <1>6, <1>7 DEF SweptAreOnce, lists, phase, flags
<1>12. BetweenCycles'
  BY Zenon, <1>1, <1>6, <1>7, ThreadFacts DEF BetweenCycles, phase, flags, q
<1>13. NewSpaceIsDone'
  BY Zenon, <1>1, <1>6, <1>7, ThreadFacts DEF NewSpaceIsDone, phase, flags, PagesOf, ThreadsArePlaced
<1> QED
  BY Zenon, <1>4, <1>5, <1>8, <1>9, <1>10, <1>11, <1>12, <1>13

(* The swept page is added to the list of its space.                       *)
LEMMA AddSweptPageKeeps ==
  ASSUME SweeperIInv, NEW t \in Threads, AddSweptPage(t)
  PROVE  SweeperIInv'
<1> USE DEF SweeperIInv
<1> DEFINE q == sweep[t].page
           place == At("unlock", sweep[t].spaces, q)
           old == swept_list[Home[q]]
<1>1. /\ sweep[t].at = "add" /\ q \in Pages /\ Home[q] \in SpaceIds
      /\ sweep' = [u \in Threads |-> IF u = t THEN place ELSE sweep[u]]
      /\ swept_list' = [s \in SpaceIds |-> IF s = Home[q] THEN Append(old, q) ELSE swept_list[s]]
      /\ UNCHANGED <<sweeping_list, sweeping_state, page_mutex, skipped, tasks, phase>>
  <2>1. sweep[t].at = "add" /\ q \in Pages /\ Home[q] \in SpaceIds
    BY Zenon, ThreadFacts DEF AddSweptPage, ThreadsArePlaced
  <2>2. sweep' = [u \in Threads |-> IF u = t THEN place ELSE sweep[u]]
    BY ZenonT(60), StaysOnPage DEF AddSweptPage
  <2> QED
    BY Zenon, <2>1, <2>2 DEF AddSweptPage, SweeperTyping
<1>2. place \in Places /\ place.at = "unlock" /\ place.page = q /\ place.spaces = sweep[t].spaces
  BY Zenon, <1>1 DEF At, Places, SweepPc, SweeperTyping
<1>3. page_mutex[q] = t /\ sweeping_state[q] = "kSweepingDone"
  BY Zenon, <1>1 DEF MutexesAreHeld, Sweeps
<1>4. old \in Seq(Pages) /\ Append(old, q) \in Seq(Pages)
  BY SMTT(60), <1>1 DEF SweeperTyping
<1> HIDE DEF q, place, old
<1>5. SweeperTyping'
  BY Zenon, <1>1, <1>2, <1>4 DEF SweeperTyping, SweepingState, tasks, phase, flags, Places
<1>6. ThreadsArePlaced' /\ ListsAreVisited' /\ TasksAreCounted'
  BY Zenon, <1>1, <1>2, ThreadMoves DEF q
<1>7. \A u \in Threads : u # t => sweep'[u] = sweep[u]
  BY Zenon, <1>1
<1>8. sweep'[t].at = "unlock" /\ sweep'[t].page = q
  BY Zenon, <1>1, <1>2
<1>9. MutexesAreHeld'
  BY Zenon, <1>1, <1>3, <1>7, <1>8, MutexMoves DEF phase, q
<1>10. PendingIsFound'
  BY SMTT(60), <1>1, <1>7, <1>8 DEF PendingIsFound
<1>11. \A p \in Pages : p # q => (Listed(swept_list'[Home[p]], p) <=> Listed(swept_list[Home[p]], p))
  BY SMTT(60), <1>1, <1>4, AppendLists, ThreadFacts DEF old
<1>12. LateAreUntouched'
  <2>1. collector.at = "evacuate" => collector.left \subseteq Pages /\ q \notin collector.left
    BY Zenon DEF LateAreUntouched, ThreadsArePlaced, q
  <2> QED
    BY ZenonT(60), <1>1, <1>7, <1>8, <1>11, <2>1 DEF LateAreUntouched, phase, flags
<1>13. SweptAreOnce'
  <2>1. ASSUME NEW p \in Pages \ skipped, p # q
        PROVE  /\ \A j, k \in 1 .. Len(swept_list'[Home[p]]) :
                    swept_list'[Home[p]][j] = p /\ swept_list'[Home[p]][k] = p => j = k
               /\ \/ sweeping_state[p] # "kSweepingDone"
                  \/ \E u \in Threads : sweep'[u].page = p /\ sweep'[u].at = "add"
                  \/ ~sweeping_in_progress
                  => ~Listed(swept_list'[Home[p]], p)
    <3>1. \A j, k \in 1 .. Len(swept_list[Home[p]]) :
            swept_list[Home[p]][j] = p /\ swept_list[Home[p]][k] = p => j = k
      BY Zenon DEF SweptAreOnce
    <3>2. \A j, k \in 1 .. Len(swept_list'[Home[p]]) :
            swept_list'[Home[p]][j] = p /\ swept_list'[Home[p]][k] = p => j = k
      <4>1. CASE Home[p] # Home[q]
        BY Zenon, <1>1, <3>1, <4>1, ThreadFacts
      <4>2. CASE Home[p] = Home[q]
        <5>1. /\ swept_list'[Home[p]] = Append(old, q)
              /\ Len(old) \in Nat /\ Len(Append(old, q)) = Len(old) + 1
              /\ Append(old, q)[Len(old) + 1] = q
              /\ \A k \in 1 .. Len(old) : Append(old, q)[k] = old[k]
          BY <1>1, <1>4, <4>2, AppendLists
        <5>2. \A k \in 1 .. Len(old) + 1 : k \in 1 .. Len(old) \/ k = Len(old) + 1
          BY <5>1
        <5>3. \A k \in 1 .. Len(old) + 1 : Append(old, q)[k] = p => k \in 1 .. Len(old) /\ old[k] = p
          BY Zenon, <2>1, <5>1, <5>2
        <5> QED
          BY SMTT(60), <3>1, <4>2, <5>1, <5>3 DEF old
      <4> QED
        BY Zenon, <4>1, <4>2
    <3>3. (\E u \in Threads : sweep'[u].page = p /\ sweep'[u].at = "add")
            => \E u \in Threads : sweep[u].page = p /\ sweep[u].at = "add"
      BY Zenon, <1>7, <1>8
    <3> QED
      BY Zenon, <1>11, <2>1, <3>2, <3>3 DEF SweptAreOnce
  <2>2. ASSUME q \notin skipped
        PROVE  /\ \A j, k \in 1 .. Len(swept_list'[Home[q]]) :
                    swept_list'[Home[q]][j] = q /\ swept_list'[Home[q]][k] = q => j = k
               /\ ~ \/ sweeping_state[q] # "kSweepingDone"
                    \/ \E u \in Threads : sweep'[u].page = q /\ sweep'[u].at = "add"
                    \/ ~sweeping_in_progress
    <3>1. ~Listed(old, q)
      BY Zenon, <1>1, <2>2 DEF SweptAreOnce, q, old
    <3>2. /\ swept_list'[Home[q]] = Append(old, q)
          /\ Len(old) \in Nat /\ Len(Append(old, q)) = Len(old) + 1
          /\ \A k \in 1 .. Len(old) : Append(old, q)[k] = old[k]
      BY <1>1, <1>4, AppendLists
    <3>3. \A k \in 1 .. Len(old) + 1 : k \in 1 .. Len(old) \/ k = Len(old) + 1
      BY <3>2
    <3>4. \A k \in 1 .. Len(old) + 1 : Append(old, q)[k] = q => k = Len(old) + 1
      BY Zenon, <3>1, <3>2, <3>3 DEF Listed
    <3>5. \A u \in Threads : ~(sweep'[u].page = q /\ sweep'[u].at = "add")
      BY SMTT(60), <1>1, <1>3, <1>7, <1>8 DEF MutexesAreHeld, Sweeps
    <3>6. sweeping_in_progress
      BY SMTT(60), <1>1, <2>2, ThreadFacts DEF BetweenCycles, ThreadsArePlaced, Off, At, q
    <3> QED
      BY Zenon, <1>3, <3>2, <3>4, <3>5, <3>6
  <2> SUFFICES ASSUME NEW p \in Pages \ skipped
               PROVE  /\ \A j, k \in 1 .. Len(swept_list'[Home[p]]) :
                           swept_list'[Home[p]][j] = p /\ swept_list'[Home[p]][k] = p => j = k
                      /\ \/ sweeping_state[p] # "kSweepingDone"
                         \/ \E u \in Threads : sweep'[u].page = p /\ sweep'[u].at = "add"
                         \/ ~sweeping_in_progress
                         => ~Listed(swept_list'[Home[p]], p)
    BY Zenon, <1>1 DEF SweptAreOnce, phase, flags
  <2>3. CASE p = q
    BY Zenon, <2>2, <2>3
  <2>4. CASE p # q
    BY Zenon, <2>1, <2>4
  <2> QED
    BY Zenon, <2>3, <2>4
<1>14. BetweenCycles' /\ NewSpaceIsDone'
  BY Zenon, <1>1, <1>7, <1>8, ThreadFacts DEF BetweenCycles, NewSpaceIsDone, phase, flags, q
<1> QED
  BY Zenon, <1>5, <1>6, <1>9, <1>10, <1>12, <1>13, <1>14

(* The mutex of a page that was swept is released.                         *)
LEMMA UnlockPageKeeps ==
  ASSUME SweeperIInv, NEW t \in Threads, UnlockPage(t)
  PROVE  SweeperIInv'
<1> USE DEF SweeperIInv
<1> DEFINE q == sweep[t].page
<1>1. /\ sweep[t].at = "unlock" /\ q \in Pages /\ NextPage(t)
      /\ page_mutex[q] = t /\ sweeping_state[q] = "kSweepingDone"
      /\ UNCHANGED <<lists, tasks, skipped, phase>>
  BY DEF UnlockPage, ThreadsArePlaced, MutexesAreHeld, Sweeps
<1>2. /\ sweeping_state' = sweeping_state
      /\ page_mutex' = [p \in Pages |-> IF p = q THEN NoPage ELSE page_mutex[p]]
  BY Zenon, <1>1 DEF UnlockPage, SweeperTyping
<1> HIDE DEF q
<1>3. PICK place \in Places :
        /\ sweep' = [u \in Threads |-> IF u = t THEN place ELSE sweep[u]]
        /\ place.at \in {"take", "tried"}
        /\ place.at = "take" => place.page = NoPage
        /\ place.at = "tried" => t = Main /\ place.page = q
        /\ t = Main /\ Visits => place.page = q
        /\ t \in SweeperTasks \/ collector.at = "ensure" => place.spaces = sweep[t].spaces
  BY Zenon, <1>1, PageIsOver DEF q
<1>4. SweeperTyping'
  BY Zenon, <1>1, <1>2, <1>3 DEF SweeperTyping, lists, tasks, phase, flags, Places
<1>5. ThreadsArePlaced' /\ ListsAreVisited' /\ TasksAreCounted'
  BY Zenon, <1>1, <1>3, ThreadMoves DEF lists, q
<1>6. \A u \in Threads : u # t => sweep'[u] = sweep[u]
  BY Zenon, <1>3
<1>7. /\ sweep'[t].at \in {"take", "tried"} /\ sweep'[t].page \in {NoPage, q}
      /\ sweep'[t].at = "tried" => t = Main /\ sweep'[t].page = q
  BY Zenon, <1>3
<1>8. MutexesAreHeld'
  BY Zenon, <1>1, <1>2, <1>6, <1>7, MutexMoves DEF phase, q
<1>9. PendingIsFound'
  BY SMTT(60), <1>1, <1>2, <1>6 DEF PendingIsFound, lists
<1>10. LateAreUntouched'
  BY SMTT(60), <1>1, <1>2, <1>6, <1>7, ThreadFacts DEF LateAreUntouched, lists, phase, flags, ThreadsArePlaced, q
<1>11. SweptAreOnce'
  BY SMTT(60), <1>1, <1>2, <1>6, <1>7 DEF SweptAreOnce, lists, phase, flags
<1>12. BetweenCycles'
  BY Zenon, <1>1, <1>2, <1>6, <1>7, ThreadFacts DEF BetweenCycles, phase, flags, q
<1>13. NewSpaceIsDone'
  BY Zenon, <1>1, <1>2, <1>6, <1>7, ThreadFacts DEF NewSpaceIsDone, phase, flags
<1> QED
  BY Zenon, <1>4, <1>5, <1>8, <1>9, <1>10, <1>11, <1>12, <1>13

(* Every step of ParallelSweepSpace, of a task or of the main thread,      *)
(* keeps the invariant.                                                    *)
LEMMA SweepStepKeeps ==
  ASSUME SweeperIInv, NEW t \in Threads, SweepStep(t)
  PROVE  SweeperIInv'
<1>1. CASE TakePage(t)
  BY Zenon, <1>1, NextSpaceKeeps, TakePageKeeps
<1>2. CASE TryLockPage(t)
  BY Zenon, <1>2, TryLockFailsKeeps, TryLockKeeps
<1>3. CASE RawSweep(t)
  BY Zenon, <1>3, RawSweepKeeps
<1>4. CASE AddSweptPage(t)
  BY Zenon, <1>4, AddSweptPageKeeps
<1>5. CASE UnlockPage(t)
  BY Zenon, <1>5, UnlockPageKeeps
<1> QED
  BY Zenon, <1>1, <1>2, <1>3, <1>4, <1>5 DEF SweepStep

(* A move of the main thread into, within or out of one of its calls keeps *)
(* what does not depend on the call: the places, the mutexes, the lists,   *)
(* the count of the tasks.                                                 *)
LEMMA MainMoves ==
  ASSUME SweeperIInv, NEW place, MainGoesTo(place), NewSpaceIsDone'
  PROVE  SweeperIInv'
<1> USE DEF SweeperIInv
<1>1. \A u \in Threads : u # Main => sweep'[u] = sweep[u]
  BY Zenon DEF MainGoesTo
<1>2. sweep'[Main] = place /\ sweep'[Main].at \in {"off", "take", "lock"}
  BY Zenon, ThreadFacts, OffIsAPlace DEF MainGoesTo
<1>3. \A u \in SweeperTasks : sweep'[u] = sweep[u]
  BY Zenon, <1>1, ThreadFacts
<1>4. SweeperTyping'
  BY Zenon DEF MainGoesTo, SweeperTyping, flags, Places
<1>5. ThreadsArePlaced'
  <2>1. ASSUME NEW u \in Threads
        PROVE  /\ sweep'[u].at = "off" => sweep'[u] = Off
               /\ sweep'[u].at = "take" => sweep'[u].page = NoPage
               /\ sweep'[u].at \notin {"off", "take"} => sweep'[u].page \in Pages
               /\ sweep'[u].at = "tried" => u = Main
    <3>1. CASE u = Main
      BY Zenon, <1>2, <3>1, OffIsAPlace DEF MainGoesTo
    <3>2. CASE u # Main
      BY Zenon, <1>1, <3>2 DEF ThreadsArePlaced
    <3> QED
      BY Zenon, <3>1, <3>2
  <2>2. sweep'[Main] # Off => collector'.at \in {"allocate", "visit", "newspace", "ensure"}
    BY Zenon, <1>2 DEF MainGoesTo, Visits
  <2>3. Visits' /\ sweep'[Main] # Off => sweep'[Main].page \in collector'.left
    BY Zenon, <1>2 DEF MainGoesTo, Visits
  <2>4. ~FLAG_concurrent_sweeping' \/ ~sweeping_in_progress' => \A u \in SweeperTasks : sweep'[u] = Off
    BY Zenon, <1>3 DEF MainGoesTo, ThreadsArePlaced, flags
  <2>5. /\ collector'.at \in {"evacuate", "allocate", "newspace", "ensure"} => sweeping_in_progress'
        /\ collector'.at \in {"visit", "newspace", "tracker", "evacuate"} => collector'.left \subseteq Pages
        /\ collector'.at = "allocate" => collector'.left \subseteq SpaceIds
        /\ collector'.at # "evacuate"
    BY Zenon DEF MainGoesTo, flags, Visits
  <2> QED
    BY Zenon, <2>1, <2>2, <2>3, <2>4, <2>5 DEF ThreadsArePlaced
<1>6. MutexesAreHeld'
  <2>1. \A p : ~Sweeps(Main, p) /\ ~Sweeps(Main, p)'
    BY Zenon, <1>2, ThreadFacts DEF Sweeps, MainGoesTo
  <2>2. \A u \in Threads : \A p : Sweeps(u, p)' <=> Sweeps(u, p)
    BY Zenon, <1>1, <2>1 DEF Sweeps
  <2>3. \A p \in Pages : page_mutex[p] # NoPage => page_mutex[p] \in Threads
    BY Zenon DEF SweeperTyping
  <2>4. /\ page_mutex' = page_mutex /\ sweeping_state' = sweeping_state
        /\ collector.at # "tracker" /\ collector'.at # "tracker"
    BY Zenon DEF MainGoesTo
  <2> QED
    BY SMTT(60), <1>1, <2>1, <2>2, <2>3, <2>4 DEF MutexesAreHeld
<1>7. PendingIsFound'
  <2>1. \A u \in Threads : sweep[u].at = "lock" => sweep'[u] = sweep[u]
    BY Zenon, <1>1 DEF MainGoesTo
  <2> QED
    BY SMTT(60), <2>1 DEF PendingIsFound, MainGoesTo
<1>8. ListsAreVisited'
  BY Zenon, <1>2, <1>3 DEF ListsAreVisited, MainGoesTo, flags
<1>9. TasksAreCounted'
  <2>1. Active' = Active
    BY Zenon, <1>3 DEF Active
  <2> QED
    BY SMTT(60), <2>1 DEF TasksAreCounted, MainGoesTo, SweeperTyping, flags
<1>10. LateAreUntouched'
  BY Zenon DEF LateAreUntouched, MainGoesTo
<1>11. SweptAreOnce'
  <2>1. \A u \in Threads : sweep'[u].at = "add" => sweep'[u] = sweep[u]
    BY Zenon, <1>1, <1>2
  <2>2. \A s \in SpaceIds : swept_list'[s] # swept_list[s] => swept_list'[s] = <<>>
    BY Zenon DEF MainGoesTo
  <2>3. \A p : ~Listed(<<>>, p)
    BY Zenon, NothingIsListed
  <2> SUFFICES ASSUME NEW p \in Pages \ skipped
               PROVE  /\ \A j, k \in 1 .. Len(swept_list'[Home[p]]) :
                           swept_list'[Home[p]][j] = p /\ swept_list'[Home[p]][k] = p => j = k
                      /\ \/ sweeping_state[p] # "kSweepingDone"
                         \/ \E u \in Threads : sweep'[u].page = p /\ sweep'[u].at = "add"
                         \/ ~sweeping_in_progress
                         => ~Listed(swept_list'[Home[p]], p)
    BY Zenon DEF SweptAreOnce, MainGoesTo, flags
  <2>4. CASE swept_list'[Home[p]] = swept_list[Home[p]]
    BY SMTT(60), <2>1, <2>4 DEF SweptAreOnce
  <2>5. CASE swept_list'[Home[p]] = <<>>
    BY Zenon, <2>3, <2>5 DEF Listed
  <2> QED
    BY Zenon, <2>2, <2>4, <2>5, ThreadFacts
<1>12. BetweenCycles'
  BY Zenon, <1>2 DEF BetweenCycles, MainGoesTo, flags
<1> QED
  BY Zenon, <1>4, <1>5, <1>6, <1>7, <1>8, <1>9, <1>10, <1>11, <1>12

(* Where the main thread is when it is in no call.                         *)
LEMMA MainInNoCall ==
  ASSUME SweeperIInv
  PROVE  /\ collector \in [at : CollectorPc, left : SUBSET (Pages \cup SpaceIds)]
         /\ sweep[Main] \in Places
         /\ sweep = [u \in Threads |-> IF u = Main THEN sweep[Main] ELSE sweep[u]]
         /\ collector.at \notin {"allocate", "visit", "newspace", "ensure"} => sweep[Main] = Off
         /\ \A what \in CollectorPc : Doing(what) \in [at : CollectorPc, left : SUBSET (Pages \cup SpaceIds)]
         /\ \A what \in CollectorPc : Doing(what).at = what /\ Doing(what).left = {}
<1> USE DEF SweeperIInv
<1>1. collector \in [at : CollectorPc, left : SUBSET (Pages \cup SpaceIds)]
  BY Zenon DEF SweeperTyping
<1>2. sweep[Main] \in Places
  BY Zenon, ThreadFacts DEF SweeperTyping, Places
<1>3. sweep = [u \in Threads |-> IF u = Main THEN sweep[Main] ELSE sweep[u]]
  BY Zenon DEF SweeperTyping
<1>4. collector.at \notin {"allocate", "visit", "newspace", "ensure"} => sweep[Main] = Off
  BY Zenon DEF ThreadsArePlaced
<1> QED
  BY Zenon, <1>1, <1>2, <1>3, <1>4 DEF Doing

(* SlowAllocateRaw and the refills of the free list.                       *)
LEMMA AllocationKeeps ==
  ASSUME SweeperIInv, NEW space \in Paged, SlowAllocateRaw(space)
  PROVE  SweeperIInv'
<1> USE DEF SweeperIInv
<1>1. /\ collector = Doing("mutator") /\ collector.at = "mutator" /\ sweeping_in_progress
      /\ sweep[Main] = Off /\ space \in SpaceIds
  <2>1. space \in SpaceIds
    BY SweeperAssumption DEF Paged, SpaceIds, Range
  <2> QED
    BY Zenon, <2>1, MainInNoCall DEF SlowAllocateRaw, Doing
<1>2. /\ swept_list' \in [SpaceIds -> Seq(Pages)]
      /\ \A s \in SpaceIds : swept_list'[s] \in {swept_list[s], <<>>}
  BY <1>1 DEF SlowAllocateRaw, RefillFreeList, SweeperTyping
<1>3. UNCHANGED <<flags, sweeping_list, sweeping_state, page_mutex, tasks, skipped>>
  BY Zenon DEF SlowAllocateRaw
<1>4. CASE UNCHANGED <<collector, sweep>>
  <2>1. MainGoesTo(Off)
    BY SMTT(60), <1>1, <1>2, <1>3, <1>4, MainInNoCall, OffIsAPlace
       DEF MainGoesTo, tasks, SweeperTyping, Visits
  <2>2. NewSpaceIsDone'
    BY Zenon, <1>1, <1>4, OffIsAPlace DEF NewSpaceIsDone
  <2> QED
    BY Zenon, <2>1, <2>2, MainMoves
<1>5. CASE /\ collector' = [at |-> "allocate", left |-> {space}]
           /\ sweep' = [sweep EXCEPT ![Main] = Through(<<space>>)]
  <2> DEFINE place == Through(<<space>>)
  <2>1. place \in Places /\ place.at = "take" /\ place.page = NoPage
    BY SMTT(60), <1>1 DEF Through, At, Places, SweepPc
  <2>2. sweep' = [u \in Threads |-> IF u = Main THEN place ELSE sweep[u]]
    BY Zenon, <1>5, ThreadFacts DEF SweeperTyping
  <2> HIDE DEF place
  <2>3. /\ collector' \in [at : CollectorPc, left : SUBSET (Pages \cup SpaceIds)]
        /\ collector'.at = "allocate" /\ collector'.left \subseteq SpaceIds
    BY Zenon, <1>1, <1>5 DEF CollectorPc
  <2>4. MainGoesTo(place)
    BY SMTT(60), <1>1, <1>2, <1>3, <2>1, <2>2, <2>3, OffIsAPlace DEF MainGoesTo, tasks, SweeperTyping, Visits
  <2>5. NewSpaceIsDone'
    BY Zenon, <2>1, <2>2, <2>3, ThreadFacts DEF NewSpaceIsDone
  <2> QED
    BY Zenon, <2>4, <2>5, MainMoves
<1> QED
  BY Zenon, <1>4, <1>5 DEF SlowAllocateRaw

(* RefillFreeList takes the swept pages, and the allocation tries again.   *)
LEMMA RefillAndRetryKeeps ==
  ASSUME SweeperIInv, RefillAndRetry
  PROVE  SweeperIInv'
<1> USE DEF SweeperIInv
<1>1. /\ collector.at = "allocate" /\ sweeping_in_progress /\ sweep[Main].at = "take"
      /\ sweep' = [u \in Threads |-> IF u = Main THEN Off ELSE sweep[u]]
      /\ collector' = Doing("mutator") /\ "mutator" \in CollectorPc
  <2>1. sweep[Main].at = "take"
    BY SMTT(60) DEF RefillAndRetry, MainSwept, Through, At
  <2>2. sweep' = [u \in Threads |-> IF u = Main THEN Off ELSE sweep[u]]
    BY Zenon, ThreadFacts DEF RefillAndRetry, MainIsOff, SweeperTyping
  <2> QED
    BY Zenon, <2>1, <2>2 DEF RefillAndRetry, ThreadsArePlaced, CollectorPc
<1>2. /\ swept_list' \in [SpaceIds -> Seq(Pages)]
      /\ \A s \in SpaceIds : swept_list'[s] \in {swept_list[s], <<>>}
  BY <1>1 DEF RefillAndRetry, RefillFreeList, SweeperTyping, ThreadsArePlaced
<1>3. UNCHANGED <<flags, sweeping_list, sweeping_state, page_mutex, tasks, skipped>>
  BY Zenon DEF RefillAndRetry
<1>4. collector'.at = "mutator" /\ collector' \in [at : CollectorPc, left : SUBSET (Pages \cup SpaceIds)]
  BY Zenon, <1>1, MainInNoCall
<1>5. MainGoesTo(Off)
  BY SMTT(60), <1>1, <1>2, <1>3, <1>4, OffIsAPlace DEF MainGoesTo, tasks, SweeperTyping, Visits
<1>6. NewSpaceIsDone'
  BY Zenon, <1>1, <1>4, OffIsAPlace, ThreadFacts DEF NewSpaceIsDone
<1> QED
  BY Zenon, <1>5, <1>6, MainMoves

(* SweepOrWaitUntilSweepingCompleted has returned for each page.           *)
LEMMA VisitsDoneKeeps ==
  ASSUME SweeperIInv, VisitsDone
  PROVE  SweeperIInv'
<1> USE DEF SweeperIInv
<1>1. /\ swept_list' \in [SpaceIds -> Seq(Pages)]
      /\ \A s \in SpaceIds : swept_list'[s] \in {swept_list[s], <<>>}
      /\ UNCHANGED <<flags, sweeping_list, sweeping_state, page_mutex, tasks, skipped>>
  BY Zenon DEF VisitsDone, lists, SweeperTyping
<1>2. /\ Visits /\ collector.left = {} /\ sweep[Main] = Off /\ sweep' = sweep
      /\ collector' = Doing("mutator") /\ "mutator" \in CollectorPc
  BY Zenon DEF VisitsDone, ThreadsArePlaced, CollectorPc
<1>3. collector'.at = "mutator" /\ collector' \in [at : CollectorPc, left : SUBSET (Pages \cup SpaceIds)]
  BY Zenon, <1>2, MainInNoCall
<1>4. MainGoesTo(Off)
  BY SMTT(60), <1>1, <1>2, <1>3, MainInNoCall, OffIsAPlace DEF MainGoesTo, tasks, SweeperTyping, Visits
<1>5. NewSpaceIsDone'
  BY Zenon, <1>2, <1>3, OffIsAPlace DEF NewSpaceIsDone
<1> QED
  BY Zenon, <1>4, <1>5, MainMoves

(* SweepOrWaitUntilSweepingCompleted: the call and its pages.              *)
LEMMA VisitKeeps ==
  ASSUME SweeperIInv, NEW p \in Pages,
         IterateOver(p) \/ SweepOrWait(p) \/ WaitUntilSweepingCompleted(p)
  PROVE  SweeperIInv'
<1> USE DEF SweeperIInv
<1>1. /\ swept_list' \in [SpaceIds -> Seq(Pages)]
      /\ \A s \in SpaceIds : swept_list'[s] \in {swept_list[s], <<>>}
      /\ UNCHANGED <<flags, sweeping_list, sweeping_state, page_mutex, tasks, skipped>>
  BY Zenon DEF IterateOver, SweepOrWait, WaitUntilSweepingCompleted, lists, SweeperTyping
<1>2. CASE IterateOver(p)
  <2>1. /\ collector.at = "mutator" /\ sweep[Main] = Off /\ sweep' = sweep
        /\ collector' = [at |-> "visit", left |-> {p}]
    BY Zenon, <1>2, MainInNoCall DEF IterateOver, Doing
  <2>2. /\ collector' \in [at : CollectorPc, left : SUBSET (Pages \cup SpaceIds)]
        /\ collector'.at = "visit" /\ collector'.left \subseteq Pages
    BY Zenon, <2>1 DEF CollectorPc
  <2>3. MainGoesTo(Off)
    BY SMTT(60), <1>1, <2>1, <2>2, MainInNoCall, OffIsAPlace DEF MainGoesTo, tasks, SweeperTyping, Visits
  <2>4. NewSpaceIsDone'
    BY Zenon, <2>1, <2>2, OffIsAPlace DEF NewSpaceIsDone
  <2> QED
    BY Zenon, <2>3, <2>4, MainMoves
<1>3. ASSUME Visits, p \in collector.left, collector' = [collector EXCEPT !.left = @ \ {p}],
             p \notin skipped => sweeping_state[p] = "kSweepingDone",
             sweep' = [u \in Threads |-> IF u = Main THEN Off ELSE sweep[u]],
             sweep[Main].at \in {"off", "take", "tried"}
      PROVE  SweeperIInv'
  <2>1. /\ collector' \in [at : CollectorPc, left : SUBSET (Pages \cup SpaceIds)]
        /\ collector'.at = collector.at /\ collector'.left = collector.left \ {p}
    BY Zenon, <1>3, MainInNoCall
  <2>2. MainGoesTo(Off)
    <3>1. /\ Visits /\ sweep[Main].at \in {"off", "take", "tried"}
          /\ sweep' = [u \in Threads |-> IF u = Main THEN Off ELSE sweep[u]]
          /\ sweeping_in_progress = sweeping_in_progress' /\ late_pages = late_pages'
      BY Zenon, <1>1, <1>3 DEF flags
    <3>2. collector.left \subseteq Pages /\ (collector.at = "newspace" => sweeping_in_progress)
      BY Zenon, <3>1 DEF ThreadsArePlaced, Visits
    <3>3. num_sweeping_tasks \in Nat /\ pending_sweeper_tasks \in Nat
      BY Zenon DEF SweeperTyping
    <3>4. num_sweeping_tasks' = num_sweeping_tasks /\ pending_sweeper_tasks' = pending_sweeper_tasks
      BY Zenon, <1>1 DEF tasks
    <3>5. Off.page = NoPage
      BY Zenon, OffIsAPlace
    <3> QED
      BY <1>1, <2>1, <3>1, <3>2, <3>3, <3>4, <3>5, OffIsAPlace DEF MainGoesTo, Visits
  <2>3. NewSpaceIsDone'
    <3>1. sweep'[Main].at # "tried"
      BY Zenon, <1>3, OffIsAPlace, ThreadFacts
    <3> QED
      BY Zenon, <1>1, <1>3, <2>1, <3>1 DEF NewSpaceIsDone
  <2> QED
    BY Zenon, <2>2, <2>3, MainMoves
<1>4. CASE SweepOrWait(p) /\ sweeping_state[p] = "kSweepingDone"
  BY Zenon, <1>3, <1>4, MainInNoCall, OffIsAPlace DEF SweepOrWait
<1>5. CASE SweepOrWait(p) /\ sweeping_state[p] # "kSweepingDone"
  <2> DEFINE place == At("lock", <<>>, p)
  <2>1. /\ Visits /\ p \in collector.left /\ sweep[Main] = Off /\ collector' = collector
        /\ sweep' = [u \in Threads |-> IF u = Main THEN place ELSE sweep[u]]
    BY Zenon, <1>5, ThreadFacts DEF SweepOrWait, SweeperTyping
  <2>2. place \in Places /\ place.at = "lock" /\ place.page = p
    BY Zenon, OffIsAPlace DEF At, Off, Places, SweepPc
  <2> HIDE DEF place
  <2>3. MainGoesTo(place)
    BY SMTT(60), <1>1, <1>5, <2>1, <2>2, MainInNoCall, OffIsAPlace
       DEF MainGoesTo, tasks, SweeperTyping, Visits, ThreadsArePlaced, BetweenCycles
  <2>4. NewSpaceIsDone'
    BY Zenon, <1>1, <2>1, <2>2, ThreadFacts DEF NewSpaceIsDone
  <2> QED
    BY Zenon, <2>3, <2>4, MainMoves
<1>6. CASE WaitUntilSweepingCompleted(p)
  <2>1. /\ Visits /\ p \in collector.left /\ collector' = [collector EXCEPT !.left = @ \ {p}]
        /\ sweep[Main].at = "tried" /\ sweep[Main].page = p
        /\ sweeping_state[p] = "kSweepingDone" \/ page_mutex[p] = NoPage
        /\ sweep' = [u \in Threads |-> IF u = Main THEN Off ELSE sweep[u]]
    BY Zenon, <1>6, ThreadFacts DEF WaitUntilSweepingCompleted, MainIsOff, SweeperTyping
  <2>2. p \notin skipped => sweeping_state[p] = "kSweepingDone"
    <3>1. p \notin skipped => sweeping_state[p] # "kSweepingPending"
      BY Zenon, <2>1 DEF NewSpaceIsDone
    <3>2. sweeping_state[p] = "kSweepingInProgress" => page_mutex[p] # NoPage
      BY Zenon, ThreadFacts DEF MutexesAreHeld
    <3>3. sweeping_state[p] \in SweepingState
      BY Zenon DEF SweeperTyping
    <3> QED
      BY Zenon, <2>1, <3>1, <3>2, <3>3 DEF SweepingState
  <2> QED
    BY Zenon, <1>3, <2>1, <2>2
<1> QED
  BY Zenon, <1>2, <1>4, <1>5, <1>6

(* The array buffer tracker takes and gives back the mutex of a page.      *)
LEMMA TrackerKeeps ==
  ASSUME SweeperIInv, (\E p \in Pages : TrackerLocks(p)) \/ TrackerUnlocks
  PROVE  SweeperIInv'
<1> USE DEF SweeperIInv
<1>1. sweep[Main] = Off /\ sweep' = sweep /\ UNCHANGED <<flags, lists, sweeping_state, tasks, skipped>>
  BY MainInNoCall DEF TrackerLocks, TrackerUnlocks, Doing
<1>2. \A t \in Threads : \A p : Sweeps(t, p)' <=> Sweeps(t, p)
  BY Zenon, <1>1 DEF Sweeps
<1>3. \A p \in Pages : page_mutex[p] # NoPage => page_mutex[p] \in Threads
  BY Zenon DEF SweeperTyping
<1>4. \A p : ~Sweeps(Main, p)
  BY Zenon, <1>1, OffIsAPlace DEF Sweeps
<1>5. ASSUME NEW q \in Pages, TrackerLocks(q)
      PROVE  /\ collector' = [at |-> "tracker", left |-> {q}]
             /\ collector' \in [at : CollectorPc, left : SUBSET (Pages \cup SpaceIds)]
             /\ page_mutex' \in [Pages -> Threads \cup {NoPage}] /\ MutexesAreHeld'
  <2>1. /\ collector.at = "mutator" /\ page_mutex[q] = NoPage
        /\ collector' = [at |-> "tracker", left |-> {q}]
        /\ page_mutex' = [p \in Pages |-> IF p = q THEN Main ELSE page_mutex[p]]
    BY Zenon, <1>5 DEF TrackerLocks, Doing, SweeperTyping
  <2>2. \A t \in Threads : ~Sweeps(t, q)
    BY Zenon, <2>1, ThreadFacts DEF MutexesAreHeld
  <2>3. collector' \in [at : CollectorPc, left : SUBSET (Pages \cup SpaceIds)]
    BY Zenon, <2>1 DEF CollectorPc
  <2>4. page_mutex' \in [Pages -> Threads \cup {NoPage}]
    BY Zenon, <2>1, ThreadFacts DEF SweeperTyping
  <2>5. sweeping_state[q] # "kSweepingInProgress"
    BY Zenon, <2>1, ThreadFacts DEF MutexesAreHeld
  <2>6. MutexesAreHeld'
    <3>1. \A p \in Pages : p # q => page_mutex'[p] = page_mutex[p]
      BY Zenon, <2>1
    <3>2. page_mutex'[q] = Main /\ collector'.at = "tracker" /\ collector'.left = {q}
      BY Zenon, <2>1
    <3>3. ASSUME NEW p \in Pages, p # q
          PROVE  /\ \A t \in Threads : Sweeps(t, p)' => page_mutex[p] = t
                 /\ page_mutex[p] # NoPage => Sweeps(page_mutex[p], p)'
                 /\ \A t \in Threads : Sweeps(t, p)' =>
                      sweeping_state[p] = IF sweep[t].at = "sweep" THEN "kSweepingInProgress"
                                                                   ELSE "kSweepingDone"
                 /\ sweeping_state[p] = "kSweepingInProgress" =>
                      page_mutex[p] \in Threads /\ Sweeps(page_mutex[p], p)'
      <4>1. Sweeps(page_mutex[p], p)' <=> Sweeps(page_mutex[p], p)
        BY Zenon, <1>1, <3>1, <3>3 DEF Sweeps
      <4> QED
        BY SMTT(60), <1>2, <2>1, <4>1 DEF MutexesAreHeld
    <3>4. \A t \in Threads : ~Sweeps(t, q)'
      BY Zenon, <1>2, <2>2
    <3> SUFFICES ASSUME NEW p \in Pages
                 PROVE  /\ \A t \in Threads : Sweeps(t, p)' => page_mutex'[p] = t
                        /\ page_mutex'[p] # NoPage =>
                             \/ Sweeps(page_mutex[p], p)'
                             \/ page_mutex'[p] = Main /\ collector' = [at |-> "tracker", left |-> {p}]
                        /\ collector'.at = "tracker" /\ p \in collector'.left => page_mutex'[p] = Main
                        /\ \A t \in Threads : Sweeps(t, p)' =>
                             sweeping_state'[p] = IF sweep'[t].at = "sweep" THEN "kSweepingInProgress"
                                                                            ELSE "kSweepingDone"
                        /\ sweeping_state'[p] = "kSweepingInProgress" =>
                             page_mutex'[p] \in Threads /\ Sweeps(page_mutex[p], p)'
      BY Zenon DEF MutexesAreHeld
    <3>5. CASE p = q
      BY Zenon, <1>1, <2>1, <2>5, <3>2, <3>4, <3>5
    <3>6. CASE p # q
      BY Zenon, <1>1, <3>1, <3>2, <3>3, <3>6
    <3> QED
      BY Zenon, <3>5, <3>6
  <2> QED
    BY Zenon, <2>1, <2>3, <2>4, <2>6
<1>6. ASSUME TrackerUnlocks
      PROVE  /\ collector' = Doing("mutator")
             /\ collector' \in [at : CollectorPc, left : SUBSET (Pages \cup SpaceIds)]
             /\ page_mutex' \in [Pages -> Threads \cup {NoPage}] /\ MutexesAreHeld'
  <2>1. /\ collector.at = "tracker" /\ collector' = Doing("mutator") /\ "mutator" \in CollectorPc
        /\ page_mutex' = [p \in Pages |-> IF p \in collector.left THEN NoPage ELSE page_mutex[p]]
    BY Zenon, <1>6 DEF TrackerUnlocks, CollectorPc
  <2>2. /\ collector' \in [at : CollectorPc, left : SUBSET (Pages \cup SpaceIds)]
        /\ collector'.at = "mutator"
    BY Zenon, <2>1, MainInNoCall
  <2>3. page_mutex' \in [Pages -> Threads \cup {NoPage}]
    BY Zenon, <2>1 DEF SweeperTyping
  <2>4. ASSUME NEW p \in Pages, p \in collector.left
        PROVE  page_mutex'[p] = NoPage /\ (\A t \in Threads : ~Sweeps(t, p))
               /\ sweeping_state[p] # "kSweepingInProgress"
    BY Zenon, <1>4, <2>1, <2>4 DEF MutexesAreHeld
  <2>5. ASSUME NEW p \in Pages, p \notin collector.left
        PROVE  /\ page_mutex'[p] = page_mutex[p]
               /\ page_mutex[p] # NoPage => Sweeps(page_mutex[p], p)
    BY SMTT(60), <2>1, <2>5 DEF MutexesAreHeld
  <2>6. \A p \in Pages : p \notin collector.left =>
          (Sweeps(page_mutex[p], p)' <=> Sweeps(page_mutex[p], p))
    BY Zenon, <1>1, <2>5 DEF Sweeps
  <2>7. MutexesAreHeld'
    BY Zenon, <1>1, <1>2, <2>2, <2>4, <2>5, <2>6 DEF MutexesAreHeld
  <2> QED
    BY Zenon, <2>1, <2>2, <2>3, <2>7
<1>7. /\ collector' \in [at : CollectorPc, left : SUBSET (Pages \cup SpaceIds)]
      /\ collector'.at \in {"tracker", "mutator"} /\ collector'.left \subseteq Pages
      /\ page_mutex' \in [Pages -> Threads \cup {NoPage}] /\ MutexesAreHeld'
  BY SMTT(60), <1>5, <1>6 DEF Doing
<1>8. SweeperTyping'
  BY Zenon, <1>1, <1>7 DEF SweeperTyping, lists, tasks, flags
<1>9. ThreadsArePlaced'
  BY Zenon, <1>1, <1>7 DEF ThreadsArePlaced, flags, Visits
<1>10. PendingIsFound' /\ SweptAreOnce'
  BY SMTT(60), <1>1 DEF PendingIsFound, SweptAreOnce, lists, flags
<1>11. ListsAreVisited'
  <2>1. collector.at # "evacuate"
    BY SMTT(60) DEF TrackerLocks, TrackerUnlocks, Doing
  <2> QED
    BY Zenon, <1>1, <1>7, <2>1 DEF ListsAreVisited, lists, flags
<1>12. TasksAreCounted'
  BY Zenon, <1>1 DEF TasksAreCounted, Active, tasks, flags
<1>13. LateAreUntouched' /\ BetweenCycles' /\ NewSpaceIsDone'
  BY Zenon, <1>1, <1>7, OffIsAPlace DEF LateAreUntouched, BetweenCycles, NewSpaceIsDone, flags
<1> QED
  BY Zenon, <1>7, <1>8, <1>9, <1>10, <1>11, <1>12, <1>13

(* A page is added late, while the tasks already sweep.                    *)
LEMMA AddLatePageKeeps ==
  ASSUME SweeperIInv, NEW p \in Pages, AddLatePage(p)
  PROVE  SweeperIInv'
<1> USE DEF SweeperIInv
<1>1. /\ collector.at = "evacuate" /\ p \in collector.left
      /\ collector' = [collector EXCEPT !.left = @ \ {p}]
      /\ sweeping_state' = Prepared({p}) /\ late_pages' = TRUE
      /\ sweeping_list' = [sweeping_list EXCEPT ![Home[p]] = Append(sweeping_list[Home[p]], p)]
      /\ UNCHANGED <<FLAG_concurrent_sweeping, sweeping_in_progress, swept_list, page_mutex,
                     num_sweeping_tasks, pending_sweeper_tasks, sweep, skipped>>
  BY Zenon DEF AddLatePage, tasks
<1>2. /\ collector'.at = "evacuate" /\ collector'.left = collector.left \ {p}
      /\ collector' \in [at : CollectorPc, left : SUBSET (Pages \cup SpaceIds)]
  BY Zenon, <1>1 DEF SweeperTyping
<1>3. /\ sweeping_state'[p] = "kSweepingPending"
      /\ \A q \in Pages : q # p => sweeping_state'[q] = sweeping_state[q]
      /\ sweeping_state' \in [Pages -> SweepingState]
  BY Zenon, <1>1 DEF Prepared, SweeperTyping, SweepingState
<1>4. /\ \A t \in Threads : sweep[t].page # p
      /\ p \notin skipped => ~Listed(swept_list[Home[p]], p)
      /\ sweeping_in_progress /\ sweep[Main] = Off
  BY Zenon, <1>1 DEF LateAreUntouched, ThreadsArePlaced
<1>5. /\ Home[p] \in SpaceIds /\ sweeping_list[Home[p]] \in Seq(Pages)
      /\ sweeping_list'[Home[p]] = Append(sweeping_list[Home[p]], p)
      /\ \A s \in SpaceIds : s # Home[p] => sweeping_list'[s] = sweeping_list[s]
  BY Zenon, <1>1, ThreadFacts DEF SweeperTyping
<1>6. \A q \in Pages : Listed(sweeping_list'[Home[q]], q) <=> Listed(sweeping_list[Home[q]], q) \/ q = p
  <2> TAKE q \in Pages
  <2>1. CASE Home[q] = Home[p]
    <3>1. Listed(Append(sweeping_list[Home[p]], p), q) <=> Listed(sweeping_list[Home[p]], q) \/ q = p
      BY Zenon, <1>5, AppendLists
    <3> QED
      BY Zenon, <1>5, <2>1, <3>1
  <2>2. CASE Home[q] # Home[p]
    BY Zenon, <1>5, <2>2, ThreadFacts
  <2> QED
    BY Zenon, <2>1, <2>2
<1>7. SweeperTyping'
  <2>1. sweeping_list' \in [SpaceIds -> Seq(Pages)]
    BY Zenon, <1>1, <1>5, AppendLists DEF SweeperTyping
  <2> QED
    BY Zenon, <1>1, <1>2, <1>3, <2>1 DEF SweeperTyping
<1>8. ThreadsArePlaced'
  BY Zenon, <1>1, <1>2 DEF ThreadsArePlaced, Visits
<1>9. MutexesAreHeld'
  <2> SUFFICES ASSUME NEW q \in Pages
               PROVE  /\ \A t \in Threads : Sweeps(t, q)' => page_mutex'[q] = t
                      /\ page_mutex'[q] # NoPage =>
                           \/ Sweeps(page_mutex[q], q)'
                           \/ page_mutex'[q] = Main /\ collector' = [at |-> "tracker", left |-> {q}]
                      /\ collector'.at = "tracker" /\ q \in collector'.left => page_mutex'[q] = Main
                      /\ \A t \in Threads : Sweeps(t, q)' =>
                           sweeping_state'[q] = IF sweep'[t].at = "sweep" THEN "kSweepingInProgress"
                                                                          ELSE "kSweepingDone"
                      /\ sweeping_state'[q] = "kSweepingInProgress" =>
                           page_mutex'[q] \in Threads /\ Sweeps(page_mutex[q], q)'
    BY Zenon DEF MutexesAreHeld
  <2>1. \A t : Sweeps(t, q)' <=> Sweeps(t, q)
    BY Zenon, <1>1 DEF Sweeps
  <2>2. Sweeps(page_mutex[q], q)' <=> Sweeps(page_mutex[q], q)
    BY Zenon, <1>1 DEF Sweeps
  <2>3. CASE q = p
    <3>1. \A t \in Threads : ~Sweeps(t, q)
      BY Zenon, <1>4, <2>3 DEF Sweeps
    <3>2. page_mutex[q] = NoPage
      BY <1>1, <3>1 DEF MutexesAreHeld, SweeperTyping
    <3> QED
      BY Zenon, <1>1, <1>2, <1>3, <2>1, <2>3, <3>1, <3>2
  <2>4. CASE q # p
    <3>1. sweeping_state'[q] = sweeping_state[q] /\ page_mutex'[q] = page_mutex[q] /\ sweep' = sweep
      BY Zenon, <1>1, <1>3, <2>4
    <3> QED
      BY <1>1, <1>2, <2>1, <2>2, <3>1 DEF MutexesAreHeld
  <2> QED
    BY Zenon, <2>3, <2>4
<1>10. PendingIsFound'
  <2>1. \A s \in SpaceIds : \A k \in 1 .. Len(sweeping_list'[s]) : Home[sweeping_list'[s][k]] = s
    <3> TAKE s \in SpaceIds
    <3>1. CASE s = Home[p]
      <4>1. \A k \in 1 .. Len(sweeping_list[s]) + 1 :
              k \in 1 .. Len(sweeping_list[s]) \/ k = Len(sweeping_list[s]) + 1
        BY SMTT(60), <1>5, <3>1, AppendLists
      <4> QED
        BY SMTT(60), <1>5, <3>1, <4>1, AppendLists DEF PendingIsFound
    <3>2. CASE s # Home[p]
      BY Zenon, <1>5, <3>2 DEF PendingIsFound
    <3> QED
      BY Zenon, <3>1, <3>2
  <2> QED
    BY ZenonT(60), <1>1, <1>3, <1>6, <2>1 DEF PendingIsFound
<1>11. ListsAreVisited'
  BY Zenon, <1>1, <1>2, <1>4 DEF ListsAreVisited
<1>12. TasksAreCounted'
  BY Zenon, <1>1 DEF TasksAreCounted, Active
<1>13. LateAreUntouched'
  <2>1. collector.left \subseteq Pages
    BY Zenon, <1>1 DEF ThreadsArePlaced
  <2>2. ASSUME NEW q \in collector'.left
        PROVE  /\ \A t \in Threads : sweep[t].page # q
               /\ ~Listed(sweeping_list'[Home[q]], q)
               /\ q \notin skipped =>
                    sweeping_state'[q] = "kSweepingDone" /\ ~Listed(swept_list[Home[q]], q)
    <3>1. q \in collector.left /\ q \in Pages /\ q # p
      BY Zenon, <1>2, <2>1
    <3> QED
      BY Zenon, <1>1, <1>3, <1>6, <3>1 DEF LateAreUntouched
  <2> QED
    BY Zenon, <1>1, <2>2 DEF LateAreUntouched
<1>14. SweptAreOnce'
  <2>1. \A q \in Pages \ skipped :
          sweeping_state'[q] # "kSweepingDone" =>
            q = p \/ sweeping_state[q] # "kSweepingDone"
    BY Zenon, <1>3
  <2>2. \A q \in Pages \ skipped :
          sweeping_state'[q] # "kSweepingDone" => ~Listed(swept_list[Home[q]], q)
    BY Zenon, <1>4, <2>1 DEF SweptAreOnce
  <2>3. swept_list' = swept_list /\ skipped' = skipped /\ sweep' = sweep
        /\ sweeping_in_progress' = sweeping_in_progress
    BY Zenon, <1>1
  <2> QED
    BY <2>2, <2>3 DEF SweptAreOnce
<1>15. BetweenCycles' /\ NewSpaceIsDone'
  BY Zenon, <1>1, <1>2, <1>4, OffIsAPlace DEF BetweenCycles, NewSpaceIsDone
<1> QED
  BY Zenon, <1>7, <1>8, <1>9, <1>10, <1>11, <1>12, <1>13, <1>14, <1>15

(* A step that leaves the sweeper alone keeps the invariant.               *)
LEMMA SweeperIdles ==
  ASSUME SweeperIInv, UNCHANGED sweeperVars
  PROVE  SweeperIInv'
<1>1. UNCHANGED <<FLAG_concurrent_sweeping, sweeping_list, swept_list, sweeping_state, page_mutex,
                  num_sweeping_tasks, pending_sweeper_tasks, sweeping_in_progress, late_pages,
                  sweep, collector, skipped>>
  BY Zenon DEF sweeperVars
<1>2. SweeperTyping' /\ PendingIsFound' /\ ListsAreVisited' /\ SweptAreOnce'
  BY SMTT(60), <1>1 DEF SweeperIInv, SweeperTyping, PendingIsFound, ListsAreVisited, SweptAreOnce
<1>3. ThreadsArePlaced' /\ BetweenCycles' /\ NewSpaceIsDone'
  BY Zenon, <1>1 DEF SweeperIInv, ThreadsArePlaced, BetweenCycles, NewSpaceIsDone, Visits
<1>4. Active' = Active
  BY Zenon, <1>1 DEF Active
<1>5. TasksAreCounted' /\ LateAreUntouched'
  BY Zenon, <1>1, <1>4 DEF SweeperIInv, TasksAreCounted, LateAreUntouched
<1>6. MutexesAreHeld'
  BY SMTT(60), <1>1 DEF SweeperIInv, MutexesAreHeld, Sweeps
<1> QED
  BY Zenon, <1>2, <1>3, <1>5, <1>6 DEF SweeperIInv

(* A task visits every space, wherever it starts.                          *)
LEMMA FromVisitsAll ==
  ASSUME NEW n \in 2 .. Len(Spaces)
  PROVE  From(n) \in Seq(SpaceIds) /\ \A s \in SpaceIds : s \in Range(From(n))
<1> DEFINE last == Len(Spaces)
           a == SubSeq(Spaces, n, last)
           b == SubSeq(Spaces, 1, n - 1)
<1>1. Spaces \in Seq(SpaceIds) /\ last \in Nat /\ n \in Nat /\ n - 1 \in Nat /\ n <= last /\ 2 <= n
  BY SweeperAssumption DEF SpaceIds
<1>2. /\ a \in Seq(SpaceIds) /\ Len(a) = last - n + 1
      /\ \A k \in 1 .. last - n + 1 : a[k] = Spaces[n + k - 1]
  BY <1>1
<1>3. /\ b \in Seq(SpaceIds) /\ Len(b) = n - 1
      /\ \A k \in 1 .. n - 1 : b[k] = Spaces[k]
  BY <1>1
<1>4. From(n) = a \o b
  BY Zenon DEF From
<1> HIDE DEF a, b
<1>0. a \in Seq(SpaceIds) /\ b \in Seq(SpaceIds)
  BY Zenon, <1>2, <1>3
<1>5. /\ a \o b \in Seq(SpaceIds) /\ DOMAIN (a \o b) = 1 .. Len(a) + Len(b)
      /\ \A k \in 1 .. Len(a) + Len(b) : (a \o b)[k] = IF k <= Len(a) THEN a[k] ELSE b[k - Len(a)]
  BY SMT, <1>0
<1> HIDE DEF last
<1>6. ASSUME NEW s \in SpaceIds PROVE s \in Range(a \o b)
  <2>1. PICK k \in 1 .. last : Spaces[k] = s
    <3>1. DOMAIN Spaces = 1 .. last
      BY <1>1 DEF last
    <3> QED
      BY Zenon, <3>1 DEF SpaceIds, Range
  <2>2. CASE k >= n
    <3>1. k - n + 1 \in 1 .. last - n + 1 /\ n + (k - n + 1) - 1 = k
      BY <1>1, <2>2
    <3>2. a[k - n + 1] = s
      BY Zenon, <1>2, <2>1, <3>1
    <3>3. k - n + 1 \in 1 .. Len(a) + Len(b) /\ k - n + 1 <= Len(a)
      BY <1>1, <1>2, <1>3, <3>1
    <3> QED
      BY Zenon, <1>5, <3>2, <3>3 DEF Range
  <2>3. CASE k < n
    <3>1. k \in 1 .. n - 1 /\ b[k] = s
      BY SMTT(60), <1>1, <1>3, <2>1, <2>3
    <3>2. /\ k + Len(a) \in 1 .. Len(a) + Len(b) /\ ~(k + Len(a) <= Len(a))
          /\ (k + Len(a)) - Len(a) = k
      BY SMTT(60), <1>1, <1>2, <1>3, <3>1
    <3> QED
      BY Zenon, <1>5, <3>1, <3>2 DEF Range
  <2> QED
    BY <1>1, <2>2, <2>3
<1> QED
  BY Zenon, <1>4, <1>5, <1>6

(* Without tasks and late pages the lists have been emptied.               *)
LEMMA ListsAreEmpty ==
  ASSUME SweeperIInv, FLAG_concurrent_sweeping, collector.at # "evacuate",
         \A t \in SweeperTasks : sweep[t] = Off
  PROVE  \A s \in SpaceIds : sweeping_list[s] = <<>>
BY SMTT(60), OffIsAPlace DEF SweeperIInv, ListsAreVisited, Range

(* A page that is to be swept is in a list or some thread has it.          *)
LEMMA PagesAreDone ==
  ASSUME SweeperIInv, \A s \in SpaceIds : sweeping_list[s] = <<>>,
         \A t \in Threads : sweep[t].at \in {"off", "take"}
  PROVE  \A p \in Pages \ skipped : sweeping_state[p] = "kSweepingDone"
<1> SUFFICES ASSUME NEW p \in Pages \ skipped
             PROVE  sweeping_state[p] = "kSweepingDone"
  BY Zenon
<1>1. sweeping_state[p] # "kSweepingPending"
  BY Zenon, NothingIsListed, ThreadFacts DEF SweeperIInv, PendingIsFound
<1>2. sweeping_state[p] # "kSweepingInProgress"
  BY Zenon DEF SweeperIInv, MutexesAreHeld, Sweeps
<1>3. sweeping_state[p] \in SweepingState
  BY Zenon DEF SweeperIInv, SweeperTyping
<1> QED
  BY Zenon, <1>1, <1>2, <1>3 DEF SweepingState
=============================================================================
