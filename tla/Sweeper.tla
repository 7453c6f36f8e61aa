------------------------------- MODULE Sweeper ------------------------------
(***************************************************************************)
(* The sweeper of the mark-compact collector (src/src/heap/mark-compact.cc *)
(* and .h): after a collection, tasks on background threads and the main   *)
(* thread sweep the pages of the lists.  The main thread may ask for one   *)
(* page, for the pages of the new space, or for the end of sweeping.       *)
(*                                                                         *)
(* Grain: one locked access to a list, one semaphore operation, one        *)
(* operation on the mutex of a page or one change of its state per step.   *)
(* IsSweepingCompleted is one step: only the main thread waits.            *)
(***************************************************************************)
EXTENDS Integers, Sequences, FiniteSets, Functions

CONSTANTS
  Spaces,       \* the spaces, a sequence that starts with NEW_SPACE
  Pages,
  Home,         \* [Pages -> the space that owns the page]
  Main,         \* the main thread
  MaxCycles,    \* bound: collections
  NoPage

VARIABLES
  FLAG_concurrent_sweeping,
  sweeping_list, swept_list,      \* [space -> sequence of pages]
  sweeping_state,                 \* concurrent_sweeping_state of each page
  page_mutex,                     \* [Pages -> who holds it, or NoPage]
  num_sweeping_tasks, pending_sweeper_tasks,
  sweeping_in_progress, late_pages,
  sweep,        \* [Threads -> where it is in ParallelSweepSpace]
  collector,    \* what the main thread is doing, and the pages it has left
  skipped,      \* pages a task gave up while the array buffer tracker had them
  cycles

sweeperVars == <<FLAG_concurrent_sweeping, sweeping_list, swept_list, sweeping_state,
          page_mutex, num_sweeping_tasks, pending_sweeper_tasks,
          sweeping_in_progress, late_pages, sweep, collector, skipped, cycles>>

(* Task k starts at space k + 1; the one for late pages is the last.       *)
SweeperTasks == 1 .. Len(Spaces)
Threads == SweeperTasks \cup {Main}
NEW_SPACE == Spaces[1]
Paged == {Spaces[k] : k \in 2 .. Len(Spaces)}
PagesOf(space) == {p \in Pages : Home[p] = space}

ASSUME SweeperAssumption ==
  /\ Spaces \in Seq(Range(Spaces)) /\ Len(Spaces) >= 2
  /\ IsFiniteSet(Pages) /\ Home \in [Pages -> Range(Spaces)]
  /\ Main \notin SweeperTasks /\ NoPage \notin Pages \cup Threads

(* at: "off"; "take" a page from the first of the spaces; "lock" its mutex; *)
(* "sweep"; "add" it to the swept list; "unlock".  A page that the main    *)
(* thread has asked for itself is then "tried".                            *)
At(where, spaces, page) == [at |-> where, spaces |-> spaces, page |-> page]
Off == At("off", <<>>, NoPage)
Through(spaces) == At("take", spaces, NoPage)
From(k) == SubSeq(Spaces, k, Len(Spaces)) \o SubSeq(Spaces, 1, k - 1)

Doing(what) == [at |-> what, left |-> {}]

SweeperInit ==
  /\ FLAG_concurrent_sweeping \in BOOLEAN
  /\ sweeping_list = [s \in Range(Spaces) |-> <<>>]
  /\ swept_list = [s \in Range(Spaces) |-> <<>>]
  /\ sweeping_state = [p \in Pages |-> "kSweepingDone"]
  /\ page_mutex = [p \in Pages |-> NoPage]
  /\ num_sweeping_tasks = 0 /\ pending_sweeper_tasks = 0
  /\ sweeping_in_progress = FALSE /\ late_pages = FALSE
  /\ sweep = [t \in Threads |-> Off]
  /\ collector = Doing("mutator")
  /\ skipped = {} /\ cycles = 0

lists == <<sweeping_list, swept_list>>
tasks == <<num_sweeping_tasks, pending_sweeper_tasks>>
flags == <<FLAG_concurrent_sweeping, sweeping_in_progress, late_pages, cycles>>
phase == <<flags, collector>>
-----------------------------------------------------------------------------
(* ParallelSweepSpace and ParallelSweepPage, by any thread.                *)

(* GetSweepingPageSafe, or on to the next space if there is no page.       *)
TakePage(t) ==
  /\ sweep[t].at = "take" /\ sweep[t].spaces # <<>>
  /\ LET list == sweeping_list[Head(sweep[t].spaces)]
     IN  IF list = <<>>
         THEN /\ sweep' = [sweep EXCEPT ![t] = Through(Tail(sweep[t].spaces))]
              /\ UNCHANGED sweeping_list
         ELSE /\ sweep' = [sweep EXCEPT ![t] = At("lock", sweep[t].spaces, Head(list))]
              /\ sweeping_list' = [sweeping_list EXCEPT ![Head(sweep[t].spaces)] = Tail(@)]
  /\ UNCHANGED <<swept_list, sweeping_state, page_mutex, tasks, skipped, phase>>

Visits == collector.at \in {"visit", "newspace"}

(* The page is over: the next one, unless the main thread wanted just one. *)
NextPage(t) ==
  sweep' = [sweep EXCEPT ![t] =
    IF t = Main /\ Visits THEN At("tried", <<>>, sweep[t].page)
    ELSE Through(IF t = Main /\ collector.at = "allocate" THEN <<>> ELSE sweep[t].spaces)]

(* Mutant: the state of the page is not looked at again.                   *)
MutTryLockPage(t) ==
  LET p == sweep[t].page
  IN  /\ sweep[t].at = "lock"
      /\ IF page_mutex[p] = NoPage
         THEN /\ sweeping_state' = [sweeping_state EXCEPT ![p] = "kSweepingInProgress"]
              /\ page_mutex' = [page_mutex EXCEPT ![p] = t]
              /\ sweep' = [sweep EXCEPT ![t].at = "sweep"]
         ELSE /\ NextPage(t)
              /\ UNCHANGED <<sweeping_state, page_mutex>>
      /\ UNCHANGED <<lists, tasks, skipped, phase>>

TryLockPage(t) ==
  LET p == sweep[t].page
      free == page_mutex[p] = NoPage
  IN  /\ sweep[t].at = "lock"
      /\ IF free /\ sweeping_state[p] = "kSweepingPending"
         THEN /\ sweeping_state' = [sweeping_state EXCEPT ![p] = "kSweepingInProgress"]
              /\ page_mutex' = [page_mutex EXCEPT ![p] = t]
              /\ sweep' = [sweep EXCEPT ![t].at = "sweep"]
         ELSE /\ NextPage(t)
              /\ UNCHANGED <<sweeping_state, page_mutex>>
      /\ skipped' = IF ~free /\ collector.at = "tracker" /\ page_mutex[p] = Main
                    THEN skipped \cup {p} ELSE skipped
      /\ UNCHANGED <<lists, tasks, phase>>

(* RawSweep, which sets the state at its end.                              *)
RawSweep(t) ==
  /\ sweep[t].at = "sweep"
  /\ sweeping_state' = [sweeping_state EXCEPT ![sweep[t].page] = "kSweepingDone"]
  /\ sweep' = [sweep EXCEPT ![t].at = "add"]
  /\ UNCHANGED <<lists, page_mutex, tasks, skipped, phase>>

AddSweptPage(t) ==
  LET p == sweep[t].page
  IN  /\ sweep[t].at = "add"
      /\ swept_list' = [swept_list EXCEPT ![Home[p]] = Append(@, p)]
      /\ sweep' = [sweep EXCEPT ![t].at = "unlock"]
      /\ UNCHANGED <<sweeping_list, sweeping_state, page_mutex, tasks, skipped, phase>>

UnlockPage(t) ==
  /\ sweep[t].at = "unlock"
  /\ sweeping_state' = [sweeping_state EXCEPT ![sweep[t].page] = "kSweepingDone"]
  /\ page_mutex' = [page_mutex EXCEPT ![sweep[t].page] = NoPage]
  /\ NextPage(t)
  /\ UNCHANGED <<lists, tasks, skipped, phase>>

(* The end of SweeperTask::Run.                                            *)
SignalEnd(t) ==
  /\ t # Main /\ sweep[t] = Through(<<>>)
  /\ pending_sweeper_tasks' = pending_sweeper_tasks + 1
  /\ sweep' = [sweep EXCEPT ![t] = Off]
  /\ UNCHANGED <<lists, sweeping_state, page_mutex, num_sweeping_tasks, skipped, phase>>

SweepStep(t) ==
  TakePage(t) \/ TryLockPage(t) \/ RawSweep(t) \/ AddSweptPage(t) \/ UnlockPage(t)
-----------------------------------------------------------------------------
(* The collection, on the main thread.                                     *)

Prepared(pages) ==
  [p \in Pages |-> IF p \in pages THEN "kSweepingPending" ELSE sweeping_state[p]]

(* The lists of the pages; std::sort leaves one of them, by the live bytes *)
(* of the pages.                                                           *)
ListsOf(pages) ==
  {list \in [1 .. Cardinality(pages) -> pages] :
     \A p \in pages : \E k \in DOMAIN list : list[k] = p}

(* StartSweepSpace for each space and StartSweeping.  The pages of the old *)
(* spaces that are not evacuated are added and sorted; of the others, and  *)
(* of the new space, some will be added late.                              *)
SweepSpaces ==
  /\ collector.at = "mutator" /\ ~sweeping_in_progress /\ cycles < MaxCycles
  /\ \E pages \in SUBSET {p \in Pages : Home[p] \in Paged} :
       /\ sweeping_list' \in
            {list \in [Range(Spaces) -> UNION {ListsOf(pages \cap PagesOf(s)) :
                                             s \in Range(Spaces)}] :
               \A s \in Range(Spaces) : list[s] \in ListsOf(pages \cap PagesOf(s))}
       /\ sweeping_state' = Prepared(pages)
       /\ \E late \in SUBSET (Pages \ pages) :
            collector' = [at |-> "evacuate", left |-> late]
  /\ sweeping_in_progress' = TRUE
  /\ cycles' = cycles + 1
  /\ IF FLAG_concurrent_sweeping
     THEN /\ num_sweeping_tasks' = num_sweeping_tasks + Len(Spaces) - 1
          /\ sweep' = [t \in Threads |-> IF t \in 1 .. Len(Spaces) - 1
                                         THEN Through(From(t + 1)) ELSE sweep[t]]
     ELSE UNCHANGED <<num_sweeping_tasks, sweep>>
  /\ UNCHANGED <<FLAG_concurrent_sweeping, swept_list, page_mutex,
                 pending_sweeper_tasks, late_pages, skipped>>

AddLatePage(p) ==
  /\ collector.at = "evacuate" /\ p \in collector.left
  /\ collector' = [collector EXCEPT !.left = @ \ {p}]
  /\ sweeping_state' = Prepared({p})
  /\ late_pages' = TRUE
  /\ sweeping_list' = [sweeping_list EXCEPT ![Home[p]] = Append(@, p)]
  /\ UNCHANGED <<FLAG_concurrent_sweeping, sweeping_in_progress, cycles,
                 swept_list, page_mutex, tasks, sweep, skipped>>

(* Mutant: no task is started for late pages.                              *)
MutFinish ==
  /\ collector = Doing("evacuate")
  /\ collector' = Doing("mutator")
  /\ UNCHANGED <<flags, lists, sweeping_state, page_mutex, tasks, sweep, skipped>>

(* Finish: one more task, as all others might already be finished.         *)
Finish ==
  /\ collector = Doing("evacuate")
  /\ collector' = Doing("mutator")
  /\ IF late_pages /\ FLAG_concurrent_sweeping
     THEN /\ num_sweeping_tasks' = num_sweeping_tasks + 1
          /\ sweep' = [sweep EXCEPT ![Len(Spaces)] = Through(From(2))]
     ELSE UNCHANGED <<num_sweeping_tasks, sweep>>
  /\ UNCHANGED <<flags, lists, sweeping_state, page_mutex, pending_sweeper_tasks, skipped>>
-----------------------------------------------------------------------------
(* What the main thread does between collections.                          *)

(* RegisterNew or Unregister of the array buffer tracker: the mutex of a   *)
(* page is taken and given back.                                           *)
TrackerLocks(p) ==
  /\ collector = Doing("mutator") /\ page_mutex[p] = NoPage
  /\ page_mutex' = [page_mutex EXCEPT ![p] = Main]
  /\ collector' = [at |-> "tracker", left |-> {p}]
  /\ UNCHANGED <<flags, lists, sweeping_state, tasks, sweep, skipped>>

TrackerUnlocks ==
  /\ collector.at = "tracker"
  /\ page_mutex' = [p \in Pages |-> IF p \in collector.left THEN NoPage ELSE page_mutex[p]]
  /\ collector' = Doing("mutator")
  /\ UNCHANGED <<flags, lists, sweeping_state, tasks, sweep, skipped>>

(* SlowAllocateRaw: RefillFreeList takes the swept pages; if that is not   *)
(* enough, the main thread sweeps a page itself and refills again.         *)
RefillFreeList(space) == swept_list' = [swept_list EXCEPT ![space] = <<>>]

SlowAllocateRaw(space) ==
  /\ collector = Doing("mutator") /\ sweeping_in_progress
  /\ RefillFreeList(space)
  /\ \/ UNCHANGED <<collector, sweep>>
     \/ /\ collector' = [at |-> "allocate", left |-> {space}]
        /\ sweep' = [sweep EXCEPT ![Main] = Through(<<space>>)]
  /\ UNCHANGED <<flags, sweeping_list, sweeping_state, page_mutex, tasks, skipped>>

MainSwept == sweep[Main] = Through(<<>>)
MainIsOff == sweep' = [sweep EXCEPT ![Main] = Off]

RefillAndRetry ==
  /\ collector.at = "allocate" /\ MainSwept /\ MainIsOff
  /\ \E space \in collector.left : RefillFreeList(space)
  /\ collector' = Doing("mutator")
  /\ UNCHANGED <<flags, sweeping_list, sweeping_state, page_mutex, tasks, skipped>>

(* IsSweepingCompleted: the signals so far are taken.                      *)
Unfinished == num_sweeping_tasks - pending_sweeper_tasks

(* Mutant: a signal is taken without counting the task as finished.        *)
MutTakeSignals == UNCHANGED num_sweeping_tasks /\ pending_sweeper_tasks' = 0

TakeSignals == num_sweeping_tasks' = Unfinished /\ pending_sweeper_tasks' = 0
HelpIsNeeded == ~FLAG_concurrent_sweeping \/ Unfinished # 0

(* SweepOrWaitUntilSweepingCompleted of a page, and of those of the new    *)
(* space before a scavenge.                                                *)
IterateOver(p) ==
  /\ collector = Doing("mutator")
  /\ collector' = [at |-> "visit", left |-> {p}]
  /\ UNCHANGED <<flags, lists, sweeping_state, page_mutex, tasks, sweep, skipped>>

EnsureNewSpaceCompleted ==
  /\ collector = Doing("mutator") /\ sweeping_in_progress
  /\ TakeSignals
  /\ collector' = [at |-> "newspace",
                   left |-> IF HelpIsNeeded THEN PagesOf(NEW_SPACE) ELSE {}]
  /\ UNCHANGED <<flags, lists, sweeping_state, page_mutex, sweep, skipped>>

(* The page was not done and has been tried.  If it still is not done, the *)
(* thread that sweeps it is waited for: its mutex is taken and released.   *)
WaitUntilSweepingCompleted(p) ==
  /\ Visits /\ p \in collector.left
  /\ sweep[Main].at = "tried" /\ sweep[Main].page = p
  /\ sweeping_state[p] = "kSweepingDone" \/ page_mutex[p] = NoPage
  /\ MainIsOff
  /\ collector' = [collector EXCEPT !.left = @ \ {p}]
  /\ UNCHANGED <<flags, lists, sweeping_state, page_mutex, tasks, skipped>>

SweepOrWait(p) ==
  /\ Visits /\ p \in collector.left /\ sweep[Main] = Off
  /\ IF sweeping_state[p] = "kSweepingDone"
     THEN collector' = [collector EXCEPT !.left = @ \ {p}] /\ UNCHANGED sweep
     ELSE /\ sweep' = [sweep EXCEPT ![Main] = At("lock", <<>>, p)]
          /\ UNCHANGED collector
  /\ UNCHANGED <<flags, lists, sweeping_state, page_mutex, tasks, skipped>>

VisitsDone ==
  /\ Visits /\ collector.left = {}
  /\ collector' = Doing("mutator")
  /\ UNCHANGED <<flags, lists, sweeping_state, page_mutex, tasks, sweep, skipped>>
-----------------------------------------------------------------------------
(* EnsureSweepingCompleted.                                                *)

EnsureCompleted ==
  /\ collector = Doing("mutator") /\ sweeping_in_progress
  /\ IF FLAG_concurrent_sweeping THEN TakeSignals ELSE UNCHANGED tasks
  /\ collector' = Doing("ensure")
  /\ sweep' = [sweep EXCEPT ![Main] = Through(IF HelpIsNeeded THEN Spaces ELSE <<>>)]
  /\ UNCHANGED <<flags, lists, sweeping_state, page_mutex, skipped>>

(* The condition of the loop that waits for the tasks.                     *)
WaitForTasks == FLAG_concurrent_sweeping /\ num_sweeping_tasks > 0

WaitForTask ==
  /\ collector.at = "ensure" /\ MainSwept /\ WaitForTasks
  /\ pending_sweeper_tasks > 0
  /\ pending_sweeper_tasks' = pending_sweeper_tasks - 1
  /\ num_sweeping_tasks' = num_sweeping_tasks - 1
  /\ UNCHANGED <<lists, sweeping_state, page_mutex, sweep, skipped, phase>>

(* The end of EnsureCompleted, and the RefillFreeList of the old spaces.   *)
SweepingCompleted ==
  /\ collector.at = "ensure" /\ MainSwept /\ ~WaitForTasks
  /\ MainIsOff
  /\ swept_list' = [s \in Range(Spaces) |-> <<>>]
  /\ late_pages' = FALSE /\ sweeping_in_progress' = FALSE
  /\ collector' = Doing("mutator")
  /\ UNCHANGED <<FLAG_concurrent_sweeping, cycles, sweeping_list, sweeping_state,
                 page_mutex, tasks, skipped>>
-----------------------------------------------------------------------------
(* What the main thread does in a call that it has begun.                  *)
CollectorStep ==
  \/ SweepStep(Main) \/ RefillAndRetry \/ VisitsDone \/ TrackerUnlocks \/ Finish
  \/ \E p \in Pages : SweepOrWait(p) \/ WaitUntilSweepingCompleted(p) \/ AddLatePage(p)
  \/ WaitForTask \/ SweepingCompleted

(* The calls that it may make.                                             *)
CollectorCall ==
  \/ SweepSpaces \/ EnsureNewSpaceCompleted \/ EnsureCompleted
  \/ \E p \in Pages : TrackerLocks(p) \/ IterateOver(p)
  \/ \E space \in Paged : SlowAllocateRaw(space)

SweeperTaskStep(t) == SweepStep(t) \/ SignalEnd(t)

SweeperNext ==
  CollectorStep \/ CollectorCall \/ \E t \in SweeperTasks : SweeperTaskStep(t)

SweeperSpec == SweeperInit /\ [][SweeperNext]_sweeperVars

(* A call goes on, and the platform runs the tasks.                        *)
FairSweeperSpec ==
  /\ SweeperSpec /\ WF_sweeperVars(CollectorStep)
  /\ \A t \in SweeperTasks : WF_sweeperVars(SweeperTaskStep(t))
-----------------------------------------------------------------------------
(* A page is swept once in a cycle, however the tasks, allocation and      *)
(* iteration come to it together: it is in the list of swept pages, or     *)
(* about to be added to it, at most once.  A page twice in that list would *)
(* be linked into the free list twice.  Pages that were skipped are        *)
(* prepared again before they are done, and excepted.                      *)
SweptOnce ==
  \A p \in Pages \ skipped :
    Cardinality({t \in Threads : sweep[t].page = p /\ sweep[t].at \in {"sweep", "add"}})
    + Cardinality({k \in DOMAIN swept_list[Home[p]] : swept_list[Home[p]][k] = p}) <= 1

(* When EnsureCompleted returns no task is left, nothing is in a list and  *)
(* every page is done, and before a scavenge every page of the new space   *)
(* is; except the pages that a task took from the list and skipped while   *)
(* the tracker held their mutex.                                           *)
SweepingIsOver ==
  /\ ~sweeping_in_progress =>
       /\ \A t \in SweeperTasks : sweep[t] = Off
       /\ num_sweeping_tasks = 0 /\ pending_sweeper_tasks = 0
       /\ \A s \in Range(Spaces) : sweeping_list[s] = <<>>
       /\ \A p \in Pages \ skipped : sweeping_state[p] = "kSweepingDone"
  /\ collector = Doing("newspace") =>
       \A p \in PagesOf(NEW_SPACE) \ skipped : sweeping_state[p] = "kSweepingDone"

(* The comment and the CHECK where evacuation candidates are collected:    *)
(* "sweeping has finished" means that SweepingDone() of every page.        *)
SweepingFinishedMeansDone ==
  ~sweeping_in_progress => \A p \in Pages : sweeping_state[p] = "kSweepingDone"

(* EnsureCompleted and a scavenge's wait for the new space return, even if *)
(* tasks take pages away from under the main thread.                       *)
CompletionReturns == collector.at \in {"ensure", "newspace"} ~> collector.at = "mutator"
=============================================================================
