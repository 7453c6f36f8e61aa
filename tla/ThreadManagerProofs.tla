------------------------ MODULE ThreadManagerProofs -------------------------
(***************************************************************************)
(* Proofs about threads that share an isolate and their interrupts, for    *)
(* any threads, requests and masks and for stacks of any depth: no         *)
(* interrupt is lost or goes astray, scopes hold back what they postpone,  *)
(* and every thread has a state of its own.                                *)
(***************************************************************************)
EXTENDS ThreadManagerStructure

(* Every state still belongs to its thread, action by action.              *)

(* The thread whose state is in place is inside, and its state is good.    *)
LEMMA OccupantIsInside ==
  ASSUME IInv, occupant # Null
  PROVE  /\ occupant \in Inside /\ frames[occupant] \in Seq(Frame)
         /\ Belongs(thread_local, occupant, frames[occupant], owed[occupant])
         /\ Good(thread_local) /\ thread_local.real \in OwnLimits(occupant)
         /\ Pending(thread_local) = owed[occupant]
<1>1. Structure /\ TypeOK /\ occupant \in Threads
  BY Zenon DEF IInv, Structure, TypeOK
<1>2. occupant \in Inside
  BY Zenon, <1>1 DEF Structure, OwnersAgree, OwnerAgrees, Present, Inside
<1>3. Belongs(thread_local, occupant, frames[occupant], owed[occupant])
  BY Zenon, <1>2 DEF IInv, StatesBelong, StateOf
<1> QED
  BY Zenon, <1>1, <1>2, <1>3, StacksAreSequences DEF Belongs

(* A thread that runs has its state in place.                              *)
LEMMA RunnerIsOccupant ==
  ASSUME IInv, NEW t \in Threads, mutex_owner = t, step[t] = "none"
  PROVE  /\ occupant = t /\ occupant # Null
         /\ lazily_archived_thread = Null /\ thread_state[t] = Null
BY Zenon, ThreadsAssumption DEF IInv, Structure, OwnersAgree, OwnerAgrees, Present

(* A method of the stack guard that adds the flags come to the pending     *)
(* ones, or takes the flags gone.                                          *)
LEMMA GuardStep ==
  ASSUME IInv, NEW come \in SUBSET InterruptFlag, NEW gone,
         UNCHANGED <<listVars, mutex_owner, stack_limit, frames, step, occupant>>,
         thread_local' \in ThreadLocal,
         occupant # Null =>
           /\ Good(thread_local') /\ thread_local'.real \in OwnLimits(occupant)
           /\ SameScopes(thread_local', thread_local)
           /\ Pending(thread_local') = (Pending(thread_local) \ gone) \cup come,
         owed' = [u \in Threads |-> IF u = occupant THEN (owed[u] \ gone) \cup come
                                    ELSE owed[u]],
         to_handle' \in [Threads -> Seq(InterruptFlag)],
         \A u \in Threads : to_handle'[u] # <<>> =>
           to_handle[u] # <<>> \/ (mutex_owner = u /\ step[u] = "none")
  PROVE  IInv'
<1>1. Structure /\ StatesAreCounted /\ TypeOK
  BY Zenon DEF IInv, Structure
<1>2. owed' \in [Threads -> SUBSET InterruptFlag]
  BY Zenon, <1>1 DEF TypeOK
<1>3. Structure' /\ StatesAreCounted'
  BY Zenon, <1>1, <1>2, GuardedStructure
<1>4. ASSUME NEW u \in Inside'
      PROVE  Belongs(StateOf(u)', u, frames'[u], owed'[u])
  <2>1. u \in Inside /\ u \in Threads /\ frames'[u] = frames[u]
    BY Zenon, <1>4 DEF Inside
  <2>2. CASE u = occupant
    <3>1. occupant # Null
      BY Zenon, <2>1, <2>2, ThreadsAssumption
    <3>2. Belongs(thread_local', u, frames[u], (owed[u] \ gone) \cup come)
      BY Zenon, <2>2, <3>1, OccupantIsInside, BelongsChanged
    <3>3. StateOf(u)' = thread_local'
      BY Zenon, <2>2 DEF StateOf
    <3> QED
      BY Zenon, <2>1, <2>2, <3>2, <3>3
  <2>3. CASE u # occupant
    <3>1. StateOf(u)' = StateOf(u) /\ owed'[u] = owed[u]
      BY Zenon, <2>1, <2>3 DEF StateOf, listVars
    <3> QED
      BY Zenon, <2>1, <3>1 DEF IInv, StatesBelong
  <2> QED
    BY Zenon, <2>2, <2>3
<1> QED
  BY Zenon, <1>3, <1>4 DEF IInv, StatesBelong

(* A request goes to the thread whose state is in place.                   *)
LEMMA RequestKeeps ==
  ASSUME IInv, NEW flag \in Requests, Request(flag)
  PROVE  IInv'
<1>1. flag \in InterruptFlag /\ TypeOK
  BY Zenon, ThreadsAssumption DEF IInv, Structure
<1>2. /\ UNCHANGED <<listVars, mutex_owner, stack_limit, frames, step, occupant>>
      /\ thread_local' = RequestInterrupt(thread_local, flag) /\ UNCHANGED to_handle
      /\ owed' = [u \in Threads |-> IF u = occupant THEN owed[u] \cup {flag}
                                    ELSE owed[u]]
  BY Zenon DEF Request, Guarded
<1>3. /\ thread_local' \in ThreadLocal /\ thread_local'.real = thread_local.real
      /\ SameScopes(thread_local', thread_local)
      /\ Pending(thread_local') = Pending(thread_local) \cup {flag}
      /\ Good(thread_local) => Good(thread_local')
  BY Zenon, <1>1, <1>2, RequestIsPending DEF TypeOK
<1>4. /\ {flag} \in SUBSET InterruptFlag /\ {} \in SUBSET InterruptFlag
      /\ Pending(thread_local') = (Pending(thread_local) \ {}) \cup {flag}
      /\ owed' = [u \in Threads |-> IF u = occupant THEN (owed[u] \ {}) \cup {flag}
                                    ELSE owed[u]]
      /\ to_handle' \in [Threads -> Seq(InterruptFlag)]
      /\ \A u \in Threads : to_handle'[u] # <<>> => to_handle[u] # <<>>
  BY Zenon, <1>1, <1>2, <1>3 DEF TypeOK
<1>5. UNCHANGED <<listVars, mutex_owner, stack_limit, frames, step, occupant>>
  BY Zenon, <1>2
<1>6. occupant # Null => Good(thread_local) /\ thread_local.real \in OwnLimits(occupant)
  BY Zenon, OccupantIsInside
<1> QED
  BY Zenon, <1>3, <1>4, <1>5, <1>6, GuardStep

(* CancelTerminateExecution takes a request back.                          *)
LEMMA CancelKeeps ==
  ASSUME IInv, CancelTerminateExecution
  PROVE  IInv'
<1> DEFINE flag == "TERMINATE_EXECUTION"
<1>1. flag \in InterruptFlag /\ TypeOK
  BY Zenon DEF InterruptFlag, IInv, Structure
<1>2. /\ UNCHANGED <<listVars, mutex_owner, stack_limit, frames, step, occupant>>
      /\ thread_local' = ClearInterrupt(thread_local, flag) /\ UNCHANGED to_handle
      /\ owed' = [u \in Threads |-> IF u = occupant THEN owed[u] \ {flag}
                                    ELSE owed[u]]
  BY Zenon DEF CancelTerminateExecution, Guarded, Cleared
<1> HIDE DEF flag
<1>3. /\ thread_local' \in ThreadLocal /\ thread_local'.real = thread_local.real
      /\ SameScopes(thread_local', thread_local)
      /\ Pending(thread_local') = Pending(thread_local) \ {flag}
      /\ Good(thread_local) => Good(thread_local')
  BY Zenon, <1>1, <1>2, ClearTakesBack DEF TypeOK
<1>4. /\ {flag} \in SUBSET InterruptFlag /\ {} \in SUBSET InterruptFlag
      /\ Pending(thread_local') = (Pending(thread_local) \ {flag}) \cup {}
      /\ owed' = [u \in Threads |-> IF u = occupant THEN (owed[u] \ {flag}) \cup {}
                                    ELSE owed[u]]
      /\ to_handle' \in [Threads -> Seq(InterruptFlag)]
      /\ \A u \in Threads : to_handle'[u] # <<>> => to_handle[u] # <<>>
  BY Zenon, <1>1, <1>2, <1>3 DEF TypeOK
<1>5. UNCHANGED <<listVars, mutex_owner, stack_limit, frames, step, occupant>>
  BY Zenon, <1>2
<1>6. occupant # Null => Good(thread_local) /\ thread_local.real \in OwnLimits(occupant)
  BY Zenon, OccupantIsInside
<1> QED
  BY Zenon, <1>3, <1>4, <1>5, <1>6, GuardStep

(* SetStackLimit changes the limits and nothing else.                      *)
LEMMA EmbedderSetsLimitKeeps ==
  ASSUME IInv, NEW t \in Threads, EmbedderSetsLimit(t)
  PROVE  IInv'
<1>1. /\ mutex_owner = t /\ step[t] = "none" /\ TypeOK
      /\ UNCHANGED <<listVars, mutex_owner, stack_limit, frames, step, occupant>>
      /\ thread_local' = SetStackLimit(thread_local, Chosen(t))
      /\ UNCHANGED <<to_handle, owed>>
  BY Zenon DEF EmbedderSetsLimit, Runs, Guarded, IInv, Structure
<1>2. occupant = t /\ occupant # Null
  BY Zenon, <1>1, RunnerIsOccupant
<1>3. Chosen(t) \in Limit /\ Chosen(t) \in OwnLimits(t) /\ Good(thread_local)
  BY Zenon, <1>2, LimitsDiffer, OccupantIsInside DEF OwnLimits
<1>4. /\ Good(thread_local') /\ thread_local'.real = Chosen(t)
      /\ thread_local'.scopes = thread_local.scopes
      /\ Pending(thread_local') = Pending(thread_local)
  BY Zenon, <1>1, <1>3, SetLimitIsGood
<1>5. /\ thread_local' \in ThreadLocal /\ SameScopes(thread_local', thread_local)
      /\ {} \in SUBSET InterruptFlag
      /\ Pending(thread_local') = (Pending(thread_local) \ {}) \cup {}
      /\ owed' = [u \in Threads |-> IF u = occupant THEN (owed[u] \ {}) \cup {}
                                    ELSE owed[u]]
      /\ to_handle' \in [Threads -> Seq(InterruptFlag)]
      /\ \A u \in Threads : to_handle'[u] # <<>> => to_handle[u] # <<>>
  BY Zenon, <1>1, <1>4 DEF TypeOK, Good, SameScopes
<1>6. /\ Good(thread_local') /\ thread_local'.real \in OwnLimits(occupant)
      /\ UNCHANGED <<listVars, mutex_owner, stack_limit, frames, step, occupant>>
  BY Zenon, <1>1, <1>2, <1>3, <1>4
<1> QED
  BY Zenon, <1>5, <1>6, GuardStep

(* A stack check that fails changes no thread's state.                     *)
LEMMA StackCheckKeeps ==
  ASSUME IInv, NEW t \in Threads, StackCheck(t)
  PROVE  IInv'
<1>1. /\ mutex_owner = t /\ step[t] = "none" /\ TypeOK
      /\ UNCHANGED <<listVars, mutex_owner, stack_limit, frames, step, occupant>>
      /\ to_handle' = [to_handle EXCEPT ![t] = HandleOrder]
      /\ UNCHANGED <<thread_local, owed>>
  BY Zenon DEF StackCheck, Runs, IInv, Structure
<1>2. /\ to_handle' \in [Threads -> Seq(InterruptFlag)]
      /\ \A u \in Threads : u # t => to_handle'[u] = to_handle[u]
  <2>1. HandleOrder \in Seq(InterruptFlag)
    BY DEF HandleOrder, InterruptFlag, DebugFlags
  <2> QED
    BY Zenon, <1>1, <2>1 DEF TypeOK
<1>3. /\ thread_local' \in ThreadLocal /\ SameScopes(thread_local', thread_local)
      /\ {} \in SUBSET InterruptFlag
      /\ Pending(thread_local') = (Pending(thread_local) \ {}) \cup {}
      /\ owed' = [u \in Threads |-> IF u = occupant THEN (owed[u] \ {}) \cup {}
                                    ELSE owed[u]]
  BY Zenon, <1>1 DEF TypeOK, SameScopes
<1>4. /\ Good(thread_local') /\ thread_local'.real \in OwnLimits(occupant)
      /\ occupant = t
  BY Zenon, <1>1, RunnerIsOccupant, OccupantIsInside
<1>5. /\ UNCHANGED <<listVars, mutex_owner, stack_limit, frames, step, occupant>>
      /\ \A u \in Threads : to_handle'[u] # <<>> =>
           to_handle[u] # <<>> \/ (mutex_owner = u /\ step[u] = "none")
      /\ to_handle' \in [Threads -> Seq(InterruptFlag)]
  BY Zenon, <1>1, <1>2
<1> QED
  BY Zenon, <1>3, <1>4, <1>5, GuardStep

(* A check of HandleInterrupts takes away only what it handles.            *)
LEMMA HandleNextKeeps ==
  ASSUME IInv, NEW t \in Threads, HandleNext(t)
  PROVE  IInv'
<1> DEFINE flag == Head(to_handle[t])
           rest == IF flag = "TERMINATE_EXECUTION" /\ flag \in thread_local.flags
                   THEN <<>> ELSE Tail(to_handle[t])
<1>1. /\ to_handle[t] # <<>> /\ TypeOK /\ mutex_owner = t /\ step[t] = "none"
      /\ to_handle' = [to_handle EXCEPT ![t] = rest] /\ UNCHANGED frames
  BY Zenon DEF HandleNext, IInv, Structure, OwnersAgree, OwnerAgrees
<1>2. \/ Guarded(thread_local) /\ UNCHANGED owed
      \/ /\ Guarded(ClearInterrupt(ClearInterrupt(thread_local,
                         "DEBUGBREAK"), "DEBUGCOMMAND"))
         /\ Cleared(DebugFlags)
      \/ /\ Guarded(CheckAndClearInterrupt(thread_local, flag))
         /\ Cleared({flag} \cap thread_local.flags)
  BY Zenon DEF HandleNext, HandleDebugBreak
<1> HIDE DEF rest, flag
<1>3. /\ to_handle' \in [Threads -> Seq(InterruptFlag)]
      /\ \A u \in Threads : to_handle'[u] # <<>> =>
           to_handle[u] # <<>> \/ (mutex_owner = u /\ step[u] = "none")
  <2>1. rest \in Seq(InterruptFlag)
    BY <1>1, EmptyList DEF rest, TypeOK
  <2> QED
    BY Zenon, <1>1, <2>1 DEF TypeOK
<1>4. /\ occupant = t /\ Good(thread_local) /\ thread_local \in ThreadLocal
      /\ thread_local.real \in OwnLimits(occupant) /\ {} \in SUBSET InterruptFlag
  BY Zenon, <1>1, RunnerIsOccupant, OccupantIsInside DEF TypeOK
<1>5. CASE Guarded(thread_local) /\ UNCHANGED owed
  <2>1. /\ UNCHANGED <<listVars, mutex_owner, stack_limit, frames, step, occupant>>
        /\ SameScopes(thread_local', thread_local) /\ thread_local' = thread_local
        /\ Pending(thread_local') = (Pending(thread_local) \ {}) \cup {}
        /\ owed' = [u \in Threads |-> IF u = occupant THEN (owed[u] \ {}) \cup {}
                                      ELSE owed[u]]
    BY Zenon, <1>1, <1>5 DEF Guarded, SameScopes, TypeOK
  <2> QED
    BY Zenon, <1>3, <1>4, <2>1, GuardStep
<1>6. CASE /\ Guarded(ClearInterrupt(ClearInterrupt(thread_local,
                           "DEBUGBREAK"), "DEBUGCOMMAND"))
           /\ Cleared(DebugFlags)
  <2> DEFINE first == ClearInterrupt(thread_local, "DEBUGBREAK")
  <2>1. "DEBUGBREAK" \in InterruptFlag /\ "DEBUGCOMMAND" \in InterruptFlag
    BY Zenon DEF InterruptFlag, DebugFlags
  <2>2. /\ Good(first) /\ first \in ThreadLocal /\ first.real = thread_local.real
        /\ SameScopes(first, thread_local)
        /\ Pending(first) = Pending(thread_local) \ {"DEBUGBREAK"}
    BY Zenon, <1>4, <2>1, ClearTakesBack
  <2>3. thread_local' = ClearInterrupt(first, "DEBUGCOMMAND")
    BY Zenon, <1>6 DEF Guarded
  <2> HIDE DEF first
  <2>4. /\ Good(thread_local') /\ thread_local' \in ThreadLocal
        /\ thread_local'.real = first.real /\ SameScopes(thread_local', first)
        /\ Pending(thread_local') = Pending(first) \ {"DEBUGCOMMAND"}
    BY Zenon, <2>1, <2>2, <2>3, ClearTakesBack
  <2>5. SameScopes(thread_local', thread_local)
    BY Zenon, <2>2, <2>4 DEF SameScopes
  <2>6. Pending(thread_local') = (Pending(thread_local) \ DebugFlags) \cup {}
    BY Zenon, <2>2, <2>4 DEF DebugFlags
  <2>7. /\ UNCHANGED <<listVars, mutex_owner, stack_limit, frames, step, occupant>>
        /\ owed' = [u \in Threads |-> IF u = occupant
                                      THEN (owed[u] \ DebugFlags) \cup {} ELSE owed[u]]
    BY Zenon, <1>1, <1>6 DEF Guarded, Cleared
  <2> QED
    BY Zenon, <1>3, <1>4, <2>2, <2>4, <2>5, <2>6, <2>7, GuardStep
<1>7. CASE /\ Guarded(CheckAndClearInterrupt(thread_local, flag))
           /\ Cleared({flag} \cap thread_local.flags)
  <2> DEFINE gone == {flag} \cap thread_local.flags
  <2>1. /\ Good(thread_local') /\ thread_local'.real = thread_local.real
        /\ SameScopes(thread_local', thread_local)
        /\ Pending(thread_local') = Pending(thread_local) \ gone
    BY Zenon, <1>4, <1>7, CheckAndClearTakesActive DEF Guarded
  <2>2. owed' = [u \in Threads |-> IF u = occupant THEN owed[u] \ gone ELSE owed[u]]
    BY Zenon, <1>7 DEF Cleared
  <2> HIDE DEF gone
  <2>3. /\ UNCHANGED <<listVars, mutex_owner, stack_limit, frames, step, occupant>>
        /\ thread_local' \in ThreadLocal
        /\ Pending(thread_local') = (Pending(thread_local) \ gone) \cup {}
        /\ owed' = [u \in Threads |-> IF u = occupant THEN (owed[u] \ gone) \cup {}
                                      ELSE owed[u]]
    BY Zenon, <1>1, <1>7, <2>1, <2>2 DEF Guarded, Good
  <2> QED
    BY Zenon, <1>3, <1>4, <2>1, <2>3, GuardStep
<1> QED
  BY Zenon, <1>2, <1>5, <1>6, <1>7

(* The states of the others stay where they are.                           *)
LEMMA OthersBelong ==
  ASSUME IInv, NEW u \in Inside', step[u] # "new",
         frames'[u] = frames[u], owed'[u] = owed[u], StateOf(u)' = StateOf(u)
  PROVE  Belongs(StateOf(u)', u, frames'[u], owed'[u])
BY Zenon DEF IInv, StatesBelong, Inside

(* The state in place, or the stack of the thread to which it belongs,     *)
(* changes.                                                                *)
LEMMA OccupantStep ==
  ASSUME IInv, NEW t \in Threads, occupant = t, occupant' = t, owed' = owed,
         Structure', StatesAreCounted',
         \A u \in Threads : u # t =>
           /\ frames'[u] = frames[u] /\ thread_state'[u] = thread_state[u]
           /\ step'[u] = step[u]
           /\ thread_state[u] # Null => data'[thread_state[u]] = data[thread_state[u]],
         Belongs(thread_local', t, frames'[t], owed[t])
  PROVE  IInv'
<1>1. ASSUME NEW u \in Inside'
      PROVE  Belongs(StateOf(u)', u, frames'[u], owed'[u])
  <2>1. u \in Threads
    BY Zenon, <1>1 DEF Inside
  <2>2. CASE u = t
    BY Zenon, <2>2 DEF StateOf
  <2>3. CASE u # t
    <3>1. frames[u] # <<>> /\ step[u] # "new"
      BY Zenon, <1>1, <2>1, <2>3 DEF Inside
    <3>2. thread_state[u] # Null
      BY Zenon, <2>1, <2>3, <3>1 DEF IInv, Structure, OwnersAgree, OwnerAgrees, Present
    <3>3. StateOf(u)' = StateOf(u)
      BY Zenon, <2>1, <2>3, <3>2 DEF StateOf
    <3> QED
      BY Zenon, <1>1, <2>1, <2>3, <3>1, <3>3, OthersBelong
  <2> QED
    BY Zenon, <2>2, <2>3
<1> QED
  BY Zenon, <1>1 DEF IInv, StatesBelong

(* A scope that is opened goes onto the stack and into the state alike.    *)
LEMMA OpenScopeKeeps ==
  ASSUME IInv, NEW t \in Threads, NEW m \in Masks, OpenScope(t, m)
  PROVE  IInv'
<1>1. /\ mutex_owner = t /\ step[t] = "none" /\ Push(t, Scope(m))
      /\ thread_local' = PushPostponeInterruptsScope(thread_local, m)
      /\ UNCHANGED <<listVars, mutex_owner, stack_limit, step, occupant>>
      /\ UNCHANGED <<to_handle, owed>>
  BY Zenon DEF OpenScope, Runs, Guarded
<1>2. /\ m \in SUBSET InterruptFlag /\ Scope(m) \in Frame /\ ~ IsFirst(Scope(m))
  BY Zenon, ThreadsAssumption, FramesAreTyped DEF IsFirst
<1>3. TypeOK /\ StacksAreShaped /\ frames[t] # <<>> /\ frames[t] \in Seq(Frame)
  BY Zenon, <1>1 DEF IInv, Structure, OwnersAgree, OwnerAgrees, TypeOK
<1>4. /\ frames' \in [Threads -> Seq(Frame)] /\ frames'[t] # <<>>
      /\ \A u \in Threads : u # t => frames'[u] = frames[u]
      /\ \A u \in Threads : FirstIsFirst(frames'[u])
      /\ Len(frames'[t]) = Len(frames[t]) + 1
      /\ \A i \in 1 .. Len(frames[t]) : frames'[t][i] = frames[t][i]
      /\ frames'[t][Len(frames'[t])] = Scope(m)
  BY SMTT(60), <1>1, <1>2, <1>3, PushedFrames, PushedShape
<1>5. Belongs(thread_local', t, frames'[t], owed[t])
  <2>1. Belongs(thread_local, t, frames[t], owed[t])
    BY Zenon, <1>1, RunnerIsOccupant, OccupantIsInside
  <2> QED
    BY Zenon, <1>1, <1>2, <1>3, <1>4, <2>1, BelongsOpened
<1>6. thread_local' \in ThreadLocal
  BY Zenon, <1>5 DEF Belongs, Good
<1>7. Structure' /\ StatesAreCounted'
  <2>1. UNCHANGED <<lazily_archived_thread, lazily_archived_thread_state, free_list,
                    in_use_list, data, thread_state, mutex_owner, stack_limit, step,
                    occupant, to_handle, owed>>
    BY Zenon, <1>1 DEF listVars
  <2>2. TypeOK'
    BY Zenon, <1>3, <1>4, <1>6, <2>1 DEF TypeOK
  <2>3. StacksAreShaped'
    BY SMTT(60), <1>1, <1>3, <1>4, <2>1 DEF StacksAreShaped, FirstIsFirst, HasTop, Top
  <2>4. OwnersAgree'
    BY SMTT(60), <1>3, <1>4, <2>1 DEF IInv, Structure, OwnersAgree, OwnerAgrees, Present
  <2>5. StatesAreDisjoint' /\ StatesAreCounted'
    BY Zenon, <2>1 DEF IInv, Structure, StatesAreDisjoint, StatesAreCounted
  <2> QED
    BY Zenon, <2>2, <2>3, <2>4, <2>5 DEF Structure
<1>8. UNCHANGED <<data, thread_state, step, occupant, owed>>
  BY Zenon, <1>1 DEF listVars
<1> QED
  BY Zenon, <1>1, <1>4, <1>5, <1>7, <1>8, RunnerIsOccupant, OccupantStep

(* A scope that is closed gives back what it held; it is never the first  *)
(* object on a stack.                                                      *)
LEMMA CloseScopeKeeps ==
  ASSUME IInv, NEW t \in Threads, CloseScope(t)
  PROVE  IInv'
<1>1. /\ mutex_owner = t /\ step[t] = "none" /\ HasTop(t, "Scope") /\ Pop(t)
      /\ thread_local' = PopPostponeInterruptsScope(thread_local)
      /\ UNCHANGED <<listVars, mutex_owner, stack_limit, step, occupant>>
      /\ UNCHANGED <<to_handle, owed>>
  BY Zenon DEF CloseScope, Runs, Guarded
<1>2. /\ TypeOK /\ StacksAreShaped /\ frames[t] # <<>> /\ frames[t] \in Seq(Frame)
      /\ frames[t][Len(frames[t])].kind = "Scope"
  BY Zenon, <1>1 DEF IInv, Structure, TypeOK, HasTop, Top
<1>3. Len(frames[t]) \in Nat \ {0, 1}
  <2>1. Len(frames[t]) \in Nat \ {0} /\ 1 \in DOMAIN frames[t]
    BY <1>2, StacksAreSequences
  <2>2. frames[t][1].kind = "Locker"
    BY Zenon, <1>2, <2>1 DEF StacksAreShaped, IsFirst
  <2> QED
    BY Zenon, <1>2, <2>1, <2>2
<1>4. /\ frames' \in [Threads -> Seq(Frame)]
      /\ \A u \in Threads : u # t => frames'[u] = frames[u]
      /\ \A u \in Threads : FirstIsFirst(frames'[u])
      /\ Len(frames'[t]) = Len(frames[t]) - 1
      /\ \A i \in 1 .. Len(frames[t]) - 1 : frames'[t][i] = frames[t][i]
  BY Zenon, <1>1, <1>2, PoppedFrames, PoppedShape
<1>5. /\ Len(frames'[t]) + 1 = Len(frames[t]) /\ frames'[t] # <<>>
      /\ \A i \in 1 .. Len(frames'[t]) : frames'[t][i] = frames[t][i]
      /\ frames'[t] \in Seq(Frame)
  <2> DEFINE n == Len(frames[t])
             m == Len(frames'[t])
  <2>1. n \in Nat \ {0, 1} /\ m = n - 1
    BY Zenon, <1>3, <1>4
  <2>2. frames'[t] \in Seq(Frame)
    BY Zenon, <1>4
  <2>3. \A i \in 1 .. n - 1 : frames'[t][i] = frames[t][i]
    BY Zenon, <1>4
  <2>4. \A i \in 1 .. m : frames'[t][i] = frames[t][i]
    BY Zenon, <2>1, <2>3
  <2>5. frames'[t] # <<>>
    <3>1. m # 0
      <4> HIDE DEF n, m
      <4> QED
        BY <2>1
    <3> QED
      BY Zenon, <2>2, <3>1, EmptyList
  <2>6. m + 1 = n
    <3> HIDE DEF n, m
    <3> QED
      BY <2>1
  <2> QED
    BY Zenon, <2>2, <2>4, <2>5, <2>6
<1>6. Belongs(thread_local', t, frames'[t], owed[t])
  <2>1. Belongs(thread_local, t, frames[t], owed[t])
    BY Zenon, <1>1, RunnerIsOccupant, OccupantIsInside
  <2> QED
    BY Zenon, <1>1, <1>2, <1>5, <2>1, BelongsClosed
<1>7. thread_local' \in ThreadLocal
  BY Zenon, <1>6 DEF Belongs, Good
<1>8. Structure' /\ StatesAreCounted'
  <2>1. UNCHANGED <<lazily_archived_thread, lazily_archived_thread_state, free_list,
                    in_use_list, data, thread_state, mutex_owner, stack_limit, step,
                    occupant, to_handle, owed>>
    BY Zenon, <1>1 DEF listVars
  <2>2. TypeOK'
    BY Zenon, <1>2, <1>4, <1>7, <2>1 DEF TypeOK
  <2>3. StacksAreShaped'
    BY SMTT(60), <1>1, <1>2, <1>4, <2>1 DEF StacksAreShaped, FirstIsFirst, HasTop, Top
  <2>4. OwnersAgree'
    BY SMTT(60), <1>2, <1>4, <1>5, <2>1 DEF IInv, Structure, OwnersAgree, OwnerAgrees, Present
  <2>5. StatesAreDisjoint' /\ StatesAreCounted'
    BY Zenon, <2>1 DEF IInv, Structure, StatesAreDisjoint, StatesAreCounted
  <2> QED
    BY Zenon, <2>2, <2>3, <2>4, <2>5 DEF Structure
<1>9. UNCHANGED <<data, thread_state, step, occupant, owed>>
  BY Zenon, <1>1 DEF listVars
<1> QED
  BY Zenon, <1>1, <1>4, <1>6, <1>8, <1>9, RunnerIsOccupant, OccupantStep

(* A locker inside a locker touches no state.                              *)
LEMMA NestedLockerKeeps ==
  ASSUME IInv, NEW t \in Threads, NestedLocker(t)
  PROVE  IInv'
<1>1. /\ mutex_owner = t /\ step[t] = "none" /\ Push(t, Locker(FALSE, TRUE))
      /\ UNCHANGED <<data, thread_state, thread_local, step, occupant, owed>>
  BY Zenon DEF NestedLocker, Runs, listVars
<1>2. Structure' /\ StatesAreCounted'
  BY Zenon, NestedLockerStructure DEF IInv
<1>3. /\ TypeOK /\ frames[t] \in Seq(Frame)
      /\ Locker(FALSE, TRUE) \in Frame /\ Locker(FALSE, TRUE).kind = "Locker"
  BY Zenon, FramesAreTyped DEF IInv, Structure, TypeOK
<1>4. /\ frames'[t] \in Seq(Frame)
      /\ \A u \in Threads : u # t => frames'[u] = frames[u]
      /\ Len(frames'[t]) = Len(frames[t]) + 1
      /\ \A i \in 1 .. Len(frames[t]) : frames'[t][i] = frames[t][i]
      /\ frames'[t][Len(frames'[t])].kind # "Scope"
  BY ZenonT(60), <1>1, <1>3, PushedFrames
<1>5. Belongs(thread_local, t, frames[t], owed[t])
  BY Zenon, <1>1, RunnerIsOccupant, OccupantIsInside
<1>6. Belongs(thread_local, t, frames'[t], owed[t])
  BY Zenon, <1>3, <1>4, <1>5, BelongsPushed
<1> QED
  BY Zenon, <1>1, <1>2, <1>4, <1>6, RunnerIsOccupant, OccupantStep

(* Taking the mutex changes nobody's state: the one in place stays there.  *)
LEMMA LockKeeps ==
  ASSUME IInv, NEW t \in Threads, NEW from \in {"locker", "unlocker"}, Lock(t, from)
  PROVE  IInv'
<1>1. Structure' /\ StatesAreCounted'
  BY Zenon, LockStructure DEF IInv
<1>2. /\ step[t] = "none" /\ step' = [step EXCEPT ![t] = from]
      /\ UNCHANGED <<data, thread_state, thread_local, frames, occupant, owed>>
  BY Zenon DEF Lock, Outside, listVars
<1>3. \A u \in Inside' : u \in Inside
  BY Zenon, <1>2 DEF Inside, IInv, Structure, TypeOK
<1>4. \A u : StateOf(u)' = StateOf(u)
  BY Zenon, <1>2 DEF StateOf
<1>5. \A u \in Inside' : Belongs(StateOf(u)', u, frames'[u], owed'[u])
  BY Zenon, <1>2, <1>3, <1>4 DEF IInv, StatesBelong
<1> QED
  BY Zenon, <1>1, <1>5 DEF IInv, StatesBelong

(* A thread that leaves through an unlocker leaves its state in place.     *)
LEMMA OpenUnlockerKeeps ==
  ASSUME IInv, NEW t \in Threads, OpenUnlocker(t)
  PROVE  IInv'
<1>1. /\ mutex_owner = t /\ step[t] = "none" /\ Push(t, Unlocker) /\ ArchiveThread(t)
      /\ UNCHANGED <<thread_local, step, occupant, owed>>
  BY Zenon DEF OpenUnlocker, Runs
<1>2. Structure' /\ StatesAreCounted'
  BY Zenon, OpenUnlockerStructure DEF IInv
<1>3. /\ TypeOK /\ frames[t] \in Seq(Frame)
      /\ Unlocker \in Frame /\ Unlocker.kind = "Unlocker"
  BY Zenon, FramesAreTyped DEF IInv, Structure, TypeOK
<1>4. /\ frames'[t] \in Seq(Frame)
      /\ \A u \in Threads : u # t => frames'[u] = frames[u]
      /\ Len(frames'[t]) = Len(frames[t]) + 1
      /\ \A i \in 1 .. Len(frames[t]) : frames'[t][i] = frames[t][i]
      /\ frames'[t][Len(frames'[t])].kind # "Scope"
  BY SMTT(60), <1>1, <1>3, PushedFrames
<1>5. Belongs(thread_local, t, frames[t], owed[t])
  BY Zenon, <1>1, RunnerIsOccupant, OccupantIsInside
<1>6. Belongs(thread_local, t, frames'[t], owed[t])
  BY Zenon, <1>3, <1>4, <1>5, BelongsPushed
<1>7. \A u \in Threads : u # t =>
        /\ thread_state'[u] = thread_state[u]
        /\ thread_state[u] # Null => data'[thread_state[u]] = data[thread_state[u]]
  BY <1>1, ArchivedLists, UsedIsCounted DEF IInv
<1> QED
  BY SMTT(60), <1>1, <1>2, <1>4, <1>6, <1>7, RunnerIsOccupant, OccupantStep

(* The outermost locker is closed: the thread's state is given up.  Else   *)
(* its state stays, in place.                                              *)
LEMMA CloseLockerKeeps ==
  ASSUME IInv, NEW t \in Threads, CloseLocker(t)
  PROVE  IInv'
<1>1. /\ mutex_owner = t /\ step[t] = "none" /\ HasTop(t, "Locker") /\ Pop(t)
      /\ UNCHANGED <<thread_local, step>>
  BY Zenon DEF CloseLocker, Runs
<1>2. /\ occupant = t /\ occupant # Null /\ thread_local.real \in OwnLimits(t)
      /\ Belongs(thread_local, t, frames[t], owed[t])
  BY Zenon, <1>1, RunnerIsOccupant, OccupantIsInside
<1>3. Structure /\ StatesAreCounted /\ TypeOK /\ Structure' /\ StatesAreCounted'
  BY Zenon, <1>2, CloseLockerStructure DEF IInv, Structure
<1>4. /\ Len(frames[t]) \in Nat \ {0} /\ frames[t] # <<>> /\ frames[t] \in Seq(Frame)
      /\ Top(t).has_lock /\ Top(t).top_level => Len(frames[t]) = 1
      /\ frames[t][Len(frames[t])].kind = "Locker"
  <2>1. /\ Len(frames[t]) \in Nat \ {0} /\ frames[t] # <<>>
        /\ Top(t).has_lock /\ Top(t).top_level => Len(frames[t]) = 1
    BY Zenon, <1>1, <1>3, LastLocker, Zenon
  <2> QED
    BY Zenon, <1>1, <1>3, <2>1, StacksAreSequences DEF HasTop, Top
<1>5. /\ frames' \in [Threads -> Seq(Frame)]
      /\ \A u \in Threads : u # t => frames'[u] = frames[u]
      /\ Len(frames'[t]) = Len(frames[t]) - 1
      /\ \A i \in 1 .. Len(frames[t]) - 1 : frames'[t][i] = frames[t][i]
  BY Zenon, <1>1, <1>3, <1>4, PoppedFrames
<1>6. /\ frames'[t] \in Seq(Frame) /\ Len(frames'[t]) + 1 = Len(frames[t])
      /\ \A i \in 1 .. Len(frames'[t]) : frames'[t][i] = frames[t][i]
  <2> DEFINE n == Len(frames[t])
             m == Len(frames'[t])
  <2>1. n \in Nat /\ m = n - 1 /\ frames'[t] \in Seq(Frame)
    BY Zenon, <1>4, <1>5
  <2>2. m + 1 = n
    <3> HIDE DEF n, m
    <3> QED
      BY <2>1
  <2> QED
    BY Zenon, <1>5, <2>1, <2>2
<1>7. Belongs(thread_local', t, frames'[t], owed[t])
  <2>1. Belongs(thread_local, t, frames'[t], owed[t])
    BY Zenon, <1>2, <1>4, <1>6, BelongsPopped
  <2> QED
    BY Zenon, <1>1, <2>1
<1>8. CASE Top(t).has_lock /\ ~ Top(t).top_level
  <2>1. ArchiveThread(t) /\ UNCHANGED <<occupant, owed>>
    BY Zenon, <1>8 DEF CloseLocker
  <2>2. \A u \in Threads : u # t =>
          /\ thread_state'[u] = thread_state[u]
          /\ thread_state[u] # Null => data'[thread_state[u]] = data[thread_state[u]]
    BY SMTT(60), <1>1, <1>3, <2>1, ArchivedLists, UsedIsCounted
  <2> QED
    BY Zenon, <1>1, <1>2, <1>3, <1>5, <1>7, <2>1, <2>2, OccupantStep
<1>9. CASE ~ Top(t).has_lock
  <2>1. UNCHANGED <<occupant, owed, thread_state, data>>
    BY Zenon, <1>9 DEF CloseLocker, listVars
  <2> QED
    BY Zenon, <1>1, <1>2, <1>3, <1>5, <1>7, <2>1, OccupantStep
<1>10. CASE Top(t).has_lock /\ Top(t).top_level
  <2>1. /\ occupant' = Null /\ owed' = [owed EXCEPT ![t] = {}]
        /\ UNCHANGED <<thread_state, data>>
    BY Zenon, <1>10 DEF CloseLocker, FreeThreadResources, listVars
  <2>2. frames'[t] = <<>>
    <3>1. Len(frames'[t]) = 0
      BY <1>4, <1>5, <1>10
    <3> QED
      BY Zenon, <1>6, <3>1, EmptyList
  <2>3. ASSUME NEW u \in Inside'
        PROVE  Belongs(StateOf(u)', u, frames'[u], owed'[u])
    <3>1. u \in Threads /\ u # t /\ u # Null
      BY Zenon, <2>2, <2>3, ThreadsAssumption DEF Inside
    <3>2. frames'[u] = frames[u] /\ step[u] # "new"
      BY Zenon, <1>1, <1>5, <2>3, <3>1 DEF Inside
    <3>3. StateOf(u)' = StateOf(u) /\ owed'[u] = owed[u]
      BY Zenon, <1>2, <1>3, <2>1, <3>1 DEF StateOf, TypeOK
    <3> QED
      BY Zenon, <2>3, <3>1, <3>2, <3>3, OthersBelong
  <2> QED
    BY Zenon, <1>3, <2>3 DEF IInv, StatesBelong
<1>11. Top(t).has_lock \in BOOLEAN /\ Top(t).top_level \in BOOLEAN
  BY Zenon, <1>1, <1>3, LastLocker DEF Frame
<1> QED
  BY Zenon, <1>8, <1>9, <1>10, <1>11

(* A new thread starts with an empty state and nothing requested of it.    *)
LEMMA InitNewThreadKeeps ==
  ASSUME IInv, NEW t \in Threads, InitNewThread(t)
  PROVE  IInv'
<1> DEFINE new == InitThread(ClearedThreadLocal, Suggested(t), stack_limit[t])
<1>1. /\ step[t] = "new" /\ thread_local' = new
      /\ step' = [step EXCEPT ![t] = "none"]
      /\ occupant' = t /\ owed' = [owed EXCEPT ![t] = {}]
      /\ UNCHANGED <<data, thread_state, frames>>
  BY Zenon DEF InitNewThread, listVars
<1>2. Structure /\ TypeOK /\ Structure' /\ StatesAreCounted'
  BY Zenon, InitNewThreadStructure DEF IInv, Structure
<1>3. /\ mutex_owner = t /\ lazily_archived_thread = Null
      /\ stack_limit[t] \in OwnLimits(t) \cup {NoLimit}
  BY Zenon, <1>1, <1>2 DEF Structure, OwnersAgree, OwnerAgrees, Present
<1>4. Good(new) /\ new.real \in OwnLimits(t) /\ new.scopes = <<>> /\ Pending(new) = {}
  BY Zenon, <1>3, InitIsGood
<1> HIDE DEF new
<1>5. Belongs(new, t, frames[t], {})
  <2>1. /\ frames[t] \in Seq(Frame) /\ Len(frames[t]) = 1 /\ DOMAIN frames[t] = {1}
        /\ frames[t][1].kind = "Locker"
    BY <1>1, <1>2, StacksAreSequences DEF Structure, StacksAreShaped, IsFirst
  <2>2. ScopesUpTo(frames[t], 1) = 0
    <3>1. 1 \in 1 .. Len(frames[t]) /\ 1 - 1 = 0
      BY <2>1
    <3>2. ScopesUpTo(frames[t], 1) = ScopesUpTo(frames[t], 1 - 1)
                       + (IF frames[t][1].kind = "Scope" THEN 1 ELSE 0)
      BY Zenon, <2>1, <3>1, ScopesAreCounted, Zenon
    <3>3. ScopesUpTo(frames[t], 1 - 1) = 0
      BY Zenon, <2>1, <3>1, ScopesAreCounted
    <3> QED
      BY <2>1, <3>2, <3>3
  <2> QED
    BY Zenon, <1>4, <2>1, <2>2 DEF Belongs
<1>6. ASSUME NEW u \in Inside'
      PROVE  Belongs(StateOf(u)', u, frames'[u], owed'[u])
  <2>1. u \in Threads /\ u # Null
    BY Zenon, <1>6, ThreadsAssumption DEF Inside
  <2>2. CASE u = t
    BY Zenon, <1>1, <1>2, <1>5, <2>2 DEF StateOf, TypeOK
  <2>3. CASE u # t
    <3>1. step[u] # "new" /\ owed'[u] = owed[u] /\ frames'[u] = frames[u]
      BY Zenon, <1>1, <1>2, <1>6, <2>1, <2>3 DEF Inside, TypeOK
    <3>2. occupant # u
      BY Zenon, <1>2, <1>3, <2>1, <2>3 DEF Structure, OwnersAgree, OwnerAgrees
    <3>3. StateOf(u)' = StateOf(u)
      BY Zenon, <1>1, <2>3, <3>2 DEF StateOf
    <3> QED
      BY Zenon, <1>6, <2>3, <3>1, <3>3, OthersBelong
  <2> QED
    BY Zenon, <2>2, <2>3
<1> QED
  BY Zenon, <1>2, <1>6 DEF IInv, StatesBelong

(* A thread that is known and comes back opens a locker or closes an       *)
(* unlocker, which are no scopes.                                          *)
LEMMA RestoredBelongs ==
  ASSUME Structure, NEW t \in Threads, step[t] \in {"locker", "unlocker"},
         Restored(t, TRUE), frames[t] # <<>>, NEW tl,
         Belongs(tl, t, frames[t], owed[t])
  PROVE  Belongs(tl, t, frames'[t], owed[t])
<1>1. TypeOK /\ frames[t] \in Seq(Frame)
  BY Zenon DEF Structure, TypeOK
<1>2. CASE step[t] = "unlocker"
  <2>1. Pop(t) /\ frames[t][Len(frames[t])].kind = "Unlocker"
    BY Zenon, <1>2 DEF Restored, Structure, StacksAreShaped, HasTop, Top
  <2>2. /\ frames'[t] \in Seq(Frame) /\ Len(frames'[t]) = Len(frames[t]) - 1
        /\ \A i \in 1 .. Len(frames[t]) - 1 : frames'[t][i] = frames[t][i]
    BY Zenon, <1>1, <2>1, PoppedFrames
  <2>3. Len(frames'[t]) + 1 = Len(frames[t])
    <3> DEFINE n == Len(frames[t])
               m == Len(frames'[t])
    <3>1. n \in Nat /\ m = n - 1
      BY <1>1, <2>2
    <3> HIDE DEF n, m
    <3>2. m + 1 = n
      BY <3>1
    <3> QED
      BY Zenon, <3>2 DEF n, m
  <2>4. \A i \in 1 .. Len(frames'[t]) : frames'[t][i] = frames[t][i]
    BY Zenon, <2>2
  <2> QED
    BY Zenon, <1>1, <2>1, <2>2, <2>3, <2>4, BelongsPopped
<1>3. CASE step[t] = "locker"
  <2>1. /\ Push(t, Locker(TRUE, FALSE)) /\ Locker(TRUE, FALSE) \in Frame
        /\ Locker(TRUE, FALSE).kind = "Locker"
    BY Zenon, <1>3, FramesAreTyped DEF Restored
  <2>2. /\ frames'[t] \in Seq(Frame) /\ Len(frames'[t]) = Len(frames[t]) + 1
        /\ \A i \in 1 .. Len(frames[t]) : frames'[t][i] = frames[t][i]
        /\ frames'[t][Len(frames'[t])].kind # "Scope"
    BY ZenonT(60), <1>1, <2>1, PushedFrames
  <2> QED
    BY Zenon, <1>1, <2>2, BelongsPushed
<1> QED
  BY Zenon, <1>2, <1>3

(* A thread that comes back first finds its state still in place.          *)
LEMMA RestoreLazilyKeeps ==
  ASSUME IInv, NEW t \in Threads, RestoreLazily(t)
  PROVE  IInv'
<1>1. /\ step[t] \in {"locker", "unlocker"} /\ lazily_archived_thread = t
      /\ Restored(t, TRUE) /\ Structure /\ TypeOK /\ owed' = owed
      /\ thread_state' = [thread_state EXCEPT ![t] = Null]
      /\ UNCHANGED <<data, thread_local, occupant>>
  BY Zenon DEF RestoreLazily, Restored, IInv, Structure
<1>2. Structure' /\ StatesAreCounted'
  BY Zenon, RestoreLazilyStructure DEF IInv
<1>3. occupant = t /\ occupant # Null /\ thread_state[t] # Null
  BY Zenon, <1>1, ThreadsAssumption DEF Structure, OwnersAgree, OwnerAgrees
<1>4. /\ frames[t] # <<>>
      /\ \A u \in Threads : u # t => frames'[u] = frames[u] /\ step'[u] = step[u]
      /\ \A u \in Threads : u # t => thread_state'[u] = thread_state[u]
  BY Zenon, <1>1, <1>3, RestoredStack DEF TypeOK
<1>5. Belongs(thread_local, t, frames[t], owed[t])
  BY Zenon, <1>3, OccupantIsInside
<1>6. Belongs(thread_local', t, frames'[t], owed[t])
  BY Zenon, <1>1, <1>4, <1>5, RestoredBelongs
<1> QED
  BY Zenon, <1>1, <1>2, <1>3, <1>4, <1>6, OccupantStep

(* With the state in place archived, every ThreadState has the state of    *)
(* its thread.                                                             *)
LEMMA ArchivedIsStateOf ==
  ASSUME Structure, StatesAreCounted, NEW t \in Threads,
         step[t] \in {"locker", "unlocker"}, NEW archived,
         \A i \in DOMAIN data : archived[i] =
            IF i = lazily_archived_thread_state THEN thread_local ELSE data[i],
         NEW u \in Threads, thread_state[u] # Null
  PROVE  archived[thread_state[u]] = StateOf(u)
<1>1. thread_state[u] \in DOMAIN data
  BY Zenon, UsedIsCounted
<1>2. mutex_owner = t
  BY Zenon DEF Structure, OwnersAgree, OwnerAgrees
<1>3. occupant = u <=> lazily_archived_thread = u
  BY Zenon, <1>2 DEF Structure, OwnersAgree, OwnerAgrees
<1>4. CASE lazily_archived_thread = u
  <2>1. thread_state[u] = lazily_archived_thread_state
    BY Zenon, <1>4 DEF Structure, OwnersAgree, OwnerAgrees
  <2> QED
    BY Zenon, <1>1, <1>3, <1>4, <2>1 DEF StateOf
<1>5. CASE lazily_archived_thread # u
  <2>1. thread_state[u] # lazily_archived_thread_state
    BY Zenon, <1>5 DEF Structure, StatesAreDisjoint
  <2> QED
    BY Zenon, <1>1, <1>3, <1>5, <2>1 DEF StateOf
<1> QED
  BY Zenon, <1>4, <1>5

(* A thread that comes back later, or is new, takes the place of another   *)
(* one, whose state is archived first.                                     *)
LEMMA RestoreThreadKeeps ==
  ASSUME IInv, NEW t \in Threads, RestoreThread(t)
  PROVE  IInv'
<1>1. Structure /\ StatesAreCounted /\ TypeOK /\ Structure' /\ StatesAreCounted'
  BY Zenon, RestoreThreadStructure DEF IInv, Structure
<1>2. PICK blank \in ThreadLocal, archived \in Seq(ThreadLocal) :
        /\ Len(archived) = Len(data)
        /\ RestoreFrom(t, blank, archived, Used)
        /\ \A i \in DOMAIN data : archived[i] =
             IF i = lazily_archived_thread_state THEN thread_local ELSE data[i]
  BY Zenon, <1>1, RestoreThreadIsFrom
<1>3. /\ step[t] \in {"locker", "unlocker"}
      /\ Restored(t, thread_state[t] # Null) /\ owed' = owed
  BY Zenon, <1>2 DEF RestoreFrom, Restored
<1>4. \A u \in Threads : thread_state[u] # Null => archived[thread_state[u]] = StateOf(u)
  BY Zenon, <1>1, <1>2, <1>3, ArchivedIsStateOf
<1>5. /\ mutex_owner = t /\ (frames[t] # <<>> <=> thread_state[t] # Null)
      /\ \A u \in Threads : u # t => frames'[u] = frames[u] /\ step'[u] = step[u]
      /\ thread_state[t] = Null => step'[t] = "new"
  BY Zenon, <1>1, <1>3, RestoredStack
<1>6. ASSUME NEW u \in Inside', u # t
      PROVE  /\ u \in Threads /\ u # Null /\ step[u] # "new" /\ thread_state[u] # Null
             /\ frames'[u] = frames[u]
  <2>1. /\ u \in Threads /\ u # Null /\ step[u] # "new" /\ frames[u] # <<>>
        /\ frames'[u] = frames[u]
    BY Zenon, <1>5, <1>6, ThreadsAssumption DEF Inside
  <2>2. OwnerAgrees(u) /\ ~ Present(u)
    BY Zenon, <1>1, <1>5, <1>6, <2>1 DEF Structure, OwnersAgree, Present
  <2> QED
    BY Zenon, <2>1, <2>2 DEF OwnerAgrees
<1>7. CASE thread_state[t] = Null
  <2>1. occupant' = Null /\ data' = archived /\ thread_state' = thread_state
    BY Zenon, <1>2, <1>7 DEF RestoreFrom
  <2>2. ASSUME NEW u \in Inside'
        PROVE  Belongs(StateOf(u)', u, frames'[u], owed'[u])
    <3>1. u # t
      BY Zenon, <1>5, <1>7, <2>2 DEF Inside
    <3>2. StateOf(u)' = StateOf(u)
      BY Zenon, <1>4, <1>6, <2>1, <2>2, <3>1 DEF StateOf
    <3> QED
      BY Zenon, <1>3, <1>6, <2>2, <3>1, <3>2, OthersBelong
  <2> QED
    BY Zenon, <1>1, <2>2 DEF IInv, StatesBelong
<1>8. CASE thread_state[t] # Null
  <2>1. /\ occupant' = t /\ thread_local' = archived[thread_state[t]]
        /\ data' = [archived EXCEPT ![thread_state[t]] = ClearedThreadLocal]
        /\ thread_state' = [thread_state EXCEPT ![t] = Null] /\ Restored(t, TRUE)
    BY Zenon, <1>2, <1>8 DEF RestoreFrom
  <2>2. Belongs(thread_local', t, frames[t], owed[t])
    <3>1. t \in Inside /\ thread_local' = StateOf(t)
      BY Zenon, <1>3, <1>4, <1>5, <1>8, <2>1 DEF Inside
    <3> QED
      BY Zenon, <3>1 DEF IInv, StatesBelong
  <2>3. Belongs(thread_local', t, frames'[t], owed'[t])
    <3>1. Belongs(thread_local', t, frames'[t], owed[t])
      BY Zenon, <1>1, <1>3, <1>5, <1>8, <2>1, <2>2, RestoredBelongs
    <3> QED
      BY Zenon, <1>3, <3>1
  <2>4. ASSUME NEW u \in Inside', u # t
        PROVE  StateOf(u)' = StateOf(u)
    <3>1. u \in Threads /\ thread_state[u] # Null
      BY Zenon, <1>6, <2>4
    <3>2. thread_state[u] # thread_state[t] /\ thread_state[u] \in DOMAIN archived
      <4>1. thread_state[u] \in DOMAIN data /\ DOMAIN data = DOMAIN archived
        BY SMTT(60), <1>1, <1>2, <3>1, UsedIsCounted DEF TypeOK
      <4> QED
        BY Zenon, <1>1, <2>4, <3>1, <4>1 DEF Structure, StatesAreDisjoint
    <3>3. /\ thread_state'[u] = thread_state[u]
          /\ data'[thread_state[u]] = archived[thread_state[u]]
      BY Zenon, <1>1, <2>1, <2>4, <3>1, <3>2 DEF TypeOK
    <3> QED
      BY Zenon, <1>4, <2>1, <2>4, <3>1, <3>3 DEF StateOf
  <2>5. ASSUME NEW u \in Inside'
        PROVE  Belongs(StateOf(u)', u, frames'[u], owed'[u])
    <3>1. CASE u = t
      BY Zenon, <2>1, <2>3, <3>1 DEF StateOf
    <3>2. CASE u # t
      BY Zenon, <1>3, <1>6, <2>4, <2>5, <3>2, OthersBelong
    <3> QED
      BY Zenon, <3>1, <3>2
  <2> QED
    BY Zenon, <1>1, <2>5 DEF IInv, StatesBelong
<1> QED
  BY Zenon, <1>7, <1>8
-----------------------------------------------------------------------------
(* The invariant holds at first and in every step.                         *)
LEMMA InitHolds ==
  ASSUME Init
  PROVE  IInv
<1>1. PICK t \in Threads :
        thread_local = InitThread(ClearedThreadLocal, Suggested(t), NoLimit)
  BY Zenon DEF Init
<1>2. thread_local \in ThreadLocal
  BY Zenon, <1>1, InitIsGood DEF Good
<1>3. /\ <<>> \in Seq(Nat) /\ <<>> \in Seq(ThreadLocal) /\ <<>> \in Seq(Frame)
      /\ <<>> \in Seq(InterruptFlag) /\ {} \in SUBSET InterruptFlag
  BY Zenon, EmptyList
<1>4. TypeOK
  BY Zenon, <1>2, <1>3 DEF Init, TypeOK, Step
<1>5. StacksAreShaped
  BY DEF Init, StacksAreShaped
<1>6. OwnersAgree
  BY Zenon, ThreadsAssumption DEF Init, OwnersAgree, OwnerAgrees, Present
<1>7. StatesAreDisjoint
  BY DEF Init, StatesAreDisjoint
<1>8. StatesAreCounted
  BY FS_EmptySet DEF Init, StatesAreCounted
<1>9. StatesBelong
  BY Zenon DEF Init, StatesBelong, Inside
<1> QED
  BY Zenon, <1>4, <1>5, <1>6, <1>7, <1>8, <1>9 DEF IInv, Structure

(* A step that changes nothing.                                            *)
LEMMA StutteringKeeps ==
  ASSUME IInv, UNCHANGED vars
  PROVE  IInv'
<1>1. /\ UNCHANGED <<lazily_archived_thread, lazily_archived_thread_state, free_list,
                     in_use_list, data, thread_state, thread_local, mutex_owner>>
      /\ UNCHANGED <<stack_limit, frames, step, to_handle, occupant, owed>>
  BY Zenon DEF vars, listVars
<1>2. TypeOK'
  BY Zenon, <1>1 DEF IInv, Structure, TypeOK
<1>3. StacksAreShaped'
  BY Zenon, <1>1 DEF IInv, Structure, StacksAreShaped, HasTop, Top
<1>4. OwnersAgree'
  BY Zenon, <1>1 DEF IInv, Structure, OwnersAgree, OwnerAgrees, Present
<1>5. StatesAreDisjoint' /\ StatesAreCounted'
  BY Zenon, <1>1 DEF IInv, Structure, StatesAreDisjoint, StatesAreCounted
<1>6. StatesBelong'
  BY Zenon, <1>1 DEF IInv, StatesBelong, Inside, StateOf
<1> QED
  BY Zenon, <1>2, <1>3, <1>4, <1>5, <1>6 DEF IInv, Structure

(* Every action keeps the invariant.                                       *)
LEMMA StepKeeps ==
  ASSUME IInv, [Next]_vars
  PROVE  IInv'
<1>1. ASSUME NEW t \in Threads, ThreadStep(t)
      PROVE  IInv'
  <2>1. CASE NestedLocker(t) \/ Lock(t, "locker") \/ Lock(t, "unlocker")
    BY Zenon, <2>1, NestedLockerKeeps, LockKeeps
  <2>2. CASE RestoreLazily(t) \/ RestoreThread(t) \/ InitNewThread(t)
    BY Zenon, <2>2, RestoreLazilyKeeps, RestoreThreadKeeps, InitNewThreadKeeps
  <2>3. CASE OpenUnlocker(t) \/ CloseLocker(t)
    BY Zenon, <2>3, OpenUnlockerKeeps, CloseLockerKeeps
  <2>4. CASE (\E m \in Masks : OpenScope(t, m)) \/ CloseScope(t)
    BY Zenon, <2>4, OpenScopeKeeps, CloseScopeKeeps
  <2>5. CASE EmbedderSetsLimit(t) \/ StackCheck(t) \/ HandleNext(t)
    BY Zenon, <2>5, EmbedderSetsLimitKeeps, StackCheckKeeps, HandleNextKeeps
  <2> QED
    BY Zenon, <1>1, <2>1, <2>2, <2>3, <2>4, <2>5 DEF ThreadStep
<1>2. CASE \E flag \in Requests : Request(flag)
  BY Zenon, <1>2, RequestKeeps
<1>3. CASE CancelTerminateExecution
  BY Zenon, <1>3, CancelKeeps
<1>4. CASE UNCHANGED vars
  BY Zenon, <1>4, StutteringKeeps
<1> QED
  BY Zenon, <1>1, <1>2, <1>3, <1>4 DEF Next

(* Whatever the threads do, whoever has the isolate and however deep the   *)
(* stacks are, the state of every thread is its own and all of it.         *)
THEOREM ThreadInvariant == Spec => []IInv
BY InitHolds, StepKeeps, PTL DEF Spec

(* No interrupt requested of a thread is lost, and none reaches another:   *)
(* scopes, archiving by other threads and reused ThreadStates keep it.     *)
THEOREM InterruptsConserved == Spec => []InterruptsAreConserved
<1>1. IInv => InterruptsAreConserved
  BY Zenon DEF IInv, StatesBelong, Belongs, InterruptsAreConserved
<1> QED
  BY <1>1, ThreadInvariant, PTL

(* No active interrupt is one that an open scope postpones, no scope holds *)
(* what an outer one should hold, and the limits are lowered exactly when  *)
(* an interrupt is active, for every thread, in place or archived.         *)
THEOREM ScopesPostpone == Spec => []ScopesHoldBack
<1>1. IInv => ScopesHoldBack
  BY Zenon DEF IInv, StatesBelong, Belongs, Good, ScopesHoldBack
<1> QED
  BY <1>1, ThreadInvariant, PTL

(* Every thread gets its own scopes and limit back, and every ThreadState  *)
(* is free, in use by one thread or reserved: none leaks, none is shared.  *)
THEOREM StatesApart == Spec => []StatesAreApart
<1>1. ASSUME IInv
      PROVE  StatesAreApart
  <2>1. ASSUME NEW t \in Inside
        PROVE  /\ Len(StateOf(t).scopes) = ScopesUpTo(frames[t], Len(frames[t]))
               /\ \A i \in DOMAIN frames[t] : frames[t][i].kind = "Scope" =>
                    StateOf(t).scopes[ScopesUpTo(frames[t], i)].mask = frames[t][i].mask
               /\ StateOf(t).real \in OwnLimits(t)
    BY Zenon, <1>1, <2>1 DEF IInv, StatesBelong, Belongs
  <2>2. \A t \in Inside : StateOf(t).real[1] = t
    BY <2>1 DEF OwnLimits, Suggested, Chosen
  <2>3. \A t \in Inside : mutex_owner = t /\ step[t] = "none" => occupant = t
    BY Zenon, <1>1, RunnerIsOccupant DEF Inside
  <2>4. \A t \in Threads : thread_state[t] # Null =>
          \/ lazily_archived_thread = t /\ lazily_archived_thread_state = thread_state[t]
          \/ thread_state[t] \in in_use_list
    BY Zenon, <1>1 DEF IInv, Structure, OwnersAgree, OwnerAgrees, StatesAreDisjoint
  <2>5. Len(free_list) + Cardinality(in_use_list)
          + (IF lazily_archived_thread_state = Null THEN 0 ELSE 1) = Len(data)
    BY Zenon, <1>1 DEF IInv, StatesAreCounted
  <2> QED
    BY Zenon, <2>1, <2>2, <2>3, <2>4, <2>5 DEF StatesAreApart
<1> QED
  BY <1>1, ThreadInvariant, PTL
=============================================================================
