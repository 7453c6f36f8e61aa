----------------------- MODULE ThreadManagerStructure -----------------------
(***************************************************************************)
(* The inductive invariant of threads that share an isolate; lemmas on     *)
(* what it says of one thread: what the methods of the stack guard do to a *)
(* state, and when a state belongs to a thread with a given stack; and the *)
(* part of the induction that is about who has the isolate, the shape of   *)
(* the stacks and the lists of ThreadStates, action by action.             *)
(***************************************************************************)
EXTENDS ThreadManager, FiniteSetTheorems, TLAPS

Limit == {kIllegalLimit} \cup (Threads \X {0, 1})

ScopeRecord == [mask : SUBSET InterruptFlag, intercepted : SUBSET InterruptFlag]

ThreadLocal ==
  [flags : SUBSET InterruptFlag, scopes : Seq(ScopeRecord), real : Limit,
   limit : Limit \cup {kInterruptLimit}]

Frame == [kind : {"Locker", "Unlocker", "Scope"}, has_lock : BOOLEAN,
          top_level : BOOLEAN, mask : SUBSET InterruptFlag]

OwnLimits(t) == {Suggested(t), Chosen(t)}

TypeOK ==
  /\ thread_local \in ThreadLocal
  /\ mutex_owner \in Threads \cup {Null}
  /\ lazily_archived_thread \in Threads \cup {Null}
  /\ lazily_archived_thread_state \in Nat \cup {Null}
  /\ free_list \in Seq(Nat) /\ in_use_list \subseteq Nat
  /\ data \in Seq(ThreadLocal)
  /\ thread_state \in [Threads -> Nat \cup {Null}]
  /\ stack_limit \in [Threads -> Limit \cup {NoLimit}]
  /\ frames \in [Threads -> Seq(Frame)]
  /\ step \in [Threads -> Step]
  /\ to_handle \in [Threads -> Seq(InterruptFlag)]
  /\ occupant \in Threads \cup {Null}
  /\ owed \in [Threads -> SUBSET InterruptFlag]

(* The stack of a thread starts with the locker that made it known to the  *)
(* isolate, and has no other locker like it.                               *)
IsFirst(f) == f.kind = "Locker" /\ f.has_lock /\ f.top_level

StacksAreShaped ==
  \A t \in Threads :
    /\ \A i \in DOMAIN frames[t] : IsFirst(frames[t][i]) <=> i = 1
    /\ step[t] = "new" => Len(frames[t]) = 1
    /\ step[t] = "unlocker" => HasTop(t, "Unlocker")

Present(t) == mutex_owner = t /\ step[t] \in {"none", "new"}

(* Who has the mutex, whose state is in place and who is archived.         *)
OwnerAgrees(t) ==
  /\ (step[t] # "none" \/ to_handle[t] # <<>>) => mutex_owner = t
  /\ to_handle[t] # <<>> => step[t] = "none"
  /\ mutex_owner = t /\ step[t] = "none" => frames[t] # <<>>
  /\ thread_state[t] # Null <=> frames[t] # <<>> /\ ~Present(t)
  /\ occupant = t <=>
       (mutex_owner = t /\ step[t] = "none") \/ lazily_archived_thread = t
  /\ Present(t) => lazily_archived_thread = Null
  /\ lazily_archived_thread = t => thread_state[t] = lazily_archived_thread_state
  /\ stack_limit[t] \in OwnLimits(t) \cup {NoLimit}

OwnersAgree ==
  /\ \A t \in Threads : OwnerAgrees(t)
  /\ lazily_archived_thread = Null <=> lazily_archived_thread_state = Null

(* The ThreadStates: free, in use by one thread, or reserved.              *)
StatesAreDisjoint ==
  /\ \A i \in DOMAIN free_list :
       /\ free_list[i] \in DOMAIN data
       /\ free_list[i] \notin in_use_list
       /\ free_list[i] # lazily_archived_thread_state
       /\ \A j \in DOMAIN free_list : free_list[i] = free_list[j] => i = j
  /\ in_use_list \subseteq DOMAIN data
  /\ lazily_archived_thread_state \notin in_use_list
  /\ lazily_archived_thread_state # Null => lazily_archived_thread_state \in DOMAIN data
  /\ \A t \in Threads : thread_state[t] # Null =>
       /\ lazily_archived_thread # t => thread_state[t] \in in_use_list
       /\ \A u \in Threads : thread_state[u] = thread_state[t] => u = t

StatesAreCounted ==
  /\ IsFiniteSet(in_use_list)
  /\ Len(free_list) + Cardinality(in_use_list)
       + (IF lazily_archived_thread_state = Null THEN 0 ELSE 1) = Len(data)

Good(tl) == tl \in ThreadLocal /\ WellGuarded(tl)

(* The state tl may belong to thread t, whose stack is fs and of which due *)
(* is requested.                                                           *)
Belongs(tl, t, fs, due) ==
  /\ Good(tl)
  /\ Pending(tl) = due
  /\ tl.real \in OwnLimits(t)
  /\ Len(tl.scopes) = ScopesUpTo(fs, Len(fs))
  /\ \A i \in DOMAIN fs : fs[i].kind = "Scope" =>
       tl.scopes[ScopesUpTo(fs, i)].mask = fs[i].mask

StatesBelong == \A t \in Inside : Belongs(StateOf(t), t, frames[t], owed[t])

Structure == TypeOK /\ StacksAreShaped /\ OwnersAgree /\ StatesAreDisjoint
IInv == Structure /\ StatesAreCounted /\ StatesBelong
-----------------------------------------------------------------------------
(* Sequences and numbers.                                                  *)

(* The sequence without members.                                           *)
LEMMA EmptyList ==
  ASSUME NEW S
  PROVE  <<>> \in Seq(S) /\ \A s \in Seq(S) : s = <<>> <=> Len(s) = 0
  OBVIOUS

(* A function over 1 .. n is a sequence.                                   *)
LEMMA MakeSeq ==
  ASSUME NEW n \in Nat, NEW S, NEW s, s = [i \in 1 .. n |-> s[i]],
         \A i \in 1 .. n : s[i] \in S
  PROVE  s \in Seq(S) /\ Len(s) = n
<1>1. s \in [1 .. n -> S]
  BY Zenon
<1>2. s \in Seq(S)
  BY <1>1
<1> QED
  BY <1>1, <1>2

(* A sequence without its last member.                                     *)
LEMMA ButLast ==
  ASSUME NEW S, NEW s \in Seq(S), s # <<>>
  PROVE  LET rest == SubSeq(s, 1, Len(s) - 1)
         IN  /\ Len(s) \in Nat \ {0} /\ rest \in Seq(S) /\ Len(rest) = Len(s) - 1
             /\ \A i \in 1 .. Len(s) - 1 : rest[i] = s[i]
<1> DEFINE n == Len(s) - 1
<1>1. n \in Nat /\ n + 1 = Len(s)
  OBVIOUS
<1>2. /\ SubSeq(s, 1, n) \in Seq(S)
      /\ \A i \in 1 .. n : SubSeq(s, 1, n)[i] = s[i]
  OBVIOUS
<1> HIDE DEF n
<1>3. Len(SubSeq(s, 1, n)) = n
  BY <1>1
<1> QED
  BY <1>1, <1>2, <1>3 DEF n

(* A set of natural numbers has a least member.                            *)
LEMMA LeastMember ==
  ASSUME NEW T \in SUBSET Nat, T # {}
  PROVE  \E k \in T : \A j \in T : k <= j
<1> DEFINE less == OpToRel(<, Nat)
<1>1. PICK k \in T : \A j \in T : <<j, k>> \notin less
  BY Zenon, WFMin, NatLessThanWellFounded
<1>2. ASSUME NEW j \in T, j < k
      PROVE  <<j, k>> \in less
  <2>1. <<j, k>> \in Nat \X Nat /\ <<j, k>>[1] < <<j, k>>[2]
    BY Zenon, <1>2
  <2> QED
    BY Zenon, <2>1, Zenon DEF OpToRel
<1>3. \A j \in T : ~ (j < k)
  BY Zenon, <1>1, <1>2, Zenon
<1> QED
  BY <1>3
-----------------------------------------------------------------------------
(* What the methods of the stack guard do to a state.                      *)

(* No stack limit is the interrupt limit.                                  *)
LEMMA LimitsDiffer ==
  /\ kInterruptLimit \notin Limit /\ NoLimit \notin Threads \X {0, 1}
  /\ \A t \in Threads : OwnLimits(t) \subseteq Limit
BY ThreadsAssumption DEF Limit, OwnLimits, Suggested, Chosen

(* A blank state is good, and nothing is pending in it.                    *)
LEMMA ClearedIsGood == Good(ClearedThreadLocal)
BY LimitsDiffer DEF ClearedThreadLocal, Good, ThreadLocal, WellGuarded, Limit

(* Taking flags away keeps a state good.                                   *)
LEMMA WithdrawIsGood ==
  ASSUME NEW tl \in ThreadLocal, NEW fs
  PROVE  /\ Withdraw(tl, fs) \in ThreadLocal
         /\ Withdraw(tl, fs).flags = tl.flags \ fs
         /\ Withdraw(tl, fs).scopes = tl.scopes
         /\ Withdraw(tl, fs).real = tl.real
         /\ WellGuarded(tl) => WellGuarded(Withdraw(tl, fs))
<1> DEFINE w == Withdraw(tl, fs)
<1>1. /\ w \in ThreadLocal
      /\ w.flags = tl.flags \ fs
      /\ w.scopes = tl.scopes
      /\ w.real = tl.real
      /\ w.limit = IF w.flags = {} THEN tl.real ELSE tl.limit
  BY Zenon DEF Withdraw, ThreadLocal, reset_limits
<1> HIDE DEF w
<1>2. WellGuarded(tl) => WellGuarded(w)
  BY <1>1, LimitsDiffer DEF WellGuarded, ThreadLocal
<1> QED
  BY Zenon, <1>1, <1>2 DEF w

(* Opening a scope moves the flags it masks into it, and loses none.       *)
LEMMA PushKeepsPending ==
  ASSUME NEW tl, Good(tl), NEW m \in SUBSET InterruptFlag
  PROVE  LET pushed == PushPostponeInterruptsScope(tl, m)
         IN  /\ Good(pushed)
             /\ Pending(pushed) = Pending(tl)
             /\ pushed.real = tl.real
             /\ Len(pushed.scopes) = Len(tl.scopes) + 1
             /\ \A i \in DOMAIN tl.scopes : pushed.scopes[i] = tl.scopes[i]
             /\ pushed.scopes[Len(tl.scopes) + 1].mask = m
<1> DEFINE w == Withdraw(tl, m)
           new == [mask |-> m, intercepted |-> tl.flags \cap m]
           pushed == PushPostponeInterruptsScope(tl, m)
           n == Len(tl.scopes)
<1>1. tl \in ThreadLocal /\ WellGuarded(tl) /\ tl.scopes \in Seq(ScopeRecord)
  BY Zenon DEF Good, ThreadLocal
<1>2. /\ w \in ThreadLocal /\ WellGuarded(w)
      /\ w.flags = tl.flags \ m /\ w.scopes = tl.scopes /\ w.real = tl.real
  BY Zenon, <1>1, WithdrawIsGood
<1>3. new \in ScopeRecord
  BY Zenon, <1>1 DEF ScopeRecord, ThreadLocal
<1>4. pushed = [w EXCEPT !.scopes = Append(tl.scopes, new)]
  BY Zenon, <1>2 DEF PushPostponeInterruptsScope
<1>5. /\ Append(tl.scopes, new) \in Seq(ScopeRecord)
      /\ DOMAIN tl.scopes = 1 .. n /\ n \in Nat
      /\ DOMAIN Append(tl.scopes, new) = 1 .. n + 1
      /\ Len(Append(tl.scopes, new)) = n + 1
      /\ \A i \in 1 .. n : Append(tl.scopes, new)[i] = tl.scopes[i]
      /\ Append(tl.scopes, new)[n + 1] = new
  BY <1>1, <1>3
<1> HIDE DEF w, new, pushed, n
<1>6. /\ pushed \in ThreadLocal
      /\ pushed.scopes = Append(tl.scopes, new)
      /\ pushed.flags = tl.flags \ m /\ pushed.real = tl.real
      /\ pushed.limit = w.limit
  BY Zenon, <1>2, <1>4, <1>5 DEF ThreadLocal
<1>7. new.mask = m /\ new.intercepted = tl.flags \cap m
  BY Zenon DEF new
<1>8. WellGuarded(pushed)
  <2>1. pushed.limit = kInterruptLimit <=> pushed.flags # {}
    BY Zenon, <1>2, <1>6 DEF WellGuarded
  <2>2. ASSUME NEW i \in 1 .. n
        PROVE  /\ pushed.scopes[i].intercepted \subseteq pushed.scopes[i].mask
               /\ pushed.flags \cap pushed.scopes[i].mask = {}
               /\ \A j \in 1 .. i - 1 :
                    pushed.scopes[i].intercepted \cap pushed.scopes[j].mask = {}
    <3>1. /\ i \in DOMAIN tl.scopes /\ pushed.scopes[i] = tl.scopes[i]
          /\ \A j \in 1 .. i - 1 :
               j \in DOMAIN tl.scopes /\ pushed.scopes[j] = tl.scopes[j]
      BY <1>5, <1>6
    <3>2. /\ tl.scopes[i].intercepted \subseteq tl.scopes[i].mask
          /\ tl.flags \cap tl.scopes[i].mask = {}
          /\ \A j \in 1 .. i - 1 :
               tl.scopes[i].intercepted \cap tl.scopes[j].mask = {}
      BY Zenon, <1>1, <3>1 DEF WellGuarded
    <3> QED
      BY Zenon, <1>6, <3>1, <3>2
  <2>3. /\ new.intercepted \subseteq new.mask /\ pushed.flags \cap new.mask = {}
        /\ \A j \in 1 .. n : new.intercepted \cap pushed.scopes[j].mask = {}
    BY <1>1, <1>5, <1>6, <1>7 DEF WellGuarded
  <2> QED
    BY <1>5, <1>6, <2>1, <2>2, <2>3 DEF WellGuarded
<1>9. Pending(pushed) = Pending(tl)
  BY <1>5, <1>6, <1>7 DEF Pending
<1> QED
  BY Zenon, <1>5, <1>6, <1>7, <1>8, <1>9 DEF Good, pushed, n

(* Closing the innermost scope releases what it holds.                     *)
LEMMA PopKeepsPending ==
  ASSUME NEW tl, Good(tl), tl.scopes # <<>>
  PROVE  LET popped == PopPostponeInterruptsScope(tl)
         IN  /\ Good(popped)
             /\ Pending(popped) = Pending(tl)
             /\ popped.real = tl.real
             /\ Len(popped.scopes) = Len(tl.scopes) - 1
             /\ \A i \in 1 .. Len(tl.scopes) - 1 : popped.scopes[i] = tl.scopes[i]
<1> DEFINE n == Len(tl.scopes)
           top == tl.scopes[n]
           outer == SubSeq(tl.scopes, 1, n - 1)
           popped == PopPostponeInterruptsScope(tl)
<1>1. tl \in ThreadLocal /\ WellGuarded(tl) /\ tl.scopes \in Seq(ScopeRecord)
  BY Zenon DEF Good, ThreadLocal
<1>2. /\ n \in Nat /\ n # 0 /\ DOMAIN tl.scopes = 1 .. n
      /\ outer \in Seq(ScopeRecord) /\ Len(outer) = n - 1
      /\ DOMAIN outer = 1 .. n - 1
      /\ \A i \in 1 .. n - 1 : outer[i] = tl.scopes[i]
  BY <1>1
<1>3. top \in ScopeRecord
  BY <1>1, <1>2
<1>4. /\ popped \in ThreadLocal
      /\ popped.scopes = outer
      /\ popped.flags = tl.flags \cup top.intercepted
      /\ popped.real = tl.real
      /\ popped.limit = IF popped.flags = {} THEN tl.limit ELSE kInterruptLimit
  <2> DEFINE f == tl.flags \cup top.intercepted
  <2>1. f \in SUBSET InterruptFlag
    BY Zenon, <1>1, <1>3 DEF ThreadLocal, ScopeRecord
  <2> HIDE DEF f, top, outer
  <2>2. popped = IF f = {} THEN [tl EXCEPT !.flags = f, !.scopes = outer]
                 ELSE [[tl EXCEPT !.flags = f, !.scopes = outer]
                         EXCEPT !.limit = kInterruptLimit]
    BY Zenon, <1>1 DEF PopPostponeInterruptsScope, set_interrupt_limits, f, top, outer,
                ThreadLocal
  <2> HIDE DEF popped
  <2> QED
    BY Zenon, <1>1, <1>2, <2>1, <2>2 DEF ThreadLocal, f
<1> HIDE DEF popped, outer
<1>5. /\ top.intercepted \subseteq top.mask
      /\ \A j \in 1 .. n - 1 : top.intercepted \cap tl.scopes[j].mask = {}
  <2>1. n \in DOMAIN tl.scopes
    BY <1>2
  <2> QED
    BY Zenon, <1>1, <2>1 DEF WellGuarded
<1>6. WellGuarded(popped)
  <2>1. popped.limit = kInterruptLimit <=> popped.flags # {}
    BY Zenon, <1>1, <1>4 DEF WellGuarded
  <2> HIDE DEF top
  <2>2. ASSUME NEW i \in 1 .. n - 1
        PROVE  /\ popped.scopes[i].intercepted \subseteq popped.scopes[i].mask
               /\ popped.flags \cap popped.scopes[i].mask = {}
               /\ \A j \in 1 .. i - 1 :
                    popped.scopes[i].intercepted \cap popped.scopes[j].mask = {}
    <3>1. i \in DOMAIN tl.scopes /\ outer[i] = tl.scopes[i]
      BY <1>2
    <3>2. /\ tl.scopes[i].intercepted \subseteq tl.scopes[i].mask
          /\ tl.flags \cap tl.scopes[i].mask = {}
          /\ \A j \in 1 .. i - 1 :
               tl.scopes[i].intercepted \cap tl.scopes[j].mask = {}
      BY Zenon, <1>1, <3>1 DEF WellGuarded
    <3>3. \A j \in 1 .. i - 1 : outer[j] = tl.scopes[j]
      BY <1>2
    <3> QED
      BY Zenon, <1>4, <1>5, <3>1, <3>2, <3>3
  <2> QED
    BY Zenon, <1>2, <1>4, <2>1, <2>2 DEF WellGuarded
<1>7. Pending(popped) = Pending(tl)
  <2> HIDE DEF n
  <2> QED
    BY <1>2, <1>4 DEF Pending
<1> QED
  BY Zenon, <1>2, <1>4, <1>6, <1>7 DEF Good, popped

(* The scopes of two states have the same masks.                           *)
SameScopes(new, old) ==
  /\ Len(new.scopes) = Len(old.scopes) /\ DOMAIN new.scopes = DOMAIN old.scopes
  /\ \A i \in DOMAIN old.scopes : new.scopes[i].mask = old.scopes[i].mask

(* A request makes the flag pending, active or in a scope.                 *)
LEMMA RequestIsPending ==
  ASSUME NEW tl \in ThreadLocal, NEW flag \in InterruptFlag
  PROVE  LET asked == RequestInterrupt(tl, flag)
         IN  /\ asked \in ThreadLocal /\ asked.real = tl.real
             /\ SameScopes(asked, tl)
             /\ Pending(asked) = Pending(tl) \cup {flag}
             /\ Good(tl) => Good(asked)
<1> DEFINE asked == RequestInterrupt(tl, flag)
           n == Len(tl.scopes)
<1>1. tl.scopes \in Seq(ScopeRecord) /\ n \in Nat /\ DOMAIN tl.scopes = 1 .. n
  BY DEF ThreadLocal
<1>2. CASE \E i \in 1 .. n : flag \in tl.scopes[i].mask
  <2> DEFINE scopes == Intercept(tl.scopes, flag)
  <2>1. /\ DOMAIN scopes = 1 .. n
        /\ \A i \in 1 .. n :
             /\ scopes[i] \in ScopeRecord /\ scopes[i].mask = tl.scopes[i].mask
             /\ scopes[i].intercepted =
                  IF Takes(tl.scopes, i, flag)
                  THEN tl.scopes[i].intercepted \cup {flag}
                  ELSE tl.scopes[i].intercepted
    <3> SUFFICES ASSUME NEW i \in 1 .. n
                 PROVE  /\ scopes[i] \in ScopeRecord
                        /\ scopes[i].mask = tl.scopes[i].mask
                        /\ scopes[i].intercepted =
                             IF Takes(tl.scopes, i, flag)
                             THEN tl.scopes[i].intercepted \cup {flag}
                             ELSE tl.scopes[i].intercepted
      BY Zenon, <1>1 DEF Intercept
    <3>1. tl.scopes[i] \in ScopeRecord
      BY <1>1
    <3>2. scopes[i] = IF Takes(tl.scopes, i, flag)
                      THEN [tl.scopes[i] EXCEPT !.intercepted =
                              tl.scopes[i].intercepted \cup {flag}]
                      ELSE tl.scopes[i]
      BY Zenon, <1>1 DEF Intercept
    <3> HIDE DEF scopes
    <3> QED
      BY <3>1, <3>2 DEF ScopeRecord
  <2> HIDE DEF scopes
  <2>2. scopes \in Seq(ScopeRecord) /\ Len(scopes) = n
    <3>1. scopes = [i \in 1 .. n |-> scopes[i]]
      BY Zenon, <1>1 DEF scopes, Intercept
    <3> QED
      BY Zenon, <1>1, <2>1, <3>1, MakeSeq
  <2>3. asked = [tl EXCEPT !.scopes = scopes]
    BY Zenon, <1>1, <1>2 DEF RequestInterrupt, scopes
  <2> HIDE DEF asked
  <2>4. /\ asked \in ThreadLocal /\ asked.scopes = scopes /\ asked.flags = tl.flags
        /\ asked.real = tl.real /\ asked.limit = tl.limit
    BY Zenon, <2>2, <2>3 DEF ThreadLocal
  <2>5. SameScopes(asked, tl)
    BY Zenon, <1>1, <2>1, <2>2, <2>4 DEF SameScopes
  <2>6. PICK k \in 1 .. n : Takes(tl.scopes, k, flag)
    <3> DEFINE masking == {i \in 1 .. n : flag \in tl.scopes[i].mask}
    <3>1. masking \in SUBSET Nat /\ masking # {}
      BY <1>1, <1>2
    <3>2. PICK k \in masking : \A j \in masking : k <= j
      BY Zenon, <3>1, LeastMember
    <3> QED
      BY <1>1, <3>2 DEF Takes
  <2>7. Pending(asked) = Pending(tl) \cup {flag}
    <3>1. flag \in scopes[k].intercepted
      BY Zenon, <2>1, <2>6
    <3>2. \A i \in 1 .. n : /\ tl.scopes[i].intercepted \subseteq scopes[i].intercepted
                            /\ scopes[i].intercepted
                                 \subseteq tl.scopes[i].intercepted \cup {flag}
      BY Zenon, <2>1
    <3> HIDE DEF n
    <3> QED
      BY <1>1, <2>1, <2>4, <3>1, <3>2 DEF Pending
  <2>8. ASSUME Good(tl)
        PROVE  Good(asked)
    <3>1. ASSUME NEW i \in 1 .. n
          PROVE  /\ scopes[i].intercepted \subseteq scopes[i].mask
                 /\ tl.flags \cap scopes[i].mask = {}
                 /\ \A j \in 1 .. i - 1 :
                      scopes[i].intercepted \cap scopes[j].mask = {}
      <4>1. /\ tl.scopes[i].intercepted \subseteq tl.scopes[i].mask
            /\ tl.flags \cap tl.scopes[i].mask = {}
            /\ \A j \in 1 .. i - 1 :
                 tl.scopes[i].intercepted \cap tl.scopes[j].mask = {}
        BY Zenon, <1>1, <2>8 DEF Good, WellGuarded
      <4>2. Takes(tl.scopes, i, flag) =>
              /\ flag \in tl.scopes[i].mask
              /\ \A j \in 1 .. i - 1 : flag \notin tl.scopes[j].mask
        BY Zenon DEF Takes
      <4>3. ASSUME NEW j \in 1 .. i - 1
            PROVE  scopes[j].mask = tl.scopes[j].mask
        <5>1. j \in 1 .. n
          BY <1>1
        <5> QED
          BY Zenon, <2>1, <5>1
      <4> QED
        BY ZenonT(60), <2>1, <4>1, <4>2, <4>3
    <3> QED
      BY <2>1, <2>4, <2>8, <3>1 DEF Good, WellGuarded
  <2> QED
    BY Zenon, <2>4, <2>5, <2>7, <2>8 DEF asked
<1>3. CASE ~ \E i \in 1 .. n : flag \in tl.scopes[i].mask
  <2>1. asked = [[tl EXCEPT !.flags = tl.flags \cup {flag}]
                   EXCEPT !.limit = kInterruptLimit]
    BY Zenon, <1>1, <1>3 DEF RequestInterrupt, set_interrupt_limits
  <2> HIDE DEF asked
  <2>2. /\ asked \in ThreadLocal /\ asked.scopes = tl.scopes
        /\ asked.flags = tl.flags \cup {flag}
        /\ asked.real = tl.real /\ asked.limit = kInterruptLimit
    BY Zenon, <2>1 DEF ThreadLocal
  <2>3. Good(tl) => Good(asked)
    BY <1>1, <1>3, <2>2 DEF Good, WellGuarded
  <2> QED
    BY Zenon, <2>2, <2>3 DEF Pending, SameScopes, asked
<1> QED
  BY Zenon, <1>2, <1>3

(* Taking a request back takes the flag from wherever it is.               *)
LEMMA ClearTakesBack ==
  ASSUME NEW tl \in ThreadLocal, NEW flag \in InterruptFlag
  PROVE  LET cleared == ClearInterrupt(tl, flag)
         IN  /\ cleared \in ThreadLocal /\ cleared.real = tl.real
             /\ SameScopes(cleared, tl)
             /\ Pending(cleared) = Pending(tl) \ {flag}
             /\ Good(tl) => Good(cleared)
<1> DEFINE n == Len(tl.scopes)
           scopes == [i \in DOMAIN tl.scopes |->
                        [tl.scopes[i] EXCEPT !.intercepted = @ \ {flag}]]
           emptied == [tl EXCEPT !.scopes = scopes]
           cleared == ClearInterrupt(tl, flag)
<1>1. /\ tl.scopes \in Seq(ScopeRecord) /\ n \in Nat /\ DOMAIN tl.scopes = 1 .. n
      /\ \A i \in 1 .. n : tl.scopes[i] \in ScopeRecord
  BY DEF ThreadLocal
<1>2. /\ DOMAIN scopes = 1 .. n
      /\ \A i \in 1 .. n :
           /\ scopes[i] \in ScopeRecord /\ scopes[i].mask = tl.scopes[i].mask
           /\ scopes[i].intercepted = tl.scopes[i].intercepted \ {flag}
  BY Zenon, <1>1 DEF ScopeRecord
<1>3. scopes \in Seq(ScopeRecord) /\ Len(scopes) = n
  <2>1. scopes = [i \in 1 .. n |-> scopes[i]]
    BY Zenon, <1>1
  <2> HIDE DEF scopes
  <2> QED
    BY Zenon, <1>1, <1>2, <2>1, MakeSeq
<1>4. cleared = Withdraw(emptied, {flag})
  BY Zenon DEF ClearInterrupt
<1> HIDE DEF scopes
<1>5. /\ emptied \in ThreadLocal /\ emptied.scopes = scopes
      /\ emptied.flags = tl.flags
      /\ emptied.real = tl.real /\ emptied.limit = tl.limit
  BY Zenon, <1>3 DEF ThreadLocal
<1> HIDE DEF emptied, cleared
<1>6. /\ cleared \in ThreadLocal /\ cleared.scopes = scopes
      /\ cleared.flags = tl.flags \ {flag} /\ cleared.real = tl.real
      /\ WellGuarded(emptied) => WellGuarded(cleared)
  BY <1>4, <1>5, WithdrawIsGood
<1>7. SameScopes(cleared, tl)
  BY Zenon, <1>1, <1>2, <1>3, <1>6 DEF SameScopes
<1>8. Pending(cleared) = Pending(tl) \ {flag}
  <2> HIDE DEF n
  <2> QED
    BY <1>1, <1>2, <1>6 DEF Pending
<1>9. ASSUME Good(tl)
      PROVE  Good(cleared)
  <2>1. ASSUME NEW i \in 1 .. n
        PROVE  /\ scopes[i].intercepted \subseteq scopes[i].mask
               /\ tl.flags \cap scopes[i].mask = {}
               /\ \A j \in 1 .. i - 1 :
                    scopes[i].intercepted \cap scopes[j].mask = {}
    <3>1. /\ tl.scopes[i].intercepted \subseteq tl.scopes[i].mask
          /\ tl.flags \cap tl.scopes[i].mask = {}
          /\ \A j \in 1 .. i - 1 :
               tl.scopes[i].intercepted \cap tl.scopes[j].mask = {}
      BY Zenon, <1>1, <1>9 DEF Good, WellGuarded
    <3>2. ASSUME NEW j \in 1 .. i - 1
          PROVE  scopes[j].mask = tl.scopes[j].mask
      <4>1. j \in 1 .. n
        BY <1>1
      <4> QED
        BY Zenon, <1>2, <4>1
    <3> QED
      BY Zenon, <1>2, <3>1, <3>2
  <2>2. WellGuarded(emptied)
    BY Zenon, <1>2, <1>5, <1>9, <2>1 DEF Good, WellGuarded
  <2> QED
    BY Zenon, <1>6, <2>2 DEF Good
<1> QED
  BY Zenon, <1>6, <1>7, <1>8, <1>9 DEF cleared

(* HandleInterrupts takes an active flag, and the scopes keep theirs.      *)
LEMMA CheckAndClearTakesActive ==
  ASSUME NEW tl, Good(tl), NEW flag
  PROVE  LET cleared == CheckAndClearInterrupt(tl, flag)
         IN  /\ Good(cleared) /\ cleared.real = tl.real
             /\ SameScopes(cleared, tl)
             /\ Pending(cleared) = Pending(tl) \ ({flag} \cap tl.flags)
<1> DEFINE cleared == CheckAndClearInterrupt(tl, flag)
<1>1. tl \in ThreadLocal /\ WellGuarded(tl)
  BY Zenon DEF Good
<1>2. /\ cleared \in ThreadLocal /\ WellGuarded(cleared)
      /\ cleared.flags = tl.flags \ {flag}
      /\ cleared.scopes = tl.scopes /\ cleared.real = tl.real
  BY Zenon, <1>1, WithdrawIsGood DEF CheckAndClearInterrupt
<1> HIDE DEF cleared
<1>3. \A i \in DOMAIN tl.scopes : tl.scopes[i].intercepted \cap tl.flags = {}
  BY Zenon, <1>1 DEF WellGuarded
<1>4. Pending(cleared) = Pending(tl) \ ({flag} \cap tl.flags)
  BY <1>2, <1>3 DEF Pending
<1> QED
  BY Zenon, <1>2, <1>4 DEF Good, SameScopes, cleared

(* A limit that is set does not hide an interrupt.                         *)
LEMMA SetLimitIsGood ==
  ASSUME NEW tl, Good(tl), NEW limit \in Limit
  PROVE  LET set == SetStackLimit(tl, limit)
         IN  /\ Good(set) /\ set.real = limit /\ set.scopes = tl.scopes
             /\ Pending(set) = Pending(tl)
<1> DEFINE set == SetStackLimit(tl, limit)
<1>1. tl \in ThreadLocal
  BY Zenon DEF Good
<1>2. /\ set \in ThreadLocal /\ set.real = limit
      /\ set.flags = tl.flags /\ set.scopes = tl.scopes
      /\ set.limit = IF tl.limit = tl.real THEN limit ELSE tl.limit
  BY Zenon, <1>1, Zenon DEF SetStackLimit, ThreadLocal
<1> HIDE DEF set
<1>3. WellGuarded(set)
  BY <1>1, <1>2, LimitsDiffer DEF WellGuarded, Good, ThreadLocal
<1> QED
  BY Zenon, <1>2, <1>3 DEF Good, Pending, set

(* A thread is initialised with a state that has the type of one.          *)
LEMMA InitIsTyped ==
  ASSUME NEW tl \in ThreadLocal, NEW t \in Threads, NEW stored \in Limit \cup {NoLimit}
  PROVE  InitThread(tl, Suggested(t), stored) \in ThreadLocal
<1> DEFINE own == IF tl.real = kIllegalLimit
                  THEN [tl EXCEPT !.real = Suggested(t), !.limit = Suggested(t)] ELSE tl
           initialized == [own EXCEPT !.scopes = <<>>, !.flags = {}]
<1>1. Suggested(t) \in Limit
  BY Zenon, LimitsDiffer DEF OwnLimits
<1>2. own \in ThreadLocal
  BY Zenon, <1>1 DEF ThreadLocal
<1>3. initialized \in ThreadLocal
  <2> HIDE DEF own
  <2> QED
    BY Zenon, <1>2, EmptyList DEF ThreadLocal
<1>4. stored # NoLimit => SetStackLimit(initialized, stored) \in ThreadLocal
  <2> HIDE DEF initialized
  <2> QED
    BY Zenon, <1>3 DEF SetStackLimit, ThreadLocal
<1> QED
  BY Zenon, <1>3, <1>4 DEF InitThread

(* A cleared state that is initialised is good, empty and has a limit of   *)
(* the thread's own.                                                       *)
LEMMA InitIsGood ==
  ASSUME NEW t \in Threads, NEW stored \in OwnLimits(t) \cup {NoLimit}
  PROVE  LET new == InitThread(ClearedThreadLocal, Suggested(t), stored)
         IN  /\ Good(new) /\ new.real \in OwnLimits(t)
             /\ new.scopes = <<>> /\ Pending(new) = {}
<1> DEFINE limit == IF stored = NoLimit THEN Suggested(t) ELSE stored
           new == InitThread(ClearedThreadLocal, Suggested(t), stored)
<1>1. limit \in OwnLimits(t) /\ limit \in Limit
  BY Zenon, LimitsDiffer DEF OwnLimits
<1>2. new = [flags |-> {}, scopes |-> <<>>, real |-> limit, limit |-> limit]
  BY Zenon DEF InitThread, ClearedThreadLocal, SetStackLimit
<1> HIDE DEF limit, new
<1>3. new \in ThreadLocal
  BY Zenon, <1>1, <1>2, EmptyList DEF ThreadLocal
<1>4. new.limit # kInterruptLimit
  BY Zenon, <1>1, <1>2, LimitsDiffer
<1>5. WellGuarded(new) /\ Pending(new) = {}
  BY <1>2, <1>4 DEF WellGuarded, Pending
<1>6. new.real \in OwnLimits(t) /\ new.scopes = <<>>
  BY Zenon, <1>1, <1>2
<1> QED
  BY Zenon, <1>3, <1>5, <1>6 DEF Good, new
-----------------------------------------------------------------------------
(* The objects on the stacks.                                              *)

(* The objects on a stack have the fields of a frame, and only a locker    *)
(* made with both flags is a first one.                                    *)
LEMMA FramesAreTyped ==
  /\ \A h, l \in BOOLEAN : Locker(h, l) \in Frame /\ Locker(h, l).kind = "Locker"
  /\ \A h, l \in BOOLEAN : IsFirst(Locker(h, l)) <=> h /\ l
  /\ Unlocker \in Frame /\ Unlocker.kind = "Unlocker"
  /\ \A m \in SUBSET InterruptFlag :
       Scope(m) \in Frame /\ Scope(m).kind = "Scope" /\ Scope(m).mask = m
BY Zenon DEF Locker, Unlocker, Scope, Frame, IsFirst

(* What is on a stack, and when it is empty.                               *)
LEMMA StacksAreSequences ==
  ASSUME TypeOK, NEW t \in Threads
  PROVE  /\ frames[t] \in Seq(Frame) /\ Len(frames[t]) \in Nat
         /\ DOMAIN frames[t] = 1 .. Len(frames[t])
         /\ frames[t] = <<>> <=> Len(frames[t]) = 0
         /\ \A i \in 1 .. Len(frames[t]) : frames[t][i] \in Frame
BY DEF TypeOK

(* What is pushed is on top, and the rest stays.                           *)
LEMMA PushedFrames ==
  ASSUME TypeOK, NEW t \in Threads, NEW f \in Frame, Push(t, f)
  PROVE  /\ frames' \in [Threads -> Seq(Frame)]
         /\ \A u \in Threads : u # t => frames'[u] = frames[u]
         /\ frames'[t] # <<>> /\ Len(frames'[t]) = Len(frames[t]) + 1
         /\ \A i \in 1 .. Len(frames[t]) : frames'[t][i] = frames[t][i]
         /\ frames'[t][Len(frames[t]) + 1] = f
<1>1. frames[t] \in Seq(Frame) /\ frames \in [Threads -> Seq(Frame)]
  BY Zenon DEF TypeOK
<1>2. Append(frames[t], f) \in Seq(Frame)
  BY <1>1
<1>3. /\ frames' \in [Threads -> Seq(Frame)]
      /\ \A u \in Threads : u # t => frames'[u] = frames[u]
      /\ frames'[t] = Append(frames[t], f)
  BY Zenon, <1>1, <1>2 DEF Push
<1> QED
  BY <1>1, <1>3

(* A stack after Pop.                                                      *)
LEMMA PoppedFrames ==
  ASSUME TypeOK, NEW t \in Threads, frames[t] # <<>>, Pop(t)
  PROVE  /\ frames' \in [Threads -> Seq(Frame)]
         /\ \A u \in Threads : u # t => frames'[u] = frames[u]
         /\ Len(frames'[t]) = Len(frames[t]) - 1
         /\ \A i \in 1 .. Len(frames[t]) - 1 : frames'[t][i] = frames[t][i]
<1> DEFINE rest == SubSeq(frames[t], 1, Len(frames[t]) - 1)
<1>1. frames[t] \in Seq(Frame) /\ frames \in [Threads -> Seq(Frame)]
  BY Zenon DEF TypeOK
<1>2. /\ rest \in Seq(Frame) /\ Len(rest) = Len(frames[t]) - 1
      /\ \A i \in 1 .. Len(frames[t]) - 1 : rest[i] = frames[t][i]
  BY Zenon, <1>1, ButLast
<1>3. /\ frames' \in [Threads -> Seq(Frame)]
      /\ \A u \in Threads : u # t => frames'[u] = frames[u]
      /\ frames'[t] = rest
  BY Zenon, <1>1, <1>2 DEF Pop
<1> QED
  BY Zenon, <1>2, <1>3

(* The scopes among the objects are counted one by one.                    *)
LEMMA ScopesAreCounted ==
  ASSUME NEW fs \in Seq(Frame)
  PROVE  /\ ScopesUpTo(fs, 0) = 0
         /\ \A i \in 0 .. Len(fs) : ScopesUpTo(fs, i) \in Nat
         /\ \A i \in 1 .. Len(fs) :
              ScopesUpTo(fs, i) = ScopesUpTo(fs, i - 1)
                                  + (IF fs[i].kind = "Scope" THEN 1 ELSE 0)
<1> DEFINE among(i) == {j \in 1 .. i : fs[j].kind = "Scope"}
<1>1. \A i \in Nat : IsFiniteSet(among(i)) /\ Cardinality(among(i)) \in Nat
  <2> SUFFICES ASSUME NEW i \in Nat
               PROVE  IsFiniteSet(among(i)) /\ Cardinality(among(i)) \in Nat
    BY Zenon
  <2>1. IsFiniteSet(1 .. i)
    BY FS_Interval
  <2>2. IsFiniteSet(among(i))
    BY Zenon, <2>1, FS_Subset
  <2> QED
    BY Zenon, <2>2, FS_CardinalityType
<1>2. ASSUME NEW i \in 1 .. Len(fs)
      PROVE  Cardinality(among(i)) = Cardinality(among(i - 1))
                                     + (IF fs[i].kind = "Scope" THEN 1 ELSE 0)
  <2>1. i - 1 \in Nat /\ i \in Nat
    OBVIOUS
  <2>2. CASE fs[i].kind = "Scope"
    <3>1. among(i) = among(i - 1) \cup {i} /\ i \notin among(i - 1)
      BY <2>1, <2>2
    <3> QED
      BY Zenon, <1>1, <2>1, <2>2, <3>1, FS_AddElement
  <2>3. CASE fs[i].kind # "Scope"
    <3>1. among(i) = among(i - 1)
      BY <2>1, <2>3
    <3> HIDE DEF among
    <3> QED
      BY <1>1, <2>1, <2>3, <3>1
  <2> QED
    BY Zenon, <2>2, <2>3
<1>3. Cardinality(among(0)) = 0
  BY FS_EmptySet
<1>4. \A i : ScopesUpTo(fs, i) = Cardinality(among(i))
  BY Zenon DEF ScopesUpTo
<1> HIDE DEF among
<1>5. \A i \in 0 .. Len(fs) : i \in Nat
  OBVIOUS
<1> QED
  BY Zenon, <1>1, <1>2, <1>3, <1>4, <1>5

(* Only the objects below count.                                           *)
LEMMA ScopesBelow ==
  ASSUME NEW fs, NEW gs, NEW n \in Nat, \A i \in 1 .. n : gs[i] = fs[i]
  PROVE  \A i \in 0 .. n : ScopesUpTo(gs, i) = ScopesUpTo(fs, i)
<1> SUFFICES ASSUME NEW i \in 0 .. n
             PROVE  ScopesUpTo(gs, i) = ScopesUpTo(fs, i)
  BY Zenon
<1>1. \A j \in 1 .. i : gs[j] = fs[j]
  OBVIOUS
<1>2. {j \in 1 .. i : gs[j].kind = "Scope"} = {j \in 1 .. i : fs[j].kind = "Scope"}
  BY Zenon, <1>1
<1> QED
  BY Zenon, <1>2 DEF ScopesUpTo

(* There are at most as many scopes below an object as below a higher one. *)
LEMMA FirstScopesFit ==
  ASSUME NEW fs \in Seq(Frame), NEW i \in 1 .. Len(fs), fs[i].kind = "Scope"
  PROVE  ScopesUpTo(fs, i) \in 1 .. ScopesUpTo(fs, Len(fs))
<1> DEFINE among(k) == {j \in 1 .. k : fs[j].kind = "Scope"}
           n == Len(fs)
<1>1. IsFiniteSet(1 .. n) /\ n \in Nat
  BY FS_Interval
<1>2. IsFiniteSet(among(n)) /\ among(i) \in SUBSET among(n)
  BY <1>1, FS_Subset
<1>3. Cardinality(among(i)) <= Cardinality(among(n))
  BY Zenon, <1>2, FS_Subset
<1>4. ScopesUpTo(fs, i) <= ScopesUpTo(fs, n)
  BY Zenon, <1>3 DEF ScopesUpTo
<1>5. /\ ScopesUpTo(fs, i) \in Nat /\ ScopesUpTo(fs, i - 1) \in Nat
      /\ ScopesUpTo(fs, n) \in Nat
      /\ ScopesUpTo(fs, i) = ScopesUpTo(fs, i - 1) + 1
  BY <1>1, ScopesAreCounted
<1> QED
  BY <1>4, <1>5
-----------------------------------------------------------------------------
(* How a state and the stack of its thread change together.                *)

(* The stack guard changes, the stack does not.                            *)
LEMMA BelongsChanged ==
  ASSUME NEW tl, NEW new, NEW t, NEW fs \in Seq(Frame), NEW due, NEW left,
         Belongs(tl, t, fs, due),
         Good(new), Pending(new) = left, new.real \in OwnLimits(t), SameScopes(new, tl)
  PROVE  Belongs(new, t, fs, left)
<1>1. tl.scopes \in Seq(ScopeRecord)
  BY Zenon DEF Belongs, Good, ThreadLocal
<1>2. ASSUME NEW i \in DOMAIN fs, fs[i].kind = "Scope"
      PROVE  new.scopes[ScopesUpTo(fs, i)].mask = fs[i].mask
  <2>1. ScopesUpTo(fs, i) \in 1 .. Len(tl.scopes)
    BY <1>2, FirstScopesFit DEF Belongs
  <2>2. ScopesUpTo(fs, i) \in DOMAIN tl.scopes
    BY <1>1, <2>1
  <2> QED
    BY Zenon, <1>2, <2>2 DEF Belongs, SameScopes
<1> QED
  BY Zenon, <1>2 DEF Belongs, SameScopes

(* A locker or an unlocker is put on the stack, or taken off it.           *)
LEMMA BelongsPushed ==
  ASSUME NEW tl, NEW t, NEW fs \in Seq(Frame), NEW due, Belongs(tl, t, fs, due),
         NEW gs \in Seq(Frame), Len(gs) = Len(fs) + 1,
         \A i \in 1 .. Len(fs) : gs[i] = fs[i], gs[Len(gs)].kind # "Scope"
  PROVE  Belongs(tl, t, gs, due)
<1> DEFINE n == Len(fs)
<1>1. n \in Nat /\ DOMAIN gs = 1 .. n + 1 /\ DOMAIN fs = 1 .. n
  OBVIOUS
<1>2. \A i \in 0 .. n : ScopesUpTo(gs, i) = ScopesUpTo(fs, i)
  BY Zenon, <1>1, ScopesBelow
<1>3. ScopesUpTo(gs, n + 1) = ScopesUpTo(gs, n)
  BY <1>1, ScopesAreCounted
<1> HIDE DEF n
<1>4. Len(tl.scopes) = ScopesUpTo(gs, Len(gs))
  BY <1>1, <1>2, <1>3 DEF Belongs, n
<1>5. ASSUME NEW i \in DOMAIN gs, gs[i].kind = "Scope"
      PROVE  tl.scopes[ScopesUpTo(gs, i)].mask = gs[i].mask
  <2>1. i \in 1 .. n
    BY <1>1, <1>5 DEF n
  <2>2. gs[i] = fs[i] /\ ScopesUpTo(gs, i) = ScopesUpTo(fs, i)
    BY <1>1, <1>2, <2>1 DEF n
  <2> QED
    BY Zenon, <1>1, <1>5, <2>1, <2>2 DEF Belongs
<1> QED
  BY Zenon, <1>4, <1>5 DEF Belongs

(* A state belongs to its thread when an object other than a scope goes.   *)
LEMMA BelongsPopped ==
  ASSUME NEW tl, NEW t, NEW fs \in Seq(Frame), NEW due, Belongs(tl, t, fs, due),
         NEW gs \in Seq(Frame), Len(gs) + 1 = Len(fs),
         \A i \in 1 .. Len(gs) : gs[i] = fs[i], fs[Len(fs)].kind # "Scope"
  PROVE  Belongs(tl, t, gs, due)
<1> DEFINE n == Len(gs)
<1>1. n \in Nat /\ DOMAIN fs = 1 .. n + 1 /\ DOMAIN gs = 1 .. n
  OBVIOUS
<1>2. \A i \in 0 .. n : ScopesUpTo(gs, i) = ScopesUpTo(fs, i)
  BY Zenon, <1>1, ScopesBelow
<1>3. ScopesUpTo(fs, n + 1) = ScopesUpTo(fs, n)
  BY <1>1, ScopesAreCounted
<1> HIDE DEF n
<1>4. Len(tl.scopes) = ScopesUpTo(gs, Len(gs))
  BY <1>1, <1>2, <1>3 DEF Belongs, n
<1>5. ASSUME NEW i \in DOMAIN gs, gs[i].kind = "Scope"
      PROVE  tl.scopes[ScopesUpTo(gs, i)].mask = gs[i].mask
  <2>1. i \in 1 .. n /\ i \in DOMAIN fs
    BY <1>1
  <2>2. gs[i] = fs[i] /\ ScopesUpTo(gs, i) = ScopesUpTo(fs, i)
    BY <1>1, <1>2, <2>1 DEF n
  <2> QED
    BY Zenon, <1>5, <2>1, <2>2 DEF Belongs
<1> QED
  BY Zenon, <1>4, <1>5 DEF Belongs

(* A scope is opened.                                                      *)
LEMMA BelongsOpened ==
  ASSUME NEW tl, NEW t, NEW fs \in Seq(Frame), NEW due, Belongs(tl, t, fs, due),
         NEW gs \in Seq(Frame), Len(gs) = Len(fs) + 1,
         \A i \in 1 .. Len(fs) : gs[i] = fs[i],
         NEW m \in SUBSET InterruptFlag, gs[Len(gs)] = Scope(m)
  PROVE  Belongs(PushPostponeInterruptsScope(tl, m), t, gs, due)
<1> DEFINE n == Len(fs)
           new == PushPostponeInterruptsScope(tl, m)
           k == Len(tl.scopes)
<1>1. n \in Nat /\ DOMAIN gs = 1 .. n + 1 /\ DOMAIN fs = 1 .. n
  OBVIOUS
<1>2. \A i \in 0 .. n : ScopesUpTo(gs, i) = ScopesUpTo(fs, i)
  BY Zenon, <1>1, ScopesBelow
<1>3. gs[n + 1].kind = "Scope" /\ gs[n + 1].mask = m
  BY Zenon, FramesAreTyped
<1>4. ScopesUpTo(gs, n + 1) = ScopesUpTo(gs, n) + 1
  BY SMTT(60), <1>1, <1>3, ScopesAreCounted
<1>5. /\ Good(new) /\ Pending(new) = Pending(tl) /\ new.real = tl.real
      /\ Len(new.scopes) = k + 1 /\ new.scopes[k + 1].mask = m
      /\ \A i \in DOMAIN tl.scopes : new.scopes[i] = tl.scopes[i]
  BY Zenon, PushKeepsPending DEF Belongs
<1>6. DOMAIN tl.scopes = 1 .. k
  BY DEF Belongs, Good, ThreadLocal
<1> HIDE DEF n, new, k
<1>7. k = ScopesUpTo(fs, n) /\ Len(new.scopes) = ScopesUpTo(gs, Len(gs))
  BY <1>1, <1>2, <1>4, <1>5 DEF Belongs, n, k
<1>8. ASSUME NEW i \in DOMAIN gs, gs[i].kind = "Scope"
      PROVE  new.scopes[ScopesUpTo(gs, i)].mask = gs[i].mask
  <2>1. CASE i = n + 1
    BY <1>1, <1>2, <1>3, <1>4, <1>5, <1>7, <2>1
  <2>2. CASE i # n + 1
    <3>1. i \in 1 .. n
      BY <1>1, <2>2
    <3>2. gs[i] = fs[i] /\ ScopesUpTo(gs, i) = ScopesUpTo(fs, i)
      BY <1>1, <1>2, <3>1 DEF n
    <3>3. ScopesUpTo(fs, i) \in 1 .. k
      BY Zenon, <1>7, <1>8, <3>1, <3>2, FirstScopesFit DEF n
    <3>4. tl.scopes[ScopesUpTo(fs, i)].mask = fs[i].mask
      BY Zenon, <1>1, <1>8, <3>1, <3>2 DEF Belongs
    <3> QED
      BY Zenon, <1>5, <1>6, <3>2, <3>3, <3>4
  <2> QED
    BY Zenon, <2>1, <2>2
<1> QED
  BY Zenon, <1>5, <1>7, <1>8 DEF Belongs, new

(* The innermost scope is closed.                                          *)
LEMMA BelongsClosed ==
  ASSUME NEW tl, NEW t, NEW fs \in Seq(Frame), NEW due, Belongs(tl, t, fs, due),
         NEW gs \in Seq(Frame), Len(gs) + 1 = Len(fs),
         \A i \in 1 .. Len(gs) : gs[i] = fs[i], fs[Len(fs)].kind = "Scope"
  PROVE  Belongs(PopPostponeInterruptsScope(tl), t, gs, due)
<1> DEFINE n == Len(gs)
           new == PopPostponeInterruptsScope(tl)
           k == Len(tl.scopes)
<1>1. n \in Nat /\ DOMAIN fs = 1 .. n + 1 /\ DOMAIN gs = 1 .. n
  OBVIOUS
<1>2. \A i \in 0 .. n : ScopesUpTo(gs, i) = ScopesUpTo(fs, i)
  BY Zenon, <1>1, ScopesBelow
<1>3. ScopesUpTo(fs, n + 1) = ScopesUpTo(fs, n) + 1 /\ ScopesUpTo(fs, n) \in Nat
  BY <1>1, ScopesAreCounted
<1>4. k = ScopesUpTo(fs, n) + 1 /\ tl.scopes # <<>>
  <2>1. k = ScopesUpTo(fs, n + 1)
    BY Zenon DEF Belongs
  <2> QED
    BY <1>3, <2>1
<1>5. /\ Good(new) /\ Pending(new) = Pending(tl) /\ new.real = tl.real
      /\ Len(new.scopes) = k - 1
      /\ \A i \in 1 .. k - 1 : new.scopes[i] = tl.scopes[i]
  BY Zenon, <1>4, PopKeepsPending DEF Belongs
<1> HIDE DEF n, new, k
<1>6. Len(new.scopes) = ScopesUpTo(gs, Len(gs))
  BY <1>1, <1>2, <1>3, <1>4, <1>5 DEF n
<1>7. ASSUME NEW i \in DOMAIN gs, gs[i].kind = "Scope"
      PROVE  new.scopes[ScopesUpTo(gs, i)].mask = gs[i].mask
  <2>1. i \in 1 .. n /\ i \in DOMAIN fs
    BY <1>1
  <2>2. gs[i] = fs[i] /\ ScopesUpTo(gs, i) = ScopesUpTo(fs, i)
    BY <1>1, <1>2, <2>1 DEF n
  <2>3. ScopesUpTo(gs, i) \in 1 .. k - 1
    <3>1. ScopesUpTo(gs, i) \in 1 .. ScopesUpTo(gs, n)
      BY Zenon, <1>7, <2>1, FirstScopesFit DEF n
    <3> QED
      BY <1>1, <1>2, <1>3, <1>4, <3>1
  <2> QED
    BY Zenon, <1>5, <1>7, <2>1, <2>2, <2>3 DEF Belongs
<1> QED
  BY Zenon, <1>5, <1>6, <1>7 DEF Belongs, new
-----------------------------------------------------------------------------
(* The structure is kept, action by action.                                *)

FirstIsFirst(fs) == \A i \in DOMAIN fs : IsFirst(fs[i]) <=> i = 1

(* Push keeps the first locker the first one.                              *)
LEMMA PushedShape ==
  ASSUME TypeOK, StacksAreShaped, NEW t \in Threads, NEW f \in Frame, Push(t, f),
         IsFirst(f) <=> frames[t] = <<>>
  PROVE  \A u \in Threads : FirstIsFirst(frames'[u])
<1> SUFFICES ASSUME NEW u \in Threads
             PROVE  FirstIsFirst(frames'[u])
  BY Zenon
<1> DEFINE n == Len(frames[u])
<1>1. /\ n \in Nat /\ DOMAIN frames[u] = 1 .. n
      /\ \A i \in 1 .. n : IsFirst(frames[u][i]) <=> i = 1
  BY StacksAreSequences DEF StacksAreShaped
<1>2. CASE u # t
  BY Zenon, <1>1, <1>2, PushedFrames DEF FirstIsFirst
<1>3. CASE u = t
  <2>1. /\ frames'[u] \in Seq(Frame) /\ Len(frames'[u]) = n + 1
        /\ frames'[u][n + 1] = f
        /\ \A i \in 1 .. n : frames'[u][i] = frames[u][i]
    BY Zenon, <1>3, PushedFrames
  <2>2. DOMAIN frames'[u] = 1 .. n + 1
    BY <2>1
  <2>3. IsFirst(f) <=> n + 1 = 1
    BY <1>3, StacksAreSequences
  <2> HIDE DEF n
  <2> QED
    BY <1>1, <2>1, <2>2, <2>3 DEF FirstIsFirst
<1> QED
  BY Zenon, <1>2, <1>3

(* Pop keeps the first locker the first one.                               *)
LEMMA PoppedShape ==
  ASSUME TypeOK, StacksAreShaped, NEW t \in Threads, frames[t] # <<>>, Pop(t)
  PROVE  \A u \in Threads : FirstIsFirst(frames'[u])
<1> SUFFICES ASSUME NEW u \in Threads
             PROVE  FirstIsFirst(frames'[u])
  BY Zenon
<1> DEFINE n == Len(frames[u])
<1>1. /\ n \in Nat /\ DOMAIN frames[u] = 1 .. n
      /\ \A i \in 1 .. n : IsFirst(frames[u][i]) <=> i = 1
  BY Zenon, StacksAreSequences DEF StacksAreShaped
<1>2. CASE u # t
  BY Zenon, <1>1, <1>2, PoppedFrames DEF FirstIsFirst
<1>3. CASE u = t
  <2>1. /\ frames'[u] \in Seq(Frame) /\ Len(frames'[u]) = n - 1
        /\ \A i \in 1 .. n - 1 : frames'[u][i] = frames[u][i]
    BY Zenon, <1>3, PoppedFrames
  <2>2. DOMAIN frames'[u] = 1 .. n - 1
    BY <2>1
  <2> HIDE DEF n
  <2> QED
    BY <1>1, <2>1, <2>2 DEF FirstIsFirst
<1> QED
  BY Zenon, <1>2, <1>3

(* The stack guard works, and nothing else moves.                          *)
LEMMA GuardedStructure ==
  ASSUME Structure, StatesAreCounted,
         UNCHANGED <<listVars, mutex_owner, stack_limit, frames, step, occupant>>,
         thread_local' \in ThreadLocal, owed' \in [Threads -> SUBSET InterruptFlag],
         to_handle' \in [Threads -> Seq(InterruptFlag)],
         \A t \in Threads : to_handle'[t] # <<>> =>
           to_handle[t] # <<>> \/ (mutex_owner = t /\ step[t] = "none")
  PROVE  Structure' /\ StatesAreCounted'
<1> USE DEF listVars
<1>1. TypeOK'
  BY Zenon DEF Structure, TypeOK
<1>2. StacksAreShaped'
  BY Zenon DEF Structure, StacksAreShaped, HasTop, Top
<1>3. OwnersAgree'
  BY Zenon DEF Structure, OwnersAgree, OwnerAgrees, Present
<1>4. StatesAreDisjoint'
  BY Zenon DEF Structure, StatesAreDisjoint
<1>5. StatesAreCounted'
  BY Zenon DEF StatesAreCounted
<1> QED
  BY Zenon, <1>1, <1>2, <1>3, <1>4, <1>5 DEF Structure

(* A locker inside a locker changes no owner and no list.                  *)
LEMMA NestedLockerStructure ==
  ASSUME Structure, StatesAreCounted, NEW t \in Threads, NestedLocker(t)
  PROVE  Structure' /\ StatesAreCounted'
<1> USE DEF listVars
<1>1. Push(t, Locker(FALSE, TRUE)) /\ mutex_owner = t /\ step[t] = "none"
  BY Zenon DEF NestedLocker, Runs
<1>2. frames[t] # <<>> /\ TypeOK /\ StacksAreShaped
  BY Zenon, <1>1 DEF Structure, OwnersAgree, OwnerAgrees
<1>3. Locker(FALSE, TRUE) \in Frame /\ ~ IsFirst(Locker(FALSE, TRUE))
  BY Zenon, FramesAreTyped
<1>4. /\ frames' \in [Threads -> Seq(Frame)] /\ frames'[t] # <<>>
      /\ \A u \in Threads : u # t => frames'[u] = frames[u]
  BY Zenon, <1>1, <1>2, <1>3, PushedFrames
<1>5. TypeOK'
  BY Zenon, <1>2, <1>4 DEF NestedLocker, TypeOK
<1>6. StacksAreShaped'
  <2>1. \A u \in Threads : FirstIsFirst(frames'[u])
    BY Zenon, <1>1, <1>2, <1>3, PushedShape
  <2>2. UNCHANGED step
    BY Zenon DEF NestedLocker
  <2> QED
    BY <1>1, <1>2, <1>4, <2>1, <2>2 DEF StacksAreShaped, FirstIsFirst, HasTop, Top
<1>7. OwnersAgree'
  BY Zenon, <1>2, <1>4 DEF Structure, OwnersAgree, OwnerAgrees, Present, NestedLocker
<1>8. StatesAreDisjoint' /\ StatesAreCounted'
  BY Zenon DEF Structure, StatesAreDisjoint, StatesAreCounted, NestedLocker
<1> QED
  BY Zenon, <1>5, <1>6, <1>7, <1>8 DEF Structure

(* The thread that takes the mutex is restored by its next step.           *)
LEMMA LockStructure ==
  ASSUME Structure, StatesAreCounted, NEW t \in Threads,
         NEW from \in {"locker", "unlocker"}, Lock(t, from)
  PROVE  Structure' /\ StatesAreCounted'
<1> USE DEF listVars
<1>1. TypeOK /\ TypeOK'
  BY Zenon DEF Structure, TypeOK, Lock, Step
<1>2. /\ mutex_owner = Null /\ mutex_owner' = t /\ step[t] = "none"
      /\ step' \in [Threads -> Step] /\ step'[t] = from
      /\ \A u \in Threads : u # t => step'[u] = step[u]
  BY Zenon, <1>1 DEF Lock, Outside, TypeOK
<1>3. UNCHANGED <<frames, to_handle, thread_state, occupant, stack_limit>>
      /\ UNCHANGED <<lazily_archived_thread, lazily_archived_thread_state>>
  BY Zenon DEF Lock
<1>4. StacksAreShaped'
  BY SMTT(60), <1>2, <1>3 DEF Structure, StacksAreShaped, HasTop, Top, Lock
<1>5. OwnersAgree'
  <2>1. \A u \in Threads : u # mutex_owner
    BY Zenon, <1>2, ThreadsAssumption
  <2>2. \A u \in Threads : step[u] = "none" /\ to_handle[u] = <<>>
    BY Zenon, <2>1 DEF Structure, OwnersAgree, OwnerAgrees
  <2>3. \A u \in Threads : ~ Present(u) /\ ~ Present(u)'
    BY Zenon, <1>2, <2>1 DEF Present
  <2> QED
    BY Zenon, <1>2, <1>3, <2>1, <2>2, <2>3 DEF Structure, OwnersAgree, OwnerAgrees
<1>6. StatesAreDisjoint' /\ StatesAreCounted'
  BY Zenon DEF Structure, StatesAreDisjoint, StatesAreCounted, Lock
<1> QED
  BY Zenon, <1>1, <1>4, <1>5, <1>6 DEF Structure

(* The stack after RestoreThread: never empty, and a thread is new exactly *)
(* when its first locker is the first object there.                        *)
LEMMA RestoredStack ==
  ASSUME Structure, NEW t \in Threads, step[t] \in {"locker", "unlocker"},
         NEW known \in BOOLEAN, known <=> thread_state[t] # Null, Restored(t, known)
  PROVE  /\ mutex_owner = t /\ mutex_owner' = t
         /\ frames[t] # <<>> <=> known
         /\ frames' \in [Threads -> Seq(Frame)] /\ frames'[t] # <<>>
         /\ \A u \in Threads : u # t => frames'[u] = frames[u]
         /\ \A u \in Threads : FirstIsFirst(frames'[u])
         /\ ~ known => Len(frames'[t]) = 1
         /\ step' \in [Threads -> Step] /\ step'[t] = (IF known THEN "none" ELSE "new")
         /\ \A u \in Threads : u # t => step'[u] = step[u]
         /\ \A u \in Threads : u # t => step[u] = "none" /\ to_handle[u] = <<>>
         /\ to_handle[t] = <<>>
<1>1. TypeOK /\ StacksAreShaped /\ mutex_owner = t /\ mutex_owner' = t
  BY Zenon DEF Structure, OwnersAgree, OwnerAgrees, Restored
<1>2. frames[t] # <<>> <=> known
  BY Zenon DEF Structure, OwnersAgree, OwnerAgrees, Present
<1>3. /\ step' \in [Threads -> Step]
      /\ step'[t] = (IF known THEN "none" ELSE "new")
      /\ \A u \in Threads : u # t => step'[u] = step[u]
  BY Zenon, <1>1 DEF Restored, TypeOK, Step
<1>4. /\ \A u \in Threads : u # t => step[u] = "none" /\ to_handle[u] = <<>>
      /\ to_handle[t] = <<>>
  BY Zenon, <1>1 DEF Structure, OwnersAgree, OwnerAgrees
<1>5. CASE step[t] = "unlocker"
  <2>1. frames[t] # <<>> /\ Top(t).kind = "Unlocker" /\ Pop(t)
    BY Zenon, <1>1, <1>5 DEF StacksAreShaped, HasTop, Restored
  <2>2. Len(frames[t]) \in Nat /\ Len(frames[t]) >= 2
    <3>1. Len(frames[t]) \in Nat \ {0} /\ 1 \in DOMAIN frames[t]
      BY <1>1, <2>1, StacksAreSequences
    <3>2. frames[t][1].kind = "Locker"
      BY Zenon, <1>1, <3>1 DEF StacksAreShaped, IsFirst
    <3> QED
      BY <2>1, <3>1, <3>2 DEF Top
  <2>3. /\ frames' \in [Threads -> Seq(Frame)]
        /\ \A u \in Threads : u # t => frames'[u] = frames[u]
        /\ Len(frames'[t]) = Len(frames[t]) - 1
    BY Zenon, <1>1, <2>1, PoppedFrames
  <2>4. \A u \in Threads : FirstIsFirst(frames'[u])
    BY Zenon, <1>1, <2>1, PoppedShape
  <2>5. frames'[t] # <<>>
    BY <2>2, <2>3
  <2> QED
    BY Zenon, <1>1, <1>2, <1>3, <1>4, <2>1, <2>3, <2>4, <2>5
<1>6. CASE step[t] # "unlocker"
  <2> DEFINE f == Locker(TRUE, ~ known)
  <2>1. Push(t, f) /\ f \in Frame /\ (IsFirst(f) <=> frames[t] = <<>>)
    BY Zenon, <1>2, <1>6, FramesAreTyped DEF Restored
  <2> HIDE DEF f
  <2>2. /\ frames' \in [Threads -> Seq(Frame)] /\ frames'[t] # <<>>
        /\ \A u \in Threads : u # t => frames'[u] = frames[u]
        /\ Len(frames'[t]) = Len(frames[t]) + 1
    BY Zenon, <1>1, <2>1, PushedFrames
  <2>3. \A u \in Threads : FirstIsFirst(frames'[u])
    BY Zenon, <1>1, <2>1, PushedShape
  <2>4. ~ known => Len(frames[t]) = 0
    BY Zenon, <1>1, <1>2, StacksAreSequences
  <2> QED
    BY SMTT(60), <1>1, <1>2, <1>3, <1>4, <2>2, <2>3, <2>4
<1> QED
  BY Zenon, <1>5, <1>6

(* The ThreadState that is freed comes first.                              *)
LEMMA FreedList ==
  ASSUME NEW list \in Seq(Nat), NEW state \in Nat
  PROVE  LET longer == <<state>> \o list
         IN  /\ longer \in Seq(Nat) /\ Len(longer) = Len(list) + 1
             /\ Len(list) \in Nat
             /\ DOMAIN longer = 1 .. Len(list) + 1 /\ DOMAIN list = 1 .. Len(list)
             /\ longer[1] = state
             /\ \A i \in 2 .. Len(list) + 1 : longer[i] = list[i - 1]
OBVIOUS

(* A ThreadState that is freed was in no list before.                      *)
LEMMA FreedIsDisjoint ==
  ASSUME NEW list \in Seq(Nat), NEW state \in Nat, NEW free, state \in free,
         \A i \in DOMAIN list :
           /\ list[i] \in free /\ list[i] # state
           /\ \A j \in DOMAIN list : list[i] = list[j] => i = j
  PROVE  LET longer == <<state>> \o list
         IN  \A i \in DOMAIN longer :
               /\ longer[i] \in free
               /\ \A j \in DOMAIN longer : longer[i] = longer[j] => i = j
<1> DEFINE longer == <<state>> \o list
           n == Len(list)
<1>1. /\ n \in Nat /\ DOMAIN longer = 1 .. n + 1 /\ DOMAIN list = 1 .. n
      /\ longer[1] = state /\ \A i \in 2 .. n + 1 : longer[i] = list[i - 1]
  BY Zenon, FreedList
<1> HIDE DEF longer, n
<1>2. ASSUME NEW i \in 2 .. n + 1
      PROVE  i - 1 \in DOMAIN list /\ longer[i] # state /\ longer[i] \in free
  <2>1. i - 1 \in DOMAIN list /\ longer[i] = list[i - 1]
    BY <1>1
  <2> QED
    BY Zenon, <2>1
<1>3. ASSUME NEW i \in 1 .. n + 1
      PROVE  longer[i] \in free
  <2>1. i = 1 \/ i \in 2 .. n + 1
    BY <1>1
  <2> QED
    BY Zenon, <1>1, <1>2, <2>1
<1>4. ASSUME NEW i \in 1 .. n + 1, NEW j \in 1 .. n + 1, longer[i] = longer[j]
      PROVE  i = j
  <2>1. CASE i = 1 \/ j = 1
    BY <1>1, <1>2, <1>4, <2>1
  <2>2. CASE i # 1 /\ j # 1
    <3>1. i \in 2 .. n + 1 /\ j \in 2 .. n + 1
      BY <1>1, <2>2
    <3>2. list[i - 1] = list[j - 1] /\ i - 1 \in DOMAIN list /\ j - 1 \in DOMAIN list
      BY Zenon, <1>1, <1>2, <1>4, <3>1
    <3>3. i - 1 = j - 1
      BY Zenon, <3>2
    <3> QED
      BY <1>1, <3>1, <3>3
  <2> QED
    BY Zenon, <2>1, <2>2
<1> QED
  BY Zenon, <1>1, <1>3, <1>4 DEF longer

(* A thread that has no part in a step of the thread that has the mutex.   *)
LEMMA OthersAgree ==
  ASSUME Structure, NEW u \in Threads, mutex_owner # u, mutex_owner' # u,
         occupant' # u, lazily_archived_thread' = Null,
         step'[u] = step[u], frames'[u] = frames[u], to_handle'[u] = to_handle[u],
         thread_state'[u] = thread_state[u], stack_limit'[u] = stack_limit[u]
  PROVE  OwnerAgrees(u)'
<1>1. OwnerAgrees(u) /\ u # Null
  BY Zenon, ThreadsAssumption DEF Structure, OwnersAgree
<1> QED
  BY Zenon, <1>1 DEF OwnerAgrees, Present

(* RestoreThread when the thread's own state is in place: the ThreadState  *)
(* that was reserved is free again.                                        *)
LEMMA RestoreLazilyStructure ==
  ASSUME Structure, StatesAreCounted, NEW t \in Threads, RestoreLazily(t)
  PROVE  Structure' /\ StatesAreCounted'
<1> DEFINE state == lazily_archived_thread_state
<1>1. /\ step[t] \in {"locker", "unlocker"} /\ lazily_archived_thread = t
      /\ Restored(t, TRUE) /\ TypeOK
      /\ lazily_archived_thread' = Null /\ lazily_archived_thread_state' = Null
      /\ free_list' = <<state>> \o free_list
      /\ UNCHANGED <<in_use_list, data, thread_local, occupant>>
      /\ UNCHANGED <<mutex_owner, stack_limit, to_handle, owed>>
  BY Zenon DEF RestoreLazily, Restored, Structure
<1>2. /\ thread_state[t] = state /\ state # Null /\ occupant = t
      /\ state \in Nat /\ state \in DOMAIN data /\ state \notin in_use_list
  BY Zenon, <1>1, ThreadsAssumption DEF Structure, OwnersAgree, OwnerAgrees, StatesAreDisjoint, TypeOK
<1>3. /\ thread_state' \in [Threads -> Nat \cup {Null}] /\ thread_state'[t] = Null
      /\ \A u \in Threads : u # t => thread_state'[u] = thread_state[u]
  BY Zenon, <1>1 DEF RestoreLazily, TypeOK
<1>4. /\ frames' \in [Threads -> Seq(Frame)] /\ frames'[t] # <<>>
      /\ \A u \in Threads : u # t => frames'[u] = frames[u]
      /\ \A u \in Threads : FirstIsFirst(frames'[u])
      /\ step' \in [Threads -> Step] /\ step'[t] = "none"
      /\ \A u \in Threads : u # t => step'[u] = step[u]
      /\ mutex_owner = t /\ to_handle[t] = <<>>
      /\ \A u \in Threads : u # t => step[u] = "none" /\ to_handle[u] = <<>>
  BY Zenon, <1>1, <1>2, RestoredStack
<1>5. free_list' \in Seq(Nat) /\ Len(free_list') = Len(free_list) + 1
  BY Zenon, <1>1, <1>2, FreedList DEF TypeOK
<1>6. TypeOK'
  BY Zenon, <1>1, <1>3, <1>4, <1>5 DEF TypeOK
<1>7. StacksAreShaped'
  BY Zenon, <1>4 DEF StacksAreShaped, FirstIsFirst
<1>8. OwnersAgree'
  <2>1. \A u \in Threads : u # t => OwnerAgrees(u)'
    BY Zenon, <1>1, <1>2, <1>3, <1>4, OthersAgree
  <2>2. OwnerAgrees(t)'
    BY Zenon, <1>1, <1>2, <1>3, <1>4, ThreadsAssumption
       DEF Structure, OwnersAgree, OwnerAgrees, Present
  <2> QED
    BY Zenon, <1>1, <2>1, <2>2 DEF OwnersAgree
<1>9. StatesAreDisjoint'
  <2>1. /\ Null \notin DOMAIN data /\ Null # state
        /\ \A i \in DOMAIN free_list :
             /\ free_list[i] \in DOMAIN data /\ free_list[i] \notin in_use_list
             /\ free_list[i] # Null /\ free_list[i] # state
             /\ \A j \in DOMAIN free_list : free_list[i] = free_list[j] => i = j
    BY <1>1, <1>2, ThreadsAssumption DEF Structure, StatesAreDisjoint, TypeOK
  <2>2. free_list \in Seq(Nat)
    BY Zenon, <1>1 DEF TypeOK
  <2>3. \A i \in DOMAIN free_list' :
          /\ free_list'[i] \in DOMAIN data' /\ free_list'[i] \notin in_use_list'
          /\ free_list'[i] # lazily_archived_thread_state'
          /\ \A j \in DOMAIN free_list' : free_list'[i] = free_list'[j] => i = j
    <3> DEFINE free == {i \in DOMAIN data : i \notin in_use_list /\ i # Null}
    <3>1. /\ state \in free /\ state \in Nat
          /\ \A i \in DOMAIN free_list :
               /\ free_list[i] \in free /\ free_list[i] # state
               /\ \A j \in DOMAIN free_list : free_list[i] = free_list[j] => i = j
      BY Zenon, <1>2, <2>1
    <3>2. LET longer == <<state>> \o free_list
          IN  \A i \in DOMAIN longer :
                /\ longer[i] \in free
                /\ \A j \in DOMAIN longer : longer[i] = longer[j] => i = j
      <4> HIDE DEF free, state
      <4> QED
        BY Zenon, <2>2, <3>1, FreedIsDisjoint
    <3> QED
      BY Zenon, <1>1, <3>2
  <2>4. in_use_list \subseteq DOMAIN data /\ Null \notin in_use_list
    BY Zenon, <2>1 DEF Structure, StatesAreDisjoint
  <2>5. \A u \in Threads : thread_state'[u] # Null =>
          /\ thread_state'[u] \in in_use_list
          /\ \A v \in Threads : thread_state'[v] = thread_state'[u] => v = u
    BY Zenon, <1>1, <1>3 DEF Structure, StatesAreDisjoint
  <2> QED
    BY Zenon, <1>1, <2>3, <2>4, <2>5 DEF StatesAreDisjoint
<1>10. StatesAreCounted'
  <2>1. Len(free_list) \in Nat /\ Cardinality(in_use_list) \in Nat
    BY <1>1, FS_CardinalityType DEF StatesAreCounted, TypeOK
  <2> QED
    BY <1>1, <1>2, <1>5, <2>1 DEF StatesAreCounted
<1> QED
  BY Zenon, <1>6, <1>7, <1>8, <1>9, <1>10 DEF Structure

(* RestoreThread with another thread's state in place, or nobody's: first  *)
(* for a thread that is new here, then for one whose state is archived.    *)
Used == IF lazily_archived_thread_state = Null THEN in_use_list
        ELSE in_use_list \cup {lazily_archived_thread_state}

(* The ThreadStates once the state in place is archived: used or free.     *)
LEMMA UsedIsCounted ==
  ASSUME Structure, StatesAreCounted
  PROVE  /\ Used \subseteq DOMAIN data /\ Used \subseteq Nat /\ IsFiniteSet(Used)
         /\ Len(free_list) \in Nat /\ Cardinality(Used) \in Nat
         /\ Len(free_list) + Cardinality(Used) = Len(data)
         /\ Null \notin DOMAIN data /\ Null \notin Used
         /\ \A i \in DOMAIN free_list :
              /\ free_list[i] \in DOMAIN data /\ free_list[i] \notin Used
              /\ \A j \in DOMAIN free_list : free_list[i] = free_list[j] => i = j
         /\ \A u \in Threads : thread_state[u] # Null => thread_state[u] \in Used
<1>1. Null \notin DOMAIN data /\ Len(free_list) \in Nat
  BY ThreadsAssumption DEF Structure, TypeOK
<1>2. Used \subseteq DOMAIN data /\ Used \subseteq Nat
  BY Zenon DEF Used, Structure, StatesAreDisjoint, TypeOK
<1>3. \A i \in DOMAIN free_list :
        /\ free_list[i] \in DOMAIN data /\ free_list[i] \notin Used
        /\ \A j \in DOMAIN free_list : free_list[i] = free_list[j] => i = j
  BY Zenon DEF Used, Structure, StatesAreDisjoint
<1>4. \A u \in Threads : thread_state[u] # Null => thread_state[u] \in Used
  BY Zenon DEF Used, Structure, StatesAreDisjoint, OwnersAgree, OwnerAgrees
<1>5. /\ IsFiniteSet(Used)
      /\ Cardinality(Used) = Cardinality(in_use_list)
           + (IF lazily_archived_thread_state = Null THEN 0 ELSE 1)
      /\ Cardinality(in_use_list) \in Nat
  <2>1. IsFiniteSet(in_use_list) /\ Cardinality(in_use_list) \in Nat
    BY Zenon, FS_CardinalityType DEF StatesAreCounted
  <2>2. CASE lazily_archived_thread_state = Null
    BY <2>1, <2>2 DEF Used
  <2>3. CASE lazily_archived_thread_state # Null
    <3>1. lazily_archived_thread_state \notin in_use_list
      BY Zenon DEF Structure, StatesAreDisjoint
    <3> QED
      BY Zenon, <2>1, <2>3, <3>1, FS_AddElement DEF Used
  <2> QED
    BY Zenon, <2>2, <2>3
<1>6. /\ Cardinality(Used) \in Nat
      /\ Len(free_list) + Cardinality(Used) = Len(data)
  BY <1>1, <1>5 DEF StatesAreCounted
<1> QED
  BY Zenon, <1>1, <1>2, <1>3, <1>4, <1>5, <1>6

(* A new thread takes no ThreadState.                                      *)
LEMMA RestoreNewStructure ==
  ASSUME Structure, StatesAreCounted, NEW t \in Threads, thread_state[t] = Null,
         NEW blank \in ThreadLocal, NEW archived \in Seq(ThreadLocal),
         Len(archived) = Len(data), RestoreFrom(t, blank, archived, Used)
  PROVE  Structure' /\ StatesAreCounted'
<1>1. /\ step[t] \in {"locker", "unlocker"} /\ lazily_archived_thread # t /\ TypeOK
      /\ Restored(t, FALSE)
      /\ lazily_archived_thread' = Null /\ lazily_archived_thread_state' = Null
      /\ thread_local' = InitThread(blank, Suggested(t), stack_limit[t])
      /\ data' = archived /\ in_use_list' = Used /\ occupant' = Null
      /\ UNCHANGED <<free_list, thread_state>>
      /\ UNCHANGED <<mutex_owner, stack_limit, to_handle, owed>>
  BY Zenon DEF RestoreFrom, Restored, Structure
<1>2. /\ frames' \in [Threads -> Seq(Frame)] /\ frames'[t] # <<>>
      /\ \A u \in Threads : u # t => frames'[u] = frames[u]
      /\ \A u \in Threads : FirstIsFirst(frames'[u])
      /\ Len(frames'[t]) = 1
      /\ step' \in [Threads -> Step] /\ step'[t] = "new"
      /\ \A u \in Threads : u # t => step'[u] = step[u]
      /\ mutex_owner = t /\ to_handle[t] = <<>>
      /\ \A u \in Threads : u # t => step[u] = "none" /\ to_handle[u] = <<>>
  BY Zenon, <1>1, RestoredStack
<1>3. TypeOK'
  <2>1. thread_local' \in ThreadLocal
    BY Zenon, <1>1, InitIsTyped DEF TypeOK
  <2> QED
    BY Zenon, <1>1, <1>2, <2>1, UsedIsCounted DEF TypeOK
<1>4. StacksAreShaped'
  BY Zenon, <1>2 DEF StacksAreShaped, FirstIsFirst
<1>5. OwnersAgree'
  <2>1. \A u \in Threads : u # t => OwnerAgrees(u)'
    BY Zenon, <1>1, <1>2, ThreadsAssumption, OthersAgree
  <2>2. OwnerAgrees(t)'
    BY Zenon, <1>1, <1>2, ThreadsAssumption
       DEF Structure, OwnersAgree, OwnerAgrees, Present
  <2> QED
    BY Zenon, <1>1, <2>1, <2>2 DEF OwnersAgree
<1>6. DOMAIN data' = DOMAIN data
  BY SMTT(60), <1>1 DEF TypeOK
<1>7. StatesAreDisjoint'
  <2>1. \A i \in DOMAIN free_list : free_list[i] # Null
    BY Zenon, UsedIsCounted
  <2>2. \A u \in Threads : thread_state[u] # Null =>
          \A v \in Threads : thread_state[v] = thread_state[u] => v = u
    BY Zenon DEF Structure, StatesAreDisjoint
  <2>3. \A i \in DOMAIN free_list :
          /\ free_list[i] \in DOMAIN data /\ free_list[i] \notin Used
          /\ \A j \in DOMAIN free_list : free_list[i] = free_list[j] => i = j
    BY Zenon, UsedIsCounted
  <2>4. /\ Used \subseteq DOMAIN data /\ Null \notin Used
        /\ \A u \in Threads : thread_state[u] # Null => thread_state[u] \in Used
    BY Zenon, UsedIsCounted
  <2> QED
    BY Zenon, <1>1, <1>6, <2>1, <2>2, <2>3, <2>4 DEF StatesAreDisjoint
<1>8. StatesAreCounted'
  BY <1>1, UsedIsCounted DEF StatesAreCounted
<1> QED
  BY Zenon, <1>3, <1>4, <1>5, <1>7, <1>8 DEF Structure

(* The ThreadState of a thread that is known goes to the free list.        *)
LEMMA RestoreKnownStructure ==
  ASSUME Structure, StatesAreCounted, NEW t \in Threads, thread_state[t] # Null,
         NEW blank, NEW archived \in Seq(ThreadLocal),
         Len(archived) = Len(data), RestoreFrom(t, blank, archived, Used)
  PROVE  Structure' /\ StatesAreCounted'
<1> DEFINE state == thread_state[t]
<1>1. /\ step[t] \in {"locker", "unlocker"} /\ lazily_archived_thread # t /\ TypeOK
      /\ Restored(t, TRUE)
      /\ lazily_archived_thread' = Null /\ lazily_archived_thread_state' = Null
      /\ thread_local' = archived[state]
      /\ data' = [archived EXCEPT ![state] = ClearedThreadLocal]
      /\ in_use_list' = Used \ {state} /\ occupant' = t
      /\ free_list' = <<state>> \o free_list
      /\ thread_state' = [thread_state EXCEPT ![t] = Null]
      /\ UNCHANGED <<mutex_owner, stack_limit, to_handle, owed>>
  BY Zenon DEF RestoreFrom, Restored, Structure
<1>2. /\ frames' \in [Threads -> Seq(Frame)] /\ frames'[t] # <<>>
      /\ \A u \in Threads : u # t => frames'[u] = frames[u]
      /\ \A u \in Threads : FirstIsFirst(frames'[u])
      /\ step' \in [Threads -> Step] /\ step'[t] = "none"
      /\ \A u \in Threads : u # t => step'[u] = step[u]
      /\ mutex_owner = t /\ to_handle[t] = <<>>
      /\ \A u \in Threads : u # t => step[u] = "none" /\ to_handle[u] = <<>>
  BY Zenon, <1>1, RestoredStack
<1>3. state \in Used /\ state \in Nat /\ state \in 1 .. Len(archived)
      /\ DOMAIN data = 1 .. Len(archived)
  BY <1>1, UsedIsCounted DEF TypeOK
<1>4. /\ thread_state' \in [Threads -> Nat \cup {Null}] /\ thread_state'[t] = Null
      /\ \A u \in Threads : u # t => thread_state'[u] = thread_state[u]
  BY Zenon, <1>1 DEF TypeOK
<1>5. /\ data' \in Seq(ThreadLocal) /\ Len(data') = Len(data)
      /\ DOMAIN data' = DOMAIN data /\ archived[state] \in ThreadLocal
  <2>1. ClearedThreadLocal \in ThreadLocal
    BY Zenon, ClearedIsGood DEF Good
  <2>2. data' \in Seq(ThreadLocal) /\ Len(data') = Len(archived)
    BY SMTT(60), <1>1, <1>3, <2>1
  <2> QED
    BY <1>3, <2>2
<1>6. free_list' \in Seq(Nat) /\ Len(free_list') = Len(free_list) + 1
  BY Zenon, <1>1, <1>3, FreedList DEF TypeOK
<1>7. TypeOK'
  BY Zenon, <1>1, <1>2, <1>4, <1>5, <1>6, UsedIsCounted DEF TypeOK
<1>8. StacksAreShaped'
  BY Zenon, <1>2 DEF StacksAreShaped, FirstIsFirst
<1>9. OwnersAgree'
  <2>1. \A u \in Threads : u # t => OwnerAgrees(u)'
    BY Zenon, <1>1, <1>2, <1>4, OthersAgree
  <2>2. OwnerAgrees(t)'
    BY Zenon, <1>1, <1>2, <1>4, ThreadsAssumption
       DEF Structure, OwnersAgree, OwnerAgrees, Present
  <2> QED
    BY Zenon, <1>1, <2>1, <2>2 DEF OwnersAgree
<1>10. StatesAreDisjoint'
  <2>1. \A i \in DOMAIN free_list :
          /\ free_list[i] \in DOMAIN data /\ free_list[i] \notin Used \ {state}
          /\ free_list[i] # Null /\ free_list[i] # state
          /\ \A j \in DOMAIN free_list : free_list[i] = free_list[j] => i = j
    BY Zenon, <1>3, UsedIsCounted
  <2>2. free_list \in Seq(Nat)
    BY Zenon, <1>1 DEF TypeOK
  <2>3. \A i \in DOMAIN free_list' :
          /\ free_list'[i] \in DOMAIN data' /\ free_list'[i] \notin in_use_list'
          /\ free_list'[i] # lazily_archived_thread_state'
          /\ \A j \in DOMAIN free_list' : free_list'[i] = free_list'[j] => i = j
    <3> DEFINE free == {i \in DOMAIN data : i \notin Used \ {state} /\ i # Null}
    <3>1. /\ state \in free /\ state \in Nat
          /\ \A i \in DOMAIN free_list :
               /\ free_list[i] \in free /\ free_list[i] # state
               /\ \A j \in DOMAIN free_list : free_list[i] = free_list[j] => i = j
      BY Zenon, <1>3, <2>1
    <3>2. LET longer == <<state>> \o free_list
          IN  \A i \in DOMAIN longer :
                /\ longer[i] \in free
                /\ \A j \in DOMAIN longer : longer[i] = longer[j] => i = j
      <4> HIDE DEF free, state
      <4> QED
        BY Zenon, <2>2, <3>1, FreedIsDisjoint
    <3> QED
      BY Zenon, <1>1, <1>5, <3>2
  <2>4. in_use_list' \subseteq DOMAIN data' /\ Null \notin in_use_list'
    BY Zenon, <1>1, <1>5, UsedIsCounted
  <2>5. ASSUME NEW u \in Threads, thread_state'[u] # Null
        PROVE  /\ thread_state'[u] \in in_use_list'
               /\ \A v \in Threads : thread_state'[v] = thread_state'[u] => v = u
    <3>1. /\ u # t /\ thread_state'[u] = thread_state[u] /\ thread_state[u] # Null
          /\ \A v \in Threads : thread_state[v] = thread_state[u] => v = u
      BY Zenon, <1>4, <2>5 DEF Structure, StatesAreDisjoint
    <3>2. thread_state[u] \in Used /\ thread_state[u] # state
      BY Zenon, <3>1, UsedIsCounted
    <3> QED
      BY Zenon, <1>1, <1>4, <2>5, <3>1, <3>2
  <2> QED
    BY Zenon, <1>1, <2>3, <2>4, <2>5 DEF StatesAreDisjoint
<1>11. StatesAreCounted'
  <2>1. IsFiniteSet(in_use_list') /\ Cardinality(in_use_list') = Cardinality(Used) - 1
    BY Zenon, <1>1, <1>3, UsedIsCounted, FS_RemoveElement
  <2> QED
    BY SMTT(60), <1>1, <1>5, <1>6, <2>1, UsedIsCounted DEF StatesAreCounted
<1> QED
  BY Zenon, <1>7, <1>8, <1>9, <1>10, <1>11 DEF Structure

(* RestoreThread first archives the state in place where it belongs.       *)
LEMMA RestoreThreadIsFrom ==
  ASSUME Structure, NEW t \in Threads, RestoreThread(t)
  PROVE  \E blank \in ThreadLocal, archived \in Seq(ThreadLocal) :
           /\ Len(archived) = Len(data)
           /\ RestoreFrom(t, blank, archived, Used)
           /\ \A i \in DOMAIN data : archived[i] =
                IF i = lazily_archived_thread_state THEN thread_local ELSE data[i]
<1>1. /\ thread_local \in ThreadLocal /\ data \in Seq(ThreadLocal)
      /\ lazily_archived_thread_state # Null =>
           lazily_archived_thread_state \in DOMAIN data
      /\ lazily_archived_thread = Null <=> lazily_archived_thread_state = Null
      /\ Null \notin DOMAIN data
  BY SMTT(60), ThreadsAssumption DEF Structure, TypeOK, StatesAreDisjoint, OwnersAgree
<1>2. CASE lazily_archived_thread = Null
  <2>1. /\ RestoreFrom(t, thread_local, data, Used)
        /\ \A i \in DOMAIN data : i # lazily_archived_thread_state
    BY Zenon, <1>1, <1>2 DEF RestoreThread, Used
  <2> QED
    BY Zenon, <1>1, <2>1
<1>3. CASE lazily_archived_thread # Null
  <2> DEFINE archived == ArchiveStackGuard(lazily_archived_thread_state)
  <2>1. RestoreFrom(t, ClearedThreadLocal, archived, Used)
    BY Zenon, <1>1, <1>3 DEF RestoreThread, Used
  <2>2. /\ archived \in Seq(ThreadLocal) /\ Len(archived) = Len(data)
        /\ \A i \in DOMAIN data : archived[i] =
             IF i = lazily_archived_thread_state THEN thread_local ELSE data[i]
    <3>1. DOMAIN data = 1 .. Len(data)
      BY <1>1
    <3> QED
      BY <1>1, <1>3, <3>1 DEF ArchiveStackGuard
  <2>3. ClearedThreadLocal \in ThreadLocal
    BY Zenon, ClearedIsGood DEF Good
  <2> HIDE DEF archived
  <2> QED
    BY Zenon, <2>1, <2>2, <2>3
<1> QED
  BY Zenon, <1>2, <1>3

(* Both cases together.                                                    *)
LEMMA RestoreThreadStructure ==
  ASSUME Structure, StatesAreCounted, NEW t \in Threads, RestoreThread(t)
  PROVE  Structure' /\ StatesAreCounted'
BY Zenon, RestoreThreadIsFrom, RestoreNewStructure, RestoreKnownStructure

(* The second initialisation makes the new thread the occupant.            *)
LEMMA InitNewThreadStructure ==
  ASSUME Structure, StatesAreCounted, NEW t \in Threads, InitNewThread(t)
  PROVE  Structure' /\ StatesAreCounted'
<1> USE DEF listVars
<1>1. /\ step[t] = "new" /\ TypeOK /\ mutex_owner = t /\ Len(frames[t]) = 1
      /\ to_handle[t] = <<>> /\ lazily_archived_thread = Null
  BY Zenon DEF InitNewThread, Structure, OwnersAgree, OwnerAgrees, StacksAreShaped, Present
<1>2. /\ step' \in [Threads -> Step] /\ step'[t] = "none"
      /\ \A u \in Threads : u # t => step'[u] = step[u]
      /\ owed' \in [Threads -> SUBSET InterruptFlag] /\ occupant' = t
      /\ UNCHANGED <<frames, mutex_owner, stack_limit, to_handle>>
      /\ UNCHANGED listVars
  BY Zenon, <1>1 DEF InitNewThread, TypeOK, Step
<1>3. thread_local' \in ThreadLocal
  <2>1. stack_limit[t] \in OwnLimits(t) \cup {NoLimit}
    BY Zenon DEF Structure, OwnersAgree, OwnerAgrees
  <2> QED
    BY Zenon, <2>1, InitIsGood DEF InitNewThread, Good
<1>4. TypeOK'
  BY Zenon, <1>1, <1>2, <1>3 DEF TypeOK
<1>5. StacksAreShaped'
  BY Zenon, <1>1, <1>2 DEF Structure, StacksAreShaped, HasTop, Top
<1>6. frames[t] # <<>>
  <2>1. frames[t] = <<>> <=> Len(frames[t]) = 0
    BY Zenon, <1>1, StacksAreSequences
  <2> QED
    BY <1>1, <2>1
<1>7. OwnersAgree'
  BY Zenon, <1>1, <1>2, <1>6, ThreadsAssumption DEF Structure, OwnersAgree, OwnerAgrees, Present
<1>8. StatesAreDisjoint' /\ StatesAreCounted'
  BY Zenon, <1>2 DEF Structure, StatesAreDisjoint, StatesAreCounted
<1> QED
  BY Zenon, <1>4, <1>5, <1>7, <1>8 DEF Structure

(* ArchiveThread takes the ThreadState from the free list, or a new one.   *)
LEMMA ArchivedLists ==
  ASSUME Structure, StatesAreCounted, NEW t \in Threads,
         mutex_owner = t, step[t] = "none", ArchiveThread(t)
  PROVE  /\ free_list' \in Seq(Nat) /\ data' \in Seq(ThreadLocal)
         /\ FreeThreadState \in Nat /\ FreeThreadState # Null
         /\ \A i \in DOMAIN data : i \in DOMAIN data' /\ data'[i] = data[i]
         /\ thread_state' \in [Threads -> Nat \cup {Null}]
         /\ thread_state'[t] = FreeThreadState
         /\ \A u \in Threads : u # t => thread_state'[u] = thread_state[u]
         /\ StatesAreDisjoint' /\ StatesAreCounted'
<1> DEFINE state == FreeThreadState
<1>1. /\ TypeOK /\ lazily_archived_thread = Null
      /\ lazily_archived_thread_state = Null /\ thread_state[t] = Null
      /\ lazily_archived_thread' = t /\ lazily_archived_thread_state' = state
      /\ thread_state' = [thread_state EXCEPT ![t] = state]
      /\ UNCHANGED in_use_list
  BY Zenon DEF Structure, OwnersAgree, OwnerAgrees, Present, ArchiveThread
<1>2. /\ free_list \in Seq(Nat) /\ data \in Seq(ThreadLocal)
      /\ DOMAIN data = 1 .. Len(data) /\ Len(data) \in Nat
      /\ DOMAIN free_list = 1 .. Len(free_list) /\ Len(free_list) \in Nat
  BY SMTT(60), <1>1 DEF TypeOK
<1>3. /\ free_list' \in Seq(Nat) /\ data' \in Seq(ThreadLocal)
      /\ state \in DOMAIN data' /\ state \in Nat /\ state \notin in_use_list
      /\ \A i \in DOMAIN data : i \in DOMAIN data' /\ data'[i] = data[i]
      /\ \A i \in DOMAIN free_list' :
           /\ free_list'[i] \in DOMAIN data' /\ free_list'[i] \notin in_use_list
           /\ free_list'[i] # state
           /\ \A j \in DOMAIN free_list' : free_list'[i] = free_list'[j] => i = j
      /\ Len(free_list') + 1 - Len(data') = Len(free_list) - Len(data)
      /\ Len(free_list') \in Nat /\ Len(data') \in Nat
  <2>1. CASE free_list = <<>>
    <3>1. /\ state = Len(data) + 1 /\ data' = Append(data, ClearedThreadLocal)
          /\ free_list' = <<>>
      BY Zenon, <2>1 DEF FreeThreadState, ArchiveThread
    <3>2. ClearedThreadLocal \in ThreadLocal
      BY Zenon, ClearedIsGood DEF Good
    <3>3. /\ data' \in Seq(ThreadLocal) /\ Len(data') = Len(data) + 1
          /\ DOMAIN data' = 1 .. Len(data) + 1
          /\ \A i \in 1 .. Len(data) : data'[i] = data[i]
      BY SMTT(60), <1>2, <3>1, <3>2
    <3>4. in_use_list \subseteq 1 .. Len(data)
      BY Zenon, <1>2 DEF Structure, StatesAreDisjoint
    <3> HIDE DEF state
    <3>5. /\ state \in DOMAIN data' /\ state \in Nat /\ state \notin in_use_list
          /\ \A i \in DOMAIN data : i \in DOMAIN data' /\ data'[i] = data[i]
      BY SMTT(60), <1>2, <3>1, <3>3, <3>4
    <3> QED
      BY <1>2, <2>1, <3>1, <3>3, <3>5
  <2>2. CASE free_list # <<>>
    <3>1. /\ state = free_list[1] /\ free_list' = Tail(free_list) /\ data' = data
          /\ 1 \in DOMAIN free_list
      BY <1>2, <2>2 DEF FreeThreadState, ArchiveThread
    <3>2. /\ Tail(free_list) \in Seq(Nat) /\ Len(Tail(free_list)) = Len(free_list) - 1
          /\ \A i \in 1 .. Len(free_list) - 1 : Tail(free_list)[i] = free_list[i + 1]
      BY SMTT(60), <1>2, <2>2
    <3>3. DOMAIN free_list' = 1 .. Len(free_list) - 1
      BY <3>1, <3>2
    <3>4. \A i \in DOMAIN free_list :
            /\ free_list[i] \in DOMAIN data /\ free_list[i] \notin in_use_list
            /\ \A j \in DOMAIN free_list : free_list[i] = free_list[j] => i = j
      BY Zenon DEF Structure, StatesAreDisjoint
    <3>5. ASSUME NEW i \in DOMAIN free_list'
          PROVE  i + 1 \in DOMAIN free_list /\ free_list'[i] = free_list[i + 1]
      BY <1>2, <3>1, <3>2, <3>3
    <3> HIDE DEF state
    <3>6. ASSUME NEW i \in DOMAIN free_list'
          PROVE  /\ free_list'[i] \in DOMAIN data'
                 /\ free_list'[i] \notin in_use_list
                 /\ free_list'[i] # state
                 /\ \A j \in DOMAIN free_list' : free_list'[i] = free_list'[j] => i = j
      <4>1. i \in Nat /\ i + 1 # 1
        BY <1>2, <3>3
      <4>2. \A j \in DOMAIN free_list' : j \in Nat
        BY SMTT(60), <1>2, <3>3
      <4> QED
        BY <3>1, <3>4, <3>5, <4>1, <4>2
    <3> QED
      BY <1>2, <3>1, <3>2, <3>4, <3>6
  <2> QED
    BY Zenon, <2>1, <2>2
<1> HIDE DEF state
<1>4. /\ state # Null /\ thread_state' \in [Threads -> Nat \cup {Null}]
      /\ thread_state'[t] = state
      /\ \A u \in Threads : u # t => thread_state'[u] = thread_state[u]
  BY Zenon, <1>1, <1>3, ThreadsAssumption DEF TypeOK
<1>5. StatesAreDisjoint'
  <2>1. in_use_list' \subseteq DOMAIN data'
    BY Zenon, <1>1, <1>3 DEF Structure, StatesAreDisjoint
  <2>2. ASSUME NEW u \in Threads, thread_state'[u] # Null
        PROVE  /\ lazily_archived_thread' # u => thread_state'[u] \in in_use_list'
               /\ \A v \in Threads : thread_state'[v] = thread_state'[u] => v = u
    <3>1. \A v \in Threads : v # t /\ thread_state'[v] # Null =>
            thread_state'[v] \in in_use_list
      BY Zenon, <1>1, <1>4, ThreadsAssumption DEF Structure, StatesAreDisjoint
    <3>2. \A v \in Threads : v # t /\ u # t /\ thread_state[v] = thread_state[u] => v = u
      BY Zenon, <1>4, <2>2 DEF Structure, StatesAreDisjoint
    <3> QED
      BY Zenon, <1>1, <1>3, <1>4, <2>2, <3>1, <3>2
  <2> QED
    BY Zenon, <1>1, <1>3, <2>1, <2>2 DEF StatesAreDisjoint
<1>6. StatesAreCounted'
  <2>1. Cardinality(in_use_list) \in Nat
    BY Zenon, FS_CardinalityType DEF StatesAreCounted
  <2> QED
    BY <1>1, <1>2, <1>3, <1>4, <2>1 DEF StatesAreCounted
<1> QED
  BY Zenon, <1>3, <1>4, <1>5, <1>6 DEF state

(* The thread that unlocks reserves a ThreadState that is free.            *)
LEMMA OpenUnlockerStructure ==
  ASSUME Structure, StatesAreCounted, NEW t \in Threads, OpenUnlocker(t)
  PROVE  Structure' /\ StatesAreCounted'
<1>1. /\ mutex_owner = t /\ step[t] = "none" /\ to_handle[t] = <<>> /\ TypeOK
      /\ frames[t] # <<>> /\ occupant = t /\ StacksAreShaped
      /\ Push(t, Unlocker) /\ ArchiveThread(t) /\ mutex_owner' = Null
      /\ lazily_archived_thread' = t
      /\ lazily_archived_thread_state' = FreeThreadState
      /\ UNCHANGED <<thread_local, stack_limit, step, to_handle, occupant, owed>>
  BY Zenon DEF OpenUnlocker, Runs, ArchiveThread, Structure, OwnersAgree, OwnerAgrees
<1>2. /\ free_list' \in Seq(Nat) /\ data' \in Seq(ThreadLocal)
      /\ FreeThreadState \in Nat /\ FreeThreadState # Null
      /\ thread_state' \in [Threads -> Nat \cup {Null}]
      /\ thread_state'[t] = FreeThreadState
      /\ \A u \in Threads : u # t => thread_state'[u] = thread_state[u]
      /\ StatesAreDisjoint' /\ StatesAreCounted'
  BY Zenon, <1>1, ArchivedLists
<1>3. Unlocker \in Frame /\ ~ IsFirst(Unlocker)
  BY Zenon, FramesAreTyped DEF IsFirst
<1>4. /\ frames' \in [Threads -> Seq(Frame)] /\ frames'[t] # <<>>
      /\ \A u \in Threads : u # t => frames'[u] = frames[u]
      /\ \A u \in Threads : FirstIsFirst(frames'[u])
  BY Zenon, <1>1, <1>3, PushedFrames, PushedShape
<1>5. TypeOK'
  BY Zenon, <1>1, <1>2, <1>4 DEF TypeOK, ArchiveThread
<1>6. StacksAreShaped'
  BY ZenonT(60), <1>1, <1>4 DEF StacksAreShaped, FirstIsFirst, HasTop, Top
<1>7. OwnersAgree'
  BY Zenon, <1>1, <1>2, <1>4, ThreadsAssumption DEF Structure, OwnersAgree, OwnerAgrees, Present
<1> QED
  BY Zenon, <1>2, <1>5, <1>6, <1>7 DEF Structure

(* The first object on the stack of a thread that leaves for good is the   *)
(* only one.                                                               *)
LEMMA LastLocker ==
  ASSUME Structure, NEW t \in Threads, HasTop(t, "Locker")
  PROVE  /\ Len(frames[t]) \in Nat \ {0} /\ frames[t] # <<>>
         /\ IsFirst(Top(t)) <=> Top(t).has_lock /\ Top(t).top_level
         /\ IsFirst(Top(t)) <=> Len(frames[t]) = 1
         /\ Top(t) \in Frame
<1>1. TypeOK /\ frames[t] # <<>> /\ Top(t).kind = "Locker"
  BY Zenon DEF Structure, HasTop
<1>2. Len(frames[t]) \in Nat \ {0} /\ Len(frames[t]) \in DOMAIN frames[t]
      /\ Top(t) \in Frame
  BY SMTT(60), <1>1, StacksAreSequences DEF Top
<1>3. IsFirst(Top(t)) <=> Len(frames[t]) = 1
  BY Zenon, <1>2 DEF Structure, StacksAreShaped, Top
<1> QED
  BY Zenon, <1>1, <1>2, <1>3 DEF IsFirst

(* ~Locker: the thread reserves a ThreadState, leaves for good or stays.   *)
LEMMA CloseLockerStructure ==
  ASSUME Structure, StatesAreCounted, NEW t \in Threads, CloseLocker(t),
         thread_local.real \in OwnLimits(t)
  PROVE  Structure' /\ StatesAreCounted'
<1> USE DEF listVars
<1>1. /\ mutex_owner = t /\ step[t] = "none" /\ to_handle[t] = <<>> /\ TypeOK
      /\ frames[t] # <<>> /\ occupant = t /\ StacksAreShaped /\ HasTop(t, "Locker")
      /\ Pop(t) /\ mutex_owner' = IF Top(t).has_lock THEN Null ELSE t
      /\ lazily_archived_thread = Null /\ thread_state[t] = Null
      /\ UNCHANGED <<thread_local, step, to_handle>>
  BY Zenon DEF CloseLocker, Runs, Structure, OwnersAgree, OwnerAgrees, Present
<1>2. /\ frames' \in [Threads -> Seq(Frame)]
      /\ \A u \in Threads : u # t => frames'[u] = frames[u]
      /\ \A u \in Threads : FirstIsFirst(frames'[u])
      /\ Len(frames'[t]) = Len(frames[t]) - 1
  BY Zenon, <1>1, PoppedFrames, PoppedShape
<1>3. frames'[t] = <<>> <=> Top(t).has_lock /\ Top(t).top_level
  <2>1. frames'[t] = <<>> <=> Len(frames'[t]) = 0
    <3>1. frames'[t] \in Seq(Frame)
      BY Zenon, <1>2
    <3> QED
      BY Zenon, <3>1, EmptyList
  <2>2. /\ Len(frames[t]) \in Nat \ {0}
        /\ Len(frames[t]) = 1 <=> Top(t).has_lock /\ Top(t).top_level
    BY Zenon, <1>1, LastLocker, Zenon
  <2>3. Len(frames'[t]) = 0 <=> Len(frames[t]) = 1
    BY SMTT(60), <1>2, <2>2
  <2> QED
    BY Zenon, <2>1, <2>2, <2>3, Zenon
<1>4. Top(t).has_lock \in BOOLEAN /\ Top(t).top_level \in BOOLEAN
  BY Zenon, <1>1, LastLocker DEF Frame
<1>5. \A u \in Threads : step[u] # "new" /\ (u # t => step[u] = "none")
  BY Zenon, <1>1 DEF Structure, OwnersAgree, OwnerAgrees
<1>6. StacksAreShaped'
  BY Zenon, <1>1, <1>2, <1>5 DEF StacksAreShaped, FirstIsFirst
<1>7. CASE Top(t).has_lock /\ ~ Top(t).top_level
  <2>1. /\ ArchiveThread(t) /\ UNCHANGED <<stack_limit, occupant, owed>>
        /\ lazily_archived_thread' = t
        /\ lazily_archived_thread_state' = FreeThreadState
    BY Zenon, <1>7 DEF CloseLocker, ArchiveThread
  <2>2. /\ free_list' \in Seq(Nat) /\ data' \in Seq(ThreadLocal)
        /\ FreeThreadState \in Nat /\ FreeThreadState # Null
        /\ thread_state' \in [Threads -> Nat \cup {Null}]
        /\ thread_state'[t] = FreeThreadState
        /\ \A u \in Threads : u # t => thread_state'[u] = thread_state[u]
        /\ StatesAreDisjoint' /\ StatesAreCounted'
    BY Zenon, <1>1, <2>1, ArchivedLists
  <2>3. TypeOK'
    BY Zenon, <1>1, <1>2, <1>7, <2>1, <2>2 DEF TypeOK, ArchiveThread
  <2>4. OwnersAgree'
    <3>1. /\ mutex_owner = t /\ step[t] = "none" /\ to_handle[t] = <<>>
          /\ mutex_owner' = Null /\ frames'[t] # <<>> /\ occupant = t
          /\ UNCHANGED <<step, to_handle>>
      BY Zenon, <1>1, <1>3, <1>7
    <3> QED
      BY Zenon, <1>2, <2>1, <2>2, <3>1, ThreadsAssumption
         DEF Structure, OwnersAgree, OwnerAgrees, Present
  <2> QED
    BY Zenon, <1>6, <2>2, <2>3, <2>4 DEF Structure
<1>8. CASE Top(t).has_lock /\ Top(t).top_level
  <2>1. /\ stack_limit' = [stack_limit EXCEPT ![t] = thread_local.real]
        /\ occupant' = Null /\ owed' = [owed EXCEPT ![t] = {}]
        /\ UNCHANGED listVars
    BY Zenon, <1>8 DEF CloseLocker, FreeThreadResources
  <2>2. thread_local.real \in Limit
    BY Zenon, LimitsDiffer
  <2>3. TypeOK'
    BY Zenon, <1>1, <1>2, <1>8, <2>1, <2>2 DEF TypeOK
  <2>4. OwnersAgree'
    <3>1. /\ mutex_owner = t /\ step[t] = "none" /\ to_handle[t] = <<>>
          /\ mutex_owner' = Null /\ frames'[t] = <<>> /\ occupant = t
          /\ lazily_archived_thread = Null /\ thread_state[t] = Null
          /\ UNCHANGED <<step, to_handle>>
      BY Zenon, <1>1, <1>3, <1>8
    <3>2. /\ stack_limit'[t] = thread_local.real
          /\ \A u \in Threads : u # t => stack_limit'[u] = stack_limit[u]
      BY Zenon, <1>1, <2>1 DEF TypeOK
    <3>3. \A u \in Threads : u # t => OwnerAgrees(u)'
      BY Zenon, <1>2, <2>1, <3>1, <3>2, ThreadsAssumption
         DEF Structure, OwnersAgree, OwnerAgrees, Present
    <3>4. OwnerAgrees(t)'
      BY Zenon, <2>1, <3>1, <3>2, ThreadsAssumption
         DEF Structure, OwnersAgree, OwnerAgrees, Present
    <3> QED
      BY Zenon, <2>1, <3>3, <3>4 DEF Structure, OwnersAgree
  <2>5. StatesAreDisjoint' /\ StatesAreCounted'
    BY Zenon, <2>1 DEF Structure, StatesAreDisjoint, StatesAreCounted
  <2> QED
    BY Zenon, <1>6, <2>3, <2>4, <2>5 DEF Structure
<1>9. CASE ~ Top(t).has_lock
  <2>1. UNCHANGED <<stack_limit, occupant, owed>> /\ UNCHANGED listVars
    BY Zenon, <1>9 DEF CloseLocker
  <2>2. TypeOK'
    BY Zenon, <1>1, <1>2, <1>9, <2>1 DEF TypeOK
  <2>3. OwnersAgree'
    BY Zenon, <1>1, <1>2, <1>3, <1>9, <2>1 DEF Structure, OwnersAgree, OwnerAgrees, Present
  <2>4. StatesAreDisjoint' /\ StatesAreCounted'
    BY Zenon, <2>1 DEF Structure, StatesAreDisjoint, StatesAreCounted
  <2> QED
    BY Zenon, <1>6, <2>2, <2>3, <2>4 DEF Structure
<1> QED
  BY Zenon, <1>4, <1>7, <1>8, <1>9
=============================================================================
