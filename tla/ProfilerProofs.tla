--------------------------- MODULE ProfilerProofs ---------------------------
(***************************************************************************)
(* The CPU profiler's order, for any number of code events, of samples and *)
(* of tasks that evacuate in parallel, and any length of the ring.  The    *)
(* invariant follows an event from the step that takes its number over the *)
(* queue to the code map: events that are applied are ahead of those that  *)
(* are queued, and these ahead of those that only have a number.           *)
(***************************************************************************)
EXTENDS ProfilerEventsProcessor, TLAPS

(* The events that are numbered and not yet queued.                        *)
Unqueued == (Range(moving) \cup (IF vm = "event" THEN {vm_order} ELSE {})) \ {0}

(* The types that the order of the samples rests on.                       *)
ProfilerTyping ==
  /\ buffer \in [Ring!Entries -> [marker : {"kEmpty", "kFull"}, record : Nat \cup {NoRecord}]]
  /\ enqueue_pos \in Ring!Entries /\ dequeue_pos \in Ring!Entries
  /\ events_buffer \in Seq(Nat) /\ ticks_from_vm_buffer \in Seq(Nat) /\ code_map \in Seq(Nat)
  /\ last_code_event_id \in Nat /\ last_processed_code_event_id \in Nat /\ vm_order \in Nat
  /\ moving \in [Evacuators -> Nat]

(* Each number that was taken belongs to an event that is applied, queued  *)
(* or about to be queued; tasks move code only during a collection, and    *)
(* each has a number of its own; only an event that is queued overtakes.   *)
EventsAreNumbered ==
  /\ Range(code_map) \cup Range(events_buffer) \cup Unqueued = 1 .. last_code_event_id
  /\ \A e, f \in Evacuators : moving[e] = moving[f] /\ moving[e] # 0 => e = f
  /\ vm # "gc" => \A e \in Evacuators : moving[e] = 0
  /\ vm = "event" => vm_order # 0
  /\ \A m, n : <<m, n>> \in overtaken =>
       m \in 1 .. last_code_event_id /\ n \in 1 .. last_code_event_id /\ m < n
  /\ \A m, n \in Unqueued : <<m, n>> \notin overtaken

(* The events applied, then those queued, then those about to be queued.   *)
EventsAreOrdered ==
  /\ \A i, j \in 1 .. Len(code_map) : i < j => Ahead(code_map[i], code_map[j])
  /\ \A i, j \in 1 .. Len(events_buffer) : i < j => Ahead(events_buffer[i], events_buffer[j])
  /\ \A m \in Range(code_map), n \in Range(events_buffer) : Ahead(m, n)
  /\ \A m \in Range(code_map) \cup Range(events_buffer), n \in Unqueued : Ahead(m, n)

(* The number last processed is that of the event applied last.            *)
LastIsApplied ==
  IF code_map = <<>> THEN last_processed_code_event_id = 0
  ELSE last_processed_code_event_id = code_map[Len(code_map)]

(* The sample that the processor found to be due stays the one it records. *)
PeekedIsKept ==
  processor = "record" =>
    buffer[dequeue_pos] = [marker |-> "kFull", record |-> last_processed_code_event_id]

(* What is in the profile was looked up in an earlier code map.            *)
ProfileIsPast ==
  \A s \in profile : /\ s.order \in Range(code_map) \cup {0}
                     /\ Range(s.map) \subseteq Range(code_map)

(* The inductive invariant.                                                *)
ProfilerIInv ==
  /\ ProfilerTyping /\ EventsAreNumbered /\ EventsAreOrdered /\ LastIsApplied
  /\ PeekedIsKept /\ ProfileIsPast /\ SamplesMeetTheirCodeMap

(* Enqueue puts an event behind all others.                                *)
LEMMA AppendFacts ==
  ASSUME NEW s \in Seq(Nat), NEW x \in Nat
  PROVE  /\ Append(s, x) \in Seq(Nat) /\ Append(s, x) # <<>>
         /\ Len(Append(s, x)) = Len(s) + 1 /\ Len(s) \in Nat
         /\ Append(s, x)[Len(s) + 1] = x
         /\ \A i \in 1 .. Len(s) : Append(s, x)[i] = s[i]
         /\ \A i \in 1 .. Len(s) + 1 : i \in 1 .. Len(s) \/ i = Len(s) + 1
         /\ Range(Append(s, x)) = Range(s) \cup {x}
         /\ \A i \in 1 .. Len(s) : s[i] \in Range(s) /\ s[i] \in Nat
<1>1. /\ Append(s, x) \in Seq(Nat) /\ Append(s, x) # <<>> /\ Len(Append(s, x)) = Len(s) + 1
      /\ Len(s) \in Nat /\ Append(s, x)[Len(s) + 1] = x
      /\ \A i \in 1 .. Len(s) : Append(s, x)[i] = s[i]
      /\ DOMAIN s = 1 .. Len(s) /\ DOMAIN Append(s, x) = 1 .. Len(s) + 1
  OBVIOUS
<1>2. \A i \in 1 .. Len(s) + 1 : i \in 1 .. Len(s) \/ i = Len(s) + 1
  BY <1>1
<1>3. Len(s) + 1 \in 1 .. Len(s) + 1 /\ \A i \in 1 .. Len(s) : i \in 1 .. Len(s) + 1
  BY <1>1
<1>4. Range(Append(s, x)) = Range(s) \cup {x}
  BY Zenon, <1>1, <1>2, <1>3 DEF Range
<1>5. \A i \in 1 .. Len(s) : s[i] \in Range(s) /\ s[i] \in Nat
  <2>1. \A i \in 1 .. Len(s) : s[i] \in Nat
    OBVIOUS
  <2> QED
    BY Zenon, <1>1, <2>1 DEF Range
<1> QED
  BY Zenon, <1>1, <1>2, <1>4, <1>5

(* Dequeue takes the event at the head.                                    *)
LEMMA TailFacts ==
  ASSUME NEW s \in Seq(Nat), s # <<>>
  PROVE  /\ Tail(s) \in Seq(Nat) /\ Head(s) \in Nat /\ Head(s) = s[1]
         /\ 1 \in 1 .. Len(s) /\ Head(s) \in Range(s)
         /\ \A i \in 1 .. Len(Tail(s)) : /\ Tail(s)[i] = s[i + 1] /\ i + 1 \in 1 .. Len(s)
                                         /\ 1 < i + 1
         /\ \A i, j \in 1 .. Len(Tail(s)) : i < j => i + 1 < j + 1
         /\ Range(s) = Range(Tail(s)) \cup {Head(s)}
         /\ \A m \in Range(Tail(s)) : \E i \in 1 .. Len(s) : 1 < i /\ m = s[i]
<1>1. /\ Tail(s) \in Seq(Nat) /\ Head(s) \in Nat /\ Head(s) = s[1]
      /\ 1 \in 1 .. Len(s) /\ Len(s) \in Nat /\ Len(Tail(s)) = Len(s) - 1
      /\ DOMAIN s = 1 .. Len(s) /\ DOMAIN Tail(s) = 1 .. Len(Tail(s))
  OBVIOUS
<1>2. \A i \in 1 .. Len(Tail(s)) : Tail(s)[i] = s[i + 1]
  OBVIOUS
<1>3. /\ \A i \in 1 .. Len(Tail(s)) : i + 1 \in 1 .. Len(s) /\ 1 < i + 1
      /\ \A i, j \in 1 .. Len(Tail(s)) : i < j => i + 1 < j + 1
      /\ \A i \in 1 .. Len(s) : i = 1 \/ \E j \in 1 .. Len(Tail(s)) : i = j + 1
  <2>1. ASSUME NEW i \in 1 .. Len(s), i # 1 PROVE i - 1 \in 1 .. Len(Tail(s)) /\ i = (i - 1) + 1
    BY <1>1, <2>1
  <2>2. \A i \in 1 .. Len(s) : i = 1 \/ \E j \in 1 .. Len(Tail(s)) : i = j + 1
    BY Zenon, <2>1
  <2>3. /\ \A i \in 1 .. Len(Tail(s)) : i + 1 \in 1 .. Len(s) /\ 1 < i + 1
        /\ \A i, j \in 1 .. Len(Tail(s)) : i < j => i + 1 < j + 1
    BY <1>1
  <2> QED
    BY Zenon, <2>2, <2>3
<1>4. Head(s) \in Range(s)
  BY Zenon, <1>1 DEF Range
<1>5. \A m \in Range(Tail(s)) : \E i \in 1 .. Len(s) : 1 < i /\ m = s[i]
  <2> SUFFICES ASSUME NEW m \in Range(Tail(s)) PROVE \E i \in 1 .. Len(s) : 1 < i /\ m = s[i]
    BY Zenon
  <2>1. PICK j \in 1 .. Len(Tail(s)) : m = Tail(s)[j]
    BY Zenon, <1>1 DEF Range
  <2>2. j + 1 \in 1 .. Len(s) /\ 1 < j + 1 /\ m = s[j + 1]
    BY Zenon, <1>2, <1>3, <2>1
  <2> QED
    BY Zenon, <2>2
<1>6. Range(s) = Range(Tail(s)) \cup {Head(s)}
  <2>1. ASSUME NEW m \in Range(s) PROVE m \in Range(Tail(s)) \cup {Head(s)}
    <3>1. PICK i \in 1 .. Len(s) : m = s[i]
      BY Zenon, <1>1, <2>1 DEF Range
    <3>2. ASSUME NEW j \in 1 .. Len(Tail(s)), i = j + 1 PROVE m = Tail(s)[j] /\ j \in DOMAIN Tail(s)
      BY Zenon, <1>1, <1>2, <3>1, <3>2
    <3>3. i # 1 => m \in Range(Tail(s))
      BY Zenon, <1>3, <3>2 DEF Range
    <3> QED
      BY Zenon, <1>1, <3>1, <3>3
  <2>2. ASSUME NEW m \in Range(Tail(s)) \cup {Head(s)} PROVE m \in Range(s)
    BY Zenon, <1>1, <1>4, <1>5, <2>2 DEF Range
  <2> QED
    BY Zenon, <2>1, <2>2
<1> QED
  BY Zenon, <1>1, <1>2, <1>3, <1>4, <1>5, <1>6

(* Of two code events at most one is ahead of the other.                   *)
LEMMA AheadIsStrict ==
  ASSUME EventsAreNumbered, NEW m \in Nat, NEW n \in Nat, Ahead(m, n)
  PROVE  ~Ahead(n, m) /\ m # n
<1>1. <<n, m>> \in overtaken => n < m
  BY Zenon DEF EventsAreNumbered
<1>2. m < n => ~(n < m)
  OBVIOUS
<1>3. ~Ahead(n, m)
  BY Zenon, <1>1, <1>2 DEF Ahead
<1> QED
  BY Zenon, <1>3

(* The numbers that Increment hands out are 1, 2 and so on.                *)
LEMMA NumbersAreNaturals ==
  ASSUME ProfilerIInv
  PROVE  /\ last_code_event_id \in Nat
         /\ \A m \in Range(code_map) \cup Range(events_buffer) \cup Unqueued :
              m \in Nat /\ m \in 1 .. last_code_event_id /\ m # 0 /\ m <= last_code_event_id
<1>1. last_code_event_id \in Nat
  BY Zenon DEF ProfilerIInv, ProfilerTyping
<1>2. \A m \in 1 .. last_code_event_id : m \in Nat /\ m # 0 /\ m <= last_code_event_id
  BY <1>1
<1> QED
  BY Zenon, <1>1, <1>2 DEF ProfilerIInv, EventsAreNumbered

(* An event that is about to be queued is not in the queue.                *)
LEMMA UnqueuedAreElsewhere ==
  ASSUME ProfilerIInv, NEW n \in Unqueued
  PROVE  n \notin Range(code_map) \cup Range(events_buffer)
<1>1. EventsAreNumbered /\ EventsAreOrdered
  BY Zenon DEF ProfilerIInv
<1>2. n \in Nat
  BY Zenon, NumbersAreNaturals
<1>3. n \in Range(code_map) \cup Range(events_buffer) => Ahead(n, n)
  BY Zenon, <1>1 DEF EventsAreOrdered
<1> QED
  BY Zenon, <1>1, <1>2, <1>3, AheadIsStrict

(* A step of any thread that touches neither the events nor the ring nor   *)
(* the profile.                                                            *)
LEMMA QuietKeepsProfiler ==
  ASSUME ProfilerIInv,
         UNCHANGED <<ringVars, events_buffer, last_code_event_id, evacuationVars,
                     last_processed_code_event_id, code_map, profile>>,
         vm' = "event" <=> vm = "event", vm = "event" => vm_order' = vm_order,
         vm' # "gc" => \A e \in Evacuators : moving[e] = 0,
         ticks_from_vm_buffer' \in Seq(Nat), vm_order' \in Nat,
         processor' = "record" => processor = "record"
  PROVE  ProfilerIInv'
<1>1. UNCHANGED <<buffer, enqueue_pos, dequeue_pos, moving, overtaken>>
  BY Zenon DEF ringVars, evacuationVars
<1>2. Unqueued' = Unqueued
  BY Zenon, <1>1 DEF Unqueued
<1>3. ProfilerTyping'
  BY Zenon, <1>1 DEF ProfilerIInv, ProfilerTyping
<1>4. EventsAreNumbered'
  BY Zenon, <1>1, <1>2 DEF ProfilerIInv, EventsAreNumbered
<1>5. EventsAreOrdered' /\ LastIsApplied'
  BY Zenon, <1>1, <1>2 DEF ProfilerIInv, EventsAreOrdered, Ahead, LastIsApplied
<1>6. PeekedIsKept' /\ ProfileIsPast'
  BY Zenon, <1>1 DEF ProfilerIInv, PeekedIsKept, ProfileIsPast
<1>7. SamplesMeetTheirCodeMap'
  BY Zenon, <1>1 DEF ProfilerIInv, SamplesMeetTheirCodeMap, Ahead
<1> QED
  BY Zenon, <1>3, <1>4, <1>5, <1>6, <1>7 DEF ProfilerIInv

(* The state that a step of a producer of events leaves alone.             *)
ProducerStep ==
  /\ UNCHANGED <<ringVars, ticks_from_vm_buffer, last_processed_code_event_id, code_map,
                 profile, processor>>
  /\ moving' \in [Evacuators -> Nat] /\ vm_order' \in Nat
  /\ \A e, f \in Evacuators : moving'[e] = moving'[f] /\ moving'[e] # 0 => e = f
  /\ vm' # "gc" => \A e \in Evacuators : moving'[e] = 0
  /\ vm' = "event" => vm_order' # 0

(* Increment takes the next number.                                        *)
LEMMA NumberIsTaken ==
  ASSUME ProfilerIInv, ProducerStep,
         last_code_event_id' = last_code_event_id + 1,
         Unqueued' = Unqueued \cup {last_code_event_id + 1},
         UNCHANGED <<events_buffer, overtaken>>
  PROVE  ProfilerIInv'
<1> DEFINE n == last_code_event_id + 1
<1> USE DEF ProfilerIInv
<1>1. /\ last_code_event_id \in Nat /\ n \in Nat /\ n # 0 /\ n \notin 1 .. last_code_event_id
      /\ 1 .. n = 1 .. last_code_event_id \cup {n}
      /\ \A m \in 1 .. last_code_event_id : m \in Nat /\ m < n /\ ~(n < m)
      /\ ~(n < 0) /\ ~(n < n)
  BY NumbersAreNaturals
<1>2. /\ UNCHANGED <<buffer, enqueue_pos, dequeue_pos, ticks_from_vm_buffer,
                     last_processed_code_event_id, code_map, profile, processor>>
      /\ last_code_event_id' = n /\ Unqueued' = Unqueued \cup {n}
  BY Zenon DEF ProducerStep, ringVars
<1> HIDE DEF n
<1>3. \A m : <<m, n>> \notin overtaken /\ <<n, m>> \notin overtaken
  BY Zenon, <1>1 DEF EventsAreNumbered
<1>4. ProfilerTyping'
  BY Zenon, <1>1, <1>2 DEF ProfilerTyping, ProducerStep
<1>5. EventsAreNumbered'
  <2>1. (Range(code_map) \cup Range(events_buffer) \cup Unqueued = 1 .. last_code_event_id)'
    BY Zenon, <1>1, <1>2 DEF EventsAreNumbered
  <2>2. \A k, m : <<k, m>> \in overtaken => k \in 1 .. n /\ m \in 1 .. n /\ k < m
    BY Zenon, <1>1 DEF EventsAreNumbered
  <2>3. \A k, m \in Unqueued' : <<k, m>> \notin overtaken
    BY Zenon, <1>2, <1>3 DEF EventsAreNumbered
  <2> QED
    BY Zenon, <1>2, <2>1, <2>2, <2>3 DEF EventsAreNumbered, ProducerStep
<1>6. EventsAreOrdered'
  <2>1. \A k, m : Ahead(k, m)' <=> Ahead(k, m)
    BY Zenon DEF Ahead
  <2>2. \A m \in Range(code_map) \cup Range(events_buffer) : Ahead(m, n)
    BY Zenon, <1>1, <1>3 DEF Ahead, EventsAreNumbered
  <2> QED
    BY Zenon, <1>2, <2>1, <2>2 DEF EventsAreOrdered
<1>7. LastIsApplied' /\ PeekedIsKept' /\ ProfileIsPast'
  BY Zenon, <1>2 DEF LastIsApplied, PeekedIsKept, ProfileIsPast
<1>8. SamplesMeetTheirCodeMap'
  <2> SUFFICES ASSUME NEW s \in profile
               PROVE  /\ Range(s.map) = {m \in 1 .. n : m = s.order \/ Ahead(m, s.order)'}
                      /\ \A i, j \in DOMAIN s.map : i < j => Ahead(s.map[i], s.map[j])'
    BY Zenon, <1>2 DEF SamplesMeetTheirCodeMap
  <2>1. \A k, m : Ahead(k, m)' <=> Ahead(k, m)
    BY Zenon DEF Ahead
  <2>2. s.order \in 1 .. last_code_event_id \cup {0}
    BY Zenon DEF ProfileIsPast, EventsAreNumbered
  <2>3. n # s.order /\ ~Ahead(n, s.order)
    BY Zenon, <1>1, <1>3, <2>2 DEF Ahead
  <2>4. Range(s.map) = {m \in 1 .. last_code_event_id : m = s.order \/ Ahead(m, s.order)}
    BY Zenon DEF SamplesMeetTheirCodeMap
  <2>5. \A m : m \in Range(s.map) <=> m \in 1 .. n /\ (m = s.order \/ Ahead(m, s.order)')
    BY Zenon, <1>1, <2>1, <2>3, <2>4
  <2> QED
    BY Zenon, <2>1, <2>5 DEF SamplesMeetTheirCodeMap
<1> QED
  BY Zenon, <1>4, <1>5, <1>6, <1>7, <1>8

(* Enqueue: an event that has its number is queued.  Where one with an     *)
(* earlier number is not queued yet, that one is overtaken.                *)
LEMMA EventIsQueued ==
  ASSUME ProfilerIInv, ProducerStep, NEW n \in Unqueued,
         events_buffer' = Append(events_buffer, n), Unqueued' = Unqueued \ {n},
         overtaken' = overtaken \cup {<<m, n>> : m \in Unqueued \cap 1 .. n - 1},
         UNCHANGED last_code_event_id
  PROVE  ProfilerIInv'
<1> USE DEF ProfilerIInv
<1>1. UNCHANGED <<buffer, enqueue_pos, dequeue_pos, ticks_from_vm_buffer,
                  last_processed_code_event_id, code_map, profile, processor>>
  BY Zenon DEF ProducerStep, ringVars
<1>2. n \in Nat /\ events_buffer \in Seq(Nat) /\ \A u \in Unqueued : u \in Nat
  BY Zenon, NumbersAreNaturals DEF ProfilerTyping
<1>3. \A u \in Nat : u \in 1 .. n - 1 => u < n
  BY <1>2
<1>4. \A u \in Nat : u # n /\ ~(n < u) /\ u # 0 => u \in 1 .. n - 1 /\ u < n
  BY <1>2
<1>5. \A a, b : <<a, b>> \in overtaken' <=>
        <<a, b>> \in overtaken \/ (b = n /\ a \in Unqueued /\ a \in 1 .. n - 1)
  BY Zenon
<1> DEFINE After(a, b) == IF a < b THEN <<a, b>> \notin overtaken' ELSE <<b, a>> \in overtaken'
<1>6. \A a, b : ~(a \in Unqueued /\ b \in Unqueued) => (After(a, b) <=> Ahead(a, b))
  BY Zenon, <1>5 DEF Ahead
<1>7. \A m \in Range(code_map) \cup Range(events_buffer) : m \notin Unqueued
  BY Zenon, UnqueuedAreElsewhere
<1>8. /\ Range(Append(events_buffer, n)) = Range(events_buffer) \cup {n}
      /\ Append(events_buffer, n) \in Seq(Nat)
  BY Zenon, <1>2, AppendFacts
<1>9. ProfilerTyping'
  BY Zenon, <1>1, <1>8 DEF ProfilerTyping, ProducerStep
<1>10. EventsAreNumbered'
  <2>1. (Range(code_map) \cup Range(events_buffer) \cup Unqueued = 1 .. last_code_event_id)'
    BY Zenon, <1>1, <1>8 DEF EventsAreNumbered
  <2>2. \A a, b : <<a, b>> \in overtaken' =>
          a \in 1 .. last_code_event_id /\ b \in 1 .. last_code_event_id /\ a < b
    <3> SUFFICES ASSUME NEW a, NEW b, <<a, b>> \in overtaken'
                 PROVE  a \in 1 .. last_code_event_id /\ b \in 1 .. last_code_event_id /\ a < b
      BY Zenon
    <3>1. CASE <<a, b>> \in overtaken
      BY Zenon, <3>1 DEF EventsAreNumbered
    <3>2. CASE b = n /\ a \in Unqueued /\ a \in 1 .. n - 1
      BY Zenon, <1>2, <1>3, <3>2, NumbersAreNaturals
    <3> QED
      BY Zenon, <1>5, <3>1, <3>2
  <2>3. \A a, b \in Unqueued' : <<a, b>> \notin overtaken'
    BY Zenon, <1>5 DEF EventsAreNumbered
  <2> QED
    BY Zenon, <2>1, <2>2, <2>3 DEF EventsAreNumbered, ProducerStep
<1>11. EventsAreOrdered'
  <2> HIDE DEF After
  <2>1. \A m \in Range(code_map) \cup Range(events_buffer) :
          /\ After(m, n)
          /\ \A u \in Unqueued : After(m, u)
    BY Zenon, <1>6, <1>7 DEF EventsAreOrdered
  <2>2. \A u \in Unqueued \ {n} : After(n, u)
    <3> SUFFICES ASSUME NEW u \in Unqueued, u # n PROVE After(n, u)
      BY Zenon
    <3> USE DEF After
    <3>1. u \in Nat /\ u # 0
      BY Zenon, NumbersAreNaturals
    <3>2. CASE n < u
      BY Zenon, <1>5, <3>2 DEF EventsAreNumbered
    <3>3. CASE ~(n < u)
      <4>1. u \in 1 .. n - 1
        BY Zenon, <1>4, <3>1, <3>3
      <4> QED
        BY Zenon, <1>5, <3>3, <4>1
    <3> QED
      BY Zenon, <3>2, <3>3
  <2>3. \A i, j \in 1 .. Len(events_buffer') : i < j => After(events_buffer'[i], events_buffer'[j])
    <3> DEFINE E == events_buffer
    <3> DEFINE F == Append(E, n)
    <3>0. events_buffer' = F /\ E \in Seq(Nat) /\ E = events_buffer
      BY Zenon, <1>2
    <3> HIDE DEF F, E
    <3>1. /\ Len(F) = Len(E) + 1 /\ Len(E) \in Nat /\ F[Len(E) + 1] = n
          /\ \A i \in 1 .. Len(E) : F[i] = E[i] /\ E[i] \in Range(E)
          /\ \A i \in 1 .. Len(E) + 1 : i \in 1 .. Len(E) \/ i = Len(E) + 1
      BY Zenon, <3>0, <1>2, AppendFacts DEF F
    <3>2. \A i \in 1 .. Len(E) : ~(Len(E) + 1 < i)
      BY <3>1
    <3>3. ~(Len(E) + 1 < Len(E) + 1)
      BY <3>1
    <3> SUFFICES ASSUME NEW i \in 1 .. Len(E) + 1, NEW j \in 1 .. Len(E) + 1, i < j
                 PROVE  After(F[i], F[j])
      BY Zenon, <3>0, <3>1
    <3>4. i \in 1 .. Len(E)
      BY Zenon, <3>1, <3>2, <3>3
    <3>5. F[i] = E[i] /\ E[i] \in Range(E)
      BY Zenon, <3>1, <3>4
    <3>6. CASE j = Len(E) + 1
      BY Zenon, <2>1, <3>0, <3>1, <3>5, <3>6
    <3>7. CASE j \in 1 .. Len(E)
      <4>1. Ahead(E[i], E[j])
        BY Zenon, <3>0, <3>4, <3>7 DEF EventsAreOrdered
      <4>2. After(E[i], E[j])
        BY Zenon, <1>6, <1>7, <3>0, <3>5, <4>1
      <4> QED
        BY Zenon, <3>1, <3>5, <3>7, <4>2
    <3> QED
      BY Zenon, <3>1, <3>6, <3>7
  <2>4. \A i, j \in 1 .. Len(code_map) : i < j => After(code_map[i], code_map[j])
    <3>1. code_map \in Seq(Nat)
      BY Zenon DEF ProfilerTyping
    <3>2. \A i \in 1 .. Len(code_map) : code_map[i] \in Range(code_map)
      BY Zenon, <1>2, <3>1, AppendFacts
    <3> QED
      BY Zenon, <1>6, <1>7, <3>2 DEF EventsAreOrdered
  <2>5. \A m \in Range(code_map), k \in Range(events_buffer) : After(m, k)
    BY Zenon, <1>6, <1>7 DEF EventsAreOrdered
  <2>6. /\ \A m \in Range(code_map'), k \in Range(events_buffer') : After(m, k)
        /\ \A m \in Range(code_map') \cup Range(events_buffer'), k \in Unqueued' : After(m, k)
    BY Zenon, <1>1, <1>8, <2>1, <2>2, <2>5
  <2>7. \A i, j \in 1 .. Len(code_map') : i < j => After(code_map'[i], code_map'[j])
    BY Zenon, <1>1, <2>4
  <2> QED
    BY Zenon, <2>3, <2>6, <2>7 DEF EventsAreOrdered, Ahead, After
<1>12. LastIsApplied' /\ PeekedIsKept' /\ ProfileIsPast'
  BY Zenon, <1>1 DEF LastIsApplied, PeekedIsKept, ProfileIsPast
<1>13. SamplesMeetTheirCodeMap'
  <2> SUFFICES ASSUME NEW s \in profile
               PROVE  /\ Range(s.map) = {m \in 1 .. last_code_event_id :
                                           m = s.order \/ After(m, s.order)}
                      /\ \A i, j \in DOMAIN s.map : i < j => After(s.map[i], s.map[j])
    BY Zenon, <1>1 DEF SamplesMeetTheirCodeMap, Ahead
  <2> HIDE DEF After
  <2>1. s.order \notin Unqueued
    BY Zenon, <1>7 DEF ProfileIsPast, Unqueued
  <2>2. \A i \in DOMAIN s.map : s.map[i] \notin Unqueued
    BY Zenon, <1>7 DEF ProfileIsPast, Range
  <2>3. \A m : m \in Range(s.map) <=>
               m \in 1 .. last_code_event_id /\ (m = s.order \/ After(m, s.order))
    BY Zenon, <1>6, <2>1 DEF SamplesMeetTheirCodeMap
  <2> QED
    BY Zenon, <1>6, <2>2, <2>3 DEF SamplesMeetTheirCodeMap
<1> QED
  BY Zenon, <1>9, <1>10, <1>11, <1>12, <1>13

(* The steps of the VM thread.                                             *)
LEMMA VmKeepsProfiler == ASSUME ProfilerIInv, Vm PROVE ProfilerIInv'
<1>1. ProfilerTyping /\ EventsAreNumbered
  BY Zenon DEF ProfilerIInv
<1>2. CASE TakeNumber
  <2>1. /\ vm = "run" /\ vm' = "event" /\ vm_order' = last_code_event_id + 1
        /\ last_code_event_id' = last_code_event_id + 1
        /\ UNCHANGED <<ringVars, events_buffer, ticks_from_vm_buffer, processor, moving,
                       overtaken, last_processed_code_event_id, code_map, profile>>
    BY Zenon, <1>2 DEF TakeNumber, VmStep, evacuationVars
  <2>2. last_code_event_id + 1 \in Nat /\ last_code_event_id + 1 # 0
    BY <1>1 DEF ProfilerTyping
  <2>3. \A e \in Evacuators : moving[e] = 0
    BY Zenon, <1>1, <2>1 DEF EventsAreNumbered
  <2>4. ProducerStep
    BY Zenon, <1>1, <2>1, <2>2, <2>3 DEF ProducerStep, ProfilerTyping
  <2>5. Unqueued' = Unqueued \cup {last_code_event_id + 1}
    BY Zenon, <2>1, <2>2 DEF Unqueued
  <2> QED
    BY Zenon, <2>1, <2>4, <2>5, NumberIsTaken
<1>3. CASE QueueEvent
  <2>1. /\ vm = "event" /\ vm' = "run" /\ events_buffer' = Append(events_buffer, vm_order)
        /\ UNCHANGED <<ringVars, ticks_from_vm_buffer, processor, last_code_event_id, vm_order,
                       moving, overtaken, last_processed_code_event_id, code_map, profile>>
    BY Zenon, <1>3 DEF QueueEvent, VmStep, evacuationVars
  <2>2. \A e \in Evacuators : moving[e] = 0
    BY Zenon, <1>1, <2>1 DEF EventsAreNumbered
  <2>3. Range(moving) \subseteq {0}
    BY Zenon, <1>1, <2>2 DEF Range, ProfilerTyping
  <2>4. ProducerStep
    BY Zenon, <1>1, <2>1, <2>2 DEF ProducerStep, ProfilerTyping
  <2>5. Unqueued = {vm_order} \ {0} /\ Unqueued' = {}
    BY Zenon, <2>1, <2>3 DEF Unqueued
  <2>6. vm_order # 0 /\ vm_order \in Nat
    BY Zenon, <1>1, <2>1 DEF EventsAreNumbered, ProfilerTyping
  <2>7. vm_order \notin 1 .. vm_order - 1
    BY <2>6
  <2>8. overtaken' = overtaken \cup {<<m, vm_order>> : m \in Unqueued \cap 1 .. vm_order - 1}
    BY Zenon, <2>1, <2>5, <2>7
  <2> QED
    BY Zenon, <2>1, <2>4, <2>5, <2>6, <2>8, EventIsQueued
<1>4. CASE QueueTick
  <2>1. ticks_from_vm_buffer' \in Seq(Nat)
    BY <1>1, <1>4 DEF QueueTick, ProfilerTyping
  <2> QED
    BY Zenon, <1>1, <1>4, <2>1, QuietKeepsProfiler
       DEF QueueTick, VmStep, ProfilerTyping, EventsAreNumbered
<1>5. CASE TakeTick \/ StartProcessor \/ StopSynchronously \/ Joined
  BY Zenon, <1>1, <1>5, QuietKeepsProfiler
     DEF TakeTick, StartProcessor, StopSynchronously, Joined, VmStep, ProfilerTyping,
         EventsAreNumbered
<1>6. CASE StartEvacuation \/ EndEvacuation
  BY Zenon, <1>1, <1>6, QuietKeepsProfiler
     DEF StartEvacuation, EndEvacuation, VmStep, ProfilerTyping
<1> QED
  BY Zenon, <1>2, <1>3, <1>4, <1>5, <1>6 DEF Vm

(* The steps of the tasks that evacuate pages in parallel.                 *)
LEMMA EvacuationKeepsProfiler == ASSUME ProfilerIInv, Evacuation PROVE ProfilerIInv'
<1>1. ProfilerTyping /\ EventsAreNumbered
  BY Zenon DEF ProfilerIInv
<1>2. PICK e \in Evacuators : TakeMoveNumber(e) \/ QueueMoveEvent(e)
  BY Zenon DEF Evacuation
<1>3. /\ vm = "gc" /\ vm' = "gc"
      /\ UNCHANGED <<ringVars, ticks_from_vm_buffer, processor, vm_order,
                     last_processed_code_event_id, code_map, profile>>
  BY Zenon, <1>2 DEF TakeMoveNumber, QueueMoveEvent, EvacuatorStep, vmVars
<1>4. /\ Unqueued = Range(moving) \ {0} /\ Unqueued' = Range(moving') \ {0}
      /\ moving \in [Evacuators -> Nat]
  BY Zenon, <1>1, <1>3 DEF Unqueued, ProfilerTyping
<1>5. CASE TakeMoveNumber(e)
  <2>1. /\ moving[e] = 0 /\ last_code_event_id' = last_code_event_id + 1
        /\ moving' = [moving EXCEPT ![e] = last_code_event_id + 1]
        /\ UNCHANGED <<events_buffer, overtaken>>
    BY Zenon, <1>5 DEF TakeMoveNumber
  <2>2. last_code_event_id + 1 \in Nat /\ last_code_event_id + 1 # 0
    BY <1>1 DEF ProfilerTyping
  <2>3. /\ moving' \in [Evacuators -> Nat] /\ moving'[e] = last_code_event_id + 1
        /\ \A f \in Evacuators \ {e} : moving'[f] = moving[f]
    BY Zenon, <1>4, <2>1, <2>2
  <2>4. \A f \in Evacuators : moving[f] # last_code_event_id + 1
    <3>1. last_code_event_id + 1 \notin 1 .. last_code_event_id
      BY <1>1 DEF ProfilerTyping
    <3>2. \A f \in Evacuators : moving[f] \in Range(moving)
      BY Zenon, <1>4 DEF Range
    <3> QED
      BY Zenon, <1>1, <1>4, <2>2, <3>1, <3>2 DEF EventsAreNumbered
  <2>5. ProducerStep
    BY Zenon, <1>1, <1>3, <2>3, <2>4 DEF ProducerStep, EventsAreNumbered, ProfilerTyping
  <2>6. Unqueued' = Unqueued \cup {last_code_event_id + 1}
    BY Zenon, <1>4, <2>1, <2>2, <2>3 DEF Range
  <2> QED
    BY Zenon, <2>1, <2>5, <2>6, NumberIsTaken
<1>6. CASE QueueMoveEvent(e)
  <2>1. /\ moving[e] # 0 /\ moving' = [moving EXCEPT ![e] = 0]
        /\ events_buffer' = Append(events_buffer, moving[e])
        /\ overtaken' = overtaken \cup
                          {<<m, moving[e]>> : m \in Range(moving) \cap 1 .. moving[e] - 1}
        /\ UNCHANGED last_code_event_id
    BY Zenon, <1>6 DEF QueueMoveEvent
  <2>2. 0 \in Nat /\ moving[e] \in Nat /\ 0 \notin 1 .. moving[e] - 1
    BY <1>4
  <2>3. /\ moving' \in [Evacuators -> Nat] /\ moving'[e] = 0
        /\ \A f \in Evacuators \ {e} : moving'[f] = moving[f]
    BY Zenon, <1>4, <2>1, <2>2
  <2>4. ProducerStep
    BY Zenon, <1>1, <1>3, <2>3 DEF ProducerStep, EventsAreNumbered, ProfilerTyping
  <2>5. \A f \in Evacuators \ {e} : moving[f] # moving[e]
    BY Zenon, <1>1, <2>1 DEF EventsAreNumbered
  <2>6. Unqueued' = Unqueued \ {moving[e]} /\ moving[e] \in Unqueued
    BY Zenon, <1>4, <2>1, <2>3, <2>5 DEF Range
  <2>7. Range(moving) \cap 1 .. moving[e] - 1 = Unqueued \cap 1 .. moving[e] - 1
    BY Zenon, <1>4, <2>2
  <2> QED
    BY Zenon, <2>1, <2>4, <2>6, <2>7, EventIsQueued
<1> QED
  BY Zenon, <1>2, <1>5, <1>6

(* A step of the handler or the processor that leaves the events alone.    *)
LEMMA EventsStay ==
  ASSUME ProfilerIInv,
         UNCHANGED <<events_buffer, last_code_event_id, evacuationVars,
                     last_processed_code_event_id, code_map, vm, vm_order>>
  PROVE  /\ EventsAreNumbered' /\ EventsAreOrdered' /\ LastIsApplied'
         /\ UNCHANGED profile => ProfileIsPast' /\ SamplesMeetTheirCodeMap'
<1>1. UNCHANGED <<moving, overtaken>>
  BY Zenon DEF evacuationVars
<1>2. Unqueued' = Unqueued
  BY Zenon, <1>1 DEF Unqueued
<1>3. EventsAreNumbered'
  BY Zenon, <1>1, <1>2 DEF ProfilerIInv, EventsAreNumbered
<1>4. EventsAreOrdered' /\ LastIsApplied'
  BY Zenon, <1>1, <1>2 DEF ProfilerIInv, EventsAreOrdered, Ahead, LastIsApplied
<1>5. UNCHANGED profile => ProfileIsPast' /\ SamplesMeetTheirCodeMap'
  BY Zenon, <1>1 DEF ProfilerIInv, ProfileIsPast, SamplesMeetTheirCodeMap, Ahead
<1> QED
  BY Zenon, <1>3, <1>4, <1>5

(* The profiler starts with nothing queued, applied or recorded.           *)
LEMMA ProfilerInitIInv == ProfilerInit => ProfilerIInv
<1> SUFFICES ASSUME ProfilerInit PROVE ProfilerIInv
  BY Zenon
<1>1. ProfilerTyping
  BY ProfilerAssumption DEF ProfilerInit, ProfilerTyping, Ring!Init, Ring!Entries
<1>2. /\ Range(moving) \subseteq {0} /\ Unqueued = {}
      /\ \A e \in Evacuators : moving[e] = 0
  BY Zenon DEF ProfilerInit, Range, Unqueued
<1>3. Range(code_map) = {} /\ Range(events_buffer) = {} /\ 1 .. 0 = {} /\ Len(<<>>) = 0
  BY DEF ProfilerInit, Range
<1>4. EventsAreNumbered
  BY Zenon, <1>2, <1>3 DEF ProfilerInit, EventsAreNumbered
<1>5. EventsAreOrdered
  BY Zenon, <1>2, <1>3 DEF ProfilerInit, EventsAreOrdered
<1> QED
  BY Zenon, <1>1, <1>4, <1>5
     DEF ProfilerInit, ProfilerIInv, LastIsApplied, PeekedIsKept, ProfileIsPast,
         SamplesMeetTheirCodeMap

(* The signal handler writes only to entries that are not full.            *)
LEMMA HandlerKeepsProfiler == ASSUME ProfilerIInv, SignalHandler PROVE ProfilerIInv'
<1>1. ProfilerTyping /\ PeekedIsKept
  BY Zenon DEF ProfilerIInv
<1>2. UNCHANGED <<events_buffer, ticks_from_vm_buffer, last_code_event_id, evacuationVars,
                  last_processed_code_event_id, code_map, profile, vm, vm_order, processor,
                  dequeue_pos>>
  BY Zenon DEF SignalHandler, StartTickSample, FinishTickSample, vmVars, ringVars, Ring!Write,
         Ring!FinishEnqueue
<1>3. /\ buffer' \in [Ring!Entries -> [marker : {"kEmpty", "kFull"}, record : Nat \cup {NoRecord}]]
      /\ enqueue_pos' \in Ring!Entries
      /\ buffer[dequeue_pos].marker = "kFull" => buffer'[dequeue_pos] = buffer[dequeue_pos]
  <2>1. CASE StartTickSample /\ Ring!StartEnqueue
    BY Zenon, <1>1, <2>1 DEF StartTickSample, Ring!StartEnqueue, Ring!Write, ProfilerTyping
  <2>2. CASE StartTickSample /\ ~Ring!StartEnqueue
    BY Zenon, <1>1, <2>2 DEF StartTickSample, ProfilerTyping, ringVars
  <2>3. CASE FinishTickSample
    <3>1. Ring!Next(enqueue_pos) \in Ring!Entries
      BY <1>1, ProfilerAssumption DEF Ring!Next, Ring!Entries, ProfilerTyping
    <3> QED
      BY Zenon, <1>1, <2>3, <3>1 DEF FinishTickSample, Ring!FinishEnqueue, ProfilerTyping
  <2> QED
    BY Zenon, <2>1, <2>2, <2>3 DEF SignalHandler
<1>4. ProfilerTyping'
  BY Zenon, <1>1, <1>2, <1>3 DEF ProfilerTyping, evacuationVars
<1>5. PeekedIsKept'
  BY <1>1, <1>2, <1>3 DEF PeekedIsKept
<1> QED
  BY Zenon, <1>2, <1>4, <1>5, EventsStay DEF ProfilerIInv

(* RecordTickSample: a sample that has the number of the last event        *)
(* applied is recorded with the code map as it is.                         *)
LEMMA RecordMeetsCodeMap ==
  ASSUME ProfilerIInv, Record(last_processed_code_event_id),
         UNCHANGED <<code_map, last_code_event_id, overtaken>>
  PROVE  ProfileIsPast' /\ SamplesMeetTheirCodeMap'
<1> USE DEF ProfilerIInv
<1> DEFINE p == last_processed_code_event_id
<1> DEFINE C == code_map
<1>1. code_map \in Seq(Nat) /\ p \in Nat
  BY Zenon DEF ProfilerTyping
<1>2. /\ DOMAIN C = 1 .. Len(C) /\ Len(C) \in Nat
      /\ C # <<>> => Len(C) \in 1 .. Len(C) /\ \A i \in 1 .. Len(C) : i = Len(C) \/ i < Len(C)
      /\ C = <<>> => Range(C) = {}
  BY <1>1 DEF Range
<1>3. p \in Range(C) \cup {0}
  BY Zenon, <1>2 DEF LastIsApplied, Range
<1>4. ASSUME NEW m PROVE m \in Range(C) <=> m \in 1 .. last_code_event_id /\ (m = p \/ Ahead(m, p))
  <2>1. CASE C = <<>>
    <3>1. p = 0 /\ Range(C) = {}
      BY Zenon, <1>2, <2>1 DEF LastIsApplied
    <3>2. \A k \in 1 .. last_code_event_id : k # 0 /\ ~(k < 0)
      BY NumbersAreNaturals
    <3>3. \A k : <<0, k>> \notin overtaken
      BY Zenon, <3>2 DEF EventsAreNumbered
    <3> QED
      BY Zenon, <3>1, <3>2, <3>3 DEF Ahead
  <2>2. CASE C # <<>>
    <3>1. p = C[Len(C)] /\ p \in Range(C)
      BY Zenon, <1>2, <2>2 DEF LastIsApplied, Range
    <3>2. ASSUME m \in Range(C) PROVE m = p \/ Ahead(m, p)
      <4>1. PICK i \in 1 .. Len(C) : m = C[i]
        BY Zenon, <1>2, <3>2 DEF Range
      <4> QED
        BY Zenon, <1>2, <2>2, <3>1, <4>1 DEF EventsAreOrdered
    <3>3. ASSUME m \in Range(events_buffer) \cup Unqueued PROVE m # p /\ ~Ahead(m, p)
      <4>1. Ahead(p, m) /\ m \in Nat
        BY Zenon, <3>1, <3>3, NumbersAreNaturals DEF EventsAreOrdered
      <4> QED
        BY Zenon, <1>1, <4>1, AheadIsStrict
    <3> QED
      BY Zenon, <3>2, <3>3 DEF EventsAreNumbered
  <2> QED
    BY Zenon, <2>1, <2>2
<1>5. \A i, j \in DOMAIN C : i < j => Ahead(C[i], C[j])
  BY Zenon, <1>2 DEF EventsAreOrdered
<1>6. \A s \in profile' : s \in profile \/ (s.order = p /\ s.map = C)
  <2>1. LET s == [order |-> p, map |-> C] IN s.order = p /\ s.map = C
    OBVIOUS
  <2> QED
    BY Zenon, <2>1 DEF Record
<1>7. ProfileIsPast'
  BY Zenon, <1>3, <1>6 DEF ProfileIsPast
<1>8. ASSUME NEW s \in profile'
      PROVE  /\ Range(s.map) = {m \in 1 .. last_code_event_id : m = s.order \/ Ahead(m, s.order)}
             /\ \A i, j \in DOMAIN s.map : i < j => Ahead(s.map[i], s.map[j])
  <2>1. CASE s \in profile
    BY Zenon, <2>1 DEF SamplesMeetTheirCodeMap
  <2>2. CASE s.order = p /\ s.map = C
    BY Zenon, <1>4, <1>5, <2>2
  <2> QED
    BY Zenon, <1>6, <1>8, <2>1, <2>2
<1>9. SamplesMeetTheirCodeMap'
  BY Zenon, <1>8 DEF SamplesMeetTheirCodeMap, Ahead
<1> QED
  BY Zenon, <1>7, <1>9

(* ProcessCodeEvent: the event at the head of the queue is applied.        *)
LEMMA EventIsApplied ==
  ASSUME ProfilerIInv, events_buffer # <<>>, processor' # "record",
         events_buffer' = Tail(events_buffer),
         code_map' = Append(code_map, Head(events_buffer)),
         last_processed_code_event_id' = Head(events_buffer),
         UNCHANGED <<ringVars, ticks_from_vm_buffer, profile, last_code_event_id,
                     evacuationVars, vm, vm_order>>
  PROVE  ProfilerIInv'
<1> USE DEF ProfilerIInv
<1>1. /\ UNCHANGED <<buffer, enqueue_pos, dequeue_pos, ticks_from_vm_buffer, profile,
                     last_code_event_id, moving, overtaken, vm, vm_order>>
      /\ Unqueued' = Unqueued
  BY Zenon DEF ringVars, evacuationVars, Unqueued
<1>2. PICK E \in Seq(Nat), C \in Seq(Nat), h \in Nat :
        E = events_buffer /\ C = code_map /\ h = Head(events_buffer)
  BY Zenon, TailFacts DEF ProfilerTyping
<1>3. PICK T \in Seq(Nat), D \in Seq(Nat) :
        T = Tail(E) /\ D = Append(C, h) /\ T = events_buffer' /\ D = code_map'
  BY Zenon, <1>2, TailFacts, AppendFacts
<1>4. /\ h = E[1] /\ 1 \in 1 .. Len(E) /\ Range(E) = Range(T) \cup {h}
      /\ \A i \in 1 .. Len(T) : T[i] = E[i + 1] /\ i + 1 \in 1 .. Len(E)
      /\ \A i, j \in 1 .. Len(T) : i < j => i + 1 < j + 1
      /\ \A m \in Range(T) : \E i \in 1 .. Len(E) : 1 < i /\ m = E[i]
  <2>1. E # <<>> /\ h = Head(E) /\ T = Tail(E)
    BY Zenon, <1>2, <1>3
  <2>2. /\ Head(E) = E[1] /\ 1 \in 1 .. Len(E) /\ Range(E) = Range(Tail(E)) \cup {Head(E)}
        /\ \A i \in 1 .. Len(Tail(E)) : Tail(E)[i] = E[i + 1] /\ i + 1 \in 1 .. Len(E)
        /\ \A i, j \in 1 .. Len(Tail(E)) : i < j => i + 1 < j + 1
        /\ \A m \in Range(Tail(E)) : \E i \in 1 .. Len(E) : 1 < i /\ m = E[i]
    BY Zenon, <2>1, TailFacts
  <2> QED
    BY Zenon, <2>1, <2>2
<1>5. /\ Range(D) = Range(C) \cup {h} /\ D # <<>> /\ D[Len(D)] = h
      /\ Len(D) = Len(C) + 1 /\ Len(C) \in Nat
      /\ \A i \in 1 .. Len(C) : D[i] = C[i] /\ C[i] \in Range(C)
      /\ \A i \in 1 .. Len(C) + 1 : i \in 1 .. Len(C) \/ i = Len(C) + 1
  <2>1. D = Append(C, h)
    BY Zenon, <1>3
  <2>2. /\ Append(C, h) # <<>> /\ Range(Append(C, h)) = Range(C) \cup {h}
        /\ Len(Append(C, h)) = Len(C) + 1 /\ Len(C) \in Nat /\ Append(C, h)[Len(C) + 1] = h
        /\ \A i \in 1 .. Len(C) : Append(C, h)[i] = C[i] /\ C[i] \in Range(C)
        /\ \A i \in 1 .. Len(C) + 1 : i \in 1 .. Len(C) \/ i = Len(C) + 1
    BY Zenon, AppendFacts
  <2> QED
    BY Zenon, <2>1, <2>2
<1>6. ProfilerTyping'
  BY Zenon, <1>1, <1>2, <1>3 DEF ProfilerTyping
<1>7. EventsAreNumbered'
  <2>1. Range(D) \cup Range(T) \cup Unqueued = 1 .. last_code_event_id
    BY Zenon, <1>2, <1>4, <1>5 DEF EventsAreNumbered
  <2> QED
    BY Zenon, <1>1, <1>3, <2>1 DEF EventsAreNumbered
<1>8. EventsAreOrdered'
  <2>1. \A i, j \in 1 .. Len(D) : i < j => Ahead(D[i], D[j])
    <3>1. \A i \in 1 .. Len(C) : ~(Len(C) + 1 < i)
      BY <1>5
    <3>2. ~(Len(C) + 1 < Len(C) + 1)
      BY <1>5
    <3> SUFFICES ASSUME NEW i \in 1 .. Len(C) + 1, NEW j \in 1 .. Len(C) + 1, i < j
                 PROVE  Ahead(D[i], D[j])
      BY Zenon, <1>5
    <3>3. i \in 1 .. Len(C)
      BY Zenon, <1>5, <3>1, <3>2
    <3>4. CASE j = Len(C) + 1
      BY Zenon, <1>2, <1>4, <1>5, <3>3, <3>4 DEF EventsAreOrdered
    <3>5. CASE j \in 1 .. Len(C)
      BY Zenon, <1>2, <1>5, <3>3, <3>5 DEF EventsAreOrdered
    <3> QED
      BY Zenon, <1>5, <3>4, <3>5
  <2>2. \A i, j \in 1 .. Len(E) : i < j => Ahead(E[i], E[j])
    BY Zenon, <1>2 DEF EventsAreOrdered
  <2>3. \A i, j \in 1 .. Len(T) : i < j => Ahead(T[i], T[j])
    <3> SUFFICES ASSUME NEW i \in 1 .. Len(T), NEW j \in 1 .. Len(T), i < j
                 PROVE  Ahead(T[i], T[j])
      BY Zenon
    <3>1. /\ T[i] = E[i + 1] /\ i + 1 \in 1 .. Len(E)
          /\ T[j] = E[j + 1] /\ j + 1 \in 1 .. Len(E) /\ i + 1 < j + 1
      BY Zenon, <1>4
    <3> QED
      BY Zenon, <2>2, <3>1
  <2>4. ASSUME NEW m \in Range(T) PROVE Ahead(h, m)
    <3>1. PICK i \in 1 .. Len(E) : 1 < i /\ m = E[i]
      BY Zenon, <1>4
    <3> QED
      BY Zenon, <1>4, <2>2, <3>1
  <2>5. /\ \A m \in Range(D), n \in Range(T) : Ahead(m, n)
        /\ \A m \in Range(D) \cup Range(T), n \in Unqueued : Ahead(m, n)
    BY Zenon, <1>2, <1>4, <1>5, <2>4 DEF EventsAreOrdered
  <2> QED
    BY Zenon, <1>1, <1>3, <2>1, <2>3, <2>5 DEF EventsAreOrdered, Ahead
<1>9. LastIsApplied' /\ PeekedIsKept'
  BY Zenon, <1>2, <1>3, <1>5 DEF LastIsApplied, PeekedIsKept
<1>10. ProfileIsPast'
  <2>1. Range(code_map) \subseteq Range(code_map')
    BY Zenon, <1>2, <1>3, <1>5
  <2> QED
    BY Zenon, <1>1, <2>1 DEF ProfileIsPast
<1>11. SamplesMeetTheirCodeMap'
  BY Zenon, <1>1 DEF SamplesMeetTheirCodeMap, Ahead
<1> QED
  BY Zenon, <1>6, <1>7, <1>8, <1>9, <1>10, <1>11

(* The steps of the processor's thread.                                    *)
LEMMA ProcessorKeepsProfiler == ASSUME ProfilerIInv, Processor PROVE ProfilerIInv'
<1>1. ProfilerTyping /\ PeekedIsKept /\ EventsAreNumbered
  BY Zenon DEF ProfilerIInv
<1>2. ASSUME NEW to, LookAtVm(to) PROVE ProfilerIInv'
  <2>1. CASE VmSampleIsDue
    <3>1. /\ Record(last_processed_code_event_id) /\ processor' \in GoOn
          /\ ticks_from_vm_buffer' = Tail(ticks_from_vm_buffer) /\ ticks_from_vm_buffer # <<>>
          /\ UNCHANGED <<ringVars, events_buffer, code_map, last_code_event_id, vm, vm_order,
                         evacuationVars, last_processed_code_event_id>>
      BY Zenon, <1>2, <2>1 DEF LookAtVm, VmSampleIsDue, ProcessorStep, vmVars
    <3>2. ticks_from_vm_buffer' \in Seq(Nat)
      BY <1>1, <3>1 DEF ProfilerTyping
    <3>3. processor' # "record"
      BY Zenon, <3>1 DEF GoOn
    <3>4. ProfilerTyping'
      BY Zenon, <1>1, <3>1, <3>2 DEF ProfilerTyping, ringVars, evacuationVars
    <3>5. ProfileIsPast' /\ SamplesMeetTheirCodeMap'
      BY Zenon, <3>1, RecordMeetsCodeMap DEF evacuationVars
    <3> QED
      BY Zenon, <3>1, <3>3, <3>4, <3>5, EventsStay DEF ProfilerIInv, PeekedIsKept
  <2>2. CASE ~VmSampleIsDue
    BY Zenon, <1>1, <1>2, <2>2, QuietKeepsProfiler
       DEF LookAtVm, ProcessorStep, vmVars, ProfilerTyping, EventsAreNumbered
  <2> QED
    BY Zenon, <2>1, <2>2
<1>3. ASSUME NEW to, LookAtRing(to) PROVE ProfilerIInv'
  <2>1. /\ UNCHANGED <<ringVars, events_buffer, ticks_from_vm_buffer, code_map, profile, vm,
                       vm_order, evacuationVars, last_processed_code_event_id, last_code_event_id>>
        /\ peeked' = Ring!Peek /\ processor' = to
        /\ to = CASE peeked' = NoRecord -> "empty"
                  [] peeked' = last_processed_code_event_id -> "record"
                  [] OTHER -> "next"
    BY Zenon, <1>3 DEF LookAtRing, ProcessorStep, vmVars
  <2>2. processor' = "record" => Ring!Peek = last_processed_code_event_id /\ Ring!Peek # NoRecord
    <3>1. CASE peeked' = NoRecord
      <4>1. last_processed_code_event_id # NoRecord
        BY Zenon, <1>1, ProfilerAssumption DEF ProfilerTyping
      <4>2. to = "empty"
        BY Zenon, <2>1, <3>1, <4>1
      <4> QED
        BY Zenon, <2>1, <4>2
    <3>2. CASE peeked' # NoRecord /\ peeked' = last_processed_code_event_id
      BY Zenon, <2>1, <3>2
    <3>3. CASE peeked' # NoRecord /\ peeked' # last_processed_code_event_id
      BY Zenon, <2>1, <3>3
    <3> QED
      BY Zenon, <3>1, <3>2, <3>3
  <2>3. Ring!Peek # NoRecord =>
          buffer[dequeue_pos] = [marker |-> "kFull", record |-> Ring!Peek]
    BY Zenon, <1>1 DEF Ring!Peek, ProfilerTyping
  <2>4. PeekedIsKept'
    BY Zenon, <2>1, <2>2, <2>3 DEF PeekedIsKept, ringVars
  <2>5. ProfilerTyping'
    BY Zenon, <1>1, <2>1 DEF ProfilerTyping, ringVars, evacuationVars
  <2> QED
    BY Zenon, <2>1, <2>4, <2>5, EventsStay DEF ProfilerIInv
<1>4. ASSUME NEW to, RecordFromRing(to) PROVE ProfilerIInv'
  <2>1. /\ processor = "record" /\ processor' \in GoOn /\ Record(buffer[dequeue_pos].record)
        /\ Ring!Remove
        /\ UNCHANGED <<events_buffer, ticks_from_vm_buffer, code_map, last_code_event_id, vm,
                       vm_order, evacuationVars, last_processed_code_event_id>>
    BY Zenon, <1>4 DEF RecordFromRing, ProcessorStep, vmVars
  <2>2. Record(last_processed_code_event_id)
    <3>1. processor = "record"
      BY Zenon, <2>1
    <3>2. buffer[dequeue_pos] = [marker |-> "kFull", record |-> last_processed_code_event_id]
      BY Zenon, <1>1, <3>1 DEF PeekedIsKept
    <3>3. buffer[dequeue_pos].record = last_processed_code_event_id
      BY <3>2
    <3> QED
      BY Zenon, <2>1, <3>3
  <2>3. Ring!Next(dequeue_pos) \in Ring!Entries
    BY <1>1, ProfilerAssumption DEF Ring!Next, Ring!Entries, ProfilerTyping
  <2>4. ProfilerTyping'
    BY Zenon, <1>1, <2>1, <2>3 DEF ProfilerTyping, Ring!Remove, evacuationVars
  <2>5. ProfileIsPast' /\ SamplesMeetTheirCodeMap'
    BY Zenon, <2>1, <2>2, RecordMeetsCodeMap DEF evacuationVars
  <2> QED
    BY Zenon, <2>1, <2>4, <2>5, EventsStay DEF ProfilerIInv, PeekedIsKept, GoOn
<1>5. ASSUME NEW to, ProcessCodeEvent(to) PROVE ProfilerIInv'
  <2>1. processor' # "record"
    BY Zenon, <1>5 DEF ProcessCodeEvent, ProcessorStep, GoOn
  <2>2. CASE events_buffer = <<>>
    BY Zenon, <1>1, <1>5, <2>1, <2>2, QuietKeepsProfiler
       DEF ProcessCodeEvent, ProcessorStep, vmVars, ProfilerTyping, EventsAreNumbered
  <2>3. CASE events_buffer # <<>>
    <3>1. /\ events_buffer' = Tail(events_buffer)
          /\ code_map' = Append(code_map, Head(events_buffer))
          /\ last_processed_code_event_id' = Head(events_buffer)
          /\ UNCHANGED <<ringVars, ticks_from_vm_buffer, profile, last_code_event_id,
                         evacuationVars, vm, vm_order>>
      BY Zenon, <1>5, <2>3 DEF ProcessCodeEvent, ProcessorStep, vmVars
    <3> QED
      BY Zenon, <2>1, <2>3, <3>1, EventIsApplied
  <2> QED
    BY Zenon, <2>2, <2>3
<1>6. ASSUME NEW to, LookIfEmpty(to) PROVE ProfilerIInv'
  BY Zenon, <1>1, <1>6, QuietKeepsProfiler
     DEF LookIfEmpty, ProcessorStep, vmVars, ProfilerTyping, EventsAreNumbered
<1>7. CASE WhileRunning \/ DoSample
  BY Zenon, <1>1, <1>7, QuietKeepsProfiler
     DEF WhileRunning, DoSample, ProcessorStep, vmVars, ProfilerTyping, EventsAreNumbered
<1> QED
  BY Zenon, <1>2, <1>3, <1>4, <1>5, <1>6, <1>7 DEF Processor

(* Every step of the profiler keeps the invariant.                         *)
LEMMA ProfilerStepKeeps == ASSUME ProfilerIInv, [ProfilerNext]_profilerVars PROVE ProfilerIInv'
<1>1. UNCHANGED profilerVars => ProfilerIInv'
  BY Zenon, QuietKeepsProfiler
     DEF profilerVars, vmVars, ProfilerIInv, ProfilerTyping, EventsAreNumbered
<1> QED
  BY Zenon, <1>1, VmKeepsProfiler, EvacuationKeepsProfiler, HandlerKeepsProfiler,
     ProcessorKeepsProfiler DEF ProfilerNext

(* For any number of code events, samples and evacuation tasks and any     *)
(* length of the ring, a sample is looked up in the code map under which   *)
(* it was taken, but for events that overtook each other.                  *)
THEOREM SamplesAreInOrder == ProfilerSpec => []SamplesMeetTheirCodeMap
<1>1. ProfilerIInv /\ [ProfilerNext]_profilerVars => ProfilerIInv'
  BY Zenon, ProfilerStepKeeps
<1>2. ProfilerIInv => SamplesMeetTheirCodeMap
  BY Zenon DEF ProfilerIInv
<1> QED
  BY <1>1, <1>2, ProfilerInitIInv, PTL DEF ProfilerSpec
=============================================================================
