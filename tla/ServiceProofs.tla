---------------------------- MODULE ServiceProofs ----------------------------
(***************************************************************************)
(* Proofs about services that V8's threads share: the ring of trace        *)
(* events, for any number of chunks and of events; the registry of         *)
(* category groups, for any number of slots and of threads; and the        *)
(* dispatcher of optimising compilations, for any jobs, tasks and capacity *)
(* of the input queue.                                                     *)
(***************************************************************************)
EXTENDS TracingController, OptimizingCompileDispatcher, WellFoundedInduction, TLAPS

(* Quotient and remainder undo a packing a * b + r.                        *)
LEMMA DivisionIsUnique ==
  ASSUME NEW a \in Nat, NEW b \in Nat \ {0}, NEW r \in 0 .. b - 1
  PROVE  (a * b + r) \div b = a /\ (a * b + r) % b = r
<1> DEFINE x == a * b + r
           q == x \div b
           s == x % b
<1>1. a * b \in Nat /\ x \in Nat
  OBVIOUS
<1>2. q \in Int /\ s \in 0 .. b - 1 /\ x = b * q + s
  OBVIOUS
<1> HIDE DEF q, s
<1>3. a * b + r = b * q + s
  BY Zenon, <1>2
<1> HIDE DEF x
<1>4. q = a
  <2>1. ASSUME q >= a + 1 PROVE FALSE
    <3>1. b * q >= b * (a + 1)
      BY <1>2, <2>1
    <3>2. b * (a + 1) = a * b + b
      OBVIOUS
    <3> QED
      BY <1>1, <1>2, <1>3, <3>1, <3>2
  <2>2. ASSUME q <= a - 1 PROVE FALSE
    <3>1. b * q <= b * (a - 1)
      BY <1>2, <2>2
    <3>2. b * (a - 1) = a * b - b
      OBVIOUS
    <3> QED
      BY <1>1, <1>2, <1>3, <3>1, <3>2
  <2> QED
    BY <1>2, <2>1, <2>2
<1>5. s = r
  BY <1>1, <1>2, <1>3, <1>4
<1> QED
  BY Zenon, <1>4, <1>5 DEF q, s, x

(* ExtractHandle undoes MakeHandle, for every place of the ring and every  *)
(* sequence number of a chunk.                                             *)
LEMMA HandleIsExact ==
  ASSUME NEW c \in Chunks, NEW seq \in 0 .. SeqModulus - 1, NEW i \in Places
  PROVE  ExtractHandle(MakeHandle(c, seq, i)) = [seq |-> seq, chunk |-> c, index |-> i]
<1> USE BufferAssumption DEF Chunks, Places
<1> DEFINE at == c * kChunkSize + i
           handle == MakeHandle(c, seq, i)
<1>1. at \in 0 .. BufferCapacity - 1 /\ BufferCapacity \in Nat \ {0}
  <2>1. c * kChunkSize <= (max_chunks - 1) * kChunkSize /\ c * kChunkSize >= 0
        /\ c * kChunkSize \in Int
    OBVIOUS
  <2>2. (max_chunks - 1) * kChunkSize = max_chunks * kChunkSize - kChunkSize
        /\ max_chunks * kChunkSize \in Int
    OBVIOUS
  <2>3. max_chunks * kChunkSize > 0
    OBVIOUS
  <2> QED
    BY <2>1, <2>2, <2>3 DEF BufferCapacity
<1>2. handle = seq * BufferCapacity + at
  <2>1. seq * BufferCapacity \in Int /\ c * kChunkSize \in Int
    BY <1>1
  <2> QED
    BY <2>1 DEF MakeHandle
<1> HIDE DEF handle, at
<1>3. handle \div BufferCapacity = seq /\ handle % BufferCapacity = at
  BY <1>1, <1>2, DivisionIsUnique
<1>4. at \div kChunkSize = c /\ at % kChunkSize = i
  BY DivisionIsUnique DEF at
<1>5. seq % SeqModulus = seq
  OBVIOUS
<1> QED
  BY Zenon, <1>3, <1>4, <1>5 DEF ExtractHandle, handle

(* The TraceBufferChunks.                                                  *)
ChunkRecords ==
  [seq : Nat, next_free : 0 .. kChunkSize, objects : [Places -> Nat \cup {Nothing}]]

(* A chunk that has been begun has a sequence number of the past.          *)
Begun(chunk, next_seq) == chunk \in ChunkRecords /\ chunk.seq < next_seq

(* The types, and that the chunks in use have been begun.                  *)
BufferTyping ==
  /\ chunks \in [Chunks -> ChunkRecords \cup {Nothing}]
  /\ \A c \in Chunks : chunks[c] # Nothing => Begun(chunks[c], current_chunk_seq)
  /\ chunk_index \in Chunks /\ is_empty \in BOOLEAN
  /\ ~is_empty => Begun(chunks[chunk_index], current_chunk_seq)
  /\ handles \in Seq(Nat) /\ Len(handles) <= MaxEvents
  /\ current_chunk_seq \in 1 .. Len(handles) + 1
  /\ filling = [t \in Tracers |-> filling[t]]
  /\ \A t \in Tracers : filling[t] # Nothing =>
       filling[t] \in Nat \X Chunks \X Places /\ Begun(chunks[filling[t][2]], current_chunk_seq)
  /\ owner \in [Chunks \X Places -> Nat \cup {Nothing}]

(* Each handle is packed from the place that its event was given, and as   *)
(* long as the chunk there has the same sequence number, the place is in   *)
(* use and belongs to the event.                                           *)
Held(e, c, seq, i) ==
  /\ handles[e] = MakeHandle(c, seq, i)
  /\ Begun(chunks[c], current_chunk_seq) /\ chunks[c].seq = seq =>
       i < chunks[c].next_free /\ owner[<<c, i>>] = e

(* This holds of every event that was added.                               *)
HandlesAreHeld ==
  \A e \in DOMAIN handles :
    \E c \in Chunks, seq \in 0 .. current_chunk_seq - 1, i \in Places : Held(e, c, seq, i)

(* The inductive invariant.                                                *)
BufferIInv == BufferTyping /\ HandlesAreHeld

(* A new buffer has no chunk and has given out no handle.                  *)
LEMMA BufferInitIInv == BufferInit => BufferIInv
<1> SUFFICES ASSUME BufferInit PROVE BufferIInv
  BY Zenon
<1> USE BufferAssumption DEF BufferInit
<1>1. handles = <<>> /\ handles \in Seq(Nat) /\ Len(handles) = 0
  OBVIOUS
<1>2. BufferTyping
  BY <1>1 DEF BufferTyping, Chunks
<1>3. HandlesAreHeld
  BY <1>1 DEF HandlesAreHeld
<1> QED
  BY Zenon, <1>2, <1>3 DEF BufferIInv

(* The place that AddTraceEvent takes: in a chunk just begun, or the next  *)
(* one of the current chunk.                                               *)
Takes(t, c, seq, i) ==
  LET objects == chunks'[c].objects
  IN  /\ chunks' = [chunks EXCEPT ![c] =
            [seq |-> seq, next_free |-> i + 1, objects |-> objects]]
      /\ objects \in [Places -> Nat \cup {Nothing}]
      /\ chunk_index' = c /\ is_empty' = FALSE
      /\ handles' = Append(handles, MakeHandle(c, seq, i))
      /\ owner' = [owner EXCEPT ![<<c, i>>] = Len(handles) + 1]
      /\ filling' = [filling EXCEPT ![t] = <<Len(handles) + 1, c, i>>]
      /\ \/ seq = current_chunk_seq /\ i = 0 /\ current_chunk_seq' = current_chunk_seq + 1
         \/ /\ Begun(chunks[c], current_chunk_seq) /\ seq = chunks[c].seq /\ i = chunks[c].next_free
            /\ current_chunk_seq' = current_chunk_seq

(* Chunks are begun no more often than events are added.                   *)
LEMMA SeqBound ==
  ASSUME BufferTyping
  PROVE  /\ Len(handles) \in Nat /\ handles \in Seq(Nat) /\ Len(handles) <= MaxEvents
         /\ current_chunk_seq \in Nat \ {0} /\ current_chunk_seq <= Len(handles) + 1
<1>1. handles \in Seq(Nat) /\ Len(handles) <= MaxEvents
      /\ current_chunk_seq \in 1 .. Len(handles) + 1
  BY Zenon DEF BufferTyping
<1>2. Len(handles) \in Nat
  BY <1>1
<1> QED
  BY <1>1, <1>2

(* AddTraceEvent gives its event one place of one chunk, with the chunk's  *)
(* sequence number.                                                        *)
LEMMA AddTakes ==
  ASSUME BufferTyping, NEW t \in Tracers, AddTraceEvent(t)
  PROVE  /\ Len(handles) + 1 <= MaxEvents
         /\ \E c \in Chunks, seq \in 0 .. SeqModulus - 1, i \in Places : Takes(t, c, seq, i)
<1> USE BufferAssumption
<1>1. Len(handles) + 1 <= MaxEvents /\ current_chunk_seq + 1 < SeqModulus
      /\ current_chunk_seq \in Nat \ {0}
  <2>1. Len(handles) + 1 <= MaxEvents
    BY Zenon DEF AddTraceEvent
  <2> QED
    BY <2>1, SeqBound
<1> DEFINE fresh == is_empty \/ chunks[chunk_index].next_free = kChunkSize
           c == IF is_empty THEN 0
                ELSE IF fresh THEN NextChunkIndex(chunk_index) ELSE chunk_index
<1>2. c \in Chunks /\ 0 \in Places
  <2>1. 0 \in Chunks /\ 0 \in Places
    BY DEF Chunks, Places
  <2>2. chunk_index \in Chunks
    BY Zenon DEF BufferTyping
  <2>3. NextChunkIndex(chunk_index) \in Chunks
    BY <2>2 DEF NextChunkIndex, Chunks
  <2> QED
    BY Zenon, <2>1, <2>2, <2>3
<1>3. CASE fresh
  <2> DEFINE objects == IF chunks[c] = Nothing THEN Empty ELSE chunks[c].objects
  <2>1. objects \in [Places -> Nat \cup {Nothing}]
    BY Zenon, <1>2 DEF BufferTyping, Empty, Begun, ChunkRecords
  <2>2. /\ chunks' = [chunks EXCEPT ![c] =
             [seq |-> current_chunk_seq, next_free |-> 0 + 1, objects |-> objects]]
        /\ chunk_index' = c /\ is_empty' = FALSE
        /\ handles' = Append(handles, MakeHandle(c, current_chunk_seq, 0))
        /\ owner' = [owner EXCEPT ![<<c, 0>>] = Len(handles) + 1]
        /\ filling' = [filling EXCEPT ![t] = <<Len(handles) + 1, c, 0>>]
        /\ current_chunk_seq' = (current_chunk_seq + 1) % SeqModulus
    <3> DEFINE chunk == NewChunk(current_chunk_seq, objects)
    <3>1. /\ chunks' = [chunks EXCEPT ![c] = [chunk EXCEPT !.next_free = chunk.next_free + 1]]
          /\ chunk_index' = c /\ is_empty' = FALSE
          /\ handles' = Append(handles, MakeHandle(c, chunk.seq, chunk.next_free))
          /\ owner' = [owner EXCEPT ![<<c, chunk.next_free>>] = Len(handles) + 1]
          /\ filling' = [filling EXCEPT ![t] = <<Len(handles) + 1, c, chunk.next_free>>]
          /\ current_chunk_seq' = (current_chunk_seq + 1) % SeqModulus
      BY Zenon, <1>3 DEF AddTraceEvent
    <3>2. /\ chunk.next_free = 0 /\ chunk.seq = current_chunk_seq
          /\ [chunk EXCEPT !.next_free = 0 + 1]
               = [seq |-> current_chunk_seq, next_free |-> 0 + 1, objects |-> objects]
      BY DEF NewChunk
    <3> HIDE DEF chunk, objects, c
    <3> QED
      BY Zenon, <3>1, <3>2
  <2>3. (current_chunk_seq + 1) % SeqModulus = current_chunk_seq + 1
    BY <1>1
  <2> HIDE DEF objects, c, fresh
  <2>4. chunks'[c].objects = objects
    BY Zenon, <1>2, <2>2 DEF BufferTyping
  <2>5. Takes(t, c, current_chunk_seq, 0)
    BY Zenon, <2>1, <2>2, <2>3, <2>4 DEF Takes
  <2> QED
    BY <1>1, <1>2, <2>5
<1>4. CASE ~fresh
  <2>1. c = chunk_index /\ Begun(chunks[c], current_chunk_seq)
    BY Zenon, <1>4 DEF BufferTyping
  <2> DEFINE i == chunks[c].next_free
             seq == chunks[c].seq
  <2>2. i \in Places /\ seq \in Nat /\ seq < current_chunk_seq
        /\ chunks[c].objects \in [Places -> Nat \cup {Nothing}]
        /\ chunks[c] = [seq |-> seq, next_free |-> i, objects |-> chunks[c].objects]
    BY <1>4, <2>1 DEF Begun, ChunkRecords, Places
  <2>3. /\ chunks' = [chunks EXCEPT ![c] = [chunks[c] EXCEPT !.next_free = i + 1]]
        /\ chunk_index' = c /\ is_empty' = FALSE
        /\ handles' = Append(handles, MakeHandle(c, seq, i))
        /\ owner' = [owner EXCEPT ![<<c, i>>] = Len(handles) + 1]
        /\ filling' = [filling EXCEPT ![t] = <<Len(handles) + 1, c, i>>]
        /\ current_chunk_seq' = current_chunk_seq
    BY Zenon, <1>4 DEF AddTraceEvent
  <2> HIDE DEF c, i, seq, fresh
  <2>4. [chunks[c] EXCEPT !.next_free = i + 1]
          = [seq |-> seq, next_free |-> i + 1, objects |-> chunks[c].objects]
    BY <2>2
  <2>5. chunks' = [chunks EXCEPT ![c] =
                    [seq |-> seq, next_free |-> i + 1, objects |-> chunks[c].objects]]
    BY Zenon, <2>3, <2>4
  <2>6. chunks'[c].objects = chunks[c].objects
    BY Zenon, <1>2, <2>5 DEF BufferTyping
  <2>7. Takes(t, c, seq, i)
    BY Zenon, <2>1, <2>2, <2>3, <2>5, <2>6 DEF Takes, i, seq
  <2>8. seq \in 0 .. SeqModulus - 1
    BY <1>1, <2>2
  <2> QED
    BY Zenon, <1>1, <1>2, <2>2, <2>7, <2>8
<1> QED
  BY Zenon, <1>1, <1>3, <1>4

(* A new event takes a place that no older handle leads to.                *)
LEMMA AddKeepsIInv ==
  ASSUME BufferIInv, NEW t \in Tracers, AddTraceEvent(t)
  PROVE  BufferIInv'
<1> USE BufferAssumption DEF BufferIInv
<1>1. /\ Len(handles) + 1 <= MaxEvents
      /\ \E c \in Chunks, seq \in 0 .. SeqModulus - 1, i \in Places : Takes(t, c, seq, i)
  BY Zenon, AddTakes
<1>2. PICK c \in Chunks, seq \in 0 .. SeqModulus - 1, i \in Places : Takes(t, c, seq, i)
  BY Zenon, <1>1
<1>0. PICK n \in Nat : n = Len(handles) + 1
  BY DEF BufferTyping
<1> DEFINE objects == chunks'[c].objects
           record == [seq |-> seq, next_free |-> i + 1, objects |-> objects]
<1>3. /\ chunks' = [d \in Chunks |-> IF d = c THEN record ELSE chunks[d]]
      /\ record \in ChunkRecords
  <2>1. /\ chunks' = [chunks EXCEPT ![c] = record]
        /\ objects \in [Places -> Nat \cup {Nothing}]
    BY Zenon, <1>2 DEF Takes
  <2>2. seq \in Nat /\ i + 1 \in 0 .. kChunkSize
    BY DEF Places
  <2> HIDE DEF objects
  <2> QED
    BY Zenon, <2>1, <2>2 DEF BufferTyping, ChunkRecords
<1>4. /\ chunk_index' = c /\ is_empty' = FALSE
      /\ handles' = Append(handles, MakeHandle(c, seq, i))
      /\ owner' = [owner EXCEPT ![<<c, i>>] = n]
      /\ filling' = [filling EXCEPT ![t] = <<n, c, i>>]
      /\ \/ seq = current_chunk_seq /\ i = 0 /\ current_chunk_seq' = current_chunk_seq + 1
         \/ /\ Begun(chunks[c], current_chunk_seq) /\ seq = chunks[c].seq /\ i = chunks[c].next_free
            /\ current_chunk_seq' = current_chunk_seq
  BY Zenon, <1>0, <1>2 DEF Takes
<1>5. MakeHandle(c, seq, i) \in Nat
  <2>1. max_chunks * kChunkSize \in Nat
    OBVIOUS
  <2>2. seq \in Nat /\ c \in Nat /\ i \in Nat
    BY DEF Chunks, Places
  <2>3. seq * BufferCapacity \in Nat /\ c * kChunkSize \in Nat
    BY <2>1, <2>2 DEF BufferCapacity
  <2> QED
    BY <2>2, <2>3 DEF MakeHandle
<1>6. /\ handles' \in Seq(Nat) /\ Len(handles') = n
      /\ DOMAIN handles' = 1 .. n /\ DOMAIN handles = 1 .. n - 1
      /\ handles'[n] = MakeHandle(c, seq, i)
      /\ \A e \in 1 .. n - 1 : handles'[e] = handles[e]
  BY <1>0, <1>4, <1>5 DEF BufferTyping
<1>7. /\ n \in Nat /\ n <= MaxEvents
      /\ current_chunk_seq' \in 1 .. n + 1 /\ current_chunk_seq \in 1 .. n
      /\ current_chunk_seq' >= current_chunk_seq /\ seq < current_chunk_seq'
  <2>1. current_chunk_seq \in 1 .. n /\ n <= MaxEvents
    BY <1>0, <1>1, SeqBound
  <2>2. Begun(chunks[c], current_chunk_seq) => chunks[c].seq < current_chunk_seq
    BY Zenon DEF Begun
  <2> QED
    BY <1>4, <2>1, <2>2
<1> HIDE DEF record, objects
<1>11. PICK next \in Nat : next = current_chunk_seq'
  BY <1>7
<1>12. \A s \in 0 .. current_chunk_seq - 1 : s \in 0 .. current_chunk_seq' - 1
  <2>1. next >= current_chunk_seq /\ current_chunk_seq \in Nat /\ next \in Nat
    BY <1>7, <1>11
  <2>2. \A s \in 0 .. current_chunk_seq - 1 : s \in 0 .. next - 1
    BY <2>1
  <2> QED
    BY Zenon, <2>2, <1>11
<1>8. \A d \in Chunks :
        (d = c \/ Begun(chunks[d], current_chunk_seq)) => Begun(chunks'[d], current_chunk_seq')
  <2>1. record.seq = seq
    BY Zenon DEF record
  <2>2. current_chunk_seq \in Nat /\ current_chunk_seq' \in Nat
    BY <1>7 DEF BufferTyping
  <2> QED
    BY <1>3, <1>7, <2>1, <2>2 DEF Begun, ChunkRecords
<1>9. BufferTyping'
  <2>1. chunks' \in [Chunks -> ChunkRecords \cup {Nothing}]
    BY Zenon, <1>3 DEF BufferTyping
  <2>2. \A d \in Chunks : chunks'[d] # Nothing => Begun(chunks'[d], current_chunk_seq')
    BY Zenon, <1>3, <1>8 DEF BufferTyping
  <2>3. owner' \in [Chunks \X Places -> Nat \cup {Nothing}]
    BY Zenon, <1>4, <1>7 DEF BufferTyping
  <2>4. /\ filling' = [u \in Tracers |-> filling'[u]]
        /\ \A u \in Tracers : filling'[u] # Nothing =>
             /\ filling'[u] \in Nat \X Chunks \X Places
             /\ Begun(chunks'[filling'[u][2]], current_chunk_seq')
    BY Zenon, <1>4, <1>7, <1>8 DEF BufferTyping
  <2>5. Begun(chunks'[chunk_index'], current_chunk_seq')
    BY Zenon, <1>4, <1>8
  <2> QED
    BY Zenon, <1>4, <1>6, <1>7, <2>1, <2>2, <2>3, <2>4, <2>5 DEF BufferTyping
<1>10. HandlesAreHeld'
  <2>1. ASSUME NEW e \in 1 .. n - 1
        PROVE  \E d \in Chunks, s \in 0 .. current_chunk_seq' - 1, j \in Places :
                 Held(e, d, s, j)'
    <3>1. PICK d \in Chunks, s \in 0 .. current_chunk_seq - 1, j \in Places : Held(e, d, s, j)
      BY Zenon, <1>6 DEF HandlesAreHeld
    <3>2. s \in 0 .. current_chunk_seq' - 1 /\ s \in Nat /\ s < current_chunk_seq
      <4>1. current_chunk_seq \in Nat
        BY <1>7
      <4>2. s \in Nat /\ s < current_chunk_seq
        BY <3>1, <4>1
      <4> QED
        BY Zenon, <1>12, <3>1, <4>2
    <3>3. handles'[e] = MakeHandle(d, s, j)
      BY Zenon, <1>6, <3>1 DEF Held
    <3>4. CASE d # c
      <4>1. chunks'[d] = chunks[d] /\ owner'[<<d, j>>] = owner[<<d, j>>]
        BY Zenon, <1>3, <1>4, <3>4 DEF BufferTyping
      <4>2. Begun(chunks[d], current_chunk_seq') /\ chunks[d].seq = s
              => Begun(chunks[d], current_chunk_seq)
        BY Zenon, <3>2 DEF Begun
      <4> QED
        BY <3>1, <3>2, <3>3, <4>1, <4>2 DEF Held
    <3>5. CASE d = c /\ seq = current_chunk_seq
      <4>1. chunks'[d].seq = seq
        BY Zenon, <1>3, <3>5 DEF record
      <4>2. chunks'[d].seq # s
        BY <3>2, <3>5, <4>1
      <4> QED
        BY Zenon, <3>2, <3>3, <4>2 DEF Held
    <3>6. CASE d = c /\ seq # current_chunk_seq
      <4>1. /\ Begun(chunks[c], current_chunk_seq) /\ seq = chunks[c].seq
            /\ i = chunks[c].next_free
        BY Zenon, <1>4, <3>6
      <4>2. chunks'[d].seq = seq /\ chunks'[d].next_free = i + 1
        BY Zenon, <1>3, <3>6 DEF record
      <4>3. CASE s = seq
        <5>1. j < i /\ owner[<<d, j>>] = e
          BY Zenon, <3>1, <3>6, <4>1, <4>3 DEF Held
        <5>2. i \in Nat /\ j \in Nat
          BY DEF Places
        <5>3. j < i + 1 /\ <<d, j>> # <<c, i>>
          BY <5>1, <5>2
        <5>4. owner'[<<d, j>>] = e
          BY Zenon, <1>4, <5>1, <5>3 DEF BufferTyping
        <5> QED
          BY <3>2, <3>3, <4>2, <5>3, <5>4 DEF Held
      <4>4. CASE s # seq
        BY Zenon, <3>2, <3>3, <4>2, <4>4 DEF Held
      <4> QED
        BY Zenon, <4>3, <4>4
    <3> QED
      BY Zenon, <3>4, <3>5, <3>6
  <2>2. \E d \in Chunks, s \in 0 .. current_chunk_seq' - 1, j \in Places : Held(n, d, s, j)'
    <3>1. seq \in 0 .. current_chunk_seq' - 1
      <4>1. seq < next /\ seq \in Nat /\ next \in Nat
        BY <1>2, <1>7, <1>11
      <4>2. seq \in 0 .. next - 1
        BY <4>1
      <4> QED
        BY Zenon, <1>11, <4>2
    <3>2. owner'[<<c, i>>] = n
      BY Zenon, <1>4 DEF BufferTyping
    <3>3. chunks'[c].next_free = i + 1 /\ i < i + 1
      BY <1>3 DEF record, Places
    <3>4. handles'[n] = MakeHandle(c, seq, i)
      BY Zenon, <1>6
    <3>5. /\ handles'[n] = MakeHandle(c, seq, i)
          /\ i < chunks'[c].next_free /\ owner'[<<c, i>>] = n
      BY Zenon, <3>2, <3>3, <3>4
    <3> QED
      BY Zenon, <3>1, <3>5 DEF Held
  <2>3. DOMAIN handles' = (1 .. n - 1) \cup {n}
    <3>1. DOMAIN handles' = 1 .. n
      BY Zenon, <1>6
    <3>2. n \in Nat /\ n >= 1
      BY <1>7
    <3> QED
      BY <3>1, <3>2
  <2> QED
    BY Zenon, <2>1, <2>2, <2>3 DEF HandlesAreHeld
<1> QED
  BY Zenon, <1>9, <1>10

(* Filling in an object changes no handle's place, and Flush only begins a *)
(* new session.                                                            *)
LEMMA OthersKeepIInv ==
  ASSUME BufferIInv, (\E t \in Tracers : Initialize(t)) \/ BufferFlush
  PROVE  BufferIInv'
<1> USE DEF BufferIInv
<1>1. ASSUME NEW t \in Tracers, Initialize(t) PROVE BufferIInv'
  <2> DEFINE e == filling[t][1]
             c == filling[t][2]
             i == filling[t][3]
  <2>1. e \in Nat /\ c \in Chunks /\ i \in Places
        /\ Begun(chunks[c], current_chunk_seq)
    BY Zenon, <1>1 DEF Initialize, BufferTyping
  <2>2. /\ chunks' = [chunks EXCEPT ![c].objects[i] = e]
        /\ filling' = [filling EXCEPT ![t] = Nothing]
        /\ chunk_index' = chunk_index /\ is_empty' = is_empty /\ handles' = handles
        /\ current_chunk_seq' = current_chunk_seq /\ owner' = owner
    BY Zenon, <1>1 DEF Initialize
  <2> HIDE DEF c, e, i
  <2>3. \A d \in Chunks :
          /\ d # c => chunks'[d] = chunks[d]
          /\ chunks'[d] \in ChunkRecords \cup {Nothing}
          /\ d = c => chunks'[d] \in ChunkRecords
          /\ d = c => chunks'[d].seq = chunks[d].seq
          /\ d = c => chunks'[d].next_free = chunks[d].next_free
    BY Zenon, <2>1, <2>2 DEF BufferTyping, Begun, ChunkRecords
  <2>4. chunks' \in [Chunks -> ChunkRecords \cup {Nothing}]
    BY Zenon, <2>2, <2>3 DEF BufferTyping
  <2>5. \A d \in Chunks : Begun(chunks[d], current_chunk_seq)
                            => Begun(chunks'[d], current_chunk_seq)
    BY Zenon, <2>1, <2>3 DEF Begun
  <2>6. \A d \in Chunks : chunks'[d] # Nothing => Begun(chunks'[d], current_chunk_seq)
    BY Zenon, <2>1, <2>3, <2>5 DEF BufferTyping
  <2>7. /\ filling' = [u \in Tracers |-> filling'[u]]
        /\ \A u \in Tracers : filling'[u] # Nothing => filling'[u] = filling[u]
    BY Zenon, <2>2 DEF BufferTyping
  <2>8. BufferTyping'
    BY Zenon, <2>2, <2>4, <2>5, <2>6, <2>7 DEF BufferTyping
  <2>9. HandlesAreHeld'
    <3>1. \A f \in DOMAIN handles, d \in Chunks, s \in 0 .. current_chunk_seq - 1, j \in Places :
            Held(f, d, s, j) => Held(f, d, s, j)'
      BY <2>1, <2>2, <2>3 DEF Held
    <3> QED
      BY Zenon, <2>2, <3>1 DEF HandlesAreHeld
  <2> QED
    BY Zenon, <2>8, <2>9
<1>2. CASE BufferFlush
  <2>1. /\ is_empty' = TRUE /\ chunks' = chunks /\ chunk_index' = chunk_index
        /\ current_chunk_seq' = current_chunk_seq /\ filling' = filling
        /\ handles' = handles /\ owner' = owner
    BY Zenon, <1>2 DEF BufferFlush
  <2>2. BufferTyping'
    BY Zenon, <2>1 DEF BufferTyping
  <2>3. HandlesAreHeld'
    <3>1. ASSUME NEW f, NEW d, NEW s, NEW j, Held(f, d, s, j) PROVE Held(f, d, s, j)'
      BY Zenon, <2>1, <3>1 DEF Held
    <3> QED
      BY Zenon, <2>1, <3>1 DEF HandlesAreHeld
  <2> QED
    BY Zenon, <2>2, <2>3
<1> QED
  BY Zenon, <1>1, <1>2

(* The invariant of the buffer holds throughout.                           *)
LEMMA BufferInvariance == BufferSpec => []BufferIInv
<1>1. ASSUME BufferIInv, [BufferNext]_bufferVars PROVE BufferIInv'
  <2>1. CASE UNCHANGED bufferVars
    <3>1. BufferTyping'
      BY Zenon, <1>1, <2>1 DEF bufferVars, BufferIInv, BufferTyping
    <3>2. HandlesAreHeld'
      <4>1. ASSUME NEW f, NEW d, NEW s, NEW j, Held(f, d, s, j) PROVE Held(f, d, s, j)'
        BY Zenon, <2>1, <4>1 DEF bufferVars, Held
      <4> QED
        BY Zenon, <1>1, <2>1, <4>1 DEF bufferVars, BufferIInv, HandlesAreHeld
    <3> QED
      BY Zenon, <3>1, <3>2 DEF BufferIInv
  <2>2. CASE BufferNext
    BY Zenon, <1>1, <2>2, AddKeepsIInv, OthersKeepIInv DEF BufferNext
  <2> QED
    BY Zenon, <1>1, <2>1, <2>2
<1> QED
  BY <1>1, BufferInitIInv, PTL DEF BufferSpec

(* For any size of the ring and of its chunks, however often it has        *)
(* wrapped around: a handle leads to its own event or to nothing.          *)
THEOREM HandlesAreSound == BufferSpec => []HandleFindsItsEvent
<1>1. BufferIInv => HandleFindsItsEvent
  <2> SUFFICES ASSUME BufferIInv, NEW e \in DOMAIN handles
               PROVE  LET place == GetEventByHandle(handles[e])
                      IN  place = Nothing \/ owner[place] = e
    BY Zenon DEF HandleFindsItsEvent
  <2>1. PICK c \in Chunks, seq \in 0 .. current_chunk_seq - 1, i \in Places : Held(e, c, seq, i)
    BY Zenon DEF BufferIInv, HandlesAreHeld
  <2>2. seq \in 0 .. SeqModulus - 1
    BY <2>1, SeqBound, BufferAssumption DEF BufferIInv
  <2>3. ExtractHandle(handles[e]) = [seq |-> seq, chunk |-> c, index |-> i]
    BY Zenon, <2>1, <2>2, HandleIsExact DEF Held
  <2>4. CASE chunks[c] = Nothing \/ chunks[c].seq # seq
    BY <2>3, <2>4 DEF GetEventByHandle
  <2>5. CASE ~(chunks[c] = Nothing \/ chunks[c].seq # seq)
    <3>1. owner[<<c, i>>] = e
      BY Zenon, <2>1, <2>5 DEF Held, BufferIInv, BufferTyping
    <3>2. GetEventByHandle(handles[e]) = <<c, i>>
      BY <2>1, <2>3, <2>5 DEF GetEventByHandle
    <3> QED
      BY Zenon, <3>1, <3>2
  <2> QED
    BY Zenon, <2>4, <2>5
<1> QED
  BY <1>1, BufferInvariance, PTL

-----------------------------------------------------------------------------
(* The indexes up to which threads read the table: the published one, and  *)
(* the one that UpdateCategoryGroupEnabledFlags has loaded.                *)
Limits ==
  {g_category_index}
    \cup IF updating = Nothing \/ updating[2] = Nothing THEN {} ELSE {updating[2]}

(* The first n slots of a table have names.                                *)
Named(groups, n) ==
  /\ n \in 0 .. MAX_CATEGORY_GROUPS
  /\ \A i \in 0 .. n - 1 : groups[i] # Nothing

(* Where a GetCategoryGroupEnabled can be.                                 *)
CallPc == {"idle", "returned", "again", "name", "flag", "store", "index"}

(* The types of the registry.                                              *)
RegistryTyping ==
  /\ DOMAIN g_category_groups = Slots
  /\ g_category_groups = [i \in Slots |-> g_category_groups[i]]
  /\ g_category_index \in 0 .. MAX_CATEGORY_GROUPS
  /\ call = [t \in Tracers |-> call[t]]
  /\ \A t \in Tracers :
       /\ call[t] = [at |-> call[t].at, group |-> call[t].group,
                     slot |-> call[t].slot, flag |-> call[t].flag]
       /\ call[t].at \in CallPc
       /\ call[t].at # "idle" => call[t].group \in Groups
       /\ Adds(call[t]) => call[t].slot \in Slots
  /\ raced \in BOOLEAN

(* A thread that adds a group took its slot when all slots below had a     *)
(* name, and stores the index only when its own slot has one too.          *)
NamesBelow ==
  /\ \A limit \in Limits : Named(g_category_groups, limit)
  /\ \A t \in Tracers :
       /\ call[t].at = "name" => Named(g_category_groups, call[t].slot)
       /\ call[t].at \in {"flag", "store", "index"} => Named(g_category_groups, call[t].slot + 1)

(* Without a race, one thread adds a group at a time, in the slot that     *)
(* g_category_index still points to, and slots below it are not touched.   *)
OneAdds ==
  ~raced =>
    /\ \A t, u \in Tracers : Adds(call[t]) /\ Adds(call[u]) => t = u
    /\ \A t \in Tracers :
         /\ Adds(call[t]) => call[t].slot = g_category_index
         /\ call[t].at \in {"flag", "store", "index"} =>
              g_category_groups[call[t].slot] = call[t].group
         /\ call[t].at = "returned" =>
              \/ /\ call[t].slot \in 0 .. g_category_index - 1
                 /\ g_category_groups[call[t].slot] = call[t].group
              \/ /\ call[t].slot = g_category_categories_exhausted
                 /\ g_category_index = MAX_CATEGORY_GROUPS

(* The inductive invariant.                                                *)
RegistryIInv == RegistryTyping /\ NamesBelow /\ OneAdds

(* The first match of a search is a match.                                 *)
LEMMA MinMatches ==
  ASSUME NEW S \in SUBSET Nat, S # {}
  PROVE  Min(S) \in S
<1>1. PICK x \in S : \A y \in S : ~ (<<y, x>> \in OpToRel(<, Nat))
  BY Zenon, NatLessThanWellFounded, WFMin
<1>2. ASSUME NEW y \in S PROVE x <= y
  <2>1. SUFFICES ASSUME y < x PROVE FALSE
    OBVIOUS
  <2>2. <<y, x>> \in Nat \X Nat /\ <<y, x>>[1] < <<y, x>>[2]
    BY Zenon, <2>1
  <2>3. <<y, x>> \in OpToRel(<, Nat)
    BY Zenon, <2>2 DEF OpToRel
  <2> QED
    BY Zenon, <1>1, <2>3
<1> QED
  BY Zenon, <1>2 DEF Min

(* The table starts with the four built-in groups.                         *)
LEMMA RegistryInit == ControllerInit => RegistryIInv
<1> SUFFICES ASSUME ControllerInit PROVE RegistryIInv
  BY Zenon
<1> USE ControllerAssumption DEF ControllerInit, Idle
<1>0. Len(Builtin) = 4
  BY Zenon DEF Builtin
<1>1. RegistryTyping
  <2>1. g_category_index \in 0 .. MAX_CATEGORY_GROUPS
    BY <1>0
  <2>2. \A t \in Tracers : call[t] = Idle
    BY Zenon
  <2> QED
    BY Zenon, <2>1, <2>2 DEF RegistryTyping, CallPc, Adds
<1>2. NamesBelow
  <2>1. Limits = {4}
    BY Zenon, <1>0 DEF Limits
  <2>2. \A i \in 0 .. 3 : g_category_groups[i] = Builtin[i + 1]
    BY <1>0 DEF Slots
  <2>3. Named(g_category_groups, 4)
    BY <1>0, <2>2 DEF Named
  <2> QED
    BY Zenon, <2>1, <2>3 DEF NamesBelow
<1>3. OneAdds
  BY Zenon DEF OneAdds, Adds
<1> QED
  BY Zenon, <1>1, <1>2, <1>3 DEF RegistryIInv

(* Where a search finds its group.                                         *)
LEMMA MatchingIsBelow ==
  ASSUME RegistryTyping, NEW group, Matching(group) # {}
  PROVE  /\ Min(Matching(group)) \in 0 .. g_category_index - 1
         /\ g_category_groups[Min(Matching(group))] = group
<1>1. Matching(group) \in SUBSET Nat
  BY DEF Matching, RegistryTyping, Builtin
<1>2. Min(Matching(group)) \in Matching(group)
  BY Zenon, <1>1, MinMatches
<1> QED
  BY Zenon, <1>2 DEF Matching

(* The two searches of a call.                                             *)
LEMMA SearchKeepsRegistry ==
  ASSUME RegistryIInv, NEW t \in Tracers, NEW group \in Groups, Search(t, group)
  PROVE  RegistryIInv'
<1> USE DEF RegistryIInv
<1>1. /\ g_category_groups' = g_category_groups /\ g_category_index' = g_category_index
      /\ updating' = updating /\ raced' = raced
  BY Zenon DEF Search, registry, control
<1>2. /\ call' = [u \in Tracers |-> IF u = t THEN call'[t] ELSE call[u]]
      /\ call'[t] = [at |-> call'[t].at, group |-> group, slot |-> call'[t].slot, flag |-> FALSE]
      /\ \/ /\ call'[t].at = "returned" /\ call'[t].slot = Min(Matching(group))
            /\ Matching(group) # {}
         \/ call'[t].at = "again"
  BY Zenon DEF Search, Idle, RegistryTyping
<1>3. RegistryTyping'
  BY <1>1, <1>2 DEF RegistryTyping, CallPc, Adds
<1>4. NamesBelow'
  BY <1>1, <1>2 DEF NamesBelow, Named, Limits
<1>5. OneAdds'
  BY <1>1, <1>2, MatchingIsBelow DEF OneAdds, Adds
<1> QED
  BY Zenon, <1>3, <1>4, <1>5

(* The second search, of the slow path, which takes no lock.               *)
LEMMA SearchAgainKeepsRegistry ==
  ASSUME RegistryIInv, NEW t \in Tracers, SearchAgain(t)
  PROVE  RegistryIInv'
<1> USE DEF RegistryIInv
<1> DEFINE found == Matching(call[t].group)
<1>1. /\ g_category_groups' = g_category_groups /\ g_category_index' = g_category_index
      /\ updating' = updating
      /\ raced' = (raced \/ \E u \in Tracers \ {t} : Adds(call[u]) /\ Adds(call'[t]))
  BY Zenon DEF SearchAgain, registry, control
<1>2. /\ call' = [u \in Tracers |-> IF u = t THEN call'[t] ELSE call[u]]
      /\ call'[t] = [at |-> call'[t].at, group |-> call[t].group,
                     slot |-> call'[t].slot, flag |-> call[t].flag]
      /\ \/ call'[t].at = "returned" /\ found # {} /\ call'[t].slot = Min(found)
         \/ /\ call'[t].at = "returned" /\ call'[t].slot = g_category_categories_exhausted
            /\ g_category_index >= MAX_CATEGORY_GROUPS
         \/ /\ call'[t].at = "name" /\ call'[t].slot = g_category_index
            /\ g_category_index < MAX_CATEGORY_GROUPS
  <2>0. call[t] = [at |-> call[t].at, group |-> call[t].group,
                   slot |-> call[t].slot, flag |-> call[t].flag]
        /\ call = [u \in Tracers |-> call[u]]
        /\ g_category_index \in Int /\ MAX_CATEGORY_GROUPS \in Int
    BY ControllerAssumption DEF RegistryTyping
  <2>1. CASE found # {}
    <3>1. call' = [call EXCEPT ![t].at = "returned", ![t].slot = Min(found)]
      BY Zenon, <2>1 DEF SearchAgain, Returns
    <3> QED
      BY Zenon, <2>0, <2>1, <3>1
  <2>2. CASE found = {} /\ g_category_index >= MAX_CATEGORY_GROUPS
    <3>1. call' = [call EXCEPT ![t].at = "returned",
                               ![t].slot = g_category_categories_exhausted]
      BY Zenon, <2>2 DEF SearchAgain, Returns
    <3> QED
      BY Zenon, <2>0, <2>2, <3>1
  <2>3. CASE found = {} /\ ~(g_category_index >= MAX_CATEGORY_GROUPS)
    <3>1. call' = [call EXCEPT ![t].at = "name", ![t].slot = g_category_index]
      BY Zenon, <2>3 DEF SearchAgain
    <3>2. g_category_index < MAX_CATEGORY_GROUPS
      BY <2>0, <2>3
    <3> QED
      BY Zenon, <2>0, <3>1, <3>2
  <2> QED
    BY Zenon, <2>1, <2>2, <2>3
<1>3. call[t].group \in Groups
  BY Zenon DEF SearchAgain, RegistryTyping
<1> HIDE DEF found
<1>4. RegistryTyping'
  BY <1>1, <1>2, <1>3, ControllerAssumption DEF RegistryTyping, CallPc, Adds, Slots, Builtin
<1>5. NamesBelow'
  BY <1>1, <1>2 DEF NamesBelow, Named, Limits
<1>6. OneAdds'
  <2> SUFFICES ASSUME ~raced' PROVE OneAdds'
    BY Zenon DEF OneAdds
  <2>1. ~raced /\ \A u \in Tracers \ {t} : ~(Adds(call[u]) /\ Adds(call'[t]))
    BY Zenon, <1>1
  <2>2. \A u, v \in Tracers : Adds(call'[u]) /\ Adds(call'[v]) => u = v
    BY <1>2, <2>1 DEF OneAdds
  <2>3. g_category_index >= MAX_CATEGORY_GROUPS => g_category_index = MAX_CATEGORY_GROUPS
    BY ControllerAssumption DEF RegistryTyping
  <2>4. found # {} => /\ Min(found) \in 0 .. g_category_index - 1
                      /\ g_category_groups[Min(found)] = call[t].group
    BY Zenon, MatchingIsBelow DEF found
  <2>5. ASSUME NEW u \in Tracers
        PROVE  /\ Adds(call'[u]) => call'[u].slot = g_category_index
               /\ call'[u].at \in {"flag", "store", "index"} =>
                    g_category_groups[call'[u].slot] = call'[u].group
               /\ call'[u].at = "returned" =>
                    \/ /\ call'[u].slot \in 0 .. g_category_index - 1
                       /\ g_category_groups[call'[u].slot] = call'[u].group
                    \/ /\ call'[u].slot = g_category_categories_exhausted
                       /\ g_category_index = MAX_CATEGORY_GROUPS
    <3>1. CASE u = t
      BY <1>2, <2>3, <2>4, <3>1 DEF Adds
    <3>2. CASE u # t
      BY <1>2, <2>1, <3>2 DEF OneAdds
    <3> QED
      BY Zenon, <3>1, <3>2
  <2> QED
    BY Zenon, <1>1, <2>2, <2>5 DEF OneAdds
<1> QED
  BY Zenon, <1>4, <1>5, <1>6

(* Names stay where there were names.                                      *)
LEMMA NamedKeeps ==
  ASSUME NEW groups, NEW later, NEW n, Named(groups, n),
         \A i \in Slots : groups[i] # Nothing => later[i] # Nothing
  PROVE  Named(later, n)
<1>1. \A i \in 0 .. n - 1 : i \in Slots
  BY ControllerAssumption DEF Named, Slots
<1> QED
  BY Zenon, <1>1 DEF Named

(* A name in the first slot without one.                                   *)
LEMMA NamedGrows ==
  ASSUME NEW groups, NEW k \in Slots, Named(groups, k), groups[k] # Nothing
  PROVE  Named(groups, k + 1)
<1>1. k \in Nat /\ k + 1 \in 0 .. MAX_CATEGORY_GROUPS
  BY ControllerAssumption DEF Slots
<1>2. \A i \in 0 .. k + 1 - 1 : i \in 0 .. k - 1 \/ i = k
  BY <1>1
<1> QED
  BY <1>1, <1>2 DEF Named

(* The stores of a thread that adds a group.                               *)
LEMMA StoreNameKeepsRegistry ==
  ASSUME RegistryIInv, NEW t \in Tracers, StoreName(t)
  PROVE  RegistryIInv'
<1> USE DEF RegistryIInv
<1> DEFINE k == call[t].slot
<1>1. /\ g_category_groups' =
           [i \in Slots |-> IF i = k THEN call[t].group ELSE g_category_groups[i]]
      /\ g_category_index' = g_category_index /\ updating' = updating /\ raced' = raced
  BY Zenon DEF StoreName, control, RegistryTyping
<1>2. /\ call' = [u \in Tracers |-> IF u = t THEN call'[t] ELSE call[u]]
      /\ call'[t] = [at |-> "flag", group |-> call[t].group, slot |-> k, flag |-> call[t].flag]
      /\ call[t].at = "name" /\ Adds(call[t])
  BY DEF StoreName, RegistryTyping, Adds
<1>3. call[t].group \in Groups /\ call[t].group # Nothing /\ k \in Slots
  BY Zenon, <1>2, ControllerAssumption DEF RegistryTyping
<1> HIDE DEF k
<1>4. RegistryTyping'
  BY <1>1, <1>2, <1>3 DEF RegistryTyping, CallPc, Adds
<1>5. NamesBelow'
  <2>1. ASSUME NEW n, Named(g_category_groups, n) PROVE Named(g_category_groups', n)
    <3>1. \A i \in Slots : g_category_groups[i] # Nothing => g_category_groups'[i] # Nothing
      BY Zenon, <1>1, <1>3
    <3> QED
      BY Zenon, <2>1, <3>1, NamedKeeps
  <2>2. Named(g_category_groups, k) /\ Named(g_category_groups', k + 1)
    <3>1. Named(g_category_groups, k)
      BY Zenon, <1>2 DEF NamesBelow, k
    <3>2. Named(g_category_groups', k) /\ g_category_groups'[k] # Nothing
      BY Zenon, <1>1, <1>3, <2>1, <3>1
    <3> QED
      BY Zenon, <1>3, <3>1, <3>2, NamedGrows
  <2>3. Limits' = Limits
    BY Zenon, <1>1 DEF Limits
  <2>4. ASSUME NEW u \in Tracers
        PROVE  /\ call'[u].at = "name" => Named(g_category_groups', call'[u].slot)
               /\ call'[u].at \in {"flag", "store", "index"} =>
                    Named(g_category_groups', call'[u].slot + 1)
    <3>1. CASE u = t
      <4>1. call'[u].slot = k /\ call'[u].at = "flag"
        BY <1>2, <3>1
      <4> QED
        BY Zenon, <2>2, <4>1
    <3>2. CASE u # t
      <4>1. call'[u] = call[u]
        BY Zenon, <1>2, <3>2
      <4> QED
        BY Zenon, <2>1, <4>1 DEF NamesBelow
    <3> QED
      BY Zenon, <3>1, <3>2
  <2> QED
    BY Zenon, <2>1, <2>3, <2>4 DEF NamesBelow
<1>6. OneAdds'
  <2> SUFFICES ASSUME ~raced PROVE OneAdds'
    BY Zenon, <1>1 DEF OneAdds
  <2>1. k = g_category_index /\ g_category_index \in Nat
    <3>1. k = g_category_index
      BY Zenon, <1>2 DEF OneAdds, k
    <3> QED
      BY <1>3, <3>1, ControllerAssumption DEF Slots
  <2>2. \A i \in 0 .. g_category_index - 1 : g_category_groups'[i] = g_category_groups[i]
    <3>1. \A i \in 0 .. g_category_index - 1 : i \in Slots /\ i # k
      BY <1>3, <2>1, ControllerAssumption DEF Slots
    <3> QED
      BY Zenon, <1>1, <3>1
  <2>3. g_category_groups'[k] = call[t].group
    BY Zenon, <1>1, <1>3
  <2>4. \A u \in Tracers : Adds(call'[u]) <=> Adds(call[u])
    BY <1>2 DEF Adds
  <2>5. \A u \in Tracers : Adds(call'[u]) => u = t
    BY Zenon, <1>2, <2>4 DEF OneAdds
  <2>6. ASSUME NEW u \in Tracers
        PROVE  /\ Adds(call'[u]) => call'[u].slot = g_category_index
               /\ call'[u].at \in {"flag", "store", "index"} =>
                    g_category_groups'[call'[u].slot] = call'[u].group
               /\ call'[u].at = "returned" =>
                    \/ /\ call'[u].slot \in 0 .. g_category_index - 1
                       /\ g_category_groups'[call'[u].slot] = call'[u].group
                    \/ /\ call'[u].slot = g_category_categories_exhausted
                       /\ g_category_index = MAX_CATEGORY_GROUPS
    <3>1. CASE u = t
      <4>1. call'[u].at = "flag" /\ call'[u].slot = k /\ call'[u].group = call[t].group
        BY <1>2, <3>1
      <4> QED
        BY Zenon, <2>1, <2>3, <4>1
    <3>2. CASE u # t
      <4>1. call'[u] = call[u] /\ ~Adds(call'[u])
        BY Zenon, <1>2, <2>5, <3>2
      <4>2. call[u].at \notin {"flag", "store", "index"}
        BY Zenon, <4>1 DEF Adds
      <4>3. call[u].at = "returned" =>
              \/ /\ call[u].slot \in 0 .. g_category_index - 1
                 /\ g_category_groups[call[u].slot] = call[u].group
              \/ /\ call[u].slot = g_category_categories_exhausted
                 /\ g_category_index = MAX_CATEGORY_GROUPS
        BY Zenon DEF OneAdds
      <4> QED
        BY Zenon, <2>2, <4>1, <4>2, <4>3
    <3> QED
      BY Zenon, <3>1, <3>2
  <2> QED
    BY Zenon, <1>1, <2>5, <2>6 DEF OneAdds
<1> QED
  BY Zenon, <1>4, <1>5, <1>6

(* What becomes of the flag does not touch the names.                      *)
LEMMA FlagKeepsRegistry ==
  ASSUME RegistryIInv, NEW t \in Tracers, ReadMode(t) \/ StoreFlag(t)
  PROVE  RegistryIInv'
<1> USE DEF RegistryIInv
<1>1. /\ g_category_groups' = g_category_groups /\ g_category_index' = g_category_index
      /\ updating' = updating /\ raced' = raced
  BY Zenon DEF ReadMode, StoreFlag, registry, control
<1>2. /\ call' = [u \in Tracers |-> IF u = t THEN call'[t] ELSE call[u]]
      /\ call'[t] = [at |-> call'[t].at, group |-> call[t].group, slot |-> call[t].slot,
                     flag |-> call'[t].flag]
      /\ call[t].at \in {"flag", "store"} /\ call'[t].at \in {"store", "index"}
  BY DEF ReadMode, StoreFlag, RegistryTyping
<1>3. RegistryTyping'
  BY <1>1, <1>2 DEF RegistryTyping, CallPc, Adds
<1>4. NamesBelow'
  BY <1>1, <1>2 DEF NamesBelow, Named, Limits
<1>5. OneAdds'
  BY <1>1, <1>2 DEF OneAdds, Adds
<1> QED
  BY Zenon, <1>3, <1>4, <1>5

(* The index is published after the name is in its slot.                   *)
LEMMA StoreIndexKeepsRegistry ==
  ASSUME RegistryIInv, NEW t \in Tracers, StoreIndex(t)
  PROVE  RegistryIInv'
<1> USE DEF RegistryIInv
<1> DEFINE k == call[t].slot
<1>1. /\ g_category_groups' = g_category_groups /\ g_category_index' = k + 1
      /\ updating' = updating /\ raced' = raced
  BY Zenon DEF StoreIndex, control
<1>2. /\ call' = [u \in Tracers |-> IF u = t THEN call'[t] ELSE call[u]]
      /\ call'[t] = [at |-> "returned", group |-> call[t].group, slot |-> k, flag |-> call[t].flag]
      /\ call[t].at = "index" /\ Adds(call[t])
  BY DEF StoreIndex, Returns, RegistryTyping, Adds
<1>3. k \in Slots /\ k \in Nat /\ k < MAX_CATEGORY_GROUPS
  BY <1>2, ControllerAssumption DEF RegistryTyping, Slots
<1> HIDE DEF k
<1>4. RegistryTyping'
  <2>1. k + 1 \in 0 .. MAX_CATEGORY_GROUPS
    BY <1>3, ControllerAssumption
  <2> QED
    BY <1>1, <1>2, <1>3, <2>1 DEF RegistryTyping, CallPc, Adds
<1>5. NamesBelow'
  <2>1. Named(g_category_groups, k + 1)
    BY Zenon, <1>2 DEF NamesBelow, k
  <2>2. Limits' \subseteq Limits \cup {k + 1}
    BY Zenon, <1>1 DEF Limits
  <2>3. \A limit \in Limits' : Named(g_category_groups, limit)
    BY Zenon, <2>1, <2>2 DEF NamesBelow
  <2>4. \A u \in Tracers : call'[u] = call[u] \/ call'[u].at = "returned"
    BY <1>2
  <2> QED
    BY Zenon, <1>1, <2>3, <2>4 DEF NamesBelow
<1>6. OneAdds'
  <2> SUFFICES ASSUME ~raced PROVE OneAdds'
    BY Zenon, <1>1 DEF OneAdds
  <2>1. k = g_category_index /\ g_category_groups[k] = call[t].group
    BY Zenon, <1>2 DEF OneAdds, k
  <2>2. \A u \in Tracers : ~Adds(call'[u])
    BY <1>2 DEF OneAdds, Adds
  <2>3. ASSUME NEW u \in Tracers, call'[u].at = "returned"
        PROVE  /\ call'[u].slot \in 0 .. g_category_index' - 1
               /\ g_category_groups[call'[u].slot] = call'[u].group
    <3>1. CASE u = t
      BY <1>1, <1>2, <1>3, <2>1, <3>1
    <3>2. CASE u # t
      <4>1. call[u].at = "returned" /\ call'[u] = call[u]
        BY Zenon, <1>2, <2>3, <3>2
      <4>2. g_category_index # MAX_CATEGORY_GROUPS
        BY <1>3, <2>1
      <4>3. /\ call[u].slot \in 0 .. g_category_index - 1
            /\ g_category_groups[call[u].slot] = call[u].group
        BY Zenon, <4>1, <4>2 DEF OneAdds
      <4>4. \A i \in 0 .. g_category_index - 1 : i \in 0 .. g_category_index' - 1
        BY <1>1, <1>3, <2>1
      <4> QED
        BY Zenon, <4>1, <4>3, <4>4
    <3> QED
      BY Zenon, <3>1, <3>2
  <2> QED
    BY Zenon, <1>1, <2>2, <2>3 DEF OneAdds, Adds
<1> QED
  BY Zenon, <1>4, <1>5, <1>6

(* The thread that starts and stops tracing reads names and changes none.  *)
LEMMA TracingKeepsRegistry ==
  ASSUME RegistryIInv,
         StartTracing \/ StopTracing \/ LoadIndex \/ UpdateCategoryGroupEnabledFlag
  PROVE  RegistryIInv'
<1> USE DEF RegistryIInv
<1>1. /\ g_category_groups' = g_category_groups /\ g_category_index' = g_category_index
      /\ call' = call /\ raced' = raced
  BY Zenon DEF StartTracing, StopTracing, LoadIndex, UpdateCategoryGroupEnabledFlag, registry
<1>2. Limits' \subseteq Limits
  <2>1. CASE StartTracing \/ StopTracing
    <3>1. updating' = <<0, Nothing>>
      BY Zenon, <2>1 DEF StartTracing, StopTracing
    <3> QED
      BY Zenon, <1>1, <3>1 DEF Limits
  <2>2. CASE LoadIndex
    <3>1. updating' = <<0, g_category_index>>
      BY Zenon, <2>2 DEF LoadIndex
    <3> QED
      BY Zenon, <1>1, <3>1 DEF Limits
  <2>3. CASE UpdateCategoryGroupEnabledFlag
    <3>1. updating # Nothing /\ updating[2] # Nothing
      BY Zenon, <2>3 DEF UpdateCategoryGroupEnabledFlag
    <3>2. updating' = Nothing \/ updating'[2] = updating[2]
      BY Zenon, <2>3 DEF UpdateCategoryGroupEnabledFlag
    <3> QED
      BY Zenon, <1>1, <3>1, <3>2 DEF Limits
  <2> QED
    BY Zenon, <2>1, <2>2, <2>3
<1>3. RegistryTyping' /\ OneAdds'
  BY Zenon, <1>1 DEF RegistryTyping, OneAdds, Slots
<1>4. NamesBelow'
  BY Zenon, <1>1, <1>2 DEF NamesBelow, Named
<1> QED
  BY Zenon, <1>3, <1>4

(* The invariant of the registry holds throughout.                         *)
LEMMA RegistryInvariance == ControllerSpec => []RegistryIInv
<1>1. ASSUME RegistryIInv, [ControllerNext]_controllerVars PROVE RegistryIInv'
  <2>1. CASE UNCHANGED controllerVars
    BY Zenon, <1>1, <2>1 DEF controllerVars, RegistryIInv, RegistryTyping, NamesBelow, OneAdds,
                      Named, Limits
  <2>2. CASE ControllerNext
    BY Zenon, <1>1, <2>2, SearchKeepsRegistry, SearchAgainKeepsRegistry, StoreNameKeepsRegistry,
       FlagKeepsRegistry, StoreIndexKeepsRegistry, TracingKeepsRegistry DEF ControllerNext
  <2> QED
    BY Zenon, <1>1, <2>1, <2>2
<1> QED
  BY <1>1, RegistryInit, PTL DEF ControllerSpec

(* For any threads, groups and size of the table: below every index that a *)
(* thread has loaded all slots have names, and without a race a returned   *)
(* flag stays that of its group.                                           *)
THEOREM RegistrySound == ControllerSpec => []RegistryIsSound
<1>1. RegistryIInv => RegistryIsSound
  <2> SUFFICES ASSUME RegistryIInv PROVE RegistryIsSound
    BY Zenon
  <2>1. \A limit \in Limits : \A i \in 0 .. limit - 1 : g_category_groups[i] # Nothing
    BY Zenon DEF RegistryIInv, NamesBelow, Named
  <2>2. ~raced => \A t \in Tracers : call[t].at = "returned" =>
           \/ g_category_groups[call[t].slot] = call[t].group
           \/ /\ call[t].slot = g_category_categories_exhausted
              /\ g_category_index = MAX_CATEGORY_GROUPS
    BY Zenon DEF RegistryIInv, OneAdds
  <2> QED
    BY Zenon, <2>1, <2>2 DEF RegistryIsSound, Limits
<1> QED
  BY <1>1, RegistryInvariance, PTL

-----------------------------------------------------------------------------
(* The part of the type invariant that does not depend on which job is     *)
(* where.                                                                  *)
CountTypes ==
  /\ input_queue_length \in 0 .. Capacity
  /\ blocked_jobs \in Nat /\ ref_count \in Nat
  /\ task \in [Tasks -> TaskPc]
  /\ main \in MainPc
  /\ stopping \in BOOLEAN

(* The counting argument: both counters are exact, so that ref_count_ = 0  *)
(* and blocked_jobs_ = 0 leave nothing in the input queue.  stopping stays *)
(* FALSE until Stop, and main cannot be back at "run" after it.            *)
Counting ==
  /\ CountTypes
  /\ RefCountIsExact
  /\ EveryInputHasATask
  /\ StopFindsNoInput
  /\ stopping => main \in {"flush", "wait", "install", "drain", "stopped"}

Live == {t \in Tasks : task[t] \notin {"none", "done"}}

(* What remains counts the members of finite sets of tasks.                *)
INSTANCE FiniteSetTheorems

(* The sets of tasks that the counters speak of are finite.                *)
LEMMA TaskSets ==
  /\ IsFiniteSet(Live) /\ Cardinality(Live) \in Nat
  /\ IsFiniteSet(TasksAt("posted")) /\ Cardinality(TasksAt("posted")) \in Nat
BY Zenon, FS_Subset, FS_CardinalityType, DispatcherAssumption DEF Live, TasksAt

(* How the two sets change when one task moves.                            *)
LEMMA OneTaskMoves ==
  ASSUME CountTypes, NEW t \in Tasks, NEW pc \in TaskPc,
         task' = [task EXCEPT ![t] = pc]
  PROVE  /\ task' \in [Tasks -> TaskPc]
         /\ Live' = IF pc \in {"none", "done"} THEN Live \ {t} ELSE Live \cup {t}
         /\ TasksAt("posted")' = IF pc = "posted" THEN TasksAt("posted") \cup {t}
                                 ELSE TasksAt("posted") \ {t}
BY Zenon DEF CountTypes, Live, TasksAt

(* A new object is one of those that were not used yet.                    *)
LEMMA AnyOfIsOne == ASSUME NEW S, NEW x \in AnyOf(S) PROVE x \in S
BY Zenon DEF AnyOf

(* The new job that QueueForOptimization is called for is a job.           *)
LEMMA NewJobIsAJob ==
  (\E j \in AnyOf({j \in Jobs : job[j] = "new"}) : QueueForOptimization(j))
    => \E j \in Jobs : QueueForOptimization(j)
<1> DEFINE New == {j \in Jobs : job[j] = "new"}
<1>1. \A j \in AnyOf(New) : j \in Jobs
  <2> TAKE j \in AnyOf(New)
  <2>1. j \in New
    BY Zenon, AnyOfIsOne
  <2> QED
    BY Zenon, <2>1
<1> QED
  BY Zenon, <1>1

(* A new task counts in ref_count_ and will take one input.                *)
LEMMA PostCounts ==
  ASSUME CountTypes, RefCountIsExact, PostTask
  PROVE  /\ task' \in [Tasks -> TaskPc]
         /\ ref_count' \in Nat
         /\ RefCountIsExact'
         /\ Cardinality(TasksAt("posted")') = Cardinality(TasksAt("posted")) + 1
<1>1. PICK t \in TasksAt("none") : task' = [task EXCEPT ![t] = "posted"]
                                   /\ ref_count' = ref_count + 1
  BY Zenon, AnyOfIsOne DEF PostTask
<1>2. t \in Tasks /\ t \notin Live /\ t \notin TasksAt("posted")
  BY Zenon, <1>1 DEF TasksAt, Live
<1>3. /\ task' \in [Tasks -> TaskPc]
      /\ Live' = Live \cup {t} /\ TasksAt("posted")' = TasksAt("posted") \cup {t}
  BY Zenon, <1>1, <1>2, OneTaskMoves DEF TaskPc
<1>4. Cardinality(Live') = Cardinality(Live) + 1
  BY Zenon, <1>2, <1>3, TaskSets, FS_AddElement
<1>5. Cardinality(TasksAt("posted")') = Cardinality(TasksAt("posted")) + 1
  BY Zenon, <1>2, <1>3, TaskSets, FS_AddElement
<1> QED
  BY <1>1, <1>3, <1>4, <1>5 DEF RefCountIsExact, Live, CountTypes

(* A posted task that goes on takes one input, and stays counted.          *)
LEMMA TakeCounts ==
  ASSUME CountTypes, NEW t \in Tasks, task[t] = "posted",
         NEW pc \in {"compile", "unref"}, task' = [task EXCEPT ![t] = pc]
  PROVE  /\ task' \in [Tasks -> TaskPc]
         /\ Live' = Live
         /\ Cardinality(TasksAt("posted")') = Cardinality(TasksAt("posted")) - 1
         /\ Cardinality(TasksAt("posted")) > 0
<1>1. t \in Live /\ t \in TasksAt("posted")
  BY Zenon DEF TasksAt, Live
<1>2. /\ task' \in [Tasks -> TaskPc]
      /\ Live' = Live \cup {t} /\ TasksAt("posted")' = TasksAt("posted") \ {t}
  BY Zenon, OneTaskMoves DEF TaskPc
<1>3. Cardinality(TasksAt("posted")') = Cardinality(TasksAt("posted")) - 1
  BY Zenon, <1>1, <1>2, TaskSets, FS_RemoveElement
<1>4. Cardinality(TasksAt("posted")) # 0
  BY Zenon, <1>1, TaskSets, FS_EmptySet
<1> QED
  BY <1>1, <1>2, <1>3, <1>4, TaskSets

(* With no reference and no blocked job, there is no task and no input.    *)
LEMMA NothingLeft ==
  ASSUME Counting, ref_count = 0, blocked_jobs = 0, main # "post"
  PROVE  /\ input_queue_length = 0
         /\ \A t \in Tasks : task[t] \in {"none", "done"}
<1>1. Live = {}
  BY Zenon, TaskSets, FS_EmptySet DEF Counting, RefCountIsExact, Live
<1>2. \A t \in Tasks : task[t] \in {"none", "done"}
  BY Zenon, <1>1 DEF Live
<1>3. TasksAt("posted") = {}
  BY Zenon, <1>2 DEF TasksAt
<1>4. Cardinality(TasksAt("posted")) = 0
  BY Zenon, <1>3, FS_EmptySet
<1> QED
  BY <1>2, <1>4 DEF Counting, CountTypes, EveryInputHasATask

(* A new dispatcher has no task, no input and no blocked job.              *)
LEMMA InitCounting == Init => Counting
<1> SUFFICES ASSUME Init PROVE Counting
  BY Zenon
<1>1. Live = {} /\ TasksAt("posted") = {}
  BY Zenon DEF Init, Live, TasksAt
<1>2. Cardinality(Live) = 0 /\ Cardinality(TasksAt("posted")) = 0
  BY Zenon, <1>1, FS_EmptySet
<1>3. CountTypes
  <2>1. task \in [Tasks -> TaskPc]
    BY Zenon DEF Init, TaskPc
  <2>2. 0 \in 0 .. Capacity
    BY DispatcherAssumption
  <2> QED
    BY Zenon, <2>1, <2>2 DEF Init, CountTypes, MainPc
<1> QED
  BY <1>2, <1>3 DEF Init, Counting, RefCountIsExact, EveryInputHasATask,
     StopFindsNoInput, Live

(* The steps of the background tasks.                                      *)
LEMMA TaskKeepsCounting ==
  ASSUME Counting, NEW t \in Tasks, TaskStep(t)
  PROVE  Counting'
<1> USE DEF Counting
<1>0. task[t] \notin {"none", "done"} /\ t \in Live
  BY Zenon DEF TaskStep, NextInput, PushOutput, RequestInstallCode, Unref, Live
<1>1. CASE NextInput(t)
  <2>1. input_queue_length > 0
    <3>1. Cardinality(TasksAt("posted")) > 0
      BY Zenon, <1>1, TakeCounts, TaskSets DEF NextInput
    <3> QED
      BY <3>1, TaskSets DEF EveryInputHasATask, CountTypes
  <2>2. PICK pc \in {"compile", "unref"} : task' = [task EXCEPT ![t] = pc]
    BY Zenon, <1>1 DEF NextInput
  <2>3. /\ task[t] = "posted"
        /\ input_queue_length' = input_queue_length - 1
        /\ UNCHANGED <<blocked_jobs, ref_count, main, stopping>>
    BY <1>1, <2>1 DEF NextInput, CountTypes
  <2>4. /\ task' \in [Tasks -> TaskPc] /\ Live' = Live
        /\ Cardinality(TasksAt("posted")') = Cardinality(TasksAt("posted")) - 1
    BY Zenon, <2>2, <2>3, TakeCounts
  <2>5. CountTypes'
    BY <2>1, <2>3, <2>4, DispatcherAssumption DEF CountTypes
  <2>6. RefCountIsExact'
    BY Zenon, <2>3, <2>4 DEF RefCountIsExact, Live
  <2>7. EveryInputHasATask'
    BY <2>3, <2>4, TaskSets DEF EveryInputHasATask, CountTypes
  <2>8. StopFindsNoInput'
    BY Zenon, <1>0, <2>3 DEF StopFindsNoInput
  <2> QED
    BY Zenon, <2>3, <2>5, <2>6, <2>7, <2>8
<1>2. CASE PushOutput(t) \/ RequestInstallCode(t)
  <2>1. PICK pc \in {"request", "unref"} : task' = [task EXCEPT ![t] = pc]
    BY Zenon, <1>2 DEF PushOutput, RequestInstallCode
  <2>2. /\ task[t] \in {"compile", "request"}
        /\ UNCHANGED <<input_queue_length, blocked_jobs, ref_count, main, stopping>>
    BY Zenon, <1>2 DEF PushOutput, RequestInstallCode, inputVars
  <2>3. /\ task' \in [Tasks -> TaskPc]
        /\ Live' = Live \cup {t} /\ TasksAt("posted")' = TasksAt("posted") \ {t}
    BY Zenon, <2>1, OneTaskMoves DEF TaskPc
  <2>4. Live' = Live /\ TasksAt("posted")' = TasksAt("posted")
    BY Zenon, <1>0, <2>2, <2>3 DEF TasksAt
  <2>5. StopFindsNoInput'
    BY Zenon, <1>0, <2>2 DEF StopFindsNoInput
  <2> QED
    BY Zenon, <2>2, <2>3, <2>4, <2>5 DEF CountTypes, RefCountIsExact,
       EveryInputHasATask, Live
<1>3. CASE Unref(t)
  <2>1. /\ task' \in [Tasks -> TaskPc]
        /\ Live' = Live \ {t} /\ TasksAt("posted")' = TasksAt("posted") \ {t}
    BY Zenon, <1>3, OneTaskMoves DEF TaskPc, Unref
  <2>2. TasksAt("posted")' = TasksAt("posted")
    BY Zenon, <1>3, <2>1 DEF Unref, TasksAt
  <2>3. Cardinality(Live) # 0 /\ Cardinality(Live') = Cardinality(Live) - 1
    BY Zenon, <1>0, <2>1, TaskSets, FS_RemoveElement, FS_EmptySet
  <2>4. /\ ref_count' = ref_count - 1 /\ ref_count # 0
        /\ UNCHANGED <<input_queue_length, blocked_jobs, stopping>>
        /\ main' = main \/ (main = "wait" /\ main' = "flush")
    BY Zenon, <1>3, <2>3 DEF Unref, RefCountIsExact, Live, inputVars
  <2>5. CountTypes'
    BY <2>1, <2>4 DEF CountTypes, MainPc
  <2>6. RefCountIsExact'
    BY Zenon, <2>3, <2>4, TaskSets DEF RefCountIsExact, Live, CountTypes
  <2>7. EveryInputHasATask'
    BY Zenon, <2>2, <2>4 DEF EveryInputHasATask
  <2>8. StopFindsNoInput'
    BY Zenon, <1>0, <2>4 DEF StopFindsNoInput
  <2> QED
    BY Zenon, <2>4, <2>5, <2>6, <2>7, <2>8
<1> QED
  BY Zenon, <1>1, <1>2, <1>3 DEF TaskStep

(* The steps of the isolate's thread that create tasks or queue jobs.      *)
LEMMA PostingKeepsCounting ==
  ASSUME Counting,
         (\E j \in Jobs : QueueForOptimization(j)) \/ PostForQueued \/ UnblockOne
  PROVE  Counting'
<1> USE DEF Counting
<1>1. CASE \E j \in Jobs : QueueForOptimization(j)
  <2>1. /\ main = "run" /\ main' = "post"
        /\ input_queue_length < Capacity
        /\ input_queue_length' = input_queue_length + 1
        /\ UNCHANGED <<blocked_jobs, ref_count, task, stopping>>
    BY Zenon, <1>1 DEF QueueForOptimization
  <2>2. Live' = Live /\ TasksAt("posted")' = TasksAt("posted")
    BY Zenon, <2>1 DEF Live, TasksAt
  <2> QED
    BY <2>1, <2>2, TaskSets, DispatcherAssumption DEF CountTypes, MainPc,
       RefCountIsExact, EveryInputHasATask, StopFindsNoInput
<1>2. CASE PostForQueued
  <2>1. /\ main = "post" /\ main' = "run"
        /\ UNCHANGED <<input_queue_length, stopping>>
    BY Zenon, <1>2 DEF PostForQueued, inputVars
  <2>2. StopFindsNoInput' /\ main' \in MainPc /\ ~stopping
    BY Zenon, <2>1 DEF StopFindsNoInput, MainPc
  <2>3. CASE flags.block
    <3>1. blocked_jobs' = blocked_jobs + 1 /\ UNCHANGED <<task, ref_count>>
      BY Zenon, <1>2, <2>3 DEF PostForQueued
    <3>2. TasksAt("posted")' = TasksAt("posted")
      BY Zenon, <3>1 DEF TasksAt
    <3> QED
      BY <2>1, <2>2, <3>1, <3>2, TaskSets DEF CountTypes, RefCountIsExact,
         EveryInputHasATask
  <2>4. CASE ~flags.block
    <3>1. PostTask /\ UNCHANGED blocked_jobs
      BY Zenon, <1>2, <2>4 DEF PostForQueued
    <3> QED
      BY <2>1, <2>2, <3>1, PostCounts, TaskSets DEF CountTypes,
         EveryInputHasATask
  <2> QED
    BY Zenon, <2>3, <2>4
<1>3. CASE UnblockOne
  <2>1. /\ main \in {"unblock", "flush"} /\ blocked_jobs > 0 /\ PostTask
        /\ blocked_jobs' = blocked_jobs - 1
        /\ UNCHANGED <<input_queue_length, stopping, main>>
    BY Zenon, <1>3 DEF UnblockOne, inputVars
  <2>2. StopFindsNoInput'
    BY Zenon, <2>1 DEF StopFindsNoInput
  <2> QED
    BY <2>1, <2>2, PostCounts, TaskSets DEF CountTypes, EveryInputHasATask
<1> QED
  BY Zenon, <1>1, <1>2, <1>3

(* The other steps move the isolate's thread only; TasksAreOver is the one *)
(* that needs the counts.                                                  *)
LEMMA MovingKeepsCounting ==
  ASSUME Counting,
         \/ UnblockReturns \/ InstallOne \/ DrainOne \/ OutputEmpty
         \/ WaitForTasks \/ TasksAreOver \/ CallUnblock \/ HandleInstallCode
         \/ CallInstall \/ Flush \/ Stop \/ SpuriousWakeup \/ UNCHANGED vars
  PROVE  Counting'
<1> USE DEF Counting
<1>1. UNCHANGED <<input_queue_length, blocked_jobs, ref_count, task>>
  BY Zenon DEF UnblockReturns, InstallOne, DrainOne, PopOutput, OutputEmpty,
     WaitForTasks, TasksAreOver, GoOn, CallUnblock, HandleInstallCode,
     CallInstall, Flush, Stop, SetFlushMode, SpuriousWakeup, vars, inputVars
<1>2. Live' = Live /\ TasksAt("posted")' = TasksAt("posted")
  BY Zenon, <1>1 DEF Live, TasksAt
<1>3. /\ main # "post" => main' # "post"
      /\ main = "post" => main' = "post"
      /\ main' \in MainPc /\ stopping' \in BOOLEAN
      /\ stopping' => main' \in {"flush", "wait", "install", "drain", "stopped"}
  <2>1. CASE InstallOne \/ DrainOne \/ UNCHANGED vars
    BY <2>1 DEF CountTypes, InstallOne, DrainOne, PopOutput, vars
  <2>2. CASE OutputEmpty
    BY Zenon, <2>2 DEF OutputEmpty, CountTypes, MainPc
  <2>3. CASE UnblockReturns \/ CallUnblock \/ HandleInstallCode \/ CallInstall
    BY <2>3 DEF UnblockReturns, CallUnblock, HandleInstallCode, CallInstall,
       CountTypes, MainPc
  <2>4. CASE WaitForTasks \/ SpuriousWakeup
    BY Zenon, <2>4 DEF WaitForTasks, SpuriousWakeup, CountTypes, MainPc
  <2>5. CASE TasksAreOver
    BY Zenon, <2>5 DEF TasksAreOver, GoOn, CountTypes, MainPc
  <2>6. CASE Flush \/ Stop
    BY Zenon, <2>6 DEF Flush, Stop, SetFlushMode, CountTypes, MainPc
  <2> QED
    BY Zenon, <2>1, <2>2, <2>3, <2>4, <2>5, <2>6
<1>4. StopFindsNoInput'
  <2>1. CASE TasksAreOver
    BY Zenon, <1>1, <2>1, NothingLeft DEF TasksAreOver, StopFindsNoInput
  <2>2. CASE OutputEmpty
    BY Zenon, <1>1, <2>2 DEF OutputEmpty, StopFindsNoInput
  <2>3. CASE InstallOne \/ DrainOne \/ UNCHANGED vars
    BY Zenon, <1>1, <2>3 DEF InstallOne, DrainOne, PopOutput, vars, StopFindsNoInput
  <2>4. CASE HandleInstallCode \/ CallInstall
    BY Zenon, <2>4 DEF HandleInstallCode, CallInstall, StopFindsNoInput
  <2>5. CASE UnblockReturns \/ WaitForTasks \/ CallUnblock \/ Flush \/ Stop
             \/ SpuriousWakeup
    BY Zenon, <2>5 DEF UnblockReturns, WaitForTasks, CallUnblock, Flush, Stop,
       SetFlushMode, SpuriousWakeup, StopFindsNoInput
  <2> QED
    BY Zenon, <2>1, <2>2, <2>3, <2>4, <2>5
<1> QED
  BY Zenon, <1>1, <1>2, <1>3, <1>4 DEF CountTypes, RefCountIsExact,
     EveryInputHasATask, Live

(* Every step preserves the agreement of ref_count_, blocked_jobs_ and     *)
(* input_queue_length_ with the tasks.                                     *)
LEMMA CountingIsInductive == Counting /\ [Next]_vars => Counting'
BY Zenon, TaskKeepsCounting, PostingKeepsCounting, MovingKeepsCounting, NewJobIsAJob
   DEF Next, MainStep

(* ref_count_ counts the live tasks, and input_queue_length_ the posted    *)
(* tasks and blocked jobs, throughout.                                     *)
THEOREM CountingInvariance == Spec => []Counting
BY InitCounting, CountingIsInductive, PTL DEF Spec

(* Every queued job has a task that will take it, or is counted as         *)
(* blocked, whatever the order of QueueForOptimization, Unblock, Flush and *)
(* the tasks; and after the wait of Flush and Stop there is no task and no *)
(* input: the destructor's DCHECKs hold and the loop of Stop is never      *)
(* entered.                                                                *)
THEOREM InputAlwaysServed == Spec => []InputIsServed
<1>1. Counting => InputIsServed
  BY Zenon DEF Counting, InputIsServed
<1> QED
  BY <1>1, CountingInvariance, PTL
-----------------------------------------------------------------------------
(* output_queue_mutex_ is held by the task that is about to request the    *)
(* interrupt for what it has pushed, so that the push and the request are  *)
(* one step for everyone who takes the lock.                               *)
Handing ==
  /\ task \in [Tasks -> TaskPc]
  /\ \A t \in Tasks : task[t] = "request" => output_mutex = t
  /\ NoJobStranded

(* Every step preserves the hand-over of finished jobs through the output  *)
(* queue and the INSTALL_CODE interrupt.                                   *)
LEMMA HandingIsInductive == Handing /\ [Next]_vars => Handing'
<1> SUFFICES ASSUME Handing, [Next]_vars PROVE Handing'
  BY Zenon
<1> USE DEF Handing, TaskPc
<1>1. ASSUME NEW t \in Tasks, PushOutput(t) PROVE Handing'
  BY Zenon, <1>1, DispatcherAssumption DEF PushOutput, NoJobStranded
<1>2. ASSUME NEW t \in Tasks, RequestInstallCode(t) PROVE Handing'
  <2>1. \A u \in Tasks : task'[u] # "request"
    BY Zenon, <1>2 DEF RequestInstallCode
  <2> QED
    BY Zenon, <1>2, <2>1 DEF RequestInstallCode, NoJobStranded
<1>3. ASSUME NEW t \in Tasks, NextInput(t) \/ Unref(t) PROVE Handing'
  <2>1. UNCHANGED <<output_queue, output_mutex, install_code>>
    BY Zenon, <1>3 DEF NextInput, Unref, outputVars
  <2>2. /\ task' \in [Tasks -> TaskPc]
        /\ \A u \in Tasks : task'[u] = "request" => task[u] = "request"
    BY Zenon, <1>3 DEF NextInput, Unref
  <2>3. main \in {"install", "drain"} => main' = main
    BY Zenon, <1>3 DEF NextInput, Unref
  <2> QED
    BY Zenon, <2>1, <2>2, <2>3 DEF NoJobStranded
<1>4. CASE (\E j \in Jobs : QueueForOptimization(j)) \/ UnblockReturns
           \/ WaitForTasks \/ TasksAreOver \/ CallUnblock \/ CallInstall
           \/ Flush \/ Stop \/ SpuriousWakeup \/ UNCHANGED vars
  <2>1. UNCHANGED <<output_queue, output_mutex, install_code, task>>
    BY Zenon, <1>4 DEF QueueForOptimization, UnblockReturns, WaitForTasks,
       TasksAreOver, GoOn, CallUnblock, CallInstall, Flush, Stop,
       SetFlushMode, SpuriousWakeup, vars, outputVars
  <2>2. main \in {"install", "drain"} => main' = main
    BY Zenon, <1>4 DEF QueueForOptimization, UnblockReturns, WaitForTasks,
       TasksAreOver, GoOn, CallUnblock, CallInstall, Flush, Stop,
       SetFlushMode, SpuriousWakeup, vars
  <2> QED
    BY Zenon, <2>1, <2>2 DEF NoJobStranded
<1>5. CASE PostForQueued \/ UnblockOne
  <2>1. UNCHANGED <<output_queue, output_mutex, install_code>>
    BY Zenon, <1>5 DEF PostForQueued, UnblockOne, outputVars
  <2>2. /\ task' \in [Tasks -> TaskPc]
        /\ \A u \in Tasks : task'[u] = "request" => task[u] = "request"
    BY Zenon, <1>5 DEF PostForQueued, UnblockOne, PostTask, TasksAt
  <2>3. main \notin {"install", "drain"}
    BY Zenon, <1>5 DEF PostForQueued, UnblockOne
  <2> QED
    BY Zenon, <2>1, <2>2, <2>3 DEF NoJobStranded
<1>6. CASE InstallOne \/ DrainOne
  BY Zenon, <1>6 DEF InstallOne, DrainOne, PopOutput, NoJobStranded
<1>7. CASE OutputEmpty
  BY Zenon, <1>7 DEF OutputEmpty, outputVars, NoJobStranded
<1>8. CASE HandleInstallCode
  BY Zenon, <1>8 DEF HandleInstallCode, NoJobStranded
<1> QED
  BY Zenon, <1>1, <1>2, <1>3, <1>4, <1>5, <1>6, <1>7, <1>8, NewJobIsAJob
     DEF Next, MainStep, TaskStep

(* A finished job is never left behind: as long as the output queue is not *)
(* empty, INSTALL_CODE is pending or about to be requested under the lock, *)
(* or the isolate's thread is emptying the queue.                          *)
THEOREM NoneStranded == Spec => []NoJobStranded
<1>1. Init => Handing
  BY Zenon DEF Init, Handing, TaskPc, NoJobStranded
<1>2. Handing => NoJobStranded
  BY Zenon DEF Handing
<1> QED
  BY <1>1, <1>2, HandingIsInductive, PTL DEF Spec
-----------------------------------------------------------------------------
(* The part of the type invariant that says where a job may be.            *)
PlaceTypes ==
  /\ input_queue \in [0 .. Capacity - 1 -> Jobs \cup {None}]
  /\ input_queue_length \in 0 .. Capacity
  /\ input_queue_shift \in 0 .. Capacity - 1
  /\ output_queue \in Seq(Jobs)
  /\ task \in [Tasks -> TaskPc]
  /\ held \in [Tasks -> Jobs \cup {None}]
  /\ job \in [Jobs -> JobState]

(* The slots of the waiting jobs hold different queued jobs, and every     *)
(* queued job is in one of them.                                           *)
InputPlaces ==
  /\ \A i \in 0 .. input_queue_length - 1 :
       input_queue[InputQueueIndex(i)] \in JobsIn("queued")
  /\ \A i, k \in 0 .. input_queue_length - 1 :
       input_queue[InputQueueIndex(i)] = input_queue[InputQueueIndex(k)] => i = k
  /\ \A j \in JobsIn("queued") : \E i \in 0 .. input_queue_length - 1 :
       input_queue[InputQueueIndex(i)] = j
  /\ Cardinality(JobsIn("queued")) = input_queue_length

(* The tasks that are in OptimizeGraph.                                    *)
Compilers == {t \in Tasks : task[t] = "compile"}

(* Each of them has a compiling job of its own, and every compiling job    *)
(* has such a task.                                                        *)
CompilePlaces ==
  /\ \A t \in Compilers : held[t] \in JobsIn("compiling")
  /\ \A t, u \in Compilers : held[t] = held[u] => t = u
  /\ \A j \in JobsIn("compiling") : \E t \in Compilers : held[t] = j

(* The output queue holds every finished job, once.                        *)
OutputPlaces ==
  /\ \A k \in 1 .. Len(output_queue) : output_queue[k] \in JobsIn("output")
  /\ \A k, l \in 1 .. Len(output_queue) :
       output_queue[k] = output_queue[l] => k = l
  /\ \A j \in JobsIn("output") : \E k \in 1 .. Len(output_queue) :
       output_queue[k] = j

(* A job is in exactly the place that its state names.                     *)
Placing == PlaceTypes /\ InputPlaces /\ CompilePlaces /\ OutputPlaces

(* The position in the buffer, without the remainder: the index is at most *)
(* the capacity, so that it wraps around at most once.                     *)
LEMMA WrapAround ==
  ASSUME NEW shift \in 0 .. Capacity - 1, NEW i \in 0 .. Capacity
  PROVE  (i + shift) % Capacity = IF i + shift < Capacity THEN i + shift
                                  ELSE i + shift - Capacity
<1>1. /\ i + shift \in Nat /\ i + shift < 2 * Capacity
      /\ Capacity \in Nat /\ Capacity > 0
  BY DispatcherAssumption
<1>2. CASE i + shift < Capacity
  BY <1>1, <1>2
<1>3. CASE i + shift >= Capacity
  <2>1. /\ i + shift - Capacity \in 0 .. Capacity - 1
        /\ i + shift = Capacity * 1 + (i + shift - Capacity)
    BY <1>1, <1>3
  <2> QED
    BY <1>1, <1>3, <2>1
<1> QED
  BY <1>1, <1>2, <1>3

(* The slot of a position of the queue.                                    *)
LEMMA SlotOf ==
  ASSUME input_queue_shift \in 0 .. Capacity - 1, NEW i \in 0 .. Capacity
  PROVE  InputQueueIndex(i) = IF i + input_queue_shift < Capacity
                              THEN i + input_queue_shift
                              ELSE i + input_queue_shift - Capacity
BY Zenon, WrapAround DEF InputQueueIndex

(* Two positions of the queue are never one slot of the buffer.            *)
LEMMA SlotsDiffer ==
  ASSUME input_queue_shift \in 0 .. Capacity - 1,
         NEW i \in 0 .. Capacity - 1, NEW k \in 0 .. Capacity - 1
  PROVE  /\ InputQueueIndex(i) = InputQueueIndex(k) => i = k
         /\ InputQueueIndex(i) \in 0 .. Capacity - 1
BY SlotOf, DispatcherAssumption

(* NextInput moves every job that still waits up by one position.          *)
LEMMA ShiftMovesUp ==
  ASSUME input_queue_shift \in 0 .. Capacity - 1,
         input_queue_shift' = InputQueueIndex(1),
         NEW i \in 0 .. Capacity - 1
  PROVE  /\ input_queue_shift' \in 0 .. Capacity - 1
         /\ InputQueueIndex(i)' = InputQueueIndex(i + 1)
<1>1. /\ 1 \in 0 .. Capacity /\ i + 1 \in 0 .. Capacity
      /\ i \in 0 .. Capacity /\ Capacity \in Nat
  BY DispatcherAssumption
<1>2. input_queue_shift' = IF 1 + input_queue_shift < Capacity
                           THEN 1 + input_queue_shift ELSE 0
  BY <1>1, SlotOf
<1>3. input_queue_shift' \in 0 .. Capacity - 1
  BY <1>1, <1>2
<1>4. InputQueueIndex(i)' = IF i + input_queue_shift' < Capacity
                            THEN i + input_queue_shift'
                            ELSE i + input_queue_shift' - Capacity
  BY Zenon, <1>1, <1>3, WrapAround DEF InputQueueIndex
<1>5. InputQueueIndex(i + 1) = IF i + 1 + input_queue_shift < Capacity
                               THEN i + 1 + input_queue_shift
                               ELSE i + 1 + input_queue_shift - Capacity
  BY Zenon, <1>1, SlotOf
<1> QED
  BY <1>1, <1>2, <1>3, <1>4, <1>5

(* How the sets of jobs change when one job moves.                         *)
LEMMA OneJobMoves ==
  ASSUME job \in [Jobs -> JobState], NEW j \in Jobs, NEW to \in JobState,
         job' = [job EXCEPT ![j] = to]
  PROVE  /\ job' \in [Jobs -> JobState]
         /\ \A state : JobsIn(state)' = IF state = to THEN JobsIn(state) \cup {j}
                                        ELSE JobsIn(state) \ {j}
BY Zenon DEF JobsIn

(* The jobs of a state are finitely many.                                  *)
LEMMA JobSets ==
  ASSUME NEW state
  PROVE  IsFiniteSet(JobsIn(state)) /\ Cardinality(JobsIn(state)) \in Nat
BY Zenon, FS_Subset, FS_CardinalityType, DispatcherAssumption DEF JobsIn

(* InputPlaces only depends on the input queue and the queued jobs.        *)
LEMMA SameInput ==
  ASSUME InputPlaces, JobsIn("queued")' = JobsIn("queued"),
         UNCHANGED <<input_queue, input_queue_length, input_queue_shift>>
  PROVE  InputPlaces'
<1>1. \A i : InputQueueIndex(i)' = InputQueueIndex(i)
  BY Zenon DEF InputQueueIndex
<1> QED
  BY <1>1 DEF InputPlaces

(* Nor do the other places depend on anything else.                        *)
LEMMA SameCompile ==
  ASSUME CompilePlaces, JobsIn("compiling")' = JobsIn("compiling"),
         Compilers' = Compilers, UNCHANGED held
  PROVE  CompilePlaces'
BY Zenon DEF CompilePlaces

(* As above, for the output queue.                                         *)
LEMMA SameOutput ==
  ASSUME OutputPlaces, JobsIn("output")' = JobsIn("output"),
         UNCHANGED output_queue
  PROVE  OutputPlaces'
BY DEF OutputPlaces

(* A step that moves no job and makes no task enter or leave OptimizeGraph *)
(* leaves every job in its place.                                          *)
LEMMA SamePlaces ==
  ASSUME Placing, task' \in [Tasks -> TaskPc], Compilers' = Compilers,
         UNCHANGED <<input_queue, input_queue_length, input_queue_shift>>,
         UNCHANGED <<output_queue, held, job>>
  PROVE  Placing'
<1>1. PlaceTypes'
  BY Zenon DEF Placing, PlaceTypes
<1>2. JobsIn("queued")' = JobsIn("queued") /\ JobsIn("compiling")' = JobsIn("compiling")
      /\ JobsIn("output")' = JobsIn("output")
  BY Zenon DEF JobsIn
<1> QED
  BY Zenon, <1>1, <1>2, SameInput, SameCompile, SameOutput DEF Placing

(* QueueForOptimization fills the slot after the last one in use.          *)
LEMMA QueueKeepsPlacing ==
  ASSUME Placing, NEW j \in Jobs, QueueForOptimization(j)
  PROVE  Placing'
<1> USE DEF Placing, PlaceTypes
<1> DEFINE at == InputQueueIndex(input_queue_length)
<1>1. /\ input_queue_length < Capacity /\ job[j] = "new"
      /\ input_queue' = [input_queue EXCEPT ![at] = j]
      /\ input_queue_length' = input_queue_length + 1
      /\ job' = [job EXCEPT ![j] = "queued"]
      /\ UNCHANGED <<input_queue_shift, output_queue, task, held>>
  BY Zenon DEF QueueForOptimization, outputVars
<1>2. /\ job' \in [Jobs -> JobState]
      /\ JobsIn("queued")' = JobsIn("queued") \cup {j}
      /\ JobsIn("compiling")' = JobsIn("compiling") \ {j}
      /\ JobsIn("output")' = JobsIn("output") \ {j}
  BY Zenon, <1>1, OneJobMoves DEF JobState
<1>3. j \notin JobsIn("queued") /\ j \notin JobsIn("compiling") /\ j \notin JobsIn("output")
  BY Zenon, <1>1 DEF JobsIn
<1>4. /\ input_queue_length \in 0 .. Capacity - 1 /\ Capacity \in Nat
      /\ at \in 0 .. Capacity - 1
      /\ \A i \in 0 .. Capacity - 1 : InputQueueIndex(i)' = InputQueueIndex(i)
  BY SMTT(60), <1>1, SlotsDiffer, DispatcherAssumption DEF InputQueueIndex
<1>5. PlaceTypes'
  BY <1>1, <1>2, <1>4
<1>6. InputPlaces'
  <2> DEFINE old == 0 .. input_queue_length - 1
             new == 0 .. input_queue_length' - 1
  <2>1. \A i \in old : input_queue'[InputQueueIndex(i)'] = input_queue[InputQueueIndex(i)]
    BY <1>1, <1>4, SlotsDiffer
  <2>2. \A i \in new : i \notin old => input_queue'[InputQueueIndex(i)'] = j
    BY <1>1, <1>4
  <2>3. \A i \in new : i \in old \/ i = input_queue_length
    BY <1>1, <1>4
  <2>4. old \subseteq new /\ input_queue_length \in new /\ input_queue_length \notin old
    BY <1>1, <1>4
  <2>5. Cardinality(JobsIn("queued")') = input_queue_length + 1
    <3>1. IsFiniteSet(JobsIn("queued"))
      BY Zenon, JobSets
    <3>2. Cardinality(JobsIn("queued") \cup {j}) = Cardinality(JobsIn("queued")) + 1
      BY Zenon, <1>3, <3>1, FS_AddElement
    <3> QED
      BY Zenon, <1>2, <3>2 DEF InputPlaces
  <2> HIDE DEF at, old, new
  <2>6. \A i \in new : input_queue'[InputQueueIndex(i)'] \in JobsIn("queued")'
    BY Zenon, <1>2, <2>1, <2>2 DEF InputPlaces, old
  <2>7. ASSUME NEW i \in new, NEW k \in new,
               input_queue'[InputQueueIndex(i)'] = input_queue'[InputQueueIndex(k)']
        PROVE  i = k
    <3>1. \A m \in old : input_queue'[InputQueueIndex(m)'] # j
      BY <1>3, <2>1 DEF InputPlaces, old
    <3>2. CASE i \in old /\ k \in old
      BY <2>1, <2>7, <3>2 DEF InputPlaces, old
    <3> QED
      BY Zenon, <2>2, <2>3, <2>7, <3>1, <3>2
  <2>8. \A q \in JobsIn("queued")' : \E i \in new :
          input_queue'[InputQueueIndex(i)'] = q
    BY <1>2, <2>1, <2>2, <2>4 DEF InputPlaces, old
  <2> QED
    BY Zenon, <1>1, <2>5, <2>6, <2>7, <2>8 DEF InputPlaces, new
<1>7. CompilePlaces' /\ OutputPlaces'
  <2>1. Compilers' = Compilers
    BY Zenon, <1>1 DEF Compilers
  <2>2. /\ JobsIn("compiling")' = JobsIn("compiling")
        /\ JobsIn("output")' = JobsIn("output")
    BY Zenon, <1>2, <1>3
  <2> QED
    BY Zenon, <1>1, <2>1, <2>2, SameCompile, SameOutput
<1> QED
  BY Zenon, <1>5, <1>6, <1>7

(* The job that NextInput takes out waits no more, the others do.          *)
LEMMA TakeKeepsInput ==
  ASSUME PlaceTypes, InputPlaces, input_queue_length > 0,
         input_queue_shift' = InputQueueIndex(1),
         input_queue_length' = input_queue_length - 1,
         UNCHANGED input_queue,
         JobsIn("queued")' = JobsIn("queued") \ {FirstInput}
  PROVE  InputPlaces'
<1> DEFINE old == 0 .. input_queue_length - 1
           new == 0 .. input_queue_length' - 1
<1>1. Capacity \in Nat /\ input_queue_length \in 1 .. Capacity
  BY DispatcherAssumption DEF PlaceTypes
<1>2. \A i \in new : i + 1 \in old /\ i + 1 # 0
  BY <1>1
<1>3. \A i \in old : i # 0 => i - 1 \in new /\ (i - 1) + 1 = i
  BY <1>1
<1>4. new \subseteq 0 .. Capacity - 1 /\ 0 \in old
  BY <1>1
<1>5. \A i \in new : input_queue'[InputQueueIndex(i)'] = input_queue[InputQueueIndex(i + 1)]
  BY Zenon, <1>4, ShiftMovesUp DEF PlaceTypes
<1>6. FirstInput \in JobsIn("queued")
  BY Zenon, <1>4 DEF InputPlaces, FirstInput
<1>7. Cardinality(JobsIn("queued")') = input_queue_length - 1
  <2>1. IsFiniteSet(JobsIn("queued"))
    BY Zenon, JobSets
  <2>2. Cardinality(JobsIn("queued") \ {FirstInput}) = Cardinality(JobsIn("queued")) - 1
    BY Zenon, <1>6, <2>1, FS_RemoveElement
  <2> QED
    BY Zenon, <2>2 DEF InputPlaces
<1>8. \A i \in old : i # 0 => input_queue[InputQueueIndex(i)] # FirstInput
  BY Zenon, <1>4 DEF InputPlaces, FirstInput
<1>9. \A i \in new : input_queue'[InputQueueIndex(i)'] \in JobsIn("queued")'
  <2> TAKE i \in new
  <2>1. input_queue[InputQueueIndex(i + 1)] \in JobsIn("queued")
    BY Zenon, <1>2 DEF InputPlaces
  <2>2. input_queue[InputQueueIndex(i + 1)] # FirstInput
    BY Zenon, <1>2, <1>8
  <2> QED
    BY Zenon, <1>5, <2>1, <2>2
<1>10. ASSUME NEW i \in new, NEW k \in new,
              input_queue'[InputQueueIndex(i)'] = input_queue'[InputQueueIndex(k)']
       PROVE  i = k
  <2>1. input_queue[InputQueueIndex(i + 1)] = input_queue[InputQueueIndex(k + 1)]
    BY Zenon, <1>5, <1>10
  <2>2. i + 1 \in old /\ k + 1 \in old
    BY Zenon, <1>2
  <2>3. i + 1 = k + 1
    BY Zenon, <2>1, <2>2 DEF InputPlaces
  <2> QED
    BY <2>3
<1>11. ASSUME NEW q \in JobsIn("queued")'
       PROVE  \E i \in new : input_queue'[InputQueueIndex(i)'] = q
  <2>1. PICK i \in old : input_queue[InputQueueIndex(i)] = q
    BY Zenon DEF InputPlaces
  <2>2. i # 0
    BY Zenon, <2>1 DEF FirstInput
  <2>3. i - 1 \in new /\ (i - 1) + 1 = i
    BY Zenon, <1>3, <2>2
  <2>4. PICK k \in new : k + 1 = i
    BY Zenon, <2>3
  <2> QED
    BY Zenon, <1>5, <2>1, <2>4
<1> QED
  BY Zenon, <1>7, <1>9, <1>10, <1>11 DEF InputPlaces

(* NextInput, in either mode.                                              *)
LEMMA NextInputKeepsPlacing ==
  ASSUME Placing, NEW t \in Tasks, NextInput(t)
  PROVE  Placing'
<1> USE DEF Placing, PlaceTypes
<1>1. /\ task[t] = "posted" /\ t \notin Compilers
      /\ UNCHANGED <<input_queue, output_queue>>
  BY Zenon DEF NextInput, outputVars, inputVars, Compilers
<1>2. CASE input_queue_length = 0
  <2>1. /\ task' = [task EXCEPT ![t] = "unref"]
        /\ UNCHANGED <<input_queue_length, input_queue_shift, held, job>>
    BY Zenon, <1>2 DEF NextInput, inputVars
  <2>2. task' \in [Tasks -> TaskPc] /\ Compilers' = Compilers
    BY Zenon, <1>1, <2>1 DEF Compilers, TaskPc
  <2> QED
    BY Zenon, <1>1, <2>1, <2>2, SamePlaces
<1>3. CASE input_queue_length # 0
  <2>0. input_queue_length > 0 /\ Capacity \in Nat
    BY <1>3, DispatcherAssumption
  <2>1. /\ input_queue_shift' = InputQueueIndex(1)
        /\ input_queue_length' = input_queue_length - 1
    BY Zenon, <1>3 DEF NextInput
  <2>2. FirstInput \in JobsIn("queued") /\ FirstInput \in Jobs
    BY <2>0 DEF InputPlaces, FirstInput, JobsIn
  <2>3. /\ FirstInput \notin JobsIn("compiling")
        /\ FirstInput \notin JobsIn("output")
    BY Zenon, <2>2 DEF JobsIn
  <2>4. input_queue_shift' \in 0 .. Capacity - 1
    <3>1. 0 \in 0 .. Capacity - 1
      BY DispatcherAssumption
    <3> QED
      BY Zenon, <2>1, <3>1, ShiftMovesUp
  <2>5. input_queue_length' \in 0 .. Capacity
    BY <2>0, <2>1
  <2>6. CASE mode = "FLUSH"
    <3>1. /\ job' = [job EXCEPT ![FirstInput] = "restored"]
          /\ task' = [task EXCEPT ![t] = "unref"]
          /\ UNCHANGED held
      BY Zenon, <1>3, <2>6 DEF NextInput
    <3>2. /\ job' \in [Jobs -> JobState]
          /\ JobsIn("queued")' = JobsIn("queued") \ {FirstInput}
          /\ JobsIn("compiling")' = JobsIn("compiling")
          /\ JobsIn("output")' = JobsIn("output")
      <4>1. /\ job' \in [Jobs -> JobState]
            /\ JobsIn("queued")' = JobsIn("queued") \ {FirstInput}
            /\ JobsIn("compiling")' = JobsIn("compiling") \ {FirstInput}
            /\ JobsIn("output")' = JobsIn("output") \ {FirstInput}
        BY Zenon, <2>2, <3>1, OneJobMoves DEF JobState
      <4> QED
        BY Zenon, <2>3, <4>1
    <3>3. InputPlaces'
      BY Zenon, <1>1, <2>0, <2>1, <3>2, TakeKeepsInput
    <3>4. Compilers' = Compilers
      BY Zenon, <1>1, <3>1 DEF Compilers
    <3>5. PlaceTypes'
      BY Zenon, <1>1, <2>4, <2>5, <3>1, <3>2 DEF TaskPc
    <3> QED
      BY Zenon, <1>1, <3>1, <3>2, <3>3, <3>4, <3>5, SameCompile, SameOutput
  <2>7. CASE mode # "FLUSH"
    <3>1. /\ job' = [job EXCEPT ![FirstInput] = "compiling"]
          /\ task' = [task EXCEPT ![t] = "compile"]
          /\ held' = [held EXCEPT ![t] = FirstInput]
      BY Zenon, <1>3, <2>7 DEF NextInput
    <3>2. /\ job' \in [Jobs -> JobState]
          /\ JobsIn("queued")' = JobsIn("queued") \ {FirstInput}
          /\ JobsIn("compiling")' = JobsIn("compiling") \cup {FirstInput}
          /\ JobsIn("output")' = JobsIn("output")
      <4>1. /\ job' \in [Jobs -> JobState]
            /\ JobsIn("queued")' = JobsIn("queued") \ {FirstInput}
            /\ JobsIn("compiling")' = JobsIn("compiling") \cup {FirstInput}
            /\ JobsIn("output")' = JobsIn("output") \ {FirstInput}
        BY Zenon, <2>2, <3>1, OneJobMoves DEF JobState
      <4> QED
        BY Zenon, <2>3, <4>1
    <3>3. InputPlaces'
      BY Zenon, <1>1, <2>0, <2>1, <3>2, TakeKeepsInput
    <3>4. Compilers' = Compilers \cup {t}
      BY Zenon, <1>1, <3>1 DEF Compilers
    <3>5. PlaceTypes'
      BY Zenon, <1>1, <2>2, <2>4, <2>5, <3>1, <3>2 DEF TaskPc
    <3>6. CompilePlaces'
      <4>1. held'[t] = FirstInput /\ \A u \in Compilers : held'[u] = held[u]
        BY Zenon, <1>1, <3>1 DEF Compilers
      <4>2. \A u \in Compilers' : held'[u] \in JobsIn("compiling")'
        BY Zenon, <3>2, <3>4, <4>1 DEF CompilePlaces
      <4>3. \A u \in Compilers : held'[u] # FirstInput
        BY Zenon, <2>3, <4>1 DEF CompilePlaces
      <4>4. \A u, v \in Compilers' : held'[u] = held'[v] => u = v
        BY <3>4, <4>1, <4>3 DEF CompilePlaces
      <4>5. \A j \in JobsIn("compiling")' : \E u \in Compilers' : held'[u] = j
        BY Zenon, <3>2, <3>4, <4>1 DEF CompilePlaces
      <4> QED
        BY Zenon, <4>2, <4>4, <4>5 DEF CompilePlaces
    <3> QED
      BY Zenon, <1>1, <3>2, <3>3, <3>5, <3>6, SameOutput
  <2> QED
    BY Zenon, <2>6, <2>7
<1> QED
  BY Zenon, <1>2, <1>3

(* What Append does to the output queue.                                   *)
LEMMA AppendOutput ==
  ASSUME NEW q \in Seq(Jobs), NEW j \in Jobs
  PROVE  /\ Append(q, j) \in Seq(Jobs)
         /\ Len(Append(q, j)) = Len(q) + 1
         /\ Append(q, j)[Len(q) + 1] = j
         /\ \A k \in 1 .. Len(q) : Append(q, j)[k] = q[k]
         /\ Len(q) \in Nat
OBVIOUS

(* What Tail leaves of it.                                                 *)
LEMMA TailOutput ==
  ASSUME NEW q \in Seq(Jobs), q # <<>>
  PROVE  /\ Tail(q) \in Seq(Jobs)
         /\ Len(q) \in Nat /\ Len(q) > 0 /\ Head(q) = q[1]
         /\ Len(Tail(q)) = Len(q) - 1
         /\ \A k \in 1 .. Len(q) - 1 : Tail(q)[k] = q[k + 1]
OBVIOUS

(* A task puts the job it has compiled at the end of the output queue.     *)
LEMMA PushKeepsPlacing ==
  ASSUME Placing, NEW t \in Tasks, PushOutput(t)
  PROVE  Placing'
<1> USE DEF Placing, PlaceTypes
<1> DEFINE j == held[t]
           n == Len(output_queue) + 1
<1>1. /\ t \in Compilers
      /\ output_queue' = Append(output_queue, j)
      /\ job' = [job EXCEPT ![j] = "output"]
      /\ held' = [held EXCEPT ![t] = None]
      /\ task' = [task EXCEPT ![t] = "request"]
      /\ UNCHANGED <<input_queue, input_queue_length, input_queue_shift>>
  BY Zenon DEF PushOutput, inputVars, Compilers
<1>2. j \in JobsIn("compiling") /\ j \in Jobs
  BY Zenon, <1>1 DEF CompilePlaces, JobsIn
<1>3. j \notin JobsIn("queued") /\ j \notin JobsIn("output")
  BY Zenon, <1>2 DEF JobsIn
<1>4. /\ job' \in [Jobs -> JobState]
      /\ JobsIn("queued")' = JobsIn("queued")
      /\ JobsIn("compiling")' = JobsIn("compiling") \ {j}
      /\ JobsIn("output")' = JobsIn("output") \cup {j}
  <2>1. /\ job' \in [Jobs -> JobState]
        /\ JobsIn("queued")' = JobsIn("queued") \ {j}
        /\ JobsIn("compiling")' = JobsIn("compiling") \ {j}
        /\ JobsIn("output")' = JobsIn("output") \cup {j}
    BY Zenon, <1>1, <1>2, OneJobMoves DEF JobState
  <2> QED
    BY Zenon, <1>3, <2>1
<1>5. Compilers' = Compilers \ {t} /\ \A u \in Compilers' : held'[u] = held[u]
  BY Zenon, <1>1 DEF Compilers
<1>6. PlaceTypes'
  <2>1. output_queue' \in Seq(Jobs)
    BY Zenon, <1>1, <1>2, AppendOutput
  <2>2. held' \in [Tasks -> Jobs \cup {None}] /\ task' \in [Tasks -> TaskPc]
    BY Zenon, <1>1 DEF TaskPc
  <2> QED
    BY Zenon, <1>1, <1>4, <2>1, <2>2
<1>7. InputPlaces'
  BY Zenon, <1>1, <1>4, SameInput
<1>8. CompilePlaces'
  BY <1>1, <1>4, <1>5 DEF CompilePlaces
<1>9. OutputPlaces'
  <2>0. n \in Nat /\ n = Len(output_queue) + 1 /\ Len(output_queue) \in Nat
    <3>1. Len(output_queue) \in Nat
      BY <1>2
    <3> QED
      BY <3>1
  <2>1. /\ Len(output_queue') = n /\ output_queue'[n] = j
        /\ \A k \in 1 .. Len(output_queue) : output_queue'[k] = output_queue[k]
    BY Zenon, <1>1, <1>2, AppendOutput
  <2> HIDE DEF n, j
  <2>2. \A k \in 1 .. n : k \in 1 .. Len(output_queue) \/ k = n
    BY <2>0
  <2>3. \A k \in 1 .. Len(output_queue) : k \in 1 .. n
    BY <2>0
  <2>4. n \in 1 .. n
    BY <2>0
  <2>5. \A k \in 1 .. n : output_queue'[k] \in JobsIn("output")'
    BY Zenon, <1>4, <2>1, <2>2 DEF OutputPlaces
  <2>6. ASSUME NEW k \in 1 .. n, NEW l \in 1 .. n, output_queue'[k] = output_queue'[l]
        PROVE  k = l
    <3>1. \A m \in 1 .. Len(output_queue) : output_queue'[m] # j
      BY Zenon, <1>3, <2>1 DEF OutputPlaces
    <3>2. CASE k \in 1 .. Len(output_queue) /\ l \in 1 .. Len(output_queue)
      BY Zenon, <2>1, <2>6, <3>2 DEF OutputPlaces
    <3> QED
      BY Zenon, <2>1, <2>2, <2>6, <3>1, <3>2
  <2>7. \A q \in JobsIn("output")' : \E k \in 1 .. n : output_queue'[k] = q
    BY Zenon, <1>4, <2>1, <2>3, <2>4 DEF OutputPlaces
  <2> QED
    BY Zenon, <2>1, <2>5, <2>6, <2>7 DEF OutputPlaces
<1> QED
  BY Zenon, <1>6, <1>7, <1>8, <1>9

(* The isolate's thread takes the first job of the output queue.           *)
LEMMA PopKeepsPlacing ==
  ASSUME Placing, NEW fates \in SUBSET {"finalized", "aborted", "restored", "dropped"},
         PopOutput(fates)
  PROVE  Placing'
<1> USE DEF Placing, PlaceTypes
<1> DEFINE j == Head(output_queue)
           n == Len(output_queue)
<1>1. PICK fate \in fates : job' = [job EXCEPT ![j] = fate]
  BY Zenon DEF PopOutput
<1>2. /\ output_queue # <<>> /\ output_queue' = Tail(output_queue)
      /\ UNCHANGED <<input_queue, input_queue_length, input_queue_shift>>
      /\ UNCHANGED <<task, held>>
  BY Zenon DEF PopOutput, inputVars
<1>3. /\ n \in Nat /\ n > 0 /\ j = output_queue[1]
      /\ output_queue' \in Seq(Jobs) /\ Len(output_queue') = n - 1
      /\ \A k \in 1 .. n - 1 : output_queue'[k] = output_queue[k + 1]
  BY Zenon, <1>2, TailOutput
<1>4. j \in JobsIn("output") /\ j \in Jobs
  BY <1>3 DEF OutputPlaces, JobsIn
<1>5. j \notin JobsIn("queued") /\ j \notin JobsIn("compiling")
  BY Zenon, <1>4 DEF JobsIn
<1>6. /\ job' \in [Jobs -> JobState]
      /\ JobsIn("queued")' = JobsIn("queued")
      /\ JobsIn("compiling")' = JobsIn("compiling")
      /\ JobsIn("output")' = JobsIn("output") \ {j}
  <2>1. /\ fate \in JobState
        /\ fate # "queued" /\ fate # "compiling" /\ fate # "output"
    BY Zenon DEF JobState
  <2>2. /\ job' \in [Jobs -> JobState]
        /\ JobsIn("queued")' = JobsIn("queued") \ {j}
        /\ JobsIn("compiling")' = JobsIn("compiling") \ {j}
        /\ JobsIn("output")' = JobsIn("output") \ {j}
    BY Zenon, <1>1, <1>4, <2>1, OneJobMoves
  <2>3. JobsIn("queued") \ {j} = JobsIn("queued")
    BY Zenon, <1>5
  <2>4. JobsIn("compiling") \ {j} = JobsIn("compiling")
    BY Zenon, <1>5
  <2> HIDE DEF j
  <2> QED
    BY Zenon, <2>2, <2>3, <2>4, Zenon
<1>7. PlaceTypes'
  BY Zenon, <1>2, <1>3, <1>6
<1>8. InputPlaces'
  BY Zenon, <1>2, <1>6, SameInput
<1>9. CompilePlaces'
  <2>1. Compilers' = Compilers
    BY Zenon, <1>2 DEF Compilers
  <2> QED
    BY Zenon, <1>2, <1>6, <2>1, SameCompile
<1>10. OutputPlaces'
  <2>1. \A k \in 1 .. n - 1 : k + 1 \in 1 .. n /\ k + 1 # 1
    BY <1>3
  <2>2. \A k \in 1 .. n : k # 1 => k - 1 \in 1 .. n - 1 /\ (k - 1) + 1 = k
    BY <1>3
  <2>3. 1 \in 1 .. n
    BY <1>3
  <2> HIDE DEF n, j
  <2>4. ASSUME NEW k \in 1 .. n - 1 PROVE output_queue'[k] \in JobsIn("output")'
    <3>1. output_queue[k + 1] \in JobsIn("output") /\ output_queue[k + 1] # j
      BY Zenon, <1>3, <2>1, <2>3 DEF OutputPlaces, n
    <3> QED
      BY Zenon, <1>3, <1>6, <3>1
  <2>5. ASSUME NEW k \in 1 .. n - 1, NEW l \in 1 .. n - 1,
               output_queue'[k] = output_queue'[l]
        PROVE  k = l
    <3>1. output_queue[k + 1] = output_queue[l + 1]
      BY Zenon, <1>3, <2>5
    <3>2. k + 1 = l + 1
      BY Zenon, <2>1, <3>1 DEF OutputPlaces, n
    <3> QED
      BY <3>2
  <2>6. ASSUME NEW q \in JobsIn("output")'
        PROVE  \E k \in 1 .. n - 1 : output_queue'[k] = q
    <3>1. PICK k \in 1 .. n : output_queue[k] = q
      BY Zenon, <1>6 DEF OutputPlaces, n
    <3>2. k # 1
      BY Zenon, <1>3, <1>6, <3>1
    <3>3. PICK l \in 1 .. n - 1 : l + 1 = k
      BY Zenon, <2>2, <3>2
    <3> QED
      BY Zenon, <1>3, <3>1, <3>3
  <2> QED
    BY Zenon, <1>3, <2>4, <2>5, <2>6 DEF OutputPlaces
<1> QED
  BY Zenon, <1>7, <1>8, <1>9, <1>10

(* Every step keeps each job in one place.                                 *)
LEMMA PlacingIsInductive == Placing /\ [Next]_vars => Placing'
<1> SUFFICES ASSUME Placing, [Next]_vars PROVE Placing'
  BY Zenon
<1>1. ASSUME NEW t \in Tasks, RequestInstallCode(t) \/ Unref(t) PROVE Placing'
  <2>1. task' \in [Tasks -> TaskPc] /\ Compilers' = Compilers
    BY Zenon, <1>1 DEF RequestInstallCode, Unref, Compilers, Placing, PlaceTypes, TaskPc
  <2> QED
    BY Zenon, <1>1, <2>1, SamePlaces DEF RequestInstallCode, Unref, inputVars, outputVars
<1>2. CASE PostForQueued \/ UnblockOne
  <2>1. CASE UNCHANGED task
    BY Zenon, <1>2, <2>1, SamePlaces DEF PostForQueued, UnblockOne, inputVars,
       outputVars, Compilers, Placing, PlaceTypes
  <2>2. CASE PostTask
    <3>1. PICK t \in TasksAt("none") : task' = [task EXCEPT ![t] = "posted"]
      BY Zenon, <2>2, AnyOfIsOne DEF PostTask
    <3>2. task' \in [Tasks -> TaskPc] /\ Compilers' = Compilers
      BY Zenon, <3>1 DEF TasksAt, Compilers, Placing, PlaceTypes, TaskPc
    <3> QED
      BY Zenon, <1>2, <3>2, SamePlaces DEF PostForQueued, UnblockOne, inputVars, outputVars
  <2> QED
    BY Zenon, <1>2, <2>1, <2>2 DEF PostForQueued, UnblockOne
<1>3. CASE InstallOne \/ DrainOne
  BY Zenon, <1>3, PopKeepsPlacing DEF InstallOne, DrainOne
<1>4. CASE \/ UnblockReturns \/ OutputEmpty \/ WaitForTasks \/ TasksAreOver
           \/ CallUnblock \/ HandleInstallCode \/ CallInstall \/ Flush \/ Stop
           \/ SpuriousWakeup \/ UNCHANGED vars
  <2>1. UNCHANGED <<inputVars, output_queue, task, held, job>>
    BY Zenon, <1>4 DEF UnblockReturns, OutputEmpty, WaitForTasks, TasksAreOver, GoOn,
       CallUnblock, HandleInstallCode, CallInstall, Flush, Stop, SetFlushMode,
       SpuriousWakeup, vars, outputVars
  <2> QED
    BY Zenon, <2>1, SamePlaces DEF inputVars, Compilers, Placing, PlaceTypes
<1> QED
  BY Zenon, <1>1, <1>2, <1>3, <1>4, QueueKeepsPlacing, NextInputKeepsPlacing,
     PushKeepsPlacing, NewJobIsAJob DEF Next, MainStep, TaskStep

(* Every job is in exactly the place that its state names, throughout.     *)
LEMMA PlacingInvariance == Spec => []Placing
<1>1. Init => Placing
  <2> SUFFICES ASSUME Init PROVE Placing
    BY Zenon
  <2>1. PlaceTypes
    BY DispatcherAssumption DEF Init, PlaceTypes, TaskPc, JobState
  <2>2. /\ JobsIn("queued") = {} /\ JobsIn("compiling") = {}
        /\ JobsIn("output") = {} /\ Compilers = {}
    BY Zenon DEF Init, JobsIn, Compilers
  <2>3. Cardinality({}) = 0
    BY Zenon, FS_EmptySet
  <2>4. input_queue_length = 0 /\ output_queue = <<>>
    BY Zenon DEF Init
  <2>5. 0 .. input_queue_length - 1 = {} /\ 1 .. Len(output_queue) = {}
    BY <2>4
  <2> QED
    BY Zenon, <2>1, <2>2, <2>3, <2>4, <2>5 DEF Placing, InputPlaces, CompilePlaces,
       OutputPlaces
<1> QED
  BY <1>1, PlacingIsInductive, PTL DEF Spec

(* The circular buffer, of any capacity, holds exactly the queued jobs,    *)
(* each once: InputQueueIndex never makes QueueForOptimization overwrite a *)
(* waiting job, and NextInput never returns one twice.                     *)
THEOREM InputQueueExact == Spec => []InputQueueIsExact
<1>1. Placing => InputQueueIsExact
  BY DEF Placing, InputPlaces, InputQueueIsExact
<1> QED
  BY <1>1, PlacingInvariance, PTL

(* When Flush leaves FlushOutputQueue, or Stop leaves that or              *)
(* InstallOptimizedFunctions, no job waits, is being compiled or is        *)
(* compiled: whatever the tasks did meanwhile.                             *)
THEOREM FlushedForGood == Spec => FlushLeavesNothing
<1> DEFINE Left == JobsIn("queued") \cup JobsIn("compiling") \cup JobsIn("output")
           Leaving == EmptiesOutput /\ main' # main => Left = {}
<1>1. ASSUME Counting, Placing, [Next]_vars PROVE Leaving
  <2> SUFFICES ASSUME main = "drain" \/ (main = "install" /\ stopping), main' # main
               PROVE  Left = {}
    BY Zenon DEF EmptiesOutput
  <2>1. output_queue = <<>>
    <3>1. \A t \in Tasks : ~TaskStep(t)
      BY Zenon DEF Counting, StopFindsNoInput, TaskStep, NextInput, PushOutput,
         RequestInstallCode, Unref
    <3>2. \A j : ~QueueForOptimization(j)
      BY Zenon DEF QueueForOptimization
    <3>3. OutputEmpty
      BY Zenon, <1>1, <3>1, <3>2 DEF Next, MainStep, PostForQueued, UnblockOne,
         UnblockReturns, InstallOne, DrainOne, PopOutput, WaitForTasks,
         TasksAreOver, CallUnblock, HandleInstallCode, CallInstall, Flush,
         Stop, SetFlushMode, SpuriousWakeup, vars
    <3> QED
      BY Zenon, <3>3 DEF OutputEmpty
  <2>2. input_queue_length = 0 /\ Compilers = {}
    BY Zenon, <1>1 DEF Counting, StopFindsNoInput, Compilers
  <2>3. 0 .. input_queue_length - 1 = {} /\ 1 .. Len(output_queue) = {}
    BY <2>1, <2>2
  <2>4. JobsIn("queued") = {}
    BY Zenon, <1>1, <2>3 DEF Placing, InputPlaces
  <2>5. JobsIn("compiling") = {} /\ JobsIn("output") = {}
    BY Zenon, <1>1, <2>2, <2>3 DEF Placing, CompilePlaces, OutputPlaces
  <2> QED
    BY Zenon, <2>4, <2>5
<1>2. Counting /\ Placing /\ [Next]_vars => [Leaving]_vars
  BY Zenon, <1>1
<1> QED
  BY <1>2, CountingInvariance, PlacingInvariance, PTL DEF Spec, FlushLeavesNothing
=============================================================================
