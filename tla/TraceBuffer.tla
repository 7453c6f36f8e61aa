----------------------------- MODULE TraceBuffer ----------------------------
(***************************************************************************)
(* The buffer of trace events (src/src/libplatform/tracing/                *)
(* trace-buffer.cc) as TracingController uses it: a ring of chunks that is *)
(* written out by Flush, and handles through which an event is found again *)
(* unless it has been overwritten.                                         *)
(*                                                                         *)
(* mutex_ makes each call one step.  The object that AddTraceEvent returns *)
(* is filled in by the caller afterwards, without the mutex.               *)
(***************************************************************************)
EXTENDS Integers, Sequences, FiniteSetsExt

CONSTANTS
  Tracers,      \* threads that add events
  max_chunks, kChunkSize,
  SeqModulus,   \* size of the space of sequence numbers (2^32 in the code)
  MaxEvents,    \* bound: events, which are numbered 1, 2, ...
  Nothing       \* NULL; an object not filled in; a thread that does nothing

(* Fewer chunks are begun than there are sequence numbers.                 *)
ASSUME BufferAssumption ==
  /\ max_chunks \in Nat \ {0} /\ kChunkSize \in Nat \ {0}
  /\ SeqModulus \in Nat /\ MaxEvents \in Nat /\ MaxEvents + 1 < SeqModulus

VARIABLES
  chunks,       \* [0 .. max_chunks - 1 -> Nothing or a chunk]: chunks_
  chunk_index, is_empty, current_chunk_seq,
  filling,      \* [Tracers -> Nothing or <<event, chunk, index>>]
  handles,      \* the handle of each event so far
  owner,        \* [chunk and index -> event]: for whom a place was last taken
  late,         \* the events filled in after their place was taken again
  session,      \* the events added since the last Flush
  written       \* what the last Flush wrote

bufferVars == <<chunks, chunk_index, is_empty, current_chunk_seq, filling,
                handles, owner, late, session, written>>

Chunks == 0 .. max_chunks - 1
Places == 0 .. kChunkSize - 1
NewChunk(seq, objects) == [seq |-> seq, next_free |-> 0, objects |-> objects]
Empty == [i \in Places |-> Nothing]

BufferInit ==
  /\ chunks = [c \in Chunks |-> Nothing]
  /\ chunk_index = 0 /\ is_empty = TRUE /\ current_chunk_seq = 1
  /\ filling = [t \in Tracers |-> Nothing]
  /\ handles = <<>> /\ session = <<>> /\ written = <<>>
  /\ owner = [p \in Chunks \X Places |-> Nothing] /\ late = {}

BufferCapacity == max_chunks * kChunkSize
NextChunkIndex(c) == IF c + 1 >= max_chunks THEN 0 ELSE c + 1

MakeHandle(c, seq, i) == seq * BufferCapacity + c * kChunkSize + i

ExtractHandle(handle) ==
  LET indices == handle % BufferCapacity
  IN  [seq |-> (handle \div BufferCapacity) % SeqModulus,
       chunk |-> indices \div kChunkSize, index |-> indices % kChunkSize]

(* AddTraceEvent: the next place, in the next chunk if this one is full.   *)
AddTraceEvent(t) ==
  LET fresh == is_empty \/ chunks[chunk_index].next_free = kChunkSize
      c == IF is_empty THEN 0
           ELSE IF fresh THEN NextChunkIndex(chunk_index) ELSE chunk_index
      chunk == IF ~fresh THEN chunks[c]
               ELSE NewChunk(current_chunk_seq,
                      IF chunks[c] = Nothing THEN Empty ELSE chunks[c].objects)
      i == chunk.next_free
      e == Len(handles) + 1
  IN  /\ filling[t] = Nothing /\ e <= MaxEvents
      /\ chunk_index' = c /\ is_empty' = FALSE
      /\ current_chunk_seq' = IF fresh THEN (current_chunk_seq + 1) % SeqModulus
                              ELSE current_chunk_seq
      /\ chunks' = [chunks EXCEPT ![c] = [chunk EXCEPT !.next_free = i + 1]]
      /\ filling' = [filling EXCEPT ![t] = <<e, c, i>>]
      /\ handles' = Append(handles, MakeHandle(c, chunk.seq, i))
      /\ owner' = [owner EXCEPT ![<<c, i>>] = e]
      /\ session' = Append(session, e)
      /\ UNCHANGED <<late, written>>

(* TraceObject::Initialize, by the thread that was given the object.       *)
Initialize(t) ==
  LET e == filling[t][1]  c == filling[t][2]  i == filling[t][3]
  IN  /\ filling[t] # Nothing
      /\ chunks' = [chunks EXCEPT ![c].objects[i] = e]
      /\ filling' = [filling EXCEPT ![t] = Nothing]
      /\ late' = IF owner[<<c, i>>] = e THEN late ELSE late \cup {e}
      /\ UNCHANGED <<chunk_index, is_empty, current_chunk_seq, handles, owner,
                     session, written>>

(* Mutant: the sequence number is not compared.                            *)
MutGetEventByHandle(handle) ==
  LET h == ExtractHandle(handle)
  IN  IF h.chunk \notin Chunks \/ chunks[h.chunk] = Nothing
      THEN Nothing ELSE <<h.chunk, h.index>>

(* GetEventByHandle: the place it finds, or Nothing.                       *)
GetEventByHandle(handle) ==
  LET h == ExtractHandle(handle)
  IN  IF h.chunk \notin Chunks \/ chunks[h.chunk] = Nothing \/ chunks[h.chunk].seq # h.seq
      THEN Nothing ELSE <<h.chunk, h.index>>

(* What a chunk holds, and the order in which Flush goes through them.     *)
Stored(c) ==
  IF chunks[c] = Nothing THEN <<>>
  ELSE [i \in 1 .. chunks[c].next_free |-> chunks[c].objects[i - 1]]

(* Mutant: the chunks are written from the first one on.                   *)
MutFlushOrder == [k \in 1 .. max_chunks |-> k - 1]

FlushOrder == [k \in 1 .. max_chunks |-> (chunk_index + k) % max_chunks]

BufferFlush ==
  /\ ~is_empty
  /\ is_empty' = TRUE
  /\ written' = LET upTo[k \in 0 .. max_chunks] ==
                      IF k = 0 THEN <<>> ELSE upTo[k - 1] \o Stored(FlushOrder[k])
                IN  upTo[max_chunks]
  /\ session' = <<>>
  /\ UNCHANGED <<chunks, chunk_index, current_chunk_seq, filling, handles, owner, late>>

BufferNext == (\E t \in Tracers : AddTraceEvent(t) \/ Initialize(t)) \/ BufferFlush

BufferSpec == BufferInit /\ [][BufferNext]_bufferVars
-----------------------------------------------------------------------------
(* A handle finds the place of its own event or nothing, however often the *)
(* ring has wrapped around and been flushed since: the sequence numbers,   *)
(* the chunk and the index are packed into the handle without collisions.  *)
HandleFindsItsEvent ==
  \A e \in DOMAIN handles :
    LET place == GetEventByHandle(handles[e]) IN place = Nothing \/ owner[place] = e

(* Flush ends with the events of the session, in the order in which they   *)
(* were added: all of them, or those of the last max_chunks chunks when    *)
(* the ring wrapped around.  The exceptions are an event that its thread   *)
(* has not filled in yet, and one that a thread which the ring has         *)
(* overtaken has written over.                                             *)
Survivors ==
  LET begun == (Len(session) + kChunkSize - 1) \div kChunkSize
      lost == IF begun > max_chunks THEN (begun - max_chunks) * kChunkSize ELSE 0
  IN  SubSeq(session, lost + 1, Len(session))

IsBeingFilled(e) == \E t \in Tracers : filling[t] # Nothing /\ filling[t][1] = e

SessionIsWritten ==
  [][is_empty' /\ ~is_empty =>
       LET before == Len(written') - Len(Survivors)
       IN  /\ before >= 0
           /\ \A k \in DOMAIN Survivors :
                \/ written'[before + k] = Survivors[k]
                \/ written'[before + k] \in late
                \/ IsBeingFilled(Survivors[k])]_bufferVars
=============================================================================
