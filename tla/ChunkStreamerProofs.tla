------------------------- MODULE ChunkStreamerProofs -------------------------
(* Safety of ChunkStreamer for any callers, chunk streams and limits. *)
EXTENDS ChunkStreamer, FiniteSetTheorems, TLAPS

\* A send puts the element after all others.
LEMMA AppendElements ==
  ASSUME NEW S, NEW q \in Seq(S), NEW e \in S
  PROVE  /\ Append(q, e) \in Seq(S)
         /\ Len(Append(q, e)) = Len(q) + 1
         /\ \A i \in 1..Len(q) : Append(q, e)[i] = q[i]
         /\ Append(q, e)[Len(q) + 1] = e
OBVIOUS

LEMMA AppendInto ==
  ASSUME NEW S, NEW W, NEW q \in Seq(S), NEW e \in S, e \in W,
         \A i \in 1..Len(q) : q[i] \in W
  PROVE  \A i \in 1..Len(Append(q, e)) : Append(q, e)[i] \in W
BY AppendElements

\* A receive moves every other element one place forward.
LEMMA TailElements ==
  ASSUME NEW S, NEW q \in Seq(S), q # <<>>
  PROVE  /\ Head(q) = q[1]
         /\ Tail(q) \in Seq(S)
         /\ Len(q) \in Nat \ {0}
         /\ Len(Tail(q)) = Len(q) - 1
         /\ \A i \in 1..Len(Tail(q)) : Tail(q)[i] = q[i + 1]
OBVIOUS

\* Types, and where writers may be, are preserved by every step (all of
\* chunk_streamer.go's write path).
LEMMA TypeStep ==
  ASSUME TypeOK, Placed, [Next]_vars
  PROVE  TypeOK' /\ Placed'
<1> USE ConstantsAssumption DEF TypeOK, Placed, Goto, Running
<1>1. ASSUME NEW p \in Callers, NEW id \in ChunkStreamIDs,
             PrepareChunkWriter(p, id)
      PROVE  TypeOK' /\ Placed'
  <2>1. Cardinality(writers') <= MaxChunkStreams
    <3>1. IsFiniteSet(writers)
      BY FS_Subset
    <3>2. CASE id \in writers
      <4>1. writers' = writers
        BY <1>1, <3>2 DEF PrepareChunkWriter
      <4> QED BY <4>1
    <3>3. CASE id \notin writers
      <4>1. Cardinality(writers) \in Nat
        BY <3>1, FS_CardinalityType
      <4>2. Cardinality(writers \cup {id}) = Cardinality(writers) + 1
        BY <3>1, <3>3, FS_AddElement
      <4> QED BY <1>1, <3>3, <4>1, <4>2 DEF PrepareChunkWriter
    <3> QED BY <3>2, <3>3
  <2> QED BY <1>1, <2>1
          DEF PrepareChunkWriter, schedVars, closerVars
<1>2. ASSUME NEW p \in Callers, WaitLock(p)
      PROVE  TypeOK' /\ Placed'
  BY <1>2 DEF WaitLock, writerVars, schedVars, closerVars
<1>3. ASSUME NEW p \in Callers, WaitDone(p)
      PROVE  TypeOK' /\ Placed'
  BY <1>3 DEF WaitDone, schedVars, closerVars
<1>4. ASSUME NEW p \in Callers, WaitClosed(p)
      PROVE  TypeOK' /\ Placed'
  BY <1>4 DEF WaitClosed, writerVars, schedVars, closerVars
<1>5. ASSUME NEW p \in Callers, WaitExpired(p)
      PROVE  TypeOK' /\ Placed'
  BY <1>5 DEF WaitExpired, writerVars, schedVars, closerVars
<1>6. ASSUME NEW p \in Callers, ResetEncoder(p)
      PROVE  TypeOK' /\ Placed'
  BY <1>6 DEF ResetEncoder, EncodeTogether, writerVars, schedVars, closerVars
<1>7. ASSUME NEW p \in Callers, Encode(p)
      PROVE  TypeOK' /\ Placed'
  <2>1. PICK n \in 1..MaxChunks :
          buf' = [buf EXCEPT ![enc] = @ \o [i \in 1..n |-> cur[p]]]
    BY <1>7 DEF Encode
  <2>2. [i \in 1..n |-> cur[p]] \in Seq(ChunkStreamIDs)
    OBVIOUS
  <2>3. buf[enc] \o [i \in 1..n |-> cur[p]] \in Seq(ChunkStreamIDs)
    BY <2>2
  <2>4. buf' \in [ChunkStreamIDs -> Seq(ChunkStreamIDs)]
    BY <2>1, <2>3
  <2>5. left' \in [ChunkStreamIDs -> Int]
    BY <1>7, <2>4 DEF Encode
  <2>6. /\ pc[p] = "encode" /\ pc' = [pc EXCEPT ![p] = "sched"]
        /\ UNCHANGED <<cur, enc, shared, writers, doneCh, closeCh, lastErr, queue, spc, scur,
                      cpc, ccur, cleft, expired>>
    BY <1>7 DEF Encode, schedVars, closerVars
  <2>7. TypeOK'
    BY <2>4, <2>5, <2>6
  <2>8. Placed'
    BY <2>6
  <2> QED BY <2>7, <2>8
<1>8. ASSUME NEW p \in Callers, EncodeError(p)
      PROVE  TypeOK' /\ Placed'
  BY <1>8 DEF EncodeError, writerVars, schedVars, closerVars
<1>9. ASSUME NEW p \in Callers, Schedule(p)
      PROVE  TypeOK' /\ Placed'
  <2>1. cur[p] \in writers /\ queue' = Append(queue, cur[p])
    BY <1>9 DEF Schedule
  <2>2. queue' \in Seq(ChunkStreamIDs) /\ Len(queue') <= Capacity
    <3>0. Len(queue) \in Nat /\ Len(queue) < Capacity
      BY <1>9 DEF Schedule
    <3>1. Append(queue, cur[p]) \in Seq(ChunkStreamIDs)
      BY AppendElements
    <3>2. Len(Append(queue, cur[p])) = Len(queue) + 1
      BY AppendElements
    <3> QED BY <2>1, <3>0, <3>1, <3>2
  <2>3. \A i \in 1..Len(queue') : queue'[i] \in writers
    <3>1. cur[p] \in ChunkStreamIDs /\ queue \in Seq(ChunkStreamIDs)
      OBVIOUS
    <3>2. \A i \in 1..Len(queue) : queue[i] \in writers
      OBVIOUS
    <3>3. \A i \in 1..Len(Append(queue, cur[p])) :
            Append(queue, cur[p])[i] \in writers
      BY <2>1, <3>1, <3>2, AppendInto
    <3> QED BY <2>1, <3>3
  <2>4. pc' = [pc EXCEPT ![p] = "idle"]
    BY <1>9 DEF Schedule
  <2>5. UNCHANGED <<cur, enc, shared, writers, doneCh, closeCh, lastErr, buf, left,
                    spc, scur, cpc, ccur, cleft, expired>>
    BY <1>9 DEF Schedule, writerVars, closerVars
  <2>6. TypeOK'
    BY <2>2, <2>4, <2>5
  <2>7. Placed'
    BY <2>3, <2>4, <2>5
  <2> QED BY <2>6, <2>7
<1>10. ASSUME Take
       PROVE  TypeOK' /\ Placed'
  <2>1. queue # <<>> /\ queue' = Tail(queue) /\ scur' = queue[1]
    BY <1>10, TailElements DEF Take
  <2>2. /\ queue' \in Seq(ChunkStreamIDs)
        /\ Len(queue') <= Capacity
    BY <2>1, TailElements
  <2>3. \A i \in 1..Len(queue') : queue'[i] \in writers
    BY <2>1, TailElements
  <2>4. scur' \in writers
    BY <2>1, TailElements
  <2> QED BY <1>10, <2>2, <2>3, <2>4
          DEF Take, callerVars, writerVars, closerVars
<1>11. ASSUME WriteChunk
       PROVE  TypeOK' /\ Placed'
  <2>1. buf' \in [ChunkStreamIDs -> Seq(ChunkStreamIDs)]
    BY <1>11 DEF WriteChunk
  <2>2. left' \in [ChunkStreamIDs -> Int]
    BY <1>11 DEF WriteChunk
  <2>3. /\ doneCh' \subseteq writers
        /\ spc = "write" /\ spc' \in {"select", "requeue"}
    BY <1>11 DEF WriteChunk
  <2>4. UNCHANGED <<pc, cur, enc, shared, writers, closeCh, lastErr, queue, scur,
                    cpc, ccur, cleft, expired>>
    BY <1>11 DEF WriteChunk, callerVars, closerVars
  <2>5. TypeOK'
    BY <2>1, <2>2, <2>3, <2>4
  <2>6. Placed'
    BY <2>3, <2>4
  <2> QED BY <2>5, <2>6
<1>12. ASSUME WriteError
       PROVE  TypeOK' /\ Placed'
  BY <1>12 DEF WriteError, callerVars, closerVars
<1>13. ASSUME Requeue
       PROVE  TypeOK' /\ Placed'
  <2>1. scur \in writers /\ queue' = Append(queue, scur)
    BY <1>13 DEF Requeue
  <2>2. queue' \in Seq(ChunkStreamIDs) /\ Len(queue') <= Capacity
    <3>1. Len(queue) \in Nat /\ Len(queue) < Capacity
      BY <1>13 DEF Requeue
    <3>2. Append(queue, scur) \in Seq(ChunkStreamIDs)
      BY AppendElements
    <3>3. Len(Append(queue, scur)) = Len(queue) + 1
      BY AppendElements
    <3> QED BY <2>1, <3>1, <3>2, <3>3
  <2>3. \A i \in 1..Len(queue') : queue'[i] \in writers
    <3>1. scur \in ChunkStreamIDs /\ queue \in Seq(ChunkStreamIDs)
      OBVIOUS
    <3>2. \A i \in 1..Len(queue) : queue[i] \in writers
      OBVIOUS
    <3>3. \A i \in 1..Len(Append(queue, scur)) :
            Append(queue, scur)[i] \in writers
      BY <2>1, <3>1, <3>2, AppendInto
    <3> QED BY <2>1, <3>3
  <2>4. spc = "requeue" /\ spc' = "select"
    BY <1>13 DEF Requeue
  <2>5. UNCHANGED <<pc, cur, enc, shared, writers, doneCh, closeCh, lastErr, buf, left,
                    scur, cpc, ccur, cleft, expired>>
    BY <1>13 DEF Requeue, callerVars, writerVars, closerVars
  <2>6. TypeOK'
    BY <2>2, <2>4, <2>5
  <2>7. Placed'
    BY <2>3, <2>4, <2>5
  <2> QED BY <2>6, <2>7
<1>14. ASSUME StopRun
       PROVE  TypeOK' /\ Placed'
  BY <1>14 DEF StopRun, callerVars, writerVars, closerVars
<1>15. ASSUME ForceCloseWriters
       PROVE  TypeOK' /\ Placed'
  BY <1>15 DEF ForceCloseWriters, callerVars, closerVars
<1>16. ASSUME Closer
       PROVE  TypeOK' /\ Placed'
  BY <1>16 DEF Closer, CloserStep, WaitWriters, WaitNext, CloserLock,
       CloserDone, CloserGivesUp, Deadline, CloseStreamer, CloseRwc,
       callerVars, writerVars, schedVars
<1>17. CASE UNCHANGED vars
  BY <1>17 DEF vars
<1> QED BY <1>1, <1>2, <1>3, <1>4, <1>5, <1>6, <1>7, <1>8, <1>9, <1>10, <1>11,
        <1>12, <1>13, <1>14, <1>15, <1>16, <1>17 DEF Next, Caller, Scheduler

-----------------------------------------------------------------------------

\* No step gives a writer to a second holder (Wait replaces doneCh under aqM,
\* Sched sends it, Run takes it and sends it back or closes doneCh).
LEMMA HeldStep ==
  ASSUME TypeOK, Placed, HeldOnce, [Next]_vars
  PROVE  HeldOnce'
<1> USE DEF TypeOK, Placed, HeldOnce, Goto, Running, Owns
<1>1. ASSUME NEW p \in Callers, NEW id \in ChunkStreamIDs,
             PrepareChunkWriter(p, id)
      PROVE  HeldOnce'
  BY <1>1 DEF PrepareChunkWriter, schedVars, closerVars
<1>2. ASSUME NEW p \in Callers, WaitLock(p)
      PROVE  HeldOnce'
  BY <1>2 DEF WaitLock, writerVars, schedVars, closerVars
<1>3. ASSUME NEW p \in Callers, WaitDone(p)
      PROVE  HeldOnce'
  <2> SUFFICES ASSUME Running'
               PROVE  HeldOnce'
    OBVIOUS
  <2>1. Running /\ UNCHANGED <<cur, queue, spc, scur>>
    BY <1>3 DEF WaitDone, schedVars
  <2>2. /\ cur[p] \in doneCh /\ doneCh' = doneCh \ {cur[p]}
        /\ pc[p] = "select" /\ pc' = [pc EXCEPT ![p] = "reset"]
    BY <1>3, <2>1 DEF WaitDone
  <2>3. \A q \in Callers \ {p} : Owns(q)' = Owns(q) /\ (Owns(q) => cur[q] # cur[p])
    BY <2>1, <2>2
  <2> QED BY <2>1, <2>2, <2>3
<1>4. ASSUME NEW p \in Callers, WaitClosed(p)
      PROVE  HeldOnce'
  BY <1>4 DEF WaitClosed, writerVars, schedVars, closerVars
<1>5. ASSUME NEW p \in Callers, WaitExpired(p)
      PROVE  HeldOnce'
  BY <1>5 DEF WaitExpired, writerVars, schedVars, closerVars
<1>6. ASSUME NEW p \in Callers, ResetEncoder(p)
      PROVE  HeldOnce'
  BY <1>6 DEF ResetEncoder, writerVars, schedVars, closerVars
<1>7. ASSUME NEW p \in Callers, Encode(p)
      PROVE  HeldOnce'
  <2>1. pc[p] = "encode" /\ pc' = [pc EXCEPT ![p] = "sched"]
    BY <1>7 DEF Encode
  <2>2. UNCHANGED <<cur, doneCh, queue, spc, scur>>
    BY <1>7 DEF Encode, schedVars
  <2> QED BY <2>1, <2>2
<1>8. ASSUME NEW p \in Callers, EncodeError(p)
      PROVE  HeldOnce'
  BY <1>8 DEF EncodeError, writerVars, schedVars, closerVars
<1>9. ASSUME NEW p \in Callers, Schedule(p)
      PROVE  HeldOnce'
  <2>1. /\ Owns(p) /\ pc' = [pc EXCEPT ![p] = "idle"]
        /\ queue' = Append(queue, cur[p])
        /\ UNCHANGED <<cur, doneCh, spc, scur>>
    BY <1>9 DEF Schedule, writerVars
  <2>2. /\ Len(queue') = Len(queue) + 1
        /\ \A i \in 1..Len(queue) : queue'[i] = queue[i]
        /\ queue'[Len(queue) + 1] = cur[p]
        /\ Len(queue) \in Nat
    BY <2>1, AppendElements
  <2> SUFFICES ASSUME Running
               PROVE  HeldOnce'
    BY <2>1
  <2>3. \A q \in Callers : Owns(q)' =>
          Owns(q) /\ q # p /\ cur[q] # cur[p] /\ cur'[q] = cur[q]
    BY <2>1
  <2>4. \A i \in 1..Len(queue') :
          \/ i \in 1..Len(queue) /\ queue'[i] = queue[i] /\ queue[i] # cur[p]
          \/ i = Len(queue) + 1 /\ queue'[i] = cur[p]
    BY <2>1, <2>2
  <2>5. \A q \in Callers : Owns(q)' =>
          \A i \in 1..Len(queue') : queue'[i] # cur'[q]
    BY <2>3, <2>4
  <2>6. \A i, j \in 1..Len(queue') : queue'[i] = queue'[j] => i = j
    BY <2>4
  <2>7. \A i \in 1..Len(queue') :
          /\ queue'[i] \notin doneCh'
          /\ spc' \in {"write", "requeue"} => queue'[i] # scur'
    BY <2>1, <2>4
  <2> QED BY <2>1, <2>3, <2>5, <2>6, <2>7
<1>10. ASSUME Take
       PROVE  HeldOnce'
  <2>1. /\ queue # <<>> /\ queue' = Tail(queue) /\ scur' = queue[1]
        /\ spc = "select" /\ spc' = "write"
        /\ UNCHANGED <<pc, cur, doneCh>>
    BY <1>10, TailElements DEF Take, callerVars, writerVars
  <2>2. /\ Len(queue) \in Nat \ {0} /\ Len(queue') = Len(queue) - 1
        /\ \A i \in 1..Len(queue') : queue'[i] = queue[i + 1]
    BY <2>1, TailElements
  <2>3. 1 \in 1..Len(queue) /\ \A i \in 1..Len(queue') :
          i + 1 \in 1..Len(queue) /\ i + 1 # 1
    BY <2>2
  <2>4. \A q \in Callers : Owns(q) =>
          scur' # cur[q] /\ \A i \in 1..Len(queue') : queue'[i] # cur[q]
    BY <2>1, <2>2, <2>3
  <2>5. \A i \in 1..Len(queue') : queue'[i] \notin doneCh /\ queue'[i] # scur'
    BY <2>1, <2>2, <2>3
  <2>6. \A i, j \in 1..Len(queue') : queue'[i] = queue'[j] => i = j
    <3> SUFFICES ASSUME NEW i \in 1..Len(queue'), NEW j \in 1..Len(queue'),
                        queue'[i] = queue'[j]
                 PROVE  i = j
      OBVIOUS
    <3>1. queue[i + 1] = queue[j + 1]
      BY <2>2
    <3>2. i + 1 = j + 1
      BY <2>1, <2>3, <3>1
    <3> QED BY <2>2, <3>2
  <2>7. scur' \notin doneCh
    BY <2>1, <2>3
  <2> QED BY <2>1, <2>4, <2>5, <2>6, <2>7
<1>11. ASSUME WriteChunk
       PROVE  HeldOnce'
  <2>1. /\ spc = "write"
        /\ \/ spc' = "select" /\ doneCh' = doneCh \cup {scur}
           \/ spc' = "requeue" /\ doneCh' = doneCh
        /\ UNCHANGED <<pc, cur, queue, scur>>
    BY <1>11 DEF WriteChunk, callerVars
  <2> QED BY <2>1
<1>12. ASSUME WriteError
       PROVE  HeldOnce'
  BY <1>12 DEF WriteError
<1>13. ASSUME Requeue
       PROVE  HeldOnce'
  <2>1. /\ spc = "requeue" /\ spc' = "select"
        /\ queue' = Append(queue, scur)
        /\ UNCHANGED <<pc, cur, doneCh, scur>>
    BY <1>13 DEF Requeue, callerVars, writerVars
  <2>2. /\ Len(queue') = Len(queue) + 1
        /\ \A i \in 1..Len(queue) : queue'[i] = queue[i]
        /\ queue'[Len(queue) + 1] = scur
        /\ Len(queue) \in Nat
    BY <2>1, AppendElements
  <2> HIDE DEF TypeOK, Placed
  <2>0. \A i \in 1..Len(queue) :
          /\ queue[i] # scur
          /\ \A j \in 1..Len(queue) : queue[i] = queue[j] => i = j
    BY <2>1
  <2>3. \A i \in 1..Len(queue') :
          \/ i \in 1..Len(queue) /\ queue'[i] = queue[i] /\ queue[i] # scur
          \/ i = Len(queue) + 1 /\ queue'[i] = scur
    BY <2>0, <2>2
  <2>4. \A q \in Callers : Owns(q) =>
          \A i \in 1..Len(queue') : queue'[i] # cur[q]
    BY <2>1, <2>3
  <2>5. \A i, j \in 1..Len(queue') : queue'[i] = queue'[j] => i = j
    BY <2>0, <2>3
  <2>6. \A i \in 1..Len(queue') : queue'[i] \notin doneCh
    BY <2>1, <2>3
  <2> QED BY <2>1, <2>4, <2>5, <2>6
<1>14. ASSUME StopRun \/ ForceCloseWriters
       PROVE  HeldOnce'
  BY <1>14 DEF StopRun, ForceCloseWriters
<1>15. ASSUME Closer
       PROVE  HeldOnce'
  <2>1. UNCHANGED <<pc, cur, queue, spc, scur>> /\ doneCh' \subseteq doneCh
    BY <1>15 DEF Closer, CloserStep, WaitWriters, WaitNext, CloserLock,
       CloserDone, CloserGivesUp, Deadline, CloseStreamer, CloseRwc,
       callerVars, writerVars, schedVars
  <2> QED BY <2>1
<1>16. CASE UNCHANGED vars
  BY <1>16 DEF vars
<1> QED BY <1>1, <1>2, <1>3, <1>4, <1>5, <1>6, <1>7, <1>8, <1>9, <1>10, <1>11,
        <1>12, <1>13, <1>14, <1>15, <1>16 DEF Next, Caller, Scheduler

-----------------------------------------------------------------------------

\* IInv is the inductive invariant of the write path.
LEMMA Inductive == Spec => []IInv
<1>1. Init => IInv
  <2> SUFFICES ASSUME Init PROVE IInv
    OBVIOUS
  <2>1. TypeOK
    <3>1. /\ shared = {} /\ writers = {} /\ doneCh = {} /\ closeCh = {} /\ lastErr = {}
          /\ cleft = {} /\ expired = FALSE
          /\ spc = "select" /\ cpc = "open"
      BY DEF Init
    <3>2. queue \in Seq(ChunkStreamIDs) /\ Len(queue) = 0
      BY DEF Init
    <3>3. PICK id \in ChunkStreamIDs :
            /\ cur = [p \in Callers |-> id] /\ enc = id
            /\ scur = id /\ ccur = id
      BY DEF Init
    <3>4. buf \in [ChunkStreamIDs -> Seq(ChunkStreamIDs)]
      BY DEF Init
    <3>5. Cardinality(writers) <= MaxChunkStreams /\ Len(queue) <= Capacity
      BY <3>1, <3>2, FS_EmptySet, ConstantsAssumption
    <3>6. /\ pc \in [Callers -> {"idle"}]
          /\ left \in [ChunkStreamIDs -> {0}]
          /\ cur \in [Callers -> ChunkStreamIDs]
      BY <3>3 DEF Init
    <3>7. /\ pc \in [Callers -> {"idle", "lock", "select", "reset", "encode", "sched"}]
          /\ left \in [ChunkStreamIDs -> Int]
      BY <3>6
    <3> QED BY <3>1, <3>2, <3>3, <3>4, <3>5, <3>6, <3>7 DEF TypeOK
  <2>2. Placed /\ HeldOnce
    BY DEF Init, Placed, HeldOnce, Owns, Running
  <2> QED BY <2>1, <2>2 DEF IInv
<1>2. IInv /\ [Next]_vars => IInv'
  BY TypeStep, HeldStep DEF IInv
<1> QED BY <1>1, <1>2, PTL DEF Spec

\* The state of the write path is well typed and the number of writers within
\* MaxChunkStreams, whatever the callers do (prepareChunkWriter).
THEOREM Typing == Spec => []TypeOK
BY Inductive, PTL DEF IInv

\* A writer has one holder at a time while the scheduler runs, so Run closes a
\* doneCh that is open.
THEOREM Exclusive == Spec => []HeldOnce
BY Inductive, PTL DEF IInv

LEMMA PlacesCardinality ==
  ASSUME NEW n \in Nat
  PROVE  Cardinality(1..n) = n
<1>1. Cardinality(1..n) = IF 1 > n THEN 0 ELSE n - 1 + 1
  BY FS_Interval
<1> QED BY <1>1

\* The queue holds each writer once: when it is full and a writer is outside,
\* there are more writers than places.
LEMMA RoomForOne ==
  ASSUME IInv, Running, Len(queue) >= Capacity,
         NEW w \in writers, \A i \in 1..Len(queue) : queue[i] # w
  PROVE  Cardinality(writers) > Capacity
<1> USE ConstantsAssumption DEF IInv, TypeOK
<1>1. IsFiniteSet(writers) /\ Cardinality(writers) \in Nat
  BY FS_Subset, FS_CardinalityType
<1>2. /\ IsFiniteSet(writers \ {w})
      /\ Cardinality(writers \ {w}) = Cardinality(writers) - 1
  BY <1>1, FS_RemoveElement
<1>3. queue \in Injection(1..Len(queue), writers \ {w})
  <2>1. queue \in [1..Len(queue) -> writers \ {w}]
    BY DEF Placed
  <2>2. \A i, j \in 1..Len(queue) : queue[i] = queue[j] => i = j
    BY DEF HeldOnce
  <2> QED BY <2>1, <2>2 DEF Injection, IsInjective
<1>4. Cardinality(1..Len(queue)) <= Cardinality(writers \ {w})
  BY <1>2, <1>3, FS_Injection
<1>5. Len(queue) \in Nat
  OBVIOUS
<1>6. Cardinality(1..Len(queue)) = Len(queue)
  BY <1>5, PlacesCardinality
<1> QED BY <1>1, <1>2, <1>4, <1>5, <1>6

\* A sender waits for room in the scheduler's channel only when more chunk
\* streams have been used than it has places, whatever the limit on chunk
\* streams and the capacity are: above all the scheduler itself, the channel's
\* only receiver, which would wait for ever (Run; maxWriterQueueSize).
THEOREM NeverBlocks == Spec => []RoomForWriters
<1>1. IInv => RoomForWriters
  <2> SUFFICES ASSUME IInv, Running, Len(queue) >= Capacity,
                      spc = "requeue" \/ \E p \in Callers : pc[p] = "sched"
               PROVE  Cardinality(writers) > Capacity
    BY DEF RoomForWriters
  <2>1. CASE spc = "requeue"
    BY <2>1, RoomForOne DEF IInv, Placed, HeldOnce
  <2>2. ASSUME NEW p \in Callers, pc[p] = "sched"
        PROVE  Cardinality(writers) > Capacity
    BY <2>2, RoomForOne DEF IInv, Placed, HeldOnce, Owns
  <2> QED BY <2>1, <2>2
<1> QED BY <1>1, Inductive, PTL

-----------------------------------------------------------------------------

\* The buffers hold what they should after every step.
LEMMA IntactStep ==
  ASSUME IInv, MessageIntact, Encoding, [Next]_vars
  PROVE  MessageIntact' /\ Encoding'
<1> USE DEF IInv, Placed, MessageIntact, Encoding, Whole, Goto, Running
<1>0. /\ pc \in [Callers -> {"idle", "lock", "select", "reset", "encode", "sched"}]
      /\ cur \in [Callers -> ChunkStreamIDs] /\ enc \in ChunkStreamIDs
      /\ shared \subseteq ChunkStreamIDs
      /\ writers \subseteq ChunkStreamIDs /\ doneCh \subseteq writers
      /\ buf \in [ChunkStreamIDs -> Seq(ChunkStreamIDs)]
      /\ left \in [ChunkStreamIDs -> Int]
      /\ queue \in Seq(ChunkStreamIDs) /\ scur \in ChunkStreamIDs
  BY DEF TypeOK
<1>1. ASSUME NEW p \in Callers, NEW id \in ChunkStreamIDs,
             PrepareChunkWriter(p, id)
      PROVE  MessageIntact' /\ Encoding'
  BY <1>0, <1>1 DEF PrepareChunkWriter, schedVars, closerVars
<1>2. ASSUME NEW p \in Callers,
             WaitLock(p) \/ WaitClosed(p) \/ WaitExpired(p) \/ EncodeError(p)
      PROVE  MessageIntact' /\ Encoding'
  <2>1. UNCHANGED <<cur, enc, shared, writers, doneCh, buf, left, queue, spc, scur>>
    BY <1>2 DEF WaitLock, WaitClosed, WaitExpired, EncodeError,
       writerVars, schedVars
  <2>2. Running => pc' \in {[pc EXCEPT ![p] = "select"], [pc EXCEPT ![p] = "idle"]}
    BY <1>2 DEF WaitLock, WaitClosed, WaitExpired, EncodeError
  <2>3. MessageIntact'
    BY <2>1
  <2>4. Encoding'
    BY <1>0, <2>1, <2>2
  <2> QED BY <2>3, <2>4
<1>3. ASSUME NEW p \in Callers, WaitDone(p)
      PROVE  MessageIntact' /\ Encoding'
  BY <1>0, <1>3 DEF WaitDone, schedVars, closerVars
<1>4. ASSUME NEW p \in Callers, ResetEncoder(p)
      PROVE  MessageIntact' /\ Encoding'
  <2> SUFFICES ASSUME Running
               PROVE  MessageIntact' /\ Encoding'
    BY <1>4 DEF ResetEncoder, schedVars
  <2>1. /\ pc[p] = "reset" /\ pc' = [pc EXCEPT ![p] = "encode"] /\ enc' = cur[p]
        /\ UNCHANGED <<cur, writers, doneCh, buf, left, queue, spc, scur>>
    BY <1>4 DEF ResetEncoder, writerVars, schedVars
  <2>2. /\ shared \subseteq shared'
        /\ \A q \in Callers : pc[q] = "encode" => {cur[p], cur[q]} \subseteq shared'
    BY <1>4 DEF ResetEncoder, EncodeTogether
  <2>3. MessageIntact'
    BY <2>1, <2>2
  <2>4. \A q \in Callers : pc'[q] = "encode" => enc' = cur'[q] \/ {enc', cur'[q]} \subseteq shared'
    BY <1>0, <2>1, <2>2
  <2>5. Encoding'
    BY <1>0, <2>1, <2>2, <2>4
  <2> QED BY <2>3, <2>5
<1>5. ASSUME NEW p \in Callers, Encode(p)
      PROVE  MessageIntact' /\ Encoding'
  <2> SUFFICES ASSUME Running
               PROVE  MessageIntact' /\ Encoding'
    BY <1>5 DEF Encode, schedVars
  <2>1. PICK n \in 1..MaxChunks :
          buf' = [buf EXCEPT ![enc] = @ \o [i \in 1..n |-> cur[p]]]
    BY <1>5 DEF Encode
  <2>2. /\ pc[p] = "encode" /\ pc' = [pc EXCEPT ![p] = "sched"]
        /\ left' = [left EXCEPT ![cur[p]] = Len(buf'[cur[p]])]
        /\ UNCHANGED <<cur, enc, shared, writers, doneCh, queue, spc, scur>>
    BY <1>5 DEF Encode, schedVars
  <2>3. \A v \in ChunkStreamIDs \ {cur[p]} : left'[v] = left[v] /\ (v # enc => buf'[v] = buf[v])
    BY <1>0, <2>1, <2>2
  <2>4. \A v \in ChunkStreamIDs \ shared : v # cur[p] => buf'[v] = buf[v] /\ left'[v] = left[v]
    <3>1. enc = cur[p] \/ enc \in shared
      BY <2>2
    <3> QED BY <2>3, <3>1
  <2>5. cur[p] \in shared \/ Whole(cur[p])'
    <3>1. CASE cur[p] \notin shared
      <4>1. enc = cur[p] /\ buf[cur[p]] = <<>>
        BY <2>2, <3>1
      <4>2. buf' = [buf EXCEPT ![cur[p]] = [i \in 1..n |-> cur[p]]]
        BY <1>0, <2>1, <4>1
      <4> QED BY <1>0, <2>2, <4>2
    <3> QED BY <3>1
  <2>6. /\ cur[p] \in writers /\ cur[p] \notin doneCh
        /\ \A i \in 1..Len(queue) : queue[i] # cur[p]
        /\ spc \in {"write", "requeue"} => scur # cur[p]
        /\ \A q \in Callers \ {p} : Owns(q) => cur[q] # cur[p]
    BY <2>2 DEF HeldOnce, Owns
  <2>7. \A v \in ChunkStreamIDs \ shared : v # cur[p] => (Whole(v) => Whole(v)')
    BY <2>4
  <2>8. MessageIntact'
    <3>1. \A i \in 1..Len(queue) : queue[i] \in shared \/ Whole(queue[i])
      OBVIOUS
    <3>2. \A i \in 1..Len(queue) : queue[i] \in ChunkStreamIDs \ {cur[p]}
      BY <1>0, <2>6
    <3>3. \A i \in 1..Len(queue) : queue[i] \in shared \/ Whole(queue[i])'
      BY <2>2, <2>7, <3>1, <3>2
    <3>4. spc \in {"write", "requeue"} => scur \in shared \/ Whole(scur)'
      BY <1>0, <2>2, <2>6, <2>7
    <3> QED BY <2>2, <3>3, <3>4
  <2>9. Encoding'
    <3>1. \A q \in Callers \ {p} : pc'[q] = pc[q]
      BY <1>0, <2>2
    <3>2. ASSUME NEW q \in Callers
          PROVE  /\ pc'[q] = "encode" => enc' = cur'[q] \/ {enc', cur'[q]} \subseteq shared'
                 /\ pc'[q] \in {"reset", "encode"} => cur'[q] \in shared' \/ buf'[cur'[q]] = <<>>
                 /\ pc'[q] = "sched" => cur'[q] \in shared' \/ Whole(cur[q])'
      <4>1. CASE q = p
        BY <1>0, <2>2, <2>5, <4>1
      <4>2. CASE q # p
        <5>1. pc[q] \in {"reset", "encode", "sched"} => cur[q] # cur[p]
          BY <2>6, <4>2 DEF Owns
        <5>2. cur[q] \in ChunkStreamIDs /\ pc'[q] = pc[q]
          BY <1>0, <3>1, <4>2
        <5>3. pc[q] \in {"reset", "encode"} => cur[q] \in shared \/ buf[cur[q]] = <<>>
          OBVIOUS
        <5>4. pc[q] = "sched" => cur[q] \in shared \/ Whole(cur[q])
          OBVIOUS
        <5>5. pc[q] = "encode" => enc = cur[q] \/ {enc, cur[q]} \subseteq shared
          OBVIOUS
        <5>6. pc'[q] \in {"reset", "encode"} => cur[q] \in shared \/ buf'[cur[q]] = <<>>
          BY <2>4, <5>1, <5>2, <5>3
        <5>7. pc'[q] = "sched" => cur[q] \in shared \/ Whole(cur[q])'
          BY <2>2, <2>7, <5>1, <5>2, <5>4
        <5> QED BY <2>2, <5>2, <5>5, <5>6, <5>7
      <4> QED BY <4>1, <4>2
    <3>3. \A w \in ChunkStreamIDs \ shared :
            w \in doneCh \/ w \notin writers => w # cur[p] /\ buf[w] = <<>>
      BY <2>6
    <3> QED BY <2>2, <2>4, <3>2, <3>3
  <2> QED BY <2>8, <2>9
<1>6. ASSUME NEW p \in Callers, Schedule(p)
      PROVE  MessageIntact' /\ Encoding'
  <2>1. /\ pc[p] = "sched" /\ pc' = [pc EXCEPT ![p] = "idle"]
        /\ queue' = Append(queue, cur[p])
        /\ UNCHANGED <<cur, enc, shared, writers, doneCh, buf, left, spc, scur>>
    BY <1>6 DEF Schedule, writerVars
  <2>2. \A i \in 1..Len(queue') :
          \/ i \in 1..Len(queue) /\ queue'[i] = queue[i]
          \/ queue'[i] = cur[p]
    <3>1. cur[p] \in ChunkStreamIDs
      BY <1>0
    <3>2. /\ Len(queue') = Len(queue) + 1 /\ Len(queue) \in Nat
          /\ \A i \in 1..Len(queue) : queue'[i] = queue[i]
          /\ queue'[Len(queue) + 1] = cur[p]
      BY <1>0, <2>1, <3>1, AppendElements
    <3>3. \A i \in 1..Len(queue') : i \in 1..Len(queue) \/ i = Len(queue) + 1
      BY <3>2
    <3> QED BY <3>2, <3>3
  <2>3. Running => \A i \in 1..Len(queue') : queue'[i] \in shared \/ Whole(queue'[i])
    BY <2>1, <2>2
  <2>4. MessageIntact'
    BY <2>1, <2>3
  <2>5. Encoding'
    BY <1>0, <2>1
  <2> QED BY <2>4, <2>5
<1>7. ASSUME Take
      PROVE  MessageIntact' /\ Encoding'
  <2>1. /\ queue # <<>> /\ queue' = Tail(queue) /\ scur' = queue[1]
        /\ spc = "select" /\ spc' = "write"
        /\ UNCHANGED <<pc, cur, enc, shared, writers, doneCh, buf, left>>
    BY <1>0, <1>7, TailElements DEF Take, callerVars, writerVars
  <2>2. \A i \in 1..Len(queue') : i + 1 \in 1..Len(queue) /\ queue'[i] = queue[i + 1]
    BY <1>0, <2>1, TailElements
  <2>3. 1 \in 1..Len(queue)
    BY <1>0, <2>1, TailElements
  <2>4. \A i \in 1..Len(queue) : queue[i] \in shared \/ Whole(queue[i])
    BY <2>1
  <2>5. scur' \in shared \/ Whole(scur')
    BY <2>1, <2>3, <2>4
  <2>6. \A i \in 1..Len(queue') : queue'[i] \in shared \/ Whole(queue'[i])
    BY <2>2, <2>4
  <2>7. MessageIntact'
    BY <2>1, <2>5, <2>6
  <2>8. Encoding'
    BY <2>1
  <2> QED BY <2>7, <2>8
<1>8. ASSUME WriteChunk
      PROVE  MessageIntact' /\ Encoding'
  <2>1. /\ spc = "write"
        /\ UNCHANGED <<pc, cur, enc, shared, writers, queue, scur>>
        /\ \A v \in ChunkStreamIDs \ {scur} :
             buf'[v] = buf[v] /\ left'[v] = left[v]
    BY <1>0, <1>8 DEF WriteChunk, callerVars
  <2>2. /\ buf'[scur] = IF buf[scur] = <<>> THEN <<>> ELSE Tail(buf[scur])
        /\ left'[scur] = left[scur] - (IF buf[scur] = <<>> THEN 0 ELSE 1)
    BY <1>0, <1>8 DEF WriteChunk
  <2>3. scur \in shared \/ Whole(scur)'
    <3>0. SUFFICES ASSUME scur \notin shared PROVE Whole(scur)'
      OBVIOUS
    <3>1. CASE buf[scur] = <<>>
      BY <1>0, <2>1, <2>2, <3>0, <3>1
    <3>2. CASE buf[scur] # <<>>
      <4>1. buf[scur] \in Seq(ChunkStreamIDs)
        BY <1>0
      <4>2. /\ Len(buf[scur]) \in Nat \ {0}
            /\ Len(Tail(buf[scur])) = Len(buf[scur]) - 1
            /\ \A k \in 1..Len(Tail(buf[scur])) : Tail(buf[scur])[k] = buf[scur][k + 1]
        BY <3>2, <4>1, TailElements
      <4>3. left[scur] = Len(buf[scur]) /\ \A k \in 1..Len(buf[scur]) : buf[scur][k] = scur
        BY <2>1, <3>0
      <4>4. \A k \in 1..Len(Tail(buf[scur])) : Tail(buf[scur])[k] = scur
        BY <4>2, <4>3
      <4> QED BY <2>1, <2>2, <3>2, <4>2, <4>3, <4>4
    <3> QED BY <3>1, <3>2
  <2>4. /\ \A i \in 1..Len(queue) : queue[i] # scur
        /\ \A p \in Callers : pc[p] \in {"reset", "encode", "sched"} => cur[p] # scur
        /\ scur \in writers
    BY <2>1 DEF HeldOnce, Owns
  <2>5. \/ spc' = "select" /\ doneCh' = doneCh \cup {scur} /\ buf'[scur] = <<>>
        \/ spc' = "requeue" /\ doneCh' = doneCh
    BY <1>8 DEF WriteChunk
  <2>6. MessageIntact'
    BY <1>0, <2>1, <2>3, <2>4, <2>5
  <2>7. Encoding'
    <3>1. scur \notin doneCh
      BY <2>1 DEF HeldOnce
    <3> QED BY <1>0, <2>1, <2>4, <2>5, <3>1
  <2> QED BY <2>6, <2>7
<1>9. ASSUME Requeue
      PROVE  MessageIntact' /\ Encoding'
  <2>1. /\ spc = "requeue" /\ spc' = "select"
        /\ queue' = Append(queue, scur)
        /\ UNCHANGED <<pc, cur, enc, shared, writers, doneCh, buf, left, scur>>
    BY <1>9 DEF Requeue, callerVars, writerVars
  <2>2. \A i \in 1..Len(queue') :
          \/ i \in 1..Len(queue) /\ queue'[i] = queue[i]
          \/ queue'[i] = scur
    <3>1. scur \in ChunkStreamIDs
      BY <1>0
    <3>2. /\ Len(queue') = Len(queue) + 1 /\ Len(queue) \in Nat
          /\ \A i \in 1..Len(queue) : queue'[i] = queue[i]
          /\ queue'[Len(queue) + 1] = scur
      BY <1>0, <2>1, <3>1, AppendElements
    <3>3. \A i \in 1..Len(queue') : i \in 1..Len(queue) \/ i = Len(queue) + 1
      BY <3>2
    <3> QED BY <3>2, <3>3
  <2>3. /\ scur \in shared \/ Whole(scur)
        /\ \A i \in 1..Len(queue) : queue[i] \in shared \/ Whole(queue[i])
    BY <2>1
  <2>4. \A i \in 1..Len(queue') : queue'[i] \in shared \/ Whole(queue'[i])
    BY <2>2, <2>3
  <2>5. MessageIntact'
    BY <2>1, <2>4
  <2>6. Encoding'
    BY <2>1
  <2> QED BY <2>5, <2>6
<1>10. ASSUME WriteError \/ StopRun \/ ForceCloseWriters
       PROVE  MessageIntact' /\ Encoding'
  BY <1>10 DEF WriteError, StopRun, ForceCloseWriters
<1>11. ASSUME Closer
       PROVE  MessageIntact' /\ Encoding'
  <2>1. /\ UNCHANGED <<pc, cur, enc, shared, writers, buf, left, queue, spc, scur>>
        /\ doneCh' \subseteq doneCh
    BY <1>11 DEF Closer, CloserStep, WaitWriters, WaitNext, CloserLock,
       CloserDone, CloserGivesUp, Deadline, CloseStreamer, CloseRwc,
       callerVars, writerVars, schedVars
  <2> QED BY <1>0, <2>1
<1>12. CASE UNCHANGED vars
  BY <1>12 DEF vars
<1> QED BY <1>1, <1>2, <1>3, <1>4, <1>5, <1>6, <1>7, <1>8, <1>9, <1>10, <1>11,
        <1>12 DEF Next, Caller, Scheduler

\* However many goroutines write to a connection, a message is chunked whole
\* and alone unless its caller and another one were between Reset and Encode
\* together: what they share then harms no third one.
THEOREM Intact == Spec => []MessageIntact
<1>1. Init => MessageIntact /\ Encoding
  BY DEF Init, MessageIntact, Encoding, Running
<1>2. IInv /\ MessageIntact /\ Encoding /\ [Next]_vars
        => MessageIntact' /\ Encoding'
  BY IntactStep
<1> QED BY <1>1, <1>2, Inductive, PTL DEF Spec

=============================================================================
