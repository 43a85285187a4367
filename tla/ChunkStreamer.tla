---------------------------- MODULE ChunkStreamer ----------------------------
(***************************************************************************)
(* The write path of an RTMP connection (chunk_streamer.go,                 *)
(* chunk_stream_writer.go): goroutines call ChunkStreamer.Write; a message  *)
(* is encoded into the buffer of the writer of its chunk stream; one        *)
(* scheduler goroutine takes writers from a bounded channel, writes one     *)
(* chunk of each and puts it back until its message is finished; the        *)
(* goroutine that runs Conn.Close waits for the writers and then stops the  *)
(* scheduler and closes the socket.                                         *)
(*                                                                         *)
(* A message is a number of chunks, and what a buffer holds is abstracted   *)
(* to the chunk stream each of its chunks was meant for.                    *)
(***************************************************************************)
EXTENDS Integers, Sequences, FiniteSets

CONSTANTS
  Callers,          \* goroutines that call ChunkStreamer.Write
  Timed,            \* the callers whose context has a deadline (Stream.Write)
  ChunkStreamIDs,   \* chunk stream IDs in use
  MaxChunkStreams,  \* StreamControlStateConfig.MaxChunkStreams
  Capacity,         \* maxWriterQueueSize
  MaxChunks,        \* bound: chunks of the longest message
  Overlapping,      \* bound: whether callers may encode together
  WritesFail,       \* whether the socket may fail before it is closed
  EncodesFail,      \* whether callers pass messages the encoder rejects
  Closes            \* whether the program closes the connection

ASSUME ConstantsAssumption ==
  /\ Timed \subseteq Callers
  /\ IsFiniteSet(ChunkStreamIDs)
  /\ ChunkStreamIDs # {}
  /\ MaxChunkStreams \in Nat
  /\ Capacity \in Nat \ {0}
  /\ MaxChunks \in Nat \ {0}
  /\ Overlapping \in BOOLEAN
  /\ WritesFail \in BOOLEAN
  /\ EncodesFail \in BOOLEAN
  /\ Closes \in BOOLEAN

VARIABLES
  pc,       \* where each caller is in Write
  cur,      \* the chunk stream each caller writes to
  enc,      \* the writer msgEnc was last Reset to: one encoder for all callers
  shared,   \* history: chunk streams of callers that were encoding together
  writers,  \* the keys of ChunkStreamer.writers
  doneCh,   \* writers whose doneCh is closed: free to be acquired
  closeCh,  \* writers whose closeCh is closed
  lastErr,  \* writers whose lastErr is set
  buf,      \* buf[id]: for each chunk in the buffer, the stream it is meant for
  left,     \* left[id]: chunks of messageLength not yet written
  queue,    \* chunkStreamerWriterSched.writers, the channel
  spc,      \* where the scheduler goroutine is
  scur,     \* the writer the scheduler took
  cpc,      \* where the goroutine that runs Conn.Close is
  ccur,     \* the writer waitWriters waits for
  cleft,    \* the writers waitWriters has yet to wait for
  expired   \* whether the 3 s context of waitWriters is over

callerVars == <<pc, cur, enc, shared>>
writerVars == <<writers, doneCh, closeCh, lastErr, buf, left>>
schedVars  == <<queue, spc, scur>>
closerVars == <<cpc, ccur, cleft, expired>>
vars == <<pc, cur, enc, shared, writers, doneCh, closeCh, lastErr, buf, left,
          queue, spc, scur, cpc, ccur, cleft, expired>>

\* Types of the write path; the table of writers stays within MaxChunkStreams
\* and the scheduler's channel within its capacity (prepareChunkWriter).
TypeOK ==
  /\ pc \in [Callers -> {"idle", "lock", "select", "reset", "encode", "sched"}]
  /\ cur \in [Callers -> ChunkStreamIDs]
  /\ enc \in ChunkStreamIDs
  /\ shared \subseteq ChunkStreamIDs
  /\ writers \subseteq ChunkStreamIDs
  /\ Cardinality(writers) <= MaxChunkStreams
  /\ doneCh \subseteq writers
  /\ closeCh \subseteq writers
  /\ lastErr \subseteq writers
  /\ buf \in [ChunkStreamIDs -> Seq(ChunkStreamIDs)]
  /\ left \in [ChunkStreamIDs -> Int]
  /\ queue \in Seq(ChunkStreamIDs)
  /\ Len(queue) <= Capacity
  /\ spc \in {"select", "write", "requeue", "force", "done"}
  /\ scur \in ChunkStreamIDs
  /\ cpc \in {"open", "next", "lock", "select", "rwc", "closed"}
  /\ ccur \in ChunkStreamIDs
  /\ cleft \subseteq ChunkStreamIDs
  /\ expired \in BOOLEAN

Init ==
  \E id \in ChunkStreamIDs :     \* an arbitrary value for what is not yet set
    /\ pc = [p \in Callers |-> "idle"]
    /\ cur = [p \in Callers |-> id]
    /\ enc = id /\ shared = {}
    /\ writers = {} /\ doneCh = {} /\ closeCh = {} /\ lastErr = {}
    /\ buf = [w \in ChunkStreamIDs |-> <<>>]
    /\ left = [w \in ChunkStreamIDs |-> 0]
    /\ queue = <<>> /\ spc = "select" /\ scur = id
    /\ cpc = "open" /\ ccur = id /\ cleft = {} /\ expired = FALSE

-----------------------------------------------------------------------------
(* Locks and channels that follow from where the goroutines are. *)

\* ChunkStreamer.mu: only waitWriters keeps it over more than one step.
MuHeld == cpc \in {"next", "lock", "select"}

\* aqM of writer w is held by whoever is in the select of Wait.
AqHeld(w) ==
  \/ \E p \in Callers : pc[p] = "select" /\ cur[p] = w
  \/ cpc = "select" /\ ccur = w

\* stopCh is closed, the socket is closed.
Stopped   == cpc \in {"rwc", "closed"}
RwcClosed == cpc = "closed"

\* Run has not returned.
Running == spc \in {"select", "write", "requeue"}

\* The caller has come back from Wait with the writer.
Owns(p) == pc[p] \in {"reset", "encode", "sched"}

Goto(p, l) == pc' = [pc EXCEPT ![p] = l]

-----------------------------------------------------------------------------
(* A caller: Write = NewChunkWriter (prepareChunkWriter, Wait), Reset,      *)
(* Encode, Sched.                                                           *)

\* Finds or creates the writer, whose doneCh starts closed. At the limit
\* a new stream is refused, which changes nothing.
PrepareChunkWriterMutant(p, id) ==   \* mutant: one writer too many
  /\ pc[p] = "idle"
  /\ ~MuHeld
  /\ id \in writers \/ Cardinality(writers) <= MaxChunkStreams
  /\ writers' = writers \cup {id}
  /\ doneCh' = IF id \in writers THEN doneCh ELSE doneCh \cup {id}
  /\ cur' = [cur EXCEPT ![p] = id]
  /\ Goto(p, "lock")
  /\ UNCHANGED <<enc, shared, closeCh, lastErr, buf, left, schedVars, closerVars>>

PrepareChunkWriter(p, id) ==
  /\ pc[p] = "idle"
  /\ ~MuHeld
  /\ \/ id \in writers
     \/ Cardinality(writers) < MaxChunkStreams
  /\ writers' = writers \cup {id}
  /\ doneCh' = IF id \in writers THEN doneCh ELSE doneCh \cup {id}
  /\ cur' = [cur EXCEPT ![p] = id]
  /\ Goto(p, "lock")
  /\ UNCHANGED <<enc, shared, closeCh, lastErr, buf, left, schedVars, closerVars>>

\* w.aqM.Lock(): no context bounds it.
WaitLock(p) ==
  /\ pc[p] = "lock"
  /\ ~AqHeld(cur[p])
  /\ Goto(p, "select")
  /\ UNCHANGED <<cur, enc, shared, writerVars, schedVars, closerVars>>

\* The select of Wait takes any branch that is ready.
WaitDoneMutant(p) ==   \* mutant: doneCh is not replaced
  /\ pc[p] = "select"
  /\ cur[p] \in doneCh
  /\ Goto(p, IF cur[p] \in lastErr THEN "idle" ELSE "reset")
  /\ UNCHANGED <<cur, enc, shared, writerVars, schedVars, closerVars>>

WaitDone(p) ==
  /\ pc[p] = "select"
  /\ cur[p] \in doneCh
  /\ IF cur[p] \in lastErr
     THEN Goto(p, "idle") /\ UNCHANGED doneCh
     ELSE Goto(p, "reset") /\ doneCh' = doneCh \ {cur[p]}
  /\ UNCHANGED <<cur, enc, shared, writers, closeCh, lastErr, buf, left,
                 schedVars, closerVars>>

\* lastErr is nil unless this very writer failed: Wait then succeeds.
WaitClosed(p) ==
  /\ pc[p] = "select"
  /\ cur[p] \in closeCh
  /\ Goto(p, IF cur[p] \in lastErr THEN "idle" ELSE "reset")
  /\ UNCHANGED <<cur, enc, shared, writerVars, schedVars, closerVars>>

WaitExpired(p) ==
  /\ p \in Timed
  /\ pc[p] = "select"
  /\ Goto(p, "idle")
  /\ UNCHANGED <<cur, enc, shared, writerVars, schedVars, closerVars>>

\* Nothing in Write keeps another caller from a Reset before this one's Encode.
EncodeTogether(p) ==
  shared' = shared \cup UNION {{cur[p], cur[q]} : q \in {q \in Callers : pc[q] = "encode"}}

ResetEncoderMutant(p) ==   \* mutant: msgEnc is not Reset
  /\ pc[p] = "reset"
  /\ Overlapping \/ \A q \in Callers : pc[q] # "encode"
  /\ EncodeTogether(p)
  /\ Goto(p, "encode")
  /\ UNCHANGED <<cur, enc, writerVars, schedVars, closerVars>>

ResetEncoder(p) ==
  /\ pc[p] = "reset"
  /\ Overlapping \/ \A q \in Callers : pc[q] # "encode"
  /\ enc' = cur[p]
  /\ EncodeTogether(p)
  /\ Goto(p, "encode")
  /\ UNCHANGED <<cur, writerVars, schedVars, closerVars>>

\* The encoder writes where it was last Reset to; then the caller copies the
\* length of its own writer's buffer into messageLength.
Encode(p) ==
  /\ pc[p] = "encode"
  /\ \E n \in 1..MaxChunks :
       buf' = [buf EXCEPT ![enc] = @ \o [i \in 1..n |-> cur[p]]]
  /\ left' = [left EXCEPT ![cur[p]] = Len(buf'[cur[p]])]
  /\ Goto(p, "sched")
  /\ UNCHANGED <<cur, enc, shared, writers, doneCh, closeCh, lastErr,
                 schedVars, closerVars>>

\* The error return of Write after Encode keeps the writer acquired.
EncodeError(p) ==
  /\ EncodesFail
  /\ pc[p] = "encode"
  /\ Goto(p, "idle")
  /\ UNCHANGED <<cur, enc, shared, writerVars, schedVars, closerVars>>

\* Sched: a send on the channel, which blocks while it is full.
Schedule(p) ==
  /\ pc[p] = "sched"
  /\ Len(queue) < Capacity
  /\ queue' = Append(queue, cur[p])
  /\ Goto(p, "idle")
  /\ UNCHANGED <<cur, enc, shared, writerVars, spc, scur, closerVars>>

-----------------------------------------------------------------------------
(* The scheduler goroutine: schedWriteLoop and chunkStreamerWriterSched.Run *)

Take ==
  /\ spc = "select"
  /\ queue # <<>>
  /\ scur' = Head(queue)
  /\ queue' = Tail(queue)
  /\ spc' = "write"
  /\ UNCHANGED <<callerVars, writerVars, closerVars>>

\* writeChunk: one chunk, or no payload when the buffer holds nothing. The
\* writer is free when its buffer is empty.
WriteChunk ==
  /\ spc = "write"
  /\ ~RwcClosed
  /\ left' = [left EXCEPT ![scur] = @ - (IF buf[scur] = <<>> THEN 0 ELSE 1)]
  /\ buf' = [buf EXCEPT ![scur] = IF @ = <<>> THEN @ ELSE Tail(@)]
  /\ IF buf'[scur] = <<>>
     THEN spc' = "select" /\ doneCh' = doneCh \cup {scur}
     ELSE spc' = "requeue" /\ UNCHANGED doneCh
  /\ UNCHANGED <<callerVars, writers, closeCh, lastErr, queue, scur, closerVars>>

WriteError ==
  /\ spc = "write"
  /\ WritesFail \/ RwcClosed
  /\ lastErr' = lastErr \cup {scur}
  /\ doneCh' = doneCh \cup {scur}
  /\ spc' = "force"
  /\ UNCHANGED <<callerVars, writers, closeCh, buf, left, queue, scur, closerVars>>

\* "Enqueue writer": the only receiver of the channel sends on it.
RequeueMutant ==   \* mutant: the unfinished writer is dropped
  /\ spc = "requeue"
  /\ spc' = "select"
  /\ UNCHANGED <<callerVars, writerVars, queue, scur, closerVars>>

RequeueFullMutant ==   \* mutant: the channel has a place less than writers need
  /\ spc = "requeue"
  /\ Len(queue) + 1 < Capacity
  /\ queue' = Append(queue, scur)
  /\ spc' = "select"
  /\ UNCHANGED <<callerVars, writerVars, scur, closerVars>>

Requeue ==
  /\ spc = "requeue"
  /\ Len(queue) < Capacity
  /\ queue' = Append(queue, scur)
  /\ spc' = "select"
  /\ UNCHANGED <<callerVars, writerVars, scur, closerVars>>

StopRun ==
  /\ spc = "select"
  /\ Stopped
  /\ spc' = "done"
  /\ UNCHANGED <<callerVars, writerVars, queue, scur, closerVars>>

ForceCloseWriters ==
  /\ spc = "force"
  /\ ~MuHeld
  /\ closeCh' = writers
  /\ spc' = "done"
  /\ UNCHANGED <<callerVars, writers, doneCh, lastErr, buf, left,
                 queue, scur, closerVars>>

-----------------------------------------------------------------------------
(* Conn.Close: waitWriters, streamer.Close, rwc.Close. *)

WaitWriters ==
  /\ Closes
  /\ cpc = "open"
  /\ cpc' = "next"
  /\ cleft' = writers
  /\ UNCHANGED <<callerVars, writerVars, schedVars, ccur, expired>>

\* The order of the range over the map is arbitrary.
WaitNext ==
  /\ cpc = "next"
  /\ \E w \in cleft : ccur' = w /\ cleft' = cleft \ {w}
  /\ cpc' = "lock"
  /\ UNCHANGED <<callerVars, writerVars, schedVars, expired>>

CloserLock ==
  /\ cpc = "lock"
  /\ ~AqHeld(ccur)
  /\ cpc' = "select"
  /\ UNCHANGED <<callerVars, writerVars, schedVars, ccur, cleft, expired>>

\* A Wait that succeeds acquires the writer, which nobody gives back.
CloserDone ==
  /\ cpc = "select"
  /\ ccur \in doneCh
  /\ doneCh' = IF ccur \in lastErr THEN doneCh ELSE doneCh \ {ccur}
  /\ cpc' = "next"
  /\ UNCHANGED <<callerVars, writers, closeCh, lastErr, buf, left,
                 schedVars, ccur, cleft, expired>>

CloserGivesUp ==
  /\ cpc = "select"
  /\ ccur \in closeCh \/ expired
  /\ cpc' = "next"
  /\ UNCHANGED <<callerVars, writerVars, schedVars, ccur, cleft, expired>>

Deadline ==
  /\ MuHeld
  /\ ~expired
  /\ expired' = TRUE
  /\ UNCHANGED <<callerVars, writerVars, schedVars, cpc, ccur, cleft>>

CloseStreamer ==
  /\ cpc = "next"
  /\ cleft = {}
  /\ cpc' = "rwc"
  /\ UNCHANGED <<callerVars, writerVars, schedVars, ccur, cleft, expired>>

CloseRwc ==
  /\ cpc = "rwc"
  /\ cpc' = "closed"
  /\ UNCHANGED <<callerVars, writerVars, schedVars, ccur, cleft, expired>>

-----------------------------------------------------------------------------
Wait(p) == WaitDone(p) \/ WaitClosed(p) \/ WaitExpired(p)

Caller(p) ==
  \/ \E id \in ChunkStreamIDs : PrepareChunkWriter(p, id)
  \/ WaitLock(p) \/ WaitDone(p) \/ WaitClosed(p) \/ WaitExpired(p)
  \/ ResetEncoder(p) \/ Encode(p) \/ EncodeError(p) \/ Schedule(p)

Scheduler ==
  \/ Take \/ WriteChunk \/ WriteError \/ Requeue \/ StopRun
  \/ ForceCloseWriters

CloserStep ==
  \/ WaitNext \/ CloserLock \/ CloserDone \/ CloserGivesUp
  \/ CloseStreamer \/ CloseRwc

Closer == WaitWriters \/ CloserStep \/ Deadline

Next == (\E p \in Callers : Caller(p)) \/ Scheduler \/ Closer

Spec == Init /\ [][Next]_vars

\* A goroutine that can go on does. Go hands a contended mutex to its oldest
\* waiter and serves blocked senders in order, and a select picks among the
\* ready branches at random: what is enabled again and again is taken. A write
\* to the socket returns. Nothing makes a caller start a Write, nor the
\* connection close.
Continue(p) ==
  WaitLock(p) \/ Wait(p) \/ ResetEncoder(p) \/ Encode(p) \/ Schedule(p)

Fairness ==
  /\ \A p \in Callers : SF_vars(Continue(p))
  /\ WF_vars(Scheduler) /\ SF_vars(StopRun)
  /\ SF_vars(CloserStep) /\ WF_vars(Deadline)

FairSpec == Spec /\ Fairness

-----------------------------------------------------------------------------
(* Correctness *)

\* While the scheduler runs, a writer is in one place at most: with one caller,
\* once in the queue, or with the scheduler; and wherever it is, its doneCh is
\* open, so that closing it when the message is finished cannot panic
\* (chunkStreamerWriterSched.Run closes it without a check).
HeldOnce ==
  Running =>
    /\ \A p \in Callers : Owns(p) =>
         /\ cur[p] \notin doneCh
         /\ \A q \in Callers \ {p} : Owns(q) => cur[q] # cur[p]
         /\ \A i \in 1..Len(queue) : queue[i] # cur[p]
         /\ spc \in {"write", "requeue"} => scur # cur[p]
    /\ \A i \in 1..Len(queue) :
         /\ queue[i] \notin doneCh
         /\ \A j \in 1..Len(queue) : queue[i] = queue[j] => i = j
         /\ spc \in {"write", "requeue"} => queue[i] # scur
    /\ spc \in {"write", "requeue"} => scur \notin doneCh

\* What HeldOnce needs to be inductive, with TypeOK: a caller inside Write, the
\* queue and the scheduler refer to writers that exist, and while the scheduler
\* runs no writer has failed or was force-closed (Run returns first).
Placed ==
  /\ \A p \in Callers : pc[p] # "idle" => cur[p] \in writers
  /\ \A i \in 1..Len(queue) : queue[i] \in writers
  /\ spc \in {"write", "requeue"} => scur \in writers
  /\ Running => closeCh = {} /\ lastErr = {}

IInv == TypeOK /\ Placed /\ HeldOnce

\* Who sends on the channel has to wait for room only if more chunk streams
\* have been used than it has places, which the limit of prepareChunkWriter
\* allows; the scheduler, its only receiver, then waits for ever when it puts
\* an unfinished writer back (Run, "Enqueue writer").
RoomForWriters ==
  (/\ Running
   /\ spc = "requeue" \/ \E p \in Callers : pc[p] = "sched"
   /\ Len(queue) >= Capacity)
    => Cardinality(writers) > Capacity

\* What is left of a message: chunks meant for this stream, as many as its
\* header announced.
Whole(w) ==
  /\ left[w] = Len(buf[w])
  /\ \A k \in 1..Len(buf[w]) : buf[w][k] = w

\* What is scheduled on a chunk stream, down to its last chunk, is a whole
\* message meant for it, unless a caller that wrote to it and another one were
\* between Reset and Encode together: one encoder serves all callers, and it
\* harms the chunk streams of those that share it and no others (Write).
MessageIntact ==
  Running =>
    /\ \A i \in 1..Len(queue) : queue[i] \in shared \/ Whole(queue[i])
    /\ spc \in {"write", "requeue"} => scur \in shared \/ Whole(scur)

\* The same of every message, whoever writes beside its caller.
EveryMessageIntact ==
  Running =>
    /\ \A i \in 1..Len(queue) : Whole(queue[i])
    /\ spc \in {"write", "requeue"} => Whole(scur)

\* What MessageIntact needs to be inductive: a caller that encodes has the
\* encoder or has shared it with the one that does, and a writer that is free,
\* or held but not filled, is empty.
Encoding ==
  Running =>
    /\ \A p \in Callers :
         /\ pc[p] = "encode" => enc = cur[p] \/ {enc, cur[p]} \subseteq shared
         /\ pc[p] \in {"reset", "encode"} => cur[p] \in shared \/ buf[cur[p]] = <<>>
         /\ pc[p] = "sched" => cur[p] \in shared \/ Whole(cur[p])
    /\ \A w \in ChunkStreamIDs \ shared : w \in doneCh \/ w \notin writers => buf[w] = <<>>

\* A message that was scheduled is written to its end, however many chunks
\* others have to write, unless the connection fails or is closed (Run).
ScheduledIsWritten ==
  \A w \in ChunkStreamIDs :
    (\E i \in 1..Len(queue) : queue[i] = w) ~> (w \in doneCh \/ ~Running \/ Stopped)

\* A Write that began returns while the connection stays up and nobody closes
\* it (NewChunkWriter: "Wait until writing have been finished if the writer is
\* running").
WriteReturns ==
  \A p \in Callers :
    (pc[p] = "lock") ~> (pc[p] = "idle" \/ ~Running \/ cpc # "open")

\* Once the streamer is closed its goroutine ends and closes Done.
CloseEndsRun == Stopped ~> (spc = "done")

\* Close gets past the writers: waitWriters waits 3 seconds for those that do
\* not finish, gives mu back, and the socket is closed.
WaitWritersReturns == MuHeld ~> RwcClosed

=============================================================================
