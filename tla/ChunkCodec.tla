----------------------------- MODULE ChunkCodec -----------------------------
(***************************************************************************)
(* How messages become chunks and chunks messages again (writeChunk,        *)
(* updateWriterHeader and readChunk of chunk_streamer.go), with the change  *)
(* of the chunk size (Stream.CreateStream, Stream.WriteSetChunkSize,        *)
(* streamHandler.Handle): both ends keep the last header of every chunk     *)
(* stream, and a chunk carries only what differs from it (ChunkHeader).     *)
(*                                                                         *)
(* Lengths count units of payload. A message's type travels like its length,*)
(* which stands for both here; its content is its place in the stream.      *)
(***************************************************************************)
EXTENDS ChunkHeader, FiniteSets, FiniteSetsExt

CONSTANTS
  Streams,       \* chunk streams that carry messages
  Control,       \* the chunk stream of SetChunkSize (2)
  Timestamps,    \* timestamps of messages
  StreamIDs,     \* message stream IDs
  Lengths,       \* message lengths
  Sizes,         \* chunk sizes, those of the program as it announces them
  ProtocolMax,   \* the greatest size and length that the protocol has, 0xffffff
  MaxChunkSize,  \* the reading end's own limit on sizes
  DefaultChunkSize,   \* the size that both ends begin with
  MaxMessages,   \* bound: messages on all chunk streams, SetChunkSizes with them
  MaxWire        \* bound: chunks on the wire

ASSUME CodecAssumption ==
  /\ Control \notin Streams /\ IsFiniteSet(Streams)
  /\ Timestamps \subseteq 0..(StampModulus - 1)
  /\ StreamIDs \subseteq Nat
  /\ ProtocolMax \in Nat \ {0}
  /\ Lengths \subseteq 0..ProtocolMax
  /\ Sizes \subseteq Nat \ {0} /\ Sizes # {}
  /\ MaxChunkSize \in Nat /\ DefaultChunkSize \in Nat \ {0}
  /\ MaxMessages \in Nat /\ MaxWire \in Nat

All == Streams \cup {Control}

\* A message; size is what a SetChunkSize carries, 0 for any other message.
Message(ts, len, sid, size) == [ts |-> ts, len |-> len, sid |-> sid, size |-> size]

ControlLength == 1   \* a SetChunkSize fits in a chunk of any size

Messages ==
  {Message(ts, len, sid, 0) : ts \in Timestamps \cup {0}, len \in Lengths, sid \in StreamIDs}
  \cup {Message(0, ControlLength, 0, size) : size \in Sizes}

VARIABLES
  w,         \* w[id]: the ChunkStreamWriter
  r,         \* r[id]: the ChunkStreamReader of the peer
  queue,     \* writers scheduled, in order
  wire,      \* chunks on the connection
  selfSize,  \* selfState.chunkSize of the writing end
  peerSize,  \* peerState.chunkSize of the reading end
  pending,   \* the sizes that calls of CreateStream have set and not announced
  broken,    \* how the reading end failed, or "no"
  sent, got, \* by chunk stream: the messages written, and those read
  told,      \* history: the size of the peer when it has read the wire
  crossed,   \* history: whether two calls of CreateStream had set a size at once
  ahead      \* history: whether a chunk left cut by a size that was not announced

history == <<told, crossed, ahead>>
vars == <<w, r, queue, wire, selfSize, peerSize, pending, broken, sent, got, history>>

\* PeerState().SetChunkSize takes no more than the protocol's greatest size.
Clamp(size) == Min({size, ProtocolMax})

Init ==
  /\ w = [id \in All |-> NewWriter]
  /\ r = [id \in All |-> NewReader]
  /\ queue = <<>> /\ wire = <<>>
  /\ selfSize = DefaultChunkSize /\ peerSize = DefaultChunkSize
  /\ told = DefaultChunkSize /\ crossed = FALSE /\ ahead = FALSE
  /\ pending = {} /\ broken = "no"
  /\ sent = [id \in All |-> <<>>] /\ got = [id \in All |-> <<>>]

Free(id) == \A i \in 1..Len(queue) : queue[i] # id

\* ChunkStreamer.Write of message m: the writer is acquired, filled, scheduled.
Scheduled(id, m) ==
  /\ Free(id)
  /\ w' = [w EXCEPT ![id].ts = m.ts, ![id].len = m.len, ![id].sid = m.sid,
                    ![id].rest = m.len, ![id].new = TRUE]
  /\ queue' = Append(queue, id)
  /\ sent' = [sent EXCEPT ![id] = Append(@, m)]

Asked == MapThenSumSet(LAMBDA id : Len(sent[id]), All) + Cardinality(pending)

Write(id, ts, len, sid) ==
  /\ Asked < MaxMessages
  /\ Scheduled(id, Message(ts, len, sid, 0))
  /\ UNCHANGED <<r, wire, selfSize, peerSize, pending, broken, got, history>>

\* CreateStream sets the size of the chunks to come, whatever is queued,
ChangeChunkSize(size) ==
  /\ size # selfSize
  /\ size \notin pending   \* bound: no two calls with one size at a time
  /\ Asked < MaxMessages
  /\ selfSize' = size
  /\ pending' = pending \cup {size}
  /\ crossed' = (crossed \/ pending # {})
  /\ UNCHANGED <<w, r, queue, wire, peerSize, broken, sent, got, told, ahead>>

\* and then announces it to the peer.
WriteSetChunkSizeMutant(size) ==   \* mutant: the announcement is lost
  /\ size \in pending
  /\ pending' = pending \ {size}
  /\ UNCHANGED <<w, r, queue, wire, selfSize, peerSize, broken, sent, got, history>>
WriteSetChunkSize(size) ==
  /\ size \in pending
  /\ Scheduled(Control, Message(0, ControlLength, 0, size))
  /\ pending' = pending \ {size}
  /\ UNCHANGED <<r, wire, selfSize, peerSize, broken, got, history>>

\* How much of what is left goes into the next chunk.
ChunkLengthMutant(rest, size) == size   \* mutant: no cut to what is left
ChunkLength(rest, size) == Min({rest, size})

\* The scheduler writes one chunk of the first writer and puts it back unless
\* its message is finished.
WriteChunk ==
  /\ queue # <<>>
  /\ Len(wire) < MaxWire
  /\ LET id == Head(queue)
         x  == UpdateWriterHeader(w[id])
         n  == ChunkLength(x.rest, selfSize)
     IN  /\ w' = [w EXCEPT ![id] = [x EXCEPT !.rest = @ - n]]
         /\ wire' = Append(wire, [id |-> id, fmt |-> x.fmt, ts |-> x.hts,
                                  delta |-> x.hdelta, len |-> x.hlen,
                                  type |-> x.htype, sid |-> x.hsid, n |-> n])
         /\ queue' = Tail(queue) \o IF n < x.rest THEN <<id>> ELSE <<>>
         /\ told' = IF id = Control THEN Clamp(sent[id][Len(sent[id])].size) ELSE told
         /\ ahead' = (ahead \/ /\ n # ChunkLength(x.rest, told)
                               /\ crossed \/ pending # {} \/ ~Free(Control))
  /\ UNCHANGED <<r, selfSize, peerSize, pending, broken, sent, got, crossed>>

\* The content a reader puts together is that of the message sent in its place.
Content(id) ==
  IF Len(got[id]) < Len(sent[id]) THEN sent[id][Len(got[id]) + 1].size ELSE 0

\* A size that is above the reader's limit all the same ends the connection.
SetChunkSize(size) ==
  IF Clamp(size) <= MaxChunkSize
  THEN peerSize' = Clamp(size) /\ UNCHANGED broken
  ELSE broken' = "refused" /\ UNCHANGED peerSize

\* The reader takes as many bytes as it expects: another number than the chunk
\* has, and what follows is not a header. A SetChunkSize takes effect as soon
\* as it is complete, before the next chunk is read.
ReadChunk ==
  /\ broken = "no"
  /\ wire # <<>>
  /\ wire' = Tail(wire)
  /\ LET c == Head(wire)
         x == ReadHeader(r[c.id], c)
         expect == x.len - x.have
         n == ChunkLength(expect, peerSize)
         complete == x.have + n = x.len
         stamp == StampOf(x)
     IN  \/ /\ expect <= 0
            /\ broken' = "invalid state"
            /\ UNCHANGED <<r, peerSize, got>>
         \/ /\ expect > 0 /\ n # c.n
            /\ broken' = "out of step"
            /\ UNCHANGED <<r, peerSize, got>>
         \/ /\ expect > 0 /\ n = c.n /\ ~complete
            /\ r' = [r EXCEPT ![c.id] = [x EXCEPT !.have = @ + n]]
            /\ UNCHANGED <<peerSize, broken, got>>
         \/ /\ expect > 0 /\ n = c.n /\ complete
            /\ r' = [r EXCEPT ![c.id] = [x EXCEPT !.have = @ + n, !.ts = stamp,
                                                  !.completed = TRUE]]
            /\ got' = [got EXCEPT ![c.id] =
                         Append(@, Message(stamp, x.len, x.sid, Content(c.id)))]
            /\ IF c.id = Control
               THEN SetChunkSize(Content(c.id))
               ELSE UNCHANGED <<peerSize, broken>>
  /\ UNCHANGED <<w, queue, selfSize, pending, sent, history>>

Next ==
  \/ \E id \in Streams, ts \in Timestamps, len \in Lengths, sid \in StreamIDs :
       Write(id, ts, len, sid)
  \/ \E size \in Sizes : ChangeChunkSize(size) \/ WriteSetChunkSize(size)
  \/ WriteChunk \/ ReadChunk

\* The scheduler and the reading goroutine run on.
Spec ==
  /\ Init /\ [][Next]_vars
  /\ WF_vars(WriteChunk) /\ WF_vars(ReadChunk)

-----------------------------------------------------------------------------
AllSizes == Sizes \cup {ProtocolMax, DefaultChunkSize}

\* Types of both ends of a connection and of the chunks on the wire
\* (ChunkStreamWriter and ChunkStreamReader).
TypeOK ==
  /\ queue \in Seq(All) /\ Len(queue) <= Cardinality(All)
  /\ selfSize \in AllSizes /\ peerSize \in AllSizes /\ told \in AllSizes
  /\ pending \subseteq Sizes
  /\ broken \in {"no", "refused", "invalid state", "out of step"}
  /\ crossed \in BOOLEAN /\ ahead \in BOOLEAN
  /\ \A id \in All :
       /\ w[id].rest \in 0..w[id].len /\ w[id].fmt \in 0..3
       /\ r[id].ts \in 0..(StampModulus - 1) /\ r[id].have \in 0..r[id].len

\* The messages of s up to the one in place k belong to one message stream, and
\* the first one has a timestamp that is sent.
Alike(s, k) ==
  /\ \A i \in 1..k : s[i].sid = s[1].sid
  /\ s[1].sid # 0 \/ s[1].ts # StampModulus - 1

\* What is promised of messages s on chunk stream id: all but the timestamps
\* that follow a change of the message stream (chunk_streamer.go:332).
Promised(s, id) ==
  [k \in 1..Len(s) |-> IF Alike(sent[id], k) THEN s[k] ELSE [s[k] EXCEPT !.ts = 0]]

\* The messages read are the messages written, with their lengths, stream IDs
\* and, on a chunk stream with one message stream, their timestamps, in order,
\* and all of them arrive (updateWriterHeader and readChunk undo each other):
\* unless the peer refuses a size or a chunk was cut ahead of its announcement.
Delivery == INSTANCE MessageDelivery
  WITH Streams <- All,
       sent <- [id \in All |-> Promised(sent[id], id)],
       got <- [id \in All |-> Promised(got[id], id)],
       sound <- ~ahead /\ broken # "refused"
Delivered == Delivery!Spec

\* The reader agrees with the writer on where a chunk ends, although the size
\* changes while messages are queued and on the wire, by several goroutines at
\* once, and although the reader clamps it: unless a chunk left cut by a size
\* before its SetChunkSize, or after the SetChunkSizes of two calls could change
\* places, which CreateStream makes possible (stream.go:140), and cut otherwise
\* than the peer would have it.
InStep == ~ahead => broken # "out of step"

=============================================================================
