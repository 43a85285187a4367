---------------------------- MODULE MessageWire ----------------------------
(***************************************************************************)
(* One RTMP connection from the calls of a client to the callbacks of the   *)
(* server's Handler and back: messages are encoded (MessageCodec), put on   *)
(* the wire behind their chunk headers (ChunkHeader), read, decoded and     *)
(* dispatched by message stream, the stream's state and the kind of message *)
(* (conn.go, stream.go, stream_handler.go and the handlers of each state).  *)
(*                                                                         *)
(* "up" is what the server reads, "down" what the client reads. Each        *)
(* message is one chunk; ChunkCodec has those that are cut. The client uses *)
(* one message stream at a time and stops when the server's loop has ended. *)
(* Commands and media this library's client has no call for come from other *)
(* clients, encoded alike.                                                  *)
(***************************************************************************)
EXTENDS ChunkHeader, MessageCodec

CONSTANTS
  Media,              \* what media the client may send: chunk stream, timestamp, kind
  Controls,           \* messages the client may send on the data stream
  Commands,           \* bodies of commands on the control stream that await nothing
  Openings,           \* publish and play bodies
  Sizes,              \* chunk sizes CreateStream may announce
  MaxChunkSize,       \* limits of both ends on what a peer may announce
  MaxWindow,
  SelfWindow,         \* the ack window the server announces
  IgnoreNotExist,     \* IgnoreMessagesOnNotExistStream, and how many
  Threshold,
  MaxCalls,           \* bounds: the client's calls but Connect, Publish and play, in all,
  MaxUnder            \* and messages the client writes ahead

\* Timestamps fit their fields, chunk sizes are those the encoder accepts, and
\* the limits are at least what both ends begin with.
ASSUME WireAssumption ==
  /\ StampModulus > 1 /\ InFourBytes(StampModulus - 1)
  /\ \A f \in Media :
       /\ f.cs \in 4..LastChunkStream /\ f.ts \in 0..(StampModulus - 1)
       /\ f.kind \in {"Audio", "Video", "@setDataFrame", "onCuePoint"}
  /\ Sizes \subseteq 1..(Word \div 2 - 1)
  /\ MaxChunkSize \in Nat /\ MaxChunkSize >= 128
  /\ MaxWindow \in 0..(Word \div 2 - 1) /\ SelfWindow \in 0..(Word \div 2 - 1)
  /\ IgnoreNotExist \in BOOLEAN /\ Threshold \in Nat
  /\ MaxCalls \in Nat /\ MaxUnder \in Nat

\* What the client may be asked to write: the bodies have the fields of their
\* kinds, and window sizes fit.
ASSUME InputAssumption ==
  /\ \A m \in Controls :
       \/ m.type = "WinAckSize" /\ m = [type |-> m.type, size |-> m.size]
          /\ m.size \in 0..(Word \div 2 - 1)
       \/ m.type = "SetPeerBandwidth" /\ m = [type |-> m.type, size |-> m.size, limit |-> m.limit]
          /\ m.size \in 0..(Word \div 2 - 1)
       \/ m.type = "UserCtrl" /\ m = [type |-> m.type, event |-> m.event]
          /\ m.event.event \in DOMAIN EventID
          /\ m.event = IF m.event.event = "SetBufferLength"
                       THEN [event |-> m.event.event, value |-> m.event.value, length |-> m.event.length]
                       ELSE [event |-> m.event.event, value |-> m.event.value]
  /\ \A b \in Commands :
       \/ b.body \in NameCommands /\ b = [body |-> b.body, name |-> b.name]
       \/ b.body \in {"ping", "closeStream"} /\ b = [body |-> b.body]
  /\ \A b \in Openings :
       \/ b.body = "publish" /\ b = [body |-> b.body, name |-> b.name, kind |-> b.kind]
       \/ b.body = "play" /\ b = [body |-> b.body, name |-> b.name, start |-> b.start]

Dirs         == {"up", "down"}
Other(d)     == IF d = "up" THEN "down" ELSE "up"
ControlChunkStream == 2   \* ctrlMsgChunkStreamID
CommandChunkStream == 3
ChunkStreams == {ControlChunkStream, CommandChunkStream} \cup {f.cs : f \in Media}
ControlStream == 0
DataStream    == 1        \* the one CreateIfAvailable finds
StreamIDs     == {ControlStream, DataStream}

VARIABLES
  phase,     \* the client: "new", "connecting", "connected", "creating", "refused"
  stream,    \* its data stream: "none", "open", "publish" or "play"
  link,      \* link[d]: writers, the bytes and fields on the wire, the messages written
  r,         \* r[d]: the readers of its chunk streams
  inbox,     \* inbox[d]: the message Read has returned, until it is handled
  due,       \* due[d]: the message written that it should be
  called,    \* called[d]: the call that handling it came to
  loop,      \* loop[d]: "running", or why the loop that reads has ended
  peer,      \* peer[d]: what the reading end's peerState holds
  count,     \* count[d]: bytes and fields read, in all and since the last Ack
  ignored,   \* ignored[d]: messages dropped because their stream is gone
  sstate,    \* states of the server's streams
  calls      \* the calls that MaxCalls bounds

vars == <<phase, stream, link, r, inbox, due, called, loop, peer, count, ignored, sstate, calls>>
clientVars == <<phase, stream, calls>>
readVars   == <<r, inbox, due, called, loop, peer, count, ignored>>

None == [none |-> TRUE]

Init ==
  /\ phase = "new" /\ stream = "none"
  /\ link = [d \in Dirs |-> [w |-> [c \in ChunkStreams |-> NewWriter], wire |-> <<>>, under |-> <<>>]]
  /\ r = [d \in Dirs |-> [c \in ChunkStreams |-> NewReader]]
  /\ inbox = [d \in Dirs |-> None]
  /\ due = inbox /\ called = inbox
  /\ loop = [d \in Dirs |-> "running"]
  /\ peer = [d \in Dirs |-> [chunk |-> 128, window |-> MaxWindow]]
  /\ count = [d \in Dirs |-> [total |-> 0, fragment |-> 0]]
  /\ ignored = [d \in Dirs |-> 0]
  /\ sstate = [s \in StreamIDs |-> IF s = ControlStream THEN "NotConnected" ELSE "none"]
  /\ calls = 0

-----------------------------------------------------------------------------
(* Writing. *)

Call(name, ts, args) == [call |-> name, ts |-> ts, args |-> args]

\* A message with the call it is meant to come to at the other end.
Written(cs, ts, sid, msg, wants) ==
  [cs |-> cs, ts |-> ts, sid |-> sid, msg |-> msg, wants |-> wants]

\* ChunkStreamer.Write and writeChunk.
Put(l, o) ==
  LET p == Encode(o.msg)
      x == UpdateWriterHeader([l.w[o.cs] EXCEPT !.ts = o.ts, !.len = Len(p), !.new = TRUE,
                                                !.type = TypeID(o.msg), !.sid = o.sid])
      header == EncodeBasicHeader(x.fmt, o.cs) \o EncodeMessageHeader(x.fmt, x)
  IN  [w     |-> [l.w EXCEPT ![o.cs] = x],
       wire  |-> l.wire \o [i \in 1..Len(header) |-> [byte |-> header[i]]] \o p,
       under |-> Append(l.under, o)]

\* writeCommandMessage: name, transaction and body of a command.
Command(name, txn, b) == [type |-> "Command", name |-> name, txn |-> txn, body |-> ToArgs(b)]

-----------------------------------------------------------------------------
(* The client's calls. *)

Sends(o) == link' = [link EXCEPT !["up"] = Put(@, o)]

ClientMay ==
  /\ \A d \in Dirs : loop[d] = "running"
  /\ Len(link["up"].under) < MaxUnder

Connect ==
  /\ ClientMay /\ phase = "new"
  /\ phase' = "connecting"
  /\ LET b == [body |-> "connect", command |-> "app"]
     IN  Sends(Written(CommandChunkStream, 0, ControlStream, Command("connect", 1, b),
                       Call("OnConnect", 0, b)))
  /\ UNCHANGED <<stream, calls, sstate, readVars>>

\* CreateStream, with a SetChunkSize before it when size is another one than
\* its own, which the server has been told by now.
CreateStream(size) ==
  /\ ClientMay /\ phase = "connected" /\ stream = "none"
  /\ calls < MaxCalls
  /\ phase' = "creating"
  /\ calls' = calls + 1
  /\ LET b == [body |-> "createStream"]
         sized == IF size \in {0, peer["up"].chunk} THEN link["up"]
                  ELSE Put(link["up"], Written(ControlChunkStream, 0, ControlStream,
                             [type |-> "SetChunkSize", size |-> size],
                             Call("SetChunkSize", 0, size)))
     IN  link' = [link EXCEPT !["up"] =
                    Put(sized, Written(CommandChunkStream, 0, ControlStream,
                                       Command("createStream", 2, b), Call("OnCreateStream", 0, b)))]
  /\ UNCHANGED <<stream, sstate, readVars>>

DeleteStream ==
  /\ ClientMay /\ phase = "connected" /\ stream # "none"
  /\ calls < MaxCalls
  /\ calls' = calls + 1
  /\ stream' = "none"
  /\ LET b == [body |-> "deleteStream", id |-> DataStream]
     IN  Sends(Written(CommandChunkStream, 0, ControlStream, Command("deleteStream", 0, b),
                       Call("OnDeleteStream", 0, b)))
  /\ UNCHANGED <<phase, sstate, readVars>>

\* Publish, or another client's play. Its last argument may be left out.
Open(b, full) ==
  /\ ClientMay /\ stream = "open"
  /\ stream' = b.body
  /\ LET whole == Command(b.body, 0, b)
         msg   == IF full THEN whole ELSE [whole EXCEPT !.body = SubSeq(@, 1, 2)]
         meant == IF full THEN b
                  ELSE IF b.body = "publish" THEN [b EXCEPT !.kind = "live"]
                  ELSE [b EXCEPT !.start = 0]
     IN  Sends(Written(CommandChunkStream, 0, DataStream, msg,
                       Call(IF b.body = "publish" THEN "OnPublish" ELSE "OnPlay", 0,
                            [stream |-> DataStream, cmd |-> meant])))
  /\ UNCHANGED <<phase, calls, sstate, readVars>>

MediaCall == [Audio |-> "OnAudio", Video |-> "OnVideo"]
NameCall  == [releaseStream |-> "OnReleaseStream", FCPublish |-> "OnFCPublish",
              FCUnpublish |-> "OnFCUnpublish"]

Frame(kind, n) ==
  CASE kind \in {"Audio", "Video"} -> [type |-> kind, payload |-> n]
    [] OTHER -> [type |-> "Data", name |-> kind,
                 body |-> ToArgs([body |-> "@setDataFrame", data |-> n])]

\* Audio, video, @setDataFrame or data of another name, on a stream that may
\* not have been published: then the Handler gets it as unknown.
WriteMedia(cs, ts, kind) ==
  /\ ClientMay /\ stream # "none"
  /\ calls < MaxCalls
  /\ calls' = calls + 1
  /\ LET m == Frame(kind, calls)
         wants == IF kind = "onCuePoint" THEN Call("Ignored", ts, m)
                  ELSE IF stream = "publish"
                  THEN IF kind \in {"Audio", "Video"} THEN Call(MediaCall[kind], ts, m.payload)
                       ELSE Call("OnSetDataFrame", ts, m.body)
                  ELSE IF m.type = "Data" THEN Call("OnUnknownDataMessage", ts, kind)
                  ELSE Call("OnUnknownMessage", ts, m)
     IN  Sends(Written(cs, ts, DataStream, m, wants))
  /\ UNCHANGED <<phase, stream, sstate, readVars>>

\* WriteWinAckSize, WriteUserCtrl and WriteSetPeerBandwidth of a stream.
WriteControl(m) ==
  /\ ClientMay /\ stream # "none"
  /\ calls < MaxCalls
  /\ calls' = calls + 1
  /\ Sends(Written(ControlChunkStream, 0, DataStream, m,
                   IF m.type = "WinAckSize" THEN Call("SetAckWindowSize", 0, m.size)
                                            ELSE Call("OnUnknownMessage", 0, m)))
  /\ UNCHANGED <<phase, stream, sstate, readVars>>

\* Commands of other clients on the control stream.
WriteCommand(b) ==
  /\ ClientMay /\ phase \in {"connecting", "connected"}
  /\ calls < MaxCalls
  /\ calls' = calls + 1
  /\ Sends(Written(CommandChunkStream, 0, ControlStream, Command(b.body, 0, b),
               IF b.body \in DOMAIN NameCall
               THEN Call(NameCall[b.body], 0, b)
               ELSE Call("OnUnknownCommandMessage", 0, b.body)))
  /\ UNCHANGED <<phase, stream, sstate, readVars>>

-----------------------------------------------------------------------------
(* Reading. *)

\* The bytes from place i to place j; a field that is not a byte is not one of
\* a header.
AreBytes(wire, j) == Len(wire) >= j /\ \A k \in 1..j : "byte" \in DOMAIN wire[k]
Bytes(wire, i, j) == [k \in 1..(j - i + 1) |-> wire[i + k - 1].byte]

Ends(d, why) == loop' = [loop EXCEPT ![d] = why]

\* readChunk of a chunk whose basic header took n of the bytes, sendAck when
\* half the peer's window has been read, and Decode of the message.
ReadChunk(d, n) ==
  LET wire == link[d].wire
      b    == DecodeBasicHeader(Bytes(wire, 1, n))
      \* the first three bytes say whether four more follow
      m    == n + MessageHeaderLength(b.fmt, Bytes(wire, n + 1, n + 3))
      h    == DecodeMessageHeader(b.fmt, Bytes(wire, n + 1, m))
      x    == ReadHeader(r[d][b.id], h)
      size == m + x.len
      msg  == Decode(x.type, SubSeq(wire, m + 1, size))
      total    == count[d].total + size
      fragment == count[d].fragment + size
      acks == fragment >= Uint32(peer[d].window \div 2)
      ack  == [type |-> "Ack", number |-> total]
      rest == [link[d] EXCEPT !.wire = From(wire, size + 1), !.under = Tail(@)]
  IN  IF ~AreBytes(wire, m) \/ b.id \notin ChunkStreams \/ x.len = 0 \/ Len(wire) < size
      THEN Ends(d, "failed") /\ UNCHANGED <<link, r, inbox, due, count>>
      ELSE /\ r' = [r EXCEPT ![d][b.id] = [x EXCEPT !.ts = StampOf(x), !.completed = TRUE]]
           /\ link' = [link EXCEPT
                ![d] = rest,
                ![Other(d)] =
                   IF acks THEN Put(@, Written(ControlChunkStream, 0, ControlStream, ack,
                                               Call("OnUnknownMessage", 0, ack)))
                           ELSE @]
           /\ count' = [count EXCEPT ![d] = [total |-> total,
                                             fragment |-> IF acks THEN 0 ELSE fragment]]
           /\ inbox' = [inbox EXCEPT ![d] = [cs |-> b.id, ts |-> StampOf(x), sid |-> x.sid, msg |-> msg]]
           /\ due' = [due EXCEPT ![d] = Head(link[d].under)]
           /\ IF msg = Failed THEN Ends(d, "failed") ELSE UNCHANGED loop

\* ChunkStreamer.Read. A basic header that takes more bytes than it has leaves
\* the reader somewhere in what follows; nothing is modelled after that.
Read(d) ==
  /\ loop[d] = "running" /\ inbox[d] = None
  /\ link[d].wire # <<>>
  /\ \E n \in TakenForBasicHeader(link[d].wire[1].byte, Len(link[d].wire)) :
       IF n > BasicHeaderLength(link[d].wire[1].byte)
       THEN Ends(d, "lost") /\ UNCHANGED <<link, r, inbox, due, count>>
       ELSE ReadChunk(d, n)
  /\ UNCHANGED <<called, peer, ignored, sstate, clientVars>>

-----------------------------------------------------------------------------
(* Handling: Conn.handleMessage, streamHandler.Handle, the states' handlers. *)

Exists(d, sid) ==
  IF d = "up" THEN sstate[sid] # "none"
  ELSE sid = ControlStream \/ stream # "none"

\* The body of a command or of data, as streamHandler decodes it.
Body(m) ==
  CASE m.type = "Command" -> DecodeBody(m.name, m.body)
    [] m.type = "Data"    -> DecodeData(m.name, m.body)
    [] OTHER              -> [body |-> "none"]

IsReply(m) == m.type = "Command" /\ m.name \in {"_result", "_error"}

\* The message read at end d, when its loop is about to handle it.
At(d) == inbox[d] # None /\ loop[d] = "running"

\* It has been handled, by the call c.
Handled(d, c) ==
  /\ inbox' = [inbox EXCEPT ![d] = None]
  /\ called' = [called EXCEPT ![d] = c]
  /\ UNCHANGED <<r, due, count>>

\* A callback returns nil, or an error, which ends the loop.
Returns(d, ok) == IF ok THEN UNCHANGED loop ELSE Ends(d, "refused")

HandleNotExist(d) ==
  /\ At(d) /\ ~Exists(d, inbox[d].sid)
  /\ Handled(d, Call("Ignored", inbox[d].ts, inbox[d].msg))
  /\ IF IgnoreNotExist /\ ignored[d] < Threshold
     THEN ignored' = [ignored EXCEPT ![d] = @ + 1] /\ UNCHANGED loop
     ELSE Ends(d, "failed") /\ UNCHANGED ignored
  /\ UNCHANGED <<link, peer, sstate, clientVars>>

\* What SetReceivedSetChunkSize and SetReceivedAckWindowSize refuse.
TooGreatMutant(m) ==   \* mutant: one limit for both
  m.size > MaxWindow

TooGreat(m) == m.size > (IF m.type = "SetChunkSize" THEN MaxChunkSize ELSE MaxWindow)

\* SetChunkSize and WinAckSize are for peerState, whatever the stream's state.
HandleState(d) ==
  /\ At(d) /\ Exists(d, inbox[d].sid)
  /\ inbox[d].msg.type \in {"SetChunkSize", "WinAckSize"}
  /\ LET size == inbox[d].msg.size
         chunk == inbox[d].msg.type = "SetChunkSize"
     IN  /\ Handled(d, Call(IF chunk THEN "SetChunkSize" ELSE "SetAckWindowSize", inbox[d].ts, size))
         /\ IF TooGreat(inbox[d].msg)
            THEN Ends(d, "refused") /\ UNCHANGED peer
            ELSE /\ peer' = IF chunk THEN [peer EXCEPT ![d].chunk = size]
                                     ELSE [peer EXCEPT ![d].window = size]
                 /\ UNCHANGED loop
  /\ UNCHANGED <<link, ignored, sstate, clientVars>>

\* A body nobody decodes is ignored; one that cannot be read ends the loop.
HandleUnknownBody(d) ==
  /\ At(d) /\ Exists(d, inbox[d].sid)
  /\ LET m == inbox[d].msg
     IN  /\ ~IsReply(m) /\ Body(m) \in {Unknown, Unreadable}
         /\ Handled(d, Call("Ignored", inbox[d].ts, m))
         /\ IF Body(m) = Unknown THEN UNCHANGED loop ELSE Ends(d, "failed")
  /\ UNCHANGED <<link, peer, ignored, sstate, clientVars>>

\* The kinds of message and of body a handler has a case for, by state of the
\* stream; all else is passed through.
Cases(state) ==
  CASE state = "NotConnected" -> {"connect"}
    [] state = "Connected"    -> {"createStream", "deleteStream"} \cup DOMAIN NameCall
    [] state = "Inactive"     -> {"publish", "play"}
    [] state = "Publish"      -> {"Audio", "Video", "@setDataFrame"}
    [] state = "Play"         -> {}

\* What a handler's switch looks at.
CaseOf(m) == IF m.type \in {"Command", "Data"} THEN Body(m).body ELSE m.type

\* A message the server's Handler is called for by the handler of state s.
Serves(s, kinds) ==
  /\ At("up")
  /\ sstate[inbox["up"].sid] = s
  /\ ~IsReply(inbox["up"].msg)
  /\ CaseOf(inbox["up"].msg) \in kinds \cap Cases(s)

\* A call of the Handler, which may return an error.
CallHandler(name, args, ok) ==
  /\ Handled("up", Call(name, inbox["up"].ts, args))
  /\ Returns("up", ok)
  /\ UNCHANGED <<peer, ignored, clientVars>>

\* A command of the server on stream sid, on the chunk stream of the request.
Answer(sid, name, txn, b, wants) ==
  Written(inbox["up"].cs, inbox["up"].ts, sid, Command(name, txn, b), wants)

ConnectResult(ok) ==
  LET b == [body |-> "connectResult", properties |-> "fms", information |-> ok]
  IN  Answer(ControlStream, IF ok THEN "_result" ELSE "_error", 1, b,
             Call("Reply", inbox["up"].ts, b))

\* Success is announced with window, bandwidth and StreamBegin before the reply.
OnConnect(ok) ==
  /\ Serves("NotConnected", {"connect"})
  /\ CallHandler("OnConnect", Body(inbox["up"].msg), ok)
  /\ LET ts == inbox["up"].ts
         ctrl(m, call, args) ==
           Written(ControlChunkStream, ts, ControlStream, m, Call(call, ts, args))
         win   == [type |-> "WinAckSize", size |-> SelfWindow]
         bw    == [type |-> "SetPeerBandwidth", size |-> MaxWindow, limit |-> 0]
         begin == [type |-> "UserCtrl", event |-> [event |-> "StreamBegin", value |-> ControlStream]]
         l1 == Put(link["down"], ctrl(win, "SetAckWindowSize", SelfWindow))
         l2 == Put(l1, ctrl(bw, "OnUnknownMessage", bw))
         l3 == Put(l2, ctrl(begin, "OnUnknownMessage", begin))
     IN  link' = [link EXCEPT !["down"] = Put(IF ok THEN l3 ELSE @, ConnectResult(ok))]
  /\ sstate' = IF ok THEN [sstate EXCEPT ![ControlStream] = "Connected"] ELSE sstate

\* A refusal ends the connection after its reply. There is always a free stream
\* here: the client has one at a time.
OnCreateStream(ok) ==
  /\ Serves("Connected", {"createStream"})
  /\ CallHandler("OnCreateStream", Body(inbox["up"].msg), ok)
  /\ LET b == [body |-> "createStreamResult", id |-> IF ok THEN DataStream ELSE 0]
     IN  link' = [link EXCEPT !["down"] =
           Put(@, Answer(ControlStream, IF ok THEN "_result" ELSE "_error", inbox["up"].msg.txn, b,
                         Call("Reply", inbox["up"].ts, b)))]
  /\ sstate' = IF ok THEN [sstate EXCEPT ![DataStream] = "Inactive"] ELSE sstate

\* Deleting a stream that is not there is an error too.
OnDeleteStream(ok) ==
  /\ Serves("Connected", {"deleteStream"})
  /\ LET b == Body(inbox["up"].msg)
     IN  /\ CallHandler("OnDeleteStream", b, ok /\ sstate[b.id] # "none")
         /\ sstate' = IF ok THEN [sstate EXCEPT ![b.id] = "none"] ELSE sstate
  /\ UNCHANGED link

OnName(ok) ==
  /\ Serves("Connected", DOMAIN NameCall)
  /\ LET b == Body(inbox["up"].msg) IN CallHandler(NameCall[b.body], b, ok)
  /\ UNCHANGED <<link, sstate>>

\* OnPublish and OnPlay: the client is told by onStatus, and the stream's state
\* changes when the Handler has agreed.
OnOpen(ok) ==
  /\ Serves("Inactive", {"publish", "play"})
  /\ LET b == Body(inbox["up"].msg)
         sid == inbox["up"].sid
         play == b.body = "play"
         info == [body |-> "onStatus", info |-> <<b.body, ok>>]
         note == Command("onStatus", 0, info)
     IN  /\ CallHandler(IF play THEN "OnPlay" ELSE "OnPublish", [stream |-> sid, cmd |-> b], ok)
         /\ link' = [link EXCEPT !["down"] =
              Put(@, Answer(sid, "onStatus", 0, info, Call("Ignored", inbox["up"].ts, note)))]
         /\ sstate' = IF ok THEN [sstate EXCEPT ![sid] = IF play THEN "Play" ELSE "Publish"]
                            ELSE sstate

OnMedia(ok) ==
  /\ Serves("Publish", {"Audio", "Video", "@setDataFrame"})
  /\ LET m == inbox["up"].msg
     IN  IF m.type = "Data"
         THEN CallHandler("OnSetDataFrame", Body(m).payload, ok)
         ELSE CallHandler(MediaCall[m.type], m.payload, ok)
  /\ UNCHANGED <<link, sstate>>

\* ErrPassThroughMsg: the call for a message no case is for.
UnknownCall(d) ==
  LET m == inbox[d].msg
  IN  CASE m.type = "Command" -> Call("OnUnknownCommandMessage", inbox[d].ts, m.name)
        [] m.type = "Data"    -> Call("OnUnknownDataMessage", inbox[d].ts, m.name)
        [] OTHER              -> Call("OnUnknownMessage", inbox[d].ts, m)

\* At the client only the control stream has a handler, which passes all
\* through; a data stream's is nil, and calling it panics.
PassThrough(d, ok) ==
  /\ At(d) /\ Exists(d, inbox[d].sid)
  /\ LET m == inbox[d].msg
     IN  /\ ~IsReply(m) /\ m.type \notin {"SetChunkSize", "WinAckSize"}
         /\ Body(m) \notin {Unknown, Unreadable}
         /\ d = "up" => CaseOf(m) \notin Cases(sstate[inbox[d].sid])
         /\ Handled(d, UnknownCall(d))
         /\ IF d = "down" /\ inbox[d].sid # ControlStream
            THEN Ends(d, "failed")
            ELSE Returns(d, ok)
  /\ UNCHANGED <<link, peer, ignored, sstate, clientVars>>

\* A reply wakes the call whose transaction it names; without one the loop ends.
HandleReply(d) ==
  /\ At(d) /\ Exists(d, inbox[d].sid)
  /\ LET m == inbox[d].msg
         connects == m.txn = 1 /\ phase = "connecting"
         creates  == m.txn = 2 /\ phase = "creating"
         b == IF connects THEN DecodeConnectResult(m.body) ELSE DecodeCreateStreamResult(m.body)
     IN  /\ IsReply(m)
         /\ Handled(d, Call("Reply", inbox[d].ts, b))
         /\ IF d = "down" /\ inbox[d].sid = ControlStream /\ (connects \/ creates)
            THEN /\ phase' = IF connects /\ (m.name = "_error" \/ b = Unreadable)
                             THEN "refused" ELSE "connected"
                 /\ stream' = IF creates /\ m.name = "_result" /\ b # Unreadable
                              THEN "open" ELSE stream
                 /\ UNCHANGED <<loop, calls>>
            ELSE Ends(d, "failed") /\ UNCHANGED clientVars
  /\ UNCHANGED <<link, peer, ignored, sstate>>

Handle(d) ==
  HandleNotExist(d) \/ HandleState(d) \/ HandleUnknownBody(d)
    \/ HandleReply(d) \/ \E ok \in BOOLEAN : PassThrough(d, ok)

Serve(ok) ==
  OnConnect(ok) \/ OnCreateStream(ok) \/ OnDeleteStream(ok) \/ OnName(ok)
    \/ OnOpen(ok) \/ OnMedia(ok)

Next ==
  \/ Connect \/ DeleteStream
  \/ \E size \in Sizes \cup {0} : CreateStream(size)
  \/ \E b \in Openings, full \in BOOLEAN : Open(b, full)
  \/ \E f \in Media : WriteMedia(f.cs, f.ts, f.kind)
  \/ \E m \in Controls : WriteControl(m)
  \/ \E b \in Commands : WriteCommand(b)
  \/ \E d \in Dirs : Read(d) \/ Handle(d)
  \/ \E ok \in BOOLEAN : Serve(ok)

Spec == Init /\ [][Next]_vars

-----------------------------------------------------------------------------
\* Types of both ends' tables and of what is between them (Conn, Stream,
\* streamHandler, ChunkStreamer).
TypeOK ==
  /\ phase \in {"new", "connecting", "connected", "creating", "refused"}
  /\ stream \in {"none", "open", "publish", "play"}
  /\ sstate[ControlStream] \in {"NotConnected", "Connected"}
  /\ sstate[DataStream] \in {"none", "Inactive", "Publish", "Play"}
  /\ \A d \in Dirs :
       /\ loop[d] \in {"running", "refused", "lost", "failed"}
       /\ ignored[d] \in 0..Threshold
       /\ count[d].fragment \in 0..count[d].total
       /\ peer[d].chunk > 0 /\ peer[d].chunk <= MaxChunkSize /\ peer[d].window <= MaxWindow
       /\ \A c \in ChunkStreams : r[d][c].ts \in 0..(StampModulus - 1)

\* What Read returns is what Write was given, with its chunk stream, timestamp
\* and message stream, whatever was sent before on this and other chunk streams:
\* headers, compression and message codec undo each other (ChunkStreamer.Read).
ReadAsWritten ==
  \A d \in Dirs : inbox[d] # None =>
    inbox[d] = [cs |-> due[d].cs, ts |-> due[d].ts, sid |-> due[d].sid, msg |-> due[d].msg]

\* The Handler is called for what the client called, with its arguments: no
\* message is dispatched by a stream state that is not the one it was sent in.
CalledAsAsked ==
  \A d \in Dirs : inbox[d] = None /\ due[d] # None /\ loop[d] # "failed" =>
    called[d] = due[d].wants

\* No loop ends but by an error of a Handler, a limit, or a basic header of
\* three bytes (handleMessageLoop).
LoopsSurvive == \A d \in Dirs : loop[d] # "failed"
=============================================================================
