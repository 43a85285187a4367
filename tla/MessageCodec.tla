---------------------------- MODULE MessageCodec ----------------------------
(***************************************************************************)
(* Messages and their payloads (package message): the encoder, the decoder, *)
(* user control events, and the bodies of commands and data (ToArgs,        *)
(* EncodeBodyAnyValues and the body decoders with their FromArgs). Pure     *)
(* operators.                                                               *)
(*                                                                         *)
(* A payload is the sequence of its fields; a field is a record whose one   *)
(* name says its kind: u8, u16, u32 for integers of 1, 2, 4 bytes, string,  *)
(* number, null, object for AMF values (whose bytes an external library     *)
(* makes), raw for audio and video. Lengths count fields.                   *)
(***************************************************************************)
EXTENDS Integers, Sequences

CONSTANT Word   \* 2^32

ASSUME WordAssumption == Word \in Nat /\ Word > 1 /\ Word % 2 = 0

-----------------------------------------------------------------------------
(* Fields. *)

U8(n)      == [u8 |-> n]
U16(n)     == [u16 |-> n]
U32(n)     == [u32 |-> n]
String(s)  == [string |-> s]
Number(n)  == [number |-> n]
Object(o)  == [object |-> o]
Raw(p)     == [raw |-> p]
Null       == [null |-> "null"]

\* p begins with fields of these kinds: what a decoder that wants them finds.
Begins(p, kinds) ==
  /\ Len(p) >= Len(kinds)
  /\ \A i \in 1..Len(kinds) : kinds[i] \in DOMAIN p[i]

From(p, i) == SubSeq(p, i, Len(p))

\* uint32(size) and int32(u).
Uint32(n) == IF n < 0 THEN n + Word ELSE n
Int32(u)  == IF u >= Word \div 2 THEN u - Word ELSE u

Failed == [type |-> "failed"]   \* an error, or a panic of the calling goroutine

-----------------------------------------------------------------------------
(* User control events. *)

EventID ==
  [StreamBegin |-> 0, StreamEOF |-> 1, StreamDry |-> 2, SetBufferLength |-> 3,
   StreamIsRecorded |-> 4, PingRequest |-> 6, PingResponse |-> 7]

EncodeEvent(e) ==
  <<U16(EventID[e.event]), U32(e.value)>>
    \o (IF e.event = "SetBufferLength" THEN <<U32(e.length)>> ELSE <<>>)

DecodeEvent(p) ==
  IF \E event \in DOMAIN EventID : Begins(p, <<"u16", "u32">>) /\ p[1].u16 = EventID[event]
  THEN LET event == CHOOSE x \in DOMAIN EventID : p[1].u16 = EventID[x]
       IN  IF event # "SetBufferLength"
           THEN [type |-> "UserCtrl", event |-> [event |-> event, value |-> p[2].u32]]
           ELSE IF Begins(p, <<"u16", "u32", "u32">>)
                THEN [type |-> "UserCtrl", event |->
                       [event |-> event, value |-> p[2].u32, length |-> p[3].u32]]
                ELSE Failed
  ELSE Failed

-----------------------------------------------------------------------------
(* Messages. *)

TypeIDs ==
  [SetChunkSize |-> 1, AbortMessage |-> 2, Ack |-> 3, UserCtrl |-> 4, WinAckSize |-> 5,
   SetPeerBandwidth |-> 6, Audio |-> 8, Video |-> 9, Data |-> 18, Command |-> 20]

TypeID(m) == TypeIDs[m.type]

\* What the encoder refuses of these types. It also refuses shared objects and
\* aggregates, and AMF3 panics; none of them has an encoding.
Accepted(m) == m.type = "SetChunkSize" => m.size \in 1..(Word \div 2 - 1)

Encode(m) ==
  CASE m.type = "SetChunkSize"     -> <<U32(m.size)>>
    [] m.type = "AbortMessage"     -> <<U32(m.id)>>
    [] m.type = "Ack"              -> <<U32(m.number)>>
    [] m.type = "UserCtrl"         -> EncodeEvent(m.event)
    [] m.type = "WinAckSize"       -> <<U32(Uint32(m.size))>>
    [] m.type = "SetPeerBandwidth" -> <<U32(Uint32(m.size)), U8(m.limit)>>
    [] m.type \in {"Audio", "Video"} -> <<Raw(m.payload)>>
    [] m.type = "Data"             -> <<String(m.name)>> \o m.body
    [] m.type = "Command"          -> <<String(m.name), Number(m.txn)>> \o m.body

\* Shared objects, aggregates and AMF3 are not implemented, and another type ID
\* is an error as well. Fields after those a type needs are left unread.
Decode(id, p) ==
  CASE id = 1 /\ Begins(p, <<"u32">>) /\ p[1].u32 \in 1..(Word \div 2 - 1) ->
         [type |-> "SetChunkSize", size |-> p[1].u32]
    [] id = 2 /\ Begins(p, <<"u32">>) -> [type |-> "AbortMessage", id |-> p[1].u32]
    [] id = 3 /\ Begins(p, <<"u32">>) -> [type |-> "Ack", number |-> p[1].u32]
    [] id = 4 -> DecodeEvent(p)
    [] id = 5 /\ Begins(p, <<"u32">>) -> [type |-> "WinAckSize", size |-> Int32(p[1].u32)]
    [] id = 6 /\ Begins(p, <<"u32", "u8">>) ->
         [type |-> "SetPeerBandwidth", size |-> Int32(p[1].u32), limit |-> p[2].u8]
    [] id = 8 /\ Begins(p, <<"raw">>) -> [type |-> "Audio", payload |-> p[1].raw]
    [] id = 9 /\ Begins(p, <<"raw">>) -> [type |-> "Video", payload |-> p[1].raw]
    [] id = 18 /\ Begins(p, <<"string">>) ->
         [type |-> "Data", name |-> p[1].string, body |-> From(p, 2)]
    [] id = 20 /\ Begins(p, <<"string", "number">>) ->
         [type |-> "Command", name |-> p[1].string, txn |-> p[2].number, body |-> From(p, 3)]
    [] OTHER -> Failed

-----------------------------------------------------------------------------
(* Bodies of commands and data. *)

NameCommands == {"releaseStream", "FCPublish", "FCUnpublish", "getStreamLength"}
NullCommands == {"createStream", "ping", "closeStream"}

\* ToArgs, and EncodeBodyAnyValues of what it returns. NetStreamPlay's panics:
\* what stands here for it is what other clients send.
ToArgs(b) ==
  CASE b.body = "connect"       -> <<Object(b.command)>>
    [] b.body = "connectResult" -> <<Object(b.properties), Object(b.information)>>
    [] b.body \in NullCommands  -> <<Null>>
    [] b.body \in NameCommands  -> <<Null, String(b.name)>>
    [] b.body \in {"createStreamResult", "deleteStream"} -> <<Null, Number(b.id)>>
    [] b.body = "publish"       -> <<Null, String(b.name), String(b.kind)>>
    [] b.body = "play"          -> <<Null, String(b.name), Number(b.start)>>
    [] b.body = "onStatus"      -> <<Null, Object(b.info)>>
    [] b.body = "@setDataFrame" -> <<String("onMetaData"), Object(b.data)>>

Unknown    == [body |-> "unknown"]   \* UnknownCommandBodyDecodeError, Unknown...Data...
Unreadable == [body |-> "unreadable"]

\* The third argument of publish and play may be left out.
Optional(p, kind) == Len(p) = 2 \/ Begins(From(p, 3), <<kind>>)

DecodePublishMutant(p) ==   \* mutant: a kind left out is read as the name again
  IF Len(p) >= 2 /\ Begins(From(p, 2), <<"string">>) /\ Optional(p, "string")
  THEN [body |-> "publish", name |-> p[2].string, kind |-> p[Len(p)].string]
  ELSE Unreadable

DecodePublish(p) ==
  IF Len(p) >= 2 /\ Begins(From(p, 2), <<"string">>) /\ Optional(p, "string")
  THEN [body |-> "publish", name |-> p[2].string,
        kind |-> IF Len(p) = 2 THEN "live" ELSE p[3].string]
  ELSE Unreadable

DecodePlay(p) ==
  IF Len(p) >= 2 /\ Begins(From(p, 2), <<"string">>) /\ Optional(p, "number")
  THEN [body |-> "play", name |-> p[2].string,
        start |-> IF Len(p) = 2 THEN 0 ELSE p[3].number]
  ELSE Unreadable

\* CmdBodyDecoderFor and the decoder it finds. The first argument may be
\* anything, but for connect it is the command object.
DecodeBodyMutant(name, p) ==   \* mutant: onStatus is decoded, like deleteStream
  CASE name = "connect" ->
         IF Begins(p, <<"object">>) THEN [body |-> name, command |-> p[1].object] ELSE Unreadable
    [] name \in NullCommands ->
         IF p # <<>> THEN [body |-> name] ELSE Unreadable
    [] name \in NameCommands ->
         IF Len(p) >= 2 /\ Begins(From(p, 2), <<"string">>)
         THEN [body |-> name, name |-> p[2].string] ELSE Unreadable
    [] name = "deleteStream" ->
         IF Len(p) >= 2 /\ Begins(From(p, 2), <<"number">>)
         THEN [body |-> name, id |-> p[2].number] ELSE Unreadable
    [] name = "onStatus" /\ Len(p) >= 2 -> [body |-> name, info |-> p[2].object]
    [] name = "publish" -> DecodePublish(p)
    [] name = "play"    -> DecodePlay(p)
    [] OTHER -> Unknown

DecodeBody(name, p) ==
  CASE name = "connect" ->
         IF Begins(p, <<"object">>) THEN [body |-> name, command |-> p[1].object] ELSE Unreadable
    [] name \in NullCommands ->
         IF p # <<>> THEN [body |-> name] ELSE Unreadable
    [] name \in NameCommands ->
         IF Len(p) >= 2 /\ Begins(From(p, 2), <<"string">>)
         THEN [body |-> name, name |-> p[2].string] ELSE Unreadable
    [] name = "deleteStream" ->
         IF Len(p) >= 2 /\ Begins(From(p, 2), <<"number">>)
         THEN [body |-> name, id |-> p[2].number] ELSE Unreadable
    [] name = "publish" -> DecodePublish(p)
    [] name = "play"    -> DecodePlay(p)
    [] OTHER -> Unknown

\* DataBodyDecoderFor: the frame is taken as it is, AMF undecoded.
DecodeData(name, p) == IF name = "@setDataFrame" THEN [body |-> name, payload |-> p] ELSE Unknown

\* What the caller of Connect and of CreateStream makes of the reply's body.
DecodeConnectResult(p) ==
  IF Begins(p, <<"object", "object">>)
  THEN [body |-> "connectResult", properties |-> p[1].object, information |-> p[2].object]
  ELSE Unreadable

DecodeCreateStreamResult(p) ==
  IF Len(p) >= 2 /\ Begins(From(p, 2), <<"number">>)
  THEN [body |-> "createStreamResult", id |-> p[2].number]
  ELSE Unreadable
=============================================================================
