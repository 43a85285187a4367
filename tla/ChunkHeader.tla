---------------------------- MODULE ChunkHeader ----------------------------
(***************************************************************************)
(* The headers of chunks (chunk_header.go) byte by byte, and what the two   *)
(* ends of a chunk stream remember of them (updateWriterHeader and          *)
(* readChunk of chunk_streamer.go). A chunk carries in one of four formats  *)
(* what differs from the chunk before it. Pure operators.                   *)
(***************************************************************************)
EXTENDS Integers, Sequences

CONSTANT StampModulus   \* 2^32

ASSUME StampAssumption == StampModulus \in Nat \ {0}

-----------------------------------------------------------------------------
(* Bytes on the wire. *)

BE3(n) == <<(n \div 65536) % 256, (n \div 256) % 256, n % 256>>
BE4(n) == <<(n \div 16777216) % 256, (n \div 65536) % 256, (n \div 256) % 256, n % 256>>
LE4(n) == <<n % 256, (n \div 256) % 256, (n \div 65536) % 256, (n \div 16777216) % 256>>

FromBE3(b) == b[1] * 65536 + b[2] * 256 + b[3]
FromBE4(b) == b[1] * 16777216 + b[2] * 65536 + b[3] * 256 + b[4]
FromLE4(b) == b[4] * 16777216 + b[3] * 65536 + b[2] * 256 + b[1]

InFourBytes(n) == n \div 16777216 < 256

LastChunkStream == 65599

\* The basic header of chunk stream id; none when the ID is out of range.
EncodeBasicHeader(fmt, id) ==
  CASE id \in 2..63      -> <<fmt * 64 + id>>
    [] id \in 64..319    -> <<fmt * 64, id - 64>>
    [] id \in 320..LastChunkStream -> <<fmt * 64 + 1, (id - 64) % 256, (id - 64) \div 256>>
    [] OTHER             -> <<>>

\* How many bytes the basic header beginning with byte b has.
BasicHeaderLength(b) == CASE b % 64 = 0 -> 2 [] b % 64 = 1 -> 3 [] OTHER -> 1

\* How many of the bytes that are there the reader takes for it: of the three
\* byte form, all that fit into the streamer's whole cache buffer (64 KB).
TakenForBasicHeader(b, there) ==
  IF BasicHeaderLength(b) = 3 THEN 3..there ELSE {BasicHeaderLength(b)}

DecodeBasicHeader(b) ==
  [fmt |-> b[1] \div 64,
   id  |-> CASE b[1] % 64 = 0 -> b[2] + 64
             [] b[1] % 64 = 1 -> b[3] * 256 + b[2] + 64
             [] OTHER         -> b[1] % 64]

Escape == FromBE3(<<255, 255, 255>>)   \* the 32 bits follow at the end

Stamp(t)    == BE3(IF t >= Escape THEN Escape ELSE t)
Extended(t) == IF t >= Escape THEN BE4(t) ELSE <<>>

\* The message header of message header h; 24 bits of its length are sent.
EncodeMessageHeader(fmt, h) ==
  CASE fmt = 0 -> Stamp(h.hts) \o BE3(h.hlen) \o <<h.htype>> \o LE4(h.hsid) \o Extended(h.hts)
    [] fmt = 1 -> Stamp(h.hdelta) \o BE3(h.hlen) \o <<h.htype>> \o Extended(h.hdelta)
    [] fmt = 2 -> Stamp(h.hdelta) \o Extended(h.hdelta)
    [] fmt = 3 -> <<>>

ShortLength(fmt) == CASE fmt = 0 -> 11 [] fmt = 1 -> 7 [] fmt = 2 -> 3 [] fmt = 3 -> 0

IsExtended(fmt, b) == fmt < 3 /\ FromBE3(b) = Escape

MessageHeaderLength(fmt, b) == ShortLength(fmt) + IF IsExtended(fmt, b) THEN 4 ELSE 0

\* What is not sent stays zero. Formats 1 and 2 carry a delta.
DecodeMessageHeader(fmt, b) ==
  LET short == ShortLength(fmt)
      stamp == CASE fmt = 3           -> 0
                 [] IsExtended(fmt, b) -> FromBE4(SubSeq(b, short + 1, short + 4))
                 [] OTHER              -> FromBE3(b)
  IN  [fmt   |-> fmt,
       ts    |-> IF fmt = 0 THEN stamp ELSE 0,
       delta |-> IF fmt = 0 THEN 0 ELSE stamp,
       len   |-> IF fmt < 2 THEN FromBE3(SubSeq(b, 4, 6)) ELSE 0,
       type  |-> IF fmt < 2 THEN b[7] ELSE 0,
       sid   |-> IF fmt = 0 THEN FromLE4(SubSeq(b, 8, 11)) ELSE 0]

-----------------------------------------------------------------------------
(* What both ends remember. *)

\* A writer that prepareChunkWriter just made: header fields are zero but the
\* timestamp, which is the greatest one.
NewWriter ==
  [ts |-> 0, delta |-> 0, len |-> 0, type |-> 0, sid |-> 0, new |-> TRUE, fmt |-> 0,
   hts |-> StampModulus - 1, hdelta |-> 0, hlen |-> 0, htype |-> 0, hsid |-> 0, rest |-> 0]

NewReader ==
  [ts |-> 0, delta |-> 0, len |-> 0, type |-> 0, sid |-> 0, have |-> 0, completed |-> FALSE]

\* Which header the next chunk of writer x needs, and the header it leaves.
\* A repeated delta is left out (fmt 3) only when all else is the same.
UpdateWriterHeader(x) ==
  LET stamp == x.ts # x.hts \/ x.new
      back  == stamp /\ x.ts < x.hts
      delta == CASE ~stamp -> x.delta
                 [] back   -> 0
                 [] OTHER  -> x.ts - x.hts
      fmt   == IF x.sid # x.hsid \/ back THEN 0
               ELSE IF x.len # x.hlen \/ x.type # x.htype THEN 1
               ELSE IF delta # x.hdelta THEN 2 ELSE 3
  IN  [x EXCEPT !.fmt = fmt, !.new = FALSE, !.delta = delta, !.hdelta = delta,
                !.hts = x.ts, !.hlen = x.len, !.htype = x.type, !.hsid = x.sid]

\* A reader starts over after a message that is complete.
Started(x) == IF x.completed THEN [x EXCEPT !.have = 0, !.completed = FALSE] ELSE x

\* What the reader of a chunk stream knows after the header of chunk c.
ReadHeaderMutant(x, c) ==   \* mutant: fmt 0 leaves the delta
  CASE c.fmt = 0 -> [Started(x) EXCEPT !.ts = c.ts, !.len = c.len, !.type = c.type,
                                       !.sid = c.sid]
    [] c.fmt = 1 -> [Started(x) EXCEPT !.delta = c.delta, !.len = c.len, !.type = c.type]
    [] c.fmt = 2 -> [Started(x) EXCEPT !.delta = c.delta]
    [] c.fmt = 3 -> Started(x)

ReadHeader(x, c) ==
  CASE c.fmt = 0 -> [Started(x) EXCEPT !.ts = c.ts, !.delta = 0, !.len = c.len,
                                       !.type = c.type, !.sid = c.sid]
    [] c.fmt = 1 -> [Started(x) EXCEPT !.delta = c.delta, !.len = c.len, !.type = c.type]
    [] c.fmt = 2 -> [Started(x) EXCEPT !.delta = c.delta]
    [] c.fmt = 3 -> Started(x)

\* The timestamp of a message that is complete.
StampOf(x) == (x.ts + x.delta) % StampModulus

=============================================================================
