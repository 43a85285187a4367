-------------------------- MODULE ChunkCodecProofs --------------------------
(***************************************************************************)
(* Proofs about the chunk codec, for any chunk streams, messages and sizes. *)
(* What is on the wire is covered by reading ahead: Leads says which        *)
(* reading end there will be when all of it has been read, and Abreast how  *)
(* that end and the writing end then know the same.                         *)
(***************************************************************************)
EXTENDS ChunkCodec, FiniteSetTheorems, SequenceTheorems, TLAPS

(* What is written on a chunk stream. *)

\* The messages of chunk stream id.
MessagesOf(id) ==
  IF id = Control
  THEN {Message(0, ControlLength, 0, size) : size \in Sizes}
  ELSE {Message(ts, len, sid, 0) : ts \in Timestamps, len \in Lengths, sid \in StreamIDs}

\* The messages of s are of one message stream, if there are any.
AllAlike(s) == Len(s) > 0 => Alike(s, Len(s))

Queued(id) == ~Free(id)

-----------------------------------------------------------------------------
(* The reading end reads ahead. *)

\* What a reader that has read the header of chunk c knows when it has read
\* the chunk, and whether its message is complete.
Ends(x, c) == x.have + c.n = x.len

Reads(x, c) ==
  IF Ends(x, c) THEN [x EXCEPT !.have = @ + c.n, !.ts = StampOf(x), !.completed = TRUE]
                ELSE [x EXCEPT !.have = @ + c.n]

\* The reading end: its readers, its chunk size, and how many messages it has read.
Now == [r |-> r, size |-> peerSize, n |-> [id \in All |-> Len(got[id])]]

\* The size that reading end e is told next when ss are the messages sent.
Told(ss, e) == Clamp(ss[Control][e.n[Control] + 1].size)

\* Reading end e after chunk c.
After(ss, e, c) ==
  LET x == ReadHeader(e.r[c.id], c)
  IN  [r    |-> [e.r EXCEPT ![c.id] = Reads(x, c)],
       size |-> IF Ends(x, c) /\ c.id = Control THEN Told(ss, e) ELSE e.size,
       n    |-> IF Ends(x, c) THEN [e.n EXCEPT ![c.id] = @ + 1] ELSE e.n]

\* x, which has read the header of a chunk, belongs to the k-th message of s.
Tells(s, k, x) ==
  x.len = s[k].len /\ x.sid = s[k].sid /\ (Alike(s, k) => StampOf(x) = s[k].ts)

\* Chunk c is the one that reading end e expects; q says whether a chunk has
\* been cut ahead of its announcement.
Fits(q, ss, e, c) ==
  LET x == ReadHeader(e.r[c.id], c)
      k == e.n[c.id] + 1
  IN  /\ c.n \in Nat
      /\ ~q => c.n = ChunkLength(x.len - x.have, e.size)
      /\ x.have < x.len \/ 0 \in Lengths
      /\ k <= Len(ss[c.id])
      /\ Tells(ss[c.id], k, x)

-----------------------------------------------------------------------------
(* Both ends, when all that is on the wire has been read. *)

\* The last header is known to both.
SameHeader(x, y) == y.len = x.hlen /\ y.type = x.htype /\ y.sid = x.hsid

\* The message that writer x is writing has been begun: its header is out.
Begun(x) ==
  /\ x.rest < x.len
  /\ x.hlen = x.len /\ x.htype = x.type /\ x.hsid = x.sid
  /\ x.hts = x.ts /\ x.hdelta = x.delta

\* Writer x, while its message ends sequence s, and reader y after n messages.
Writing(x, y, s, n) ==
  /\ Started(y).have = x.len - x.rest
  /\ x.rest > 0 \/ x.len = 0
  /\ n + 1 = Len(s)
  /\ s[Len(s)].len = x.len /\ s[Len(s)].sid = x.sid /\ s[Len(s)].ts = x.ts
  /\ IF x.new THEN x.rest = x.len ELSE Begun(x)

Resting(y, s, n) == Started(y).have = 0 /\ n = Len(s)

\* Timestamps: between messages both know the last of the n there were.
SameStamp(x, y, s, n) ==
  IF n = 0
  THEN y.ts = 0 /\ x.hts = StampModulus - 1 /\ x.hsid = 0 /\ x.hdelta = 0
  ELSE y.ts = x.hts /\ x.hsid = s[1].sid

SameClock(id, x, y, s, n) ==
  /\ y.delta = x.hdelta
  /\ IF Queued(id) /\ ~x.new THEN StampOf(y) = x.ts ELSE SameStamp(x, y, s, n)

Level(id, y, n) ==
  /\ SameHeader(w[id], y)
  /\ Queued(id) => Writing(w[id], y, sent[id], n)
  /\ Free(id) => Resting(y, sent[id], n)
  /\ AllAlike(sent[id]) => SameClock(id, w[id], y, sent[id], n)

\* What the peer is or will be told is the size of the chunks, but for calls
\* that have not announced theirs, and for two at once.
LastSize == IF Queued(Control) THEN sent[Control][Len(sent[Control])].size ELSE told

Announced ==
  \/ crossed
  \/ pending = {selfSize}
  \/ pending = {} /\ Clamp(selfSize) = Clamp(LastSize)

Abreast(e) ==
  /\ \A id \in All : Level(id, e.r[id], e.n[id])
  /\ e.size = told

-----------------------------------------------------------------------------
(* Types. *)

Clock == 0 .. (StampModulus - 1)

Writers ==
  [ts : Clock, delta : Int, len : Nat, type : Nat, sid : Nat, new : BOOLEAN, fmt : 0..3,
   hts : Clock, hdelta : Int, hlen : Nat, htype : Nat, hsid : Nat, rest : Nat]

Readers ==
  [ts : Clock, delta : Int, len : Nat, type : Nat, sid : Nat, have : Nat, completed : BOOLEAN]

Chunks ==
  [id : All, fmt : 0..3, ts : Clock, delta : Int, len : Nat, type : Nat, sid : Nat, n : Nat]

ReadingEnds == [r : [All -> Readers], size : AllSizes, n : [All -> Nat]]

ReadMessages == [ts : Clock, len : Nat, sid : Nat, size : Nat]

Distinct(q) == \A i, j \in 1 .. Len(q) : q[i] = q[j] => i = j

Shape ==
  /\ w \in [All -> Writers] /\ r \in [All -> Readers]
  /\ queue \in Seq(All) /\ Distinct(queue)
  /\ wire \in Seq(Chunks)
  /\ selfSize \in AllSizes /\ peerSize \in AllSizes /\ told \in AllSizes
  /\ pending \subseteq Sizes /\ crossed \in BOOLEAN /\ ahead \in BOOLEAN
  /\ broken \in {"no", "refused", "invalid state", "out of step"}
  /\ sent \in [All -> Seq(Messages)] /\ \A id \in All : sent[id] \in Seq(MessagesOf(id))
  /\ got \in [All -> Seq(ReadMessages)]
  /\ \A id \in All : w[id].rest <= w[id].len /\ r[id].have <= r[id].len
  /\ \A id \in All : Queued(id) => sent[id] # <<>>

-----------------------------------------------------------------------------
(* Reading ahead. *)

\* Reading end e becomes f with chunk c, the one it expects.
Step(q, ss, e, c, f) == Fits(q, ss, e, c) /\ f = After(ss, e, c)

\* Reading end e becomes f with the chunks cs.
Leads(q, ss, e, cs, f) ==
  \E T \in [0 .. Len(cs) -> ReadingEnds] :
    /\ T[0] = e /\ T[Len(cs)] = f
    /\ \A i \in 1 .. Len(cs) : Step(q, ss, T[i - 1], cs[i], T[i])

ReadsAhead ==
  broken = "no" =>
    /\ Announced
    /\ \E e \in ReadingEnds : Leads(ahead, sent, Now, wire, e) /\ Abreast(e)

\* Why the reading end may have failed.
Failed ==
  /\ ~ahead => broken # "out of step"
  /\ 0 \notin Lengths => broken # "invalid state"

IInv == Shape /\ ReadsAhead /\ Failed

\* With nothing on the wire a reading end stays what it is.
LEMMA LeadsNowhere ==
  ASSUME NEW e \in ReadingEnds, NEW q, NEW ss
  PROVE  Leads(q, ss, e, <<>>, e)
<1> DEFINE T == [i \in 0 .. 0 |-> e]
<1>1. T \in [0 .. Len(<<>>) -> ReadingEnds] /\ T[0] = e /\ T[Len(<<>>)] = e
  OBVIOUS
<1>2. \A i \in 1 .. Len(<<>>) : Step(q, ss, T[i - 1], <<>>[i], T[i])
  OBVIOUS
<1> QED BY <1>1, <1>2 DEF Leads

\* One more chunk at the end of the wire.
LEMMA LeadsOn ==
  ASSUME NEW cs \in Seq(Chunks), NEW c \in Chunks, NEW g \in ReadingEnds,
         NEW q, NEW ss, NEW e, NEW f, Leads(q, ss, e, cs, f), Step(q, ss, f, c, g)
  PROVE  Leads(q, ss, e, Append(cs, c), g)
<1> PICK T \in [0 .. Len(cs) -> ReadingEnds] :
           /\ T[0] = e /\ T[Len(cs)] = f
           /\ \A i \in 1 .. Len(cs) : Step(q, ss, T[i - 1], cs[i], T[i])
  BY DEF Leads
<1> DEFINE cc == Append(cs, c)
           U  == [i \in 0 .. Len(cc) |-> IF i <= Len(cs) THEN T[i] ELSE g]
<1>1. /\ Len(cs) \in Nat /\ Len(cc) = Len(cs) + 1 /\ cc[Len(cc)] = c
      /\ \A i \in 1 .. Len(cs) : cc[i] = cs[i]
  OBVIOUS
<1> HIDE DEF cc
<1>2. U \in [0 .. Len(cc) -> ReadingEnds] /\ U[0] = e /\ U[Len(cc)] = g
  BY <1>1
<1>3. ASSUME NEW i \in 1 .. Len(cc) PROVE Step(q, ss, U[i - 1], cc[i], U[i])
  <2>1. CASE i <= Len(cs)
    <3>1. U[i - 1] = T[i - 1] /\ U[i] = T[i] /\ cc[i] = cs[i] /\ i \in 1 .. Len(cs)
      BY <1>1, <2>1
    <3> QED BY <3>1
  <2>2. CASE i = Len(cc)
    <3>1. U[i - 1] = f /\ U[i] = g /\ cc[i] = c
      BY <1>1, <2>2
    <3> QED BY <3>1
  <2> QED BY <1>1, <2>1, <2>2
<1> HIDE DEF U
<1>4. Leads(q, ss, e, cc, g)
  BY <1>2, <1>3 DEF Leads
<1> QED BY <1>4 DEF cc

\* The chunk at the head of the wire is read.
LEMMA LeadsOff ==
  ASSUME NEW cs \in Seq(Chunks), cs # <<>>, NEW q, NEW ss, NEW e, NEW g, Leads(q, ss, e, cs, g)
  PROVE  \E f \in ReadingEnds : Step(q, ss, e, Head(cs), f) /\ Leads(q, ss, f, Tail(cs), g)
<1> PICK T \in [0 .. Len(cs) -> ReadingEnds] :
           /\ T[0] = e /\ T[Len(cs)] = g
           /\ \A i \in 1 .. Len(cs) : Step(q, ss, T[i - 1], cs[i], T[i])
  BY DEF Leads
<1> DEFINE ct == Tail(cs)
           U  == [i \in 0 .. Len(ct) |-> T[i + 1]]
<1>1. /\ Len(cs) \in Nat \ {0} /\ Len(ct) = Len(cs) - 1 /\ Head(cs) = cs[1]
      /\ \A i \in 1 .. Len(ct) : ct[i] = cs[i + 1]
  OBVIOUS
<1> HIDE DEF ct
<1>2. /\ U \in [0 .. Len(ct) -> ReadingEnds] /\ U[0] = T[1] /\ U[Len(ct)] = g
      /\ T[1] \in ReadingEnds
  <2>1. \A i \in 0 .. Len(ct) : i + 1 \in 0 .. Len(cs)
    BY <1>1
  <2>2. 0 \in 0 .. Len(ct) /\ Len(ct) \in 0 .. Len(ct) /\ 0 + 1 = 1 /\ Len(ct) + 1 = Len(cs)
    BY <1>1
  <2> QED BY <2>1, <2>2
<1>3. ASSUME NEW i \in 1 .. Len(ct) PROVE Step(q, ss, U[i - 1], ct[i], U[i])
  <2>1. /\ U[i - 1] = T[i] /\ U[i] = T[i + 1] /\ ct[i] = cs[i + 1] /\ i + 1 \in 1 .. Len(cs)
        /\ (i + 1) - 1 = i
    BY <1>1
  <2> QED BY <2>1
<1>4. Step(q, ss, e, Head(cs), T[1])
  <2>1. 1 \in 1 .. Len(cs) /\ 1 - 1 = 0
    BY <1>1
  <2> QED BY <2>1, <1>1
<1> HIDE DEF U
<1>5. Leads(q, ss, T[1], ct, g)
  BY <1>2, <1>3 DEF Leads
<1> QED BY <1>2, <1>4, <1>5 DEF ct

\* What is expected stays so when what is sent grows, and when less is expected.
LEMMA LeadsMore ==
  ASSUME NEW cs \in Seq(Chunks), NEW q, NEW ss, NEW p, NEW tt, NEW e, NEW g, Leads(q, ss, e, cs, g),
         \A a \in ReadingEnds, c \in Chunks, b \in ReadingEnds :
           Step(q, ss, a, c, b) => Step(p, tt, a, c, b)
  PROVE  Leads(p, tt, e, cs, g)
<1> PICK T \in [0 .. Len(cs) -> ReadingEnds] :
           /\ T[0] = e /\ T[Len(cs)] = g
           /\ \A i \in 1 .. Len(cs) : Step(q, ss, T[i - 1], cs[i], T[i])
  BY DEF Leads
<1>1. ASSUME NEW i \in 1 .. Len(cs) PROVE Step(p, tt, T[i - 1], cs[i], T[i])
  <2>1. T[i - 1] \in ReadingEnds /\ T[i] \in ReadingEnds /\ cs[i] \in Chunks
    OBVIOUS
  <2> QED BY <2>1
<1> QED BY <1>1 DEF Leads

-----------------------------------------------------------------------------
(* Headers. *)

\* What the next header of writer x says, field by field.
LEMMA NextHeader ==
  ASSUME NEW x \in Writers
  PROVE  LET u == UpdateWriterHeader(x)
         IN  /\ u \in Writers /\ u.new = FALSE
             /\ u.ts = x.ts /\ u.len = x.len /\ u.type = x.type /\ u.sid = x.sid /\ u.rest = x.rest
             /\ u.hts = x.ts /\ u.hlen = x.len /\ u.htype = x.type /\ u.hsid = x.sid
             /\ u.delta = u.hdelta
<1> DEFINE stamp == x.ts # x.hts \/ x.new
           back  == stamp /\ x.ts < x.hts
           delta == CASE ~stamp -> x.delta
                      [] back   -> 0
                      [] OTHER  -> x.ts - x.hts
           fmt   == IF x.sid # x.hsid \/ back THEN 0
                    ELSE IF x.len # x.hlen \/ x.type # x.htype THEN 1
                    ELSE IF delta # x.hdelta THEN 2 ELSE 3
<1>1. UpdateWriterHeader(x) =
        [x EXCEPT !.fmt = fmt, !.new = FALSE, !.delta = delta, !.hdelta = delta,
                  !.hts = x.ts, !.hlen = x.len, !.htype = x.type, !.hsid = x.sid]
  BY DEF UpdateWriterHeader
<1>2. delta \in Int
  BY DEF Writers, Clock
<1>3. fmt \in 0..3
  OBVIOUS
<1> DEFINE u == UpdateWriterHeader(x)
<1> HIDE DEF stamp, back, delta, fmt
<1>4. u \in Writers
  <2>1. x.ts \in Clock /\ x.len \in Nat /\ x.type \in Nat /\ x.sid \in Nat
    BY DEF Writers
  <2>2. PICK no \in BOOLEAN : no = FALSE
    OBVIOUS
  <2>3. PICK a \in Writers : a = [x EXCEPT !.fmt = fmt, !.new = no, !.delta = delta]
    BY <1>2, <1>3, <2>2 DEF Writers
  <2>4. PICK b \in Writers : b = [a EXCEPT !.hdelta = delta, !.hts = x.ts, !.hlen = x.len]
    BY <1>2, <2>1, <2>3 DEF Writers
  <2>5. [b EXCEPT !.htype = x.type, !.hsid = x.sid] \in Writers
    BY <2>1, <2>4 DEF Writers
  <2>6. u = [b EXCEPT !.htype = x.type, !.hsid = x.sid]
    BY <1>1, <2>2, <2>3, <2>4
  <2> QED BY <2>5, <2>6
<1>5. /\ u.new = FALSE
      /\ u.ts = x.ts /\ u.len = x.len /\ u.type = x.type /\ u.sid = x.sid /\ u.rest = x.rest
  BY <1>1 DEF Writers
<1>6. /\ u.hts = x.ts /\ u.hlen = x.len /\ u.htype = x.type /\ u.hsid = x.sid
      /\ u.delta = u.hdelta
  BY <1>1 DEF Writers
<1> QED BY <1>4, <1>5, <1>6

\* What a header leaves out has not changed.
LEMMA LeftOut ==
  ASSUME NEW x \in Writers
  PROVE  LET u == UpdateWriterHeader(x)
         IN  /\ u.fmt # 0 => x.sid = x.hsid
             /\ u.fmt \notin {0, 1} => x.len = x.hlen /\ x.type = x.htype
             /\ u.fmt = 3 => u.hdelta = x.hdelta
<1> DEFINE stamp == x.ts # x.hts \/ x.new
           back  == stamp /\ x.ts < x.hts
           delta == CASE ~stamp -> x.delta
                      [] back   -> 0
                      [] OTHER  -> x.ts - x.hts
           fmt   == IF x.sid # x.hsid \/ back THEN 0
                    ELSE IF x.len # x.hlen \/ x.type # x.htype THEN 1
                    ELSE IF delta # x.hdelta THEN 2 ELSE 3
<1>1. UpdateWriterHeader(x) =
        [x EXCEPT !.fmt = fmt, !.new = FALSE, !.delta = delta, !.hdelta = delta,
                  !.hts = x.ts, !.hlen = x.len, !.htype = x.type, !.hsid = x.sid]
  BY DEF UpdateWriterHeader
<1>2. /\ fmt # 0 => x.sid = x.hsid
      /\ fmt \notin {0, 1} => x.len = x.hlen /\ x.type = x.htype
      /\ fmt = 3 => delta = x.hdelta
  <2> HIDE DEF back, delta
  <2> QED OBVIOUS
<1> HIDE DEF stamp, back, delta, fmt
<1>3. UpdateWriterHeader(x).fmt = fmt /\ UpdateWriterHeader(x).hdelta = delta
  BY <1>1 DEF Writers
<1> QED BY <1>2, <1>3

\* The delta of a header: none when the timestamp goes back, which is sent in
\* full, and what was drawn before when the message goes on.
LEMMA DeltaOf ==
  ASSUME NEW x \in Writers
  PROVE  LET u == UpdateWriterHeader(x)
         IN  /\ x.new /\ x.ts < x.hts => u.fmt = 0 /\ u.hdelta = 0
             /\ x.new /\ x.ts >= x.hts => u.hdelta = x.ts - x.hts /\ (u.fmt = 0 => x.sid # x.hsid)
             /\ ~x.new /\ Begun(x) => u.fmt = 3 /\ u.hdelta = x.hdelta
<1> DEFINE stamp == x.ts # x.hts \/ x.new
           back  == stamp /\ x.ts < x.hts
           delta == CASE ~stamp -> x.delta
                      [] back   -> 0
                      [] OTHER  -> x.ts - x.hts
           fmt   == IF x.sid # x.hsid \/ back THEN 0
                    ELSE IF x.len # x.hlen \/ x.type # x.htype THEN 1
                    ELSE IF delta # x.hdelta THEN 2 ELSE 3
<1>1. UpdateWriterHeader(x) =
        [x EXCEPT !.fmt = fmt, !.new = FALSE, !.delta = delta, !.hdelta = delta,
                  !.hts = x.ts, !.hlen = x.len, !.htype = x.type, !.hsid = x.sid]
  BY DEF UpdateWriterHeader
<1>2. x.ts \in Int /\ x.hts \in Int /\ x.new \in BOOLEAN
  BY DEF Writers, Clock
<1>3. x.new /\ x.ts < x.hts => fmt = 0 /\ delta = 0
  <2> SUFFICES ASSUME x.new, x.ts < x.hts PROVE fmt = 0 /\ delta = 0
    OBVIOUS
  <2>1. back /\ stamp
    OBVIOUS
  <2>2. delta = 0
    <3> HIDE DEF back, stamp
    <3> QED BY <2>1
  <2> HIDE DEF back, delta
  <2> QED BY <2>1, <2>2
<1>4. x.new /\ x.ts >= x.hts => delta = x.ts - x.hts /\ (fmt = 0 => x.sid # x.hsid)
  <2>1. x.new /\ x.ts >= x.hts => ~back /\ stamp
    BY <1>2
  <2>2. x.new /\ x.ts >= x.hts => delta = x.ts - x.hts
    <3> HIDE DEF back, stamp
    <3> QED BY <2>1
  <2>3. ~back /\ fmt = 0 => x.sid # x.hsid
    <3> HIDE DEF back, delta
    <3> QED OBVIOUS
  <2> HIDE DEF back, delta, fmt
  <2> QED BY <2>1, <2>2, <2>3
<1>5. ~x.new /\ Begun(x) => fmt = 3 /\ delta = x.hdelta
  <2> SUFFICES ASSUME ~x.new, Begun(x) PROVE fmt = 3 /\ delta = x.hdelta
    OBVIOUS
  <2>1. ~stamp /\ ~back
    BY DEF Begun
  <2>2. delta = x.delta
    <3> HIDE DEF back, stamp
    <3> QED BY <2>1
  <2>3. x.sid = x.hsid /\ x.len = x.hlen /\ x.type = x.htype /\ delta = x.hdelta
    BY <2>2 DEF Begun
  <2>4. fmt = 3
    <3> HIDE DEF back, delta
    <3> QED BY <2>1, <2>3
  <2> QED BY <2>3, <2>4
<1> HIDE DEF stamp, back, delta, fmt
<1>6. UpdateWriterHeader(x).fmt = fmt /\ UpdateWriterHeader(x).hdelta = delta
  BY <1>1 DEF Writers
<1> QED BY <1>3, <1>4, <1>5, <1>6

\* A reader that has read a header; its message goes on or starts.
LEMMA HeaderRead ==
  ASSUME NEW y \in Readers, NEW c \in Chunks
  PROVE  LET z == ReadHeader(y, c)
         IN  /\ z \in Readers /\ z.have = Started(y).have /\ ~z.completed
             /\ z.len = IF c.fmt \in {0, 1} THEN c.len ELSE y.len
             /\ z.type = IF c.fmt \in {0, 1} THEN c.type ELSE y.type
             /\ z.sid = IF c.fmt = 0 THEN c.sid ELSE y.sid
             /\ z.ts = IF c.fmt = 0 THEN c.ts ELSE y.ts
             /\ z.delta = CASE c.fmt = 0 -> 0 [] c.fmt = 3 -> y.delta [] OTHER -> c.delta
<1>1. PICK s \in Readers : /\ s = Started(y) /\ ~s.completed
                           /\ s.ts = y.ts /\ s.delta = y.delta /\ s.len = y.len
                           /\ s.type = y.type /\ s.sid = y.sid
  <2>1. CASE y.completed
    <3>1. Started(y) = [y EXCEPT !.have = 0, !.completed = FALSE]
      BY <2>1 DEF Started
    <3> QED BY <3>1 DEF Readers
  <2>2. CASE ~y.completed
    <3>1. Started(y) = y
      BY <2>2 DEF Started
    <3> QED BY <2>2, <3>1
  <2> QED BY <2>1, <2>2
<1>2. c.fmt \in 0..3 /\ c.ts \in Clock /\ c.delta \in Int /\ c.len \in Nat /\ c.type \in Nat /\ c.sid \in Nat
  BY DEF Chunks
<1>3. CASE c.fmt = 0
  <2> PICK zero \in Int : zero = 0
    OBVIOUS
  <2>1. ReadHeader(y, c) = [s EXCEPT !.ts = c.ts, !.delta = zero, !.len = c.len,
                                     !.type = c.type, !.sid = c.sid]
    BY <1>1, <1>3 DEF ReadHeader
  <2>2. ReadHeader(y, c) \in Readers
    BY <1>1, <1>2, <2>1 DEF Readers
  <2>3. /\ ReadHeader(y, c).have = s.have /\ ReadHeader(y, c).completed = s.completed
        /\ ReadHeader(y, c).ts = c.ts /\ ReadHeader(y, c).delta = zero
        /\ ReadHeader(y, c).len = c.len /\ ReadHeader(y, c).type = c.type
        /\ ReadHeader(y, c).sid = c.sid
    BY <1>1, <2>1 DEF Readers
  <2> QED BY <1>1, <1>3, <2>2, <2>3
<1>4. CASE c.fmt = 1
  <2>1. ReadHeader(y, c) = [s EXCEPT !.delta = c.delta, !.len = c.len, !.type = c.type]
    BY <1>1, <1>4 DEF ReadHeader
  <2>2. ReadHeader(y, c) \in Readers
    BY <1>1, <1>2, <2>1 DEF Readers
  <2>3. /\ ReadHeader(y, c).have = s.have /\ ReadHeader(y, c).completed = s.completed
        /\ ReadHeader(y, c).ts = s.ts /\ ReadHeader(y, c).delta = c.delta
        /\ ReadHeader(y, c).len = c.len /\ ReadHeader(y, c).type = c.type
        /\ ReadHeader(y, c).sid = s.sid
    BY <2>1 DEF Readers
  <2> QED BY <1>1, <1>4, <2>2, <2>3
<1>5. CASE c.fmt = 2
  <2>1. ReadHeader(y, c) = [s EXCEPT !.delta = c.delta]
    BY <1>1, <1>5 DEF ReadHeader
  <2> QED BY <1>1, <1>2, <1>5, <2>1 DEF Readers
<1>6. CASE c.fmt = 3
  <2>1. ReadHeader(y, c) = s
    BY <1>1, <1>6 DEF ReadHeader
  <2> QED BY <1>1, <1>2, <1>6, <2>1
<1> QED BY <1>2, <1>3, <1>4, <1>5, <1>6

\* The timestamp of a message is one of those there are.
LEMMA StampInClock ==
  ASSUME NEW z \in Readers
  PROVE  StampOf(z) \in Clock
BY StampAssumption DEF StampOf, Clock, Readers

\* A timestamp that is there is itself modulo StampModulus.
LEMMA ClockModulus ==
  ASSUME NEW t \in Clock
  PROVE  t % StampModulus = t
BY StampAssumption DEF Clock

\* The header chunk c carries for writer x.
Carries(c, x) ==
  LET u == UpdateWriterHeader(x)
  IN  /\ c.fmt = u.fmt /\ c.ts = u.hts /\ c.delta = u.hdelta
      /\ c.len = u.hlen /\ c.type = u.htype /\ c.sid = u.hsid

\* updateWriterHeader and readChunk undo each other: the reader knows the
\* writer's header again.
LEMMA HeaderCarried ==
  ASSUME NEW x \in Writers, NEW y \in Readers, NEW c \in Chunks,
         SameHeader(x, y), Carries(c, x)
  PROVE  /\ SameHeader(UpdateWriterHeader(x), ReadHeader(y, c))
         /\ ReadHeader(y, c).len = x.len /\ ReadHeader(y, c).sid = x.sid
<1> DEFINE u == UpdateWriterHeader(x)
           z == ReadHeader(y, c)
<1>1. u.hlen = x.len /\ u.htype = x.type /\ u.hsid = x.sid /\ u.fmt \in 0..3
  BY NextHeader DEF Writers
<1>2. /\ u.fmt # 0 => x.sid = x.hsid
      /\ u.fmt \notin {0, 1} => x.len = x.hlen /\ x.type = x.htype
  BY LeftOut
<1>3. /\ z.len = IF c.fmt \in {0, 1} THEN c.len ELSE y.len
      /\ z.type = IF c.fmt \in {0, 1} THEN c.type ELSE y.type
      /\ z.sid = IF c.fmt = 0 THEN c.sid ELSE y.sid
  BY HeaderRead
<1>4. /\ c.fmt = u.fmt /\ c.len = u.hlen /\ c.type = u.htype /\ c.sid = u.hsid
  BY DEF Carries
<1>5. y.len = x.hlen /\ y.type = x.htype /\ y.sid = x.hsid
  BY DEF SameHeader
<1> HIDE DEF u, z
<1>6. SameHeader(u, z) /\ z.len = x.len /\ z.sid = x.sid
  BY <1>1, <1>2, <1>3, <1>4, <1>5 DEF SameHeader
<1> QED BY <1>6 DEF u, z
\* min(a, b).
LEMMA ChunkLengthIs ==
  ASSUME NEW a \in Int, NEW b \in Int
  PROVE  ChunkLength(a, b) = IF a <= b THEN a ELSE b
<1> DEFINE P(x) == x \in {a, b} /\ \A y \in {a, b} : x <= y
<1>1. ChunkLength(a, b) = CHOOSE x \in {a, b} : \A y \in {a, b} : x <= y
  BY DEF ChunkLength, Min
<1>2. (CHOOSE x \in {a, b} : \A y \in {a, b} : x <= y) = CHOOSE x : P(x)
  OBVIOUS
<1>3. \E x : P(x)
  <2>1. CASE a <= b
    <3>1. P(a)
      BY <2>1
    <3> QED BY <3>1
  <2>2. CASE ~(a <= b)
    <3>1. P(b)
      BY <2>2
    <3> QED BY <3>1
  <2> QED BY <2>1, <2>2
<1>4. P(CHOOSE x : P(x))
  <2> HIDE DEF P
  <2> QED BY <1>3
<1>5. PICK l : l = ChunkLength(a, b) /\ P(l)
  BY <1>1, <1>2, <1>4
<1>6. l \in {a, b} /\ l <= a /\ l <= b
  BY <1>5
<1> QED BY <1>5, <1>6

\* Sizes are numbers, and a clamped one is one of them.
LEMMA ClampIs ==
  ASSUME NEW size \in AllSizes
  PROVE  /\ size \in Nat \ {0}
         /\ Clamp(size) = IF size <= ProtocolMax THEN size ELSE ProtocolMax
         /\ Clamp(size) \in AllSizes /\ Clamp(Clamp(size)) = Clamp(size)
<1>1. ProtocolMax \in Nat \ {0} /\ ProtocolMax \in AllSizes
  BY CodecAssumption DEF AllSizes
<1>2. size \in Nat \ {0}
  BY CodecAssumption DEF AllSizes
<1>3. ASSUME NEW a \in Int
      PROVE  Clamp(a) = IF a <= ProtocolMax THEN a ELSE ProtocolMax
  <2>1. Clamp(a) = ChunkLength(a, ProtocolMax)
    BY DEF Clamp, ChunkLength
  <2> QED BY <2>1, <1>1, ChunkLengthIs
<1>4. Clamp(size) = IF size <= ProtocolMax THEN size ELSE ProtocolMax
  BY <1>2, <1>3
<1>5. Clamp(size) \in Int /\ Clamp(size) \in AllSizes /\ Clamp(size) <= ProtocolMax
  BY <1>1, <1>2, <1>4
<1>6. Clamp(Clamp(size)) = Clamp(size)
  BY <1>3, <1>5
<1> QED BY <1>2, <1>4, <1>5, <1>6

\* Sizes that are clamped alike cut a message alike.
LEMMA SameCut ==
  ASSUME NEW rest \in Nat, rest <= ProtocolMax, NEW a \in AllSizes, NEW b \in AllSizes,
         Clamp(a) = Clamp(b)
  PROVE  ChunkLength(rest, a) = ChunkLength(rest, b)
<1>1. /\ a \in Nat /\ b \in Nat
      /\ Clamp(a) = IF a <= ProtocolMax THEN a ELSE ProtocolMax
      /\ Clamp(b) = IF b <= ProtocolMax THEN b ELSE ProtocolMax
  BY ClampIs
<1>2. ProtocolMax \in Nat
  BY CodecAssumption
<1>3. /\ ChunkLength(rest, a) = IF rest <= a THEN rest ELSE a
      /\ ChunkLength(rest, b) = IF rest <= b THEN rest ELSE b
  BY <1>1, ChunkLengthIs
<1>4. CASE a <= ProtocolMax /\ b <= ProtocolMax
  <2>1. a = b
    BY <1>1, <1>4
  <2> QED BY <2>1
<1>5. CASE a <= ProtocolMax /\ ~(b <= ProtocolMax)
  <2>1. a = ProtocolMax
    BY <1>1, <1>5
  <2> QED BY <2>1, <1>1, <1>2, <1>3, <1>5
<1>6. CASE ~(a <= ProtocolMax) /\ b <= ProtocolMax
  <2>1. b = ProtocolMax
    BY <1>1, <1>6
  <2> QED BY <2>1, <1>1, <1>2, <1>3, <1>6
<1>7. CASE ~(a <= ProtocolMax) /\ ~(b <= ProtocolMax)
  BY <1>1, <1>2, <1>3, <1>7
<1> QED BY <1>4, <1>5, <1>6, <1>7

\* A chunk is empty only when nothing is left, and carries no more than that.
LEMMA ChunkLengthBounds ==
  ASSUME NEW rest \in Nat, NEW size \in AllSizes
  PROVE  /\ ChunkLength(rest, size) \in 0 .. rest
         /\ rest > 0 => ChunkLength(rest, size) > 0
<1>1. size \in Nat \ {0}
  BY ClampIs
<1> QED BY <1>1, ChunkLengthIs

\* What has been read of a message that is not complete, and of one that is.
LEMMA ReadsFields ==
  ASSUME NEW z \in Readers, NEW c \in Chunks
  PROVE  /\ Reads(z, c) \in Readers
         /\ Reads(z, c).delta = z.delta /\ Reads(z, c).len = z.len
         /\ Reads(z, c).type = z.type /\ Reads(z, c).sid = z.sid
         /\ Reads(z, c).have = z.have + c.n
         /\ Ends(z, c) => Reads(z, c).ts = StampOf(z) /\ Reads(z, c).completed
         /\ ~Ends(z, c) => Reads(z, c).ts = z.ts /\ (Reads(z, c).completed <=> z.completed)
<1>1. PICK n \in Nat : n = z.have + c.n
  BY DEF Readers, Chunks
<1>2. CASE Ends(z, c)
  <2>1. PICK yes \in BOOLEAN : yes = TRUE
    OBVIOUS
  <2>2. PICK t \in Clock : t = StampOf(z)
    BY StampInClock
  <2>3. Reads(z, c) = [z EXCEPT !.have = n, !.ts = t, !.completed = yes]
    BY <1>1, <1>2, <2>1, <2>2 DEF Reads
  <2>4. Reads(z, c) \in Readers
    BY <1>1, <2>1, <2>2, <2>3 DEF Readers
  <2>5. /\ Reads(z, c).have = n /\ Reads(z, c).ts = t /\ Reads(z, c).completed = yes
        /\ Reads(z, c).delta = z.delta /\ Reads(z, c).len = z.len
        /\ Reads(z, c).type = z.type /\ Reads(z, c).sid = z.sid
    BY <2>3 DEF Readers
  <2> QED BY <1>1, <1>2, <2>1, <2>2, <2>4, <2>5
<1>3. CASE ~Ends(z, c)
  <2>1. Reads(z, c) = [z EXCEPT !.have = n]
    BY <1>1, <1>3 DEF Reads
  <2> QED BY <1>1, <1>3, <2>1 DEF Readers
<1> QED BY <1>2, <1>3

\* The writer after a chunk of n.
WrittenBy(x, n) == [UpdateWriterHeader(x) EXCEPT !.rest = @ - n]

\* Its fields.
LEMMA WrittenFields ==
  ASSUME NEW x \in Writers, NEW n \in 0 .. x.rest
  PROVE  LET v == WrittenBy(x, n)
         IN  /\ v \in Writers /\ ~v.new /\ v.rest = x.rest - n
             /\ v.ts = x.ts /\ v.len = x.len /\ v.type = x.type /\ v.sid = x.sid
             /\ v.hts = x.ts /\ v.hlen = x.len /\ v.htype = x.type /\ v.hsid = x.sid
             /\ v.hdelta = UpdateWriterHeader(x).hdelta /\ v.delta = v.hdelta
<1> DEFINE u == UpdateWriterHeader(x)
<1>1. /\ u \in Writers /\ u.new = FALSE
      /\ u.ts = x.ts /\ u.len = x.len /\ u.type = x.type /\ u.sid = x.sid /\ u.rest = x.rest
      /\ u.hts = x.ts /\ u.hlen = x.len /\ u.htype = x.type /\ u.hsid = x.sid
      /\ u.delta = u.hdelta
  BY NextHeader
<1>2. WrittenBy(x, n) = [u EXCEPT !.rest = @ - n]
  BY DEF WrittenBy
<1> HIDE DEF u
<1>3. PICK l \in Nat : l = x.rest - n
  BY DEF Writers
<1>4. WrittenBy(x, n) = [u EXCEPT !.rest = l]
  BY <1>1, <1>2, <1>3
<1>5. WrittenBy(x, n) \in Writers
  BY <1>1, <1>3, <1>4 DEF Writers
<1>6. LET v == WrittenBy(x, n)
      IN  /\ v.rest = l /\ v.new = u.new /\ v.delta = u.delta /\ v.hdelta = u.hdelta
          /\ v.ts = u.ts /\ v.len = u.len /\ v.type = u.type /\ v.sid = u.sid
          /\ v.hts = u.hts /\ v.hlen = u.hlen /\ v.htype = u.htype /\ v.hsid = u.hsid
  BY <1>1, <1>4 DEF Writers
<1> QED BY <1>1, <1>3, <1>5, <1>6 DEF u

\* A chunk of the message that x is writing: the reader has as much of it as x
\* has written, and is done when x is.
LEMMA ChunkRead ==
  ASSUME NEW x \in Writers, NEW y \in Readers, NEW c \in Chunks,
         NEW k \in Nat, NEW size \in AllSizes, NEW s, x.rest <= x.len,
         SameHeader(x, y), Writing(x, y, s, k), Carries(c, x), c.n = ChunkLength(x.rest, size)
  PROVE  LET z == ReadHeader(y, c)
             v == WrittenBy(x, c.n)
         IN  /\ z.len - z.have = x.rest /\ z.have \in Nat /\ z.len \in Nat
             /\ Ends(z, c) <=> c.n = x.rest
             /\ SameHeader(v, Reads(z, c))
             /\ c.n # x.rest => Writing(v, Reads(z, c), s, k)
             /\ c.n = x.rest => Resting(Reads(z, c), s, k + 1)
<1> DEFINE z == ReadHeader(y, c)
           v == WrittenBy(x, c.n)
           q == Reads(z, c)
<1>1. z \in Readers /\ z.have = Started(y).have /\ ~z.completed
  BY HeaderRead
<1>2. z.len = x.len /\ z.sid = x.sid /\ SameHeader(UpdateWriterHeader(x), z)
  BY HeaderCarried
<1>3. /\ x.rest \in Nat /\ x.len \in Nat /\ c.n \in 0 .. x.rest
      /\ x.rest > 0 => c.n > 0
  BY ChunkLengthBounds DEF Writers
<1>4. /\ Started(y).have = x.len - x.rest
      /\ x.rest > 0 \/ x.len = 0
      /\ k + 1 = Len(s)
      /\ s[Len(s)].len = x.len /\ s[Len(s)].sid = x.sid /\ s[Len(s)].ts = x.ts
  BY DEF Writing
<1>5. /\ v \in Writers /\ ~v.new /\ v.rest = x.rest - c.n
      /\ v.ts = x.ts /\ v.len = x.len /\ v.type = x.type /\ v.sid = x.sid
      /\ v.hts = x.ts /\ v.hlen = x.len /\ v.htype = x.type /\ v.hsid = x.sid
      /\ v.hdelta = UpdateWriterHeader(x).hdelta /\ v.delta = v.hdelta
  BY <1>3, WrittenFields
<1>6. /\ q.len = z.len /\ q.type = z.type /\ q.sid = z.sid /\ q.have = z.have + c.n
      /\ Ends(z, c) => q.completed
      /\ ~Ends(z, c) => (q.completed <=> z.completed)
  BY <1>1, ReadsFields
<1>7. UpdateWriterHeader(x).hlen = x.len /\ UpdateWriterHeader(x).htype = x.type
      /\ UpdateWriterHeader(x).hsid = x.sid
  BY NextHeader
<1> HIDE DEF z, v, q
<1>8. z.len - z.have = x.rest /\ z.have \in Nat /\ z.len \in Nat /\ (Ends(z, c) <=> c.n = x.rest)
  <2>1. z.have \in Nat /\ z.len \in Nat
    BY <1>1 DEF Readers
  <2>2. z.len - z.have = x.rest
    BY <1>1, <1>2, <1>3, <1>4
  <2>3. z.have + c.n = z.len <=> c.n = x.rest
    BY <2>1, <2>2, <1>3
  <2> QED BY <2>1, <2>2, <2>3 DEF Ends
<1>9. SameHeader(v, q)
  BY <1>2, <1>5, <1>6, <1>7 DEF SameHeader
<1>10. ASSUME c.n # x.rest PROVE Writing(v, q, s, k)
  <2>1. Started(q) = q
    BY <1>1, <1>6, <1>8, <1>10 DEF Started
  <2>2. Started(q).have = v.len - v.rest /\ v.rest > 0 /\ v.rest < v.len
    <3>1. q.have = (x.len - x.rest) + c.n
      BY <1>1, <1>4, <1>6
    <3>2. c.n < x.rest /\ c.n > 0
      BY <1>3, <1>10
    <3> HIDE DEF v, q
    <3> QED BY <2>1, <3>1, <3>2, <1>3, <1>5
  <2>3. Begun(v)
    BY <2>2, <1>5 DEF Begun
  <2> QED BY <2>2, <2>3, <1>4, <1>5 DEF Writing
<1>11. ASSUME c.n = x.rest PROVE Resting(q, s, k + 1)
  <2>1. Started(q).have = 0
    <3>1. Started(q) = [q EXCEPT !.have = 0, !.completed = FALSE]
      BY <1>6, <1>8, <1>11 DEF Started
    <3>2. q \in Readers
      BY <1>1, ReadsFields DEF q
    <3> QED BY <3>1, <3>2 DEF Readers
  <2> QED BY <2>1, <1>4 DEF Resting
<1> QED BY <1>8, <1>9, <1>10, <1>11 DEF z, v, q

\* The timestamp is carried too, if the message stream does not change: the
\* reader's sum is the writer's timestamp.
LEMMA ClockCarried ==
  ASSUME NEW x \in Writers, NEW y \in Readers, NEW c \in Chunks, NEW s, NEW k \in Nat,
         Carries(c, x), y.delta = x.hdelta,
         Alike(s, k + 1), s[k + 1].sid = x.sid, s[k + 1].ts = x.ts,
         IF x.new THEN SameStamp(x, y, s, k) ELSE Begun(x) /\ StampOf(y) = x.ts
  PROVE  LET z == ReadHeader(y, c)
         IN  StampOf(z) = x.ts /\ z.delta = UpdateWriterHeader(x).hdelta
<1> DEFINE u == UpdateWriterHeader(x)
           z == ReadHeader(y, c)
<1>1. /\ z.ts = IF c.fmt = 0 THEN c.ts ELSE y.ts
      /\ z.delta = CASE c.fmt = 0 -> 0 [] c.fmt = 3 -> y.delta [] OTHER -> c.delta
  BY HeaderRead
<1>2. u.hts = x.ts /\ u.fmt \in 0..3 /\ u.hdelta \in Int
  BY NextHeader DEF Writers
<1>3. c.fmt = u.fmt /\ c.ts = u.hts /\ c.delta = u.hdelta
  BY DEF Carries
<1>4. /\ u.fmt # 0 => x.sid = x.hsid
      /\ u.fmt = 3 => u.hdelta = x.hdelta
  BY LeftOut
<1>5. /\ x.new /\ x.ts < x.hts => u.fmt = 0 /\ u.hdelta = 0
      /\ x.new /\ x.ts >= x.hts => u.hdelta = x.ts - x.hts /\ (u.fmt = 0 => x.sid # x.hsid)
      /\ ~x.new /\ Begun(x) => u.fmt = 3 /\ u.hdelta = x.hdelta
  BY DeltaOf
<1>6. /\ x.ts \in Clock /\ x.ts \in Int /\ x.hts \in Int /\ y.ts \in Int /\ x.ts % StampModulus = x.ts
      /\ 0 <= x.ts /\ x.ts <= StampModulus - 1 /\ StampModulus \in Int /\ x.new \in BOOLEAN
  BY ClockModulus, StampAssumption DEF Clock, Writers, Readers
<1> HIDE DEF u, z
<1>7. ASSUME c.fmt # 0 PROVE z.ts = y.ts /\ z.delta = u.hdelta
  <2>1. CASE c.fmt = 3
    BY <2>1, <1>1, <1>3, <1>4
  <2>2. CASE c.fmt # 3
    BY <2>2, <1>7, <1>1, <1>3
  <2> QED BY <2>1, <2>2
<1>8. ASSUME c.fmt = 0 PROVE z.ts = x.ts /\ z.delta = 0
  BY <1>8, <1>1, <1>2, <1>3
<1>9. ASSUME z.ts + z.delta = x.ts PROVE StampOf(z) = x.ts
  BY <1>9, <1>6 DEF StampOf
<1>10. CASE ~x.new
  <2>1. z.ts = y.ts /\ z.delta = y.delta /\ z.delta = u.hdelta
    BY <1>10, <1>3, <1>5, <1>7
  <2> QED BY <1>10, <2>1 DEF StampOf, z, u
<1>11. CASE x.new /\ x.ts < x.hts
  <2>1. c.fmt = 0 /\ u.hdelta = 0
    BY <1>11, <1>3, <1>5
  <2>2. z.ts + z.delta = x.ts /\ z.delta = u.hdelta
    BY <2>1, <1>6, <1>8
  <2> QED BY <2>2, <1>9 DEF z, u
<1>12. CASE x.new /\ ~(x.ts < x.hts)
  <2>1. u.hdelta = x.ts - x.hts /\ (u.fmt = 0 => x.sid # x.hsid)
    BY <1>5, <1>6, <1>12
  <2>2. CASE k # 0 /\ y.ts = x.hts /\ x.hsid = s[1].sid
    <3>1. c.fmt # 0
      <4>1. s[k + 1].sid = s[1].sid
        BY DEF Alike
      <4> QED BY <2>1, <2>2, <4>1, <1>3
    <3>2. z.ts + z.delta = x.ts /\ z.delta = u.hdelta
      BY <2>1, <2>2, <3>1, <1>6, <1>7
    <3> QED BY <3>2, <1>9 DEF z, u
  <2>3. CASE k = 0 /\ y.ts = 0 /\ x.hts = StampModulus - 1 /\ x.hsid = 0 /\ x.hdelta = 0
    <3>1. x.ts = StampModulus - 1 /\ u.hdelta = 0
      BY <2>1, <2>3, <1>6, <1>12
    <3>2. CASE c.fmt = 0
      <4>1. z.ts + z.delta = x.ts /\ z.delta = u.hdelta
        BY <3>1, <3>2, <1>6, <1>8
      <4> QED BY <4>1, <1>9 DEF z, u
    <3>3. CASE c.fmt # 0
      <4>1. x.sid = 0
        BY <2>3, <3>3, <1>3, <1>4
      <4>2. s[1].sid = x.sid /\ s[1].ts = x.ts
        BY <2>3
      <4> QED BY <3>1, <4>1, <4>2 DEF Alike
    <3> QED BY <3>2, <3>3
  <2> QED BY <2>2, <2>3, <1>12 DEF SameStamp
<1> QED BY <1>10, <1>11, <1>12
-----------------------------------------------------------------------------
(* Sequences and messages. *)

\* j is not in queue q.
Without(q, j) == \A i \in 1 .. Len(q) : q[i] # j

\* The queue after its first has written n of rest bytes.
Turned(q, n, rest) == Tail(q) \o IF n < rest THEN <<Head(q)>> ELSE <<>>

\* One more at the end of a queue it is not in.
LEMMA QueueAppend ==
  ASSUME NEW q \in Seq(All), Distinct(q), NEW id \in All, Without(q, id)
  PROVE  /\ Append(q, id) \in Seq(All) /\ Distinct(Append(q, id))
         /\ \A j : Without(Append(q, id), j) <=> Without(q, j) /\ j # id
         /\ Append(q, id)[1] = IF q = <<>> THEN id ELSE q[1]
<1> DEFINE a == Append(q, id)
<1>1. /\ a \in Seq(All) /\ Len(q) \in Nat /\ Len(a) = Len(q) + 1 /\ a[Len(q) + 1] = id
      /\ \A i \in 1 .. Len(q) : a[i] = q[i]
      /\ q = <<>> <=> Len(q) = 0
  OBVIOUS
<1> HIDE DEF a
<1>2. Distinct(a)
  BY <1>1 DEF Distinct, Without
<1>3. ASSUME NEW j PROVE Without(a, j) <=> Without(q, j) /\ j # id
  <2>1. ASSUME Without(a, j) PROVE Without(q, j) /\ j # id
    BY <1>1, <2>1 DEF Without
  <2>2. ASSUME Without(q, j), j # id PROVE Without(a, j)
    BY <1>1, <2>2 DEF Without
  <2> QED BY <2>1, <2>2
<1>4. a[1] = IF q = <<>> THEN id ELSE q[1]
  BY <1>1
<1> QED BY <1>1, <1>2, <1>3, <1>4 DEF a

\* The first leaves a queue.
LEMMA QueueTail ==
  ASSUME NEW q \in Seq(All), Distinct(q), q # <<>>
  PROVE  /\ Head(q) \in All /\ Head(q) = q[1] /\ 1 \in 1 .. Len(q)
         /\ Tail(q) \in Seq(All) /\ Distinct(Tail(q))
         /\ \A j : Without(Tail(q), j) <=> Without(q, j) \/ j = Head(q)
<1> DEFINE t == Tail(q)
           h == Head(q)
<1>1. /\ t \in Seq(All) /\ h \in All /\ h = q[1]
      /\ Len(q) \in Nat \ {0} /\ Len(t) = Len(q) - 1
      /\ \A i \in 1 .. Len(t) : t[i] = q[i + 1]
  OBVIOUS
<1> HIDE DEF t, h
<1>2. Distinct(t)
  <2> SUFFICES ASSUME NEW i \in 1 .. Len(t), NEW j \in 1 .. Len(t), t[i] = t[j] PROVE i = j
    BY DEF Distinct
  <2>1. q[i + 1] = q[j + 1] /\ i + 1 \in 1 .. Len(q) /\ j + 1 \in 1 .. Len(q)
    BY <1>1
  <2>2. i + 1 = j + 1
    BY <2>1 DEF Distinct
  <2> QED BY <2>2
<1>3. ASSUME NEW j PROVE Without(t, j) <=> Without(q, j) \/ j = h
  <2>1. ASSUME \A i \in 1 .. Len(t) : t[i] # j, j # h, NEW i \in 1 .. Len(q) PROVE q[i] # j
    <3>1. CASE i = 1
      BY <3>1, <2>1, <1>1
    <3>2. CASE i # 1
      <4>1. i - 1 \in 1 .. Len(t) /\ t[i - 1] = q[(i - 1) + 1] /\ (i - 1) + 1 = i
        BY <3>2, <1>1
      <4> QED BY <4>1, <2>1
    <3> QED BY <3>1, <3>2
  <2>2. ASSUME \A i \in 1 .. Len(q) : q[i] # j, NEW i \in 1 .. Len(t) PROVE t[i] # j
    <3>1. i + 1 \in 1 .. Len(q) /\ t[i] = q[i + 1]
      BY <1>1
    <3> QED BY <3>1, <2>2
  <2>3. ASSUME j = h, NEW i \in 1 .. Len(t) PROVE t[i] # j
    <3>1. i + 1 \in 1 .. Len(q) /\ t[i] = q[i + 1] /\ i + 1 # 1 /\ 1 \in 1 .. Len(q)
      BY <1>1
    <3> QED BY <3>1, <2>3, <1>1 DEF Distinct
  <2> QED BY <2>1, <2>2, <2>3 DEF Without
<1>4. 1 \in 1 .. Len(q)
  BY <1>1
<1> QED BY <1>1, <1>2, <1>3, <1>4 DEF t, h

\* What the messages of a chunk stream have in common.
LEMMA MessageFields ==
  ASSUME NEW id \in All, NEW m \in MessagesOf(id)
  PROVE  /\ m \in Messages /\ m.ts \in Clock /\ m.len \in Nat /\ m.sid \in Nat
         /\ m.len = 0 => 0 \in Lengths
         /\ m.len <= ProtocolMax
         /\ id = Control => m.len = 1 /\ m.size \in Sizes
         /\ m = Message(m.ts, m.len, m.sid, m.size)
<1>1. CASE id = Control
  <2>1. PICK size \in Sizes : m = Message(0, ControlLength, 0, size)
    BY <1>1 DEF MessagesOf
  <2>2. m.ts = 0 /\ m.len = 1 /\ m.sid = 0 /\ m.size = size
    BY <2>1 DEF Message, ControlLength
  <2>3. m = Message(m.ts, m.len, m.sid, m.size)
    BY <2>1, <2>2 DEF ControlLength
  <2>4. m \in Messages
    BY <2>1 DEF Messages
  <2>5. 0 \in Clock
    BY StampAssumption DEF Clock
  <2>6. 1 <= ProtocolMax
    BY CodecAssumption
  <2> QED BY <1>1, <2>2, <2>3, <2>4, <2>5, <2>6
<1>2. CASE id # Control
  <2>1. PICK ts \in Timestamps, len \in Lengths, sid \in StreamIDs : m = Message(ts, len, sid, 0)
    BY <1>2 DEF MessagesOf
  <2>2. m.ts = ts /\ m.len = len /\ m.sid = sid /\ m.size = 0
    BY <2>1 DEF Message
  <2>3. m = Message(m.ts, m.len, m.sid, m.size)
    BY <2>1, <2>2
  <2>4. m \in Messages
    BY <2>1 DEF Messages
  <2>5. ts \in Clock /\ len \in Nat /\ sid \in Nat /\ len <= ProtocolMax
    BY CodecAssumption DEF Clock
  <2> QED BY <1>2, <2>2, <2>3, <2>4, <2>5
<1> QED BY <1>1, <1>2

\* Messages that are alike remain so with less of them, and whatever follows.
LEMMA AlikeMore ==
  ASSUME NEW s \in Seq(Messages), NEW m \in Messages, NEW k \in 1 .. Len(s)
  PROVE  /\ Append(s, m)[1] = s[1]
         /\ Alike(Append(s, m), k) <=> Alike(s, k)
         /\ Alike(Append(s, m), Len(s) + 1) => Alike(s, k)
<1>1. Len(s) \in Nat /\ 1 \in 1 .. Len(s) /\ \A i \in 1 .. Len(s) : Append(s, m)[i] = s[i]
  OBVIOUS
<1>2. \A i \in 1 .. k : i \in 1 .. Len(s) /\ i \in 1 .. (Len(s) + 1)
  BY <1>1
<1> DEFINE a == Append(s, m)
<1> HIDE DEF a
<1>3. Alike(a, k) <=> Alike(s, k)
  BY <1>1, <1>2 DEF Alike, a
<1>4. Alike(a, Len(s) + 1) => Alike(a, k)
  BY <1>2 DEF Alike
<1> QED BY <1>1, <1>3, <1>4 DEF a

\* Only the writer, the queue and what was sent of a chunk stream count.
LEMMA LevelSame ==
  ASSUME NEW j \in All, NEW y, NEW n, Level(j, y, n),
         w'[j] = w[j], sent'[j] = sent[j], Free(j)' <=> Free(j)
  PROVE  Level(j, y, n)'
<1>1. Queued(j)' <=> Queued(j)
  BY DEF Queued
<1>2. SameClock(j, w[j], y, sent[j], n)' <=> SameClock(j, w[j], y, sent[j], n)
  BY <1>1 DEF SameClock
<1> QED BY <1>1, <1>2 DEF Level

\* What a chunk means does not depend on what is sent later.
LEMMA StepMore ==
  ASSUME sent \in [All -> Seq(Messages)], NEW id \in All, NEW m \in Messages,
         sent' = [sent EXCEPT ![id] = Append(@, m)], NEW q,
         NEW a \in ReadingEnds, NEW c \in Chunks, NEW b \in ReadingEnds, Step(q, sent, a, c, b)
  PROVE  Step(q, sent', a, c, b)
<1> DEFINE k == a.n[c.id] + 1
<1>1. c.id \in All /\ k \in Nat \ {0}
  BY DEF Chunks, ReadingEnds
<1>2. k <= Len(sent[c.id])
  BY DEF Step, Fits
<1>3. /\ k <= Len(sent'[c.id]) /\ sent'[c.id][k] = sent[c.id][k]
      /\ Alike(sent'[c.id], k) <=> Alike(sent[c.id], k)
  <2>1. CASE c.id = id
    <3>1. sent'[id] = Append(sent[id], m) /\ sent[id] \in Seq(Messages)
      OBVIOUS
    <3> HIDE DEF k
    <3>2. k \in 1 .. Len(sent[id])
      BY <2>1, <3>1, <1>1, <1>2
    <3>3. Alike(Append(sent[id], m), k) <=> Alike(sent[id], k)
      BY <3>1, <3>2, AlikeMore
    <3> QED BY <2>1, <3>1, <3>3, <1>1, <1>2
  <2>2. CASE c.id # id
    <3>1. sent'[c.id] = sent[c.id]
      BY <2>2, <1>1
    <3> QED BY <3>1, <1>2
  <2> QED BY <2>1, <2>2
<1>4. Fits(q, sent', a, c)
  BY <1>3 DEF Step, Fits, Tells
<1>5. After(sent', a, c) = After(sent, a, c)
  <2>1. CASE c.id = Control
    <3>1. Told(sent', a) = Told(sent, a)
      BY <1>3, <2>1 DEF Told
    <3> QED BY <3>1 DEF After
  <2>2. CASE c.id # Control
    BY <2>2 DEF After
  <2> QED BY <2>1, <2>2
<1> QED BY <1>4, <1>5 DEF Step
\* A reading end after a chunk is one.
LEMMA AfterEnd ==
  ASSUME NEW e \in ReadingEnds, NEW c \in Chunks,
         NEW ss, NEW z, z = ReadHeader(e.r[c.id], c),
         c.id = Control /\ Ends(z, c) => Told(ss, e) \in AllSizes
  PROVE  After(ss, e, c) \in ReadingEnds
<1>1. e.r \in [All -> Readers] /\ e.size \in AllSizes /\ e.n \in [All -> Nat] /\ c.id \in All
  BY DEF ReadingEnds, Chunks
<1>2. z \in Readers
  BY <1>1, HeaderRead
<1>3. Reads(z, c) \in Readers
  BY <1>2, ReadsFields
<1> PICK f : f = After(ss, e, c)
  OBVIOUS
<1>4. /\ f.r = [e.r EXCEPT ![c.id] = Reads(z, c)]
      /\ f.size = IF Ends(z, c) /\ c.id = Control THEN Told(ss, e) ELSE e.size
      /\ f.n = IF Ends(z, c) THEN [e.n EXCEPT ![c.id] = @ + 1] ELSE e.n
      /\ f = [r |-> f.r, size |-> f.size, n |-> f.n]
  BY DEF After
<1>5. f.r \in [All -> Readers] /\ f.size \in AllSizes /\ f.n \in [All -> Nat]
  BY <1>1, <1>3, <1>4
<1> QED BY <1>4, <1>5 DEF ReadingEnds

\* Its fields: chunk c is on one chunk stream, the others are what they were.
LEMMA AfterFields ==
  ASSUME NEW e \in ReadingEnds, NEW c \in Chunks,
         NEW ss, NEW z, z = ReadHeader(e.r[c.id], c), NEW f, f = After(ss, e, c)
  PROVE  /\ f.r[c.id] = Reads(z, c)
         /\ f.n[c.id] = IF Ends(z, c) THEN e.n[c.id] + 1 ELSE e.n[c.id]
         /\ \A j \in All \ {c.id} : f.r[j] = e.r[j] /\ f.n[j] = e.n[j]
         /\ f.size = IF Ends(z, c) /\ c.id = Control THEN Told(ss, e) ELSE e.size
<1>1. e.r \in [All -> Readers] /\ e.n \in [All -> Nat] /\ c.id \in All
  BY DEF ReadingEnds, Chunks
<1>2. /\ f.r = [e.r EXCEPT ![c.id] = Reads(z, c)]
      /\ f.size = IF Ends(z, c) /\ c.id = Control THEN Told(ss, e) ELSE e.size
      /\ f.n = IF Ends(z, c) THEN [e.n EXCEPT ![c.id] = @ + 1] ELSE e.n
  BY DEF After
<1>3. /\ f.r[c.id] = Reads(z, c)
      /\ f.n[c.id] = IF Ends(z, c) THEN e.n[c.id] + 1 ELSE e.n[c.id]
      /\ \A j \in All \ {c.id} : f.r[j] = e.r[j] /\ f.n[j] = e.n[j]
  BY <1>1, <1>2
<1> QED BY <1>2, <1>3

-----------------------------------------------------------------------------
(* Every step keeps the invariant. *)

\* Nothing has been written.
LEMMA InitInv == Init => IInv
<1> SUFFICES ASSUME Init PROVE IInv
  OBVIOUS
<1>1. /\ 0 \in Clock /\ StampModulus - 1 \in Clock /\ Control \in All /\ 0 \in Int /\ 0 \in Nat
      /\ 0 \in 0..3 /\ TRUE \in BOOLEAN /\ FALSE \in BOOLEAN
  BY StampAssumption DEF Clock, All
<1>2. NewWriter \in Writers
  BY <1>1 DEF NewWriter, Writers
<1>3. NewReader \in Readers
  BY <1>1 DEF NewReader, Readers
<1>4. Shape
  <2>1. w \in [All -> Writers] /\ r \in [All -> Readers]
    BY <1>2, <1>3 DEF Init
  <2>2. /\ queue \in Seq(All) /\ Distinct(queue) /\ wire \in Seq(Chunks)
        /\ selfSize \in AllSizes /\ peerSize \in AllSizes /\ told \in AllSizes
        /\ pending \subseteq Sizes /\ crossed \in BOOLEAN /\ ahead \in BOOLEAN
        /\ broken \in {"no", "refused", "invalid state", "out of step"}
    <3>1. queue = <<>> /\ wire = <<>>
      BY DEF Init
    <3>2. <<>> \in Seq(All) /\ <<>> \in Seq(Chunks) /\ Distinct(<<>>)
      BY DEF Distinct
    <3>3. DefaultChunkSize \in AllSizes
      BY DEF AllSizes
    <3>4. /\ selfSize \in AllSizes /\ peerSize \in AllSizes /\ told \in AllSizes
          /\ pending \subseteq Sizes /\ crossed \in BOOLEAN /\ ahead \in BOOLEAN
          /\ broken \in {"no", "refused", "invalid state", "out of step"}
      BY <3>3 DEF Init
    <3> QED BY <3>1, <3>2, <3>4
  <2>3. /\ sent \in [All -> Seq(Messages)] /\ \A id \in All : sent[id] \in Seq(MessagesOf(id))
        /\ got \in [All -> Seq(ReadMessages)]
    BY DEF Init
  <2>4. \A id \in All : w[id].rest <= w[id].len /\ r[id].have <= r[id].len
    BY DEF Init, NewWriter, NewReader
  <2>5. \A id \in All : Queued(id) => sent[id] # <<>>
    BY DEF Init, Queued, Free
  <2> QED BY <2>1, <2>2, <2>3, <2>4, <2>5 DEF Shape
<1>5. Now.r = r /\ Now.size = peerSize /\ \A id \in All : Now.n[id] = 0
  BY DEF Now, Init
<1>6. Now \in ReadingEnds
  <2>1. [id \in All |-> Len(got[id])] \in [All -> Nat]
    BY DEF Init
  <2> QED BY <2>1, <1>4 DEF Now, ReadingEnds, Shape
<1>7. \A id \in All : Level(id, Now.r[id], Now.n[id])
  <2> SUFFICES ASSUME NEW id \in All PROVE Level(id, Now.r[id], Now.n[id])
    OBVIOUS
  <2>1. w[id] = NewWriter /\ Now.r[id] = NewReader /\ Now.n[id] = 0 /\ sent[id] = <<>> /\ Free(id)
    BY <1>5 DEF Init, Free
  <2>2. SameHeader(NewWriter, NewReader)
    BY DEF SameHeader, NewWriter, NewReader
  <2>3. Resting(NewReader, <<>>, 0)
    BY DEF Resting, NewReader, Started
  <2>4. NewReader.delta = NewWriter.hdelta /\ SameStamp(NewWriter, NewReader, <<>>, 0)
    BY DEF SameStamp, NewWriter, NewReader
  <2> QED BY <2>1, <2>2, <2>3, <2>4 DEF Level, SameClock, Queued
<1>8. Announced /\ Now.size = told
  <2>1. Free(Control) /\ pending = {} /\ Now.size = told /\ told = selfSize
    BY <1>5 DEF Init, Free
  <2> QED BY <2>1 DEF Announced, LastSize, Queued
<1>9. Leads(ahead, sent, Now, wire, Now)
  BY <1>6, LeadsNowhere DEF Init
<1>10. ReadsAhead
  BY <1>6, <1>7, <1>8, <1>9 DEF ReadsAhead, Abreast
<1>11. Failed
  BY DEF Init, Failed
<1> QED BY <1>4, <1>10, <1>11 DEF IInv

\* Writer x when message m has been put into it.
FilledWith(x, m) ==
  [x EXCEPT !.ts = m.ts, !.len = m.len, !.sid = m.sid, !.rest = m.len, !.new = TRUE]

\* Its fields.
LEMMA Filled ==
  ASSUME NEW x \in Writers, NEW id \in All, NEW m \in MessagesOf(id),
         NEW v, v = FilledWith(x, m)
  PROVE  /\ v \in Writers /\ v.ts = m.ts /\ v.len = m.len /\ v.sid = m.sid /\ v.rest = m.len /\ v.new
         /\ v.hts = x.hts /\ v.hdelta = x.hdelta /\ v.hlen = x.hlen
         /\ v.htype = x.htype /\ v.hsid = x.hsid
<1>1. m.ts \in Clock /\ m.len \in Nat /\ m.sid \in Nat
  BY MessageFields
<1>2. PICK yes \in BOOLEAN : yes = TRUE
  OBVIOUS
<1>3. v = [x EXCEPT !.ts = m.ts, !.len = m.len, !.sid = m.sid, !.rest = m.len, !.new = yes]
  BY <1>2 DEF FilledWith
<1>a. PICK x1 : x1 = [x EXCEPT !.ts = m.ts, !.len = m.len]
  OBVIOUS
<1>b. x1 \in Writers
  BY <1>a, <1>1 DEF Writers
<1>c. PICK x2 : x2 = [x1 EXCEPT !.sid = m.sid, !.rest = m.len, !.new = yes]
  OBVIOUS
<1>d. x2 \in Writers
  BY <1>b, <1>c, <1>1, <1>2 DEF Writers
<1>4. v \in Writers
  BY <1>3, <1>a, <1>c, <1>d
<1>5. /\ v.ts = m.ts /\ v.len = m.len /\ v.sid = m.sid /\ v.rest = m.len /\ v.new = yes
      /\ v.hts = x.hts /\ v.hdelta = x.hdelta /\ v.hlen = x.hlen
      /\ v.htype = x.htype /\ v.hsid = x.hsid
  BY <1>3 DEF Writers
<1> QED BY <1>2, <1>4, <1>5

\* A message is scheduled: neither the wire nor the reading end is touched, and
\* both are level with the writing end again.
LEMMA ScheduledStep ==
  ASSUME Shape, ReadsAhead, NEW id \in All, NEW m \in MessagesOf(id), Scheduled(id, m),
         UNCHANGED <<r, wire, peerSize, broken, got>>, UNCHANGED <<told, ahead>>
  PROVE  /\ w' \in [All -> Writers] /\ queue' \in Seq(All) /\ Distinct(queue)'
         /\ sent' \in [All -> Seq(Messages)] /\ \A j \in All : sent'[j] \in Seq(MessagesOf(j))
         /\ \A j \in All : w'[j].rest <= w'[j].len
         /\ \A j \in All : Free(j)' <=> Free(j) /\ j # id
         /\ \A j \in All : Queued(j)' => sent'[j] # <<>>
         /\ sent'[id][Len(sent'[id])] = m
         /\ broken = "no" => \E e \in ReadingEnds :
              Leads(ahead', sent', Now', wire', e) /\ Abreast(e)'
<1>1. /\ w \in [All -> Writers] /\ queue \in Seq(All) /\ Distinct(queue)
      /\ sent \in [All -> Seq(Messages)] /\ \A j \in All : sent[j] \in Seq(MessagesOf(j))
      /\ \A j \in All : w[j].rest <= w[j].len
      /\ wire \in Seq(Chunks)
  BY DEF Shape
<1>2. /\ Free(id)
      /\ w' = [w EXCEPT ![id].ts = m.ts, ![id].len = m.len, ![id].sid = m.sid,
                        ![id].rest = m.len, ![id].new = TRUE]
      /\ queue' = Append(queue, id)
      /\ sent' = [sent EXCEPT ![id] = Append(@, m)]
  BY DEF Scheduled
<1>3. /\ m \in Messages /\ m.len \in Nat
  BY MessageFields
<1> PICK v : v = FilledWith(w[id], m)
  OBVIOUS
<1>4. /\ v \in Writers /\ v.ts = m.ts /\ v.len = m.len /\ v.sid = m.sid /\ v.rest = m.len /\ v.new
      /\ v.hts = w[id].hts /\ v.hdelta = w[id].hdelta /\ v.hlen = w[id].hlen
      /\ v.htype = w[id].htype /\ v.hsid = w[id].hsid
  <2>1. PICK x \in Writers : x = w[id]
    BY <1>1
  <2>2. v = FilledWith(x, m)
    BY <2>1
  <2>3. /\ v \in Writers /\ v.ts = m.ts /\ v.len = m.len /\ v.sid = m.sid /\ v.rest = m.len /\ v.new
        /\ v.hts = x.hts /\ v.hdelta = x.hdelta /\ v.hlen = x.hlen
        /\ v.htype = x.htype /\ v.hsid = x.hsid
    BY <2>2, Filled
  <2> QED BY <2>1, <2>3
<1>5. w' = [w EXCEPT ![id] = v]
  BY <1>1, <1>2 DEF FilledWith
<1>6. /\ w' \in [All -> Writers] /\ w'[id] = v
      /\ \A j \in All \ {id} : w'[j] = w[j]
  BY <1>1, <1>4, <1>5
<1>7. /\ queue' \in Seq(All) /\ Distinct(queue)'
      /\ \A j \in All : Free(j)' <=> Free(j) /\ j # id
      /\ queue'[1] = IF queue = <<>> THEN id ELSE queue[1]
  <2>1. Without(queue, id)
    BY <1>2 DEF Free, Without
  <2>2. Distinct(queue)' <=> Distinct(queue')
    BY DEF Distinct
  <2>3. /\ queue' \in Seq(All) /\ Distinct(queue')
        /\ \A j : Without(queue', j) <=> Without(queue, j) /\ j # id
        /\ queue'[1] = IF queue = <<>> THEN id ELSE queue[1]
    <3>1. PICK q \in Seq(All) : q = queue
      BY <1>1
    <3>2. queue' = Append(q, id) /\ Distinct(q) /\ Without(q, id)
      BY <2>1, <3>1, <1>1, <1>2
    <3>3. /\ Append(q, id) \in Seq(All) /\ Distinct(Append(q, id))
          /\ \A j : Without(Append(q, id), j) <=> Without(q, j) /\ j # id
          /\ Append(q, id)[1] = IF q = <<>> THEN id ELSE q[1]
      BY <3>2, QueueAppend
    <3> QED BY <3>1, <3>2, <3>3
  <2>4. \A j : (Free(j)' <=> Without(queue', j)) /\ (Free(j) <=> Without(queue, j))
    BY DEF Free, Without
  <2> QED BY <2>2, <2>3, <2>4
<1>8. /\ sent' \in [All -> Seq(Messages)]
      /\ \A j \in All \ {id} : sent'[j] = sent[j]
      /\ sent'[id] = Append(sent[id], m)
  BY <1>1, <1>2, <1>3
<1>9. /\ \A j \in All : sent'[j] \in Seq(MessagesOf(j))
      /\ Len(sent'[id]) = Len(sent[id]) + 1 /\ Len(sent[id]) \in Nat
      /\ sent'[id][Len(sent'[id])] = m
  <2>1. sent[id] \in Seq(MessagesOf(id))
    BY <1>1
  <2>2. /\ Append(sent[id], m) \in Seq(MessagesOf(id))
        /\ Len(Append(sent[id], m)) = Len(sent[id]) + 1 /\ Len(sent[id]) \in Nat
        /\ Append(sent[id], m)[Len(sent[id]) + 1] = m
    BY <2>1
  <2> QED BY <2>2, <1>1, <1>8
<1>10. \A j \in All : w'[j].rest <= w'[j].len
  <2>1. v.rest <= v.len
    BY <1>3, <1>4
  <2> QED BY <2>1, <1>1, <1>6
<1>12. \A j \in All : Queued(j)' => sent'[j] # <<>>
  <2>1. sent'[id] # <<>>
    BY <1>9
  <2>2. \A j \in All \ {id} : Queued(j)' => Queued(j)
    BY <1>7 DEF Queued
  <2> QED BY <2>1, <2>2, <1>8 DEF Shape
<1>11. ASSUME broken = "no"
       PROVE  \E e \in ReadingEnds : Leads(ahead', sent', Now', wire', e) /\ Abreast(e)'
  <2>1. PICK e \in ReadingEnds : Leads(ahead, sent, Now, wire, e) /\ Abreast(e)
    BY <1>11 DEF ReadsAhead
  <2>2. Leads(ahead, sent', Now, wire, e)
    <3>1. \A a \in ReadingEnds, c \in Chunks, b \in ReadingEnds :
            Step(ahead, sent, a, c, b) => Step(ahead, sent', a, c, b)
      BY <1>1, <1>2, <1>3, StepMore
    <3> QED BY <3>1, <2>1, <1>1, LeadsMore
  <2>3. Now' = Now /\ wire' = wire
    BY DEF Now
  <2>4. \A j \in All : Level(j, e.r[j], e.n[j])
    BY <2>1 DEF Abreast
  <2>5. ASSUME NEW j \in All \ {id} PROVE Level(j, e.r[j], e.n[j])'
    <3>1. PICK y, n : y = e.r[j] /\ n = e.n[j]
      OBVIOUS
    <3>2. Level(j, y, n)
      BY <3>1, <2>4
    <3>3. w'[j] = w[j] /\ sent'[j] = sent[j] /\ (Free(j)' <=> Free(j))
      BY <1>6, <1>7, <1>8
    <3>4. Level(j, y, n)'
      BY <3>2, <3>3, LevelSame
    <3> QED BY <3>1, <3>4
  <2>6. Level(id, e.r[id], e.n[id])'
    <3>1. PICK y, n : y = e.r[id] /\ n = e.n[id]
      OBVIOUS
    <3>2. /\ SameHeader(w[id], y) /\ Resting(y, sent[id], n)
          /\ AllAlike(sent[id]) => SameClock(id, w[id], y, sent[id], n)
      BY <3>1, <2>4, <1>2 DEF Level
    <3>3. SameHeader(v, y)
      BY <3>2, <1>4 DEF SameHeader
    <3>4. Writing(v, y, sent'[id], n)
      <4>1. Started(y).have = v.len - v.rest /\ n + 1 = Len(sent'[id])
        BY <3>2, <1>3, <1>4, <1>9 DEF Resting
      <4>2. v.rest > 0 \/ v.len = 0
        BY <1>3, <1>4
      <4> QED BY <4>1, <4>2, <1>4, <1>9 DEF Writing
    <3>5. Queued(id)' /\ ~Free(id)' /\ ~Queued(id)
      BY <1>2, <1>7 DEF Queued
    <3> PICK ss : ss = sent'[id]
      OBVIOUS
    <3>6. ASSUME AllAlike(ss) PROVE SameClock(id, v, y, ss, n)'
      <4>1. sent[id] \in Seq(Messages) /\ n = Len(sent[id]) /\ n \in Nat
        BY <3>2, <1>1 DEF Resting
      <4>2. AllAlike(sent[id]) /\ (n # 0 => ss[1] = sent[id][1])
        <5>1. CASE n = 0
          BY <5>1, <4>1 DEF AllAlike
        <5>2. CASE n # 0
          <6>1. Len(sent[id]) \in 1 .. Len(sent[id])
            BY <5>2, <4>1
          <6>2. Alike(Append(sent[id], m), Len(sent[id]) + 1)
            BY <3>6, <4>1, <1>8, <1>9 DEF AllAlike
          <6>3. /\ Append(sent[id], m)[1] = sent[id][1]
                /\ Alike(sent[id], Len(sent[id]))
            BY <6>1, <6>2, <4>1, <1>3, AlikeMore
          <6> QED BY <6>3, <1>8 DEF AllAlike
        <5> QED BY <5>1, <5>2
      <4>3. y.delta = v.hdelta /\ SameStamp(w[id], y, sent[id], n)
        BY <3>2, <3>5, <4>2, <1>4 DEF SameClock
      <4>4. SameStamp(v, y, ss, n)
        BY <4>2, <4>3, <1>4 DEF SameStamp
      <4>5. SameStamp(v, y, ss, n)' <=> SameStamp(v, y, ss, n)
        BY DEF SameStamp
      <4> QED BY <4>3, <4>4, <4>5, <1>4 DEF SameClock
    <3> QED BY <3>1, <3>3, <3>4, <3>5, <3>6, <1>6 DEF Level
  <2>7. Abreast(e)'
    BY <2>1, <2>5, <2>6 DEF Abreast
  <2> QED BY <2>1, <2>2, <2>3, <2>7
<1> QED BY <1>6, <1>7, <1>8, <1>9, <1>10, <1>11, <1>12
\* Stream.Write: the message is not of the control stream.
LEMMA WriteStep ==
  ASSUME IInv, NEW id \in Streams, NEW ts \in Timestamps, NEW len \in Lengths, NEW sid \in StreamIDs,
         Write(id, ts, len, sid)
  PROVE  IInv'
<1>1. PICK m : m = Message(ts, len, sid, 0)
  OBVIOUS
<1>2. id \in All /\ id # Control /\ Control \in All
  BY CodecAssumption DEF All
<1>3. m \in MessagesOf(id)
  BY <1>1, <1>2 DEF MessagesOf
<1>4. /\ Scheduled(id, m)
      /\ UNCHANGED <<r, wire, selfSize, peerSize, pending, broken, got>>
      /\ UNCHANGED <<told, crossed, ahead>>
  BY <1>1 DEF Write, history
<1>5. Shape /\ ReadsAhead /\ Failed
  BY DEF IInv
<1>6. /\ w' \in [All -> Writers] /\ queue' \in Seq(All) /\ Distinct(queue)'
      /\ sent' \in [All -> Seq(Messages)] /\ \A j \in All : sent'[j] \in Seq(MessagesOf(j))
      /\ \A j \in All : w'[j].rest <= w'[j].len
      /\ \A j \in All : Free(j)' <=> Free(j) /\ j # id
      /\ \A j \in All : Queued(j)' => sent'[j] # <<>>
      /\ broken = "no" => \E e \in ReadingEnds :
           Leads(ahead', sent', Now', wire', e) /\ Abreast(e)'
  BY <1>2, <1>3, <1>4, <1>5, ScheduledStep
<1>7. Shape'
  BY <1>4, <1>5, <1>6 DEF Shape
<1>8. Announced => Announced'
  <2>1. sent'[Control] = sent[Control]
    BY <1>2, <1>4, <1>5 DEF Scheduled, Shape
  <2>2. Queued(Control)' <=> Queued(Control)
    BY <1>2, <1>6 DEF Queued
  <2>3. LastSize' = LastSize
    BY <2>1, <2>2, <1>4 DEF LastSize
  <2> QED BY <2>3, <1>4 DEF Announced
<1>9. ReadsAhead'
  BY <1>4, <1>5, <1>6, <1>8 DEF ReadsAhead
<1>10. Failed'
  BY <1>4, <1>5 DEF Failed
<1> QED BY <1>7, <1>9, <1>10 DEF IInv

\* Stream.WriteSetChunkSize: a call that is alone announces the size there is.
LEMMA AnnounceStep ==
  ASSUME IInv, NEW size \in Sizes, WriteSetChunkSize(size)
  PROVE  IInv'
<1>1. PICK m : m = Message(0, ControlLength, 0, size)
  OBVIOUS
<1>2. Control \in All
  BY DEF All
<1>3. m \in MessagesOf(Control) /\ m.size = size
  BY <1>1 DEF MessagesOf, Message
<1>4. /\ Scheduled(Control, m) /\ size \in pending /\ pending' = pending \ {size}
      /\ UNCHANGED <<r, wire, peerSize, broken, got>> /\ selfSize' = selfSize
      /\ UNCHANGED <<told, ahead>> /\ crossed' = crossed
  BY <1>1 DEF WriteSetChunkSize, history
<1>5. Shape /\ ReadsAhead /\ Failed
  BY DEF IInv
<1>6. /\ w' \in [All -> Writers] /\ queue' \in Seq(All) /\ Distinct(queue)'
      /\ sent' \in [All -> Seq(Messages)] /\ \A j \in All : sent'[j] \in Seq(MessagesOf(j))
      /\ \A j \in All : w'[j].rest <= w'[j].len
      /\ \A j \in All : Free(j)' <=> Free(j) /\ j # Control
      /\ \A j \in All : Queued(j)' => sent'[j] # <<>>
      /\ sent'[Control][Len(sent'[Control])] = m
      /\ broken = "no" => \E e \in ReadingEnds :
           Leads(ahead', sent', Now', wire', e) /\ Abreast(e)'
  BY <1>2, <1>3, <1>4, <1>5, ScheduledStep
<1>7. Shape'
  BY <1>4, <1>5, <1>6 DEF Shape
<1>8. ASSUME Announced PROVE Announced'
  <2>1. LastSize' = size
    BY <1>2, <1>3, <1>6 DEF LastSize, Queued
  <2>2. CASE crossed
    BY <2>2, <1>4 DEF Announced
  <2>3. CASE pending = {selfSize}
    <3>1. pending' = {} /\ size = selfSize'
      BY <2>3, <1>4
    <3> QED BY <3>1, <2>1 DEF Announced
  <2>4. pending # {}
    BY <1>4
  <2> QED BY <2>2, <2>3, <2>4, <1>8 DEF Announced
<1>9. ReadsAhead'
  BY <1>4, <1>5, <1>6, <1>8 DEF ReadsAhead
<1>10. Failed'
  BY <1>4, <1>5 DEF Failed
<1> QED BY <1>7, <1>9, <1>10 DEF IInv

\* The wire, the reading end and what is queued stay: so does what is on the way.
LEMMA AheadSame ==
  ASSUME ReadsAhead, UNCHANGED <<w, r, queue, wire, peerSize, broken, sent, got>>,
         UNCHANGED <<told, ahead>>, Announced => Announced'
  PROVE  ReadsAhead'
<1>1. Now' = Now
  BY DEF Now
<1> SUFFICES ASSUME broken' = "no"
             PROVE  /\ Announced'
                    /\ \E e \in ReadingEnds : Leads(ahead', sent', Now', wire', e) /\ Abreast(e)'
  BY DEF ReadsAhead
<1>2. PICK e \in ReadingEnds : Leads(ahead, sent, Now, wire, e) /\ Abreast(e)
  BY DEF ReadsAhead
<1>3. Leads(ahead', sent', Now', wire', e)
  BY <1>1, <1>2
<1>4. ASSUME NEW j \in All PROVE Level(j, e.r[j], e.n[j])'
  <2>1. PICK y, n : y = e.r[j] /\ n = e.n[j]
    OBVIOUS
  <2>2. Level(j, y, n)
    BY <1>2, <2>1 DEF Abreast
  <2>3. w'[j] = w[j] /\ sent'[j] = sent[j] /\ (Free(j)' <=> Free(j))
    BY DEF Free
  <2>4. Level(j, y, n)'
    BY <2>2, <2>3, LevelSame
  <2> QED BY <2>1, <2>4
<1>5. Abreast(e)'
  BY <1>2, <1>4 DEF Abreast
<1> QED BY <1>3, <1>5 DEF ReadsAhead

\* Stream.CreateStream changes the size that is announced next.
LEMMA ChangeStep ==
  ASSUME IInv, NEW size \in Sizes, ChangeChunkSize(size)
  PROVE  IInv'
<1>1. /\ selfSize' = size /\ pending' = pending \cup {size}
      /\ crossed' = (crossed \/ pending # {})
      /\ UNCHANGED <<w, r, queue, wire, peerSize, broken, sent, got>>
      /\ UNCHANGED <<told, ahead>>
  BY DEF ChangeChunkSize
<1>2. Shape'
  <2>1. Shape /\ Distinct(queue)
    BY DEF IInv, Shape
  <2>2. Distinct(queue)'
    BY <2>1, <1>1 DEF Distinct
  <2>3. selfSize' \in AllSizes /\ crossed' \in BOOLEAN
    BY <2>1, <1>1 DEF AllSizes, Shape
  <2>4. \A id \in All : Queued(id)' => sent'[id] # <<>>
    BY <2>1, <1>1 DEF Shape, Queued, Free
  <2> QED BY <2>1, <2>2, <2>3, <2>4, <1>1 DEF Shape
<1>3. Announced'
  <2>1. CASE pending = {}
    BY <2>1, <1>1 DEF Announced
  <2>2. CASE pending # {}
    BY <2>2, <1>1 DEF Announced
  <2> QED BY <2>1, <2>2
<1>4. ReadsAhead'
  BY <1>1, <1>3, AheadSame DEF IInv
<1>5. Failed'
  BY <1>1 DEF IInv, Failed
<1> QED BY <1>2, <1>4, <1>5 DEF IInv

\* Nothing moves.
LEMMA StutterStep ==
  ASSUME IInv, UNCHANGED vars
  PROVE  IInv'
<1>1. /\ UNCHANGED <<w, r, queue, wire, peerSize, broken, sent, got>>
      /\ UNCHANGED <<told, ahead>>
      /\ UNCHANGED <<selfSize, pending, crossed>>
  BY DEF vars, history
<1>2. Shape' /\ Failed'
  <2>1. Shape /\ Distinct(queue) /\ Failed
    BY DEF IInv, Shape
  <2>2. Distinct(queue)'
    BY <2>1, <1>1 DEF Distinct
  <2>3. \A id \in All : Queued(id)' => sent'[id] # <<>>
    BY <2>1, <1>1 DEF Shape, Queued, Free
  <2>4. Shape'
    BY <2>1, <2>2, <2>3, <1>1 DEF Shape
  <2> QED BY <2>1, <2>4, <1>1 DEF Failed
<1>3. Announced => Announced'
  BY <1>1 DEF Announced, LastSize, Queued, Free
<1>4. ReadsAhead'
  BY <1>1, <1>3, AheadSame DEF IInv
<1> QED BY <1>2, <1>4 DEF IInv
\* The first in a queue has had its turn, and goes to the end if there is more.
LEMMA QueueTurn ==
  ASSUME queue \in Seq(All), Distinct(queue), queue # <<>>, NEW n \in Nat, NEW rest \in Nat
  PROVE  /\ Turned(queue, n, rest) \in Seq(All) /\ Distinct(Turned(queue, n, rest))
         /\ \A j : Without(Turned(queue, n, rest), j)
                <=> Without(queue, j) \/ (j = Head(queue) /\ ~(n < rest))
<1>p. PICK p : p = Turned(queue, n, rest)
  OBVIOUS
<1>e. p = Tail(queue) \o IF n < rest THEN <<Head(queue)>> ELSE <<>>
  BY <1>p DEF Turned
<1>q. PICK q \in Seq(All) : q = queue /\ Distinct(q) /\ q # <<>>
  OBVIOUS
<1>a. PICK t, h : t = Tail(q) /\ h = Head(q)
  OBVIOUS
<1>1. /\ h \in All /\ t \in Seq(All) /\ Distinct(t) /\ ~Without(q, h)
      /\ \A j : Without(t, j) <=> Without(q, j) \/ j = h
  <2>1. /\ Head(q) \in All /\ Head(q) = q[1] /\ 1 \in 1 .. Len(q)
        /\ Tail(q) \in Seq(All) /\ Distinct(Tail(q))
        /\ \A j : Without(Tail(q), j) <=> Without(q, j) \/ j = Head(q)
    BY <1>q, QueueTail
  <2>2. ~Without(q, Head(q))
    BY <2>1 DEF Without
  <2> QED BY <2>1, <2>2, <1>a
<1>2. CASE n < rest
  <2>1. p = Append(t, h)
    BY <1>e, <1>q, <1>a, <1>1, <1>2
  <2>2. Without(t, h)
    BY <1>1
  <2>3. /\ Append(t, h) \in Seq(All) /\ Distinct(Append(t, h))
        /\ \A j : Without(Append(t, h), j) <=> Without(t, j) /\ j # h
    BY <2>2, <1>1, QueueAppend
  <2> QED BY <2>1, <2>3, <1>p, <1>q, <1>a, <1>1, <1>2
<1>3. CASE ~(n < rest)
  <2>1. p = t
    BY <1>e, <1>q, <1>a, <1>1, <1>3
  <2> QED BY <2>1, <1>p, <1>q, <1>a, <1>1, <1>3
<1> QED BY <1>2, <1>3

\* What reading end e, which is level with the writing end, will be when it has
\* read the chunk that is written now: level with it again.
LEMMA ChunkAhead ==
  ASSUME Shape, NEW id \in All, Queued(id),
         NEW e \in ReadingEnds, \A j \in All : Level(j, e.r[j], e.n[j]),
         NEW c \in Chunks, c.id = id, Carries(c, w[id]), c.n = ChunkLength(w[id].rest, selfSize),
         NEW q, ~q => c.n = ChunkLength(w[id].rest, e.size),
         w' = [w EXCEPT ![id] = WrittenBy(w[id], c.n)], sent' = sent,
         \A j \in All : Free(j)' <=> Free(j) \/ (j = id /\ c.n = w[id].rest),
         NEW f, f = After(sent, e, c)
  PROVE  /\ f \in ReadingEnds /\ Step(q, sent, e, c, f)
         /\ \A j \in All : Level(j, f.r[j], f.n[j])'
         /\ f.size = IF c.n = w[id].rest /\ id = Control
                     THEN Clamp(sent[Control][Len(sent[Control])].size) ELSE e.size
<1> PICK x, y, k, s : x = w[id] /\ y = e.r[id] /\ k = e.n[id] /\ s = sent[id]
  OBVIOUS
<1>1. /\ x \in Writers /\ y \in Readers /\ k \in Nat /\ s \in Seq(MessagesOf(id))
      /\ x.rest <= x.len /\ selfSize \in AllSizes /\ w \in [All -> Writers]
  BY DEF Shape, ReadingEnds
<1>2. /\ SameHeader(x, y) /\ Writing(x, y, s, k)
      /\ AllAlike(s) => SameClock(id, x, y, s, k)
  BY DEF Level
<1> DEFINE z == ReadHeader(y, c)
           v == WrittenBy(x, c.n)
           g == Reads(z, c)
<1>3. /\ z.len - z.have = x.rest /\ z.have \in Nat /\ z.len \in Nat
      /\ Ends(z, c) <=> c.n = x.rest
      /\ SameHeader(v, g)
      /\ c.n # x.rest => Writing(v, g, s, k)
      /\ c.n = x.rest => Resting(g, s, k + 1)
  BY <1>1, <1>2, ChunkRead
<1>4. PICK m \in MessagesOf(id) : m = s[k + 1] /\ Len(s) = k + 1
                                  /\ m.len = x.len /\ m.sid = x.sid /\ m.ts = x.ts
  BY <1>1, <1>2 DEF Writing
<1>5. z.len = m.len /\ z.sid = m.sid
  BY <1>1, <1>2, <1>4, HeaderCarried
<1>6. /\ m.len = 0 => 0 \in Lengths
      /\ id = Control => m.size \in Sizes
  BY <1>4, MessageFields
<1>7. /\ v.hdelta = UpdateWriterHeader(x).hdelta /\ v.ts = x.ts /\ v.hts = x.ts /\ v.hsid = x.sid
      /\ ~v.new /\ v \in Writers
  <2>1. c.n \in 0 .. x.rest
    BY <1>1, ChunkLengthBounds DEF Writers
  <2> QED BY <2>1, <1>1, WrittenFields
<1>8. Alike(s, k + 1) => StampOf(z) = x.ts /\ z.delta = v.hdelta
  <2> SUFFICES ASSUME Alike(s, k + 1) PROVE StampOf(z) = x.ts /\ z.delta = v.hdelta
    OBVIOUS
  <2>1. y.delta = x.hdelta /\ IF ~x.new THEN StampOf(y) = x.ts ELSE SameStamp(x, y, s, k)
    BY <1>2, <1>4 DEF SameClock, AllAlike
  <2>2. x.new \/ Begun(x)
    BY <1>2 DEF Writing
  <2>3. IF x.new THEN SameStamp(x, y, s, k) ELSE Begun(x) /\ StampOf(y) = x.ts
    BY <2>1, <2>2
  <2>4. s[k + 1].sid = x.sid /\ s[k + 1].ts = x.ts
    BY <1>4
  <2>5. StampOf(z) = x.ts /\ z.delta = UpdateWriterHeader(x).hdelta
    BY <2>1, <2>3, <2>4, <1>1, ClockCarried
  <2> QED BY <2>5, <1>7
<1>9. z \in Readers
  BY <1>1, HeaderRead
<1>10. /\ g.delta = z.delta
       /\ Ends(z, c) => g.ts = StampOf(z)
       /\ ~Ends(z, c) => g.ts = z.ts
  BY <1>9, ReadsFields
<1>11. id = Control /\ Ends(z, c) => Told(sent, e) = Clamp(m.size) /\ Told(sent, e) \in AllSizes
  BY <1>4, <1>6, ClampIs DEF Told, AllSizes
<1>12. /\ f \in ReadingEnds
       /\ f.r[id] = g /\ f.n[id] = IF Ends(z, c) THEN k + 1 ELSE k
       /\ \A j \in All \ {id} : f.r[j] = e.r[j] /\ f.n[j] = e.n[j]
       /\ f.size = IF Ends(z, c) /\ id = Control THEN Told(sent, e) ELSE e.size
  <2>1. z = ReadHeader(e.r[c.id], c)
    OBVIOUS
  <2>2. f \in ReadingEnds
    <3>1. c.id = Control /\ Ends(z, c) => Told(sent, e) \in AllSizes
      BY <1>11
    <3> QED BY <2>1, <3>1, AfterEnd
  <2>3. /\ f.r[c.id] = Reads(z, c)
        /\ f.n[c.id] = IF Ends(z, c) THEN e.n[c.id] + 1 ELSE e.n[c.id]
        /\ \A j \in All \ {c.id} : f.r[j] = e.r[j] /\ f.n[j] = e.n[j]
        /\ f.size = IF Ends(z, c) /\ c.id = Control THEN Told(sent, e) ELSE e.size
    BY <2>1, AfterFields
  <2> QED BY <2>1, <2>2, <2>3
<1>13. Step(q, sent, e, c, f)
  <2>1. c.n \in Nat
    BY DEF Chunks
  <2>2. z.have < z.len \/ 0 \in Lengths
    <3>1. x.rest > 0 \/ x.len = 0
      BY <1>2 DEF Writing
    <3>2. x.rest \in Nat /\ (x.len = 0 => 0 \in Lengths)
      BY <1>1, <1>4, <1>6 DEF Writers
    <3>3. x.rest > 0 => z.have < z.len
      <4> HIDE DEF z
      <4> QED BY <3>2, <1>3
    <3> HIDE DEF z
    <3> QED BY <3>1, <3>2, <3>3
  <2>3. k + 1 <= Len(s)
    BY <1>1, <1>4
  <2>4. Tells(s, k + 1, z)
    BY <1>4, <1>5, <1>8 DEF Tells
  <2>5. Fits(q, sent, e, c)
    <3> HIDE DEF z
    <3>1. ~q => c.n = ChunkLength(z.len - z.have, e.size)
      BY <1>3
    <3> USE DEF z
    <3> QED BY <2>1, <2>2, <2>3, <2>4, <3>1, <1>4 DEF Fits
  <2> QED BY <2>5 DEF Step
<1>14. w'[id] = v /\ \A j \in All \ {id} : w'[j] = w[j]
  BY <1>1
<1>15. Level(id, f.r[id], f.n[id])'
  <2>1. Queued(id)' <=> c.n # x.rest
    BY DEF Queued
  <2> PICK gg, vv, zz, n : gg = g /\ vv = v /\ zz = z /\ n = f.n[id]
    OBVIOUS
  <2>2. SameHeader(vv, gg)
    BY <1>3
  <2>3. Queued(id)' => Writing(vv, gg, s, n)
    BY <2>1, <1>3, <1>12
  <2>4. Free(id)' => Resting(gg, s, n)
    BY <2>1, <1>3, <1>12 DEF Queued
  <2>5. ASSUME AllAlike(s) PROVE SameClock(id, vv, gg, s, n)'
    <3>a. Alike(s, k + 1) /\ s[k + 1].sid = s[1].sid /\ k + 1 # 0
      BY <2>5, <1>1, <1>4 DEF AllAlike, Alike
    <3>1. gg.delta = vv.hdelta /\ StampOf(zz) = x.ts /\ gg.delta = zz.delta
      BY <3>a, <1>8, <1>10
    <3>2. CASE Queued(id)'
      <4>1. gg.ts = zz.ts
        BY <3>2, <2>1, <1>3, <1>10
      <4>2. StampOf(gg) = vv.ts
        BY <3>1, <4>1, <1>7 DEF StampOf
      <4> QED BY <3>1, <3>2, <4>2, <1>7 DEF SameClock
    <3>3. CASE ~Queued(id)'
      <4>1. gg.ts = vv.hts
        BY <3>1, <3>3, <2>1, <1>3, <1>7, <1>10
      <4>2. vv.hsid = s[1].sid /\ n = k + 1
        BY <3>3, <3>a, <2>1, <1>3, <1>4, <1>7, <1>12
      <4>3. SameStamp(vv, gg, s, n)'
        BY <4>1, <4>2, <3>a DEF SameStamp
      <4> QED BY <3>1, <3>3, <4>3 DEF SameClock
    <3> QED BY <3>2, <3>3
  <2>6. w'[id] = vv /\ sent'[id] = s
    BY <1>14
  <2>7. Level(id, gg, n)'
    BY <2>2, <2>3, <2>4, <2>5, <2>6 DEF Level
  <2> QED BY <2>7, <1>12
<1>16. ASSUME NEW j \in All \ {id} PROVE Level(j, f.r[j], f.n[j])'
  <2>1. PICK a, n : a = e.r[j] /\ n = e.n[j]
    OBVIOUS
  <2>2. Level(j, a, n) /\ w'[j] = w[j] /\ sent'[j] = sent[j] /\ (Free(j)' <=> Free(j))
    BY <2>1, <1>14
  <2>3. Level(j, a, n)'
    BY <2>2, LevelSame
  <2> QED BY <2>1, <2>3, <1>12
<1>17. f.size = IF c.n = w[id].rest /\ id = Control
                THEN Clamp(sent[Control][Len(sent[Control])].size) ELSE e.size
  BY <1>3, <1>4, <1>11, <1>12
<1> QED BY <1>12, <1>13, <1>15, <1>16, <1>17
\* The scheduler writes the next chunk: the end that has read all of the wire
\* will read this one too.
LEMMA WriteChunkStep ==
  ASSUME IInv, WriteChunk
  PROVE  IInv'
<1>1. Shape /\ ReadsAhead /\ Failed
  BY DEF IInv
<1>2. /\ w \in [All -> Writers] /\ queue \in Seq(All) /\ Distinct(queue) /\ queue # <<>>
      /\ wire \in Seq(Chunks) /\ selfSize \in AllSizes
  BY <1>1 DEF Shape, WriteChunk
<1>a. PICK q \in Seq(All) : q = queue
  BY <1>2
<1>b. PICK id, x, u, n, v :
      /\ id = Head(q) /\ x = w[id] /\ u = UpdateWriterHeader(x)
      /\ n = ChunkLength(u.rest, selfSize) /\ v = [u EXCEPT !.rest = @ - n]
  OBVIOUS
<1>c. PICK c : c = [id |-> id, fmt |-> u.fmt, ts |-> u.hts, delta |-> u.hdelta, len |-> u.hlen,
                  type |-> u.htype, sid |-> u.hsid, n |-> n]
  OBVIOUS
<1>3. /\ w' = [w EXCEPT ![id] = v] /\ wire' = Append(wire, c)
      /\ queue' = Tail(q) \o IF n < u.rest THEN <<Head(q)>> ELSE <<>>
      /\ told' = IF id = Control THEN Clamp(sent[id][Len(sent[id])].size) ELSE told
      /\ ahead' = (ahead \/ /\ n # ChunkLength(u.rest, told)
                            /\ crossed \/ pending # {} \/ ~Free(Control))
      /\ UNCHANGED <<r, selfSize, peerSize, pending, broken, sent, got, crossed>>
  BY <1>a, <1>b, <1>c DEF WriteChunk
<1>4. id \in All /\ id = queue[1] /\ Queued(id)
  <2>1. Head(q) \in All /\ Head(q) = q[1] /\ 1 \in 1 .. Len(q)
    BY <1>2, <1>a, QueueTail
  <2> QED BY <2>1, <1>a, <1>b DEF Queued, Free
<1>5. x \in Writers /\ x.rest <= x.len /\ x.rest \in Nat /\ x.len \in Nat
  <2>1. x \in Writers /\ x.rest <= x.len
    BY <1>1, <1>2, <1>4, <1>b DEF Shape
  <2> QED BY <2>1 DEF Writers
<1>6. u \in Writers /\ u.rest = x.rest /\ n = ChunkLength(x.rest, selfSize) /\ n \in 0 .. x.rest
  <2>1. u \in Writers /\ u.rest = x.rest
    BY <1>5, <1>b, NextHeader
  <2>2. ChunkLength(x.rest, selfSize) \in 0 .. x.rest
    BY <1>2, <1>5, ChunkLengthBounds
  <2> QED BY <2>1, <2>2, <1>b
<1>7. c \in Chunks /\ c.id = id /\ c.n = n /\ Carries(c, x)
  <2>1. n \in Nat
    BY <1>6
  <2>2. c \in Chunks
    BY <2>1, <1>4, <1>6, <1>c DEF Chunks, Writers
  <2> QED BY <2>2, <1>b, <1>c DEF Carries
<1>8. v = WrittenBy(x, c.n) /\ v \in Writers /\ v.rest <= v.len
  <2>1. v = WrittenBy(x, n)
    BY <1>b DEF WrittenBy
  <2>2. v \in Writers /\ v.rest = x.rest - n /\ v.len = x.len
    <3>1. WrittenBy(x, n) \in Writers /\ WrittenBy(x, n).rest = x.rest - n
          /\ WrittenBy(x, n).len = x.len
      BY <1>5, <1>6, WrittenFields
    <3> QED BY <2>1, <3>1
  <2> QED BY <2>1, <2>2, <1>5, <1>6, <1>7
<1>9. /\ queue' \in Seq(All) /\ Distinct(queue)'
      /\ \A j \in All : Free(j)' <=> Free(j) \/ (j = id /\ n = x.rest)
  <2>1. PICK p : p = queue'
    OBVIOUS
  <2>2. PICK rest \in Nat : rest = x.rest
    BY <1>5
  <2>3. /\ p \in Seq(All) /\ Distinct(p)
        /\ \A j : Without(p, j) <=> Without(queue, j) \/ (j = id /\ ~(n < rest))
    <3>1. p = Turned(queue, n, rest)
      BY <2>1, <2>2, <1>a, <1>3, <1>6 DEF Turned
    <3>2. n \in Nat /\ id = Head(queue)
      BY <1>6, <1>a, <1>b
    <3>3. /\ p \in Seq(All) /\ Distinct(p)
          /\ \A j : Without(p, j) <=> Without(queue, j) \/ (j = Head(queue) /\ ~(n < rest))
      <4>1. queue \in Seq(All) /\ Distinct(queue) /\ queue # <<>>
        BY <1>2
      <4>2. /\ Turned(queue, n, rest) \in Seq(All) /\ Distinct(Turned(queue, n, rest))
            /\ \A j : Without(Turned(queue, n, rest), j)
                   <=> Without(queue, j) \/ (j = Head(queue) /\ ~(n < rest))
        BY <4>1, <3>2, <2>2, QueueTurn
      <4> QED BY <4>2, <3>1
    <3> QED BY <3>2, <3>3
  <2>4. Distinct(queue)' <=> Distinct(p)
    BY <2>1 DEF Distinct
  <2>5. ~(n < rest) <=> n = x.rest
    BY <2>2, <1>5, <1>6
  <2>6. ASSUME NEW j \in All PROVE Free(j)' <=> Free(j) \/ (j = id /\ n = x.rest)
    <3>1. Free(j)' <=> Without(p, j)
      BY <2>1 DEF Free, Without
    <3>2. Free(j) <=> Without(queue, j)
      BY DEF Free, Without
    <3> QED BY <3>1, <3>2, <2>3, <2>5
  <2> QED BY <2>1, <2>3, <2>4, <2>6
<1>10. Shape'
  <2>1. w' \in [All -> Writers] /\ wire' \in Seq(Chunks)
    <3>1. w' \in [All -> Writers]
      BY <1>2, <1>3, <1>8
    <3>2. Append(wire, c) \in Seq(Chunks)
      BY <1>2, <1>7
    <3> QED BY <3>1, <3>2, <1>3
  <2>2. \A j \in All : w'[j].rest <= w'[j].len
    BY <1>1, <1>2, <1>3, <1>8 DEF Shape
  <2>3. told' \in AllSizes
    <3>1. CASE id = Control
      <4>1. sent[id] \in Seq(MessagesOf(id)) /\ sent[id] # <<>>
        BY <1>1, <1>4 DEF Shape
      <4>2. PICK m \in MessagesOf(id) : m = sent[id][Len(sent[id])]
        BY <4>1
      <4>3. m.size \in AllSizes
        BY <3>1, <1>4, MessageFields DEF AllSizes
      <4> QED BY <3>1, <4>2, <4>3, <1>3, ClampIs
    <3>2. CASE id # Control
      BY <3>2, <1>1, <1>3 DEF Shape
    <3> QED BY <3>1, <3>2
  <2>4. ahead' \in BOOLEAN
    BY <1>1, <1>3 DEF Shape
  <2>5. \A j \in All : Queued(j)' => sent'[j] # <<>>
    BY <1>1, <1>3, <1>9 DEF Shape, Queued
  <2> QED BY <2>1, <2>2, <2>3, <2>4, <2>5, <1>1, <1>3, <1>9 DEF Shape
<1>11. ASSUME broken = "no"
       PROVE  /\ Announced'
              /\ \E f \in ReadingEnds : Leads(ahead', sent, Now, wire', f) /\ Abreast(f)'
  <2>1. PICK e \in ReadingEnds : Leads(ahead, sent, Now, wire, e) /\ Abreast(e)
    BY <1>1, <1>11 DEF ReadsAhead
  <2>2. \A j \in All : Level(j, e.r[j], e.n[j])
    BY <2>1 DEF Abreast
  <2>3. e.n[id] \in Nat /\ e.size \in AllSizes /\ e.size = told /\ Announced
    BY <2>1, <1>1, <1>4, <1>11 DEF ReadingEnds, Abreast, ReadsAhead
  <2>4. id = Control => x.rest = 1 /\ n = 1
    <3> SUFFICES ASSUME id = Control PROVE x.rest = 1 /\ n = 1
      OBVIOUS
    <3>1. Writing(x, e.r[id], sent[id], e.n[id])
      BY <2>2, <1>4, <1>b DEF Level
    <3>2. PICK m \in MessagesOf(id) : m = sent[id][e.n[id] + 1] /\ m.len = x.len
      <4>1. sent[id] \in Seq(MessagesOf(id))
        BY <1>1, <1>4 DEF Shape
      <4> QED BY <3>1, <4>1, <2>3 DEF Writing
    <3>3. x.len = 1
      BY <3>2, <1>4, MessageFields
    <3>4. x.rest = 1
      BY <3>1, <3>3, <1>5 DEF Writing
    <3>5. n > 0
      <4>1. ChunkLength(x.rest, selfSize) > 0
        <5>1. x.rest \in Nat /\ selfSize \in AllSizes /\ x.rest > 0
          BY <3>4, <1>2
        <5> QED BY <5>1, ChunkLengthBounds
      <4> QED BY <4>1, <1>6
    <3> QED BY <3>4, <3>5, <1>6
  <2>5. x.rest <= ProtocolMax
    <3>1. Writing(x, e.r[id], sent[id], e.n[id])
      BY <2>2, <1>4, <1>b DEF Level
    <3>2. PICK m \in MessagesOf(id) : m = sent[id][e.n[id] + 1] /\ m.len = x.len
      <4>1. sent[id] \in Seq(MessagesOf(id))
        BY <1>1, <1>4 DEF Shape
      <4> QED BY <3>1, <4>1, <2>3 DEF Writing
    <3>3. x.len <= ProtocolMax
      BY <3>2, <1>4, MessageFields
    <3> QED BY <3>3, <1>5, CodecAssumption
  <2>6. ~ahead' => c.n = ChunkLength(x.rest, e.size)
    <3> SUFFICES ASSUME ~ahead', n # ChunkLength(x.rest, told) PROVE FALSE
      BY <2>3, <1>7
    <3>1. ~crossed /\ pending = {} /\ Free(Control)
      BY <1>3, <1>6
    <3>2. Clamp(selfSize) = Clamp(told)
      BY <3>1, <2>3 DEF Announced, LastSize, Queued
    <3>3. told \in AllSizes
      BY <2>3
    <3>4. ChunkLength(x.rest, selfSize) = ChunkLength(x.rest, told)
      BY <3>2, <3>3, <2>5, <1>2, <1>5, SameCut
    <3> QED BY <3>4, <1>6
  <2>f. PICK f : f = After(sent, e, c)
    OBVIOUS
  <2>7. /\ f \in ReadingEnds /\ Step(ahead', sent, e, c, f)
        /\ \A j \in All : Level(j, f.r[j], f.n[j])'
        /\ f.size = IF c.n = x.rest /\ id = Control
                    THEN Clamp(sent[Control][Len(sent[Control])].size) ELSE e.size
    <3>h. PICK h : h = ahead'
      OBVIOUS
    <3>1. w' = [w EXCEPT ![id] = WrittenBy(w[id], c.n)] /\ sent' = sent
      BY <1>3, <1>8, <1>b
    <3>2. \A j \in All : Free(j)' <=> Free(j) \/ (j = id /\ c.n = w[id].rest)
      BY <1>7, <1>9, <1>b
    <3>3. Carries(c, w[id]) /\ c.n = ChunkLength(w[id].rest, selfSize)
      BY <1>6, <1>7, <1>b
    <3>4. ~h => c.n = ChunkLength(w[id].rest, e.size)
      BY <2>6, <3>h, <1>b
    <3>5. Shape /\ id \in All /\ Queued(id) /\ e \in ReadingEnds /\ c \in Chunks /\ c.id = id
      BY <2>1, <1>1, <1>4, <1>7
    <3>6. /\ f \in ReadingEnds /\ Step(h, sent, e, c, f)
          /\ \A j \in All : Level(j, f.r[j], f.n[j])'
          /\ f.size = IF c.n = w[id].rest /\ id = Control
                      THEN Clamp(sent[Control][Len(sent[Control])].size) ELSE e.size
      BY <3>1, <3>2, <3>3, <3>4, <3>5, <2>2, <2>f, ChunkAhead
    <3> QED BY <3>6, <3>h, <1>b
  <2>8. Leads(ahead', sent, Now, wire', f)
    <3>1. PICK p, h : p = ahead /\ h = ahead'
      OBVIOUS
    <3>2. (h => h) /\ (p => h)
      BY <3>1, <1>3
    <3>3. Leads(h, sent, Now, wire, e)
      <4>1. \A a \in ReadingEnds, d \in Chunks, g \in ReadingEnds :
              Step(p, sent, a, d, g) => Step(h, sent, a, d, g)
        BY <3>2 DEF Step, Fits
      <4> QED BY <4>1, <3>1, <2>1, <1>2, LeadsMore
    <3>4. Leads(h, sent, Now, Append(wire, c), f)
      <4>1. wire \in Seq(Chunks) /\ c \in Chunks /\ f \in ReadingEnds /\ Step(h, sent, e, c, f)
        BY <2>7, <3>1, <1>2, <1>7
      <4> QED BY <4>1, <3>3, LeadsOn
    <3> QED BY <3>1, <3>4, <1>3
  <2>9. f.size = told' /\ Announced'
    <3>a. Control \in All
      BY DEF All
    <3>1. CASE id = Control
      <4>1. Queued(Control) /\ c.n = x.rest /\ Free(Control)'
        BY <3>1, <3>a, <2>4, <1>4, <1>7, <1>9
      <4>2. f.size = told' /\ told' = Clamp(LastSize) /\ LastSize' = told'
        BY <3>1, <4>1, <2>7, <1>3 DEF LastSize, Queued
      <4>3. LastSize \in AllSizes
        <5>1. Writing(x, e.r[id], sent[id], e.n[id]) /\ sent[id] \in Seq(MessagesOf(id))
          BY <2>2, <1>1, <1>4, <1>b DEF Level, Shape
        <5>2. PICK m \in MessagesOf(id) : m = sent[id][Len(sent[id])]
          BY <5>1, <2>3 DEF Writing
        <5>3. m.size \in AllSizes
          BY <3>1, <5>2, <1>4, MessageFields DEF AllSizes
        <5> QED BY <3>1, <4>1, <5>2, <5>3 DEF LastSize
      <4>4. Clamp(LastSize') = Clamp(LastSize)
        BY <4>2, <4>3, ClampIs
      <4>5. Announced'
        <5>1. PICK size : size = LastSize'
          OBVIOUS
        <5> QED BY <5>1, <4>4, <2>3, <1>3 DEF Announced
      <4> QED BY <4>2, <4>5
    <3>2. CASE id # Control
      <4>1. f.size = told' /\ told' = told
        BY <3>2, <2>3, <2>7, <1>3
      <4>2. LastSize' = LastSize
        BY <3>2, <3>a, <4>1, <1>3, <1>9 DEF LastSize, Queued
      <4> QED BY <4>1, <4>2, <2>3, <1>3 DEF Announced
    <3> QED BY <3>1, <3>2
  <2> QED BY <2>7, <2>8, <2>9 DEF Abreast
<1>12. ReadsAhead'
  <2>1. Now' = Now
    BY <1>3 DEF Now
  <2> SUFFICES ASSUME broken' = "no"
               PROVE  /\ Announced'
                      /\ \E e \in ReadingEnds : Leads(ahead', sent', Now', wire', e) /\ Abreast(e)'
    BY DEF ReadsAhead
  <2>2. Announced'
    BY <1>3, <1>11
  <2>3. PICK e \in ReadingEnds : Leads(ahead', sent, Now, wire', e) /\ Abreast(e)'
    BY <1>3, <1>11
  <2> QED BY <2>1, <2>2, <2>3, <1>3
<1>13. Failed'
  BY <1>1, <1>3 DEF Failed
<1> QED BY <1>10, <1>12, <1>13 DEF IInv
\* The chunk that is read next is the one the reading end expects: it belongs to
\* the message after those that have been read.
LEMMA Expected ==
  ASSUME IInv, broken = "no", wire # <<>>,
         NEW c, c = Head(wire), NEW x, x = ReadHeader(r[c.id], c)
  PROVE  /\ c \in Chunks /\ c.id \in All /\ x \in Readers
         /\ ~ahead => c.n = ChunkLength(x.len - x.have, peerSize)
         /\ x.have < x.len \/ 0 \in Lengths
         /\ Len(got[c.id]) \in Nat /\ Len(got[c.id]) < Len(sent[c.id])
         /\ sent[c.id][Len(got[c.id]) + 1] \in MessagesOf(c.id)
         /\ Tells(sent[c.id], Len(got[c.id]) + 1, x)
         /\ Announced
         /\ \E e \in ReadingEnds :
              Leads(ahead, sent, After(sent, Now, c), Tail(wire), e) /\ Abreast(e)
<1>1. Shape /\ ReadsAhead
  BY DEF IInv
<1>2. /\ wire \in Seq(Chunks) /\ r \in [All -> Readers]
      /\ \A id \in All : sent[id] \in Seq(MessagesOf(id)) /\ got[id] \in Seq(ReadMessages)
  BY <1>1 DEF Shape
<1>3. c \in Chunks /\ c.id \in All
  <2>1. c \in Chunks
    BY <1>2
  <2> QED BY <2>1 DEF Chunks
<1>4. x \in Readers
  BY <1>2, <1>3, HeaderRead
<1>5. PICK e \in ReadingEnds : Leads(ahead, sent, Now, wire, e) /\ Abreast(e)
  BY <1>1 DEF ReadsAhead
<1>6. PICK f \in ReadingEnds : Step(ahead, sent, Now, c, f) /\ Leads(ahead, sent, f, Tail(wire), e)
  BY <1>2, <1>5, LeadsOff
<1>7. Now.r = r /\ Now.size = peerSize /\ Now.n[c.id] = Len(got[c.id])
  BY <1>3 DEF Now
<1>8. f = After(sent, Now, c) /\ Fits(ahead, sent, Now, c)
  BY <1>6 DEF Step
<1>9. /\ ~ahead => c.n = ChunkLength(x.len - x.have, peerSize)
      /\ x.have < x.len \/ 0 \in Lengths
      /\ Len(got[c.id]) + 1 <= Len(sent[c.id])
      /\ Tells(sent[c.id], Len(got[c.id]) + 1, x)
  BY <1>7, <1>8 DEF Fits
<1>10. /\ Len(got[c.id]) \in Nat /\ Len(got[c.id]) < Len(sent[c.id])
       /\ sent[c.id][Len(got[c.id]) + 1] \in MessagesOf(c.id)
  <2>1. sent[c.id] \in Seq(MessagesOf(c.id)) /\ got[c.id] \in Seq(ReadMessages)
    BY <1>2, <1>3
  <2>2. Len(got[c.id]) \in Nat /\ Len(sent[c.id]) \in Nat
    BY <2>1
  <2>3. Len(got[c.id]) + 1 \in 1 .. Len(sent[c.id])
    BY <2>2, <1>9
  <2> QED BY <2>1, <2>2, <2>3
<1>11. Announced /\ Leads(ahead, sent, After(sent, Now, c), Tail(wire), e) /\ Abreast(e)
  BY <1>1, <1>5, <1>6, <1>8 DEF ReadsAhead
<1> QED BY <1>3, <1>4, <1>5, <1>9, <1>10, <1>11

\* The reading end has read a chunk: it is now what it was expected to become.
LEMMA NowAfter ==
  ASSUME Shape, NEW c \in Chunks, c.id \in All, NEW x, x = ReadHeader(r[c.id], c),
         r' = [r EXCEPT ![c.id] = Reads(x, c)],
         IF Ends(x, c)
         THEN /\ Len(got[c.id])' = Len(got[c.id]) + 1
              /\ \A id \in All \ {c.id} : got'[id] = got[id]
              /\ peerSize' = IF c.id = Control THEN Told(sent, Now) ELSE peerSize
         ELSE got' = got /\ peerSize' = peerSize
  PROVE  Now' = After(sent, Now, c)
<1>1. Now.r = r /\ Now.size = peerSize /\ Now.n = [id \in All |-> Len(got[id])]
  BY DEF Now
<1>2. Now' = [r |-> r', size |-> peerSize', n |-> [id \in All |-> Len(got'[id])]]
  BY DEF Now
<1>3. CASE Ends(x, c)
  <2>1. [id \in All |-> Len(got'[id])] = [[id \in All |-> Len(got[id])] EXCEPT ![c.id] = @ + 1]
    BY <1>3
  <2> QED BY <2>1, <1>1, <1>2, <1>3 DEF After
<1>4. CASE ~Ends(x, c)
  BY <1>1, <1>2, <1>4 DEF After
<1> QED BY <1>3, <1>4

\* Reading changes nothing at the writing end.
LEMMA AbreastSame ==
  ASSUME NEW e, Abreast(e), UNCHANGED <<w, queue, sent, told>>
  PROVE  Abreast(e)'
<1>1. ASSUME NEW j \in All PROVE Level(j, e.r[j], e.n[j])'
  <2>1. PICK y, n : y = e.r[j] /\ n = e.n[j]
    OBVIOUS
  <2>2. Level(j, y, n)
    BY <2>1 DEF Abreast
  <2>3. w'[j] = w[j] /\ sent'[j] = sent[j] /\ (Free(j)' <=> Free(j))
    BY DEF Free
  <2>4. Level(j, y, n)'
    BY <2>2, <2>3, LevelSame
  <2> QED BY <2>1, <2>4
<1> QED BY <1>1 DEF Abreast

\* The ways in which reading a chunk can end. An invalid state needs an empty
\* message, and falling out of step a change of the size among messages.
LEMMA ReadCases ==
  ASSUME IInv, ReadChunk, NEW c, c = Head(wire), NEW x, x = ReadHeader(r[c.id], c)
  PROVE  /\ broken = "no" /\ wire # <<>> /\ wire' = Tail(wire)
         /\ UNCHANGED <<w, queue, selfSize, pending, sent, told, crossed, ahead>>
         /\ \/ /\ broken' = "invalid state" /\ 0 \in Lengths
               /\ UNCHANGED <<r, peerSize, got>>
            \/ /\ broken' = "out of step" /\ ahead
               /\ UNCHANGED <<r, peerSize, got>>
            \/ /\ r' = [r EXCEPT ![c.id] = Reads(x, c)] /\ x.have + c.n <= x.len
               /\ ~Ends(x, c)
               /\ UNCHANGED <<peerSize, broken, got>>
            \/ /\ r' = [r EXCEPT ![c.id] = Reads(x, c)] /\ x.have + c.n <= x.len
               /\ Ends(x, c)
               /\ got' = [got EXCEPT ![c.id] =
                            Append(@, Message(StampOf(x), x.len, x.sid, Content(c.id)))]
               /\ IF c.id = Control
                  THEN SetChunkSize(Content(c.id))
                  ELSE UNCHANGED <<peerSize, broken>>
<1>1. /\ broken = "no" /\ wire # <<>> /\ wire' = Tail(wire)
      /\ UNCHANGED <<w, queue, selfSize, pending, sent, told, crossed, ahead>>
  BY DEF ReadChunk, history
<1> PICK expect, n : expect = x.len - x.have /\ n = ChunkLength(x.len - x.have, peerSize)
  OBVIOUS
<1>2. \/ /\ expect <= 0
         /\ broken' = "invalid state"
         /\ UNCHANGED <<r, peerSize, got>>
      \/ /\ expect > 0 /\ n # c.n
         /\ broken' = "out of step"
         /\ UNCHANGED <<r, peerSize, got>>
      \/ /\ expect > 0 /\ n = c.n /\ x.have + n # x.len
         /\ r' = [r EXCEPT ![c.id] = [x EXCEPT !.have = @ + n]]
         /\ UNCHANGED <<peerSize, broken, got>>
      \/ /\ expect > 0 /\ n = c.n /\ x.have + n = x.len
         /\ r' = [r EXCEPT ![c.id] = [x EXCEPT !.have = @ + n, !.ts = StampOf(x),
                                               !.completed = TRUE]]
         /\ got' = [got EXCEPT ![c.id] =
                      Append(@, Message(StampOf(x), x.len, x.sid, Content(c.id)))]
         /\ IF c.id = Control
            THEN SetChunkSize(Content(c.id))
            ELSE UNCHANGED <<peerSize, broken>>
  BY DEF ReadChunk
<1>3. /\ x \in Readers /\ peerSize \in AllSizes
      /\ ~ahead => c.n = ChunkLength(x.len - x.have, peerSize)
      /\ x.have < x.len \/ 0 \in Lengths
  <2>1. peerSize \in AllSizes
    BY DEF IInv, Shape
  <2> QED BY <2>1, <1>1, Expected
<1>4. x.len \in Nat /\ x.have \in Nat /\ expect \in Int
  BY <1>3 DEF Readers
<1>5. expect > 0 /\ n = c.n => x.have + c.n <= x.len
  <2> SUFFICES ASSUME expect > 0, n = c.n PROVE x.have + c.n <= x.len
    OBVIOUS
  <2>1. PICK a \in Nat : a = x.len - x.have
    BY <1>4
  <2>2. ChunkLength(a, peerSize) \in 0 .. a
    BY <1>3, ChunkLengthBounds
  <2>3. c.n \in 0 .. a
    BY <2>1, <2>2
  <2>4. PICK h \in Nat, l \in Nat : h = x.have /\ l = x.len
    BY <1>4
  <2>5. PICK k \in 0 .. a : k = c.n
    BY <2>3
  <2>6. a = l - h
    BY <2>1, <2>4
  <2>7. h + k <= l
    <3>1. h \in Nat /\ l \in Nat /\ k \in 0 .. (l - h)
      BY <2>4, <2>5, <2>6
    <3> QED BY <3>1
  <2> QED BY <2>4, <2>5, <2>7
<1>6. CASE expect <= 0 /\ broken' = "invalid state" /\ UNCHANGED <<r, peerSize, got>>
  <2>1. 0 \in Lengths
    <3>1. PICK a \in Nat, b \in Nat : a = x.len /\ b = x.have
      BY <1>4
    <3>2. a - b <= 0
      BY <3>1, <1>6
    <3>3. ~(b < a)
      BY <3>1, <3>2
    <3> QED BY <3>1, <3>3, <1>3
  <2> QED BY <2>1, <1>1, <1>6
<1>7. CASE expect > 0 /\ n # c.n /\ broken' = "out of step" /\ UNCHANGED <<r, peerSize, got>>
  <2>1. ahead
    BY <1>3, <1>7
  <2> QED BY <2>1, <1>1, <1>7
<1>8. CASE /\ expect > 0 /\ n = c.n /\ x.have + n # x.len
           /\ r' = [r EXCEPT ![c.id] = [x EXCEPT !.have = @ + n]]
           /\ UNCHANGED <<peerSize, broken, got>>
  <2>1. ~Ends(x, c)
    BY <1>8 DEF Ends
  <2>2. r' = [r EXCEPT ![c.id] = Reads(x, c)]
    BY <2>1, <1>8 DEF Reads
  <2> QED BY <2>1, <2>2, <1>1, <1>5, <1>8
<1>9. CASE /\ expect > 0 /\ n = c.n /\ x.have + n = x.len
           /\ r' = [r EXCEPT ![c.id] = [x EXCEPT !.have = @ + n, !.ts = StampOf(x),
                                                 !.completed = TRUE]]
           /\ got' = [got EXCEPT ![c.id] =
                        Append(@, Message(StampOf(x), x.len, x.sid, Content(c.id)))]
           /\ IF c.id = Control
              THEN SetChunkSize(Content(c.id))
              ELSE UNCHANGED <<peerSize, broken>>
  <2>1. Ends(x, c)
    BY <1>9 DEF Ends
  <2>2. r' = [r EXCEPT ![c.id] = Reads(x, c)]
    BY <2>1, <1>9 DEF Reads
  <2> QED BY <2>1, <2>2, <1>1, <1>5, <1>9
<1> QED BY <1>2, <1>6, <1>7, <1>8, <1>9

\* The message that is complete now is one that ends with chunk c: where it is
\* put among those read, and what it says of the chunk size.
LEMMA Complete ==
  ASSUME IInv, broken = "no", wire # <<>>,
         NEW c, c = Head(wire), NEW x, x = ReadHeader(r[c.id], c),
         NEW m, m = sent[c.id][Len(got[c.id]) + 1],
         NEW a, a = Message(StampOf(x), x.len, x.sid, Content(c.id))
  PROVE  /\ a \in ReadMessages
         /\ a.len = m.len /\ a.sid = m.sid /\ a.size = m.size /\ m \in Messages
         /\ Alike(sent[c.id], Len(got[c.id]) + 1) => a = m
         /\ c.id = Control => /\ Clamp(Content(c.id)) = Told(sent, Now)
                              /\ Content(c.id) \in Sizes
<1>1. /\ c.id \in All /\ x \in Readers
      /\ Len(got[c.id]) \in Nat /\ Len(got[c.id]) < Len(sent[c.id])
      /\ m \in MessagesOf(c.id) /\ Tells(sent[c.id], Len(got[c.id]) + 1, x)
  BY Expected
<1>2. Content(c.id) = m.size
  BY <1>1 DEF Content
<1>3. /\ m \in Messages /\ m.len \in Nat /\ m.sid \in Nat
      /\ c.id = Control => m.size \in Sizes
      /\ m = Message(m.ts, m.len, m.sid, m.size)
  BY <1>1, MessageFields
<1>4. m.size \in Nat
  <2> DEFINE Calls == {Message(ts, len, sid, 0) : ts \in Timestamps \cup {0}, len \in Lengths,
                                                  sid \in StreamIDs}
             Sets  == {Message(0, ControlLength, 0, size) : size \in Sizes}
  <2>1. ASSUME NEW ts, NEW len, NEW sid, NEW size \in Sizes \cup {0}
        PROVE  Message(ts, len, sid, size).size \in Nat
    <3>1. size \in Nat
      BY CodecAssumption
    <3> QED BY <3>1 DEF Message
  <2>2. \E ts, len, sid : \E size \in Sizes \cup {0} : m = Message(ts, len, sid, size)
    <3>1. 0 \in Sizes \cup {0} /\ Sizes \subseteq Sizes \cup {0}
      OBVIOUS
    <3>2. CASE m \in Calls
      BY <3>1, <3>2
    <3>3. CASE m \in Sets
      BY <3>1, <3>3
    <3>4. Messages = Calls \cup Sets
      BY DEF Messages
    <3> HIDE DEF Calls, Sets
    <3> QED BY <3>2, <3>3, <3>4, <1>3
  <2> QED BY <2>1, <2>2
<1>5. /\ StampOf(x) \in Clock /\ x.len = m.len /\ x.sid = m.sid
      /\ Alike(sent[c.id], Len(got[c.id]) + 1) => StampOf(x) = m.ts
  BY <1>1, StampInClock DEF Tells
<1>6. a \in ReadMessages
  BY <1>2, <1>3, <1>4, <1>5 DEF Message, ReadMessages
<1>7. Alike(sent[c.id], Len(got[c.id]) + 1) => a = m
  BY <1>2, <1>3, <1>5
<1>8. c.id = Control => Clamp(Content(c.id)) = Told(sent, Now)
  BY <1>1, <1>2 DEF Told, Now
<1>9. a.len = m.len /\ a.sid = m.sid /\ a.size = m.size
  BY <1>2, <1>5 DEF Message
<1> QED BY <1>2, <1>3, <1>6, <1>7, <1>8, <1>9
\* A chunk is read: the reading end is one chunk nearer to where it leads, or
\* the connection has ended.
LEMMA ReadChunkStep ==
  ASSUME IInv, ReadChunk
  PROVE  IInv'
<1>a. PICK c, x : c = Head(wire) /\ x = ReadHeader(r[c.id], c)
  OBVIOUS
<1>1. Shape /\ Failed
  BY DEF IInv
<1>2. /\ broken = "no" /\ wire # <<>> /\ wire' = Tail(wire)
      /\ UNCHANGED <<w, queue, selfSize, pending, sent, told, crossed, ahead>>
  BY DEF ReadChunk, history
<1>3. /\ c \in Chunks /\ c.id \in All /\ x \in Readers
      /\ Len(got[c.id]) \in Nat /\ Len(got[c.id]) < Len(sent[c.id])
  BY <1>a, <1>2, Expected
<1>4. ASSUME r' \in [All -> Readers], \A id \in All : r'[id].have <= r'[id].len,
             peerSize' \in AllSizes, got' \in [All -> Seq(ReadMessages)],
             broken' \in {"no", "refused", "invalid state", "out of step"}
      PROVE  Shape'
  <2>1. wire' \in Seq(Chunks)
    BY <1>1, <1>2 DEF Shape
  <2>2. Distinct(queue)'
    BY <1>1, <1>2 DEF Shape, Distinct
  <2>3. \A id \in All : Queued(id)' => sent'[id] # <<>>
    BY <1>1, <1>2 DEF Shape, Queued, Free
  <2> QED BY <2>1, <2>2, <2>3, <1>1, <1>2, <1>4 DEF Shape
<1>5. ASSUME r' = [r EXCEPT ![c.id] = Reads(x, c)], x.have + c.n <= x.len
      PROVE  r' \in [All -> Readers] /\ \A id \in All : r'[id].have <= r'[id].len
  <2>1. /\ Reads(x, c) \in Readers
        /\ Reads(x, c).have = x.have + c.n /\ Reads(x, c).len = x.len
    BY <1>3, ReadsFields
  <2> QED BY <2>1, <1>1, <1>3, <1>5 DEF Shape
<1>6. ASSUME Now' = After(sent, Now, c) PROVE ReadsAhead'
  <2>1. PICK e \in ReadingEnds :
          Leads(ahead, sent, After(sent, Now, c), Tail(wire), e) /\ Abreast(e)
    BY <1>a, <1>2, Expected
  <2>2. Abreast(e)'
    BY <2>1, <1>2, AbreastSame
  <2>3. Leads(ahead', sent', Now', wire', e)
    BY <2>1, <1>2, <1>6
  <2>4. Announced'
    <3>1. Announced
      BY <1>a, <1>2, Expected
    <3> QED BY <3>1, <1>2 DEF Announced, LastSize, Queued, Free
  <2> QED BY <2>1, <2>2, <2>3, <2>4 DEF ReadsAhead
<1>7. ASSUME broken' # "no" PROVE ReadsAhead'
  BY <1>7 DEF ReadsAhead
<1>8. CASE /\ broken' = "invalid state" /\ 0 \in Lengths
           /\ UNCHANGED <<r, peerSize, got>>
  <2>1. Shape'
    BY <1>1, <1>4, <1>8 DEF Shape
  <2>2. ReadsAhead' /\ Failed'
    BY <1>7, <1>8 DEF Failed
  <2> QED BY <2>1, <2>2 DEF IInv
<1>9. CASE /\ broken' = "out of step" /\ ahead
           /\ UNCHANGED <<r, peerSize, got>>
  <2>1. Shape'
    BY <1>1, <1>4, <1>9 DEF Shape
  <2>2. ReadsAhead' /\ Failed'
    BY <1>2, <1>7, <1>9 DEF Failed
  <2> QED BY <2>1, <2>2 DEF IInv
<1>10. CASE /\ r' = [r EXCEPT ![c.id] = Reads(x, c)] /\ x.have + c.n <= x.len
            /\ ~Ends(x, c)
            /\ UNCHANGED <<peerSize, broken, got>>
  <2>1. Shape'
    BY <1>1, <1>4, <1>5, <1>10 DEF Shape
  <2>2. Now' = After(sent, Now, c)
    BY <1>a, <1>1, <1>3, <1>10, NowAfter
  <2>3. Failed'
    BY <1>1, <1>2, <1>10 DEF Failed
  <2> QED BY <2>1, <2>2, <2>3, <1>6 DEF IInv
<1>11. CASE /\ r' = [r EXCEPT ![c.id] = Reads(x, c)] /\ x.have + c.n <= x.len
            /\ Ends(x, c)
            /\ got' = [got EXCEPT ![c.id] =
                         Append(@, Message(StampOf(x), x.len, x.sid, Content(c.id)))]
            /\ IF c.id = Control
               THEN SetChunkSize(Content(c.id))
               ELSE UNCHANGED <<peerSize, broken>>
  <2>a. PICK m, a : /\ m = sent[c.id][Len(got[c.id]) + 1]
                    /\ a = Message(StampOf(x), x.len, x.sid, Content(c.id))
    OBVIOUS
  <2>1. /\ a \in ReadMessages
        /\ c.id = Control => /\ Clamp(Content(c.id)) = Told(sent, Now)
                             /\ Content(c.id) \in Sizes
    BY <1>a, <1>2, <2>a, Complete
  <2>2. got' = [got EXCEPT ![c.id] = Append(@, a)]
    BY <1>11, <2>a
  <2>3. /\ got' \in [All -> Seq(ReadMessages)]
        /\ Len(got'[c.id]) = Len(got[c.id]) + 1
        /\ \A id \in All \ {c.id} : got'[id] = got[id]
    <3>1. got[c.id] \in Seq(ReadMessages) /\ got \in [All -> Seq(ReadMessages)]
      BY <1>1, <1>3 DEF Shape
    <3>2. /\ Append(got[c.id], a) \in Seq(ReadMessages)
          /\ Len(Append(got[c.id], a)) = Len(got[c.id]) + 1
      BY <3>1, <2>1
    <3> QED BY <3>1, <3>2, <2>2, <1>3
  <2>4. /\ peerSize' \in AllSizes
        /\ \/ broken' = "refused"
           \/ broken' = broken /\ peerSize' = IF c.id = Control THEN Told(sent, Now) ELSE peerSize
    <3>1. CASE c.id = Control
      <4>1. Clamp(Content(c.id)) \in AllSizes /\ peerSize \in AllSizes
        BY <3>1, <2>1, <1>1, ClampIs DEF AllSizes, Shape
      <4> QED BY <3>1, <4>1, <2>1, <1>11 DEF SetChunkSize
    <3>2. CASE c.id # Control
      BY <3>2, <1>1, <1>11 DEF Shape
    <3> QED BY <3>1, <3>2
  <2>5. Shape'
    <3>1. broken' \in {"no", "refused", "invalid state", "out of step"}
      BY <2>4, <1>2
    <3> QED BY <3>1, <2>3, <2>4, <1>4, <1>5, <1>11
  <2>6. Failed'
    BY <2>4, <1>2 DEF Failed
  <2>7. ReadsAhead'
    <3>1. CASE broken' = "refused"
      BY <3>1, <1>7
    <3>2. CASE peerSize' = IF c.id = Control THEN Told(sent, Now) ELSE peerSize
      <4>1. Now' = After(sent, Now, c)
        BY <3>2, <2>3, <1>a, <1>1, <1>3, <1>11, NowAfter
      <4> QED BY <4>1, <1>6
    <3> QED BY <3>1, <3>2, <2>4
  <2> QED BY <2>5, <2>6, <2>7 DEF IInv
<1> QED BY <1>a, <1>8, <1>9, <1>10, <1>11, ReadCases

\* Every step keeps the invariant.
LEMMA NextInv == IInv /\ [Next]_vars => IInv'
<1> SUFFICES ASSUME IInv, [Next]_vars PROVE IInv'
  OBVIOUS
<1>1. CASE \E id \in Streams, ts \in Timestamps, len \in Lengths, sid \in StreamIDs :
             Write(id, ts, len, sid)
  BY <1>1, WriteStep
<1>2. CASE \E size \in Sizes : ChangeChunkSize(size)
  BY <1>2, ChangeStep
<1>3. CASE \E size \in Sizes : WriteSetChunkSize(size)
  BY <1>3, AnnounceStep
<1>4. CASE WriteChunk
  BY <1>4, WriteChunkStep
<1>5. CASE ReadChunk
  BY <1>5, ReadChunkStep
<1>6. CASE UNCHANGED vars
  BY <1>6, StutterStep
<1> QED BY <1>1, <1>2, <1>3, <1>4, <1>5, <1>6 DEF Next

\* Reading ahead: what is on the wire leads the reading end to where the writing
\* end is, in every reachable state.
THEOREM ReadingAhead == Spec => []IInv
BY InitInv, NextInv, PTL DEF Spec
-----------------------------------------------------------------------------
(* What follows. *)

\* A queue in which no writer is twice is no longer than there are writers.
LEMMA QueueFits ==
  ASSUME queue \in Seq(All), Distinct(queue)
  PROVE  Len(queue) <= Cardinality(All)
<1> PICK n \in Nat : n = Len(queue)
  OBVIOUS
<1>1. IsFiniteSet(All)
  BY CodecAssumption, FS_AddElement DEF All
<1>2. Cardinality(All) \in Nat
  BY <1>1, FS_CardinalityType
<1>3. IsFiniteSet(1 .. n) /\ Cardinality(1 .. n) = n
  <2>1. IsFiniteSet(1 .. n) /\ Cardinality(1 .. n) = IF 1 > n THEN 0 ELSE n - 1 + 1
    <3>1. 1 \in Int /\ n \in Int
      OBVIOUS
    <3> QED BY <3>1, FS_Interval, Zenon
  <2> QED BY <2>1
<1>4. queue \in [1 .. n -> All]
  OBVIOUS
<1>5. ASSUME Cardinality(All) < n PROVE FALSE
  <2>1. \E i, j \in 1 .. n : i # j /\ queue[i] = queue[j]
    <3>1. PICK f \in [1 .. n -> All] : f = queue
      BY <1>4
    <3>2. \E i, j \in 1 .. n : i # j /\ f[i] = f[j]
      BY <1>1, <1>3, <1>5, FS_PigeonHole
    <3> QED BY <3>1, <3>2
  <2> QED BY <2>1 DEF Distinct
<1> QED BY <1>2, <1>5

\* Both ends of a connection stay well typed, and no writer is scheduled twice
\* (ChunkStreamer.Write, writeChunk, readChunk).
THEOREM Typing == Spec => []TypeOK
<1>1. IInv => TypeOK
  <2> SUFFICES ASSUME IInv PROVE TypeOK
    OBVIOUS
  <2>1. Shape
    BY DEF IInv
  <2>2. Len(queue) <= Cardinality(All)
    BY <2>1, QueueFits DEF Shape
  <2>3. ASSUME NEW id \in All
        PROVE  /\ w[id].rest \in 0..w[id].len /\ w[id].fmt \in 0..3
               /\ r[id].ts \in 0..(StampModulus - 1) /\ r[id].have \in 0..r[id].len
    <3>1. w[id] \in Writers /\ r[id] \in Readers /\ w[id].rest <= w[id].len /\ r[id].have <= r[id].len
      BY <2>1 DEF Shape
    <3> QED BY <3>1 DEF Writers, Readers, Clock
  <2> QED BY <2>1, <2>2, <2>3 DEF Shape, TypeOK
<1> QED BY <1>1, ReadingAhead, PTL

\* A reader never loses the place where a chunk ends, while sizes change among
\* messages and chunks, unless a chunk was cut ahead of its announcement
\* (CreateStream, WriteSetChunkSize, readChunk).
THEOREM StaysInStep == Spec => []InStep
<1>1. IInv => InStep
  BY DEF IInv, Failed, InStep
<1> QED BY <1>1, ReadingAhead, PTL

\* Of messages that are not empty a reader never fails with an invalid state
\* (the check of expectLen in readChunk): then, unless a chunk was cut ahead of
\* its announcement, only a chunk size above the limit ends the connection.
THEOREM OnlyRefused ==
  ASSUME 0 \notin Lengths
  PROVE  Spec => [](~ahead => broken \in {"no", "refused"})
<1>1. IInv => (~ahead => broken \in {"no", "refused"})
  BY DEF IInv, Failed, Shape
<1> QED BY <1>1, ReadingAhead, PTL

-----------------------------------------------------------------------------
(* The codec is a MessageDelivery. *)

\* No more messages are read than were written.
GotFits == \A id \in All : Len(got[id]) <= Len(sent[id])

\* What is read of a chunk is a message that was written and not yet read.
LEMMA NoneMadeUp == Spec => []GotFits
<1>1. Init => GotFits
  BY DEF Init, GotFits
<1>2. IInv /\ GotFits /\ [Next]_vars => GotFits'
  <2> SUFFICES ASSUME IInv, GotFits, [Next]_vars PROVE GotFits'
    OBVIOUS
  <2>0. /\ sent \in [All -> Seq(Messages)] /\ got \in [All -> Seq(ReadMessages)]
    BY DEF IInv, Shape
  <2>1. ASSUME NEW id \in All, NEW m, Scheduled(id, m), got' = got PROVE GotFits'
    <3>1. sent' = [sent EXCEPT ![id] = Append(@, m)]
      BY <2>1 DEF Scheduled
    <3>2. ASSUME NEW j \in All PROVE Len(got'[j]) <= Len(sent'[j])
      <4>1. Len(got[j]) <= Len(sent[j]) /\ Len(got[j]) \in Nat /\ Len(sent[j]) \in Nat
        BY <2>0 DEF GotFits
      <4>2. Len(sent'[j]) = Len(sent[j]) \/ Len(sent'[j]) = Len(sent[j]) + 1
        BY <3>1, <2>0
      <4> QED BY <4>1, <4>2, <2>1
    <3> QED BY <3>2 DEF GotFits
  <2>2. CASE \E id \in Streams, ts \in Timestamps, len \in Lengths, sid \in StreamIDs :
               Write(id, ts, len, sid)
    BY <2>1, <2>2 DEF Write, All
  <2>3. CASE \E size \in Sizes : WriteSetChunkSize(size)
    BY <2>1, <2>3 DEF WriteSetChunkSize, All
  <2>4. CASE ReadChunk
    <3> PICK c, x : c = Head(wire) /\ x = ReadHeader(r[c.id], c)
      OBVIOUS
    <3>1. /\ broken = "no" /\ wire # <<>> /\ sent' = sent
          /\ \/ got' = got
             \/ got' = [got EXCEPT ![c.id] =
                          Append(@, Message(StampOf(x), x.len, x.sid, Content(c.id)))]
      BY <2>4, ReadCases
    <3>2. c.id \in All /\ Len(got[c.id]) \in Nat /\ Len(got[c.id]) < Len(sent[c.id])
      BY <3>1, Expected
    <3>3. ASSUME NEW j \in All PROVE Len(got'[j]) <= Len(sent'[j])
      <4>1. Len(got[j]) <= Len(sent[j]) /\ Len(got[j]) \in Nat /\ Len(sent[j]) \in Nat
        BY <2>0 DEF GotFits
      <4>2. got'[j] = got[j] \/ (j = c.id /\ Len(got'[j]) = Len(got[j]) + 1)
        BY <3>1, <2>0
      <4> QED BY <4>1, <4>2, <3>1, <3>2
    <3> QED BY <3>3 DEF GotFits
  <2>5. CASE (\E size \in Sizes : ChangeChunkSize(size)) \/ WriteChunk \/ UNCHANGED vars
    <3>1. sent' = sent /\ got' = got
      BY <2>5 DEF ChangeChunkSize, WriteChunk, vars
    <3> QED BY <3>1 DEF GotFits
  <2> QED BY <2>2, <2>3, <2>4, <2>5 DEF Next
<1> QED BY <1>1, <1>2, ReadingAhead, PTL DEF Spec

\* Messages s, which are t or were read of it, as they are promised.
KeptOf(m, t, k) == IF Alike(t, k) THEN m ELSE [m EXCEPT !.ts = 0]
Kept(s, t) == [k \in 1 .. Len(s) |-> KeptOf(s[k], t, k)]

SentKept == [id \in All |-> Kept(sent[id], sent[id])]
GotKept == [id \in All |-> Kept(got[id], sent[id])]
Sound == ~ahead /\ broken # "refused"

\* Messages are among those that can be read.
LEMMA MessagesRead ==
  ASSUME NEW m \in Messages
  PROVE  /\ m \in ReadMessages
         /\ [m EXCEPT !.ts = 0] \in Messages
<1>1. PICK ts \in Timestamps \cup {0}, len \in Lengths \cup {ControlLength},
           sid \in StreamIDs \cup {0}, size \in Sizes \cup {0} :
        /\ m = Message(ts, len, sid, size)
        /\ Message(0, len, sid, size) \in Messages
  <2> DEFINE Calls == {Message(ts, len, sid, 0) : ts \in Timestamps \cup {0}, len \in Lengths,
                                                  sid \in StreamIDs}
             Sets  == {Message(0, ControlLength, 0, size) : size \in Sizes}
  <2>1. Messages = Calls \cup Sets
    BY DEF Messages
  <2>2. CASE m \in Calls
    <3>1. PICK ts \in Timestamps \cup {0}, len \in Lengths, sid \in StreamIDs :
            m = Message(ts, len, sid, 0)
      BY <2>2
    <3>2. Message(0, len, sid, 0) \in Calls
      OBVIOUS
    <3> HIDE DEF Calls, Sets
    <3> QED BY <3>1, <3>2, <2>1
  <2>3. CASE m \in Sets
    <3>1. PICK size \in Sizes : m = Message(0, ControlLength, 0, size)
      BY <2>3
    <3> QED BY <3>1
  <2> HIDE DEF Calls, Sets
  <2> QED BY <2>1, <2>2, <2>3
<1>2. /\ ts \in Clock /\ 0 \in Clock /\ len \in Nat /\ sid \in Nat /\ size \in Nat
  BY CodecAssumption, StampAssumption DEF Clock, ControlLength
<1>3. m = [ts |-> ts, len |-> len, sid |-> sid, size |-> size]
  BY <1>1 DEF Message
<1>4. m \in ReadMessages
  BY <1>2, <1>3 DEF ReadMessages
<1>5. [m EXCEPT !.ts = 0] = Message(0, len, sid, size)
  BY <1>3 DEF Message
<1> QED BY <1>1, <1>4, <1>5

\* A message that is promised without its timestamp is one that can be read.
LEMMA KeptRead ==
  ASSUME NEW m \in ReadMessages, NEW t, NEW k
  PROVE  KeptOf(m, t, k) \in ReadMessages
<1>1. PICK zero \in Clock : zero = 0
  BY StampAssumption DEF Clock
<1>2. [m EXCEPT !.ts = zero] \in ReadMessages
  BY DEF ReadMessages
<1> QED BY <1>1, <1>2 DEF KeptOf

\* What is promised of sequences is a sequence.
LEMMA KeptSeq ==
  ASSUME NEW s \in Seq(ReadMessages), NEW t
  PROVE  /\ Kept(s, t) \in Seq(ReadMessages) /\ Len(Kept(s, t)) = Len(s)
         /\ \A k \in 1 .. Len(s) : Kept(s, t)[k] = KeptOf(s[k], t, k)
<1>1. \A k \in 1 .. Len(s) : s[k] \in ReadMessages /\ KeptOf(s[k], t, k) \in ReadMessages
  BY KeptRead
<1> DEFINE n == Len(s)
           e(k) == KeptOf(s[k], t, k)
<1>2. n \in Nat /\ \A k \in 1 .. n : e(k) \in ReadMessages
  BY <1>1
<1>3. Kept(s, t) = [k \in 1 .. n |-> e(k)]
  BY DEF Kept
<1> HIDE DEF e, n
<1>4. [k \in 1 .. n |-> e(k)] \in Seq(ReadMessages) /\ Len([k \in 1 .. n |-> e(k)]) = n
  BY <1>2
<1> QED BY <1>3, <1>4 DEF n, e

\* One more message is promised as it is.
LEMMA KeptAppend ==
  ASSUME NEW s \in Seq(ReadMessages), NEW m \in ReadMessages, NEW t, NEW u,
         \A k \in 1 .. Len(s) : Alike(u, k) <=> Alike(t, k)
  PROVE  Kept(Append(s, m), u) = Append(Kept(s, t), KeptOf(m, u, Len(s) + 1))
<1> DEFINE a == Append(s, m)
           b == Append(Kept(s, t), KeptOf(m, u, Len(s) + 1))
<1>1. /\ a \in Seq(ReadMessages) /\ Len(a) = Len(s) + 1 /\ a[Len(s) + 1] = m /\ Len(s) \in Nat
      /\ \A k \in 1 .. Len(s) : a[k] = s[k]
  OBVIOUS
<1> HIDE DEF a
<1>2. /\ Kept(a, u) \in Seq(ReadMessages) /\ Len(Kept(a, u)) = Len(a)
      /\ \A k \in 1 .. Len(a) : Kept(a, u)[k] = KeptOf(a[k], u, k)
  BY <1>1, KeptSeq
<1>3. /\ Kept(s, t) \in Seq(ReadMessages) /\ Len(Kept(s, t)) = Len(s)
      /\ \A k \in 1 .. Len(s) : Kept(s, t)[k] = KeptOf(s[k], t, k)
  BY KeptSeq
<1>4. PICK o \in ReadMessages : o = KeptOf(m, u, Len(s) + 1)
  BY KeptRead
<1>5. /\ b \in Seq(ReadMessages) /\ Len(b) = Len(s) + 1 /\ b[Len(s) + 1] = o
      /\ \A k \in 1 .. Len(s) : b[k] = Kept(s, t)[k]
  BY <1>1, <1>3, <1>4
<1> HIDE DEF b
<1>6. ASSUME NEW k \in 1 .. Len(a) PROVE Kept(a, u)[k] = b[k]
  <2>1. CASE k = Len(s) + 1
    BY <2>1, <1>1, <1>2, <1>4, <1>5
  <2>2. CASE k # Len(s) + 1
    <3>1. k \in 1 .. Len(s)
      BY <2>2, <1>1
    <3>2. b[k] = KeptOf(s[k], t, k)
      BY <3>1, <1>3, <1>5
    <3>3. Kept(a, u)[k] = KeptOf(s[k], u, k)
      BY <3>1, <1>1, <1>2
    <3>4. KeptOf(s[k], u, k) = KeptOf(s[k], t, k)
      BY <3>1 DEF KeptOf
    <3> QED BY <3>2, <3>3, <3>4
  <2> QED BY <2>1, <2>2
<1>7. Kept(a, u) = b
  BY <1>1, <1>2, <1>5, <1>6, SeqEqual
<1> QED BY <1>7 DEF a, b

\* What is promised depends on what is alike only.
LEMMA KeptSame ==
  ASSUME NEW s \in Seq(ReadMessages), NEW t, NEW u,
         \A k \in 1 .. Len(s) : Alike(u, k) <=> Alike(t, k)
  PROVE  Kept(s, u) = Kept(s, t)
BY DEF Kept, KeptOf

\* A message is written: one more is promised.
LEMMA SendStep ==
  ASSUME Shape, GotFits, NEW id \in All, NEW m \in Messages, Scheduled(id, m), got' = got,
         UNCHANGED <<ahead, broken>>
  PROVE  \E o \in Messages :
           /\ SentKept' = [SentKept EXCEPT ![id] = Append(@, o)]
           /\ GotKept' = GotKept /\ Sound' = Sound
<1>1. /\ sent \in [All -> Seq(Messages)] /\ got \in [All -> Seq(ReadMessages)]
      /\ sent' = [sent EXCEPT ![id] = Append(@, m)]
  BY DEF Shape, Scheduled
<1>2. ASSUME NEW j \in All PROVE sent[j] \in Seq(ReadMessages) /\ sent[j] \in Seq(Messages)
  <2>1. Messages \subseteq ReadMessages
    BY MessagesRead
  <2> QED BY <2>1, <1>1, SeqMonotonic
<1>3. ASSUME NEW j \in All, NEW k \in 1 .. Len(sent[j])
      PROVE  Alike(sent'[j], k) <=> Alike(sent[j], k)
  <2>1. CASE j = id
    <3>1. sent'[id] = Append(sent[id], m) /\ sent[id] \in Seq(Messages)
      BY <1>1
    <3>2. Alike(Append(sent[id], m), k) <=> Alike(sent[id], k)
      BY <2>1, <3>1, AlikeMore
    <3> QED BY <2>1, <3>1, <3>2
  <2>2. CASE j # id
    BY <2>2, <1>1
  <2> QED BY <2>1, <2>2
<1> DEFINE o == KeptOf(m, sent'[id], Len(sent[id]) + 1)
<1>4. o \in Messages
  BY MessagesRead DEF KeptOf
<1>5. Kept(sent'[id], sent'[id]) = Append(Kept(sent[id], sent[id]), o)
  <2>1. m \in ReadMessages
    BY MessagesRead
  <2>2. sent'[id] = Append(sent[id], m)
    BY <1>1
  <2>3. Kept(Append(sent[id], m), sent'[id]) = Append(Kept(sent[id], sent[id]), o)
    BY <2>1, <1>2, <1>3, KeptAppend
  <2> QED BY <2>2, <2>3
<1>6. ASSUME NEW j \in All \ {id} PROVE Kept(sent'[j], sent'[j]) = Kept(sent[j], sent[j])
  BY <1>1
<1>7. ASSUME NEW j \in All PROVE Kept(got[j], sent'[j]) = Kept(got[j], sent[j])
  <2>1. got[j] \in Seq(ReadMessages) /\ Len(got[j]) <= Len(sent[j])
    BY <1>1 DEF GotFits
  <2>2. \A k \in 1 .. Len(got[j]) : k \in 1 .. Len(sent[j])
    <3>1. Len(got[j]) \in Nat /\ Len(sent[j]) \in Nat
      BY <2>1, <1>2
    <3> QED BY <3>1, <2>1
  <2> QED BY <2>1, <2>2, <1>3, KeptSame
<1> HIDE DEF o
<1>8. SentKept' = [SentKept EXCEPT ![id] = Append(@, o)]
  <2>1. SentKept' = [j \in All |-> Kept(sent'[j], sent'[j])]
    BY DEF SentKept
  <2>2. SentKept = [j \in All |-> Kept(sent[j], sent[j])]
    BY DEF SentKept
  <2> QED BY <2>1, <2>2, <1>5, <1>6
<1>9. GotKept' = GotKept
  <2>1. GotKept' = [j \in All |-> Kept(got[j], sent'[j])] /\ GotKept = [j \in All |-> Kept(got[j], sent[j])]
    BY DEF GotKept
  <2> QED BY <2>1, <1>7
<1> QED BY <1>4, <1>8, <1>9 DEF Sound

\* A message is read: it is the next one that is promised.
LEMMA DeliverStep ==
  ASSUME Shape, GotFits, NEW id \in All, NEW a \in ReadMessages, NEW m \in Messages,
         m = sent[id][Len(got[id]) + 1], Len(got[id]) < Len(sent[id]),
         a.len = m.len, a.sid = m.sid, a.size = m.size,
         Alike(sent[id], Len(got[id]) + 1) => a = m,
         got' = [got EXCEPT ![id] = Append(@, a)], sent' = sent
  PROVE  /\ Len(GotKept[id]) < Len(SentKept[id])
         /\ GotKept' = [GotKept EXCEPT ![id] = Append(@, SentKept[id][Len(@) + 1])]
         /\ SentKept' = SentKept
<1>1. /\ got \in [All -> Seq(ReadMessages)] /\ got[id] \in Seq(ReadMessages)
      /\ sent[id] \in Seq(Messages)
  BY DEF Shape
<1>2. sent[id] \in Seq(ReadMessages)
  <2>1. Messages \subseteq ReadMessages
    BY MessagesRead
  <2> QED BY <2>1, <1>1, SeqMonotonic
<1> DEFINE k == Len(got[id]) + 1
           o == KeptOf(a, sent[id], k)
<1>3. k \in 1 .. Len(sent[id]) /\ Len(got[id]) \in Nat
  BY <1>1, <1>2
<1>4. KeptOf(m, sent[id], k) = o
  <2>1. CASE Alike(sent[id], k)
    BY <2>1
  <2>2. CASE ~Alike(sent[id], k)
    <3>1. m \in ReadMessages
      BY MessagesRead
    <3>2. [m EXCEPT !.ts = 0] = [a EXCEPT !.ts = 0]
      BY <3>1 DEF ReadMessages
    <3> QED BY <2>2, <3>2 DEF KeptOf
  <2> QED BY <2>1, <2>2
<1> HIDE DEF k, o
<1>5. /\ GotKept = [j \in All |-> Kept(got[j], sent[j])]
      /\ GotKept' = [j \in All |-> Kept(got'[j], sent[j])]
      /\ SentKept = [j \in All |-> Kept(sent[j], sent[j])] /\ SentKept' = SentKept
  BY DEF GotKept, SentKept
<1>6. Len(GotKept[id]) = Len(got[id]) /\ Len(SentKept[id]) = Len(sent[id])
      /\ SentKept[id][k] = o
  <2>1. Len(Kept(got[id], sent[id])) = Len(got[id])
    BY <1>1, KeptSeq
  <2>2. /\ Len(Kept(sent[id], sent[id])) = Len(sent[id])
        /\ Kept(sent[id], sent[id])[k] = KeptOf(sent[id][k], sent[id], k)
    BY <1>2, <1>3, KeptSeq
  <2>3. sent[id][k] = m
    BY DEF k
  <2> QED BY <2>1, <2>2, <2>3, <1>4, <1>5
<1>7. Kept(got'[id], sent[id]) = Append(Kept(got[id], sent[id]), o)
  <2>1. got'[id] = Append(got[id], a)
    BY <1>1
  <2>2. Kept(Append(got[id], a), sent[id]) = Append(Kept(got[id], sent[id]), o)
    BY <1>1, KeptAppend DEF o, k
  <2> QED BY <2>1, <2>2
<1>8. ASSUME NEW j \in All \ {id} PROVE Kept(got'[j], sent[j]) = Kept(got[j], sent[j])
  BY <1>1
<1>9. GotKept' = [GotKept EXCEPT ![id] = Append(@, o)]
  BY <1>5, <1>7, <1>8
<1>10. GotKept' = [GotKept EXCEPT ![id] = Append(@, SentKept[id][Len(@) + 1])]
  <2>1. SentKept[id][Len(GotKept[id]) + 1] = o
    BY <1>6 DEF k
  <2> QED BY <2>1, <1>9
<1> QED BY <1>5, <1>6, <1>10

\* The variables of MessageDelivery.
LEMMA DeliveryVars ==
  /\ UNCHANGED <<SentKept, GotKept, Sound>> => UNCHANGED Delivery!vars
  /\ \A id, m : Delivery!Send(id, m) <=>
       /\ SentKept' = [SentKept EXCEPT ![id] = Append(@, m)]
       /\ GotKept' = GotKept /\ Sound' = Sound
  /\ \A id : Delivery!Deliver(id) <=>
       /\ Sound
       /\ Len(GotKept[id]) < Len(SentKept[id])
       /\ GotKept' = [GotKept EXCEPT ![id] = Append(@, SentKept[id][Len(@) + 1])]
       /\ SentKept' = SentKept /\ Sound' \in BOOLEAN
BY DEF Delivery!vars, Delivery!Send, Delivery!Deliver, SentKept, GotKept, Sound,
       Kept, KeptOf, Promised

\* Every step of the codec is one of MessageDelivery: what is read on a chunk
\* stream is the next message written on it, with its length, stream ID and
\* content, and with its timestamp while the message stream does not change
\* (updateWriterHeader and readChunk), until the connection is unsound.
LEMMA DeliveryStep ==
  ASSUME IInv, GotFits, [Next]_vars
  PROVE  [Delivery!Next]_(Delivery!vars)
<1>0. Shape
  BY DEF IInv
<1>1. ASSUME NEW id \in All, NEW m \in Messages, Scheduled(id, m), got' = got,
             UNCHANGED <<ahead, broken>>
      PROVE  Delivery!Next
  <2>1. PICK o \in Messages : /\ SentKept' = [SentKept EXCEPT ![id] = Append(@, o)]
                              /\ GotKept' = GotKept /\ Sound' = Sound
    BY <1>0, <1>1, SendStep
  <2>2. Delivery!Send(id, o)
    BY <2>1, DeliveryVars
  <2> QED BY <2>2 DEF Delivery!Next
<1>2. CASE \E id \in Streams, ts \in Timestamps, len \in Lengths, sid \in StreamIDs :
             Write(id, ts, len, sid)
  <2>0. PICK id \in Streams, ts \in Timestamps, len \in Lengths, sid \in StreamIDs :
          Write(id, ts, len, sid)
    BY <1>2
  <2>1. PICK m : m = Message(ts, len, sid, 0)
    OBVIOUS
  <2>2. m \in Messages /\ id \in All
    BY <2>1 DEF Messages, All
  <2>3. Scheduled(id, m) /\ got' = got /\ UNCHANGED <<ahead, broken>>
    BY <2>0, <2>1 DEF Write, history
  <2> QED BY <2>2, <2>3, <1>1
<1>3. CASE \E size \in Sizes : WriteSetChunkSize(size)
  <2>0. PICK size \in Sizes : WriteSetChunkSize(size)
    BY <1>3
  <2>1. PICK m : m = Message(0, ControlLength, 0, size)
    OBVIOUS
  <2>2. m \in Messages /\ Control \in All
    BY <2>1 DEF Messages, All
  <2>3. Scheduled(Control, m) /\ got' = got /\ UNCHANGED <<ahead, broken>>
    BY <2>0, <2>1 DEF WriteSetChunkSize, history
  <2> QED BY <2>2, <2>3, <1>1
<1>4. CASE ReadChunk
  <2> PICK c, x : c = Head(wire) /\ x = ReadHeader(r[c.id], c)
    OBVIOUS
  <2> PICK m, a : /\ m = sent[c.id][Len(got[c.id]) + 1]
                  /\ a = Message(StampOf(x), x.len, x.sid, Content(c.id))
    OBVIOUS
  <2>1. /\ broken = "no" /\ wire # <<>> /\ sent' = sent /\ ahead' = ahead
        /\ \/ got' = got
           \/ got' = [got EXCEPT ![c.id] = Append(@, a)]
    BY <1>4, ReadCases
  <2>2. /\ c.id \in All /\ Len(got[c.id]) < Len(sent[c.id])
    BY <2>1, Expected
  <2>3. /\ a \in ReadMessages /\ m \in Messages
        /\ a.len = m.len /\ a.sid = m.sid /\ a.size = m.size
        /\ Alike(sent[c.id], Len(got[c.id]) + 1) => a = m
    BY <2>1, Complete
  <2>4. CASE ahead
    <3>1. ~Sound /\ ~Sound'
      BY <2>1, <2>4 DEF Sound
    <3>2. Delivery!Failed
      BY <3>1 DEF Delivery!Failed, Sound
    <3> QED BY <3>2 DEF Delivery!Next
  <2>5. CASE ~ahead /\ got' = got
    <3>1. SentKept' = SentKept /\ GotKept' = GotKept /\ Sound
      BY <2>1, <2>5 DEF SentKept, GotKept, Sound
    <3>2. CASE Sound'
      <4>1. Sound' = Sound
        BY <3>1, <3>2, Zenon DEF Sound
      <4>2. UNCHANGED <<SentKept, GotKept, Sound>>
        BY <3>1, <4>1
      <4> QED BY <4>2, DeliveryVars
    <3>3. CASE ~Sound'
      <4>1. Delivery!Fail
        BY <3>1, <3>3 DEF Delivery!Fail, SentKept, GotKept, Sound, Kept, KeptOf, Promised
      <4> QED BY <4>1 DEF Delivery!Next
    <3> QED BY <3>2, <3>3
  <2>6. CASE ~ahead /\ got' = [got EXCEPT ![c.id] = Append(@, a)]
    <3>1. /\ Len(GotKept[c.id]) < Len(SentKept[c.id])
          /\ GotKept' = [GotKept EXCEPT ![c.id] = Append(@, SentKept[c.id][Len(@) + 1])]
          /\ SentKept' = SentKept
      BY <2>1, <2>2, <2>3, <2>6, <1>0, DeliverStep
    <3>2. Sound /\ Sound' \in BOOLEAN
      BY <2>1, <2>6 DEF Sound
    <3>3. Delivery!Deliver(c.id)
      BY <3>1, <3>2, DeliveryVars
    <3> QED BY <3>3, <2>2 DEF Delivery!Next
  <2> QED BY <2>1, <2>4, <2>5, <2>6
<1>5. CASE (\E size \in Sizes : ChangeChunkSize(size)) \/ UNCHANGED vars
  <2>1. sent' = sent /\ got' = got /\ ahead' = ahead /\ broken' = broken
    BY <1>5 DEF ChangeChunkSize, vars, history
  <2>2. UNCHANGED <<SentKept, GotKept, Sound>>
    BY <2>1 DEF SentKept, GotKept, Sound
  <2> QED BY <2>2, DeliveryVars
<1>6. CASE WriteChunk
  <2>1. sent' = sent /\ got' = got /\ broken' = broken /\ (ahead => ahead')
    BY <1>6 DEF WriteChunk
  <2>2. UNCHANGED <<SentKept, GotKept>> /\ (Sound' => Sound)
    BY <2>1 DEF SentKept, GotKept, Sound
  <2>3. CASE Sound'
    <3>1. Sound' = Sound
      BY <2>2, <2>3, Zenon DEF Sound
    <3>2. UNCHANGED <<SentKept, GotKept, Sound>>
      BY <2>2, <3>1
    <3> QED BY <3>2, DeliveryVars
  <2>4. CASE ~Sound'
    <3>1. Delivery!Fail
      BY <2>2, <2>4 DEF Delivery!Fail, SentKept, GotKept, Sound, Kept, KeptOf, Promised
    <3> QED BY <3>1 DEF Delivery!Next
  <2> QED BY <2>3, <2>4
<1> QED BY <1>2, <1>3, <1>4, <1>5, <1>6 DEF Next

\* The safety part of Delivered, for any messages: they arrive in the order in
\* which they were written, with their lengths, message streams and contents,
\* and with their timestamps on a chunk stream of one message stream, whatever
\* else is under way on other chunk streams, until the peer refuses a size or a
\* chunk is cut ahead of its announcement.
THEOREM DeliversInOrder == Spec => Delivery!Init /\ [][Delivery!Next]_(Delivery!vars)
<1>1. Init => Delivery!Init
  <2> SUFFICES ASSUME Init PROVE Delivery!Init
    OBVIOUS
  <2>1. \A id \in All : Promised(<<>>, id) = <<>>
    BY DEF Promised
  <2> QED BY <2>1 DEF Init, Delivery!Init
<1>2. IInv /\ GotFits /\ [Next]_vars => [Delivery!Next]_(Delivery!vars)
  BY DeliveryStep
<1> QED BY <1>1, <1>2, ReadingAhead, NoneMadeUp, PTL DEF Spec
=============================================================================
