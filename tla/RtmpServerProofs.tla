-------------------------- MODULE RtmpServerProofs --------------------------
(* Proofs about the handshakes of RtmpServer, for any number of clients and *)
(* any room in the sockets.                                                 *)
EXTENDS RtmpServer, TLAPS

\* How many parts side s has sent, and read, before step k of its script.
Sent(s, k) ==
  IF s = "client"
  THEN IF k = 1 THEN 0 ELSE IF k = 2 THEN 1 ELSE IF k < 7 THEN 2 ELSE 3
  ELSE IF k < 3 THEN 0 ELSE IF k = 3 THEN 1 ELSE IF k < 6 THEN 2 ELSE 3

Taken(s, k) ==
  IF s = "client"
  THEN IF k < 4 THEN 0 ELSE IF k = 4 THEN 1 ELSE IF k = 5 THEN 2 ELSE 3
  ELSE IF k = 1 THEN 0 ELSE IF k < 5 THEN 1 ELSE IF k < 7 THEN 2 ELSE 3

\* What side s sends after n parts: the next, or a chunk.
Item(s, n) ==
  IF n = 0 THEN [part |-> 0]
  ELSE IF n = 1 THEN [part |-> 1, random |-> s]
  ELSE IF n = 2 THEN [part |-> 2, random |-> Peer(s)]
  ELSE [part |-> 3]

\* How many parts of s its peer has read, and how many are read or under way.
Read(s, c)    == Taken(Peer(s), step[Peer(s)][c])
Written(s, c) == Read(s, c) + Len(wire[s][c])

\* The wire holds what follows the parts that have been read.
InOrder(s, c) == \A i \in 1 .. Len(wire[s][c]) : wire[s][c][i] = Item(s, Read(s, c) + i - 1)

\* It holds all that the script has sent, unless closing has dropped it; and
\* chunks only behind a whole handshake.
Balanced(s, c) ==
  /\ step[s][c] < 7 => Written(s, c) <= Sent(s, step[s][c])
  /\ state[s][c] \in {"none", "handshake"} => Written(s, c) = Sent(s, step[s][c])
  /\ state[s][c] = "up" => step[s][c] = 7 /\ Written(s, c) >= 3

\* The peer's random is known as soon as its part has been read.
Heard(s, c) == Taken(s, step[s][c]) >= 2 => heard[s][c] = Peer(s)

\* A connection is accepted once, after it has been dialled.
DialledOnce ==
  \A c \in Clients :
    /\ c \in backlog => state["client"][c] # "none" /\ state["server"][c] = "none"
    /\ state["client"][c] = "none" => state["server"][c] = "none"

Synced == \A s \in Sides, c \in Clients : InOrder(s, c) /\ Balanced(s, c) /\ Heard(s, c)

IInv == TypeOK /\ DialledOnce /\ Synced /\ InSync

-----------------------------------------------------------------------------

\* There are two sides, each the peer of the other.
LEMMA SidesPeer ==
  ASSUME NEW s \in Sides
  PROVE  Peer(s) \in Sides /\ Peer(s) # s /\ Peer(Peer(s)) = s
         /\ \A t \in Sides : t = s \/ t = Peer(s)
BY DEF Sides, Peer

\* What the scripts say, step by step.
LEMMA Scripts ==
  ASSUME NEW s \in Sides, NEW k \in 1 .. 6
  PROVE  /\ Len(Script(s)) = 6
         /\ Script(s)[k].op = "send" =>
              /\ Script(s)[k].part = Sent(s, k) /\ Sent(s, k + 1) = Sent(s, k) + 1
              /\ Taken(s, k + 1) = Taken(s, k)
              /\ Sent(s, k) = 2 => Taken(s, k) >= 2
         /\ Script(s)[k].op = "recv" =>
              /\ Script(s)[k].part = Taken(s, k) /\ Taken(s, k + 1) = Taken(s, k) + 1
              /\ Sent(s, k + 1) = Sent(s, k)
<1>1. CASE s = "client"
  BY <1>1 DEF Script, ClientScript, Send, Recv, Sent, Taken
<1>2. CASE s = "server"
  BY <1>2 DEF Script, ServerScript, Send, Recv, Sent, Taken
<1> QED BY <1>1, <1>2 DEF Sides

\* A script has three parts to send and three to read.
LEMMA Counts ==
  ASSUME NEW s \in Sides, NEW k \in 1 .. 7
  PROVE  /\ Sent(s, k) \in 0 .. 3 /\ Taken(s, k) \in 0 .. 3
         /\ Sent(s, 7) = 3 /\ Taken(s, 7) = 3
BY DEF Sent, Taken

\* No part has been sent.
LEMMA InitInv == Init => IInv
<1> SUFFICES ASSUME Init PROVE IInv
  OBVIOUS
<1>1. TypeOK
  <2>1. /\ wire \in [Sides -> [Clients -> Seq(Parts)]]
        /\ \A s \in Sides, c \in Clients : Len(wire[s][c]) <= Capacity
    <3>1. <<>> \in Seq(Parts) /\ Len(<<>>) <= Capacity
      BY ConstantsAssumption
    <3> QED BY <3>1 DEF Init
  <2>2. /\ state \in [Sides -> [Clients -> {"none", "handshake", "up", "ended", "failed", "closed"}]]
        /\ step \in [Sides -> [Clients -> 1 .. 7]]
        /\ heard \in [Sides -> [Clients -> Sides \cup {"none"}]]
        /\ open \in [Sides -> [Clients -> BOOLEAN]]
    BY DEF Init
  <2> QED BY <2>1, <2>2 DEF Init, TypeOK
<1>2. DialledOnce /\ InSync
  BY DEF Init, DialledOnce, InSync, Sides
<1>3. Synced
  BY SidesPeer DEF Init, Synced, InOrder, Balanced, Heard, Written, Read, Sent, Taken
<1> QED BY <1>1, <1>2, <1>3 DEF IInv

\* Nothing moves but the server's own state, or what no handshake looks at.
LEMMA QuietStep ==
  ASSUME IInv, TypeOK', UNCHANGED <<wire, step, heard, wrong>>,
         \A c \in backlog' : c \in backlog,
         \A s \in Sides, c \in Clients :
           \/ state'[s][c] = state[s][c]
           \/ /\ state[s][c] # "none" /\ state'[s][c] \notin {"none", "handshake", "up"}
  PROVE  IInv'
<1>1. DialledOnce'
  BY DEF IInv, TypeOK, DialledOnce, Sides
<1>2. Synced'
  BY DEF IInv, Synced, InOrder, Balanced, Heard, Written, Read
<1> QED BY <1>1, <1>2 DEF IInv, InSync

\* Listener and accept loop touch no handshake.
LEMMA ServerStep ==
  ASSUME IInv, Serve \/ Close \/ AcceptFails \/ CheckDone
  PROVE  IInv'
<1>1. TypeOK' /\ UNCHANGED <<wire, step, heard, wrong, state>> /\ backlog' \subseteq backlog
  BY DEF IInv, TypeOK, Serve, Close, AcceptFails, CheckDone, connVars
<1> QED BY <1>1, QuietStep

\* A side that fails, or a network that breaks, moves nothing on the wire.
LEMMA EndStep ==
  ASSUME IInv, NEW s \in Sides, NEW c \in Clients,
         IOFails(s, c) \/ HandlerFails(c) \/ Break(c)
  PROVE  IInv'
<1>1. TypeOK'
  <2>1. CASE IOFails(s, c)
    BY <2>1 DEF IInv, TypeOK, IOFails, serverVars
  <2>2. CASE HandlerFails(c)
    BY <2>2 DEF IInv, TypeOK, HandlerFails, serverVars, Sides
  <2>3. CASE Break(c)
    BY <2>3 DEF IInv, TypeOK, Break, serverVars, connVars
  <2> QED BY <2>1, <2>2, <2>3
<1>2. UNCHANGED <<wire, step, heard, wrong, backlog>>
  BY DEF IOFails, HandlerFails, Break, serverVars, connVars
<1>3. \A t \in Sides, d \in Clients :
        \/ state'[t][d] = state[t][d]
        \/ state[t][d] # "none" /\ state'[t][d] \notin {"none", "handshake", "up"}
  BY DEF IInv, TypeOK, IOFails, HandlerFails, Break, connVars, Sides
<1> QED BY <1>1, <1>2, <1>3, QuietStep

\* Either side of a connection begins its handshake.
LEMMA BeginStep ==
  ASSUME IInv, NEW c \in Clients, Dial(c) \/ Accept(c)
  PROVE  IInv'
<1>1. TypeOK' /\ UNCHANGED <<wire, step, heard, wrong>>
  <2>1. CASE Dial(c)
    BY <2>1 DEF IInv, TypeOK, Dial, Sides
  <2>2. CASE Accept(c)
    BY <2>2 DEF IInv, TypeOK, Accept, Sides
  <2> QED BY <2>1, <2>2
<1>2. \A s \in Sides, d \in Clients :
        state'[s][d] = state[s][d] \/ (state[s][d] = "none" /\ state'[s][d] = "handshake")
  BY DEF IInv, TypeOK, DialledOnce, Dial, Accept, Sides
<1>3. Synced'
  BY <1>1, <1>2 DEF IInv, Synced, InOrder, Balanced, Heard, Written, Read
<1>4. DialledOnce'
  BY DEF IInv, TypeOK, DialledOnce, Dial, Accept, Sides
<1> QED BY <1>1, <1>3, <1>4 DEF IInv, InSync

-----------------------------------------------------------------------------

\* What a step leaves alone of side t of connection d stays as it was.
LEMMA Elsewhere ==
  ASSUME Synced, NEW t \in Sides, NEW d \in Clients,
         wire'[t][d] = wire[t][d], Read(t, d)' = Read(t, d)
  PROVE  /\ InOrder(t, d)' /\ Written(t, d)' = Written(t, d)
         /\ (step'[t][d] = step[t][d] /\ state'[t][d] = state[t][d]) => Balanced(t, d)'
         /\ (step'[t][d] = step[t][d] /\ heard'[t][d] = heard[t][d]) => Heard(t, d)'
BY DEF Synced, InOrder, Balanced, Heard, Written

\* Types of what the invariant counts.
LEMMA Reading ==
  ASSUME TypeOK, NEW t \in Sides, NEW d \in Clients
  PROVE  Read(t, d) \in 0 .. 3 /\ Len(wire[t][d]) \in Nat /\ wire[t][d] \in Seq(Parts)
<1>1. step[Peer(t)][d] \in 1 .. 7
  BY SidesPeer DEF TypeOK
<1> QED BY <1>1, SidesPeer, Counts DEF Read, TypeOK

\* Sending what comes next keeps the order.
LEMMA PutNext ==
  ASSUME IInv, NEW s \in Sides, NEW c \in Clients, NEW x,
         x = Item(s, Written(s, c)), Put(s, c, x), Read(s, c)' = Read(s, c)
  PROVE  /\ InOrder(s, c)' /\ Written(s, c)' = Written(s, c) + 1
         /\ \A t \in Sides, d \in Clients : ~(t = s /\ d = c) => wire'[t][d] = wire[t][d]
         /\ wire' \in [Sides -> [Clients -> Seq(Parts)]]
         /\ \A t \in Sides, d \in Clients : Len(wire'[t][d]) <= Capacity
<1> DEFINE w == wire[s][c]
<1>1. w \in Seq(Parts) /\ Len(w) \in Nat /\ Read(s, c) \in 0 .. 3
  BY Reading DEF IInv
<1>2. x \in Parts
  <2>1. Written(s, c) \in Nat
    BY <1>1 DEF Written
  <2> QED BY <2>1, SidesPeer DEF Item, Parts
<1>3. wire'[s][c] = Append(w, x) /\ Len(w) < Capacity
      /\ \A t \in Sides, d \in Clients : ~(t = s /\ d = c) => wire'[t][d] = wire[t][d]
  <2>1. wire' = [wire EXCEPT ![s][c] = Append(@, x)] /\ Len(w) < Capacity
    BY DEF Put
  <2> QED BY <2>1 DEF IInv, TypeOK
<1>4. Len(wire'[s][c]) = Len(w) + 1 /\ wire'[s][c][Len(w) + 1] = x
      /\ \A i \in 1 .. Len(w) : wire'[s][c][i] = w[i]
  BY <1>1, <1>2, <1>3
<1>5. InOrder(s, c)'
  BY <1>1, <1>4 DEF IInv, Synced, InOrder, Written
<1>6. Written(s, c)' = Written(s, c) + 1
  <2>1. Written(s, c)' = Read(s, c) + Len(wire'[s][c]) /\ Written(s, c) = Read(s, c) + Len(w)
    BY ZenonT(20) DEF Written
  <2> HIDE DEF w
  <2> QED BY <2>1, <1>1, <1>4
<1>7. Append(w, x) \in Seq(Parts)
  BY <1>1, <1>2
<1>8. wire' \in [Sides -> [Clients -> Seq(Parts)]]
  BY <1>7 DEF IInv, TypeOK, Put
<1>9. \A t \in Sides, d \in Clients : Len(wire'[t][d]) <= Capacity
  <2>1. Len(wire'[s][c]) <= Capacity
    <3> HIDE DEF w
    <3> QED BY <1>1, <1>3, <1>4, ConstantsAssumption
  <2>2. \A t \in Sides, d \in Clients : Len(wire[t][d]) <= Capacity
    BY DEF IInv, TypeOK
  <2> QED BY <2>1, <2>2, <1>3
<1> QED BY <1>3, <1>5, <1>6, <1>8, <1>9

\* What is read is what comes next.
LEMMA TakeNext ==
  ASSUME IInv, NEW t \in Sides, NEW c \in Clients, wire[t][c] # <<>>,
         wire' = [wire EXCEPT ![t][c] = Tail(@)],
         \/ Read(t, c)' = Read(t, c) + 1
         \/ Read(t, c)' = Read(t, c) /\ Read(t, c) = 3
  PROVE  /\ Head(wire[t][c]) = Item(t, Read(t, c))
         /\ InOrder(t, c)'
         /\ Written(t, c)' = Written(t, c) - 1 + (Read(t, c)' - Read(t, c))
         /\ Len(wire[t][c]) >= 1
         /\ \A s \in Sides, d \in Clients : ~(s = t /\ d = c) => wire'[s][d] = wire[s][d]
         /\ wire' \in [Sides -> [Clients -> Seq(Parts)]]
         /\ \A s \in Sides, d \in Clients : Len(wire'[s][d]) <= Capacity
<1> DEFINE w == wire[t][c]
           n == Read(t, c)
           m == Read(t, c)'
<1>1. /\ w \in Seq(Parts) /\ Len(w) \in Nat /\ n \in 0 .. 3 /\ w # <<>>
      /\ m = n + 1 \/ (m = n /\ n = 3)
  BY Reading DEF IInv
<1>2. /\ wire'[t][c] = Tail(w)
      /\ \A s \in Sides, d \in Clients : ~(s = t /\ d = c) => wire'[s][d] = wire[s][d]
  BY DEF IInv, TypeOK
<1>3. \A i \in 1 .. Len(w) : w[i] = Item(t, n + i - 1)
  BY DEF IInv, Synced, InOrder
<1>4. /\ InOrder(t, c)' <=> \A i \in 1 .. Len(wire'[t][c]) : wire'[t][c][i] = Item(t, m + i - 1)
      /\ Written(t, c)' = m + Len(wire'[t][c]) /\ Written(t, c) = n + Len(w)
  BY Zenon DEF InOrder, Written
<1>5. \A s \in Sides, d \in Clients : Len(wire[s][d]) <= Capacity
  BY DEF IInv, TypeOK
<1>6. Len(w) <= Capacity
  BY <1>5
<1>7. Tail(w) \in Seq(Parts)
  BY <1>1
<1>8. wire' \in [Sides -> [Clients -> Seq(Parts)]]
  BY <1>7 DEF IInv, TypeOK
<1> HIDE DEF w, n, m
<1>9. /\ Len(w) >= 1 /\ Head(w) = w[1] /\ Len(Tail(w)) = Len(w) - 1
      /\ \A i \in 1 .. Len(w) - 1 : Tail(w)[i] = w[i + 1]
  BY <1>1
<1>10. Head(w) = Item(t, n)
  BY <1>1, <1>3, <1>9
<1>11. \A i \in 1 .. Len(w) - 1 : Tail(w)[i] = Item(t, m + i - 1)
  <2> SUFFICES ASSUME NEW i \in 1 .. Len(w) - 1 PROVE Tail(w)[i] = Item(t, m + i - 1)
    OBVIOUS
  <2>1. Tail(w)[i] = Item(t, n + i)
    BY <1>1, <1>3, <1>9
  <2>2. CASE m = n + 1
    BY <2>1, <2>2, <1>1
  <2>3. CASE m = n /\ n = 3
    BY <2>1, <2>3 DEF Item
  <2> QED BY <2>2, <2>3, <1>1
<1>12. Written(t, c)' = Written(t, c) - 1 + (m - n)
  BY <1>1, <1>2, <1>4, <1>9
<1>13. \A s \in Sides, d \in Clients : Len(wire'[s][d]) <= Capacity
  BY <1>1, <1>2, <1>5, <1>6, <1>9, ConstantsAssumption
<1> QED BY <1>2, <1>4, <1>8, <1>9, <1>10, <1>11, <1>12, <1>13 DEF w, n, m

-----------------------------------------------------------------------------

\* The part the script sends is the next one, and the random it echoes is known.
LEMMA EncodeStep ==
  ASSUME IInv, NEW s \in Sides, NEW c \in Clients, Encode(s, c)
  PROVE  IInv'
<1> DEFINE k == step[s][c]
           x == Content(s, c, Script(s)[k].part)
<1>1. /\ state[s][c] = "handshake" /\ Script(s)[k].op = "send" /\ k \in 1 .. 6
      /\ k + 1 \in 1 .. 7 /\ s \in Sides
  <2>1. Len(Script(s)) = 6
    BY Scripts
  <2> QED BY <2>1 DEF Encode, At, IInv, TypeOK
<1>2. /\ Put(s, c, x) /\ step' = [step EXCEPT ![s][c] = k + 1]
      /\ UNCHANGED <<serve, listening, doneCh, backlog, state, heard, open, broken, wrong>>
  BY DEF Encode, serverVars
<1>3. /\ Written(s, c) = Sent(s, k) /\ Script(s)[k].part = Sent(s, k)
      /\ Sent(s, k + 1) = Sent(s, k) + 1 /\ Taken(s, k + 1) = Taken(s, k)
      /\ Sent(s, k) = 2 => heard[s][c] = Peer(s)
  BY <1>1, Scripts DEF IInv, Synced, Balanced, Heard
<1>4. /\ step'[s][c] = k + 1
      /\ \A t \in Sides, d \in Clients : ~(t = s /\ d = c) => step'[t][d] = step[t][d]
      /\ step' \in [Sides -> [Clients -> 1 .. 7]]
  BY <1>1, <1>2 DEF IInv, TypeOK
<1>5. \A t \in Sides, d \in Clients : Read(t, d)' = Read(t, d)
  BY <1>3, <1>4, SidesPeer DEF Read
<1>6. x = Item(s, Written(s, c))
  <2>1. Sent(s, k) \in 0 .. 3 /\ Sent(s, k + 1) \in 0 .. 3
    BY <1>1, Counts
  <2> QED BY <1>3, <2>1 DEF Content, Item
<1> HIDE DEF k, x
<1>7. /\ InOrder(s, c)' /\ Written(s, c)' = Written(s, c) + 1
      /\ \A t \in Sides, d \in Clients : ~(t = s /\ d = c) => wire'[t][d] = wire[t][d]
      /\ wire' \in [Sides -> [Clients -> Seq(Parts)]]
      /\ \A t \in Sides, d \in Clients : Len(wire'[t][d]) <= Capacity
  BY <1>2, <1>5, <1>6, PutNext
<1>8. TypeOK'
  BY <1>2, <1>4, <1>7 DEF IInv, TypeOK
<1>9. Synced'
  <2> SUFFICES ASSUME NEW t \in Sides, NEW d \in Clients
               PROVE  InOrder(t, d)' /\ Balanced(t, d)' /\ Heard(t, d)'
    BY DEF Synced
  <2>1. CASE t = s /\ d = c
    <3>1. Balanced(s, c)'
      <4>1. Written(s, c)' = Sent(s, k + 1) /\ Sent(s, k + 1) \in 0 .. 3
        BY <1>1, <1>3, <1>7, Counts
      <4> QED BY <4>1, <1>1, <1>2, <1>4 DEF Balanced
    <3>2. Heard(s, c)'
      BY <1>2, <1>3, <1>4 DEF IInv, Synced, Heard, k
    <3> QED BY <2>1, <3>1, <3>2, <1>7
  <2>2. CASE ~(t = s /\ d = c)
    <3>1. wire'[t][d] = wire[t][d] /\ step'[t][d] = step[t][d] /\ Read(t, d)' = Read(t, d)
      BY <2>2, <1>4, <1>5, <1>7
    <3> QED BY <3>1, <1>2, Elsewhere DEF IInv
  <2> QED BY <2>1, <2>2
<1>10. DialledOnce' /\ InSync'
  BY <1>2 DEF IInv, DialledOnce, InSync
<1> QED BY <1>8, <1>9, <1>10 DEF IInv

\* The part the script reads is the one that comes.
LEMMA DecodeStep ==
  ASSUME IInv, NEW s \in Sides, NEW c \in Clients, Decode(s, c)
  PROVE  IInv'
<1> DEFINE k == step[s][c]
           p == Peer(s)
           x == Head(wire[p][c])
           part == Script(s)[k].part
<1>1. /\ state[s][c] = "handshake" /\ Script(s)[k].op = "recv" /\ k \in 1 .. 6
      /\ k + 1 \in 1 .. 7 /\ p \in Sides /\ p # s /\ Peer(p) = s
  <2>1. Len(Script(s)) = 6
    BY Scripts
  <2> QED BY <2>1, SidesPeer DEF Decode, At, IInv, TypeOK
<1>2. /\ wire[p][c] # <<>>
      /\ heard' = IF part = 1 /\ x.part = 1 THEN [heard EXCEPT ![s][c] = x.random] ELSE heard
      /\ wrong' = IF x.part # part THEN "bytes"
                  ELSE IF Verify /\ part = 2 /\ x.random # s THEN "echo" ELSE wrong
      /\ wire' = [wire EXCEPT ![p][c] = Tail(@)]
      /\ step' = [step EXCEPT ![s][c] = k + 1]
      /\ UNCHANGED <<serve, listening, doneCh, backlog, state, open, broken>>
  BY DEF Decode, serverVars
<1>3. /\ part = Taken(s, k) /\ Taken(s, k + 1) = Taken(s, k) + 1
      /\ Taken(s, k) \in 0 .. 3 /\ Taken(s, k + 1) \in 0 .. 3
      /\ Sent(s, k + 1) = Sent(s, k) /\ Sent(s, k) \in 0 .. 3
  BY <1>1, Scripts, Counts
<1>4. /\ step'[s][c] = k + 1
      /\ \A t \in Sides, d \in Clients : ~(t = s /\ d = c) => step'[t][d] = step[t][d]
      /\ step' \in [Sides -> [Clients -> 1 .. 7]]
  BY <1>1, <1>2 DEF IInv, TypeOK
<1>5. /\ Read(p, c) = Taken(s, k) /\ Read(p, c)' = Read(p, c) + 1
      /\ \A t \in Sides, d \in Clients : ~(t = p /\ d = c) => Read(t, d)' = Read(t, d)
  BY <1>1, <1>3, <1>4, SidesPeer DEF Read
<1> HIDE DEF p
<1>6. /\ x = Item(p, Read(p, c)) /\ InOrder(p, c)'
      /\ Written(p, c)' = Written(p, c) - 1 + (Read(p, c)' - Read(p, c))
      /\ Len(wire[p][c]) >= 1
      /\ \A t \in Sides, d \in Clients : ~(t = p /\ d = c) => wire'[t][d] = wire[t][d]
      /\ wire' \in [Sides -> [Clients -> Seq(Parts)]]
      /\ \A t \in Sides, d \in Clients : Len(wire'[t][d]) <= Capacity
  BY <1>1, <1>2, <1>5, TakeNext
<1>7. /\ x.part = part
      /\ part = 1 => x.random = p
      /\ part = 2 => x.random = s
  BY <1>1, <1>3, <1>5, <1>6 DEF Item
<1> HIDE DEF k, x, part
<1>8. /\ wrong' = wrong
      /\ heard' = IF part = 1 THEN [heard EXCEPT ![s][c] = p] ELSE heard
  BY <1>2, <1>7
<1>9. /\ heard' \in [Sides -> [Clients -> Sides \cup {"none"}]]
      /\ part = 1 => heard'[s][c] = p
      /\ part # 1 => heard'[s][c] = heard[s][c]
      /\ \A t \in Sides, d \in Clients : ~(t = s /\ d = c) => heard'[t][d] = heard[t][d]
  BY <1>1, <1>8 DEF IInv, TypeOK
<1>10. TypeOK'
  BY <1>2, <1>4, <1>6, <1>8, <1>9 DEF IInv, TypeOK
<1>11. Synced'
  <2> SUFFICES ASSUME NEW t \in Sides, NEW d \in Clients
               PROVE  InOrder(t, d)' /\ Balanced(t, d)' /\ Heard(t, d)'
    BY DEF Synced
  <2>1. CASE t = s /\ d = c
    <3>1. /\ wire'[s][c] = wire[s][c] /\ Read(s, c)' = Read(s, c)
      BY <1>1, <1>5, <1>6
    <3>2. InOrder(s, c)' /\ Written(s, c)' = Written(s, c)
      BY <3>1, Elsewhere DEF IInv
    <3>3. Balanced(s, c)'
      BY <3>2, <1>1, <1>2, <1>3, <1>4 DEF IInv, Synced, Balanced, k
    <3>4. Heard(s, c)'
      BY <1>3, <1>4, <1>9 DEF IInv, Synced, Heard, k, p
    <3> QED BY <2>1, <3>2, <3>3, <3>4
  <2>2. CASE t = p /\ d = c
    <3>1. Written(p, c)' = Written(p, c)
      <4>1. Written(p, c) \in Nat /\ Read(p, c) \in Nat
        BY <1>1, Reading DEF IInv, Written
      <4> QED BY <4>1, <1>5, <1>6
    <3>2. step'[p][c] = step[p][c] /\ heard'[p][c] = heard[p][c] /\ state' = state
      BY <1>1, <1>2, <1>4, <1>9
    <3>3. Balanced(p, c)' /\ Heard(p, c)'
      BY <3>1, <3>2, <1>1 DEF IInv, Synced, Balanced, Heard
    <3> QED BY <2>2, <3>3, <1>6
  <2>3. CASE d # c
    <3>1. /\ wire'[t][d] = wire[t][d] /\ step'[t][d] = step[t][d]
          /\ Read(t, d)' = Read(t, d) /\ heard'[t][d] = heard[t][d]
      BY <2>3, <1>4, <1>5, <1>6, <1>9
    <3> QED BY <3>1, <1>2, Elsewhere DEF IInv
  <2> QED BY <2>1, <2>2, <2>3, SidesPeer DEF p
<1>12. DialledOnce' /\ InSync'
  BY <1>2, <1>8 DEF IInv, DialledOnce, InSync
<1> QED BY <1>10, <1>11, <1>12 DEF IInv

\* A script at its end has sent and read everything.
LEMMA CompleteStep ==
  ASSUME IInv, NEW s \in Sides, NEW c \in Clients, Complete(s, c)
  PROVE  IInv'
<1>1. /\ state[s][c] = "handshake" /\ step[s][c] = 7
      /\ state' = [state EXCEPT ![s][c] = "up"]
      /\ UNCHANGED <<serve, listening, doneCh, backlog, step, heard, wire, open, broken, wrong>>
  <2>1. Len(Script(s)) = 6
    BY Scripts
  <2> QED BY <2>1 DEF Complete, serverVars
<1>2. TypeOK'
  BY <1>1 DEF IInv, TypeOK
<1>3. DialledOnce' /\ InSync'
  BY <1>1 DEF IInv, TypeOK, DialledOnce, InSync, Sides
<1>4. Synced'
  <2> SUFFICES ASSUME NEW t \in Sides, NEW d \in Clients
               PROVE  InOrder(t, d)' /\ Balanced(t, d)' /\ Heard(t, d)'
    BY DEF Synced
  <2>1. InOrder(t, d)' /\ Heard(t, d)' /\ Written(t, d)' = Written(t, d)
    BY <1>1, Elsewhere DEF IInv, Read
  <2>2. Balanced(t, d)'
    <3>1. CASE t = s /\ d = c
      <4>1. state'[t][d] = "up" /\ Written(t, d) = 3
        BY <3>1, <1>1, Counts DEF IInv, TypeOK, Synced, Balanced
      <4> QED BY <4>1, <3>1, <2>1, <1>1 DEF Balanced
    <3>2. CASE ~(t = s /\ d = c)
      <4>1. state'[t][d] = state[t][d]
        BY <3>2, <1>1 DEF IInv, TypeOK
      <4> QED BY <4>1, <2>1, <1>1 DEF IInv, Synced, Balanced
    <3> QED BY <3>1, <3>2
  <2> QED BY <2>1, <2>2
<1> QED BY <1>2, <1>3, <1>4 DEF IInv

\* Chunks come behind the whole handshake.
LEMMA WriteChunkStep ==
  ASSUME IInv, NEW s \in Sides, NEW c \in Clients, WriteChunk(s, c)
  PROVE  IInv'
<1> DEFINE x == [part |-> 3]
<1>1. /\ state[s][c] = "up" /\ Put(s, c, x)
      /\ UNCHANGED <<serve, listening, doneCh, backlog, state, step, heard, open, broken, wrong>>
  BY DEF WriteChunk, serverVars
<1>2. Read(s, c) \in 0 .. 3 /\ Len(wire[s][c]) \in Nat
  BY Reading DEF IInv
<1>3. Written(s, c) >= 3 /\ step[s][c] = 7 /\ Written(s, c) \in Nat
  BY <1>1, <1>2 DEF IInv, Synced, Balanced, Written
<1>4. x = Item(s, Written(s, c))
  BY <1>3 DEF Item
<1>5. \A t \in Sides, d \in Clients : Read(t, d)' = Read(t, d)
  BY <1>1 DEF Read
<1> HIDE DEF x
<1>6. /\ InOrder(s, c)' /\ Written(s, c)' = Written(s, c) + 1
      /\ \A t \in Sides, d \in Clients : ~(t = s /\ d = c) => wire'[t][d] = wire[t][d]
      /\ wire' \in [Sides -> [Clients -> Seq(Parts)]]
      /\ \A t \in Sides, d \in Clients : Len(wire'[t][d]) <= Capacity
  BY <1>1, <1>4, <1>5, PutNext
<1>7. TypeOK' /\ DialledOnce' /\ InSync'
  BY <1>1, <1>6 DEF IInv, TypeOK, DialledOnce, InSync
<1>8. Synced'
  <2> SUFFICES ASSUME NEW t \in Sides, NEW d \in Clients
               PROVE  InOrder(t, d)' /\ Balanced(t, d)' /\ Heard(t, d)'
    BY DEF Synced
  <2>1. CASE t = s /\ d = c
    <3>1. Balanced(s, c)'
      BY <1>1, <1>3, <1>6 DEF Balanced
    <3>2. Heard(s, c)'
      BY <1>1 DEF IInv, Synced, Heard
    <3> QED BY <2>1, <3>1, <3>2, <1>6
  <2>2. CASE ~(t = s /\ d = c)
    BY <2>2, <1>1, <1>5, <1>6, Elsewhere DEF IInv
  <2> QED BY <2>1, <2>2
<1> QED BY <1>7, <1>8 DEF IInv

\* A message loop finds chunks only: its own handshake is over, and so all
\* parts of the peer's have been read.
LEMMA ReadChunkStep ==
  ASSUME IInv, NEW s \in Sides, NEW c \in Clients, ReadChunk(s, c)
  PROVE  IInv'
<1> DEFINE p == Peer(s)
<1>1. /\ state[s][c] = "up" /\ wire[p][c] # <<>>
      /\ wrong' = IF Head(wire[p][c]).part # 3 THEN "bytes" ELSE wrong
      /\ wire' = [wire EXCEPT ![p][c] = Tail(@)]
      /\ UNCHANGED <<serve, listening, doneCh, backlog, state, step, heard, open, broken>>
  BY DEF ReadChunk, serverVars
<1>2. p \in Sides /\ p # s /\ Peer(p) = s
  BY SidesPeer
<1>3. \A t \in Sides, d \in Clients : Read(t, d)' = Read(t, d)
  BY <1>1 DEF Read
<1>4. Read(p, c) = 3 /\ Read(p, c)' = Read(p, c)
  <2>1. Read(p, c) = 3
    BY <1>1, <1>2, Counts DEF IInv, Synced, Balanced, Read
  <2> QED BY <2>1, <1>2, <1>3
<1> HIDE DEF p
<1>5. /\ Head(wire[p][c]) = Item(p, Read(p, c)) /\ InOrder(p, c)'
      /\ Written(p, c)' = Written(p, c) - 1 + (Read(p, c)' - Read(p, c))
      /\ Len(wire[p][c]) >= 1
      /\ \A t \in Sides, d \in Clients : ~(t = p /\ d = c) => wire'[t][d] = wire[t][d]
      /\ wire' \in [Sides -> [Clients -> Seq(Parts)]]
      /\ \A t \in Sides, d \in Clients : Len(wire'[t][d]) <= Capacity
  BY <1>1, <1>2, <1>3, <1>4, TakeNext
<1>6. wrong' = wrong
  BY <1>1, <1>4, <1>5 DEF Item
<1>7. TypeOK' /\ DialledOnce' /\ InSync'
  BY <1>1, <1>5, <1>6 DEF IInv, TypeOK, DialledOnce, InSync
<1>8. Synced'
  <2> SUFFICES ASSUME NEW t \in Sides, NEW d \in Clients
               PROVE  InOrder(t, d)' /\ Balanced(t, d)' /\ Heard(t, d)'
    BY DEF Synced
  <2>1. CASE t = p /\ d = c
    <3>1. Written(p, c) >= 4 /\ Written(p, c)' >= 3 /\ Written(p, c)' <= Written(p, c)
      <4>1. Len(wire[p][c]) \in Nat
        BY <1>2, Reading DEF IInv
      <4>2. Written(p, c) = 3 + Len(wire[p][c])
        BY <1>4 DEF Written
      <4> QED BY <4>1, <4>2, <1>3, <1>4, <1>5, <1>2
    <3>2. Written(p, c) \in Nat /\ Written(p, c)' \in Nat
      <4>1. Len(wire[p][c]) \in Nat
        BY <1>2, Reading DEF IInv
      <4>2. Written(p, c) = 3 + Len(wire[p][c])
        BY <1>4 DEF Written
      <4> QED BY <4>1, <4>2, <1>2, <1>3, <1>4, <1>5
    <3>3. step[p][c] \in 1 .. 7 /\ Sent(p, step[p][c]) \in 0 .. 3
      BY <1>2, Counts DEF IInv, TypeOK
    <3>4. Balanced(p, c)'
      BY <3>1, <3>2, <3>3, <1>1, <1>2 DEF IInv, Synced, Balanced
    <3>5. Heard(p, c)'
      BY <1>1, <1>2 DEF IInv, Synced, Heard
    <3> QED BY <2>1, <3>4, <3>5, <1>5
  <2>2. CASE ~(t = p /\ d = c)
    BY <2>2, <1>1, <1>3, <1>5, Elsewhere DEF IInv
  <2> QED BY <2>1, <2>2
<1> QED BY <1>7, <1>8 DEF IInv

\* Closing may drop what was sent.
LEMMA CloseConnStep ==
  ASSUME IInv, NEW s \in Sides, NEW c \in Clients, CloseConn(s, c)
  PROVE  IInv'
<1>1. /\ state[s][c] \in {"failed", "up", "ended"}
      /\ state' = [state EXCEPT ![s][c] = "closed"]
      /\ open' = [open EXCEPT ![s][c] = FALSE]
      /\ wire' = wire \/ wire' = [wire EXCEPT ![s][c] = <<>>]
      /\ UNCHANGED <<serve, listening, doneCh, backlog, step, heard, broken, wrong>>
  BY DEF CloseConn, serverVars
<1>2. /\ wire' \in [Sides -> [Clients -> Seq(Parts)]]
      /\ wire'[s][c] \in {wire[s][c], <<>>}
      /\ \A t \in Sides, d \in Clients : ~(t = s /\ d = c) => wire'[t][d] = wire[t][d]
  <2>1. CASE wire' = wire
    BY <2>1 DEF IInv, TypeOK
  <2>2. CASE wire' = [wire EXCEPT ![s][c] = <<>>]
    <3>1. <<>> \in Seq(Parts)
      OBVIOUS
    <3> QED BY <2>2, <3>1 DEF IInv, TypeOK
  <2> QED BY <2>1, <2>2, <1>1
<1>3. /\ state' \in [Sides -> [Clients -> {"none", "handshake", "up", "ended", "failed", "closed"}]]
      /\ open' \in [Sides -> [Clients -> BOOLEAN]]
      /\ state'[s][c] = "closed"
      /\ \A t \in Sides, d \in Clients : ~(t = s /\ d = c) => state'[t][d] = state[t][d]
  BY <1>1 DEF IInv, TypeOK
<1>4. \A t \in Sides, d \in Clients : Len(wire'[t][d]) <= Capacity
  <2>1. Len(<<>>) <= Capacity
    BY ConstantsAssumption
  <2> QED BY <2>1, <1>2 DEF IInv, TypeOK
<1>5. TypeOK' /\ InSync'
  BY <1>1, <1>2, <1>3, <1>4 DEF IInv, TypeOK, InSync
<1>6. DialledOnce'
  BY <1>1, <1>3 DEF IInv, DialledOnce, Sides
<1>7. Synced'
  <2> SUFFICES ASSUME NEW t \in Sides, NEW d \in Clients
               PROVE  InOrder(t, d)' /\ Balanced(t, d)' /\ Heard(t, d)'
    BY DEF Synced
  <2>1. Heard(t, d)' /\ Read(t, d)' = Read(t, d)
    BY <1>1 DEF IInv, Synced, Heard, Read
  <2>2. CASE t = s /\ d = c
    <3>1. InOrder(s, c)'
      <4>1. CASE wire'[s][c] = wire[s][c]
        BY <4>1, <2>1, <2>2, Elsewhere DEF IInv
      <4>2. CASE wire'[s][c] = <<>>
        BY <4>2 DEF InOrder
      <4> QED BY <4>1, <4>2, <1>2
    <3>2. /\ Written(s, c) \in Nat /\ Written(s, c)' \in Nat
          /\ Written(s, c)' = Written(s, c) \/ Written(s, c)' = Read(s, c)
          /\ Read(s, c) <= Written(s, c)
      <4>1. Read(s, c) \in 0 .. 3 /\ Len(wire[s][c]) \in Nat
        BY Reading DEF IInv
      <4>2. Written(s, c) \in Nat /\ Read(s, c) <= Written(s, c)
        <5>1. \A a \in 0 .. 3, b \in Nat : a + b \in Nat /\ a <= a + b
          OBVIOUS
        <5> QED BY <4>1, <5>1, Zenon DEF Written
      <4>3. CASE wire'[s][c] = wire[s][c]
        <5>1. Written(s, c)' = Written(s, c)
          BY <4>3, <2>1, <2>2, Elsewhere DEF IInv
        <5> QED BY <5>1, <4>2
      <4>4. CASE wire'[s][c] = <<>>
        <5>1. Written(s, c)' = Read(s, c)' + Len(wire'[s][c])
          BY Zenon DEF Written
        <5>2. Read(s, c)' = Read(s, c) /\ Len(wire'[s][c]) = 0
          BY <4>4, <2>1, <2>2
        <5>3. Written(s, c)' = Read(s, c)
          BY <5>1, <5>2, <4>1
        <5> QED BY <5>3, <4>1, <4>2
      <4> QED BY <4>3, <4>4, <1>2
    <3>3. step[s][c] \in 1 .. 7 /\ Sent(s, step[s][c]) \in 0 .. 3
      BY Counts DEF IInv, TypeOK
    <3>4. Balanced(s, c)'
      BY <3>2, <3>3, <1>1, <1>3 DEF IInv, Synced, Balanced
    <3> QED BY <2>1, <2>2, <3>1, <3>4
  <2>3. CASE ~(t = s /\ d = c)
    BY <2>1, <2>3, <1>1, <1>2, <1>3, Elsewhere DEF IInv
  <2> QED BY <2>2, <2>3
<1> QED BY <1>5, <1>6, <1>7 DEF IInv

-----------------------------------------------------------------------------

\* Every step, and every stutter, keeps the invariant.
LEMMA NextInv == IInv /\ [Next]_vars => IInv'
<1> SUFFICES ASSUME IInv, [Next]_vars PROVE IInv'
  OBVIOUS
<1>1. CASE UNCHANGED vars
  <2>1. TypeOK'
    BY <1>1 DEF IInv, TypeOK, vars
  <2> QED BY <2>1, <1>1, QuietStep DEF vars
<1>2. CASE Serve \/ Close \/ AcceptLoop
  BY <1>2, ServerStep, BeginStep DEF AcceptLoop
<1>3. ASSUME NEW c \in Clients, Dial(c) \/ HandlerFails(c) \/ Break(c) PROVE IInv'
  <2>1. "client" \in Sides
    BY DEF Sides
  <2> QED BY <2>1, <1>3, BeginStep, EndStep
<1>4. ASSUME NEW s \in Sides, NEW c \in Clients,
             Continue(s, c) \/ WriteChunk(s, c) \/ CloseConn(s, c)
      PROVE  IInv'
  BY <1>4, EncodeStep, DecodeStep, CompleteStep, WriteChunkStep, ReadChunkStep, EndStep, CloseConnStep
  DEF Continue
<1> QED BY <1>1, <1>2, <1>3, <1>4 DEF Next

\* The invariant holds in every behaviour.
LEMMA Invariant == Spec => []IInv
BY InitInv, NextInv, PTL DEF Spec

\* The types of server, sockets and handshakes: a socket never holds more than
\* its room (Server, Conn).
THEOREM Typing == Spec => []TypeOK
<1>1. IInv => TypeOK
  BY DEF IInv
<1> QED BY <1>1, Invariant, PTL

\* Every read of a handshake or of a message loop finds what was meant for it,
\* and the echo is the own random (HandshakeWithClient, HandshakeWithServer).
THEOREM ReadsInSync == Spec => []InSync
<1>1. IInv => InSync
  BY DEF IInv
<1> QED BY <1>1, Invariant, PTL

\* What either side may conclude about the other when its own handshake is over.
THEOREM SidesAgree == Spec => []Agreed
<1>1. IInv => Agreed
  <2> SUFFICES ASSUME IInv, NEW c \in Clients
               PROVE  /\ state["server"][c] = "up" => step["client"][c] = 7
                      /\ state["client"][c] = "up" => step["server"][c] >= 6
    <3>1. Len(ClientScript) + 1 = 7 /\ Len(ServerScript) = 6
      BY DEF ClientScript, ServerScript
    <3> QED BY <3>1 DEF Agreed
  <2>1. \A s \in Sides : state[s][c] = "up" => Sent(Peer(s), step[Peer(s)][c]) >= 3 \/ step[Peer(s)][c] = 7
    <3> SUFFICES ASSUME NEW s \in Sides, state[s][c] = "up", step[Peer(s)][c] # 7
                 PROVE  Sent(Peer(s), step[Peer(s)][c]) >= 3
      OBVIOUS
    <3> DEFINE p == Peer(s)
    <3>1. p \in Sides /\ Peer(p) = s /\ step[p][c] \in 1 .. 7
      BY SidesPeer DEF IInv, TypeOK
    <3>2. Read(p, c) = 3
      BY <3>1, Counts DEF IInv, Synced, Balanced, Read
    <3>3. Written(p, c) <= Sent(p, step[p][c]) /\ Sent(p, step[p][c]) \in 0 .. 3
      BY <3>1, Counts DEF IInv, Synced, Balanced
    <3>4. Len(wire[p][c]) \in Nat /\ Written(p, c) = 3 + Len(wire[p][c])
      BY <3>1, <3>2, Reading DEF IInv, Written
    <3> QED BY <3>3, <3>4
  <2>2. \A s \in Sides : step[s][c] \in 1 .. 7
    BY DEF IInv, TypeOK
  <2> QED BY <2>1, <2>2 DEF Sides, Peer, Sent
<1> QED BY <1>1, Invariant, PTL
=============================================================================
