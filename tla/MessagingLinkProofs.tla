------------------------ MODULE MessagingLinkProofs -------------------------
(***************************************************************************)
(* Proofs about the messaging engine's links, for any clients, connections, *)
(* frames and pieces of them. What a Go client has received and what is     *)
(* under way to it are the frames the server sent after those it handled.   *)
(***************************************************************************)
EXTENDS MessagingLink, TLAPS

-----------------------------------------------------------------------------
(* The invariant. *)

Frames == [type : {"message", "heartbeat", "junk"}, seq : Nat]
Pieces == [frame : Frames, part : Nat]

LinkStates == {"new", "open", "closed", "reset"}
SwiftStates == {"none", "connecting", "connected", "disconnected"}

Pipes == [state : LinkStates, up : Seq(Pieces), down : Seq(Pieces)]

Typed ==
  /\ proc \in [{"server"} \cup SwiftClients -> {"running", "trapped", "hung"}]
  /\ plan \subseteq Links
  /\ link \in [Links -> Pipes]
  /\ sw \in [Ends -> [Links -> [state : SwiftStates, shifted : BOOLEAN, seq : Nat]]]
  /\ connections \subseteq Links
  /\ go \in [GoClients -> [connected : BOOLEAN, conn : Links \cup {NoLink}, connects : Nat,
                           seq : Nat, buffer : Seq(Pieces)]]
  /\ recv \in [GoLinks -> [pc : {"none", "starting", "reading", "processing", "ended"},
                           on : Links \cup {NoLink}]]
  /\ beat \in [GoLinks -> {"none", "waiting", "ended"}]
  /\ sender \in [GoClients -> [Senders -> [pc : {"idle", "writing"},
                                           on : Links \cup {NoLink}, seq : Nat]]]
  /\ written \in [Links -> Seq(Frames)]
  /\ clean \in [GoLinks -> BOOLEAN]
  /\ handled \in [GoLinks -> Seq(Frames)]

\* The server's table, and the connections that may be used.
Registered ==
  connections = {k \in Links : sw["server"][k].state \in {"connecting", "connected"}}

\* A Go client is on the connection of its last Connect; on those that are
\* still to come there has been nothing.
Connected ==
  \A c \in GoClients :
    /\ go[c].connected => go[c].connects > 0
    /\ go[c].connects > 0 => go[c].conn = <<c, go[c].connects>> /\ go[c].conn \in GoLinks

Untouched ==
  \A k \in GoLinks : k[2] > go[Owner(k)].connects =>
    /\ link[k].state = "new" /\ link[k].down = <<>>
    /\ written[k] = <<>> /\ handled[k] = <<>>
    /\ recv[k].pc = "none" /\ sw["server"][k].state = "none"

\* A receiveLoop reads connections of its client, and while a client's
\* connections are clean that of its last Connect, alone.
Looping ==
  \A k \in GoLinks :
    /\ recv[k].pc \in {"reading", "processing"} =>
         recv[k].on \in GoLinks /\ Owner(recv[k].on) = Owner(k)
    /\ clean[k] /\ Reads(k) =>
         k[2] = go[Owner(k)].connects /\ (recv[k].pc # "starting" => recv[k].on = k)
    /\ \A j \in GoLinks : Owner(j) = Owner(k) => clean[j] = clean[k]

\* The cells in R are, from the first, those of the frames in ws after the h
\* first, and of all of them on an open link: g says of which frame a cell is.
Spelled(g, R, ws, h, state) ==
  /\ R # <<>> => g[1] = h + 1 /\ R[1].part = 1
  /\ \A i \in 1 .. Len(R) : R[i].frame = ws[g[i]]
  /\ \A i \in 1 .. Len(R) - 1 :
       IF R[i].part = Size(R[i].frame)
       THEN R[i + 1].part = 1 /\ g[i + 1] = g[i] + 1
       ELSE R[i + 1].part = R[i].part + 1 /\ g[i + 1] = g[i]
  /\ state = "open" =>
       IF R = <<>> THEN h = Len(ws)
       ELSE g[Len(R)] = Len(ws) /\ R[Len(R)].part = Size(R[Len(R)].frame)

Follows(R, ws, h, state) ==
  \E g \in [1 .. Len(R) -> 1 .. Len(ws)] : Spelled(g, R, ws, h, state)

\* What a Go client has received and not handled, and what is under way to it.
Ahead(k) == go[Owner(k)].buffer \o link[k].down

Streamed ==
  \A k \in GoLinks : clean[k] =>
    /\ IsPrefix(handled[k], written[k])
    /\ k[2] = go[Owner(k)].connects =>
         Follows(Ahead(k), written[k], Len(handled[k]), link[k].state)

IInv == Typed /\ Registered /\ Connected /\ Untouched /\ Looping /\ Streamed

-----------------------------------------------------------------------------
(* Frames, cells and links. *)

\* What a frame's cells are.
LEMMA CellsOf ==
  ASSUME NEW f \in Frames
  PROVE  /\ Cells(f) \in Seq(Pieces) /\ Len(Cells(f)) = Size(f) /\ Size(f) \in {1, 2}
         /\ \A i \in 1 .. Size(f) : Cells(f)[i].frame = f /\ Cells(f)[i].part = i
<1>1. Size(f) \in {1, 2}
  BY DEF Size, HeaderCells
<1>2. PICK n \in Nat : n = Size(f) /\ n \in {1, 2}
  BY <1>1
<1>3. \A i \in 1 .. n : [frame |-> f, part |-> i] \in Pieces
  BY DEF Pieces
<1>4. Cells(f) = [i \in 1 .. n |-> [frame |-> f, part |-> i]]
  BY <1>2 DEF Cells
<1> QED BY <1>2, <1>3, <1>4

\* A frame sent to the client of a link.
LEMMA SentDown ==
  ASSUME NEW l \in Pipes, NEW f \in Frames, NEW m, m = Sent(l, "down", f)
  PROVE  /\ m \in Pipes
         /\ l.state = "new" => m = l
         /\ IF l.state = "open" THEN m.state = "open" /\ m.down = l.down \o Cells(f)
            ELSE m.state # "open" /\ m.down = l.down
<1>1. Cells(f) \in Seq(Pieces)
  BY CellsOf
<1>2. l.state \in LinkStates /\ l.up \in Seq(Pieces) /\ l.down \in Seq(Pieces)
  BY DEF Pipes
<1>3. CASE l.state = "open"
  <2>1. m = [l EXCEPT !.down = l.down \o Cells(f)]
    BY <1>3 DEF Sent
  <2>2. l.down \o Cells(f) \in Seq(Pieces)
    BY <1>1, <1>2
  <2> QED BY <2>1, <2>2, <1>3 DEF Pipes
<1>4. CASE l.state = "closed"
  <2>1. m = [l EXCEPT !.state = "reset", !.up = <<>>]
    BY <1>4 DEF Sent
  <2>2. <<>> \in Seq(Pieces)
    OBVIOUS
  <2> QED BY <2>1, <2>2, <1>2, <1>4 DEF Pipes, LinkStates
<1>5. CASE l.state \in {"new", "reset"}
  <2>1. m = l
    BY <1>5 DEF Sent
  <2> QED BY <2>1, <1>5
<1> QED BY <1>2, <1>3, <1>4, <1>5 DEF LinkStates

\* A frame sent to the server.
LEMMA SentUp ==
  ASSUME NEW l \in Pipes, NEW f \in Frames, NEW m, m = Sent(l, "up", f)
  PROVE  /\ m \in Pipes /\ m.down = l.down
         /\ l.state = "new" => m = l
         /\ m.state = "open" <=> l.state = "open"
<1>1. Cells(f) \in Seq(Pieces)
  BY CellsOf
<1>2. l.state \in LinkStates /\ l.up \in Seq(Pieces) /\ l.down \in Seq(Pieces)
  BY DEF Pipes
<1>3. CASE l.state = "open"
  <2>1. m = [l EXCEPT !.up = l.up \o Cells(f)]
    BY <1>3 DEF Sent
  <2>2. l.up \o Cells(f) \in Seq(Pieces)
    BY <1>1, <1>2
  <2> QED BY <2>1, <2>2, <1>3 DEF Pipes
<1>4. CASE l.state = "closed"
  <2>1. m = [l EXCEPT !.state = "reset", !.up = <<>>]
    BY <1>4 DEF Sent
  <2>2. <<>> \in Seq(Pieces)
    OBVIOUS
  <2> QED BY <2>1, <2>2, <1>2, <1>4 DEF Pipes, LinkStates
<1>5. CASE l.state \in {"new", "reset"}
  <2>1. m = l
    BY <1>5 DEF Sent
  <2> QED BY <2>1, <1>5
<1> QED BY <1>2, <1>3, <1>4, <1>5 DEF LinkStates

\* A link that its client has closed.
LEMMA ClosedFields ==
  ASSUME NEW l \in Pipes, NEW m, m = ClosedLink(l)
  PROVE  m \in Pipes /\ m.down = <<>> /\ m.state # "open" /\ (l.state = "new" => m.state = "new")
<1>1. <<>> \in Seq(Pieces)
  OBVIOUS
<1>2. l.state \in LinkStates /\ l.up \in Seq(Pieces) /\ l.down \in Seq(Pieces)
  BY DEF Pipes
<1>3. CASE l.state # "open"
  <2>1. m = [l EXCEPT !.down = <<>>]
    BY <1>3 DEF ClosedLink
  <2> QED BY <2>1, <1>1, <1>2, <1>3 DEF Pipes
<1>4. CASE l.state = "open" /\ l.down = <<>>
  <2>1. m = [l EXCEPT !.state = "closed"]
    BY <1>4 DEF ClosedLink
  <2> QED BY <2>1, <1>2, <1>4 DEF Pipes, LinkStates
<1>5. CASE l.state = "open" /\ l.down # <<>>
  <2>1. m = [state |-> "reset", up |-> <<>>, down |-> <<>>]
    BY <1>5 DEF ClosedLink
  <2> QED BY <2>1, <1>1, <1>5 DEF Pipes, LinkStates
<1> QED BY <1>3, <1>4, <1>5

-----------------------------------------------------------------------------
(* The cells of frames. *)

\* There are none in what has not been used.
LEMMA NothingFollows ==
  ASSUME NEW state
  PROVE  Follows(<<>>, <<>>, 0, state)
<1>1. PICK g : g = [i \in 1 .. 0 |-> i]
  OBVIOUS
<1>2. g \in [1 .. 0 -> 1 .. 0]
  BY <1>1
<1>3. Spelled(g, <<>>, <<>>, 0, state)
  BY DEF Spelled
<1> QED BY <1>2, <1>3 DEF Follows

\* What is lost of the cells is the last of them.
LEMMA CutFollows ==
  ASSUME NEW R \in Seq(Pieces), NEW ws \in Seq(Frames), NEW h \in Nat, NEW n \in 0 .. Len(R),
         NEW s, NEW t, Follows(R, ws, h, s), t # "open"
  PROVE  Follows(SubSeq(R, 1, n), ws, h, t)
<1>1. PICK g \in [1 .. Len(R) -> 1 .. Len(ws)] : Spelled(g, R, ws, h, s)
  BY DEF Follows
<1>2. PICK Q : Q = SubSeq(R, 1, n)
  OBVIOUS
<1>3. Len(Q) = n /\ n <= Len(R) /\ n \in Nat /\ Len(R) \in Nat /\ \A i \in 1 .. n : Q[i] = R[i]
  BY <1>2
<1>4. PICK f : f = [i \in 1 .. n |-> g[i]]
  OBVIOUS
<1>5. f \in [1 .. Len(Q) -> 1 .. Len(ws)]
  <2>1. \A i \in 1 .. n : g[i] \in 1 .. Len(ws)
    BY <1>1, <1>3
  <2> QED BY <2>1, <1>3, <1>4
<1>6. Spelled(f, Q, ws, h, t)
  <2>1. Q # <<>> => f[1] = h + 1 /\ Q[1].part = 1
    BY <1>1, <1>2, <1>3, <1>4 DEF Spelled
  <2>2. \A i \in 1 .. Len(Q) : Q[i].frame = ws[f[i]]
    <3>1. \A i \in 1 .. n : i \in 1 .. Len(R) /\ Q[i] = R[i] /\ f[i] = g[i]
      BY <1>3, <1>4
    <3>2. \A i \in 1 .. Len(R) : R[i].frame = ws[g[i]]
      BY <1>1 DEF Spelled
    <3> QED BY <3>1, <3>2, <1>3
  <2>3. ASSUME NEW i \in 1 .. Len(Q) - 1
        PROVE  IF Q[i].part = Size(Q[i].frame)
               THEN Q[i + 1].part = 1 /\ f[i + 1] = f[i] + 1
               ELSE Q[i + 1].part = Q[i].part + 1 /\ f[i + 1] = f[i]
    <3>1. i \in 1 .. Len(R) - 1 /\ i \in 1 .. n /\ i + 1 \in 1 .. n
      BY <1>3
    <3>2. Q[i] = R[i] /\ Q[i + 1] = R[i + 1] /\ f[i] = g[i] /\ f[i + 1] = g[i + 1]
      BY <3>1, <1>3, <1>4
    <3> QED BY <3>1, <3>2, <1>1 DEF Spelled
  <2> QED BY <2>1, <2>2, <2>3 DEF Spelled
<1> QED BY <1>2, <1>5, <1>6 DEF Follows

\* A frame that does not reach the client changes nothing.
LEMMA LostFollows ==
  ASSUME NEW R \in Seq(Pieces), NEW ws \in Seq(Frames), NEW h \in Nat, NEW f \in Frames,
         NEW s, NEW t, Follows(R, ws, h, s), t # "open"
  PROVE  Follows(R, Append(ws, f), h, t)
<1>1. PICK g \in [1 .. Len(R) -> 1 .. Len(ws)] : Spelled(g, R, ws, h, s)
  BY DEF Follows
<1>2. PICK v : v = Append(ws, f)
  OBVIOUS
<1>3. Len(v) = Len(ws) + 1 /\ Len(ws) \in Nat /\ \A i \in 1 .. Len(ws) : v[i] = ws[i]
  BY <1>2
<1>4. g \in [1 .. Len(R) -> 1 .. Len(v)]
  BY <1>3
<1>5. \A i \in 1 .. Len(R) : v[g[i]] = ws[g[i]]
  BY <1>3
<1>6. Spelled(g, R, v, h, t)
  BY <1>1, <1>5 DEF Spelled
<1> QED BY <1>2, <1>4, <1>6 DEF Follows

\* A frame that is sent comes after the others.
LEMMA SentFollows ==
  ASSUME NEW R \in Seq(Pieces), NEW ws \in Seq(Frames), NEW h \in Nat, NEW f \in Frames,
         Follows(R, ws, h, "open")
  PROVE  Follows(R \o Cells(f), Append(ws, f), h, "open")
<1>1. PICK g \in [1 .. Len(R) -> 1 .. Len(ws)] : Spelled(g, R, ws, h, "open")
  BY DEF Follows
<1>2. PICK v, m, n : v = Append(ws, f) /\ m = Len(R) /\ n = Size(f)
  OBVIOUS
<1>3. /\ Len(v) = Len(ws) + 1 /\ Len(ws) \in Nat
      /\ \A i \in 1 .. Len(ws) : v[i] = ws[i]
      /\ v[Len(ws) + 1] = f
  BY <1>2
<1>4. m \in Nat /\ n \in {1, 2}
  BY <1>2, CellsOf
<1>5. PICK Q : Q = R \o Cells(f)
  OBVIOUS
<1>6. /\ Len(Q) = m + n
      /\ \A i \in 1 .. m : Q[i] = R[i]
      /\ \A i \in 1 .. n : Q[m + i].frame = f /\ Q[m + i].part = i
  <2>1. /\ Cells(f) \in Seq(Pieces) /\ Len(Cells(f)) = n
        /\ \A i \in 1 .. n : Cells(f)[i].frame = f /\ Cells(f)[i].part = i
    BY <1>2, CellsOf
  <2>2. PICK C \in Seq(Pieces) : C = Cells(f)
    BY <2>1
  <2>3. /\ Len(Q) = m + n
        /\ \A i \in 1 .. m : Q[i] = R[i]
        /\ \A i \in 1 .. n : Q[m + i] = C[i]
    BY <2>1, <2>2, <1>2, <1>4, <1>5
  <2> QED BY <2>1, <2>2, <2>3
<1>7. PICK e : e = [i \in 1 .. m + n |-> IF i <= m THEN g[i] ELSE Len(ws) + 1]
  OBVIOUS
<1>8. e \in [1 .. Len(Q) -> 1 .. Len(v)]
  BY <1>1, <1>2, <1>3, <1>4, <1>6, <1>7
<1>9. /\ \A i \in 1 .. m : e[i] = g[i] /\ g[i] \in 1 .. Len(ws)
      /\ e[m + 1] = Len(ws) + 1 /\ (n = 2 => e[m + 2] = Len(ws) + 1)
  <2>1. ASSUME NEW i \in 1 .. m PROVE e[i] = g[i] /\ g[i] \in 1 .. Len(ws)
    BY <1>1, <1>2, <1>4, <1>7
  <2>2. e[m + 1] = Len(ws) + 1
    BY <1>4, <1>7
  <2>3. n = 2 => e[m + 2] = Len(ws) + 1
    BY <1>4, <1>7
  <2> QED BY <2>1, <2>2, <2>3
<1>10. Spelled(e, Q, v, h, "open")
  <2>1. m = 0 <=> R = <<>>
    BY <1>2
  <2>2. Q # <<>> /\ e[1] = h + 1 /\ Q[1].part = 1
    <3>1. CASE m = 0
      <4>1. h = Len(ws)
        BY <3>1, <2>1, <1>1 DEF Spelled
      <4> QED BY <3>1, <4>1, <1>4, <1>6, <1>9
    <3>2. CASE m # 0
      BY <3>2, <2>1, <1>1, <1>2, <1>4, <1>6, <1>9 DEF Spelled
    <3> QED BY <3>1, <3>2
  <2>3. ASSUME NEW i \in 1 .. Len(Q) PROVE Q[i].frame = v[e[i]]
    <3>1. CASE i \in 1 .. m
      BY <3>1, <1>1, <1>2, <1>3, <1>6, <1>9 DEF Spelled
    <3>2. CASE i = m + 1 \/ (n = 2 /\ i = m + 2)
      <4>1. Q[i].frame = f
        <5>1. CASE i = m + 1
          <6>1. 1 \in 1 .. n
            BY <1>4
          <6> QED BY <6>1, <5>1, <1>6
        <5>2. CASE n = 2 /\ i = m + 2
          <6>1. 2 \in 1 .. n
            BY <5>2
          <6> QED BY <6>1, <5>2, <1>6
        <5> QED BY <5>1, <5>2, <3>2
      <4>2. e[i] = Len(ws) + 1
        BY <3>2, <1>9
      <4> QED BY <4>1, <4>2, <1>3
    <3> QED BY <3>1, <3>2, <1>4, <1>6
  <2>4. ASSUME NEW i \in 1 .. Len(Q) - 1
        PROVE  IF Q[i].part = Size(Q[i].frame)
               THEN Q[i + 1].part = 1 /\ e[i + 1] = e[i] + 1
               ELSE Q[i + 1].part = Q[i].part + 1 /\ e[i + 1] = e[i]
    <3>1. CASE i \in 1 .. m - 1
      <4>1. i \in 1 .. m /\ i + 1 \in 1 .. m
        BY <3>1, <1>4
      <4>2. Q[i] = R[i] /\ Q[i + 1] = R[i + 1] /\ e[i] = g[i] /\ e[i + 1] = g[i + 1]
        BY <4>1, <1>6, <1>9
      <4> QED BY <3>1, <4>2, <1>1, <1>2 DEF Spelled
    <3>2. CASE i = m /\ m # 0
      <4>1. g[m] = Len(ws) /\ R[m].part = Size(R[m].frame)
        BY <3>2, <2>1, <1>1, <1>2 DEF Spelled
      <4>2. Q[i] = R[m] /\ Q[i + 1].part = 1 /\ e[i] = g[m] /\ e[i + 1] = Len(ws) + 1
        BY <3>2, <1>4, <1>6, <1>9
      <4> QED BY <4>1, <4>2
    <3>3. CASE n = 2 /\ i = m + 1
      <4>1. Q[i].part = 1 /\ Q[i].frame = f /\ Q[i + 1].part = 2
        BY <3>3, <1>4, <1>6
      <4>2. e[i] = Len(ws) + 1 /\ e[i + 1] = Len(ws) + 1
        BY <3>3, <1>4, <1>9
      <4> QED BY <4>1, <4>2, <3>3, <1>2
    <3> QED BY <3>1, <3>2, <3>3, <1>4, <1>6
  <2>5. e[Len(Q)] = Len(v) /\ Q[Len(Q)].part = Size(Q[Len(Q)].frame)
    <3>1. n \in 1 .. n /\ m + n = Len(Q)
      BY <1>4, <1>6
    <3>2. Q[m + n].frame = f /\ Q[m + n].part = n
      BY <3>1, <1>6
    <3>3. e[m + n] = Len(ws) + 1
      BY <1>4, <1>9
    <3> QED BY <3>1, <3>2, <3>3, <1>2, <1>3
  <2> QED BY <2>2, <2>3, <2>4, <2>5 DEF Spelled
<1> QED BY <1>2, <1>5, <1>8, <1>10 DEF Follows

\* The first frame, when it is whole, is the first that was not handled, and
\* what comes after it follows it.
LEMMA TakenFollows ==
  ASSUME NEW R \in Seq(Pieces), NEW ws \in Seq(Frames), NEW h \in Nat, NEW s,
         Follows(R, ws, h, s), R # <<>>, NEW n, n = Size(R[1].frame), n <= Len(R)
  PROVE  /\ R[1].part = 1 /\ h + 1 \in 1 .. Len(ws) /\ R[1].frame = ws[h + 1]
         /\ Follows(SubSeq(R, n + 1, Len(R)), ws, h + 1, s)
<1>1. PICK g \in [1 .. Len(R) -> 1 .. Len(ws)] : Spelled(g, R, ws, h, s)
  BY DEF Follows
<1>2. PICK m \in Nat : m = Len(R) /\ m # 0
  OBVIOUS
<1>3. \A i \in 1 .. m : R[i] \in Pieces /\ R[i].frame \in Frames /\ g[i] \in 1 .. Len(ws)
  <2>1. \A i \in 1 .. m : R[i] \in Pieces /\ g[i] \in 1 .. Len(ws)
    BY <1>1, <1>2
  <2> QED BY <2>1 DEF Pieces
<1>4. /\ 1 \in 1 .. m /\ R[1].part = 1 /\ g[1] = h + 1 /\ h + 1 \in 1 .. Len(ws)
      /\ R[1].frame = ws[h + 1]
  BY <1>1, <1>2, <1>3 DEF Spelled
<1>5. n \in {1, 2} /\ n <= m
  BY <1>2, <1>3, <1>4, CellsOf
<1>6. /\ g[n] = h + 1 /\ R[n].part = Size(R[n].frame)
      /\ n < m => g[n + 1] = h + 2 /\ R[n + 1].part = 1
  <2>1. /\ \A i \in 1 .. m - 1 :
            IF R[i].part = Size(R[i].frame)
            THEN R[i + 1].part = 1 /\ g[i + 1] = g[i] + 1
            ELSE R[i + 1].part = R[i].part + 1 /\ g[i + 1] = g[i]
        /\ \A i \in 1 .. m : R[i].frame = ws[g[i]]
    BY <1>1, <1>2 DEF Spelled
  <2>2. CASE n = 1
    <3>1. g[n] = h + 1 /\ R[n].part = Size(R[n].frame)
      BY <2>2, <1>4
    <3>2. 1 < m => g[2] = h + 2 /\ R[2].part = 1
      <4> SUFFICES ASSUME 1 < m PROVE g[2] = h + 2 /\ R[2].part = 1
        OBVIOUS
      <4>1. 1 \in 1 .. m - 1 /\ R[1].part = Size(R[1].frame)
        BY <2>2, <1>4
      <4>2. R[1 + 1].part = 1 /\ g[1 + 1] = g[1] + 1
        BY <4>1, <2>1
      <4> QED BY <4>2, <1>4
    <3> QED BY <3>1, <3>2, <2>2
  <2>3. CASE n = 2
    <3>1. 1 \in 1 .. m - 1 /\ 2 \in 1 .. m
      BY <2>3, <1>5
    <3>2. R[2].part = 2 /\ g[2] = h + 1
      <4>1. R[1].part # Size(R[1].frame)
        BY <2>3, <1>4
      <4>2. R[1 + 1].part = R[1].part + 1 /\ g[1 + 1] = g[1]
        BY <3>1, <4>1, <2>1
      <4> QED BY <4>2, <1>4
    <3>3. R[2].frame = R[1].frame
      BY <3>1, <3>2, <2>1, <1>4
    <3>4. 2 < m => g[3] = h + 2 /\ R[3].part = 1
      <4> SUFFICES ASSUME 2 < m PROVE g[3] = h + 2 /\ R[3].part = 1
        OBVIOUS
      <4>1. 2 \in 1 .. m - 1 /\ R[2].part = Size(R[2].frame)
        BY <3>2, <3>3, <2>3
      <4>2. R[2 + 1].part = 1 /\ g[2 + 1] = g[2] + 1
        BY <4>1, <2>1
      <4> QED BY <4>2, <3>2
    <3>5. R[2].part = Size(R[2].frame)
      BY <3>2, <3>3, <2>3
    <3> QED BY <3>2, <3>4, <3>5, <2>3
  <2> QED BY <2>2, <2>3, <1>5
<1>7. PICK Q : Q = SubSeq(R, n + 1, m)
  OBVIOUS
<1>8. /\ Len(Q) = m - n /\ m - n \in Nat /\ (Q = <<>> <=> m - n = 0)
      /\ \A i \in 1 .. m - n : Q[i] = R[i + n]
  <2>1. PICK k \in 0 .. Len(R) : k = n
    BY <1>2, <1>5
  <2>2. Q = SubSeq(R, k + 1, Len(R))
    BY <2>1, <1>2, <1>7
  <2>3. /\ Len(Q) = Len(R) - k /\ Q \in Seq(Pieces)
        /\ \A i \in 1 .. Len(R) - k : Q[i] = R[i + k]
    BY <2>2
  <2> QED BY <2>1, <2>3, <1>2, <1>5
<1>9. PICK f : f = [i \in 1 .. m - n |-> g[i + n]]
  OBVIOUS
<1>10. f \in [1 .. Len(Q) -> 1 .. Len(ws)]
  <2>1. \A i \in 1 .. m - n : i + n \in 1 .. m
    BY <1>5
  <2> QED BY <2>1, <1>3, <1>8, <1>9
<1>11. Spelled(f, Q, ws, h + 1, s)
  <2>1. Q # <<>> => f[1] = (h + 1) + 1 /\ Q[1].part = 1
    <3> SUFFICES ASSUME Q # <<>> PROVE f[1] = (h + 1) + 1 /\ Q[1].part = 1
      OBVIOUS
    <3>1. n < m /\ 1 \in 1 .. m - n
      BY <1>5, <1>8
    <3>2. f[1] = g[1 + n] /\ Q[1] = R[1 + n]
      BY <3>1, <1>8, <1>9
    <3>3. 1 + n = n + 1 /\ (h + 1) + 1 = h + 2
      BY <1>5
    <3>4. g[n + 1] = h + 2 /\ R[n + 1].part = 1
      BY <3>1, <1>6
    <3> QED BY <3>2, <3>3, <3>4
  <2>2. ASSUME NEW i \in 1 .. Len(Q) PROVE Q[i].frame = ws[f[i]]
    <3>1. i + n \in 1 .. m /\ Q[i] = R[i + n] /\ f[i] = g[i + n]
      BY <1>5, <1>8, <1>9
    <3> QED BY <3>1, <1>1, <1>2 DEF Spelled
  <2>3. ASSUME NEW i \in 1 .. Len(Q) - 1
        PROVE  IF Q[i].part = Size(Q[i].frame)
               THEN Q[i + 1].part = 1 /\ f[i + 1] = f[i] + 1
               ELSE Q[i + 1].part = Q[i].part + 1 /\ f[i + 1] = f[i]
    <3>1. PICK j \in 1 .. m - 1 : j = i + n
      BY <1>5, <1>8
    <3>2. Q[i] = R[j] /\ Q[i + 1] = R[j + 1] /\ f[i] = g[j] /\ f[i + 1] = g[j + 1]
      <4>1. i \in 1 .. m - n /\ i + 1 \in 1 .. m - n /\ (i + 1) + n = j + 1
        BY <3>1, <1>5, <1>8
      <4> QED BY <4>1, <3>1, <1>8, <1>9
    <3> QED BY <3>1, <3>2, <1>1, <1>2 DEF Spelled
  <2>4. s = "open" => IF Q = <<>> THEN h + 1 = Len(ws)
                      ELSE f[Len(Q)] = Len(ws) /\ Q[Len(Q)].part = Size(Q[Len(Q)].frame)
    <3> SUFFICES ASSUME s = "open"
                 PROVE  IF Q = <<>> THEN h + 1 = Len(ws)
                        ELSE f[Len(Q)] = Len(ws) /\ Q[Len(Q)].part = Size(Q[Len(Q)].frame)
      OBVIOUS
    <3>1. g[m] = Len(ws) /\ R[m].part = Size(R[m].frame)
      BY <1>1, <1>2 DEF Spelled
    <3>2. CASE Q = <<>>
      <4>1. n = m
        BY <3>2, <1>5, <1>8
      <4> QED BY <4>1, <3>1, <3>2, <1>6
    <3>3. CASE Q # <<>>
      <4>1. m - n \in 1 .. m - n /\ (m - n) + n = m
        BY <3>3, <1>5, <1>8
      <4>2. Q[m - n] = R[m] /\ f[m - n] = g[m]
        BY <4>1, <1>8, <1>9
      <4> QED BY <4>2, <3>1, <3>3, <1>8
    <3> QED BY <3>2, <3>3
  <2> QED BY <2>1, <2>2, <2>3, <2>4 DEF Spelled
<1> QED BY <1>2, <1>4, <1>7, <1>10, <1>11 DEF Follows

-----------------------------------------------------------------------------
(* Steps of the Swift processes. *)

\* Connections that no Go client has are Swift clients'.
LEMMA TwoKinds ==
  /\ Links = GoLinks \cup SwiftLinks /\ GoLinks \cap SwiftLinks = {}
  /\ \A k \in GoLinks : Owner(k) \in GoClients /\ k[2] \in Nat /\ k[2] # 0 /\ k = <<Owner(k), k[2]>>
  /\ \A k \in SwiftLinks : Owner(k) \in SwiftClients
  /\ "server" \notin SwiftClients
  /\ \A k \in Links, e \in Ends :
       e = "server" \/ k \in SwiftLinks => Process(e, k) \in {"server"} \cup SwiftClients
<1>1. Links = GoLinks \cup SwiftLinks
  BY DEF Links
<1>2. GoLinks \cap SwiftLinks = {}
  BY LinkAssumption DEF GoLinks, SwiftLinks
<1>3. \A k \in GoLinks : Owner(k) \in GoClients /\ k[2] \in Nat /\ k[2] # 0 /\ k = <<Owner(k), k[2]>>
  BY LinkAssumption DEF GoLinks, Owner
<1>4. \A k \in SwiftLinks : Owner(k) \in SwiftClients
  BY DEF SwiftLinks, Owner
<1>5. "server" \notin SwiftClients
  BY LinkAssumption
<1> QED BY <1>1, <1>2, <1>3, <1>4, <1>5 DEF Process

\* What a link and its ends are.
LEMMA Fields ==
  ASSUME Typed, NEW k \in Links
  PROVE  /\ link[k] \in Pipes /\ link[k].state \in LinkStates
         /\ link[k].up \in Seq(Pieces) /\ link[k].down \in Seq(Pieces)
         /\ written[k] \in Seq(Frames)
         /\ \A e \in Ends : /\ sw[e][k].state \in SwiftStates /\ sw[e][k].seq \in Nat
                            /\ sw[e][k].shifted \in BOOLEAN
<1>1. link[k] \in Pipes /\ written[k] \in Seq(Frames)
  BY DEF Typed
<1>2. \A e \in Ends : sw[e][k] \in [state : SwiftStates, shifted : BOOLEAN, seq : Nat]
  BY DEF Typed
<1>3. link[k].state \in LinkStates /\ link[k].up \in Seq(Pieces) /\ link[k].down \in Seq(Pieces)
  BY <1>1 DEF Pipes
<1> QED BY <1>1, <1>2, <1>3

\* The Connection objects when one of them has got state s.
StateSet(e, k, s) == [sw EXCEPT ![e][k].state = s]

\* They are what they were but for that.
LEMMA StateIsSet ==
  ASSUME Typed, NEW e \in Ends, NEW k \in Links, NEW s \in SwiftStates
  PROVE  /\ StateSet(e, k, s) \in [Ends -> [Links -> [state : SwiftStates, shifted : BOOLEAN, seq : Nat]]]
         /\ StateSet(e, k, s)[e][k].state = s
         /\ \A d \in Ends, j \in Links : d # e \/ j # k => StateSet(e, k, s)[d][j] = sw[d][j]
<1>1. sw \in [Ends -> [Links -> [state : SwiftStates, shifted : BOOLEAN, seq : Nat]]]
  BY DEF Typed
<1> QED BY <1>1 DEF StateSet

\* What a step of a Swift process, or of a Go client's sending, may do to link k
\* of a Go client: to send a frame down, or to end it.
Passes(k) ==
  /\ \/ /\ written'[k] = written[k]
        /\ \/ link'[k].state = link[k].state /\ link'[k].down = link[k].down
           \/ /\ ~(k[2] > go[Owner(k)].connects) /\ link'[k].state # "open"
              /\ link'[k].down \in {link[k].down, <<>>}
     \/ /\ sw["server"][k].state = "connected"
        /\ \E f \in Frames :
             /\ written'[k] = Append(written[k], f)
             /\ IF link[k].state = "open"
                THEN link'[k].state = "open" /\ link'[k].down = link[k].down \o Cells(f)
                ELSE link'[k].state # "open" /\ link'[k].down = link[k].down
  /\ link[k].state = "new" /\ sw["server"][k].state = "none" => sw'["server"][k].state = "none"

\* Two runs of cells are one,
LEMMA Joined ==
  ASSUME NEW a \in Seq(Pieces), NEW b \in Seq(Pieces)
  PROVE  a \o b \in Seq(Pieces)
OBVIOUS

\* in whatever order they are joined.
LEMMA Associates ==
  ASSUME NEW a \in Seq(Pieces), NEW b \in Seq(Pieces), NEW c \in Seq(Pieces)
  PROVE  (a \o b) \o c = a \o (b \o c)
OBVIOUS

\* Then the client's frames are still those that follow.
LEMMA PassFollows ==
  ASSUME NEW b \in Seq(Pieces), NEW d \in Seq(Pieces), NEW ws \in Seq(Frames), NEW h \in Nat,
         NEW e \in Seq(Pieces), NEW vs \in Seq(Frames), NEW s, NEW t,
         Follows(b \o d, ws, h, s),
         \/ vs = ws /\ e = d /\ (t = s \/ t # "open")
         \/ vs = ws /\ e = <<>> /\ t # "open"
         \/ \E f \in Frames : /\ vs = Append(ws, f)
                              /\ IF s = "open" THEN t = "open" /\ e = d \o Cells(f)
                                 ELSE t # "open" /\ e = d
  PROVE  Follows(b \o e, vs, h, t)
<1>a. b \o d \in Seq(Pieces)
  BY Zenon, Joined
<1>1. PICK R \in Seq(Pieces) : R = b \o d
  BY Zenon, <1>a
<1>2. CASE vs = ws /\ e = d /\ (t = s \/ t # "open")
  <2>1. CASE t = s
    BY <1>2, <2>1
  <2>2. CASE t # "open"
    <3>1. PICK n \in 0 .. Len(R) : n = Len(R)
      BY <1>1
    <3>2. Follows(SubSeq(R, 1, n), ws, h, t)
      BY <2>2, <1>1, CutFollows
    <3>3. SubSeq(R, 1, n) = R
      BY <3>1
    <3> QED BY <3>2, <3>3, <1>1, <1>2
  <2> QED BY <2>1, <2>2, <1>2
<1>3. CASE vs = ws /\ e = <<>> /\ t # "open"
  <2>1. PICK n \in 0 .. Len(R) : n = Len(b)
    <3>1. Len(R) = Len(b) + Len(d)
      BY <1>1
    <3>2. Len(b) \in Nat /\ Len(d) \in Nat
      OBVIOUS
    <3>3. Len(b) \in 0 .. Len(R)
      BY <3>1, <3>2
    <3> QED BY <3>3
  <2>2. Follows(SubSeq(R, 1, n), ws, h, t)
    BY <1>3, <1>1, CutFollows
  <2>3. SubSeq(R, 1, n) = b /\ b \o e = b
    BY <2>1, <1>1, <1>3
  <2> QED BY <2>2, <2>3, <1>3
<1>4. ASSUME NEW f \in Frames, vs = Append(ws, f), s = "open", t = "open", e = d \o Cells(f)
      PROVE  Follows(b \o e, vs, h, t)
  <2>1. Follows(R \o Cells(f), Append(ws, f), h, "open")
    BY <1>1, <1>4, SentFollows
  <2>2. PICK C \in Seq(Pieces) : C = Cells(f)
    BY CellsOf
  <2>3. R \o C = b \o (d \o C)
    <3>1. (b \o d) \o C = b \o (d \o C)
      BY Associates
    <3> QED BY <3>1, <1>1
  <2> QED BY <2>1, <2>2, <2>3, <1>4
<1>5. ASSUME NEW f \in Frames, vs = Append(ws, f), t # "open", e = d
      PROVE  Follows(b \o e, vs, h, t)
  <2>1. Follows(R, Append(ws, f), h, t)
    BY <1>1, <1>5, LostFollows
  <2> QED BY <2>1, <1>1, <1>5
<1> QED BY <1>2, <1>3, <1>4, <1>5

\* What has been handled is still the beginning of what was written.
LEMMA MoreWritten ==
  ASSUME NEW hs \in Seq(Frames), NEW ws \in Seq(Frames), NEW f \in Frames, IsPrefix(hs, ws)
  PROVE  IsPrefix(hs, Append(ws, f))
<1>1. /\ Len(hs) \in Nat /\ Len(ws) \in Nat /\ Len(hs) <= Len(ws)
      /\ SubSeq(hs, 1, Len(hs)) = SubSeq(ws, 1, Len(hs))
  BY DEF IsPrefix
<1>2. Len(Append(ws, f)) = Len(ws) + 1
  OBVIOUS
<1>3. SubSeq(Append(ws, f), 1, Len(hs)) = SubSeq(ws, 1, Len(hs))
  BY <1>1
<1> QED BY <1>1, <1>2, <1>3 DEF IsPrefix

\* What such a step leaves of the invariant.
LEMMA Passing ==
  ASSUME IInv, Typed', \A k \in GoLinks : Passes(k), handled' = handled, clean' = clean,
         \A c \in GoClients : go'[c].buffer = go[c].buffer /\ go'[c].connects = go[c].connects,
         \A k \in GoLinks : recv[k].pc = "none" => recv'[k].pc = "none"
  PROVE  Untouched' /\ Streamed'
<1>1. Typed /\ Untouched /\ Streamed
  BY DEF IInv
<1>2. ASSUME NEW k \in GoLinks, k[2] > go'[Owner(k)].connects
      PROVE  /\ link'[k].state = "new" /\ link'[k].down = <<>>
             /\ written'[k] = <<>> /\ handled'[k] = <<>>
             /\ recv'[k].pc = "none" /\ sw'["server"][k].state = "none"
  <2>1. go'[Owner(k)].connects = go[Owner(k)].connects
    BY TwoKinds
  <2>2. /\ link[k].state = "new" /\ link[k].down = <<>>
        /\ written[k] = <<>> /\ handled[k] = <<>>
        /\ recv[k].pc = "none" /\ sw["server"][k].state = "none"
    BY <1>1, <1>2, <2>1 DEF Untouched
  <2>3. /\ written'[k] = written[k]
        /\ link'[k].state = link[k].state /\ link'[k].down = link[k].down
        /\ sw'["server"][k].state = "none"
    BY <2>1, <2>2, <1>2 DEF Passes
  <2> QED BY <2>2, <2>3
<1>3. ASSUME NEW k \in GoLinks, clean'[k]
      PROVE  /\ IsPrefix(handled'[k], written'[k])
             /\ k[2] = go'[Owner(k)].connects =>
                  Follows(Ahead(k)', written'[k], Len(handled'[k]), link'[k].state)
  <2>1. /\ k \in Links /\ Owner(k) \in GoClients /\ handled'[k] = handled[k]
        /\ go'[Owner(k)].buffer = go[Owner(k)].buffer /\ go'[Owner(k)].connects = go[Owner(k)].connects
    BY TwoKinds
  <2>2. PICK hs \in Seq(Frames), ws \in Seq(Frames), vs \in Seq(Frames) :
          hs = handled[k] /\ ws = written[k] /\ vs = written'[k]
    BY <1>1, <2>1 DEF Typed
  <2>3. PICK d \in Seq(Pieces), e \in Seq(Pieces), s \in LinkStates, t \in LinkStates :
          d = link[k].down /\ e = link'[k].down /\ s = link[k].state /\ t = link'[k].state
    <3>1. link[k] \in Pipes /\ link'[k] \in Pipes
      BY <1>1, <2>1 DEF Typed
    <3> QED BY <3>1 DEF Pipes
  <2>4. PICK b \in Seq(Pieces) : b = go[Owner(k)].buffer
    BY <1>1, <2>1 DEF Typed
  <2>5. /\ IsPrefix(hs, ws)
        /\ k[2] = go[Owner(k)].connects => Follows(b \o d, ws, Len(hs), s)
    BY <1>1, <1>3, <2>2, <2>3, <2>4 DEF Streamed, Ahead
  <2>6. \/ vs = ws /\ e = d /\ (t = s \/ t # "open")
        \/ vs = ws /\ e = <<>> /\ t # "open"
        \/ \E f \in Frames : /\ vs = Append(ws, f)
                             /\ IF s = "open" THEN t = "open" /\ e = d \o Cells(f)
                                ELSE t # "open" /\ e = d
    BY <2>2, <2>3 DEF Passes
  <2>7. IsPrefix(hs, vs)
    BY <2>5, <2>6, MoreWritten
  <2>8. Len(hs) \in Nat
    OBVIOUS
  <2>9. k[2] = go[Owner(k)].connects => Follows(b \o e, vs, Len(hs), t)
    BY <2>5, <2>6, <2>8, PassFollows
  <2> QED BY <2>1, <2>2, <2>3, <2>4, <2>7, <2>9 DEF Ahead
<1> QED BY <1>2, <1>3 DEF Untouched, Streamed

\* The Go clients' part of the invariant after a step of a Swift process.
LEMMA SwiftKeeps ==
  ASSUME IInv, Typed', Registered', \A k \in GoLinks : Passes(k), UNCHANGED goVars
  PROVE  IInv'
<1>1. /\ go' = go /\ recv' = recv /\ handled' = handled /\ clean' = clean
  BY DEF goVars
<1>2. Untouched' /\ Streamed'
  BY <1>1, Passing
<1>3. Connected'
  BY <1>1 DEF IInv, Connected
<1>4. Looping'
  <2>1. Looping
    BY DEF IInv
  <2> QED BY <2>1, <1>1 DEF Looping, Reads
<1> QED BY <1>2, <1>3, <1>4 DEF IInv

\* A frame is sent by a Connection object.
LEMMA SendsFrame ==
  ASSUME Typed, NEW e \in Ends, NEW k \in Links, NEW f \in Frames, NEW l \in Pipes,
         e = "server" \/ k \in SwiftLinks, Sends(e, k, l, f),
         l.state = link[k].state, e = "server" => l.down = link[k].down,
         e = "server" => sw["server"][k].state = "connected",
         \A j \in GoLinks : sw["server"][j].state = "none" => sw'["server"][j].state = "none"
  PROVE  /\ link' \in [Links -> Pipes] /\ written' \in [Links -> Seq(Frames)]
         /\ \A j \in GoLinks : Passes(j)
<1>1. link \in [Links -> Pipes] /\ written \in [Links -> Seq(Frames)]
  BY DEF Typed
<1>2. CASE e = "server"
  <2>1. PICK m : m = Sent(l, "down", f)
    OBVIOUS
  <2>2. link' = [link EXCEPT ![k] = m] /\ written' = [written EXCEPT ![k] = Append(written[k], f)]
    BY <1>2, <2>1 DEF Sends, Out
  <2>3. m \in Pipes /\ Append(written[k], f) \in Seq(Frames)
    BY <2>1, <1>1, SentDown
  <2>4. IF link[k].state = "open" THEN m.state = "open" /\ m.down = link[k].down \o Cells(f)
        ELSE m.state # "open" /\ m.down = link[k].down
    <3>1. IF l.state = "open" THEN m.state = "open" /\ m.down = l.down \o Cells(f)
          ELSE m.state # "open" /\ m.down = l.down
      BY <2>1, SentDown
    <3> QED BY <3>1, <1>2
  <2>5. \A j \in Links : j # k => link'[j] = link[j] /\ written'[j] = written[j]
    BY <2>2, <1>1
  <2>6. link'[k] = m /\ written'[k] = Append(written[k], f)
    BY <2>2, <1>1
  <2>7. ASSUME NEW j \in GoLinks PROVE Passes(j)
    <3>1. j \in Links
      BY TwoKinds
    <3>2. CASE j = k
      BY <3>2, <2>4, <2>6, <1>2 DEF Passes
    <3>3. CASE j # k
      BY <3>1, <3>3, <2>5 DEF Passes
    <3> QED BY <3>2, <3>3
  <2> QED BY <2>2, <2>3, <2>7, <1>1
<1>3. CASE e = "client" /\ k \in SwiftLinks
  <2>1. PICK m : m = Sent(l, "up", f)
    OBVIOUS
  <2>2. link' = [link EXCEPT ![k] = m] /\ written' = written
    BY <1>3, <2>1 DEF Sends, Out
  <2>3. m \in Pipes
    BY <2>1, SentUp
  <2>4. ASSUME NEW j \in GoLinks PROVE Passes(j)
    <3>1. j \in Links /\ j # k
      BY <1>3, TwoKinds
    <3>2. link'[j] = link[j] /\ written'[j] = written[j]
      BY <3>1, <2>2, <1>1
    <3> QED BY <3>2 DEF Passes
  <2> QED BY <2>2, <2>3, <2>4, <1>1
<1> QED BY <1>2, <1>3 DEF Ends

\* The server takes a connection that there is.
LEMMA AcceptStep ==
  ASSUME IInv, NEW k \in Links, Accept(k)
  PROVE  IInv'
<1>1. Typed /\ Registered
  BY DEF IInv
<1>2. /\ link[k].state # "new" /\ connections' = connections \cup {k}
      /\ UNCHANGED <<plan, link, calls, proc, written, goVars>>
  BY DEF Accept
<1>3. sw' = StateSet("server", k, "connecting")
  BY DEF Accept, StateSet
<1>4. "server" \in Ends /\ "connecting" \in SwiftStates
  BY DEF Ends, SwiftStates
<1>5. /\ sw' \in [Ends -> [Links -> [state : SwiftStates, shifted : BOOLEAN, seq : Nat]]]
      /\ sw'["server"][k].state = "connecting"
      /\ \A j \in Links : j # k => sw'["server"][j] = sw["server"][j]
  BY <1>1, <1>3, <1>4, StateIsSet
<1>6. Typed'
  BY <1>1, <1>2, <1>5 DEF Typed, goVars
<1>7. Registered'
  BY <1>1, <1>2, <1>5 DEF Registered
<1>8. ASSUME NEW j \in GoLinks PROVE Passes(j)
  <2>1. j \in Links
    BY TwoKinds
  <2> QED BY <2>1, <1>2, <1>5 DEF Passes
<1> QED BY <1>2, <1>6, <1>7, <1>8, SwiftKeeps

\* A Swift client connects.
LEMMA ConnectSwiftStep ==
  ASSUME IInv, NEW k \in SwiftLinks, ConnectSwift(k)
  PROVE  IInv'
<1>1. Typed /\ Registered /\ k \in Links
  BY TwoKinds DEF IInv
<1>2. link' = [link EXCEPT ![k].state = "open"] /\ UNCHANGED <<plan, calls, proc, connections, written, goVars>>
  BY DEF ConnectSwift
<1>3. sw' = StateSet("client", k, "connecting")
  BY DEF ConnectSwift, StateSet
<1>4. "client" \in Ends /\ "server" \in Ends /\ "connecting" \in SwiftStates /\ "open" \in LinkStates
  BY DEF Ends, SwiftStates, LinkStates
<1>5. /\ sw' \in [Ends -> [Links -> [state : SwiftStates, shifted : BOOLEAN, seq : Nat]]]
      /\ \A j \in Links : sw'["server"][j] = sw["server"][j]
  <2>1. /\ sw' \in [Ends -> [Links -> [state : SwiftStates, shifted : BOOLEAN, seq : Nat]]]
        /\ \A d \in Ends, j \in Links : d # "client" \/ j # k => sw'[d][j] = sw[d][j]
    <3>1. PICK e \in Ends, s \in SwiftStates : e = "client" /\ s = "connecting"
      BY <1>4
    <3>2. sw' = StateSet(e, k, s)
      BY <3>1, <1>3
    <3>3. /\ StateSet(e, k, s)
               \in [Ends -> [Links -> [state : SwiftStates, shifted : BOOLEAN, seq : Nat]]]
          /\ \A d \in Ends, j \in Links : d # e \/ j # k => StateSet(e, k, s)[d][j] = sw[d][j]
      BY <1>1, StateIsSet
    <3> QED BY <3>1, <3>2, <3>3
  <2> QED BY <2>1, <1>4
<1>6. link' \in [Links -> Pipes] /\ \A j \in Links : j # k => link'[j] = link[j]
  <2>1. link \in [Links -> Pipes]
    BY <1>1 DEF Typed
  <2>2. [link[k] EXCEPT !.state = "open"] \in Pipes
    BY <2>1, <1>1, <1>4 DEF Pipes
  <2> QED BY <2>1, <2>2, <1>2
<1>7. Typed'
  BY <1>1, <1>2, <1>5, <1>6 DEF Typed, goVars
<1>8. Registered'
  BY <1>1, <1>2, <1>5 DEF Registered
<1>9. ASSUME NEW j \in GoLinks PROVE Passes(j)
  <2>1. j \in Links /\ j # k
    BY TwoKinds
  <2> QED BY <2>1, <1>2, <1>5, <1>6 DEF Passes
<1> QED BY <1>2, <1>7, <1>8, <1>9, SwiftKeeps

\* A Connection object is ready,
LEMMA ReadyStep ==
  ASSUME IInv, NEW e \in Ends, NEW k \in Links, Ready(e, k)
  PROVE  IInv'
<1>1. Typed /\ Registered
  BY DEF IInv
<1>2. /\ sw[e][k].state = "connecting"
      /\ UNCHANGED <<plan, link, calls, proc, connections, written, goVars>>
  BY DEF Ready
<1>3. sw' = StateSet(e, k, "connected")
  BY DEF Ready, StateSet
<1>4. "connected" \in SwiftStates /\ "server" \in Ends
  BY DEF SwiftStates, Ends
<1>5. /\ sw' \in [Ends -> [Links -> [state : SwiftStates, shifted : BOOLEAN, seq : Nat]]]
      /\ sw'[e][k].state = "connected"
      /\ \A d \in Ends, j \in Links : d # e \/ j # k => sw'[d][j] = sw[d][j]
  BY <1>1, <1>3, <1>4, StateIsSet
<1>6. Typed'
  BY <1>1, <1>2, <1>5 DEF Typed, goVars
<1>7. Registered'
  <2>1. \A j \in Links : sw'["server"][j].state = sw["server"][j].state
                         \/ (sw["server"][j].state = "connecting" /\ sw'["server"][j].state = "connected")
    BY <1>2, <1>4, <1>5
  <2> QED BY <2>1, <1>1, <1>2 DEF Registered
<1>8. ASSUME NEW j \in GoLinks PROVE Passes(j)
  <2>1. j \in Links
    BY TwoKinds
  <2>2. sw["server"][j].state = "none" => sw'["server"][j].state = "none"
    BY <2>1, <1>2, <1>4, <1>5
  <2> QED BY <2>2, <1>2 DEF Passes
<1> QED BY <1>2, <1>6, <1>7, <1>8, SwiftKeeps

\* and fails.
LEMMA FailStep ==
  ASSUME IInv, NEW e \in Ends, NEW k \in Links, Fail(e, k)
  PROVE  IInv'
<1>1. Typed /\ Registered
  BY DEF IInv
<1>2. /\ sw[e][k].state \in {"connecting", "connected"}
      /\ connections' = IF e = "server" THEN connections \ {k} ELSE connections
      /\ UNCHANGED <<plan, link, calls, proc, written, goVars>>
  BY DEF Fail, Unregister
<1>3. sw' = StateSet(e, k, "disconnected")
  BY DEF Fail, StateSet
<1>4. "disconnected" \in SwiftStates /\ "server" \in Ends
  BY DEF SwiftStates, Ends
<1>5. /\ sw' \in [Ends -> [Links -> [state : SwiftStates, shifted : BOOLEAN, seq : Nat]]]
      /\ sw'[e][k].state = "disconnected"
      /\ \A d \in Ends, j \in Links : d # e \/ j # k => sw'[d][j] = sw[d][j]
  BY <1>1, <1>3, <1>4, StateIsSet
<1>6. Typed'
  BY <1>1, <1>2, <1>5 DEF Typed, goVars
<1>7. Registered'
  <2>1. CASE e = "server"
    BY <2>1, <1>1, <1>2, <1>5 DEF Registered
  <2>2. CASE e # "server"
    <3>1. \A j \in Links : sw'["server"][j] = sw["server"][j]
      BY <2>2, <1>4, <1>5
    <3> QED BY <3>1, <2>2, <1>1, <1>2 DEF Registered
  <2> QED BY <2>1, <2>2
<1>8. ASSUME NEW j \in GoLinks PROVE Passes(j)
  <2>1. j \in Links
    BY TwoKinds
  <2>2. sw["server"][j].state = "none" => sw'["server"][j].state = "none"
    BY <2>1, <1>2, <1>4, <1>5
  <2> QED BY <2>2, <1>2 DEF Passes
<1> QED BY <1>2, <1>6, <1>7, <1>8, SwiftKeeps

\* A heartbeat is sent,
LEMMA BeatStep ==
  ASSUME IInv, NEW e \in Ends, NEW k \in Links, e = "server" \/ k \in SwiftLinks, Beat(e, k)
  PROVE  IInv'
<1>1. Typed /\ Registered
  BY DEF IInv
<1>2. /\ sw[e][k].state = "connected" /\ sw' = [sw EXCEPT ![e][k].seq = @ + 1]
      /\ Sends(e, k, link[k], Frame("heartbeat", sw[e][k].seq + 1))
      /\ UNCHANGED <<plan, calls, proc, connections, goVars>>
  BY DEF Beat
<1>3. "server" \in Ends
  BY DEF Ends
<1>4. /\ sw' \in [Ends -> [Links -> [state : SwiftStates, shifted : BOOLEAN, seq : Nat]]]
      /\ \A d \in Ends, j \in Links : sw'[d][j].state = sw[d][j].state
  <2>1. sw \in [Ends -> [Links -> [state : SwiftStates, shifted : BOOLEAN, seq : Nat]]]
    BY <1>1 DEF Typed
  <2>2. PICK n \in Nat : n = sw[e][k].seq + 1
    BY <1>1, Fields
  <2>3. sw' = [sw EXCEPT ![e][k].seq = n]
    BY <2>2, <1>2
  <2> QED BY <2>1, <2>3
<1>5. Frame("heartbeat", sw[e][k].seq + 1) \in Frames
  <2>1. sw[e][k].seq + 1 \in Nat
    BY <1>1, Fields
  <2> QED BY <2>1 DEF Frame, Frames
<1>6. link[k] \in Pipes
  BY <1>1, Fields
<1>7. \A j \in GoLinks : sw["server"][j].state = "none" => sw'["server"][j].state = "none"
  BY <1>3, <1>4, TwoKinds
<1>8. /\ link' \in [Links -> Pipes] /\ written' \in [Links -> Seq(Frames)]
      /\ \A j \in GoLinks : Passes(j)
  BY <1>1, <1>2, <1>5, <1>6, <1>7, SendsFrame
<1>9. Typed'
  BY <1>1, <1>2, <1>4, <1>8 DEF Typed, goVars
<1>10. Registered'
  BY <1>1, <1>2, <1>3, <1>4 DEF Registered
<1> QED BY <1>2, <1>8, <1>9, <1>10, SwiftKeeps

\* a message by a Swift client.
LEMMA SendSwiftStep ==
  ASSUME IInv, NEW k \in SwiftLinks, SendSwift(k)
  PROVE  IInv'
<1>1. Typed /\ Registered /\ k \in Links /\ "client" \in Ends
  BY TwoKinds DEF IInv, Ends
<1>2. /\ Sends("client", k, link[k], Frame("message", 0))
      /\ UNCHANGED <<plan, proc, sw, connections, goVars>>
  BY DEF SendSwift
<1>3. Frame("message", 0) \in Frames
  <2>1. 0 \in Nat
    OBVIOUS
  <2> QED BY <2>1 DEF Frame, Frames
<1>4. link[k] \in Pipes
  BY <1>1, Fields
<1>5. /\ link' \in [Links -> Pipes] /\ written' \in [Links -> Seq(Frames)]
      /\ \A j \in GoLinks : Passes(j)
  BY <1>1, <1>2, <1>3, <1>4, SendsFrame
<1>6. Typed'
  BY <1>1, <1>2, <1>5 DEF Typed, goVars
<1>7. Registered'
  BY <1>1, <1>2 DEF Registered
<1> QED BY <1>2, <1>5, <1>6, <1>7, SwiftKeeps

\* A Swift client disconnects.
LEMMA DisconnectSwiftStep ==
  ASSUME IInv, NEW k \in SwiftLinks, DisconnectSwift(k)
  PROVE  IInv'
<1>1. Typed /\ Registered /\ k \in Links
  BY TwoKinds DEF IInv
<1>2. /\ link' = [link EXCEPT ![k] = ClosedLink(link[k])]
      /\ UNCHANGED <<plan, calls, proc, connections, written, goVars>>
  BY DEF DisconnectSwift
<1>3. sw' = StateSet("client", k, "disconnected")
  BY DEF DisconnectSwift, StateSet
<1>4. "client" \in Ends /\ "server" \in Ends /\ "disconnected" \in SwiftStates
  BY DEF Ends, SwiftStates
<1>5. /\ sw' \in [Ends -> [Links -> [state : SwiftStates, shifted : BOOLEAN, seq : Nat]]]
      /\ \A j \in Links : sw'["server"][j] = sw["server"][j]
  <2>1. /\ sw' \in [Ends -> [Links -> [state : SwiftStates, shifted : BOOLEAN, seq : Nat]]]
        /\ \A d \in Ends, j \in Links : d # "client" \/ j # k => sw'[d][j] = sw[d][j]
    <3>1. PICK e \in Ends, s \in SwiftStates : e = "client" /\ s = "disconnected"
      BY <1>4
    <3>2. sw' = StateSet(e, k, s)
      BY <3>1, <1>3
    <3>3. /\ StateSet(e, k, s)
               \in [Ends -> [Links -> [state : SwiftStates, shifted : BOOLEAN, seq : Nat]]]
          /\ \A d \in Ends, j \in Links : d # e \/ j # k => StateSet(e, k, s)[d][j] = sw[d][j]
      BY <1>1, StateIsSet
    <3> QED BY <3>1, <3>2, <3>3
  <2> QED BY <2>1, <1>4
<1>6. link' \in [Links -> Pipes] /\ \A j \in Links : j # k => link'[j] = link[j]
  <2>1. link \in [Links -> Pipes]
    BY <1>1 DEF Typed
  <2>2. ClosedLink(link[k]) \in Pipes
    BY <2>1, <1>1, ClosedFields
  <2> QED BY <2>1, <2>2, <1>2
<1>7. Typed'
  BY <1>1, <1>2, <1>5, <1>6 DEF Typed, goVars
<1>8. Registered'
  BY <1>1, <1>2, <1>5 DEF Registered
<1>9. ASSUME NEW j \in GoLinks PROVE Passes(j)
  <2>1. j \in Links /\ j # k
    BY TwoKinds
  <2> QED BY <2>1, <1>2, <1>5, <1>6 DEF Passes
<1> QED BY <1>2, <1>7, <1>8, <1>9, SwiftKeeps

\* A frame is received, and echoed or not.
LEMMA ReceiveFrameStep ==
  ASSUME IInv, NEW e \in Ends, NEW k \in Links, e = "server" \/ k \in SwiftLinks,
         ReceiveFrame(e, k)
  PROVE  IInv'
<1>1. Typed /\ Registered
  BY DEF IInv
<1>a. PICK come, f, left :
      come = link[k][In(e)] /\ f = come[1].frame
      /\ left = [link[k] EXCEPT ![In(e)] = SubSeq(@, Size(f) + 1, Len(@))]
  OBVIOUS
<1>2. /\ sw[e][k].state = "connected" /\ come # <<>> /\ Len(come) >= Size(f)
      /\ sw' = [sw EXCEPT ![e][k].shifted = TRUE]
      /\ IF f.type = "heartbeat"
         THEN Sends(e, k, left, f) /\ UNCHANGED proc
         ELSE /\ link' = [link EXCEPT ![k] = left]
              /\ proc' = IF e = "server" /\ k \in SwiftLinks
                         THEN [proc EXCEPT !["server"] = "hung"] ELSE proc
              /\ UNCHANGED written
      /\ UNCHANGED <<plan, calls, connections, goVars>>
  BY <1>a DEF ReceiveFrame, Receiving
<1>3. "server" \in Ends
  BY DEF Ends
<1>4. /\ sw' \in [Ends -> [Links -> [state : SwiftStates, shifted : BOOLEAN, seq : Nat]]]
      /\ \A d \in Ends, j \in Links : sw'[d][j].state = sw[d][j].state
  <2>1. sw \in [Ends -> [Links -> [state : SwiftStates, shifted : BOOLEAN, seq : Nat]]]
    BY <1>1 DEF Typed
  <2>2. PICK yes \in BOOLEAN : yes = TRUE
    OBVIOUS
  <2>3. sw' = [sw EXCEPT ![e][k].shifted = yes]
    BY <2>2, <1>2
  <2> QED BY <2>1, <2>3
<1>5. /\ link[k] \in Pipes /\ link[k].up \in Seq(Pieces) /\ link[k].down \in Seq(Pieces)
      /\ link[k].state \in LinkStates
  BY <1>1, Fields
<1>6. /\ f \in Frames /\ left \in Pipes /\ left.state = link[k].state
      /\ e = "server" => left.down = link[k].down
  <2>1. CASE e = "server"
    <3>1. come = link[k].up /\ left = [link[k] EXCEPT !.up = SubSeq(@, Size(f) + 1, Len(@))]
      BY <2>1, <1>a DEF In
    <3>2. come[1] \in Pieces
      BY <3>1, <1>2, <1>5
    <3>3. f \in Frames
      BY <3>2, <1>a DEF Pieces
    <3>4. SubSeq(link[k].up, Size(f) + 1, Len(link[k].up)) \in Seq(Pieces)
      BY <3>3, <1>5, CellsOf
    <3> QED BY <3>1, <3>3, <3>4, <1>5 DEF Pipes
  <2>2. CASE e = "client"
    <3>1. come = link[k].down /\ left = [link[k] EXCEPT !.down = SubSeq(@, Size(f) + 1, Len(@))]
      BY <2>2, <1>a DEF In
    <3>2. come[1] \in Pieces
      BY <3>1, <1>2, <1>5
    <3>3. f \in Frames
      BY <3>2, <1>a DEF Pieces
    <3>4. SubSeq(link[k].down, Size(f) + 1, Len(link[k].down)) \in Seq(Pieces)
      BY <3>3, <1>5, CellsOf
    <3> QED BY <2>2, <3>1, <3>3, <3>4, <1>5 DEF Pipes
  <2> QED BY <2>1, <2>2 DEF Ends
<1>7. \A j \in GoLinks : sw["server"][j].state = "none" => sw'["server"][j].state = "none"
  BY <1>3, <1>4, TwoKinds
<1>8. /\ link' \in [Links -> Pipes] /\ written' \in [Links -> Seq(Frames)]
      /\ \A j \in GoLinks : Passes(j)
  <2>1. CASE f.type = "heartbeat"
    <3>1. Sends(e, k, left, f)
      BY <2>1, <1>2
    <3> QED BY <3>1, <1>1, <1>2, <1>6, <1>7, SendsFrame
  <2>2. CASE f.type # "heartbeat"
    <3>1. link' = [link EXCEPT ![k] = left] /\ written' = written
      BY <2>2, <1>2
    <3>2. link \in [Links -> Pipes] /\ written \in [Links -> Seq(Frames)]
      BY <1>1 DEF Typed
    <3>3. ASSUME NEW j \in GoLinks PROVE Passes(j)
      <4>1. j \in Links
        BY TwoKinds
      <4>2. link'[j].state = link[j].state /\ link'[j].down = link[j].down
        <5>1. CASE j # k
          BY <5>1, <4>1, <3>1, <3>2
        <5>2. CASE j = k
          <6>1. e = "server"
            BY <5>2, TwoKinds
          <6> QED BY <6>1, <5>2, <4>1, <3>1, <3>2, <1>6
        <5> QED BY <5>1, <5>2
      <4> QED BY <4>2, <3>1, <1>7 DEF Passes
    <3> QED BY <3>1, <3>2, <3>3, <1>6
  <2> QED BY <2>1, <2>2
<1>9. proc' \in [{"server"} \cup SwiftClients -> {"running", "trapped", "hung"}]
  <2>1. proc' = proc \/ proc' = [proc EXCEPT !["server"] = "hung"]
    BY <1>2
  <2> QED BY <2>1, <1>1 DEF Typed
<1>10. Typed'
  BY <1>1, <1>2, <1>4, <1>8, <1>9 DEF Typed, goVars
<1>11. Registered'
  BY <1>1, <1>2, <1>3, <1>4 DEF Registered
<1> QED BY <1>2, <1>8, <1>10, <1>11, SwiftKeeps

\* A Swift process traps: its links are reset, and what was under way to it lost.
LEMMA ReceiveTrapsStep ==
  ASSUME IInv, NEW e \in Ends, NEW k \in Links, e = "server" \/ k \in SwiftLinks,
         ReceiveTraps(e, k)
  PROVE  IInv'
<1>1. Typed /\ Registered /\ Untouched
  BY DEF IInv
<1>2. /\ proc' = [proc EXCEPT ![Process(e, k)] = "trapped"]
      /\ link' = [j \in Links |->
           IF Process(e, j) = Process(e, k) /\ link[j].state = "open"
           THEN [link[j] EXCEPT !.state = "reset", ![In(e)] = <<>>] ELSE link[j]]
      /\ sw' = [sw EXCEPT ![e] = [j \in Links |->
           IF Process(e, j) = Process(e, k) THEN NoConnection ELSE sw[e][j]]]
      /\ connections' = IF e = "server" THEN {} ELSE connections
      /\ UNCHANGED <<plan, calls, written, goVars>>
  BY DEF ReceiveTraps
<1>3. "server" \in Ends
  BY DEF Ends
<1>4. proc' \in [{"server"} \cup SwiftClients -> {"running", "trapped", "hung"}]
  BY <1>1, <1>2 DEF Typed
<1>5. /\ sw' \in [Ends -> [Links -> [state : SwiftStates, shifted : BOOLEAN, seq : Nat]]]
      /\ \A j \in Links : sw'[e][j] = IF Process(e, j) = Process(e, k) THEN NoConnection ELSE sw[e][j]
      /\ \A d \in Ends, j \in Links : d # e => sw'[d][j] = sw[d][j]
  <2>1. sw \in [Ends -> [Links -> [state : SwiftStates, shifted : BOOLEAN, seq : Nat]]]
    BY <1>1 DEF Typed
  <2>2. NoConnection \in [state : SwiftStates, shifted : BOOLEAN, seq : Nat]
    BY DEF NoConnection, SwiftStates
  <2>3. PICK none : none = NoConnection
    OBVIOUS
  <2> QED BY <2>1, <2>2, <2>3, <1>2
<1>6. ASSUME NEW j \in Links
      PROVE  /\ link'[j] \in Pipes
             /\ \/ link'[j] = link[j]
                \/ link[j].state = "open" /\ link'[j].state = "reset"
             /\ e = "server" => link'[j].down = link[j].down
  <2>1. /\ link[j] \in Pipes /\ link[j].up \in Seq(Pieces) /\ link[j].down \in Seq(Pieces)
        /\ link[j].state \in LinkStates /\ <<>> \in Seq(Pieces) /\ "reset" \in LinkStates
    BY <1>1, Fields DEF LinkStates
  <2>2. CASE link'[j] = link[j]
    BY <2>1, <2>2
  <2>3. CASE link'[j] = [link[j] EXCEPT !.state = "reset", ![In(e)] = <<>>] /\ link[j].state = "open"
    <3>1. CASE e = "server"
      <4>1. link'[j] = [link[j] EXCEPT !.state = "reset", !.up = <<>>]
        BY <2>3, <3>1 DEF In
      <4> QED BY <4>1, <2>1, <2>3 DEF Pipes
    <3>2. CASE e = "client"
      <4>1. link'[j] = [link[j] EXCEPT !.state = "reset", !.down = <<>>]
        BY <2>3, <3>2 DEF In
      <4> QED BY <4>1, <3>2, <2>1, <2>3 DEF Pipes
    <3> QED BY <3>1, <3>2 DEF Ends
  <2> QED BY <2>2, <2>3, <1>2
<1>7. link' \in [Links -> Pipes]
  BY <1>2, <1>6
<1>8. Typed'
  <2>1. connections' \subseteq Links
    BY <1>1, <1>2 DEF Typed
  <2> QED BY <2>1, <1>1, <1>2, <1>4, <1>5, <1>7 DEF Typed, goVars
<1>9. Registered'
  <2>1. CASE e = "server"
    <3>1. \A j \in Links : sw'["server"][j].state = "none"
      BY <2>1, <1>5 DEF Process, NoConnection
    <3> QED BY <3>1, <2>1, <1>2 DEF Registered
  <2>2. CASE e # "server"
    <3>1. \A j \in Links : sw'["server"][j] = sw["server"][j]
      BY <2>2, <1>3, <1>5
    <3> QED BY <3>1, <2>2, <1>1, <1>2 DEF Registered
  <2> QED BY <2>1, <2>2
<1>10. ASSUME NEW j \in GoLinks PROVE Passes(j)
  <2>1. j \in Links
    BY TwoKinds
  <2>2. sw["server"][j].state = "none" => sw'["server"][j].state = "none"
    BY <2>1, <1>3, <1>5 DEF NoConnection
  <2>3. CASE link'[j] = link[j]
    BY <2>2, <2>3, <1>2 DEF Passes
  <2>4. CASE link[j].state = "open" /\ link'[j].state = "reset" /\ e = "server"
    <3>1. ~(j[2] > go[Owner(j)].connects)
      BY <2>4, <1>1 DEF Untouched
    <3>2. link'[j].down = link[j].down
      BY <2>1, <2>4, <1>6
    <3> QED BY <3>1, <3>2, <2>2, <2>4, <1>2 DEF Passes
  <2>5. CASE e # "server"
    <3>1. Process(e, j) # Process(e, k)
      <4>1. Owner(j) \in GoClients /\ Owner(k) \in SwiftClients
        BY <2>5, TwoKinds
      <4> QED BY <4>1, <2>5, LinkAssumption DEF Process
    <3>2. link'[j] = link[j]
      BY <3>1, <2>1, <1>2
    <3> QED BY <3>2, <2>3
  <2> QED BY <2>1, <2>3, <2>4, <2>5, <1>6
<1> QED BY <1>2, <1>8, <1>9, <1>10, SwiftKeeps

\* The server sends a message to all that are connected.
LEMMA BroadcastStep ==
  ASSUME IInv, Broadcast
  PROVE  IInv'
<1>1. Typed /\ Registered
  BY DEF IInv
<1>a. PICK f, to : /\ f = Frame("message", 0)
                   /\ to = {k \in connections : sw["server"][k].state = "connected"}
  OBVIOUS
<1>2. /\ link' = [k \in Links |-> IF k \in to THEN Sent(link[k], "down", f) ELSE link[k]]
      /\ written' = [k \in Links |-> IF k \in to THEN Append(written[k], f) ELSE written[k]]
      /\ UNCHANGED <<plan, proc, sw, connections, goVars>>
  BY <1>a DEF Broadcast
<1>3. f \in Frames
  <2>1. 0 \in Nat
    OBVIOUS
  <2> QED BY <2>1, <1>a DEF Frame, Frames
<1>4. ASSUME NEW k \in Links
      PROVE  /\ link'[k] \in Pipes /\ written'[k] \in Seq(Frames)
             /\ \/ k \notin to /\ link'[k] = link[k] /\ written'[k] = written[k]
                \/ /\ sw["server"][k].state = "connected" /\ written'[k] = Append(written[k], f)
                   /\ IF link[k].state = "open"
                      THEN link'[k].state = "open" /\ link'[k].down = link[k].down \o Cells(f)
                      ELSE link'[k].state # "open" /\ link'[k].down = link[k].down
  <2>1. link[k] \in Pipes /\ written[k] \in Seq(Frames)
    BY <1>1, Fields
  <2>2. CASE k \notin to
    BY <2>1, <2>2, <1>2
  <2>3. CASE k \in to
    <3>1. link'[k] = Sent(link[k], "down", f) /\ written'[k] = Append(written[k], f)
      BY <2>3, <1>2
    <3>2. sw["server"][k].state = "connected"
      BY <2>3, <1>a
    <3>3. Append(written[k], f) \in Seq(Frames)
      BY <2>1, <1>3
    <3>4. /\ link'[k] \in Pipes
          /\ IF link[k].state = "open"
             THEN link'[k].state = "open" /\ link'[k].down = link[k].down \o Cells(f)
             ELSE link'[k].state # "open" /\ link'[k].down = link[k].down
      BY <2>1, <3>1, <1>3, SentDown
    <3> QED BY <3>1, <3>2, <3>3, <3>4
  <2> QED BY <2>2, <2>3
<1>5. link' \in [Links -> Pipes] /\ written' \in [Links -> Seq(Frames)]
  BY <1>2, <1>4
<1>6. Typed'
  BY <1>1, <1>2, <1>5 DEF Typed, goVars
<1>7. Registered'
  BY <1>1, <1>2 DEF Registered
<1>8. ASSUME NEW k \in GoLinks PROVE Passes(k)
  <2>1. k \in Links
    BY TwoKinds
  <2> QED BY <2>1, <1>2, <1>3, <1>4 DEF Passes
<1> QED BY <1>2, <1>6, <1>7, <1>8, SwiftKeeps

-----------------------------------------------------------------------------
(* Steps of a Go client. *)

\* It writes to a connection: the way down is as before.
LEMMA WritesUp ==
  ASSUME Typed, NEW k \in Links \cup {NoLink}, NEW f \in Frames, GoWrites(k, f) \/ UNCHANGED link
  PROVE  /\ link' \in [Links -> Pipes]
         /\ \A j \in Links : link'[j].state = link[j].state /\ link'[j].down = link[j].down
<1>1. link \in [Links -> Pipes]
  BY DEF Typed
<1>2. CASE link' = link
  BY <1>1, <1>2
<1>3. CASE k \in Links /\ link' = [link EXCEPT ![k].up = @ \o Cells(f)]
  <2>1. link[k].up \in Seq(Pieces) /\ Cells(f) \in Seq(Pieces)
    BY <1>3, Fields, CellsOf
  <2>2. PICK u \in Seq(Pieces) : u = link[k].up \o Cells(f)
    BY <2>1, Joined
  <2>3. link' = [link EXCEPT ![k].up = u]
    BY <2>2, <1>3
  <2>4. PICK l, m : l = link[k] /\ m = [l EXCEPT !.up = u]
    OBVIOUS
  <2>5. m \in Pipes /\ m.state = l.state /\ m.down = l.down
    <3>1. l \in Pipes
      BY <2>4, <1>1, <1>3
    <3> QED BY <3>1, <2>4 DEF Pipes
  <2>6. link' = [link EXCEPT ![k] = m]
    BY <2>3, <2>4
  <2> QED BY <2>4, <2>5, <2>6, <1>1, <1>3
<1> QED BY <1>2, <1>3 DEF GoWrites

\* So it is with a step that only sends, or draws a number.
LEMMA SendingKeeps ==
  ASSUME IInv, Typed', UNCHANGED <<swiftVars, recv, handled, clean>>,
         \A j \in Links : link'[j].state = link[j].state /\ link'[j].down = link[j].down,
         \A c \in GoClients :
           /\ go'[c].connected = go[c].connected /\ go'[c].conn = go[c].conn
           /\ go'[c].connects = go[c].connects /\ go'[c].buffer = go[c].buffer
  PROVE  IInv'
<1>1. /\ sw' = sw /\ connections' = connections /\ written' = written
      /\ recv' = recv /\ handled' = handled /\ clean' = clean
  BY DEF swiftVars
<1>2. \A k \in GoLinks : Passes(k)
  BY <1>1, TwoKinds DEF Passes
<1>3. Untouched' /\ Streamed'
  BY <1>1, <1>2, Passing
<1>4. Registered'
  BY <1>1 DEF IInv, Registered
<1>5. Connected'
  BY DEF IInv, Connected
<1>6. Looping'
  <2>1. Looping
    BY DEF IInv
  <2>2. \A k \in GoLinks : go'[Owner(k)].connects = go[Owner(k)].connects
    BY TwoKinds
  <2> QED BY <2>1, <2>2, <1>1 DEF Looping, Reads
<1> QED BY <1>3, <1>4, <1>5, <1>6 DEF IInv

\* A number is drawn.
LEMMA NumberDrawn ==
  ASSUME Typed, NEW c \in GoClients, go' = [go EXCEPT ![c].seq = @ + 1]
  PROVE  /\ go' \in [GoClients -> [connected : BOOLEAN, conn : Links \cup {NoLink}, connects : Nat,
                                   seq : Nat, buffer : Seq(Pieces)]]
         /\ go[c].seq \in Nat /\ go[c].conn \in Links \cup {NoLink}
         /\ \A d \in GoClients :
              /\ go'[d].connected = go[d].connected /\ go'[d].conn = go[d].conn
              /\ go'[d].connects = go[d].connects /\ go'[d].buffer = go[d].buffer
<1>1. go \in [GoClients -> [connected : BOOLEAN, conn : Links \cup {NoLink}, connects : Nat,
                            seq : Nat, buffer : Seq(Pieces)]]
  BY DEF Typed
<1>2. go[c].seq \in Nat /\ go[c].conn \in Links \cup {NoLink}
  BY <1>1
<1>3. PICK n \in Nat : n = go[c].seq + 1
  BY <1>2
<1>4. go' = [go EXCEPT ![c].seq = n]
  BY <1>3
<1>5. PICK x, y : x = go[c] /\ y = [x EXCEPT !.seq = n]
  OBVIOUS
<1>6. /\ y \in [connected : BOOLEAN, conn : Links \cup {NoLink}, connects : Nat,
               seq : Nat, buffer : Seq(Pieces)]
      /\ y.connected = x.connected /\ y.conn = x.conn
      /\ y.connects = x.connects /\ y.buffer = x.buffer
  <2>1. x \in [connected : BOOLEAN, conn : Links \cup {NoLink}, connects : Nat,
               seq : Nat, buffer : Seq(Pieces)]
    BY <1>1, <1>5
  <2> QED BY <2>1, <1>5
<1>7. go' = [go EXCEPT ![c] = y]
  BY <1>4, <1>5
<1> QED BY <1>1, <1>2, <1>5, <1>6, <1>7

\* heartbeatLoop at a tick,
LEMMA TickStep ==
  ASSUME IInv, NEW k \in GoLinks, Tick(k)
  PROVE  IInv'
<1>1. Typed /\ Owner(k) \in GoClients
  BY TwoKinds DEF IInv
<1>a. PICK c, f : c \in GoClients /\ c = Owner(k) /\ f = Frame("heartbeat", go[c].seq)
  BY <1>1
<1>2. /\ GoWrites(go[c].conn, f) \/ UNCHANGED link
      /\ go' = [go EXCEPT ![c].seq = @ + 1]
      /\ UNCHANGED <<plan, swiftVars, recv, beat, sender, handled, clean>>
  BY <1>a DEF Tick, WritesIfConnected
<1>3. /\ go' \in [GoClients -> [connected : BOOLEAN, conn : Links \cup {NoLink}, connects : Nat,
                                seq : Nat, buffer : Seq(Pieces)]]
      /\ go[c].seq \in Nat /\ go[c].conn \in Links \cup {NoLink}
      /\ \A d \in GoClients :
           /\ go'[d].connected = go[d].connected /\ go'[d].conn = go[d].conn
           /\ go'[d].connects = go[d].connects /\ go'[d].buffer = go[d].buffer
  BY <1>1, <1>a, <1>2, NumberDrawn
<1>4. f \in Frames
  BY <1>3, <1>a DEF Frame, Frames
<1>5. /\ link' \in [Links -> Pipes]
      /\ \A j \in Links : link'[j].state = link[j].state /\ link'[j].down = link[j].down
  BY <1>1, <1>2, <1>3, <1>4, WritesUp
<1>6. Typed'
  BY <1>1, <1>2, <1>3, <1>5 DEF Typed, swiftVars
<1> QED BY <1>2, <1>3, <1>5, <1>6, SendingKeeps

\* and at its last.
LEMMA LastTickStep ==
  ASSUME IInv, NEW k \in GoLinks, LastTick(k)
  PROVE  IInv'
<1>1. Typed
  BY DEF IInv
<1>2. /\ beat' = [beat EXCEPT ![k] = "ended"]
      /\ UNCHANGED <<plan, link, swiftVars, go, recv, sender, handled, clean>>
  BY DEF LastTick
<1>3. Typed'
  BY <1>1, <1>2 DEF Typed, swiftVars
<1> QED BY <1>2, <1>3, SendingKeeps

\* Send, before
LEMMA SendStep ==
  ASSUME IInv, NEW c \in GoClients, NEW s \in Senders, Send(c, s)
  PROVE  IInv'
<1>1. Typed
  BY DEF IInv
<1>2. /\ sender' = [sender EXCEPT ![c][s] = [pc |-> "writing", on |-> go[c].conn, seq |-> go[c].seq]]
      /\ go' = [go EXCEPT ![c].seq = @ + 1]
      /\ UNCHANGED <<plan, link, swiftVars, recv, beat, handled, clean>>
  BY DEF Send
<1>3. /\ go' \in [GoClients -> [connected : BOOLEAN, conn : Links \cup {NoLink}, connects : Nat,
                                seq : Nat, buffer : Seq(Pieces)]]
      /\ go[c].seq \in Nat /\ go[c].conn \in Links \cup {NoLink}
      /\ \A d \in GoClients :
           /\ go'[d].connected = go[d].connected /\ go'[d].conn = go[d].conn
           /\ go'[d].connects = go[d].connects /\ go'[d].buffer = go[d].buffer
  BY <1>1, <1>2, NumberDrawn
<1>4. sender' \in [GoClients -> [Senders -> [pc : {"idle", "writing"},
                                             on : Links \cup {NoLink}, seq : Nat]]]
  <2>1. PICK x \in [pc : {"idle", "writing"}, on : Links \cup {NoLink}, seq : Nat] :
          x = [pc |-> "writing", on |-> go[c].conn, seq |-> go[c].seq]
    BY <1>3
  <2>2. sender' = [sender EXCEPT ![c][s] = x]
    BY <2>1, <1>2
  <2> QED BY <2>2, <1>1 DEF Typed
<1>5. Typed'
  BY <1>1, <1>2, <1>3, <1>4 DEF Typed, swiftVars
<1> QED BY <1>2, <1>3, <1>5, SendingKeeps

\* and with its write.
LEMMA WriteSendStep ==
  ASSUME IInv, NEW c \in GoClients, NEW s \in Senders, WriteSend(c, s)
  PROVE  IInv'
<1>1. Typed
  BY DEF IInv
<1>a. PICK k, f : k = sender[c][s].on /\ f = Frame("message", sender[c][s].seq)
  OBVIOUS
<1>2. /\ GoWrites(k, f)
      /\ sender' = [sender EXCEPT ![c][s] = [pc |-> "idle", on |-> NoLink, seq |-> 0]]
      /\ UNCHANGED <<plan, swiftVars, go, recv, beat, handled, clean>>
  BY <1>a DEF WriteSend
<1>3. k \in Links \cup {NoLink} /\ f \in Frames
  <2>1. sender[c][s] \in [pc : {"idle", "writing"}, on : Links \cup {NoLink}, seq : Nat]
    BY <1>1 DEF Typed
  <2> QED BY <2>1, <1>a DEF Frame, Frames
<1>4. /\ link' \in [Links -> Pipes]
      /\ \A j \in Links : link'[j].state = link[j].state /\ link'[j].down = link[j].down
  BY <1>1, <1>2, <1>3, WritesUp
<1>5. sender' \in [GoClients -> [Senders -> [pc : {"idle", "writing"},
                                             on : Links \cup {NoLink}, seq : Nat]]]
  <2>1. PICK x \in [pc : {"idle", "writing"}, on : Links \cup {NoLink}, seq : Nat] :
          x = [pc |-> "idle", on |-> NoLink, seq |-> 0]
    OBVIOUS
  <2>2. sender' = [sender EXCEPT ![c][s] = x]
    BY <2>1, <1>2
  <2> QED BY <2>2, <1>1 DEF Typed
<1>6. Typed'
  BY <1>1, <1>2, <1>4, <1>5 DEF Typed, swiftVars
<1> QED BY <1>2, <1>4, <1>6, SendingKeeps

\* A receiveLoop goes from one of its places to the next.
LEMMA LoopKeeps ==
  ASSUME IInv, NEW k \in GoLinks,
         NEW x \in [pc : {"none", "starting", "reading", "processing", "ended"},
                    on : Links \cup {NoLink}],
         recv' = [recv EXCEPT ![k] = x], recv[k].pc # "none",
         UNCHANGED <<plan, link, calls, swiftVars, go, beat, sender, handled, clean>>,
         x.pc \in {"reading", "processing"} => x.on \in GoLinks /\ Owner(x.on) = Owner(k),
         clean[k] /\ x.pc \notin {"none", "ended"} =>
           k[2] = go[Owner(k)].connects /\ x.pc # "starting" /\ x.on = k
  PROVE  IInv'
<1>1. Typed /\ Looping
  BY DEF IInv
<1>2. /\ sw' = sw /\ connections' = connections /\ written' = written /\ link' = link
      /\ go' = go /\ handled' = handled /\ clean' = clean
  BY DEF swiftVars
<1>3. recv' \in [GoLinks -> [pc : {"none", "starting", "reading", "processing", "ended"},
                             on : Links \cup {NoLink}]]
      /\ recv'[k] = x /\ \A j \in GoLinks : j # k => recv'[j] = recv[j]
  BY <1>1 DEF Typed
<1>4. Typed'
  BY <1>1, <1>3 DEF Typed, swiftVars
<1>5. \A j \in GoLinks : Passes(j)
  BY <1>2 DEF Passes
<1>6. Untouched' /\ Streamed'
  BY <1>2, <1>3, <1>4, <1>5, Passing
<1>7. Registered' /\ Connected'
  BY <1>2 DEF IInv, Registered, Connected
<1>8. Looping'
  <2> SUFFICES ASSUME NEW j \in GoLinks
               PROVE  /\ recv'[j].pc \in {"reading", "processing"} =>
                           recv'[j].on \in GoLinks /\ Owner(recv'[j].on) = Owner(j)
                      /\ clean[j] /\ recv'[j].pc \notin {"none", "ended"} =>
                           /\ j[2] = go[Owner(j)].connects
                           /\ recv'[j].pc # "starting" => recv'[j].on = j
                      /\ \A i \in GoLinks : Owner(i) = Owner(j) => clean[i] = clean[j]
    BY <1>2 DEF Looping, Reads
  <2>1. CASE j = k
    BY <2>1, <1>1, <1>3 DEF Looping
  <2>2. CASE j # k
    BY <2>2, <1>1, <1>3 DEF Looping, Reads
  <2> QED BY <2>1, <2>2
<1> QED BY <1>4, <1>6, <1>7, <1>8 DEF IInv

\* A connection that has been used is one of those the client has made.
LEMMA Made ==
  ASSUME IInv, NEW k \in GoLinks, recv[k].pc # "none"
  PROVE  /\ ~(k[2] > go[Owner(k)].connects)
         /\ go[Owner(k)].conn \in GoLinks /\ Owner(go[Owner(k)].conn) = Owner(k)
         /\ k[2] = go[Owner(k)].connects => go[Owner(k)].conn = k
<1>1. Typed /\ Untouched /\ Connected
  BY DEF IInv
<1>2. ~(k[2] > go[Owner(k)].connects)
  BY <1>1 DEF Untouched
<1>3. /\ Owner(k) \in GoClients /\ k[2] \in Nat /\ k[2] # 0 /\ k = <<Owner(k), k[2]>>
  BY TwoKinds
<1>4. go[Owner(k)].connects \in Nat
  BY <1>1, <1>3 DEF Typed
<1>5. go[Owner(k)].connects > 0
  BY <1>2, <1>3, <1>4
<1>6. go[Owner(k)].conn = <<Owner(k), go[Owner(k)].connects>> /\ go[Owner(k)].conn \in GoLinks
  BY <1>1, <1>3, <1>5 DEF Connected
<1>7. Owner(go[Owner(k)].conn) = Owner(k)
  BY <1>6 DEF Owner
<1> QED BY <1>2, <1>3, <1>6, <1>7

\* It starts,
LEMMA StartReceiveStep ==
  ASSUME IInv, NEW k \in GoLinks, StartReceive(k)
  PROVE  IInv'
<1>1. Typed /\ Looping /\ Owner(k) \in GoClients
  BY TwoKinds DEF IInv
<1>a. PICK x : x = [pc |-> IF GoesOn(Owner(k)) THEN "reading" ELSE "ended", on |-> go[Owner(k)].conn]
  OBVIOUS
<1>2. /\ recv[k].pc = "starting" /\ recv' = [recv EXCEPT ![k] = x]
      /\ UNCHANGED <<plan, link, calls, swiftVars, go, beat, sender, handled, clean>>
  BY <1>a DEF StartReceive
<1>3. /\ go[Owner(k)].conn \in GoLinks /\ Owner(go[Owner(k)].conn) = Owner(k)
      /\ k[2] = go[Owner(k)].connects => go[Owner(k)].conn = k
  BY <1>2, Made
<1>4. /\ x \in [pc : {"none", "starting", "reading", "processing", "ended"}, on : Links \cup {NoLink}]
      /\ x.pc \in {"reading", "ended"} /\ x.on = go[Owner(k)].conn
  BY <1>3, <1>a, TwoKinds
<1>5. clean[k] => k[2] = go[Owner(k)].connects
  BY <1>1, <1>2 DEF Looping, Reads
<1> QED BY <1>2, <1>3, <1>4, <1>5, LoopKeeps

\* gets an error,
LEMMA ReadFailsStep ==
  ASSUME IInv, NEW k \in GoLinks, ReadFails(k)
  PROVE  IInv'
<1>1. Typed
  BY DEF IInv
<1>a. PICK x : x = [recv[k] EXCEPT !.pc = "ended"]
  OBVIOUS
<1>2. /\ recv[k].pc = "reading" /\ recv' = [recv EXCEPT ![k] = x]
      /\ UNCHANGED <<plan, link, calls, swiftVars, go, beat, sender, handled, clean>>
  BY <1>a DEF ReadFails
<1>3. /\ x \in [pc : {"none", "starting", "reading", "processing", "ended"}, on : Links \cup {NoLink}]
      /\ x.pc = "ended"
  <2>1. recv[k] \in [pc : {"none", "starting", "reading", "processing", "ended"},
                     on : Links \cup {NoLink}]
    BY <1>1 DEF Typed
  <2> QED BY <2>1, <1>a
<1> QED BY <1>2, <1>3, LoopKeeps

\* or has taken all the frames that are whole.
LEMMA NotEnoughStep ==
  ASSUME IInv, NEW k \in GoLinks, NotEnough(k)
  PROVE  IInv'
<1>1. Typed /\ Looping
  BY DEF IInv
<1>a. PICK x : x = [recv[k] EXCEPT !.pc = IF GoesOn(Owner(k)) THEN "reading" ELSE "ended"]
  OBVIOUS
<1>2. /\ recv[k].pc = "processing" /\ recv' = [recv EXCEPT ![k] = x]
      /\ UNCHANGED <<plan, link, calls, swiftVars, go, beat, sender, handled, clean>>
  BY <1>a DEF NotEnough
<1>3. /\ x \in [pc : {"none", "starting", "reading", "processing", "ended"}, on : Links \cup {NoLink}]
      /\ x.pc \in {"reading", "ended"} /\ x.on = recv[k].on
  <2>1. recv[k] \in [pc : {"none", "starting", "reading", "processing", "ended"},
                     on : Links \cup {NoLink}]
    BY <1>1 DEF Typed
  <2> QED BY <2>1, <1>a
<1>4. /\ recv[k].on \in GoLinks /\ Owner(recv[k].on) = Owner(k)
      /\ clean[k] => k[2] = go[Owner(k)].connects /\ recv[k].on = k
  BY <1>1, <1>2 DEF Looping, Reads
<1> QED BY <1>2, <1>3, <1>4, LoopKeeps

\* What two runs of cells are in a row.
LEMMA JoinedFields ==
  ASSUME NEW a \in Seq(Pieces), NEW b \in Seq(Pieces)
  PROVE  /\ a \o b \in Seq(Pieces) /\ Len(a \o b) = Len(a) + Len(b)
         /\ \A i \in 1 .. Len(a) : (a \o b)[i] = a[i]
         /\ \A i \in 1 .. Len(b) : (a \o b)[Len(a) + i] = b[i]
OBVIOUS

\* Cells are the same one by one.
LEMMA SameCells ==
  ASSUME NEW a \in Seq(Pieces), NEW b \in Seq(Pieces), Len(a) = Len(b),
         \A i \in 1 .. Len(a) : a[i] = b[i]
  PROVE  a = b
OBVIOUS

\* What follows the first n of them.
LEMMA Beyond ==
  ASSUME NEW a \in Seq(Pieces), NEW n \in 1 .. Len(a)
  PROVE  /\ SubSeq(a, n + 1, Len(a)) \in Seq(Pieces) /\ Len(SubSeq(a, n + 1, Len(a))) = Len(a) - n
         /\ \A i \in 1 .. Len(a) - n : SubSeq(a, n + 1, Len(a))[i] = a[i + n]
OBVIOUS

\* Where what has been received goes on into what is under way, it makes no
\* difference which is which,
LEMMA Regrouped ==
  ASSUME NEW b \in Seq(Pieces), NEW d \in Seq(Pieces), NEW n \in 1 .. Len(d)
  PROVE  /\ b \o SubSeq(d, 1, n) \in Seq(Pieces) /\ SubSeq(d, n + 1, Len(d)) \in Seq(Pieces)
         /\ (b \o SubSeq(d, 1, n)) \o SubSeq(d, n + 1, Len(d)) = b \o d
<1>1. PICK a, z : a = SubSeq(d, 1, n) /\ z = SubSeq(d, n + 1, Len(d))
  OBVIOUS
<1>2. /\ a \in Seq(Pieces) /\ Len(a) = n /\ \A i \in 1 .. n : a[i] = d[i]
      /\ z \in Seq(Pieces) /\ Len(z) = Len(d) - n /\ \A i \in 1 .. Len(d) - n : z[i] = d[i + n]
  BY <1>1
<1>3. a \o z = d
  <2>1. PICK s : s = a \o z
    OBVIOUS
  <2>2. /\ s \in Seq(Pieces) /\ Len(s) = Len(d)
        /\ \A i \in 1 .. n : s[i] = a[i]
        /\ \A i \in 1 .. Len(d) - n : s[n + i] = z[i]
    <3>1. /\ s \in Seq(Pieces) /\ Len(s) = Len(a) + Len(z)
          /\ \A i \in 1 .. Len(a) : s[i] = a[i]
          /\ \A i \in 1 .. Len(z) : s[Len(a) + i] = z[i]
      <4>1. a \in Seq(Pieces) /\ z \in Seq(Pieces)
        BY <1>2
      <4>2. /\ a \o z \in Seq(Pieces) /\ Len(a \o z) = Len(a) + Len(z)
            /\ \A i \in 1 .. Len(a) : (a \o z)[i] = a[i]
            /\ \A i \in 1 .. Len(z) : (a \o z)[Len(a) + i] = z[i]
        BY <4>1, JoinedFields
      <4> QED BY <4>2, <2>1
    <3> QED BY <3>1, <1>2
  <2>3. ASSUME NEW i \in 1 .. Len(s) PROVE s[i] = d[i]
    <3>1. CASE i \in 1 .. n
      BY <3>1, <2>2, <1>2
    <3>2. CASE i \notin 1 .. n
      <4>1. PICK j \in 1 .. Len(d) - n : i = n + j
        <5>1. i - n \in 1 .. Len(d) - n /\ i = n + (i - n)
          BY <3>2, <2>2
        <5> QED BY <5>1
      <4>2. s[i] = z[j]
        BY <4>1, <2>2
      <4>3. z[j] = d[i]
        BY <4>1, <1>2
      <4> QED BY <4>2, <4>3
    <3> QED BY <3>1, <3>2
  <2> QED BY <2>1, <2>2, <2>3, SameCells
<1>4. (b \o a) \o z = b \o (a \o z)
  BY <1>2, Associates
<1> QED BY <1>1, <1>2, <1>3, <1>4, Joined

\* and a frame that is taken is taken from both together.
LEMMA Shortened ==
  ASSUME NEW b \in Seq(Pieces), NEW d \in Seq(Pieces), NEW n \in 1 .. Len(b)
  PROVE  /\ SubSeq(b, n + 1, Len(b)) \in Seq(Pieces)
         /\ SubSeq(b, n + 1, Len(b)) \o d = SubSeq(b \o d, n + 1, Len(b \o d))
         /\ b \o d \in Seq(Pieces) /\ Len(b \o d) = Len(b) + Len(d) /\ (b \o d)[1] = b[1]
<1>1. PICK z : z = SubSeq(b, n + 1, Len(b))
  OBVIOUS
<1>2. /\ z \in Seq(Pieces) /\ Len(z) = Len(b) - n /\ \A i \in 1 .. Len(b) - n : z[i] = b[i + n]
  BY <1>1
<1>3. /\ b \o d \in Seq(Pieces) /\ Len(b \o d) = Len(b) + Len(d) /\ (b \o d)[1] = b[1]
  OBVIOUS
<1>4. z \o d = SubSeq(b \o d, n + 1, Len(b \o d))
  <2>1. PICK R, Q, P : R = b \o d /\ Q = SubSeq(R, n + 1, Len(R)) /\ P = z \o d
    OBVIOUS
  <2>2. PICK m \in Nat : m = Len(b) - n
    OBVIOUS
  <2>3. /\ Len(Q) = m + Len(d) /\ Q \in Seq(Pieces)
        /\ \A i \in 1 .. m + Len(d) : Q[i] = R[i + n]
    <3>1. R \in Seq(Pieces) /\ Len(R) = Len(b) + Len(d) /\ n \in 1 .. Len(R)
      BY <2>1, <1>3
    <3>2. /\ Q \in Seq(Pieces) /\ Len(Q) = Len(R) - n
          /\ \A i \in 1 .. Len(R) - n : Q[i] = R[i + n]
      BY <3>1, <2>1, Beyond
    <3> QED BY <3>1, <3>2, <2>2
  <2>4. /\ Len(P) = m + Len(d) /\ P \in Seq(Pieces)
        /\ \A i \in 1 .. m : P[i] = b[i + n]
        /\ \A i \in 1 .. Len(d) : P[m + i] = d[i]
    <3>1. /\ P \in Seq(Pieces) /\ Len(P) = Len(z) + Len(d)
          /\ \A i \in 1 .. Len(z) : P[i] = z[i]
          /\ \A i \in 1 .. Len(d) : P[Len(z) + i] = d[i]
      BY <1>2, <2>1, JoinedFields
    <3> QED BY <3>1, <2>2, <1>2
  <2>5. /\ \A i \in 1 .. Len(b) : R[i] = b[i]
        /\ \A i \in 1 .. Len(d) : R[Len(b) + i] = d[i]
    BY <2>1
  <2>6. ASSUME NEW i \in 1 .. Len(P) PROVE P[i] = Q[i]
    <3>1. CASE i \in 1 .. m
      BY <3>1, <2>2, <2>3, <2>4, <2>5
    <3>2. CASE i \notin 1 .. m
      <4>1. PICK j \in 1 .. Len(d) : i = m + j
        <5>1. i - m \in 1 .. Len(d) /\ i = m + (i - m)
          BY <3>2, <2>2, <2>4
        <5> QED BY <5>1
      <4>2. i + n = Len(b) + j
        BY <4>1, <2>2
      <4> QED BY <4>1, <4>2, <2>3, <2>4, <2>5
    <3> QED BY <3>1, <3>2
  <2>7. P \in Seq(Pieces) /\ Q \in Seq(Pieces) /\ Len(P) = Len(Q)
    BY <2>3, <2>4
  <2>8. P = Q
    BY <2>6, <2>7, SameCells
  <2> QED BY <2>1, <2>8
<1> QED BY <1>1, <1>2, <1>3, <1>4

\* The received frame that is first in the buffer is the next, and is handled.
LEMMA HandledNext ==
  ASSUME NEW hs \in Seq(Frames), NEW ws \in Seq(Frames), IsPrefix(hs, ws),
         Len(hs) + 1 \in 1 .. Len(ws), NEW f \in Frames, f = ws[Len(hs) + 1]
  PROVE  IsPrefix(Append(hs, f), ws) /\ Len(Append(hs, f)) = Len(hs) + 1
<1>1. /\ Len(hs) \in Nat /\ Len(ws) \in Nat
      /\ SubSeq(hs, 1, Len(hs)) = SubSeq(ws, 1, Len(hs))
  BY DEF IsPrefix
<1>2. PICK n \in Nat : n = Len(hs) /\ n + 1 <= Len(ws)
  BY <1>1
<1>3. PICK a : a = Append(hs, f)
  OBVIOUS
<1>4. /\ a \in Seq(Frames) /\ Len(a) = n + 1 /\ a[n + 1] = f
      /\ \A i \in 1 .. n : a[i] = hs[i]
  BY <1>2, <1>3
<1>5. \A i \in 1 .. n : hs[i] = ws[i]
  <2>1. \A i \in 1 .. n : SubSeq(hs, 1, n)[i] = hs[i]
    BY <1>2
  <2>2. \A i \in 1 .. n : SubSeq(ws, 1, n)[i] = ws[i]
    BY <1>2
  <2> QED BY <2>1, <2>2, <1>1, <1>2
<1>6. \A i \in 1 .. n + 1 : a[i] = ws[i]
  BY <1>2, <1>4, <1>5
<1>7. SubSeq(a, 1, n + 1) = SubSeq(ws, 1, n + 1)
  BY <1>2, <1>4, <1>6
<1> QED BY <1>2, <1>3, <1>4, <1>7 DEF IsPrefix

\* A client's receiveBuffer changes, and nothing else.
LEMMA BufferSet ==
  ASSUME Typed, NEW c \in GoClients, NEW e \in Seq(Pieces), go' = [go EXCEPT ![c].buffer = e]
  PROVE  /\ go' \in [GoClients -> [connected : BOOLEAN, conn : Links \cup {NoLink}, connects : Nat,
                                   seq : Nat, buffer : Seq(Pieces)]]
         /\ go'[c].buffer = e
         /\ \A i \in GoClients : /\ go'[i].connected = go[i].connected /\ go'[i].conn = go[i].conn
                                 /\ go'[i].connects = go[i].connects
                                 /\ i # c => go'[i].buffer = go[i].buffer
<1>1. go \in [GoClients -> [connected : BOOLEAN, conn : Links \cup {NoLink}, connects : Nat,
                            seq : Nat, buffer : Seq(Pieces)]]
  BY DEF Typed
<1>2. PICK x, y : x = go[c] /\ y = [x EXCEPT !.buffer = e]
  OBVIOUS
<1>3. /\ y \in [connected : BOOLEAN, conn : Links \cup {NoLink}, connects : Nat,
               seq : Nat, buffer : Seq(Pieces)]
      /\ y.connected = x.connected /\ y.conn = x.conn
      /\ y.connects = x.connects /\ y.buffer = e
  <2>1. x \in [connected : BOOLEAN, conn : Links \cup {NoLink}, connects : Nat,
               seq : Nat, buffer : Seq(Pieces)]
    BY <1>1, <1>2
  <2> QED BY <2>1, <1>2
<1>4. go' = [go EXCEPT ![c] = y]
  BY <1>2
<1> QED BY <1>1, <1>2, <1>3, <1>4

\* receiveLoop reads.
LEMMA ReadStep ==
  ASSUME IInv, NEW k \in GoLinks, Read(k)
  PROVE  IInv'
<1>1. Typed /\ Registered /\ Connected /\ Untouched /\ Looping /\ Streamed
  BY DEF IInv
<1>a. PICK c, on : c = Owner(k) /\ on = recv[k].on
  OBVIOUS
<1>2. /\ recv[k].pc = "reading" /\ recv' = [recv EXCEPT ![k].pc = "processing"]
      /\ UNCHANGED <<plan, calls, swiftVars, beat, sender, handled, clean>>
  BY DEF Read
<1>b. PICK n \in 1 .. Len(link[on].down) :
        /\ go' = [go EXCEPT ![c].buffer = @ \o SubSeq(link[on].down, 1, n)]
        /\ link' = [link EXCEPT ![on] = [link[on] EXCEPT !.down = SubSeq(@, n + 1, Len(@))]]
  BY <1>a DEF Read
<1>3. /\ c \in GoClients /\ on \in GoLinks /\ Owner(on) = c /\ on \in Links
      /\ clean[k] => k[2] = go[c].connects /\ on = k
  BY <1>1, <1>2, <1>a, TwoKinds DEF Looping, Reads
<1>4. PICK b \in Seq(Pieces), d \in Seq(Pieces) : b = go[c].buffer /\ d = link[on].down
  <2>1. link[on].down \in Seq(Pieces)
    BY <1>1, <1>3, Fields
  <2> QED BY <2>1, <1>1, <1>3 DEF Typed
<1>5. PICK e, z : /\ e = b \o SubSeq(d, 1, n) /\ z = SubSeq(d, n + 1, Len(d))
  OBVIOUS
<1>6. e \in Seq(Pieces) /\ z \in Seq(Pieces) /\ e \o z = b \o d
  BY <1>b, <1>4, <1>5, Regrouped
<1>7. go' = [go EXCEPT ![c].buffer = e] /\ link' = [link EXCEPT ![on].down = z]
  BY <1>b, <1>4, <1>5
<1>8. /\ go' \in [GoClients -> [connected : BOOLEAN, conn : Links \cup {NoLink}, connects : Nat,
                                seq : Nat, buffer : Seq(Pieces)]]
      /\ go'[c].buffer = e
      /\ \A i \in GoClients : /\ go'[i].connected = go[i].connected /\ go'[i].conn = go[i].conn
                              /\ go'[i].connects = go[i].connects
                              /\ i # c => go'[i].buffer = go[i].buffer
  <2>1. go' = [go EXCEPT ![c].buffer = e]
    BY <1>7
  <2> QED BY <2>1, <1>1, <1>3, <1>6, BufferSet
<1>9. /\ link' \in [Links -> Pipes]
      /\ link'[on].down = z
      /\ \A i \in Links : link'[i].state = link[i].state /\ (i # on => link'[i].down = link[i].down)
  <2>1. link \in [Links -> Pipes]
    BY <1>1 DEF Typed
  <2> QED BY <2>1, <1>3, <1>6, <1>7 DEF Pipes
<1>10. /\ recv' \in [GoLinks -> [pc : {"none", "starting", "reading", "processing", "ended"},
                                 on : Links \cup {NoLink}]]
       /\ \A i \in GoLinks : /\ recv'[i].on = recv[i].on
                             /\ i # k => recv'[i] = recv[i]
       /\ recv'[k].pc = "processing"
  <2>1. recv \in [GoLinks -> [pc : {"none", "starting", "reading", "processing", "ended"},
                              on : Links \cup {NoLink}]]
    BY <1>1 DEF Typed
  <2> QED BY <2>1, <1>2
<1>11. Typed'
  BY <1>1, <1>2, <1>8, <1>9, <1>10 DEF Typed, swiftVars
<1>12. /\ sw' = sw /\ connections' = connections /\ written' = written
       /\ handled' = handled /\ clean' = clean
  BY <1>2 DEF swiftVars
<1>13. Registered'
  BY <1>1, <1>12 DEF Registered
<1>14. Connected'
  BY <1>1, <1>8 DEF Connected
<1>15. ASSUME NEW j \in GoLinks, j[2] > go'[Owner(j)].connects
       PROVE  /\ link'[j].state = "new" /\ link'[j].down = <<>>
              /\ written'[j] = <<>> /\ handled'[j] = <<>>
              /\ recv'[j].pc = "none" /\ sw'["server"][j].state = "none"
  <2>1. j \in Links /\ Owner(j) \in GoClients /\ j[2] > go[Owner(j)].connects
    BY <1>8, <1>15, TwoKinds
  <2>2. /\ link[j].state = "new" /\ link[j].down = <<>>
        /\ written[j] = <<>> /\ handled[j] = <<>>
        /\ recv[j].pc = "none" /\ sw["server"][j].state = "none"
    BY <2>1, <1>1 DEF Untouched
  <2>3. j # on /\ j # k
    BY <2>2, <1>2, <1>b
  <2> QED BY <2>1, <2>2, <2>3, <1>9, <1>10, <1>12
<1>16. Looping'
  <2> SUFFICES ASSUME NEW j \in GoLinks
               PROVE  /\ recv'[j].pc \in {"reading", "processing"} =>
                           recv'[j].on \in GoLinks /\ Owner(recv'[j].on) = Owner(j)
                      /\ clean[j] /\ recv'[j].pc \notin {"none", "ended"} =>
                           /\ j[2] = go'[Owner(j)].connects
                           /\ recv'[j].pc # "starting" => recv'[j].on = j
                      /\ \A i \in GoLinks : Owner(i) = Owner(j) => clean[i] = clean[j]
    BY <1>12 DEF Looping, Reads
  <2>1. go'[Owner(j)].connects = go[Owner(j)].connects
    BY <1>8, TwoKinds
  <2>2. CASE j = k
    BY <2>1, <2>2, <1>1, <1>3, <1>10, <1>a DEF Looping
  <2>3. CASE j # k
    BY <2>1, <2>3, <1>1, <1>10 DEF Looping, Reads
  <2> QED BY <2>2, <2>3
<1>17. ASSUME NEW j \in GoLinks, clean[j]
       PROVE  /\ IsPrefix(handled[j], written[j])
              /\ j[2] = go'[Owner(j)].connects =>
                   Follows(go'[Owner(j)].buffer \o link'[j].down, written[j], Len(handled[j]),
                           link'[j].state)
  <2>1. /\ j \in Links /\ Owner(j) \in GoClients
        /\ go'[Owner(j)].connects = go[Owner(j)].connects /\ link'[j].state = link[j].state
    BY <1>8, <1>9, TwoKinds
  <2>2. /\ IsPrefix(handled[j], written[j])
        /\ j[2] = go[Owner(j)].connects =>
             Follows(go[Owner(j)].buffer \o link[j].down, written[j], Len(handled[j]), link[j].state)
    BY <1>1, <1>17 DEF Streamed, Ahead
  <2>3. CASE Owner(j) # c
    <3>1. j # on
      BY <2>3, <1>3
    <3> QED BY <2>1, <2>2, <2>3, <3>1, <1>8, <1>9
  <2>4. CASE Owner(j) = c /\ j[2] = go[c].connects
    <3>1. clean[k]
      BY <2>4, <1>1, <1>17, <1>a DEF Looping
    <3>2. j = k /\ on = k
      BY <2>4, <3>1, <1>3, <1>a, TwoKinds
    <3>3. go'[Owner(j)].buffer \o link'[j].down = go[Owner(j)].buffer \o link[j].down
      BY <2>4, <3>2, <1>4, <1>6, <1>8, <1>9
    <3> QED BY <2>1, <2>2, <3>3
  <2>5. CASE Owner(j) = c /\ j[2] # go[c].connects
    BY <2>1, <2>2, <2>5
  <2> QED BY <2>3, <2>4, <2>5
<1>18. Untouched'
  BY <1>15 DEF Untouched
<1>19. Streamed'
  BY <1>17, <1>12 DEF Streamed, Ahead
<1> QED BY <1>11, <1>13, <1>14, <1>16, <1>18, <1>19 DEF IInv

\* receiveLoop takes a frame.
LEMMA TakeFrameStep ==
  ASSUME IInv, NEW k \in GoLinks, TakeFrame(k)
  PROVE  IInv'
<1>1. Typed /\ Registered /\ Connected /\ Untouched /\ Looping /\ Streamed
  BY DEF IInv
<1>a. PICK c, on, b, f :
        /\ c = Owner(k) /\ on = recv[k].on /\ b = go[c].buffer
        /\ f = IF Aligned(b) THEN b[1].frame ELSE Frame("junk", 0)
  OBVIOUS
<1>2. /\ recv[k].pc = "processing" /\ Len(b) >= HeaderCells
      /\ handled' = IF clean[on] THEN [handled EXCEPT ![on] = Append(@, f)] ELSE handled
      /\ IF f.type = "heartbeat" THEN WritesIfConnected(c, f) ELSE UNCHANGED link
      /\ UNCHANGED <<plan, calls, swiftVars, recv, beat, sender, clean>>
  BY <1>a DEF TakeFrame
<1>b. PICK n \in Lengths(b) : Len(b) >= n /\ go' = [go EXCEPT ![c].buffer = Rest(b, n)]
  BY <1>a DEF TakeFrame
<1>3. /\ c \in GoClients /\ on \in GoLinks /\ Owner(on) = c /\ on \in Links
      /\ clean[on] = clean[k]
      /\ clean[k] => k[2] = go[c].connects /\ on = k
  BY <1>1, <1>2, <1>a, TwoKinds DEF Looping, Reads
<1>4. b \in Seq(Pieces) /\ b # <<>> /\ b[1] \in Pieces /\ b[1].frame \in Frames
  <2>1. b \in Seq(Pieces) /\ b # <<>>
    BY <1>1, <1>2, <1>3, <1>a DEF Typed, HeaderCells
  <2>2. b[1] \in Pieces
    BY <2>1
  <2> QED BY <2>1, <2>2 DEF Pieces
<1>5. n \in 1 .. Len(b) /\ (Aligned(b) => n = Size(b[1].frame))
  <2>1. CASE Aligned(b)
    <3>1. n = Size(b[1].frame)
      BY <2>1 DEF Lengths
    <3>2. n \in {1, 2}
      BY <3>1, <1>4, CellsOf
    <3> QED BY <3>1, <3>2, <1>b, <1>4
  <2>2. CASE ~Aligned(b)
    <3>1. n = 1 \/ n = Len(b) + 1
      BY <2>2 DEF Lengths, HeaderCells
    <3>2. n = 1
      BY <3>1, <1>b, <1>4
    <3> QED BY <2>2, <3>2, <1>b
  <2> QED BY <2>1, <2>2
<1>6. f \in Frames
  <2>1. Frame("junk", 0) \in Frames
    <3>1. 0 \in Nat
      OBVIOUS
    <3> QED BY <3>1 DEF Frame, Frames
  <2> QED BY <2>1, <1>4, <1>a
<1>7. PICK e : e = Rest(b, n)
  OBVIOUS
<1>8. /\ e \in Seq(Pieces) /\ e = SubSeq(b, n + 1, Len(b))
  <2>1. e = SubSeq(b, n + 1, Len(b))
    BY <1>7 DEF Rest
  <2> QED BY <2>1, <1>4, <1>5, Beyond
<1>9. /\ go' \in [GoClients -> [connected : BOOLEAN, conn : Links \cup {NoLink}, connects : Nat,
                                seq : Nat, buffer : Seq(Pieces)]]
      /\ go'[c].buffer = e
      /\ \A i \in GoClients : /\ go'[i].connected = go[i].connected /\ go'[i].conn = go[i].conn
                              /\ go'[i].connects = go[i].connects
                              /\ i # c => go'[i].buffer = go[i].buffer
  <2>1. go' = [go EXCEPT ![c].buffer = e]
    BY <1>b, <1>7
  <2> QED BY <2>1, <1>1, <1>3, <1>8, BufferSet
<1>10. /\ link' \in [Links -> Pipes]
       /\ \A j \in Links : link'[j].state = link[j].state /\ link'[j].down = link[j].down
  <2>1. go[c].conn \in Links \cup {NoLink}
    BY <1>1, <1>3 DEF Typed
  <2>2. GoWrites(go[c].conn, f) \/ UNCHANGED link
    BY <1>2 DEF WritesIfConnected
  <2> QED BY <2>1, <2>2, <1>1, <1>6, WritesUp
<1>11. /\ handled' \in [GoLinks -> Seq(Frames)]
       /\ \A j \in GoLinks : j # on \/ ~clean[k] => handled'[j] = handled[j]
       /\ clean[k] => handled'[k] = Append(handled[k], f)
  <2>1. handled \in [GoLinks -> Seq(Frames)]
    BY <1>1 DEF Typed
  <2>2. CASE clean[on]
    <3>1. handled' = [handled EXCEPT ![on] = Append(handled[on], f)]
      BY <2>2, <1>2
    <3>2. Append(handled[on], f) \in Seq(Frames)
      BY <2>1, <1>3, <1>6
    <3> QED BY <2>1, <2>2, <3>1, <3>2, <1>3
  <2>3. CASE ~clean[on]
    BY <2>1, <2>3, <1>2, <1>3
  <2> QED BY <2>2, <2>3
<1>12. Typed'
  BY <1>1, <1>2, <1>9, <1>10, <1>11 DEF Typed, swiftVars
<1>13. /\ sw' = sw /\ connections' = connections /\ written' = written
       /\ recv' = recv /\ clean' = clean
  BY <1>2 DEF swiftVars
<1>14. Registered'
  BY <1>1, <1>13 DEF Registered
<1>15. Connected'
  BY <1>1, <1>9 DEF Connected
<1>16. ASSUME NEW j \in GoLinks, j[2] > go'[Owner(j)].connects
       PROVE  /\ link'[j].state = "new" /\ link'[j].down = <<>>
              /\ written'[j] = <<>> /\ handled'[j] = <<>>
              /\ recv'[j].pc = "none" /\ sw'["server"][j].state = "none"
  <2>1. j \in Links /\ Owner(j) \in GoClients /\ j[2] > go[Owner(j)].connects
    BY <1>9, <1>16, TwoKinds
  <2>2. /\ link[j].state = "new" /\ link[j].down = <<>>
        /\ written[j] = <<>> /\ handled[j] = <<>>
        /\ recv[j].pc = "none" /\ sw["server"][j].state = "none"
    BY <2>1, <1>1 DEF Untouched
  <2>3. j # on \/ ~clean[k]
    BY <2>2, <1>2, <1>3
  <2> QED BY <2>1, <2>2, <2>3, <1>10, <1>11, <1>13
<1>17. Looping'
  <2>1. \A j \in GoLinks : go'[Owner(j)].connects = go[Owner(j)].connects
    BY <1>9, TwoKinds
  <2> QED BY <2>1, <1>1, <1>13 DEF Looping, Reads
<1>18. ASSUME NEW j \in GoLinks, clean[j]
       PROVE  /\ IsPrefix(handled'[j], written[j])
              /\ j[2] = go'[Owner(j)].connects =>
                   Follows(go'[Owner(j)].buffer \o link'[j].down, written[j], Len(handled'[j]),
                           link'[j].state)
  <2>1. /\ j \in Links /\ Owner(j) \in GoClients
        /\ go'[Owner(j)].connects = go[Owner(j)].connects
        /\ link'[j].state = link[j].state /\ link'[j].down = link[j].down
    BY <1>9, <1>10, TwoKinds
  <2>2. /\ IsPrefix(handled[j], written[j])
        /\ j[2] = go[Owner(j)].connects =>
             Follows(go[Owner(j)].buffer \o link[j].down, written[j], Len(handled[j]), link[j].state)
    BY <1>1, <1>18 DEF Streamed, Ahead
  <2>3. CASE Owner(j) # c
    <3>1. j # on
      BY <2>3, <1>3
    <3>2. handled'[j] = handled[j]
      BY <3>1, <1>11
    <3> QED BY <2>1, <2>2, <2>3, <3>2, <1>9
  <2>4. CASE Owner(j) = c /\ j[2] = go[c].connects
    <3>1. clean[k]
      BY <2>4, <1>1, <1>18, <1>a DEF Looping
    <3>2. j = k /\ on = k
      BY <2>4, <3>1, <1>3, <1>a, TwoKinds
    <3>3. PICK hs \in Seq(Frames), ws \in Seq(Frames), h \in Nat :
            hs = handled[j] /\ ws = written[j] /\ h = Len(hs)
      BY <2>1, <1>1 DEF Typed
    <3>4. PICK d \in Seq(Pieces), s \in LinkStates : d = link[j].down /\ s = link[j].state
      BY <2>1, <1>1, Fields
    <3>5. PICK R : R = b \o d
      OBVIOUS
    <3>6. /\ R \in Seq(Pieces) /\ Len(R) = Len(b) + Len(d) /\ R[1] = b[1]
          /\ e \o d = SubSeq(R, n + 1, Len(R))
      BY <3>5, <1>4, <1>5, <1>8, Shortened
    <3>7. Follows(R, ws, h, s) /\ IsPrefix(hs, ws)
      BY <2>2, <2>4, <3>3, <3>4, <3>5, <1>a
    <3>8. R # <<>> /\ Len(R) \in Nat /\ Len(R) >= Len(b)
      BY <3>6, <1>5
    <3>9. R[1].part = 1
      <4>1. PICK g : Spelled(g, R, ws, h, s)
        BY <3>7 DEF Follows
      <4> QED BY <4>1, <3>8 DEF Spelled
    <3>10. Aligned(b) /\ n = Size(R[1].frame) /\ n <= Len(R) /\ f = R[1].frame
      <4>1. Aligned(b)
        BY <3>6, <3>9 DEF Aligned
      <4> QED BY <4>1, <3>6, <3>8, <1>5, <1>a
    <3>11. /\ h + 1 \in 1 .. Len(ws) /\ f = ws[h + 1]
           /\ Follows(SubSeq(R, n + 1, Len(R)), ws, h + 1, s)
      BY <3>6, <3>7, <3>8, <3>10, TakenFollows
    <3>12. handled'[j] = Append(hs, f)
      BY <3>1, <3>2, <3>3, <1>11
    <3>13. IsPrefix(Append(hs, f), ws) /\ Len(Append(hs, f)) = h + 1
      BY <3>3, <3>7, <3>11, <1>6, HandledNext
    <3>14. go'[Owner(j)].buffer = e
      BY <2>4, <1>9
    <3> QED BY <2>1, <3>3, <3>4, <3>6, <3>11, <3>12, <3>13, <3>14
  <2>5. CASE Owner(j) = c /\ j[2] # go[c].connects
    <3>1. j # on \/ ~clean[k]
      BY <2>5, <1>3
    <3>2. handled'[j] = handled[j]
      BY <3>1, <1>11
    <3> QED BY <2>1, <2>2, <2>5, <3>2
  <2> QED BY <2>3, <2>4, <2>5
<1>19. Untouched'
  BY <1>16 DEF Untouched
<1>20. Streamed'
  BY <1>18, <1>13 DEF Streamed, Ahead
<1> QED BY <1>12, <1>14, <1>15, <1>17, <1>19, <1>20 DEF IInv

\* A Go client connects, once more perhaps.
LEMMA ConnectStep ==
  ASSUME IInv, NEW c \in GoClients, Connect(c)
  PROVE  IInv'
<1>1. Typed /\ Registered /\ Connected /\ Untouched /\ Looping /\ Streamed
  BY DEF IInv
<1>a. PICK k, n : n = go[c].connects + 1 /\ k = <<c, n>>
  OBVIOUS
<1>2. /\ MayConnect(k)
      /\ go' = [go EXCEPT ![c].connected = TRUE, ![c].conn = k, ![c].connects = n]
      /\ link' = [link EXCEPT ![k].state = "open"]
      /\ recv' = [recv EXCEPT ![k].pc = "starting"]
      /\ beat' = [beat EXCEPT ![k] = "waiting"]
      /\ clean' = [j \in GoLinks |->
           IF Owner(j) # c \/ ((\A i \in LinksOf(c) : ~Reads(i)) /\ go[c].buffer = <<>>)
           THEN clean[j] ELSE FALSE]
      /\ handled' = [j \in GoLinks |-> IF clean'[j] THEN handled[j] ELSE <<>>]
      /\ UNCHANGED <<plan, calls, swiftVars, sender>>
  BY <1>a DEF Connect
<1>3. /\ k \in Links /\ k \in GoLinks /\ Owner(k) = c /\ k[2] = n
      /\ n \in Nat /\ n > 0 /\ go[c].connects \in Nat
  <2>1. k \in Links
    BY <1>1, <1>2 DEF MayConnect, Typed
  <2>2. k \notin SwiftLinks
    <3>1. c \notin SwiftClients
      BY LinkAssumption
    <3> QED BY <3>1, <1>a DEF SwiftLinks
  <2>3. go[c].connects \in Nat
    BY <1>1 DEF Typed
  <2> QED BY <2>1, <2>2, <2>3, <1>a, TwoKinds DEF Owner
<1>4. /\ link[k].state = "new" /\ link[k].down = <<>>
      /\ written[k] = <<>> /\ handled[k] = <<>>
      /\ recv[k].pc = "none" /\ sw["server"][k].state = "none"
  <2>1. k[2] > go[Owner(k)].connects
    BY <1>3, <1>a
  <2> QED BY <2>1, <1>1, <1>3 DEF Untouched
<1>5. /\ go' \in [GoClients -> [connected : BOOLEAN, conn : Links \cup {NoLink}, connects : Nat,
                                seq : Nat, buffer : Seq(Pieces)]]
      /\ go'[c].connected /\ go'[c].conn = k /\ go'[c].connects = n /\ go'[c].buffer = go[c].buffer
      /\ \A i \in GoClients : i # c => go'[i] = go[i]
  <2>1. go \in [GoClients -> [connected : BOOLEAN, conn : Links \cup {NoLink}, connects : Nat,
                              seq : Nat, buffer : Seq(Pieces)]]
    BY <1>1 DEF Typed
  <2>2. PICK yes \in BOOLEAN : yes = TRUE
    OBVIOUS
  <2>3. PICK x, y : x = go[c] /\ y = [x EXCEPT !.connected = yes, !.conn = k, !.connects = n]
    OBVIOUS
  <2>4. /\ y \in [connected : BOOLEAN, conn : Links \cup {NoLink}, connects : Nat,
                  seq : Nat, buffer : Seq(Pieces)]
        /\ y.connected = yes /\ y.conn = k /\ y.connects = n /\ y.buffer = x.buffer
    <3>1. x \in [connected : BOOLEAN, conn : Links \cup {NoLink}, connects : Nat,
                 seq : Nat, buffer : Seq(Pieces)]
      BY <2>1, <2>3
    <3>2. k \in Links \cup {NoLink} /\ n \in Nat
      BY <1>3
    <3> QED BY <3>1, <3>2, <2>2, <2>3
  <2>5. go' = [go EXCEPT ![c] = y]
    BY <2>2, <2>3, <1>2
  <2> QED BY <2>1, <2>2, <2>3, <2>4, <2>5
<1>6. /\ link' \in [Links -> Pipes]
      /\ link'[k].state = "open" /\ link'[k].down = <<>>
      /\ \A j \in Links : j # k => link'[j] = link[j]
  <2>1. link \in [Links -> Pipes]
    BY <1>1 DEF Typed
  <2>2. "open" \in LinkStates
    BY DEF LinkStates
  <2> QED BY <2>1, <2>2, <1>2, <1>3, <1>4 DEF Pipes
<1>7. /\ recv' \in [GoLinks -> [pc : {"none", "starting", "reading", "processing", "ended"},
                                on : Links \cup {NoLink}]]
      /\ recv'[k].pc = "starting"
      /\ \A j \in GoLinks : j # k => recv'[j] = recv[j]
  <2>1. recv \in [GoLinks -> [pc : {"none", "starting", "reading", "processing", "ended"},
                              on : Links \cup {NoLink}]]
    BY <1>1 DEF Typed
  <2> QED BY <2>1, <1>2, <1>3
<1>8. /\ clean' \in [GoLinks -> BOOLEAN]
      /\ \A j \in GoLinks : clean'[j] => clean[j]
      /\ \A j \in GoLinks : Owner(j) # c => clean'[j] = clean[j]
      /\ \A i, j \in GoLinks : Owner(i) = Owner(j) => clean'[i] = clean'[j]
      /\ \A j \in GoLinks : clean'[j] /\ Owner(j) = c =>
           go[c].buffer = <<>> /\ \A i \in LinksOf(c) : ~Reads(i)
  <2>1. clean \in [GoLinks -> BOOLEAN] /\ \A i, j \in GoLinks : Owner(i) = Owner(j) => clean[i] = clean[j]
    BY <1>1 DEF Typed, Looping
  <2>2. CASE (\A i \in LinksOf(c) : ~Reads(i)) /\ go[c].buffer = <<>>
    <3>1. clean' = [j \in GoLinks |-> clean[j]]
      BY <2>2, <1>2
    <3> QED BY <3>1, <2>1, <2>2
  <2>3. CASE ~((\A i \in LinksOf(c) : ~Reads(i)) /\ go[c].buffer = <<>>)
    <3>1. clean' = [j \in GoLinks |-> IF Owner(j) # c THEN clean[j] ELSE FALSE]
      BY <2>3, <1>2
    <3> QED BY <3>1, <2>1
  <2> QED BY <2>2, <2>3
<1>9. /\ handled' \in [GoLinks -> Seq(Frames)]
      /\ \A j \in GoLinks : handled'[j] = IF clean'[j] THEN handled[j] ELSE <<>>
  <2>1. handled \in [GoLinks -> Seq(Frames)] /\ <<>> \in Seq(Frames)
    BY <1>1 DEF Typed
  <2> QED BY <2>1, <1>2
<1>10. beat' \in [GoLinks -> {"none", "waiting", "ended"}]
  BY <1>1, <1>2 DEF Typed
<1>11. Typed'
  BY <1>1, <1>2, <1>5, <1>6, <1>7, <1>8, <1>9, <1>10 DEF Typed, swiftVars
<1>12. sw' = sw /\ connections' = connections /\ written' = written
  BY <1>2 DEF swiftVars
<1>13. Registered'
  BY <1>1, <1>12 DEF Registered
<1>14. Connected'
  <2> SUFFICES ASSUME NEW d \in GoClients
               PROVE  /\ go'[d].connected => go'[d].connects > 0
                      /\ go'[d].connects > 0 =>
                           go'[d].conn = <<d, go'[d].connects>> /\ go'[d].conn \in GoLinks
    BY DEF Connected
  <2>1. CASE d = c
    BY <2>1, <1>3, <1>5, <1>a
  <2>2. CASE d # c
    BY <2>2, <1>1, <1>5 DEF Connected
  <2> QED BY <2>1, <2>2
<1>15. ASSUME NEW j \in GoLinks, j[2] > go'[Owner(j)].connects
       PROVE  /\ link'[j].state = "new" /\ link'[j].down = <<>>
              /\ written'[j] = <<>> /\ handled'[j] = <<>>
              /\ recv'[j].pc = "none" /\ sw'["server"][j].state = "none"
  <2>1. j \in Links /\ Owner(j) \in GoClients /\ j[2] \in Nat
    BY TwoKinds
  <2>2. j # k
    BY <1>3, <1>5, <1>15
  <2>3. j[2] > go[Owner(j)].connects
    <3>1. CASE Owner(j) = c
      <4>1. j[2] > n
        BY <3>1, <1>5, <1>15
      <4> QED BY <4>1, <3>1, <2>1, <1>3, <1>a
    <3>2. CASE Owner(j) # c
      BY <3>2, <2>1, <1>5, <1>15
    <3> QED BY <3>1, <3>2
  <2>4. /\ link[j].state = "new" /\ link[j].down = <<>>
        /\ written[j] = <<>> /\ handled[j] = <<>>
        /\ recv[j].pc = "none" /\ sw["server"][j].state = "none"
    BY <2>3, <1>1 DEF Untouched
  <2> QED BY <2>1, <2>2, <2>4, <1>6, <1>7, <1>9, <1>12
<1>16. Looping'
  <2> SUFFICES ASSUME NEW j \in GoLinks
               PROVE  /\ recv'[j].pc \in {"reading", "processing"} =>
                           recv'[j].on \in GoLinks /\ Owner(recv'[j].on) = Owner(j)
                      /\ clean'[j] /\ recv'[j].pc \notin {"none", "ended"} =>
                           /\ j[2] = go'[Owner(j)].connects
                           /\ recv'[j].pc # "starting" => recv'[j].on = j
    BY <1>8 DEF Looping, Reads
  <2>1. CASE j = k
    BY <2>1, <1>3, <1>5, <1>7
  <2>2. CASE j # k /\ Owner(j) = c
    <3>1. clean'[j] => recv[j].pc \in {"none", "ended"}
      BY <2>2, <1>8 DEF LinksOf, Reads
    <3> QED BY <3>1, <2>2, <1>1, <1>7 DEF Looping
  <2>3. CASE Owner(j) # c
    <3>1. j # k /\ go'[Owner(j)] = go[Owner(j)]
      BY <2>3, <1>3, <1>5, TwoKinds
    <3> QED BY <3>1, <1>1, <1>7, <1>8 DEF Looping, Reads
  <2> QED BY <2>1, <2>2, <2>3
<1>17. ASSUME NEW j \in GoLinks, clean'[j]
       PROVE  /\ IsPrefix(handled'[j], written'[j])
              /\ j[2] = go'[Owner(j)].connects =>
                   Follows(go'[Owner(j)].buffer \o link'[j].down, written'[j], Len(handled'[j]),
                           link'[j].state)
  <2>1. /\ j \in Links /\ Owner(j) \in GoClients
        /\ clean[j] /\ handled'[j] = handled[j] /\ written'[j] = written[j]
    BY <1>8, <1>9, <1>12, <1>17, TwoKinds
  <2>2. /\ IsPrefix(handled[j], written[j])
        /\ j[2] = go[Owner(j)].connects =>
             Follows(go[Owner(j)].buffer \o link[j].down, written[j], Len(handled[j]), link[j].state)
    BY <2>1, <1>1 DEF Streamed, Ahead
  <2>3. CASE Owner(j) # c
    <3>1. j # k /\ go'[Owner(j)] = go[Owner(j)]
      BY <2>1, <2>3, <1>3, <1>5
    <3> QED BY <2>1, <2>2, <3>1, <1>6
  <2>4. CASE Owner(j) = c /\ j[2] = n
    <3>1. j = k
      BY <2>4, <1>a, TwoKinds
    <3>2. go'[c].buffer = <<>> /\ link'[k].down = <<>> /\ written[k] = <<>> /\ handled[k] = <<>>
      BY <3>1, <1>4, <1>5, <1>6, <1>8, <1>17, <2>4
    <3>3. <<>> \o <<>> = <<>> /\ Len(<<>>) = 0
      OBVIOUS
    <3>4. Follows(<<>>, <<>>, 0, link'[k].state)
      BY NothingFollows
    <3> QED BY <2>1, <2>2, <2>4, <3>1, <3>2, <3>3, <3>4
  <2>5. CASE Owner(j) = c /\ j[2] # n
    BY <2>1, <2>2, <2>5, <1>5
  <2> QED BY <2>3, <2>4, <2>5
<1>18. Untouched'
  BY <1>15 DEF Untouched
<1>19. Streamed'
  BY <1>17 DEF Streamed, Ahead
<1> QED BY <1>11, <1>13, <1>14, <1>16, <1>18, <1>19 DEF IInv

\* A Go client disconnects.
LEMMA DisconnectStep ==
  ASSUME IInv, NEW c \in GoClients, Disconnect(c)
  PROVE  IInv'
<1>1. Typed /\ Registered /\ Connected /\ Looping
  BY DEF IInv
<1>a. PICK k, m : k = go[c].conn /\ m = ClosedLink(link[k])
  OBVIOUS
<1>2. /\ go[c].connected /\ go' = [go EXCEPT ![c].connected = FALSE]
      /\ link' = [link EXCEPT ![k] = m]
      /\ UNCHANGED <<plan, calls, swiftVars, recv, beat, sender, handled, clean>>
  BY <1>a DEF Disconnect
<1>3. k = <<c, go[c].connects>> /\ k \in GoLinks /\ k \in Links
  BY <1>1, <1>2, <1>a, TwoKinds DEF Connected
<1>4. m \in Pipes /\ m.down = <<>> /\ m.state # "open"
  <2>1. link[k] \in Pipes
    BY <1>1, <1>3, Fields
  <2> QED BY <2>1, <1>a, ClosedFields
<1>5. /\ go' \in [GoClients -> [connected : BOOLEAN, conn : Links \cup {NoLink}, connects : Nat,
                                seq : Nat, buffer : Seq(Pieces)]]
      /\ \A i \in GoClients : /\ go'[i].connected => go[i].connected
                              /\ go'[i].conn = go[i].conn
                              /\ go'[i].connects = go[i].connects /\ go'[i].buffer = go[i].buffer
  <2>1. go \in [GoClients -> [connected : BOOLEAN, conn : Links \cup {NoLink}, connects : Nat,
                              seq : Nat, buffer : Seq(Pieces)]]
    BY <1>1 DEF Typed
  <2>2. PICK no \in BOOLEAN : no = FALSE
    OBVIOUS
  <2>3. go' = [go EXCEPT ![c].connected = no]
    BY <2>2, <1>2
  <2> QED BY <2>1, <2>2, <2>3
<1>6. /\ link' \in [Links -> Pipes] /\ link'[k] = m
      /\ \A j \in Links : j # k => link'[j] = link[j]
  BY <1>1, <1>2, <1>3, <1>4 DEF Typed
<1>7. Typed'
  BY <1>1, <1>2, <1>5, <1>6 DEF Typed, swiftVars
<1>8. /\ sw' = sw /\ connections' = connections /\ written' = written
      /\ recv' = recv /\ handled' = handled /\ clean' = clean
  BY <1>2 DEF swiftVars
<1>9. ASSUME NEW j \in GoLinks PROVE Passes(j)
  <2>1. j \in Links
    BY TwoKinds
  <2>2. CASE j = k
    <3>1. Owner(k) = c /\ k[2] = go[c].connects /\ go[c].connects \in Nat
      BY <1>1, <1>3 DEF Owner, Typed
    <3>2. ~(k[2] > go[Owner(k)].connects)
      BY <3>1
    <3> QED BY <2>2, <3>2, <1>4, <1>6, <1>8 DEF Passes
  <2>3. CASE j # k
    BY <2>1, <2>3, <1>6, <1>8 DEF Passes
  <2> QED BY <2>2, <2>3
<1>10. Untouched' /\ Streamed'
  BY <1>5, <1>7, <1>8, <1>9, Passing
<1>11. Registered'
  BY <1>1, <1>8 DEF Registered
<1>12. Connected'
  BY <1>1, <1>5 DEF Connected
<1>13. Looping'
  <2>1. \A j \in GoLinks : go'[Owner(j)].connects = go[Owner(j)].connects
    BY <1>5, TwoKinds
  <2> QED BY <2>1, <1>1, <1>8 DEF Looping, Reads
<1> QED BY <1>7, <1>10, <1>11, <1>12, <1>13 DEF IInv

-----------------------------------------------------------------------------
(* The theorems. *)

\* In the beginning nothing has been sent.
LEMMA Beginning ==
  ASSUME Init
  PROVE  IInv
<1>1. plan \subseteq Links
  BY PlansAssumption DEF Init
<1>2. proc \in [{"server"} \cup SwiftClients -> {"running", "trapped", "hung"}]
  BY DEF Init
<1>3. /\ <<>> \in Seq(Pieces) /\ <<>> \in Seq(Frames) /\ 0 \in Nat
      /\ "new" \in LinkStates /\ "none" \in SwiftStates
  BY DEF LinkStates, SwiftStates
<1>4. /\ link \in [Links -> Pipes]
      /\ \A k \in Links : link[k].state = "new" /\ link[k].down = <<>>
  <2>1. PICK x : x = [state |-> "new", up |-> <<>>, down |-> <<>>]
    OBVIOUS
  <2>2. x \in Pipes /\ x.state = "new" /\ x.down = <<>>
    BY <2>1, <1>3 DEF Pipes
  <2>3. link = [k \in Links |-> x]
    BY <2>1 DEF Init
  <2> QED BY <2>2, <2>3
<1>5. /\ sw \in [Ends -> [Links -> [state : SwiftStates, shifted : BOOLEAN, seq : Nat]]]
      /\ \A k \in Links : sw["server"][k].state = "none"
  <2>1. NoConnection \in [state : SwiftStates, shifted : BOOLEAN, seq : Nat]
        /\ NoConnection.state = "none"
    BY <1>3 DEF NoConnection
  <2>2. sw = [e \in Ends |-> [k \in Links |-> NoConnection]] /\ "server" \in Ends
    BY DEF Init, Ends
  <2> QED BY <2>1, <2>2
<1>6. /\ go \in [GoClients -> [connected : BOOLEAN, conn : Links \cup {NoLink}, connects : Nat,
                               seq : Nat, buffer : Seq(Pieces)]]
      /\ \A c \in GoClients : ~go[c].connected /\ go[c].connects = 0
  <2>1. PICK x : x = [connected |-> FALSE, conn |-> NoLink, connects |-> 0, seq |-> 0, buffer |-> <<>>]
    OBVIOUS
  <2>2. /\ x \in [connected : BOOLEAN, conn : Links \cup {NoLink}, connects : Nat,
                  seq : Nat, buffer : Seq(Pieces)]
        /\ ~x.connected /\ x.connects = 0
    BY <2>1, <1>3
  <2>3. go = [c \in GoClients |-> x]
    BY <2>1 DEF Init
  <2> QED BY <2>2, <2>3
<1>7. /\ recv \in [GoLinks -> [pc : {"none", "starting", "reading", "processing", "ended"},
                               on : Links \cup {NoLink}]]
      /\ \A k \in GoLinks : recv[k].pc = "none"
  <2>1. PICK x : x = [pc |-> "none", on |-> NoLink]
    OBVIOUS
  <2>2. /\ x \in [pc : {"none", "starting", "reading", "processing", "ended"},
                  on : Links \cup {NoLink}]
        /\ x.pc = "none"
    BY <2>1
  <2>3. recv = [k \in GoLinks |-> x]
    BY <2>1 DEF Init
  <2> QED BY <2>2, <2>3
<1>8. sender \in [GoClients -> [Senders -> [pc : {"idle", "writing"},
                                            on : Links \cup {NoLink}, seq : Nat]]]
  <2>1. PICK x : x = [pc |-> "idle", on |-> NoLink, seq |-> 0]
    OBVIOUS
  <2>2. x \in [pc : {"idle", "writing"}, on : Links \cup {NoLink}, seq : Nat]
    BY <2>1
  <2>3. sender = [c \in GoClients |-> [s \in Senders |-> x]]
    BY <2>1 DEF Init
  <2> QED BY <2>2, <2>3
<1>9. /\ written \in [Links -> Seq(Frames)] /\ clean \in [GoLinks -> BOOLEAN]
      /\ handled \in [GoLinks -> Seq(Frames)] /\ beat \in [GoLinks -> {"none", "waiting", "ended"}]
      /\ connections = {}
      /\ \A k \in Links : written[k] = <<>>
      /\ \A k \in GoLinks : handled[k] = <<>> /\ clean[k] = TRUE
  BY <1>3 DEF Init
<1>10. Typed
  BY <1>1, <1>2, <1>4, <1>5, <1>6, <1>7, <1>8, <1>9 DEF Typed
<1>11. Registered
  BY <1>5, <1>9 DEF Registered
<1>12. Connected
  BY <1>6 DEF Connected
<1>13. Untouched
  BY <1>4, <1>5, <1>7, <1>9, TwoKinds DEF Untouched
<1>14. Looping
  BY <1>7, <1>9 DEF Looping, Reads
<1>15. Streamed
  <2> SUFFICES ASSUME NEW k \in GoLinks
               PROVE  /\ IsPrefix(handled[k], written[k])
                      /\ k[2] # go[Owner(k)].connects
    BY DEF Streamed
  <2>1. handled[k] = <<>> /\ written[k] = <<>>
    BY <1>9, TwoKinds
  <2>2. IsPrefix(<<>>, <<>>)
    BY DEF IsPrefix
  <2>3. k[2] # go[Owner(k)].connects
    BY <1>6, TwoKinds
  <2> QED BY <2>1, <2>2, <2>3
<1> QED BY <1>10, <1>11, <1>12, <1>13, <1>14, <1>15 DEF IInv

\* Every step keeps the invariant.
LEMMA NextInv ==
  ASSUME IInv, [Next]_vars
  PROVE  IInv'
<1>1. ASSUME NEW e \in Ends, NEW k \in Links, e = "server" \/ k \in SwiftLinks, SwiftEnd(e, k)
      PROVE  IInv'
  BY <1>1, ReadyStep, FailStep, BeatStep, ReceiveFrameStep, ReceiveTrapsStep DEF SwiftEnd
<1>2. ASSUME NEW k \in Links, Accept(k) \/ SwiftEnd("server", k)
      PROVE  IInv'
  <2>1. "server" \in Ends
    BY DEF Ends
  <2> QED BY <2>1, <1>1, <1>2, AcceptStep
<1>3. ASSUME NEW k \in SwiftLinks,
             ConnectSwift(k) \/ SwiftEnd("client", k) \/ SendSwift(k) \/ DisconnectSwift(k)
      PROVE  IInv'
  <2>1. "client" \in Ends /\ k \in Links
    BY TwoKinds DEF Ends
  <2> QED BY <2>1, <1>1, <1>3, ConnectSwiftStep, SendSwiftStep, DisconnectSwiftStep
<1>4. CASE Broadcast
  BY <1>4, BroadcastStep
<1>5. ASSUME NEW c \in GoClients, Connect(c) \/ Disconnect(c)
      PROVE  IInv'
  BY <1>5, ConnectStep, DisconnectStep
<1>6. ASSUME NEW k \in GoLinks, ReceiveLoop(k) \/ Tick(k) \/ LastTick(k)
      PROVE  IInv'
  BY <1>6, StartReceiveStep, ReadStep, ReadFailsStep, TakeFrameStep, NotEnoughStep,
     TickStep, LastTickStep DEF ReceiveLoop
<1>7. ASSUME NEW c \in GoClients, NEW s \in Senders, Send(c, s) \/ WriteSend(c, s)
      PROVE  IInv'
  BY <1>7, SendStep, WriteSendStep
<1>8. CASE UNCHANGED vars
  <2>1. /\ UNCHANGED <<swiftVars, goVars, plan, link, calls>>
        /\ UNCHANGED <<swiftVars, recv, handled, clean, go, beat, sender>>
    BY <1>8 DEF vars, goVars
  <2>2. Typed'
    BY <2>1 DEF IInv, Typed, swiftVars
  <2> QED BY <2>1, <2>2, SendingKeeps
<1> QED BY <1>2, <1>3, <1>4, <1>5, <1>6, <1>7, <1>8 DEF Next

\* What Go clients have received and what is under way to them are the server's
\* frames, in every reachable state.
THEOREM FramesFollow == Spec => []IInv
<1>1. Init => IInv
  BY Beginning
<1>2. IInv /\ [Next]_vars => IInv'
  BY NextInv
<1> QED BY <1>1, <1>2, PTL DEF Spec

\* The objects of both programs stay well typed, and the server's table holds
\* the connections that are connecting or connected (didChangeState).
THEOREM Typing == Spec => []TypeOK
<1>1. IInv => TypeOK
  <2> SUFFICES ASSUME IInv PROVE TypeOK
    OBVIOUS
  <2>1. Typed /\ Registered /\ Connected
    BY DEF IInv
  <2>2. \A p \in DOMAIN proc : proc[p] \in {"running", "trapped", "hung"}
    BY <2>1 DEF Typed
  <2>3. ASSUME NEW k \in Links
        PROVE  /\ link[k].state \in {"new", "open", "closed", "reset"}
               /\ \A e \in Ends :
                    sw[e][k].state \in {"none", "connecting", "connected", "disconnected"}
    BY <2>1, Fields DEF LinkStates, SwiftStates
  <2>4. \A c \in GoClients : go[c].connected => go[c].conn = <<c, go[c].connects>>
    BY <2>1 DEF Connected
  <2>5. ASSUME NEW k \in GoLinks
        PROVE  /\ recv[k].pc \in {"none", "starting", "reading", "processing", "ended"}
               /\ beat[k] \in {"none", "waiting", "ended"}
    <3>1. recv[k] \in [pc : {"none", "starting", "reading", "processing", "ended"},
                       on : Links \cup {NoLink}]
      BY <2>1 DEF Typed
    <3> QED BY <3>1, <2>1 DEF Typed
  <2> QED BY <2>1, <2>2, <2>3, <2>4, <2>5 DEF TypeOK, Registered
<1> QED BY <1>1, FramesFollow, PTL

\* The frames a Go client handles on a clean connection are the server's, in
\* order, whatever pieces the stream is read in (Client.processBuffer).
THEOREM FramesStayIntact == Spec => []FramesIntact
<1>1. IInv => FramesIntact
  BY DEF IInv, Streamed, FramesIntact
<1> QED BY <1>1, FramesFollow, PTL
=============================================================================
