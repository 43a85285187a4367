---------------------------- MODULE MessagingLink ----------------------------
(***************************************************************************)
(* The messaging engine's server with its clients: Connection.swift at both *)
(* ends of a Swift client's connection and at the server's end of a Go      *)
(* client's, Server.swift, Client.swift, the entry of MessageQueue.swift,   *)
(* and the Go client (messaging-client/client.go).                          *)
(*                                                                         *)
(* A link is one TCP connection: the owner and which of its connections it  *)
(* is. A frame travels in cells, one for its header and one for its payload *)
(* if it has one, and a read takes any number of them. A Swift process runs *)
(* all its callbacks on one serial queue, so each is one step; the          *)
(* goroutines of a Go client interleave.                                    *)
(***************************************************************************)
EXTENDS Integers, Sequences, FiniteSets, SequencesExt

CONSTANTS
  GoClients, SwiftClients,
  Senders,      \* goroutines of every Go client that call Send
  MaxConnects,  \* bounds: connections of a Go client,
  Plans,        \* sets of the links of which any may be opened, in one run,
  MaxBeats,     \* heartbeats of a Swift end while its link is open,
  MaxCalls      \* messages, broadcasts and ticks of Go clients, in all

ASSUME LinkAssumption ==
  /\ "server" \notin GoClients \cup SwiftClients
  /\ GoClients \cap SwiftClients = {}
  /\ MaxConnects \in Nat \ {0}
  /\ MaxBeats \in Nat /\ MaxCalls \in Nat

GoLinks    == GoClients \X (1..MaxConnects)
SwiftLinks == SwiftClients \X {1}
Links      == GoLinks \cup SwiftLinks
Owner(k)   == k[1]
NoLink     == <<"none", 0>>

ASSUME PlansAssumption == Plans \subseteq SUBSET Links

Ends          == {"server", "client"}
Process(e, k) == IF e = "server" THEN "server" ELSE Owner(k)
Out(e)        == IF e = "server" THEN "down" ELSE "up"   \* the way that end e writes
In(e)         == IF e = "server" THEN "up" ELSE "down"   \* and the way it reads

VARIABLES
  proc,        \* Swift processes: "running", "trapped" or "hung"
  plan,        \* the links that may be opened
  link,        \* link[k]: its state, and what is under way each way
  sw,          \* sw[e][k]: the Connection object at end e
  connections, \* the server's table of connections
  go,          \* go[c]: the fields of a Go Client
  recv, beat,  \* receiveLoop and heartbeatLoop, by the Connect that began them
  sender,      \* sender[c][s]: where Send is
  written,     \* written[k]: frames the server has sent, all of them
  clean,       \* clean[k]: k began with an empty receiveBuffer and no other loop
  handled,     \* handled[k]: frames handleFrame has got from it, while it is clean
  calls        \* those that MaxCalls bounds

swiftVars == <<proc, sw, connections, written>>
goVars    == <<go, recv, beat, sender, handled, clean>>
vars      == <<plan, link, calls, swiftVars, goVars>>

NoConnection == [state |-> "none", shifted |-> FALSE, seq |-> 0]

Init ==
  /\ plan \in Plans
  /\ proc = [p \in {"server"} \cup SwiftClients |-> "running"]
  /\ link = [k \in Links |-> [state |-> "new", up |-> <<>>, down |-> <<>>]]
  /\ sw = [e \in Ends |-> [k \in Links |-> NoConnection]]
  /\ connections = {}
  /\ go = [c \in GoClients |->
             [connected |-> FALSE, conn |-> NoLink, connects |-> 0, seq |-> 0, buffer |-> <<>>]]
  /\ recv = [k \in GoLinks |-> [pc |-> "none", on |-> NoLink]]
  /\ beat = [k \in GoLinks |-> "none"]
  /\ sender = [c \in GoClients |-> [s \in Senders |-> [pc |-> "idle", on |-> NoLink, seq |-> 0]]]
  /\ written = [k \in Links |-> <<>>]
  /\ handled = [k \in GoLinks |-> <<>>]
  /\ clean = [k \in GoLinks |-> TRUE]
  /\ calls = 0

-----------------------------------------------------------------------------
(* Frames and links. *)

Frame(type, seq) == [type |-> type, seq |-> seq]

HeaderCells == 1   \* 25 bytes; of fewer nobody takes notice
Size(f)     == HeaderCells + IF f.type = "message" THEN 1 ELSE 0
Cells(f)    == [i \in 1..Size(f) |-> [frame |-> f, part |-> i]]

\* Link l when frame f is sent one way to an end that may have closed it: then
\* the answer is a reset.
Sent(l, way, f) ==
  CASE l.state = "open"   -> [l EXCEPT ![way] = @ \o Cells(f)]
    [] l.state = "closed" -> [l EXCEPT !.state = "reset", !.up = <<>>]
    [] OTHER              -> l

\* Closed by its client: with data unread that is a reset.
ClosedLink(l) ==
  IF l.state # "open" THEN [l EXCEPT !.down = <<>>]
  ELSE IF l.down = <<>> THEN [l EXCEPT !.state = "closed"]
  ELSE [state |-> "reset", up |-> <<>>, down |-> <<>>]

-----------------------------------------------------------------------------
(* Connection.swift, at both ends, with its delegate. *)

Runs(e, k) == proc[Process(e, k)] = "running"

\* The server's handleNewConnection: registered, then started.
Accept(k) ==
  /\ proc["server"] = "running"
  /\ link[k].state # "new" /\ sw["server"][k].state = "none"
  /\ connections' = connections \cup {k}
  /\ sw' = [sw EXCEPT !["server"][k].state = "connecting"]
  /\ UNCHANGED <<plan, link, calls, proc, written, goVars>>

\* A client connects to a listener that is there.
MayConnect(k) == proc["server"] # "trapped" /\ k \in plan

\* MessagingClient.connect.
ConnectSwift(k) ==
  /\ Runs("client", k) /\ sw["client"][k].state = "none"
  /\ MayConnect(k)
  /\ link' = [link EXCEPT ![k].state = "open"]
  /\ sw' = [sw EXCEPT !["client"][k].state = "connecting"]
  /\ UNCHANGED <<plan, calls, proc, connections, written, goVars>>

\* .ready: the connection receives and beats from now on.
Ready(e, k) ==
  /\ Runs(e, k)
  /\ sw[e][k].state = "connecting"
  /\ sw' = [sw EXCEPT ![e][k].state = "connected"]
  /\ UNCHANGED <<plan, link, calls, proc, connections, written, goVars>>

\* The server's table when the connection at end e is .disconnected.
UnregisterMutant(e, k) == connections   \* mutant: didChangeState is not told

Unregister(e, k) == IF e = "server" THEN connections \ {k} ELSE connections

\* .failed, which the network reports of a link that was reset.
Fail(e, k) ==
  /\ Runs(e, k)
  /\ link[k].state = "reset" /\ sw[e][k].state \in {"connecting", "connected"}
  /\ sw' = [sw EXCEPT ![e][k].state = "disconnected"]
  /\ connections' = Unregister(e, k)
  /\ UNCHANGED <<plan, link, calls, proc, written, goVars>>

\* send(frame:) on link l; it throws unless the state is .connected.
Sends(e, k, l, f) ==
  /\ link' = [link EXCEPT ![k] = Sent(l, Out(e), f)]
  /\ written' = IF e = "server" THEN [written EXCEPT ![k] = Append(@, f)] ELSE written

\* The timer of startHeartbeat.
Beat(e, k) ==
  LET x == sw[e][k]
  IN  /\ Runs(e, k) /\ x.state = "connected"
      /\ link[k].state = "closed" \/ (link[k].state = "open" /\ x.seq < MaxBeats)
      /\ sw' = [sw EXCEPT ![e][k].seq = @ + 1]
      /\ Sends(e, k, link[k], Frame("heartbeat", x.seq + 1))
      /\ UNCHANGED <<plan, calls, proc, connections, goVars>>

\* What has come of a frame that is not whole waits in receiveBuffer: here it
\* stays on the wire.
Receiving(e, k) == Runs(e, k) /\ sw[e][k].state = "connected" /\ link[k].state # "reset"

\* removeFirst moves the start of the Data, which subdata(in: 17..<25) then
\* indexes from 0: the header of a frame after the first is a trap. The process
\* is gone, with its objects and what it was about to send.
ReceiveTraps(e, k) ==
  LET come == link[k][In(e)]
  IN  /\ Receiving(e, k)
      /\ IF sw[e][k].shifted
         THEN Len(come) >= HeaderCells
         ELSE come # <<>> /\ Len(come) >= Size(come[1].frame) + HeaderCells
      /\ proc' = [proc EXCEPT ![Process(e, k)] = "trapped"]
      /\ link' = [j \in Links |->
           IF Process(e, j) = Process(e, k) /\ link[j].state = "open"
           THEN [link[j] EXCEPT !.state = "reset", ![In(e)] = <<>>] ELSE link[j]]
      /\ sw' = [sw EXCEPT ![e] = [j \in Links |->
           IF Process(e, j) = Process(e, k) THEN NoConnection ELSE @[j]]]
      /\ connections' = IF e = "server" THEN {} ELSE connections
      /\ UNCHANGED <<plan, calls, written, goVars>>

\* processBuffer and didReceiveFrame. A heartbeat is echoed with its number. A
\* Go client's message does not decode (its ID is no UUID). A Swift client's is
\* enqueued: enqueue holds the lock that processNext takes, and never returns.
ReceiveFrame(e, k) ==
  LET come == link[k][In(e)]
      f    == come[1].frame
      left == [link[k] EXCEPT ![In(e)] = SubSeq(@, Size(f) + 1, Len(@))]
  IN  /\ Receiving(e, k) /\ ~sw[e][k].shifted
      /\ come # <<>> /\ Len(come) >= Size(f)
      /\ sw' = [sw EXCEPT ![e][k].shifted = TRUE]
      /\ IF f.type = "heartbeat"
         THEN Sends(e, k, left, f) /\ UNCHANGED proc
         ELSE /\ link' = [link EXCEPT ![k] = left]
              /\ proc' = IF e = "server" /\ k \in SwiftLinks
                         THEN [proc EXCEPT !["server"] = "hung"] ELSE proc
              /\ UNCHANGED written
      /\ UNCHANGED <<plan, calls, connections, goVars>>

\* MessagingClient.send.
SendSwift(k) ==
  /\ Runs("client", k) /\ sw["client"][k].state = "connected"
  /\ calls < MaxCalls
  /\ calls' = calls + 1
  /\ Sends("client", k, link[k], Frame("message", 0))
  /\ UNCHANGED <<plan, proc, sw, connections, goVars>>

\* MessagingClient.disconnect.
DisconnectSwift(k) ==
  /\ Runs("client", k) /\ sw["client"][k].state \in {"connecting", "connected"}
  /\ sw' = [sw EXCEPT !["client"][k].state = "disconnected"]
  /\ link' = [link EXCEPT ![k] = ClosedLink(@)]
  /\ UNCHANGED <<plan, calls, proc, connections, written, goVars>>

\* MessagingServer.broadcast, called by any thread, to those that are connected.
Broadcast ==
  /\ proc["server"] # "trapped"
  /\ calls < MaxCalls
  /\ calls' = calls + 1
  /\ LET f  == Frame("message", 0)
         to == {k \in connections : sw["server"][k].state = "connected"}
     IN  /\ link' = [k \in Links |-> IF k \in to THEN Sent(link[k], "down", f) ELSE link[k]]
         /\ written' = [k \in Links |-> IF k \in to THEN Append(written[k], f) ELSE written[k]]
  /\ UNCHANGED <<plan, proc, sw, connections, goVars>>

-----------------------------------------------------------------------------
(* The Go client. *)

\* conn.Write: into a link that is open; elsewhere it fails, unheeded.
GoWrites(k, f) ==
  link' = IF k \in Links /\ link[k].state = "open"
          THEN [link EXCEPT ![k].up = @ \o Cells(f)] ELSE link

\* A write to c.conn under RLock, if the client is connected.
WritesIfConnected(c, f) ==
  IF go[c].connected THEN GoWrites(go[c].conn, f) ELSE UNCHANGED link

LinksOf(c) == {k \in GoLinks : Owner(k) = c}
Reads(k)   == recv[k].pc \notin {"none", "ended"}

\* Both loops are started. What an earlier connection left in receiveBuffer, or
\* a loop of it that has not ended, spoils what is received from now on.
Connect(c) ==
  /\ ~go[c].connected
  /\ MayConnect(<<c, go[c].connects + 1>>)
  /\ LET k == <<c, go[c].connects + 1>>
         alone == \A j \in LinksOf(c) : ~Reads(j)
     IN  /\ go' = [go EXCEPT ![c].connected = TRUE, ![c].conn = k, ![c].connects = @ + 1]
         /\ link' = [link EXCEPT ![k].state = "open"]
         /\ recv' = [recv EXCEPT ![k].pc = "starting"]
         /\ beat' = [beat EXCEPT ![k] = "waiting"]
         /\ clean' = [j \in GoLinks |-> IF Owner(j) # c \/ (alone /\ go[c].buffer = <<>>)
                                        THEN clean[j] ELSE FALSE]
  /\ handled' = [j \in GoLinks |-> IF clean'[j] THEN handled[j] ELSE <<>>]
  /\ UNCHANGED <<plan, calls, swiftVars, sender>>

Disconnect(c) ==
  /\ go[c].connected
  /\ go' = [go EXCEPT ![c].connected = FALSE]
  /\ link' = [link EXCEPT ![go[c].conn] = ClosedLink(@)]
  /\ UNCHANGED <<plan, calls, swiftVars, recv, beat, sender, handled, clean>>

\* What both loops look at before they go on.
GoesOnMutant(c) == go[c].conn # NoLink   \* mutant: the connection is there

GoesOn(c) == go[c].connected

\* receiveLoop takes the c.conn of the moment it starts, without the lock.
StartReceive(k) ==
  /\ recv[k].pc = "starting"
  /\ recv' = [recv EXCEPT ![k] = [pc |-> IF GoesOn(Owner(k)) THEN "reading" ELSE "ended",
                                 on |-> go[Owner(k)].conn]]
  /\ UNCHANGED <<plan, link, calls, swiftVars, go, beat, sender, handled, clean>>

Read(k) ==
  /\ recv[k].pc = "reading"
  /\ LET l == link[recv[k].on]
     IN  /\ l.state \in {"open", "reset"}
         /\ \E n \in 1..Len(l.down) :
              /\ go' = [go EXCEPT ![Owner(k)].buffer = @ \o SubSeq(l.down, 1, n)]
              /\ link' = [link EXCEPT ![recv[k].on] = [l EXCEPT !.down = SubSeq(@, n + 1, Len(@))]]
  /\ recv' = [recv EXCEPT ![k].pc = "processing"]
  /\ UNCHANGED <<plan, calls, swiftVars, beat, sender, handled, clean>>

\* The link is closed or broken. The client still counts as connected.
ReadFails(k) ==
  /\ recv[k].pc = "reading"
  /\ link[recv[k].on].state \in {"closed", "reset"}
  /\ recv' = [recv EXCEPT ![k].pc = "ended"]
  /\ UNCHANGED <<plan, link, calls, swiftVars, go, beat, sender, handled, clean>>

\* How long the frame is that processBuffer finds at the start of buffer b. What
\* is no header gives any length; here the least, or more than is there.
Aligned(b) == b[1].part = 1

Lengths(b) == IF Aligned(b) THEN {Size(b[1].frame)} ELSE {HeaderCells, Len(b) + 1}

\* What is left of it when a frame of length n has been taken.
RestMutant(b, n) == SubSeq(b, HeaderCells + 1, Len(b))   \* mutant: the payload stays

Rest(b, n) == SubSeq(b, n + 1, Len(b))

\* The frame at the start of b goes to handleFrame, which echoes a heartbeat on
\* the connection the client has by then.
TakeFrame(k) ==
  LET c == Owner(k)
      b == go[c].buffer
      f == IF Aligned(b) THEN b[1].frame ELSE Frame("junk", 0)
  IN  /\ recv[k].pc = "processing" /\ Len(b) >= HeaderCells
      /\ \E n \in Lengths(b) :
           /\ Len(b) >= n
           /\ go' = [go EXCEPT ![c].buffer = Rest(b, n)]
      /\ handled' = IF clean[recv[k].on]
                    THEN [handled EXCEPT ![recv[k].on] = Append(@, f)] ELSE handled
      /\ IF f.type = "heartbeat" THEN WritesIfConnected(c, f) ELSE UNCHANGED link
      /\ UNCHANGED <<plan, calls, swiftVars, recv, beat, sender, clean>>

\* No whole frame: back to the head of the loop.
NotEnough(k) ==
  LET b == go[Owner(k)].buffer
  IN  /\ recv[k].pc = "processing"
      /\ Len(b) >= HeaderCells => \E n \in Lengths(b) : Len(b) < n
      /\ recv' = [recv EXCEPT ![k].pc = IF GoesOn(Owner(k)) THEN "reading" ELSE "ended"]
      /\ UNCHANGED <<plan, link, calls, swiftVars, go, beat, sender, handled, clean>>

\* heartbeatLoop at a tick: it draws a number under sequenceLock and writes. It
\* looks at connected before each; what comes in between is as if before the tick.
Tick(k) ==
  /\ beat[k] = "waiting" /\ GoesOn(Owner(k))
  /\ calls < MaxCalls
  /\ calls' = calls + 1
  /\ WritesIfConnected(Owner(k), Frame("heartbeat", go[Owner(k)].seq))
  /\ go' = [go EXCEPT ![Owner(k)].seq = @ + 1]
  /\ UNCHANGED <<plan, swiftVars, recv, beat, sender, handled, clean>>

LastTick(k) ==
  /\ beat[k] = "waiting" /\ ~GoesOn(Owner(k))
  /\ beat' = [beat EXCEPT ![k] = "ended"]
  /\ UNCHANGED <<plan, link, calls, swiftVars, go, recv, sender, handled, clean>>

\* Send takes the connection, under RLock, and a number, under sequenceLock,
Send(c, s) ==
  /\ sender[c][s].pc = "idle" /\ go[c].connected
  /\ calls < MaxCalls
  /\ calls' = calls + 1
  /\ sender' = [sender EXCEPT ![c][s] = [pc |-> "writing", on |-> go[c].conn, seq |-> go[c].seq]]
  /\ go' = [go EXCEPT ![c].seq = @ + 1]
  /\ UNCHANGED <<plan, link, swiftVars, recv, beat, handled, clean>>

\* and writes to the connection it took.
WriteSend(c, s) ==
  /\ sender[c][s].pc = "writing"
  /\ GoWrites(sender[c][s].on, Frame("message", sender[c][s].seq))
  /\ sender' = [sender EXCEPT ![c][s] = [pc |-> "idle", on |-> NoLink, seq |-> 0]]
  /\ UNCHANGED <<plan, calls, swiftVars, go, recv, beat, handled, clean>>

-----------------------------------------------------------------------------
SwiftEnd(e, k) == Ready(e, k) \/ Fail(e, k) \/ Beat(e, k) \/ ReceiveFrame(e, k) \/ ReceiveTraps(e, k)

ReceiveLoop(k) ==
  StartReceive(k) \/ Read(k) \/ ReadFails(k) \/ TakeFrame(k) \/ NotEnough(k)

Next ==
  \/ \E k \in Links : Accept(k) \/ SwiftEnd("server", k)
  \/ \E k \in SwiftLinks :
       ConnectSwift(k) \/ SwiftEnd("client", k) \/ SendSwift(k) \/ DisconnectSwift(k)
  \/ Broadcast
  \/ \E c \in GoClients : Connect(c) \/ Disconnect(c)
  \/ \E k \in GoLinks : ReceiveLoop(k) \/ Tick(k) \/ LastTick(k)
  \/ \E c \in GoClients, s \in Senders : Send(c, s) \/ WriteSend(c, s)

\* The server's queue is served and its timers fire, goroutines run on. Nobody
\* has to connect, to send or to disconnect.
Spec ==
  /\ Init /\ [][Next]_vars
  /\ \A k \in Links : WF_vars(Accept(k) \/ SwiftEnd("server", k))
  /\ \A k \in GoLinks : WF_vars(ReceiveLoop(k)) /\ WF_vars(LastTick(k))

-----------------------------------------------------------------------------
\* Types of both programs' objects; the server's table holds the connections
\* that are connecting or connected (didChangeState).
TypeOK ==
  /\ \A p \in DOMAIN proc : proc[p] \in {"running", "trapped", "hung"}
  /\ \A k \in Links :
       /\ link[k].state \in {"new", "open", "closed", "reset"}
       /\ \A e \in Ends :
            sw[e][k].state \in {"none", "connecting", "connected", "disconnected"}
  /\ connections = {k \in Links : sw["server"][k].state \in {"connecting", "connected"}}
  /\ \A c \in GoClients : go[c].connected => go[c].conn = <<c, go[c].connects>>
  /\ \A k \in GoLinks :
       /\ recv[k].pc \in {"none", "starting", "reading", "processing", "ended"}
       /\ beat[k] \in {"none", "waiting", "ended"}

\* Whatever pieces the stream is read in, the frames a Go client handles are the
\* server's, in order and none made up (Client.processBuffer), on a connection
\* that no earlier one has left a piece of a frame or a reader for.
FramesIntact == \A k \in GoLinks : clean[k] => IsPrefix(handled[k], written[k])

\* Disconnect ends both loops of every connection there has been, unless the
\* client connects again (Client.Disconnect), and the server forgets a client
\* that is gone, by the heartbeat it cannot deliver (startHeartbeat).
LoopsEnded == \A k \in GoLinks :
  go[Owner(k)].connected \/ (~Reads(k) /\ beat[k] \in {"none", "ended"})

Forgotten == \A k \in Links :
  link[k].state \in {"closed", "reset"} /\ proc["server"] = "running" => k \notin connections

DisconnectEnds == []<>(LoopsEnded /\ Forgotten)

\* The server outlives the heartbeats of a client.
ServerStaysUp == proc["server"] # "trapped"
=============================================================================
