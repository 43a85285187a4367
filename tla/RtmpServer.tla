----------------------------- MODULE RtmpServer -----------------------------
(***************************************************************************)
(* How connections come and go: Server.Serve and Server.Close around one    *)
(* listener, clients that Dial, the handshake of both sides over sockets    *)
(* with a bounded buffer, and the message loops that read what follows it.  *)
(*                                                                         *)
(* The parts of the handshake are numbered: 0 for C0 and S0, 1 for C1 and   *)
(* S1 with a random of the sender's own, 2 for C2 and S2 with the echo of   *)
(* the other's; 3 stands for a chunk, of which the message loops read.      *)
(***************************************************************************)
EXTENDS Integers, Sequences

CONSTANTS
  Clients,   \* connections, each dialled once
  Capacity,  \* of a socket's buffer, in parts of a handshake
  Verify,    \* ~SkipHandshakeVerification
  Breakable  \* bound: the connections the network may break

ASSUME ConstantsAssumption ==
  /\ Capacity \in Nat \ {0}
  /\ Verify \in BOOLEAN /\ Breakable \subseteq Clients

Sides == {"client", "server"}
Peer(s) == IF s = "client" THEN "server" ELSE "client"

VARIABLES
  serve,      \* "no", "accept", "check" after a failed Accept, "returned"
  listening,  \* whether the listener is open
  doneCh,     \* whether Server.doneCh is closed
  backlog,    \* connections the kernel holds for Accept
  state,      \* of each side of a connection
  step,       \* the next step of its handshake
  heard,      \* the random of the peer's part 1
  wire,       \* what a side has sent and the other not yet read
  open,       \* whether a side's socket is open
  broken,     \* connections that the network or the kernel has reset
  wrong       \* "bytes" or "echo" when a read found what it must not

serverVars == <<serve, listening, doneCh, backlog>>
connVars == <<state, step, heard, wire, open>>
vars == <<serve, listening, doneCh, backlog, state, step, heard, wire, open, broken, wrong>>

Send(part) == [op |-> "send", part |-> part]
Recv(part) == [op |-> "recv", part |-> part]

ClientScriptMutant ==   \* mutant: c2 is sent twice
  <<Send(0), Send(1), Recv(0), Recv(1), Recv(2), Send(2), Send(2)>>

\* HandshakeWithServer
ClientScript == <<Send(0), Send(1), Recv(0), Recv(1), Recv(2), Send(2)>>

ServerScriptShortMutant ==   \* mutant: c2 is not read
  <<Recv(0), Send(0), Send(1), Recv(1), Send(2)>>

ServerScriptMutant ==   \* mutant: c2 is read before s2 is sent
  <<Recv(0), Send(0), Send(1), Recv(1), Recv(2), Send(2)>>

\* HandshakeWithClient
ServerScript == <<Recv(0), Send(0), Send(1), Recv(1), Send(2), Recv(2)>>

Script(s) == IF s = "client" THEN ClientScript ELSE ServerScript

Parts == [part : {0, 3}] \cup [part : {1, 2}, random : Sides]

\* Types of the server, the sockets and the handshakes; a handshake has six
\* steps (Server, Conn, HandshakeWithClient, HandshakeWithServer).
TypeOK ==
  /\ serve \in {"no", "accept", "check", "returned"}
  /\ listening \in BOOLEAN /\ doneCh \in BOOLEAN
  /\ backlog \subseteq Clients /\ broken \subseteq Clients
  /\ state \in [Sides -> [Clients -> {"none", "handshake", "up", "ended", "failed", "closed"}]]
  /\ step \in [Sides -> [Clients -> 1 .. 7]]
  /\ heard \in [Sides -> [Clients -> Sides \cup {"none"}]]
  /\ wire \in [Sides -> [Clients -> Seq(Parts)]]
  /\ \A s \in Sides, c \in Clients : Len(wire[s][c]) <= Capacity
  /\ open \in [Sides -> [Clients -> BOOLEAN]]
  /\ wrong \in {"no", "bytes", "echo"}

Init ==
  /\ serve = "no" /\ listening = TRUE /\ doneCh = FALSE /\ backlog = {}
  /\ state = [s \in Sides |-> [c \in Clients |-> "none"]]
  /\ step = [s \in Sides |-> [c \in Clients |-> 1]]
  /\ heard = [s \in Sides |-> [c \in Clients |-> "none"]]
  /\ wire = [s \in Sides |-> [c \in Clients |-> <<>>]]
  /\ open = [s \in Sides |-> [c \in Clients |-> FALSE]]
  /\ broken = {} /\ wrong = "no"

-----------------------------------------------------------------------------
(* The server. *)

\* registerListener. (A second Serve finds a listener and fails.)
Serve ==
  /\ serve = "no"
  /\ serve' = "accept"
  /\ UNCHANGED <<listening, doneCh, backlog, connVars, broken, wrong>>

\* A goroutine of its own runs handleConn.
Accept(c) ==
  /\ serve = "accept" /\ listening
  /\ c \in backlog
  /\ backlog' = backlog \ {c}
  /\ state' = [state EXCEPT !["server"][c] = "handshake"]
  /\ open' = [open EXCEPT !["server"][c] = TRUE]
  /\ UNCHANGED <<serve, listening, doneCh, step, heard, wire, broken, wrong>>

\* Accept fails for ever once the listener is closed, and now and then before.
AcceptFails ==
  /\ serve = "accept"
  /\ serve' = "check"
  /\ UNCHANGED <<listening, doneCh, backlog, connVars, broken, wrong>>

\* After Close, Serve returns, and its defer closes the listener.
CheckDoneMutant ==   \* mutant: doneCh is not looked at
  /\ serve = "check"
  /\ serve' = "accept"
  /\ UNCHANGED <<listening, doneCh, backlog, connVars, broken, wrong>>

CheckDone ==
  /\ serve = "check"
  /\ IF doneCh
       THEN /\ serve' = "returned" /\ listening' = FALSE
            /\ broken' = broken \cup backlog /\ backlog' = {}
       ELSE /\ serve' = "accept"
            /\ UNCHANGED <<listening, broken, backlog>>
  /\ UNCHANGED <<doneCh, connVars, wrong>>

\* Close closes doneCh and the listener, if Serve has registered it. The
\* kernel resets what was not accepted; connections that were go on.
Close ==
  /\ ~doneCh
  /\ doneCh' = TRUE
  /\ IF serve = "no"
       THEN UNCHANGED <<listening, broken, backlog>>
       ELSE /\ listening' = FALSE
            /\ broken' = broken \cup backlog /\ backlog' = {}
  /\ UNCHANGED <<serve, connVars, wrong>>

-----------------------------------------------------------------------------
(* Both sides of a connection. *)

\* Dial and newClientConnWithSetup.
Dial(c) ==
  /\ state["client"][c] = "none" /\ listening
  /\ backlog' = backlog \cup {c}
  /\ state' = [state EXCEPT !["client"][c] = "handshake"]
  /\ open' = [open EXCEPT !["client"][c] = TRUE]
  /\ UNCHANGED <<serve, listening, doneCh, step, heard, wire, broken, wrong>>

At(s, c, op) ==
  /\ state[s][c] = "handshake"
  /\ step[s][c] <= Len(Script(s)) /\ Script(s)[step[s][c]].op = op

ContentMutant(s, c, part) ==   \* mutant: the echo is of the own random
  CASE part \in {1, 2} -> [part |-> part, random |-> s]
    [] OTHER           -> [part |-> part]

Content(s, c, part) ==
  IF part = 1 THEN [part |-> 1, random |-> s]
  ELSE IF part = 2 THEN [part |-> 2, random |-> heard[s][c]]
  ELSE [part |-> part]

Put(s, c, x) ==
  /\ Len(wire[s][c]) < Capacity
  /\ wire' = [wire EXCEPT ![s][c] = Append(@, x)]

\* Encode*: the write waits for room in the socket's buffer.
Encode(s, c) ==
  /\ At(s, c, "send")
  /\ Put(s, c, Content(s, c, Script(s)[step[s][c]].part))
  /\ step' = [step EXCEPT ![s][c] = @ + 1]
  /\ UNCHANGED <<serverVars, state, heard, open, broken, wrong>>

\* Decode* reads as many bytes as the part has, whatever they are. The echo
\* of the own random is checked at the end.
Decode(s, c) ==
  /\ At(s, c, "recv") /\ wire[Peer(s)][c] # <<>>
  /\ LET x == Head(wire[Peer(s)][c])
         part == Script(s)[step[s][c]].part
     IN  /\ heard' = IF part = 1 /\ x.part = 1
                       THEN [heard EXCEPT ![s][c] = x.random] ELSE heard
         /\ wrong' = IF x.part # part THEN "bytes"
                     ELSE IF Verify /\ part = 2 /\ x.random # s THEN "echo"
                     ELSE wrong
  /\ wire' = [wire EXCEPT ![Peer(s)][c] = Tail(@)]
  /\ step' = [step EXCEPT ![s][c] = @ + 1]
  /\ UNCHANGED <<serverVars, state, open, broken>>

Complete(s, c) ==
  /\ state[s][c] = "handshake" /\ step[s][c] = Len(Script(s)) + 1
  /\ state' = [state EXCEPT ![s][c] = "up"]
  /\ UNCHANGED <<serverVars, step, heard, wire, open, broken, wrong>>

\* What the users and the Handler write once the connection is set up,
WriteChunk(s, c) ==
  /\ state[s][c] = "up"
  /\ Put(s, c, [part |-> 3])
  /\ UNCHANGED <<serverVars, state, step, heard, open, broken, wrong>>

\* and what the message loop reads.
ReadChunk(s, c) ==
  /\ state[s][c] = "up" /\ wire[Peer(s)][c] # <<>>
  /\ wrong' = IF Head(wire[Peer(s)][c]).part # 3 THEN "bytes" ELSE wrong
  /\ wire' = [wire EXCEPT ![Peer(s)][c] = Tail(@)]
  /\ UNCHANGED <<serverVars, state, step, heard, open, broken>>

Gone(s, c) == c \in broken \/ (state[Peer(s)][c] # "none" /\ ~open[Peer(s)][c])

\* A read or a write fails. The server and a client that is being set up
\* close the connection; the loop of a client only ends.
IOFailsMutant(s, c) ==   \* mutant: the server's message loop tries again
  /\ Gone(s, c)
  /\ state[s][c] = "handshake" \/ (state[s][c] = "up" /\ s = "client")
  /\ state' = [state EXCEPT ![s][c] =
                 IF state[s][c] = "up" /\ s = "client" THEN "ended" ELSE "failed"]
  /\ UNCHANGED <<serverVars, step, heard, wire, open, broken, wrong>>

IOFails(s, c) ==
  /\ Gone(s, c)
  /\ state[s][c] \in {"handshake", "up"}
  /\ state' = [state EXCEPT ![s][c] =
                 IF state[s][c] = "up" /\ s = "client" THEN "ended" ELSE "failed"]
  /\ UNCHANGED <<serverVars, step, heard, wire, open, broken, wrong>>

\* The Handler returns an error for a message.
HandlerFails(c) ==
  /\ state["server"][c] = "up"
  /\ state' = [state EXCEPT !["server"][c] = "failed"]
  /\ UNCHANGED <<serverVars, step, heard, wire, open, broken, wrong>>

\* Conn.Close: OnClose, then the socket. What a side has sent may still be
\* read, or not.
CloseConn(s, c) ==
  /\ \/ state[s][c] = "failed"
     \/ s = "client" /\ state[s][c] \in {"up", "ended"}   \* ClientConn.Close
  /\ state' = [state EXCEPT ![s][c] = "closed"]
  /\ open' = [open EXCEPT ![s][c] = FALSE]
  /\ wire' \in {wire, [wire EXCEPT ![s][c] = <<>>]}
  /\ UNCHANGED <<serverVars, step, heard, broken, wrong>>

Break(c) ==
  /\ c \in Breakable \ broken
  /\ state["client"][c] # "none"
  /\ broken' = broken \cup {c}
  /\ UNCHANGED <<serverVars, connVars, wrong>>

-----------------------------------------------------------------------------

Continue(s, c) ==
  Encode(s, c) \/ Decode(s, c) \/ Complete(s, c) \/ ReadChunk(s, c) \/ IOFails(s, c)

CloseFailed(s, c) == state[s][c] = "failed" /\ CloseConn(s, c)

AcceptLoop == (\E c \in Clients : Accept(c)) \/ AcceptFails \/ CheckDone

Next ==
  \/ Serve \/ Close \/ AcceptLoop
  \/ \E c \in Clients : Dial(c) \/ HandlerFails(c) \/ Break(c)
  \/ \E s \in Sides, c \in Clients : Continue(s, c) \/ WriteChunk(s, c) \/ CloseConn(s, c)

\* Goroutines run on, reads and writes of a connection that is gone fail, and
\* Accept is not kept from a waiting connection by failures for ever.
Fairness ==
  /\ WF_vars(AcceptLoop) /\ \A c \in Clients : SF_vars(Accept(c))
  /\ \A s \in Sides, c \in Clients : WF_vars(Continue(s, c)) /\ WF_vars(CloseFailed(s, c))

Spec == Init /\ [][Next]_vars /\ Fairness

-----------------------------------------------------------------------------
(* Properties *)

\* Every read finds what the other side meant for it: no part of a handshake
\* is taken for another or for a chunk, nor a chunk for a part, although a
\* client writes chunks as soon as it has sent C2, and the echo is always the
\* own random (HandshakeWithClient, HandshakeWithServer, streamer.Read).
InSync == wrong = "no"

\* The server starts its message loop only for a client that has sent its
\* whole handshake, and a client is set up only when the server has its
\* whole handshake but C2 (serverConn.Serve, newClientConnWithSetup).
Agreed ==
  \A c \in Clients :
    /\ state["server"][c] = "up" => step["client"][c] = Len(ClientScript) + 1
    /\ state["client"][c] = "up" => step["server"][c] >= Len(ServerScript)

\* A handshake that began ends on both sides, with any buffer, if Serve is
\* ever called: neither waits for what the other has not sent.
HandshakeEnds ==
  \A s \in Sides, c \in Clients :
    state[s][c] = "handshake" ~> (state[s][c] # "handshake" \/ serve = "no")

\* When Close has closed the listener Serve returns, whatever it was doing
\* (server_test.go:30 expects ErrClosed).
CloseEndsServe == (serve # "no" /\ ~listening) ~> (serve = "returned")

\* A client that is gone has its connection closed by the server, and OnClose
\* called (Server.handleConn).
GoneIsClosed ==
  \A c \in Clients :
    (state["server"][c] # "none" /\ ~open["client"][c]) ~> (state["server"][c] = "closed")

=============================================================================
