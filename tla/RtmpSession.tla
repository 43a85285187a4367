---------------------------- MODULE RtmpSession ----------------------------
(***************************************************************************)
(* An RTMP session: a ClientConn whose users call Connect, CreateStream,    *)
(* DeleteStream and Publish and write media, its message loop, the server's *)
(* message loop and the chunk streams between them. Commands and their      *)
(* replies share chunk stream 3, media have another one: what is written to *)
(* one chunk stream arrives in order, what is written to two in any order.  *)
(*                                                                         *)
(* The control stream (0) exists from the start on both sides; the model    *)
(* has the data streams only. Each stream the server creates has a serial   *)
(* number, which tells apart streams that get the same ID; no code reads it.*)
(***************************************************************************)
EXTENDS Integers, Sequences

CONSTANTS
  Users,              \* goroutines that use the ClientConn
  NoUser,
  MaxMessageStreams,  \* of the server, the control stream included
  MaxCreates,         \* bound: streams the server creates
  MaxMedia,           \* bound: media messages under way
  Rejects,            \* whether the server's Handler returns errors
  Breaks              \* whether the connection may break

ASSUME ConstantsAssumption ==
  /\ NoUser \notin Users
  /\ MaxMessageStreams \in Nat \ {0}
  /\ MaxCreates \in Nat
  /\ MaxMedia \in Nat
  /\ Rejects \in BOOLEAN /\ Breaks \in BOOLEAN

StreamIDs == 1 .. MaxMessageStreams - 1
Serials   == 1 .. MaxCreates

ConnectTransaction == 1   \* Stream.Connect
CreateTransaction  == 2   \* Stream.CreateStream, the same for every call
Transactions == {ConnectTransaction, CreateTransaction}

Requests ==
  [type : {"connect", "createStream"}]
    \cup [type : {"deleteStream", "publish"}, id : StreamIDs]
Media   == [id : StreamIDs, of : Serials]
Success == [name : {"_result"}, id : StreamIDs \cup {0}, serial : Serials \cup {0}]
Error   == [name : {"_error"}]
Replies == Success \cup Error

VARIABLES
  open,       \* the transport has not broken
  connected,  \* "no", then "called", and "yes" when Connect has succeeded
  pc,         \* a user's call: "idle", or what it waits for
  reply,      \* the reply a user's transaction holds
  transactions,  \* of the client's control stream: who waits for the reply
  cstreams,   \* the client's streams: the serial of the stream of an ID, or 0
  published,  \* streams of the client on which publish was sent
  cloop,      \* the client's loop: "read", "ended", or the transaction to delete
  stray,      \* whether a reply without a transaction ended the client's loop
  mixed,      \* whether a DeleteStream ever overlapped a Create- or DeleteStream
  commands,   \* chunk stream 3, client to server
  media,      \* the chunk stream of media
  answers,    \* chunk stream 3, server to client
  sctl,       \* state of the server's control stream
  sstreams,   \* the server's streams
  sstate,     \* and their states
  sloop,      \* the server's loop: "read" or "ended"
  made,       \* streams created so far
  granted,    \* streams whose OnPublish has returned nil
  deleted,    \* streams the client has sent deleteStream for
  handed      \* media the Handler got: the stream's serial and the media's own

clientVars == <<connected, pc, reply, transactions, cstreams, published, cloop, stray,
                mixed, deleted>>
serverVars == <<sctl, sstreams, sstate, sloop, made, granted, handed>>
vars == <<open, connected, pc, reply, transactions, cstreams, published, cloop, stray, mixed,
          commands, media, answers, sctl, sstreams, sstate, sloop, made, granted,
          deleted, handed>>

NoReply == [name |-> "none"]

\* Types of the client's and the server's tables and of what is under way
\* between them (transactions, streams, Stream).
TypeOK ==
  /\ open \in BOOLEAN
  /\ connected \in {"no", "called", "yes"}
  /\ pc \in [Users -> {"idle", "connect", "create", "check", "delete"} \X (StreamIDs \cup {0})]
  /\ reply \in [Users -> Replies \cup {NoReply}]
  /\ transactions \in [Transactions -> Users \cup {NoUser}]
  /\ cstreams \in [StreamIDs -> Serials \cup {0}]
  /\ published \subseteq StreamIDs
  /\ cloop \in {"read", "ended"} \X {0} \cup {"delete"} \X Transactions
  /\ stray \in BOOLEAN /\ mixed \in BOOLEAN
  /\ commands \in Seq(Requests)
  /\ media \in Seq(Media)
  /\ answers \in Seq([to : Transactions, reply : Replies] \cup [status : StreamIDs])
  /\ sctl \in {"NotConnected", "Connected"}
  /\ sstreams \in [StreamIDs -> Serials \cup {0}]
  /\ sstate \in [StreamIDs -> {"Unknown", "Inactive", "Publish"}]
  /\ sloop \in {"read", "ended"}
  /\ made \in 0 .. MaxCreates
  /\ granted \subseteq Serials
  /\ deleted \subseteq Serials
  /\ handed \subseteq Serials \X Serials

Idle    == <<"idle", 0>>
Reading == <<"read", 0>>
Ended   == <<"ended", 0>>

Init ==
  /\ open = TRUE
  /\ connected = "no"
  /\ pc = [u \in Users |-> Idle]
  /\ reply = [u \in Users |-> NoReply]
  /\ transactions = [t \in Transactions |-> NoUser]
  /\ cstreams = [i \in StreamIDs |-> 0]
  /\ published = {}
  /\ cloop = Reading /\ stray = FALSE /\ mixed = FALSE
  /\ commands = <<>> /\ media = <<>> /\ answers = <<>>
  /\ sctl = "NotConnected"
  /\ sstreams = [i \in StreamIDs |-> 0]
  /\ sstate = [i \in StreamIDs |-> "Unknown"]
  /\ sloop = "read"
  /\ made = 0 /\ granted = {} /\ deleted = {} /\ handed = {}

-----------------------------------------------------------------------------
(* The client's users. *)

\* Every call but the writes on a stream starts with controllable.
MayCall(u) ==
  /\ pc[u] = Idle
  /\ cloop # Ended

\* Whether another user is in one of these calls.
Beside(u, calls) == \E other \in Users \ {u} : pc[other][1] \in calls

Return(u) == pc' = [pc EXCEPT ![u] = Idle]

\* transactions.Create refuses an ID that is in the table.
NoneOpenMutant(t) == TRUE   \* mutant: an entry is overwritten

NoneOpen(t) == transactions[t] = NoUser

Request(u, t, call, type) ==
  /\ NoneOpen(t)
  /\ transactions' = [transactions EXCEPT ![t] = u]
  /\ reply' = [reply EXCEPT ![u] = NoReply]
  /\ commands' = Append(commands, [type |-> type])
  /\ pc' = [pc EXCEPT ![u] = <<call, 0>>]

\* Connect, once: the server does not answer a second connect.
Connect(u) ==
  /\ MayCall(u)
  /\ connected = "no"
  /\ connected' = "called"
  /\ Request(u, ConnectTransaction, "connect", "connect")
  /\ UNCHANGED <<open, cstreams, published, cloop, stray, mixed, deleted, media, answers, serverVars>>

ConnectReturns(u) ==
  /\ pc[u] = <<"connect", 0>> /\ reply[u] # NoReply
  /\ connected' = IF reply[u].name = "_result" THEN "yes" ELSE connected
  /\ Return(u)
  /\ UNCHANGED <<open, reply, transactions, cstreams, published, cloop, stray, mixed, deleted>>
  /\ UNCHANGED <<commands, media, answers, serverVars>>

\* CreateStream, after Connect: the server does not answer one before. That
\* it finds its transaction ID in use and returns an error changes nothing.
CreateStream(u) ==
  /\ MayCall(u)
  /\ connected = "yes"
  /\ made < MaxCreates
  /\ Request(u, CreateTransaction, "create", "createStream")
  /\ mixed' = (mixed \/ Beside(u, {"check", "delete"}))
  /\ UNCHANGED <<open, connected, cstreams, published, cloop, stray, deleted>>
  /\ UNCHANGED <<media, answers, serverVars>>

\* It is refused; or the client has not yet let go of a stream of that ID; or
\* it gets a Stream.
CreateStreamReturns(u) ==
  /\ pc[u] = <<"create", 0>> /\ reply[u] # NoReply
  /\ cstreams' = IF reply[u].name = "_result" /\ cstreams[reply[u].id] = 0
                   THEN [cstreams EXCEPT ![reply[u].id] = reply[u].serial]
                   ELSE cstreams
  /\ Return(u)
  /\ UNCHANGED <<open, connected, reply, transactions, published, cloop, stray, mixed, deleted>>
  /\ UNCHANGED <<commands, media, answers, serverVars>>

\* DeleteStream checks that the stream exists, sends the command and then
\* removes the Stream.
DeleteStream(u, i) ==
  /\ MayCall(u)
  /\ connected = "yes"
  /\ cstreams[i] # 0
  /\ pc' = [pc EXCEPT ![u] = <<"check", i>>]
  /\ mixed' = (mixed \/ Beside(u, {"create", "check", "delete"}))
  /\ UNCHANGED <<open, connected, reply, transactions, cstreams, published, cloop, stray, deleted>>
  /\ UNCHANGED <<commands, media, answers, serverVars>>

SendDelete(u, i) ==
  /\ pc[u] = <<"check", i>>
  /\ commands' = Append(commands, [type |-> "deleteStream", id |-> i])
  /\ deleted' = (deleted \cup {cstreams[i]}) \ {0}
  /\ pc' = [pc EXCEPT ![u] = <<"delete", i>>]
  /\ UNCHANGED <<open, connected, reply, transactions, cstreams, published, cloop, stray, mixed>>
  /\ UNCHANGED <<media, answers, serverVars>>

DeleteStreamReturns(u, i) ==
  /\ pc[u] = <<"delete", i>>
  /\ cstreams' = [cstreams EXCEPT ![i] = 0]
  /\ published' = published \ {i}
  /\ Return(u)
  /\ UNCHANGED <<open, connected, reply, transactions, cloop, stray, mixed, deleted>>
  /\ UNCHANGED <<commands, media, answers, serverVars>>

\* Stream.Publish does not wait for an answer (each stream is published once),
Publish(u, i) ==
  /\ MayCall(u)
  /\ cstreams[i] # 0 /\ i \notin published
  /\ commands' = Append(commands, [type |-> "publish", id |-> i])
  /\ published' = published \cup {i}
  /\ UNCHANGED <<open, connected, pc, reply, transactions, cstreams, cloop, stray, mixed, deleted>>
  /\ UNCHANGED <<media, answers, serverVars>>

\* and media follow it on a chunk stream of their own.
WriteMedia(u, i) ==
  /\ MayCall(u)
  /\ cstreams[i] # 0 /\ i \in published
  /\ Len(media) < MaxMedia
  /\ media' = Append(media, [id |-> i, of |-> cstreams[i]])
  /\ UNCHANGED <<open, clientVars, commands, answers, serverVars>>

-----------------------------------------------------------------------------
(* The client's message loop. *)

\* A reply is stored in its transaction, whose user may go on at once, and
\* the transaction is deleted after that.
HandleResult ==
  /\ cloop = Reading /\ answers # <<>>
  /\ "to" \in DOMAIN Head(answers)
  /\ LET a == Head(answers)
         u == transactions[a.to]
     IN  IF u = NoUser
           THEN /\ cloop' = Ended /\ stray' = TRUE
                /\ UNCHANGED reply
           ELSE /\ reply' = [reply EXCEPT ![u] = a.reply]
                /\ cloop' = <<"delete", a.to>>
                /\ UNCHANGED stray
  /\ answers' = Tail(answers)
  /\ UNCHANGED <<open, connected, pc, transactions, cstreams, published, mixed, deleted>>
  /\ UNCHANGED <<commands, media, serverVars>>

DeleteTransaction(t) ==
  /\ cloop = <<"delete", t>>
  /\ transactions' = [transactions EXCEPT ![t] = NoUser]
  /\ cloop' = Reading
  /\ UNCHANGED <<open, connected, pc, reply, cstreams, published, stray, mixed, deleted>>
  /\ UNCHANGED <<commands, media, answers, serverVars>>

\* onStatus is ignored, but not on a stream the client has deleted.
HandleStatus ==
  /\ cloop = Reading /\ answers # <<>>
  /\ "status" \in DOMAIN Head(answers)
  /\ cloop' = IF cstreams[Head(answers).status] = 0 THEN Ended ELSE cloop
  /\ answers' = Tail(answers)
  /\ UNCHANGED <<open, connected, pc, reply, transactions, cstreams, published, stray, mixed, deleted>>
  /\ UNCHANGED <<commands, media, serverVars>>

\* The read fails: the transport broke, or the server closed it and all it
\* had sent is read.
ReadFails ==
  /\ cloop = Reading
  /\ ~open \/ (sloop = "ended" /\ answers = <<>>)
  /\ cloop' = Ended
  /\ UNCHANGED <<open, connected, pc, reply, transactions, cstreams, published, stray, mixed, deleted>>
  /\ UNCHANGED <<commands, media, answers, serverVars>>

-----------------------------------------------------------------------------
(* The server's message loop. *)

Receives(type) ==
  /\ open /\ sloop = "read"
  /\ commands # <<>> /\ Head(commands).type = type
  /\ commands' = Tail(commands)

Result(t, i, n) ==
  [to |-> t, reply |-> [name |-> "_result", id |-> i, serial |-> n]]
Refusal(t) == [to |-> t, reply |-> [name |-> "_error"]]

\* connect: the control stream moves on after the reply; an error of
\* OnConnect is answered and ends the connection.
OnConnect ==
  /\ Receives("connect")
  /\ \/ /\ answers' = Append(answers, Result(ConnectTransaction, 0, 0))
        /\ sctl' = "Connected"
        /\ UNCHANGED sloop
     \/ /\ Rejects
        /\ answers' = Append(answers, Refusal(ConnectTransaction))
        /\ sloop' = "ended"
        /\ UNCHANGED sctl
  /\ UNCHANGED <<open, clientVars, media, sstreams, sstate, made, granted, handed>>

\* CreateIfAvailable takes the lowest free ID.
AvailableMutant ==   \* mutant: the loop runs to i <= MaxMessageStreams
  {i \in StreamIDs : sstreams[i] = 0} \cup {MaxMessageStreams}

Available == {i \in StreamIDs : sstreams[i] = 0}

\* createStream: an Inactive stream is created before its ID is sent;
CreateIfAvailableMutant ==   \* mutant: the handler of the ID's last stream is kept
  LET i == CHOOSE i \in Available : \A j \in Available : i <= j
  IN  /\ sstreams' = [sstreams EXCEPT ![i] = made + 1]
      /\ sstate' = [sstate EXCEPT ![i] = IF @ = "Unknown" THEN "Inactive" ELSE @]
      /\ answers' = Append(answers, Result(CreateTransaction, i, made + 1))

CreateIfAvailable ==
  LET i == CHOOSE i \in Available : \A j \in Available : i <= j
  IN  /\ sstreams' = [sstreams EXCEPT ![i] = made + 1]
      /\ sstate' = [sstate EXCEPT ![i] = "Inactive"]
      /\ answers' = Append(answers, Result(CreateTransaction, i, made + 1))

OnCreateStream ==
  /\ Receives("createStream")
  /\ sctl = "Connected"
  /\ Available # {}
  /\ CreateIfAvailable
  /\ made' = made + 1
  /\ UNCHANGED <<open, clientVars, media, sctl, sloop, granted, handed>>

RefusedMutant == answers   \* mutant: the error result is not sent

Refused == Append(answers, Refusal(CreateTransaction))

\* at the limit an error is sent and the connection goes on, after an error
\* of OnCreateStream it ends.
OnCreateStreamRefused ==
  /\ Receives("createStream")
  /\ sctl = "Connected"
  /\ \/ Available = {} /\ UNCHANGED sloop
     \/ Rejects /\ sloop' = "ended"
  /\ answers' = Refused
  /\ UNCHANGED <<open, clientVars, media, sctl, sstreams, sstate, made, granted, handed>>

\* A reply that cannot be sent takes the stream back and ends the
\* connection; the deferred error may still get through.
CreateStreamReplyFails ==
  /\ Breaks
  /\ Receives("createStream")
  /\ sctl = "Connected"
  /\ Available # {}
  /\ sloop' = "ended"
  /\ answers' \in {answers, Refused}
  /\ UNCHANGED <<open, clientVars, media, sctl, sstreams, sstate, made, granted, handed>>

\* deleteStream is not answered; of a stream that does not exist it ends the
\* connection, as does an error of OnDeleteStream.
RemainingMutant(i) == sstreams   \* mutant: the stream stays in the table

Remaining(i) == [sstreams EXCEPT ![i] = 0]

OnDeleteStream ==
  /\ Receives("deleteStream")
  /\ LET i == Head(commands).id
     IN  \/ /\ sstreams' = Remaining(i)
            /\ sloop' = IF sstreams[i] = 0 THEN "ended" ELSE sloop
         \/ Rejects /\ sloop' = "ended" /\ UNCHANGED sstreams
  /\ UNCHANGED <<open, clientVars, media, answers, sctl, sstate, made, granted, handed>>

\* publish on a stream that does not exist ends the connection; an error of
\* OnPublish is notified and ends it too.
OnPublish ==
  /\ Receives("publish")
  /\ LET i == Head(commands).id
         status == Append(answers, [status |-> i])
     IN  \/ /\ sstreams[i] # 0 /\ sstate[i] = "Inactive"
            /\ granted' = granted \cup {sstreams[i]}
            /\ answers' = status
            /\ sstate' = [sstate EXCEPT ![i] = "Publish"]
            /\ UNCHANGED sloop
         \/ /\ sstreams[i] # 0 /\ sstate[i] = "Inactive"
            /\ Rejects
            /\ answers' = status
            /\ sloop' = "ended"
            /\ UNCHANGED <<granted, sstate>>
         \/ /\ sstreams[i] = 0
            /\ sloop' = "ended"
            /\ UNCHANGED <<granted, sstate, answers>>
  /\ UNCHANGED <<open, clientVars, media, sctl, sstreams, made, handed>>

\* Media go to the Handler while their stream is published, to OnUnknownMessage
\* before, and end the connection when there is no stream or on an error.
OnMedia ==
  /\ open /\ sloop = "read" /\ media # <<>>
  /\ LET m == Head(media)
     IN  /\ handed' = IF sstreams[m.id] # 0 /\ sstate[m.id] = "Publish"
                        THEN handed \cup {<<sstreams[m.id], m.of>>}
                        ELSE handed
         /\ \/ sloop' = IF sstreams[m.id] = 0 THEN "ended" ELSE sloop
            \/ Rejects /\ sloop' = "ended"
  /\ media' = Tail(media)
  /\ UNCHANGED <<open, clientVars, commands, answers, sctl, sstreams, sstate, made, granted>>

\* The server's read fails.
ServerReadFails ==
  /\ ~open /\ sloop = "read"
  /\ sloop' = "ended"
  /\ UNCHANGED <<open, clientVars, commands, media, answers, sctl, sstreams, sstate, made, granted, handed>>

Break ==
  /\ Breaks /\ open
  /\ open' = FALSE
  /\ UNCHANGED <<clientVars, commands, media, answers, serverVars>>

-----------------------------------------------------------------------------

ClientLoop == HandleResult \/ HandleStatus \/ ReadFails
                \/ \E t \in Transactions : DeleteTransaction(t)
ServerLoop == OnConnect \/ OnCreateStream \/ OnCreateStreamRefused
                \/ CreateStreamReplyFails \/ OnDeleteStream \/ OnPublish
                \/ ServerReadFails
UserReturns(u) == ConnectReturns(u) \/ CreateStreamReturns(u)
                    \/ \E i \in StreamIDs : SendDelete(u, i) \/ DeleteStreamReturns(u, i)

Next ==
  \/ \E u \in Users :
       \/ Connect(u) \/ CreateStream(u)
       \/ \E i \in StreamIDs : DeleteStream(u, i) \/ Publish(u, i) \/ WriteMedia(u, i)
       \/ UserReturns(u)
  \/ ClientLoop \/ ServerLoop \/ OnMedia \/ Break

\* The loops and the woken users are scheduled; a chunk stream is not
\* starved by another.
Fairness ==
  /\ WF_vars(ClientLoop) /\ WF_vars(ServerLoop) /\ WF_vars(OnMedia)
  /\ \A u \in Users : WF_vars(UserReturns(u))

Spec == Init /\ [][Next]_vars /\ Fairness

-----------------------------------------------------------------------------
(* Properties *)

Alive == cloop # Ended /\ sloop = "read"

DeleteSent(i) == \E k \in DOMAIN commands : commands[k] = [type |-> "deleteStream", id |-> i]

\* The reply that is on its way to the client's table, for stream i.
Coming(i, n) ==
  \/ \E k \in DOMAIN answers :
       answers[k] = Result(CreateTransaction, i, n)
  \/ \E u \in Users :
       /\ pc[u] = <<"create", 0>>
       /\ reply[u] = [name |-> "_result", id |-> i, serial |-> n]

\* The two tables agree up to what is under way: a stream of the server is
\* the client's stream of that ID, or is about to be told to it, or about to
\* be deleted; and a stream of the client exists at the server unless it is
\* being deleted. Neither side leaks a stream or takes one for another, as
\* long as no DeleteStream overlaps another user's CreateStream or
\* DeleteStream (client_conn.go:103, 122, 130,
\* server_control_connected_handler.go:73, 103).
TablesAgree ==
  Alive /\ ~mixed => \A i \in StreamIDs :
    /\ sstreams[i] # 0 => \/ cstreams[i] = sstreams[i]
                          \/ Coming(i, sstreams[i])
                          \/ DeleteSent(i)
    /\ cstreams[i] # 0 => \/ cstreams[i] = sstreams[i]
                          \/ cstreams[i] \in deleted

\* Every reply finds the transaction it answers: the client's loop never ends
\* with "Got response to the unexpected transaction" (stream_handler.go:177).
RepliesExpected == ~stray

\* The Handler gets media only of a stream whose publish it has accepted since
\* the stream was created, and, unless the client had deleted the stream they
\* were written to (or calls overlapped), no other stream's
\* (server_data_publish_handler.go:32, 35).
MediaOfPublication ==
  \A m \in handed : m[1] \in granted /\ (m[1] = m[2] \/ m[2] \in deleted \/ mixed)

\* While both loops run every call returns: the reply is sent, finds its
\* transaction and wakes the caller (stream.go:90, 171).
CallsReturn ==
  \A u \in Users : pc[u] # Idle ~> (pc[u] = Idle \/ ~Alive)

\* When no call is under way the transaction of CreateStream is not in the
\* table, so that the next call can have its ID. This does not hold: the caller
\* is woken before its transaction is deleted (stream_handler.go:184, 187). No
\* run checks it.
NoCreateLeftOpen ==
  (\A u \in Users : pc[u] = Idle) => transactions[CreateTransaction] = NoUser

=============================================================================
