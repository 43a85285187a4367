------------------------- MODULE RtmpSessionProofs -------------------------
(* Proofs about RtmpSession, for any number of users, streams and media, with *)
(* or without a connection that breaks and a Handler that rejects.            *)
EXTENDS RtmpSession, SequenceTheorems, WellFoundedInduction, TLAPS

\* The parts of the types that steps change together.
UserTypes ==
  /\ connected \in {"no", "called", "yes"}
  /\ pc \in [Users -> {"idle", "connect", "create", "check", "delete"} \X (StreamIDs \cup {0})]
  /\ reply \in [Users -> Replies \cup {NoReply}]
  /\ transactions \in [Transactions -> Users \cup {NoUser}]
  /\ cstreams \in [StreamIDs -> Serials \cup {0}]
  /\ published \subseteq StreamIDs
  /\ cloop \in {"read", "ended"} \X {0} \cup {"delete"} \X Transactions
  /\ stray \in BOOLEAN /\ mixed \in BOOLEAN
  /\ deleted \subseteq Serials

AnswerSet == [to : Transactions, reply : Replies] \cup [status : StreamIDs]

WireTypes ==
  commands \in Seq(Requests) /\ media \in Seq(Media) /\ answers \in Seq(AnswerSet)

ServerTypes ==
  /\ sctl \in {"NotConnected", "Connected"}
  /\ sstreams \in [StreamIDs -> Serials \cup {0}]
  /\ sstate \in [StreamIDs -> {"Unknown", "Inactive", "Publish"}]
  /\ sloop \in {"read", "ended"}
  /\ made \in 0 .. MaxCreates
  /\ granted \subseteq Serials
  /\ handed \subseteq Serials \X Serials

Types == open \in BOOLEAN /\ UserTypes /\ WireTypes /\ ServerTypes

\* What a transaction's caller waits in, and the request that opens it.
CallOf(t) == IF t = ConnectTransaction THEN "connect" ELSE "create"
TypeOf(t) == IF t = ConnectTransaction THEN "connect" ELSE "createStream"

\* The request at place k of the commands opens t; the answer at k ends it.
Asks(k, t)    == commands[k].type = TypeOf(t)
Answers(k, t) == "to" \in DOMAIN answers[k] /\ answers[k].to = t

Asked(t)    == \E k \in 1 .. Len(commands) : Asks(k, t)
Answered(t) == \E k \in 1 .. Len(answers) : Answers(k, t)

Waits(t) ==
  /\ transactions[t] \in Users
  /\ pc[transactions[t]] = <<CallOf(t), 0>>
  /\ reply[transactions[t]] = NoReply

\* Of a transaction there is one request or one answer under way, or none, and
\* while there is its caller waits.
OneOpen ==
  \A t \in Transactions :
    /\ \A j, k \in 1 .. Len(commands) : Asks(j, t) /\ Asks(k, t) => j = k
    /\ \A j, k \in 1 .. Len(answers) : Answers(j, t) /\ Answers(k, t) => j = k
    /\ ~(Asked(t) /\ Answered(t))
    /\ Asked(t) \/ Answered(t) => Waits(t) /\ cloop # <<"delete", t>>
    /\ cloop = <<"delete", t>> => transactions[t] \in Users

\* A reply to CreateStream has an ID and a serial.
ForStream(rep) == rep.name = "_result" => rep.id \in StreamIDs /\ rep.serial \in Serials

RepliesFit ==
  /\ \A k \in 1 .. Len(answers) :
       Answers(k, CreateTransaction) => ForStream(answers[k].reply)
  /\ \A u \in Users :
       pc[u] = <<"create", 0>> /\ reply[u] # NoReply => ForStream(reply[u])

\* The bound on streams is kept by what is under way.
Bounded ==
  /\ Asked(CreateTransaction) => made < MaxCreates
  /\ \A i \in StreamIDs : sstreams[i] <= made

\* No two of the server's streams have one serial; what is published is granted.
Serialised ==
  /\ \A i, j \in StreamIDs : sstreams[i] = sstreams[j] /\ sstreams[i] # 0 => i = j
  /\ \A i \in StreamIDs : sstreams[i] # 0 /\ sstate[i] = "Publish" => sstreams[i] \in granted

Deletes(k, i) == commands[k].type = "deleteStream" /\ commands[k].id = i

\* No reply to a CreateStream is ahead of the deletions.
Settled == \A k \in 1 .. Len(commands) : commands[k].type # "deleteStream"

\* What holds while no DeleteStream has overlapped another call:
Apart ==  \* calls do not overlap, nor do their requests,
  /\ \A u, v \in Users : u # v /\ pc[u][1] \in {"check", "delete"} =>
       pc[v][1] \notin {"create", "check", "delete"}
  /\ \A j, k \in 1 .. Len(commands) :
       Asks(j, CreateTransaction) /\ commands[k].type = "deleteStream" => k < j
  /\ Answered(CreateTransaction) => Settled
  /\ \A u \in Users : pc[u] = <<"create", 0>> /\ reply[u] # NoReply => Settled

Told ==  \* a stream that is about to be told to the client is new to it,
  \A i \in StreamIDs, n \in Serials :
    Coming(i, n) => sstreams[i] = n /\ cstreams[i] = 0 /\ n \notin deleted

\* The reply is in the answers, or its caller has it.
Sent(i, n) == \E k \in DOMAIN answers : answers[k] = Result(CreateTransaction, i, n)

Got(u, i, n) ==
  pc[u] = <<"create", 0>> /\ reply[u] = [name |-> "_result", id |-> i, serial |-> n]

Once ==  \* and is told once,
  \A i \in StreamIDs, n \in Serials, u, w \in Users :
    Got(u, i, n) => ~Sent(i, n) /\ (Got(w, i, n) => u = w)

Known ==  \* the client's streams exist, or are being deleted,
  \A i \in StreamIDs :
    /\ cstreams[i] # 0 => cstreams[i] = sstreams[i] \/ cstreams[i] \in deleted
    /\ cstreams[i] \in deleted => \E u \in Users : pc[u] = <<"delete", i>>
    /\ \A u \in Users : pc[u] = <<"check", i>> => cstreams[i] # 0

Doomed ==  \* a stream whose deletion is under way has been given up,
  \A i \in StreamIDs :
    /\ \A k \in 1 .. Len(commands) : Deletes(k, i) => sstreams[i] \in deleted \cup {0}
    /\ \A u \in Users :
         pc[u] = <<"delete", i>> /\ sloop = "read" /\ sstreams[i] # 0 => DeleteSent(i)

Held ==  \* the server's streams are the client's, or will be, or are doomed,
  sloop = "read" => \A i \in StreamIDs :
    sstreams[i] # 0 => \/ cstreams[i] = sstreams[i]
                       \/ Coming(i, sstreams[i])
                       \/ DeleteSent(i)

Addressed ==  \* and media are for the stream they were written to, or a doomed one.
  \A k \in 1 .. Len(media) :
    media[k].of \notin deleted => sstreams[media[k].id] = media[k].of

Counted ==  \* The client knows no serial that is still to come.
  (\A i \in StreamIDs : cstreams[i] <= made) /\ (\A n \in deleted : n <= made)

\* While no DeleteStream has overlapped another call.
Unmixed == Apart /\ Told /\ Once /\ Known /\ Doomed /\ Held /\ Addressed

\* The invariant.
IInv ==
  /\ Types /\ OneOpen /\ RepliesFit /\ Bounded /\ Serialised
  /\ RepliesExpected /\ MediaOfPublication
  /\ ~mixed => Unmixed /\ Counted

-----------------------------------------------------------------------------
(* What is under way. *)

\* An answer is a reply with a transaction or a status with a stream.
LEMMA AnswerKinds ==
  ASSUME NEW a \in AnswerSet
  PROVE  /\ "to" \in DOMAIN a => /\ a.to \in Transactions /\ a.reply \in Replies
                                 /\ a = [to |-> a.to, reply |-> a.reply]
         /\ "status" \in DOMAIN a => a.status \in StreamIDs
         /\ "to" \in DOMAIN a \/ "status" \in DOMAIN a
BY DEF AnswerSet

\* A reply says no more than its name, unless it is a success.
LEMMA ReplyKinds ==
  ASSUME NEW rep \in Replies
  PROVE  /\ rep # NoReply
         /\ rep.name \in {"_result", "_error"}
         /\ rep.name = "_result" => rep.id \in StreamIDs \cup {0} /\ rep.serial \in Serials \cup {0}
                                    /\ rep = [name |-> "_result", id |-> rep.id, serial |-> rep.serial]
BY DEF Replies, Success, Error, NoReply

\* What the server's replies look like,
LEMMA ResultKind ==
  ASSUME NEW t \in Transactions, NEW i \in StreamIDs \cup {0}, NEW n \in Serials \cup {0}
  PROVE  /\ Result(t, i, n) \in AnswerSet /\ "to" \in DOMAIN Result(t, i, n)
         /\ Result(t, i, n).to = t /\ Result(t, i, n).reply = [name |-> "_result", id |-> i, serial |-> n]
         /\ Refusal(t) \in AnswerSet /\ "to" \in DOMAIN Refusal(t) /\ Refusal(t).to = t
         /\ Refusal(t).reply.name = "_error"
BY DEF Result, Refusal, AnswerSet, Replies, Success, Error

\* and a status, which answers no transaction.
LEMMA StatusKind ==
  ASSUME NEW i \in StreamIDs
  PROVE  [status |-> i] \in AnswerSet /\ "to" \notin DOMAIN [status |-> i]
BY DEF AnswerSet

\* A request is of one of four types, two of them with a stream.
LEMMA RequestKinds ==
  ASSUME NEW m \in Requests
  PROVE  /\ m.type \in {"connect", "createStream", "deleteStream", "publish"}
         /\ m.type \in {"deleteStream", "publish"} => m.id \in StreamIDs /\ m = [type |-> m.type, id |-> m.id]
BY DEF Requests

-----------------------------------------------------------------------------
(* Sequences and numbers. *)

\* What a sequence has become when something was appended to it.
LEMMA Appended ==
  ASSUME NEW S, NEW s \in Seq(S), NEW e \in S, NEW t, t = Append(s, e)
  PROVE  /\ t \in Seq(S) /\ Len(s) \in Nat /\ Len(t) = Len(s) + 1
         /\ DOMAIN s = 1 .. Len(s) /\ DOMAIN t = 1 .. Len(t)
         /\ \A k \in 1 .. Len(s) : s[k] \in S /\ t[k] = s[k]
         /\ t[Len(s) + 1] = e
BY AppendProperties, LenProperties

\* And when its head was taken.
LEMMA Taken ==
  ASSUME NEW S, NEW s \in Seq(S), s # <<>>, NEW t, t = Tail(s)
  PROVE  /\ t \in Seq(S) /\ Len(s) \in Nat \ {0} /\ Len(t) = Len(s) - 1
         /\ DOMAIN s = 1 .. Len(s) /\ DOMAIN t = 1 .. Len(t)
         /\ \A k \in 1 .. Len(s) : s[k] \in S
         /\ \A k \in 1 .. Len(t) : t[k] = s[k + 1]
         /\ Head(s) = s[1]
BY HeadTailProperties, LenProperties

\* IDs and serials are positive; the two transactions differ.
LEMMA Numbers ==
  /\ StreamIDs \subseteq Nat \ {0} /\ Serials \subseteq Nat \ {0}
  /\ 0 \notin StreamIDs /\ 0 \notin Serials
  /\ MaxCreates \in Nat /\ NoUser \notin Users
  /\ ConnectTransaction \in Transactions /\ CreateTransaction \in Transactions
  /\ ConnectTransaction # CreateTransaction
  /\ \A t \in Transactions : t = ConnectTransaction \/ t = CreateTransaction
BY ConstantsAssumption DEF StreamIDs, Serials, Transactions, ConnectTransaction, CreateTransaction

\* They are TypeOK.
LEMMA TypeParts == Types => TypeOK
BY DEF TypeOK, Types, UserTypes, WireTypes, ServerTypes, AnswerSet

-----------------------------------------------------------------------------
(* One transaction of a kind. *)

\* A user who does not wait for a reply, or has it, moves; at most it sends
\* something that no transaction is about.
LEMMA OpenMoved ==
  ASSUME Types, OneOpen, RepliesFit, NEW u \in Users, NEW p,
         pc' = [pc EXCEPT ![u] = p],
         pc[u] = Idle \/ pc[u][1] \in {"check", "delete"} \/ reply[u] # NoReply,
         p[1] \notin {"connect", "create"},
         UNCHANGED <<reply, transactions, cloop, answers, commands>>
  PROVE  OneOpen' /\ RepliesFit'
<1>1. \A t \in Transactions : Waits(t) => Waits(t)'
  BY DEF Waits, Types, UserTypes, Idle, CallOf
<1>2. OneOpen'
  BY <1>1 DEF OneOpen, Asked, Answered, Asks, Answers
<1>3. RepliesFit'
  BY DEF RepliesFit, ForStream, Answers, Types, UserTypes
<1> QED BY <1>2, <1>3

\* The same for what is sent.
LEMMA OpenSent ==
  ASSUME Types, OneOpen, NEW m \in Requests, m.type \in {"deleteStream", "publish"},
         commands' = Append(commands, m),
         UNCHANGED <<reply, transactions, cloop, answers>>,
         \A t \in Transactions : Waits(t) => Waits(t)'
  PROVE  OneOpen'
<1>1. /\ Len(commands) \in Nat /\ Len(commands') = Len(commands) + 1
      /\ \A k \in 1 .. Len(commands) : commands'[k] = commands[k]
      /\ commands'[Len(commands) + 1] = m
  BY Appended DEF Types, WireTypes
<1>2. \A t \in Transactions : \A k \in 1 .. Len(commands') :
        Asks(k, t)' => k \in 1 .. Len(commands) /\ Asks(k, t)
  BY <1>1 DEF Asks, TypeOf
<1>3. \A t \in Transactions : \A k \in 1 .. Len(answers) : Answers(k, t)' <=> Answers(k, t)
  BY DEF Answers
<1>4. \A t \in Transactions : (Asked(t)' => Asked(t)) /\ (Answered(t)' => Answered(t))
  BY <1>2, <1>3 DEF Asked, Answered
<1> QED BY <1>2, <1>3, <1>4 DEF OneOpen

\* A user opens a transaction that nobody has open.
LEMMA OpenRequested ==
  ASSUME Types, OneOpen, RepliesFit, NEW u \in Users, NEW t \in Transactions,
         pc[u] = Idle, Request(u, t, CallOf(t), TypeOf(t)), UNCHANGED <<cloop, answers>>
  PROVE  OneOpen' /\ RepliesFit'
<1> USE Numbers
<1>1. /\ transactions[t] = NoUser /\ ~Asked(t) /\ ~Answered(t)
      /\ transactions' = [transactions EXCEPT ![t] = u]
      /\ reply' = [reply EXCEPT ![u] = NoReply]
      /\ pc' = [pc EXCEPT ![u] = <<CallOf(t), 0>>]
      /\ commands' = Append(commands, [type |-> TypeOf(t)])
  BY DEF Request, NoneOpen, OneOpen, Waits
<1>2. [type |-> TypeOf(t)] \in Requests
  BY DEF TypeOf, Requests
<1>3. /\ Len(commands) \in Nat /\ Len(commands') = Len(commands) + 1
      /\ \A k \in 1 .. Len(commands) : commands'[k] = commands[k]
      /\ commands'[Len(commands) + 1] = [type |-> TypeOf(t)]
  BY <1>1, <1>2, Appended DEF Types, WireTypes
<1>4. \A s \in Transactions : TypeOf(s) = TypeOf(t) => s = t
  BY DEF TypeOf
<1>5. \A s \in Transactions : \A k \in 1 .. Len(answers) : Answers(k, s)' <=> Answers(k, s)
  BY DEF Answers
<1>6. \A s \in Transactions : Answered(s)' => Answered(s)
  BY <1>5 DEF Answered
<1>7. ASSUME NEW s \in Transactions, s # t
      PROVE  /\ \A k \in 1 .. Len(commands') : Asks(k, s)' => k \in 1 .. Len(commands) /\ Asks(k, s)
             /\ Waits(s) => Waits(s)'
  <2>1. \A k \in 1 .. Len(commands') : Asks(k, s)' => k \in 1 .. Len(commands) /\ Asks(k, s)
    BY <1>3, <1>4, <1>7 DEF Asks
  <2>2. ASSUME Waits(s) PROVE Waits(s)'
    <3>1. transactions[s] # u
      BY <2>2 DEF Waits, Idle, CallOf
    <3> QED BY <3>1, <2>2, <1>1, <1>7 DEF Waits, Types, UserTypes
  <2> QED BY <2>1, <2>2
<1>8. /\ \A k \in 1 .. Len(commands') : Asks(k, t)' => k = Len(commands) + 1
      /\ Waits(t)'
  <2>1. \A k \in 1 .. Len(commands') : Asks(k, t)' => k = Len(commands) + 1
    BY <1>1, <1>3 DEF Asks, Asked
  <2>2. Waits(t)'
    BY <1>1 DEF Waits, Types, UserTypes
  <2> QED BY <2>1, <2>2
<1>9. cloop # <<"delete", t>> /\ transactions'[t] = u
  BY <1>1 DEF OneOpen, Types, UserTypes
<1>10. OneOpen'
  <2> SUFFICES ASSUME NEW s \in Transactions
               PROVE  /\ \A j, k \in 1 .. Len(commands') : Asks(j, s)' /\ Asks(k, s)' => j = k
                      /\ \A j, k \in 1 .. Len(answers') : Answers(j, s)' /\ Answers(k, s)' => j = k
                      /\ ~(Asked(s)' /\ Answered(s)')
                      /\ Asked(s)' \/ Answered(s)' => Waits(s)' /\ cloop' # <<"delete", s>>
                      /\ cloop' = <<"delete", s>> => transactions'[s] \in Users
    BY DEF OneOpen
  <2>1. CASE s = t
    BY <2>1, <1>1, <1>5, <1>6, <1>8, <1>9 DEF OneOpen
  <2>2. CASE s # t
    <3>1. Asked(s)' => Asked(s)
      BY <2>2, <1>7 DEF Asked
    <3>2. transactions'[s] = transactions[s]
      BY <2>2, <1>1 DEF Types, UserTypes
    <3> QED BY <2>2, <3>1, <3>2, <1>5, <1>6, <1>7 DEF OneOpen
  <2> QED BY <2>1, <2>2
<1>11. RepliesFit'
  BY <1>1 DEF RepliesFit, ForStream, Answers, Types, UserTypes
<1> QED BY <1>10, <1>11

\* The server takes a command that asks for nothing it has to answer, or does
\* not answer it.
LEMMA OpenTaken ==
  ASSUME Types, OneOpen, commands # <<>>, commands' = Tail(commands),
         UNCHANGED <<pc, reply, transactions, cloop, answers>>
  PROVE  OneOpen'
<1>1. /\ Len(commands) \in Nat \ {0} /\ Len(commands') = Len(commands) - 1
      /\ \A k \in 1 .. Len(commands') : commands'[k] = commands[k + 1]
  BY Taken DEF Types, WireTypes
<1>2. \A t \in Transactions : \A k \in 1 .. Len(commands') :
        Asks(k, t)' => k + 1 \in 1 .. Len(commands) /\ Asks(k + 1, t)
  BY <1>1 DEF Asks
<1>3. \A t \in Transactions : /\ \A k \in 1 .. Len(answers) : Answers(k, t)' <=> Answers(k, t)
                              /\ Waits(t)' <=> Waits(t)
  BY DEF Answers, Waits
<1>4. \A t \in Transactions : (Asked(t)' => Asked(t)) /\ (Answered(t)' => Answered(t))
  BY <1>2, <1>3 DEF Asked, Answered
<1>5. ASSUME NEW t \in Transactions, NEW j \in 1 .. Len(commands'), NEW k \in 1 .. Len(commands'),
             Asks(j, t)', Asks(k, t)'
      PROVE  j = k
  <2>1. j + 1 = k + 1
    BY <1>2, <1>5 DEF OneOpen
  <2> QED BY <2>1
<1> QED BY <1>3, <1>4, <1>5 DEF OneOpen

\* The server takes a command and sends something no transaction is about.
LEMMA OpenNotified ==
  ASSUME Types, OneOpen, commands # <<>>, commands' = Tail(commands),
         NEW a \in AnswerSet, "to" \notin DOMAIN a, answers' = Append(answers, a),
         UNCHANGED <<pc, reply, transactions, cloop>>
  PROVE  OneOpen'
<1>1. /\ Len(commands) \in Nat \ {0} /\ Len(commands') = Len(commands) - 1
      /\ \A k \in 1 .. Len(commands') : commands'[k] = commands[k + 1]
  BY Taken DEF Types, WireTypes
<1>2. /\ Len(answers) \in Nat /\ Len(answers') = Len(answers) + 1
      /\ \A k \in 1 .. Len(answers) : answers'[k] = answers[k]
      /\ answers'[Len(answers) + 1] = a
  BY Appended DEF Types, WireTypes
<1>3. \A t \in Transactions : \A k \in 1 .. Len(commands') :
        Asks(k, t)' => k + 1 \in 1 .. Len(commands) /\ Asks(k + 1, t)
  BY <1>1 DEF Asks
<1>4. \A t \in Transactions : \A k \in 1 .. Len(answers') :
        Answers(k, t)' => k \in 1 .. Len(answers) /\ Answers(k, t)
  BY <1>2 DEF Answers
<1>5. \A t \in Transactions : /\ Asked(t)' => Asked(t)
                              /\ Answered(t)' => Answered(t)
                              /\ Waits(t)' <=> Waits(t)
  BY <1>3, <1>4 DEF Asked, Answered, Waits
<1>6. ASSUME NEW t \in Transactions, NEW j \in 1 .. Len(commands'), NEW k \in 1 .. Len(commands'),
             Asks(j, t)', Asks(k, t)'
      PROVE  j = k
  <2>1. j + 1 = k + 1
    BY <1>3, <1>6 DEF OneOpen
  <2> QED BY <2>1
<1> QED BY <1>4, <1>5, <1>6 DEF OneOpen

\* The server takes the request of a transaction and answers it.
LEMMA OpenAnswered ==
  ASSUME Types, OneOpen, commands # <<>>, commands' = Tail(commands),
         NEW t \in Transactions, Head(commands).type = TypeOf(t),
         NEW a \in AnswerSet, "to" \in DOMAIN a, a.to = t, answers' = Append(answers, a),
         UNCHANGED <<pc, reply, transactions, cloop>>
  PROVE  OneOpen'
<1> USE Numbers
<1>1. /\ Len(commands) \in Nat \ {0} /\ Len(commands') = Len(commands) - 1
      /\ \A k \in 1 .. Len(commands') : commands'[k] = commands[k + 1]
      /\ Asks(1, t)
  BY Taken DEF Types, WireTypes, Asks
<1>2. /\ Len(answers) \in Nat /\ Len(answers') = Len(answers) + 1
      /\ \A k \in 1 .. Len(answers) : answers'[k] = answers[k]
      /\ answers'[Len(answers) + 1] = a
  BY Appended DEF Types, WireTypes
<1>3. \A s \in Transactions : \A k \in 1 .. Len(commands') :
        Asks(k, s)' => k + 1 \in 1 .. Len(commands) /\ Asks(k + 1, s)
  BY <1>1 DEF Asks
<1>4. \A s \in Transactions : \A k \in 1 .. Len(answers') :
        Answers(k, s)' => \/ k \in 1 .. Len(answers) /\ Answers(k, s)
                          \/ k = Len(answers) + 1 /\ s = t
  BY <1>2 DEF Answers
<1>5. Asked(t) /\ ~Answered(t) /\ Waits(t) /\ cloop # <<"delete", t>>
  BY <1>1 DEF Asked, OneOpen
<1>6. ~Asked(t)'
  <2> SUFFICES ASSUME NEW k \in 1 .. Len(commands'), Asks(k, t)' PROVE FALSE
    BY DEF Asked
  <2>1. k + 1 = 1
    BY <1>1, <1>3 DEF OneOpen
  <2> QED BY <2>1
<1>7. \A s \in Transactions : /\ Asked(s)' => Asked(s)
                              /\ s # t => (Answered(s)' => Answered(s))
                              /\ Waits(s)' <=> Waits(s)
  BY <1>3, <1>4 DEF Asked, Answered, Waits
<1>8. ASSUME NEW s \in Transactions, NEW j \in 1 .. Len(commands'), NEW k \in 1 .. Len(commands'),
             Asks(j, s)', Asks(k, s)'
      PROVE  j = k
  <2>1. j + 1 = k + 1
    BY <1>3, <1>8 DEF OneOpen
  <2> QED BY <2>1
<1>9. ASSUME NEW s \in Transactions, NEW j \in 1 .. Len(answers'), NEW k \in 1 .. Len(answers'),
             Answers(j, s)', Answers(k, s)'
      PROVE  j = k
  BY <1>4, <1>5, <1>9 DEF OneOpen, Answered
<1> QED BY <1>5, <1>6, <1>7, <1>8, <1>9 DEF OneOpen

\* The client takes the answer of a transaction, whose caller is there, ...
LEMMA ReplyFinds ==
  ASSUME Types, OneOpen, RepliesFit, HandleResult
  PROVE  \E t \in Transactions, rep \in Replies :
           /\ Answers(1, t) /\ Waits(t) /\ cloop = Reading
           /\ answers # <<>> /\ answers[1].reply = rep
           /\ (t = CreateTransaction => ForStream(rep))
           /\ reply' = [reply EXCEPT ![transactions[t]] = rep]
           /\ cloop' = <<"delete", t>>
           /\ stray' = stray
<1>1. answers # <<>> /\ Head(answers) = answers[1] /\ answers[1] \in AnswerSet /\ 1 \in 1 .. Len(answers)
  BY Taken DEF Types, WireTypes, HandleResult
<1>2. "to" \in DOMAIN answers[1] /\ answers[1].to \in Transactions /\ answers[1].reply \in Replies
  BY <1>1, AnswerKinds DEF HandleResult
<1> DEFINE t == answers[1].to
<1>3. Answers(1, t) /\ Answered(t)
  BY <1>1, <1>2 DEF Answers, Answered
<1>4. Waits(t)
  BY <1>2, <1>3 DEF OneOpen
<1>5. transactions[t] # NoUser
  BY <1>4, Numbers DEF Waits
<1>6. /\ reply' = [reply EXCEPT ![transactions[t]] = answers[1].reply]
      /\ cloop' = <<"delete", t>> /\ stray' = stray /\ cloop = Reading
  BY <1>1, <1>5 DEF HandleResult
<1>7. t = CreateTransaction => ForStream(answers[1].reply)
  BY <1>1, <1>3 DEF RepliesFit
<1> QED BY <1>1, <1>2, <1>3, <1>4, <1>6, <1>7

\* ... gives it to the caller, ...
LEMMA OpenReplied ==
  ASSUME Types, OneOpen, RepliesFit, HandleResult
  PROVE  OneOpen' /\ RepliesFit'
<1> USE Numbers
<1>1. PICK t \in Transactions, rep \in Replies :
           /\ Answers(1, t) /\ Waits(t) /\ cloop = Reading
           /\ answers # <<>> /\ answers[1].reply = rep
           /\ (t = CreateTransaction => ForStream(rep))
           /\ reply' = [reply EXCEPT ![transactions[t]] = rep]
           /\ cloop' = <<"delete", t>>
           /\ stray' = stray
  BY ReplyFinds
<1>2. answers' = Tail(answers) /\ UNCHANGED <<pc, transactions, commands>>
  BY DEF HandleResult
<1>3. /\ Len(answers) \in Nat \ {0} /\ Len(answers') = Len(answers) - 1
      /\ \A k \in 1 .. Len(answers') : answers'[k] = answers[k + 1]
  BY <1>1, <1>2, Taken DEF Types, WireTypes
<1>4. \A s \in Transactions :
        /\ \A k \in 1 .. Len(answers') :
             Answers(k, s)' => k + 1 \in 1 .. Len(answers) /\ Answers(k + 1, s)
        /\ \A k \in 1 .. Len(commands) : Asks(k, s)' <=> Asks(k, s)
  BY <1>2, <1>3 DEF Answers, Asks
<1>5. \A s \in Transactions : (Asked(s)' => Asked(s)) /\ (Answered(s)' => Answered(s))
  BY <1>2, <1>4 DEF Answered, Asked
<1>6. Answered(t)
  BY <1>1, <1>3 DEF Answered
<1>7. ~Asked(t)' /\ ~Answered(t)'
  <2>1. ~Asked(t)
    BY <1>6 DEF OneOpen
  <2>2. ASSUME NEW k \in 1 .. Len(answers'), Answers(k, t)' PROVE FALSE
    <3>1. k + 1 = 1
      BY <2>2, <1>1, <1>3, <1>4 DEF OneOpen
    <3> QED BY <3>1
  <2> QED BY <2>1, <2>2, <1>5 DEF Answered
<1>8. ASSUME NEW s \in Transactions, s # t, Waits(s) PROVE Waits(s)'
  <2>1. CallOf(s) # CallOf(t)
    BY <1>8 DEF CallOf
  <2>2. transactions[s] # transactions[t]
    BY <2>1, <1>1, <1>8 DEF Waits
  <2> QED BY <2>2, <1>1, <1>2, <1>8 DEF Waits, Types, UserTypes
<1>9. ASSUME NEW s \in Transactions, NEW j \in 1 .. Len(answers'), NEW k \in 1 .. Len(answers'),
             Answers(j, s)', Answers(k, s)'
      PROVE  j = k
  <2>1. j + 1 = k + 1
    BY <1>4, <1>9 DEF OneOpen
  <2> QED BY <2>1
<1>10. \A s \in Transactions : cloop' = <<"delete", s>> => s = t /\ transactions'[s] \in Users
  BY <1>1, <1>2 DEF Waits
<1>11. OneOpen'
  <2> SUFFICES ASSUME NEW s \in Transactions
               PROVE  /\ \A j, k \in 1 .. Len(commands') : Asks(j, s)' /\ Asks(k, s)' => j = k
                      /\ ~(Asked(s)' /\ Answered(s)')
                      /\ Asked(s)' \/ Answered(s)' => Waits(s)' /\ cloop' # <<"delete", s>>
    BY <1>9, <1>10 DEF OneOpen
  <2>1. CASE s = t
    BY <2>1, <1>2, <1>4, <1>7 DEF OneOpen
  <2>2. CASE s # t
    BY <2>2, <1>2, <1>4, <1>5, <1>8, <1>10 DEF OneOpen
  <2> QED BY <2>1, <2>2
<1>12. RepliesFit'
  <2>1. ASSUME NEW k \in 1 .. Len(answers'), Answers(k, CreateTransaction)'
        PROVE  ForStream(answers'[k].reply)
    BY <2>1, <1>3, <1>4 DEF RepliesFit
  <2>2. ASSUME NEW u \in Users, pc[u] = <<"create", 0>>, reply'[u] # NoReply
        PROVE  ForStream(reply'[u])
    <3>1. CASE u = transactions[t]
      <4>1. t = CreateTransaction
        BY <2>2, <3>1, <1>1 DEF Waits, CallOf
      <4> QED BY <4>1, <3>1, <1>1 DEF Types, UserTypes
    <3>2. CASE u # transactions[t]
      BY <2>2, <3>2, <1>1 DEF RepliesFit, Types, UserTypes
    <3> QED BY <3>1, <3>2
  <2>3. \A rep2 : ForStream(rep2)' <=> ForStream(rep2)
    BY DEF ForStream
  <2> QED BY <2>1, <2>2, <2>3, <1>2 DEF RepliesFit, ForStream
<1> QED BY <1>11, <1>12

\* ... and deletes the transaction.
LEMMA OpenDeleted ==
  ASSUME Types, OneOpen, RepliesFit, NEW t \in Transactions, DeleteTransaction(t)
  PROVE  OneOpen' /\ RepliesFit'
<1>1. /\ cloop = <<"delete", t>> /\ cloop' = Reading
      /\ transactions' = [transactions EXCEPT ![t] = NoUser]
      /\ UNCHANGED <<pc, reply, answers, commands>>
  BY DEF DeleteTransaction
<1>2. ~Asked(t) /\ ~Answered(t)
  BY <1>1 DEF OneOpen
<1>3. \A s \in Transactions :
        /\ \A k \in 1 .. Len(answers) : Answers(k, s)' <=> Answers(k, s)
        /\ \A k \in 1 .. Len(commands) : Asks(k, s)' <=> Asks(k, s)
        /\ s # t => (Waits(s)' <=> Waits(s))
        /\ cloop' # <<"delete", s>>
  BY <1>1 DEF Answers, Asks, Waits, Types, UserTypes, Reading
<1>4. \A s \in Transactions : (Asked(s)' <=> Asked(s)) /\ (Answered(s)' <=> Answered(s))
  BY <1>1, <1>3 DEF Answered, Asked
<1>5. OneOpen'
  BY <1>1, <1>2, <1>3, <1>4 DEF OneOpen
<1>6. RepliesFit'
  BY <1>1 DEF RepliesFit, ForStream, Answers
<1> QED BY <1>5, <1>6

\* A status is taken without a transaction.
LEMMA OpenStatus ==
  ASSUME Types, OneOpen, RepliesFit, answers # <<>>, answers' = Tail(answers),
         UNCHANGED <<pc, reply, transactions, commands>>, cloop' \in {Reading, Ended}
  PROVE  OneOpen' /\ RepliesFit'
<1>1. /\ Len(answers) \in Nat \ {0} /\ Len(answers') = Len(answers) - 1
      /\ \A k \in 1 .. Len(answers') : answers'[k] = answers[k + 1]
  BY Taken DEF Types, WireTypes
<1>2. \A s \in Transactions :
        /\ \A k \in 1 .. Len(answers') :
             Answers(k, s)' => k + 1 \in 1 .. Len(answers) /\ Answers(k + 1, s)
        /\ \A k \in 1 .. Len(commands) : Asks(k, s)' <=> Asks(k, s)
        /\ Waits(s)' <=> Waits(s)
        /\ cloop' # <<"delete", s>>
  BY <1>1 DEF Answers, Asks, Waits, Reading, Ended
<1>3. \A s \in Transactions : (Asked(s)' => Asked(s)) /\ (Answered(s)' => Answered(s))
  BY <1>2 DEF Answered, Asked
<1>4. ASSUME NEW s \in Transactions, NEW j \in 1 .. Len(answers'), NEW k \in 1 .. Len(answers'),
             Answers(j, s)', Answers(k, s)'
      PROVE  j = k
  <2>1. j + 1 = k + 1
    BY <1>2, <1>4 DEF OneOpen
  <2> QED BY <2>1
<1>5. OneOpen'
  BY <1>2, <1>3, <1>4 DEF OneOpen
<1>6. RepliesFit'
  BY <1>1, <1>2, Numbers DEF RepliesFit, ForStream
<1> QED BY <1>5, <1>6

\* A reply the server sends to a CreateStream is about the stream it made.
LEMMA FitsSent ==
  ASSUME Types, RepliesFit, NEW a \in AnswerSet, answers' = Append(answers, a),
         "to" \in DOMAIN a /\ a.to = CreateTransaction => ForStream(a.reply),
         UNCHANGED <<pc, reply>>
  PROVE  RepliesFit'
<1>1. /\ Len(answers) \in Nat /\ Len(answers') = Len(answers) + 1
      /\ \A k \in 1 .. Len(answers) : answers'[k] = answers[k]
      /\ answers'[Len(answers) + 1] = a
  BY Appended DEF Types, WireTypes
<1> QED BY <1>1 DEF RepliesFit, ForStream, Answers

-----------------------------------------------------------------------------
(* Both tables, while calls do not overlap. *)

\* While a reply is on its way nothing is being deleted, and its caller waits.
LEMMA Creating ==
  ASSUME Types, OneOpen, Apart, NEW i \in StreamIDs, NEW n \in Serials, Coming(i, n)
  PROVE  Settled /\ \E u \in Users : pc[u] = <<"create", 0>>
<1> USE Numbers
<1>1. CASE \E k \in DOMAIN answers : answers[k] = Result(CreateTransaction, i, n)
  <2>1. PICK k \in 1 .. Len(answers) : answers[k] = Result(CreateTransaction, i, n)
    BY <1>1, LenProperties DEF Types, WireTypes
  <2>2. Answers(k, CreateTransaction)
    <3>1. "to" \in DOMAIN Result(CreateTransaction, i, n) /\ Result(CreateTransaction, i, n).to = CreateTransaction
      BY DEF Result
    <3> QED BY <2>1, <3>1 DEF Answers
  <2>3. Answered(CreateTransaction)
    BY <2>2 DEF Answered
  <2>4. Waits(CreateTransaction)
    BY <2>3 DEF OneOpen
  <2> QED BY <2>3, <2>4 DEF Apart, Waits, CallOf
<1>2. CASE \E u \in Users : /\ pc[u] = <<"create", 0>>
                            /\ reply[u] = [name |-> "_result", id |-> i, serial |-> n]
  BY <1>2 DEF Apart, NoReply
<1> QED BY <1>1, <1>2 DEF Coming

\* A deletion that has been sent, by its place.
LEMMA SentPlace ==
  ASSUME Types, NEW i \in StreamIDs
  PROVE  DeleteSent(i) <=> \E k \in 1 .. Len(commands) : Deletes(k, i)
<1>1. DOMAIN commands = 1 .. Len(commands) /\ \A k \in 1 .. Len(commands) : commands[k] \in Requests
  BY LenProperties DEF Types, WireTypes
<1> QED BY <1>1, RequestKinds DEF DeleteSent, Deletes

\* A request is sent, by a user who did nothing before.
LEMMA UnmixedRequested ==
  ASSUME Types, OneOpen, Unmixed, NEW u \in Users, NEW t \in Transactions,
         pc[u] = Idle, Request(u, t, CallOf(t), TypeOf(t)),
         t = CreateTransaction => ~Beside(u, {"check", "delete"}),
         UNCHANGED <<answers, cstreams, deleted, media, sstreams, sloop>>
  PROVE  Unmixed'
<1> USE Numbers
<1>1. /\ reply' = [reply EXCEPT ![u] = NoReply]
      /\ pc' = [pc EXCEPT ![u] = <<CallOf(t), 0>>]
      /\ commands' = Append(commands, [type |-> TypeOf(t)])
  BY DEF Request
<1>2. [type |-> TypeOf(t)] \in Requests
  BY DEF TypeOf, Requests
<1>3. /\ Len(commands) \in Nat /\ Len(commands') = Len(commands) + 1
      /\ DOMAIN commands = 1 .. Len(commands) /\ DOMAIN commands' = 1 .. Len(commands')
      /\ \A k \in 1 .. Len(commands) : commands'[k] = commands[k]
      /\ commands'[Len(commands) + 1] = [type |-> TypeOf(t)]
  BY <1>1, <1>2, Appended DEF Types, WireTypes
<1>4. \A w \in Users : w # u => pc'[w] = pc[w] /\ reply'[w] = reply[w]
  BY <1>1 DEF Types, UserTypes
<1>5. pc'[u] = <<CallOf(t), 0>> /\ reply'[u] = NoReply /\ CallOf(t) \in {"connect", "create"}
      /\ (CallOf(t) = "create" => t = CreateTransaction)
  BY <1>1 DEF Types, UserTypes, CallOf
<1>6. \A i \in StreamIDs, n \in Serials : Coming(i, n)' <=> Coming(i, n)
  BY <1>4, <1>5 DEF Coming, Idle, NoReply, Result
<1>7. \A i \in StreamIDs : /\ DeleteSent(i) => DeleteSent(i)'
                           /\ \A k \in 1 .. Len(commands') :
                                Deletes(k, i)' => k \in 1 .. Len(commands) /\ Deletes(k, i)
  BY <1>3 DEF DeleteSent, Deletes, TypeOf
<1>8. Apart'
  <2>1. \A v, w \in Users : v # w /\ pc'[v][1] \in {"check", "delete"} =>
          pc'[w][1] \notin {"create", "check", "delete"}
    BY <1>4, <1>5 DEF Unmixed, Apart, Beside, Idle
  <2>2. Settled => Settled'
    BY <1>3 DEF Settled, TypeOf
  <2>3. Answered(CreateTransaction)' => Answered(CreateTransaction)
    BY DEF Answered, Answers
  <2>4. \A v \in Users : pc'[v] = <<"create", 0>> /\ reply'[v] # NoReply => Settled
    BY <1>4, <1>5 DEF Unmixed, Apart
  <2>5. \A j, k \in 1 .. Len(commands') :
          Asks(j, CreateTransaction)' /\ commands'[k].type = "deleteStream" => k < j
    BY <1>3 DEF Unmixed, Apart, Asks, TypeOf
  <2> QED BY <2>1, <2>2, <2>3, <2>4, <2>5 DEF Unmixed, Apart
<1>9. Told'
  BY <1>6 DEF Unmixed, Told
<1>14. Once'
  <2>1. \A i, n : Sent(i, n)' <=> Sent(i, n)
    BY DEF Sent, Result
  <2>2. \A w \in Users, i \in StreamIDs, n \in Serials : Got(w, i, n)' => Got(w, i, n)
    BY <1>4, <1>5 DEF Got, NoReply
  <2> QED BY <2>1, <2>2 DEF Unmixed, Once
<1>10. Known'
  <2>1. Known
    BY DEF Unmixed
  <2> QED BY <2>1, <1>4, <1>5 DEF Known, Idle
<1>11. Doomed'
  BY <1>4, <1>5, <1>7 DEF Unmixed, Doomed
<1>12. Held'
  BY <1>6, <1>7 DEF Unmixed, Held, Types, ServerTypes
<1>13. Addressed'
  BY DEF Unmixed, Addressed
<1> QED BY <1>8, <1>9, <1>10, <1>11, <1>12, <1>13, <1>14 DEF Unmixed

\* A user sends the deletion of a stream it has checked.
LEMMA UnmixedDeleting ==
  ASSUME Types, Serialised, OneOpen, Unmixed, NEW u \in Users, NEW i \in StreamIDs, SendDelete(u, i)
  PROVE  Unmixed'
<1> USE Numbers
<1> DEFINE m == [type |-> "deleteStream", id |-> i]
<1>0. Apart /\ Told /\ Known /\ Doomed /\ Held /\ Addressed
  BY DEF Unmixed
<1>1. /\ pc[u] = <<"check", i>> /\ pc' = [pc EXCEPT ![u] = <<"delete", i>>]
      /\ commands' = Append(commands, m)
      /\ deleted' = (deleted \cup {cstreams[i]}) \ {0}
      /\ UNCHANGED <<reply, transactions, cstreams, media, answers, sstreams, sloop>>
  BY DEF SendDelete, serverVars
<1>2. m \in Requests
  BY DEF Requests
<1>3. /\ Len(commands) \in Nat /\ Len(commands') = Len(commands) + 1
      /\ DOMAIN commands = 1 .. Len(commands) /\ DOMAIN commands' = 1 .. Len(commands')
      /\ \A k \in 1 .. Len(commands) : commands'[k] = commands[k]
      /\ commands'[Len(commands) + 1] = m
  BY <1>1, <1>2, Appended DEF Types, WireTypes
<1>4. pc'[u] = <<"delete", i>> /\ \A w \in Users : w # u => pc'[w] = pc[w]
  BY <1>1 DEF Types, UserTypes
<1>5. \A w \in Users \ {u} : pc[w][1] \notin {"create", "check", "delete"}
  BY <1>0, <1>1 DEF Apart
<1>6. /\ cstreams[i] # 0 /\ cstreams[i] \notin deleted /\ cstreams[i] = sstreams[i]
      /\ deleted' = deleted \cup {cstreams[i]}
  <2>1. cstreams[i] # 0
    BY <1>0, <1>1 DEF Known
  <2>2. cstreams[i] \notin deleted
    BY <1>0, <1>1, <1>5 DEF Known
  <2>3. 0 \notin deleted
    BY DEF Types, UserTypes
  <2> QED BY <2>1, <2>2, <2>3, <1>0, <1>1 DEF Known
<1>7. \A j \in StreamIDs, n \in Serials : ~Coming(j, n)
  BY <1>0, <1>1, <1>5, Creating
<1>8. \A j \in StreamIDs, n \in Serials : ~Coming(j, n)'
  BY <1>1, <1>4, <1>7 DEF Coming, Result
<1>9. /\ ~Asked(CreateTransaction) /\ ~Answered(CreateTransaction)
      /\ \A w \in Users : pc[w] # <<"create", 0>>
  <2>1. \A w \in Users : pc[w] # <<"create", 0>>
    BY <1>1, <1>5
  <2> QED BY <2>1 DEF OneOpen, Waits, CallOf
<1>10. Apart'
  <2>1. \A v, w \in Users : v # w /\ pc'[v][1] \in {"check", "delete"} =>
          pc'[w][1] \notin {"create", "check", "delete"}
    BY <1>4, <1>5
  <2>2. \A k \in 1 .. Len(commands') : ~Asks(k, CreateTransaction)'
    BY <1>3, <1>9 DEF Asked, Asks, TypeOf
  <2>3. ~Answered(CreateTransaction)'
    BY <1>1, <1>9 DEF Answered, Answers
  <2>4. \A w \in Users : pc'[w] # <<"create", 0>>
    BY <1>4, <1>9
  <2> QED BY <2>1, <2>2, <2>3, <2>4 DEF Apart
<1>11. Told'
  BY <1>8 DEF Told
<1>16. Once'
  BY <1>8 DEF Once, Coming, Got
<1>12. Known'
  <2> SUFFICES ASSUME NEW j \in StreamIDs
               PROVE  /\ cstreams[j] # 0 => cstreams[j] = sstreams[j] \/ cstreams[j] \in deleted'
                      /\ cstreams[j] \in deleted' => \E w \in Users : pc'[w] = <<"delete", j>>
                      /\ \A w \in Users : pc'[w] = <<"check", j>> => cstreams[j] # 0
    BY <1>1 DEF Known
  <2>1. cstreams[j] # 0 => cstreams[j] = sstreams[j] \/ cstreams[j] \in deleted
    BY <1>0 DEF Known
  <2>2. cstreams[j] \notin deleted
    BY <1>0, <1>1, <1>5 DEF Known
  <2>3. cstreams[j] \in deleted' => j = i
    BY <1>6, <2>1, <2>2 DEF Serialised
  <2> QED BY <2>1, <2>3, <1>4, <1>5, <1>6
<1>13. Doomed'
  <2>1. sstreams[i] \in deleted' /\ DeleteSent(i)'
    BY <1>3, <1>6 DEF DeleteSent
  <2>2. ASSUME NEW j \in StreamIDs, NEW k \in 1 .. Len(commands'), Deletes(k, j)'
        PROVE  sstreams[j] \in deleted' \cup {0}
    <3>1. CASE k = Len(commands) + 1
      BY <3>1, <2>1, <2>2, <1>3 DEF Deletes
    <3>2. CASE k \in 1 .. Len(commands)
      BY <3>2, <2>2, <1>0, <1>3, <1>6 DEF Deletes, Doomed
    <3> QED BY <3>1, <3>2, <1>3
  <2>3. ASSUME NEW j \in StreamIDs, NEW w \in Users, pc'[w] = <<"delete", j>>
        PROVE  j = i
    BY <2>3, <1>4, <1>5
  <2> QED BY <2>1, <2>2, <2>3, <1>1 DEF Doomed
<1>14. Held'
  <2>1. \A j \in StreamIDs : DeleteSent(j) => DeleteSent(j)'
    BY <1>3 DEF DeleteSent
  <2>2. sloop = "read" => \A j \in StreamIDs : sstreams[j] # 0 => cstreams[j] = sstreams[j] \/ DeleteSent(j)
    BY <1>0, <1>7 DEF Held, Types, ServerTypes
  <2> QED BY <2>1, <2>2, <1>1 DEF Held
<1>15. Addressed'
  BY <1>0, <1>1, <1>6 DEF Addressed
<1> QED BY <1>10, <1>11, <1>12, <1>13, <1>14, <1>15, <1>16 DEF Unmixed

\* A call ends, of Connect or of DeleteStream.
LEMMA UnmixedReturned ==
  ASSUME Types, OneOpen, Unmixed, NEW u \in Users,
         pc' = [pc EXCEPT ![u] = Idle],
         \/ pc[u] = <<"connect", 0>> /\ cstreams' = cstreams
         \/ \E i \in StreamIDs : pc[u] = <<"delete", i>> /\ cstreams' = [cstreams EXCEPT ![i] = 0],
         UNCHANGED <<commands, answers, reply, deleted, media, sstreams, sloop>>
  PROVE  Unmixed'
<1> USE Numbers
<1>0. Apart /\ Told /\ Known /\ Doomed /\ Held /\ Addressed
  BY DEF Unmixed
<1>1. pc'[u] = Idle /\ (\A w \in Users : w # u => pc'[w] = pc[w]) /\ pc[u][1] # "create"
  BY DEF Types, UserTypes
<1>2. \A i \in StreamIDs, n \in Serials : Coming(i, n)' <=> Coming(i, n)
  BY <1>1 DEF Coming, Idle, Result
<1>3. \A i \in StreamIDs : DeleteSent(i)' <=> DeleteSent(i)
  BY DEF DeleteSent
<1>4. Apart'
  <2>1. \A v, w \in Users : v # w /\ pc'[v][1] \in {"check", "delete"} =>
          pc'[w][1] \notin {"create", "check", "delete"}
    BY <1>0, <1>1 DEF Apart, Idle
  <2>2. Settled' <=> Settled
    BY DEF Settled
  <2>3. Answered(CreateTransaction)' <=> Answered(CreateTransaction)
    BY DEF Answered, Answers
  <2>4. \A v \in Users : pc'[v] = <<"create", 0>> /\ reply'[v] # NoReply => Settled
    BY <1>0, <1>1 DEF Apart, Idle
  <2> QED BY <2>1, <2>2, <2>3, <2>4, <1>0 DEF Apart, Asks
<1>5. Addressed' /\ Once'
  <2>1. \A i, n : Sent(i, n)' <=> Sent(i, n)
    BY DEF Sent, Result
  <2>2. \A w \in Users, i \in StreamIDs, n \in Serials : Got(w, i, n)' => Got(w, i, n)
    BY <1>1 DEF Got, Idle
  <2>3. Once
    BY DEF Unmixed
  <2> QED BY <1>0, <2>1, <2>2, <2>3 DEF Addressed, Once
<1>6. CASE pc[u] = <<"connect", 0>> /\ cstreams' = cstreams
  <2>1. Told'
    BY <1>0, <1>2, <1>6 DEF Told
  <2>2. Known'
    BY <1>0, <1>1, <1>6 DEF Known, Idle
  <2>3. Doomed'
    BY <1>0, <1>1, <1>3 DEF Doomed, Idle, Deletes
  <2>4. Held'
    BY <1>0, <1>2, <1>3, <1>6 DEF Held, Types, ServerTypes
  <2> QED BY <2>1, <2>2, <2>3, <2>4, <1>4, <1>5 DEF Unmixed
<1>7. ASSUME NEW i \in StreamIDs, pc[u] = <<"delete", i>>, cstreams' = [cstreams EXCEPT ![i] = 0]
      PROVE  Unmixed'
  <2>1. cstreams'[i] = 0 /\ \A j \in StreamIDs : j # i => cstreams'[j] = cstreams[j]
    BY <1>7 DEF Types, UserTypes
  <2>2. \A w \in Users \ {u} : pc[w][1] \notin {"create", "check", "delete"}
    BY <1>0, <1>7 DEF Apart
  <2>3. Told'
    BY <1>0, <1>2, <2>1 DEF Told
  <2>4. Known'
    <3>1. 0 \notin deleted
      BY DEF Types, UserTypes
    <3>2. \A j \in StreamIDs : j # i => cstreams[j] \notin deleted
      BY <1>0, <1>7, <2>2 DEF Known
    <3>3. \A j \in StreamIDs, w \in Users : pc'[w] # <<"check", j>>
      BY <1>1, <2>2 DEF Idle
    <3> QED BY <1>0, <2>1, <3>1, <3>2, <3>3 DEF Known
  <2>5. Doomed'
    BY <1>0, <1>1, <1>3 DEF Doomed, Idle, Deletes
  <2>6. Held'
    <3>1. sloop = "read" /\ sstreams[i] # 0 => DeleteSent(i)
      BY <1>0, <1>7 DEF Doomed
    <3> QED BY <1>0, <1>2, <1>3, <2>1, <3>1 DEF Held, Types, ServerTypes
  <2> QED BY <2>3, <2>4, <2>5, <2>6, <1>4, <1>5 DEF Unmixed
<1> QED BY <1>6, <1>7

\* A call gets its Stream, or is refused.
LEMMA UnmixedCreated ==
  ASSUME Types, OneOpen, RepliesFit, Unmixed, NEW u \in Users, CreateStreamReturns(u)
  PROVE  Unmixed'
<1> USE Numbers
<1>0. Apart /\ Told /\ Known /\ Doomed /\ Held /\ Addressed
  BY DEF Unmixed
<1>1. /\ pc[u] = <<"create", 0>> /\ reply[u] # NoReply
      /\ pc' = [pc EXCEPT ![u] = Idle]
      /\ cstreams' = IF reply[u].name = "_result" /\ cstreams[reply[u].id] = 0
                       THEN [cstreams EXCEPT ![reply[u].id] = reply[u].serial]
                       ELSE cstreams
      /\ UNCHANGED <<commands, answers, reply, deleted, media, sstreams, sloop>>
  BY DEF CreateStreamReturns, Return, serverVars
<1>2. pc'[u] = Idle /\ \A w \in Users : w # u => pc'[w] = pc[w]
  BY <1>1 DEF Types, UserTypes
<1>3. Settled /\ \A w \in Users : pc[w][1] \notin {"check", "delete"}
  <2>1. \A w \in Users \ {u} : pc[w][1] \notin {"check", "delete"}
    BY <1>0, <1>1 DEF Apart
  <2> QED BY <2>1, <1>0, <1>1 DEF Apart
<1>4. \A i \in StreamIDs : cstreams[i] \notin deleted
  BY <1>0, <1>3 DEF Known
<1>5. \A i \in StreamIDs, n \in Serials :
        Coming(i, n)' <=> Sent(i, n) \/ \E w \in Users \ {u} : Got(w, i, n)
  BY <1>1, <1>2 DEF Coming, Sent, Got, Idle, Result
<1>6. \A i \in StreamIDs, n \in Serials :
        Coming(i, n) <=> Sent(i, n) \/ \E w \in Users : Got(w, i, n)
  BY DEF Coming, Sent, Got
<1>7. Once'
  <2>1. \A i, n : Sent(i, n)' <=> Sent(i, n)
    BY <1>1 DEF Sent, Result
  <2>2. \A w \in Users, i \in StreamIDs, n \in Serials : Got(w, i, n)' => Got(w, i, n)
    BY <1>1, <1>2 DEF Got, Idle
  <2>3. Once
    BY DEF Unmixed
  <2> QED BY <2>1, <2>2, <2>3 DEF Once
<1>8. Apart'
  <2>1. Settled'
    BY <1>1, <1>3 DEF Settled
  <2>2. \A w \in Users : pc'[w][1] \notin {"check", "delete"}
    BY <1>2, <1>3 DEF Idle
  <2>3. \A k \in 1 .. Len(commands') : commands'[k].type # "deleteStream"
    BY <1>1, <1>3 DEF Settled
  <2> QED BY <2>1, <2>2, <2>3 DEF Apart
<1>9. Doomed'
  BY <1>1, <1>2, <1>3 DEF Doomed, Settled, Deletes, Idle
<1>10. Addressed'
  BY <1>0, <1>1 DEF Addressed
<1>11. \A i \in StreamIDs : DeleteSent(i)' <=> DeleteSent(i)
  BY <1>1 DEF DeleteSent
<1>12. ASSUME NEW i \in StreamIDs, NEW n \in Serials, Got(u, i, n)
       PROVE  Told' /\ Known' /\ Held'
  <2>1. sstreams[i] = n /\ cstreams[i] = 0 /\ n \notin deleted
    BY <1>0, <1>6, <1>12 DEF Told
  <2>2. cstreams' = [cstreams EXCEPT ![i] = n]
    BY <1>1, <1>12, <2>1 DEF Got
  <2>3. cstreams'[i] = n /\ \A j \in StreamIDs : j # i => cstreams'[j] = cstreams[j]
    BY <2>2 DEF Types, UserTypes
  <2>4. \A m \in Serials : ~Coming(i, m)'
    <3>1. ASSUME NEW m \in Serials, Coming(i, m)' PROVE FALSE
      <4>1. Sent(i, m) \/ \E w \in Users \ {u} : Got(w, i, m)
        BY <3>1, <1>5
      <4>2. Coming(i, m)
        BY <4>1, <1>6
      <4>3. m = n
        BY <4>2, <2>1, <1>0 DEF Told
      <4> QED BY <4>1, <4>3, <1>12 DEF Unmixed, Once
    <3> QED BY <3>1
  <2>5. Told'
    BY <1>0, <1>1, <1>5, <1>6, <2>3, <2>4 DEF Told
  <2>6. Known'
    <3>1. \A j \in StreamIDs, w \in Users : pc'[w] # <<"check", j>>
      BY <1>2, <1>3 DEF Idle
    <3>2. \A j \in StreamIDs : cstreams'[j] \notin deleted'
      BY <1>1, <1>4, <2>1, <2>3
    <3>3. \A j \in StreamIDs : cstreams'[j] # 0 => cstreams'[j] = sstreams'[j]
      BY <1>0, <1>1, <1>4, <2>1, <2>3 DEF Known
    <3> QED BY <3>1, <3>2, <3>3 DEF Known
  <2>7. Held'
    <3> SUFFICES ASSUME sloop' = "read", NEW j \in StreamIDs, sstreams'[j] # 0
                 PROVE  \/ cstreams'[j] = sstreams'[j]
                        \/ Coming(j, sstreams[j])'
                        \/ DeleteSent(j)'
      BY <1>1 DEF Held
    <3>1. CASE j = i
      BY <3>1, <1>1, <2>1, <2>3
    <3>2. CASE j # i
      <4>1. sstreams[j] \in Serials /\ sloop = "read"
        BY <1>1 DEF Types, ServerTypes
      <4>2. cstreams[j] = sstreams[j] \/ Coming(j, sstreams[j]) \/ DeleteSent(j)
        BY <4>1, <1>0, <1>1 DEF Held
      <4>3. ~Got(u, j, sstreams[j])
        BY <1>12, <3>2 DEF Got
      <4>4. Coming(j, sstreams[j]) => Coming(j, sstreams[j])'
        <5> DEFINE n2 == sstreams[j]
        <5>1. n2' = n2
          BY <1>1
        <5> HIDE DEF n2
        <5>2. n2 \in Serials /\ ~Got(u, j, n2)
          BY <4>1, <4>3 DEF n2
        <5>3. Coming(j, n2) => Coming(j, n2)'
          BY <5>1, <5>2, <1>1, <1>2 DEF Coming, Got, Result
        <5> QED BY <5>3 DEF n2
      <4> QED BY <4>2, <4>4, <3>2, <1>1, <1>11, <2>3
    <3> QED BY <3>1, <3>2
  <2> QED BY <2>5, <2>6, <2>7
<1>13. ASSUME \A i \in StreamIDs, n \in Serials : ~Got(u, i, n)
       PROVE  Told' /\ Known' /\ Held'
  <2>1. reply[u] \in Replies /\ ForStream(reply[u])
    BY <1>1 DEF RepliesFit, Types, UserTypes
  <2>2. reply[u].name # "_result"
    BY <1>1, <1>13, <2>1, ReplyKinds DEF ForStream, Got
  <2>3. cstreams' = cstreams
    BY <1>1, <2>2
  <2>4. \A i \in StreamIDs, n \in Serials : Coming(i, n)' <=> Coming(i, n)
    BY <1>5, <1>6, <1>13
  <2>5. Told'
    BY <1>0, <1>1, <2>3, <2>4 DEF Told
  <2>6. Known'
    <3>1. \A j \in StreamIDs, w \in Users : pc'[w] # <<"check", j>>
      BY <1>2, <1>3 DEF Idle
    <3> QED BY <3>1, <1>0, <1>1, <1>4, <2>3 DEF Known
  <2>7. Held'
    BY <1>0, <1>1, <1>11, <2>3, <2>4 DEF Held, Types, ServerTypes
  <2> QED BY <2>5, <2>6, <2>7
<1>14. Told' /\ Known' /\ Held'
  BY <1>12, <1>13
<1> QED BY <1>7, <1>8, <1>9, <1>10, <1>14 DEF Unmixed

\* A user has checked the stream it is about to delete; nobody else is creating
\* or deleting one.
LEMMA UnmixedChecked ==
  ASSUME Types, Unmixed, NEW u \in Users, NEW i \in StreamIDs, pc[u] = Idle,
         ~Beside(u, {"create", "check", "delete"}), cstreams[i] # 0,
         pc' = [pc EXCEPT ![u] = <<"check", i>>],
         UNCHANGED <<commands, answers, reply, cstreams, deleted, media, sstreams, sloop>>
  PROVE  Unmixed'
<1>0. Apart /\ Told /\ Known /\ Doomed /\ Held /\ Addressed
  BY DEF Unmixed
<1>1. pc'[u] = <<"check", i>> /\ \A w \in Users : w # u => pc'[w] = pc[w]
  BY DEF Types, UserTypes
<1>2. \A j \in StreamIDs, n \in Serials : Coming(j, n)' <=> Coming(j, n)
  BY <1>1 DEF Coming, Idle, Result
<1>3. \A j \in StreamIDs : DeleteSent(j)' <=> DeleteSent(j)
  BY DEF DeleteSent
<1>4. Apart'
  <2>1. \A v, w \in Users : v # w /\ pc'[v][1] \in {"check", "delete"} =>
          pc'[w][1] \notin {"create", "check", "delete"}
    BY <1>1 DEF Beside
  <2>2. Settled' <=> Settled
    BY DEF Settled
  <2>3. Answered(CreateTransaction)' <=> Answered(CreateTransaction)
    BY DEF Answered, Answers
  <2>4. \A v \in Users : pc'[v] = <<"create", 0>> /\ reply'[v] # NoReply => Settled
    BY <1>0, <1>1 DEF Apart
  <2> QED BY <2>1, <2>2, <2>3, <2>4, <1>0 DEF Apart, Asks
<1>5. Once'
  <2>1. \A j, n : Sent(j, n)' <=> Sent(j, n)
    BY DEF Sent, Result
  <2>2. \A w \in Users, j \in StreamIDs, n \in Serials : Got(w, j, n)' => Got(w, j, n)
    BY <1>1 DEF Got
  <2>3. Once
    BY DEF Unmixed
  <2> QED BY <2>1, <2>2, <2>3 DEF Once
<1>6. Told'
  BY <1>0, <1>2 DEF Told
<1>7. Known'
  BY <1>0, <1>1 DEF Known, Idle
<1>8. Doomed'
  BY <1>0, <1>1, <1>3 DEF Doomed, Deletes
<1>9. Held'
  BY <1>0, <1>2, <1>3 DEF Held, Types, ServerTypes
<1>10. Addressed'
  BY <1>0 DEF Addressed
<1> QED BY <1>4, <1>5, <1>6, <1>7, <1>8, <1>9, <1>10 DEF Unmixed

\* A publish is sent.
LEMMA UnmixedPublished ==
  ASSUME Types, Unmixed, NEW i \in StreamIDs,
         commands' = Append(commands, [type |-> "publish", id |-> i]),
         UNCHANGED <<pc, answers, reply, cstreams, deleted, media, sstreams, sloop>>
  PROVE  Unmixed'
<1> DEFINE m == [type |-> "publish", id |-> i]
<1>0. Apart /\ Told /\ Known /\ Doomed /\ Held /\ Addressed
  BY DEF Unmixed
<1>1. m \in Requests
  BY DEF Requests
<1>2. /\ Len(commands) \in Nat /\ Len(commands') = Len(commands) + 1
      /\ DOMAIN commands = 1 .. Len(commands) /\ DOMAIN commands' = 1 .. Len(commands')
      /\ \A k \in 1 .. Len(commands) : commands'[k] = commands[k]
      /\ commands'[Len(commands) + 1] = m
  BY <1>1, Appended DEF Types, WireTypes
<1>3. \A j \in StreamIDs, n \in Serials : Coming(j, n)' <=> Coming(j, n)
  BY DEF Coming, Result
<1>4. \A j \in StreamIDs : DeleteSent(j) => DeleteSent(j)'
  BY <1>2 DEF DeleteSent
<1>5. \A k \in 1 .. Len(commands') : commands'[k].type = "deleteStream" \/ Asks(k, CreateTransaction)'
        => k \in 1 .. Len(commands) /\ commands'[k] = commands[k]
  BY <1>2, Numbers DEF Asks, TypeOf
<1>6. Apart'
  <2>1. Settled => Settled'
    BY <1>5 DEF Settled
  <2>2. Answered(CreateTransaction)' <=> Answered(CreateTransaction)
    BY DEF Answered, Answers
  <2>3. \A j, k \in 1 .. Len(commands') :
          Asks(j, CreateTransaction)' /\ commands'[k].type = "deleteStream" => k < j
    BY <1>0, <1>5 DEF Apart, Asks
  <2>4. \A v \in Users : pc'[v] = <<"create", 0>> /\ reply'[v] # NoReply => Settled'
    BY <1>0, <2>1 DEF Apart
  <2>5. \A v, w \in Users : v # w /\ pc'[v][1] \in {"check", "delete"} =>
          pc'[w][1] \notin {"create", "check", "delete"}
    BY <1>0 DEF Apart
  <2>6. Answered(CreateTransaction)' => Settled'
    BY <1>0, <2>1, <2>2 DEF Apart
  <2> QED BY <2>3, <2>4, <2>5, <2>6 DEF Apart
<1>7. Once'
  BY DEF Unmixed, Once, Sent, Got, Result
<1>8. Told'
  BY <1>0, <1>3 DEF Told
<1>9. Known'
  BY <1>0 DEF Known
<1>10. Doomed'
  <2>1. \A j \in StreamIDs, k \in 1 .. Len(commands') :
          Deletes(k, j)' => k \in 1 .. Len(commands) /\ Deletes(k, j)
    BY <1>5 DEF Deletes
  <2> QED BY <2>1, <1>0, <1>4 DEF Doomed
<1>11. Held'
  BY <1>0, <1>3, <1>4 DEF Held, Types, ServerTypes
<1>12. Addressed'
  BY <1>0 DEF Addressed
<1> QED BY <1>6, <1>7, <1>8, <1>9, <1>10, <1>11, <1>12 DEF Unmixed

\* Media are written to a stream the client has.
LEMMA UnmixedWritten ==
  ASSUME Types, Unmixed, NEW i \in StreamIDs, cstreams[i] # 0,
         media' = Append(media, [id |-> i, of |-> cstreams[i]]),
         UNCHANGED <<pc, reply, commands, answers, cstreams, deleted, sstreams, sloop>>
  PROVE  Unmixed'
<1> DEFINE m == [id |-> i, of |-> cstreams[i]]
<1>0. Apart /\ Told /\ Known /\ Doomed /\ Held /\ Addressed
  BY DEF Unmixed
<1>1. m \in Media
  BY DEF Media, Types, UserTypes
<1>2. /\ Len(media) \in Nat /\ Len(media') = Len(media) + 1
      /\ \A k \in 1 .. Len(media) : media'[k] = media[k]
      /\ media'[Len(media) + 1] = m
  BY <1>1, Appended DEF Types, WireTypes
<1>3. cstreams[i] \notin deleted => sstreams[i] = cstreams[i]
  BY <1>0 DEF Known
<1>4. Addressed'
  <2> SUFFICES ASSUME NEW k \in 1 .. Len(media'), media'[k].of \notin deleted
               PROVE  sstreams[media'[k].id] = media'[k].of
    BY DEF Addressed
  <2>1. CASE k = Len(media) + 1
    BY <2>1, <1>2, <1>3
  <2>2. CASE k \in 1 .. Len(media)
    BY <2>2, <1>0, <1>2 DEF Addressed
  <2> QED BY <2>1, <2>2, <1>2
<1>5. Apart'
  BY <1>0 DEF Apart, Settled, Answered, Answers, Asks
<1>6. Once'
  BY DEF Unmixed, Once, Sent, Got, Result
<1>7. Told'
  BY <1>0 DEF Told, Coming, Result
<1>8. Known' /\ Doomed'
  BY <1>0 DEF Known, Doomed, Deletes, DeleteSent
<1>9. Held'
  BY <1>0 DEF Held, Coming, DeleteSent, Result
<1> QED BY <1>4, <1>5, <1>6, <1>7, <1>8, <1>9 DEF Unmixed

\* The server's loop takes media, or ends; nothing else of it is in question.
LEMMA UnmixedEnds ==
  ASSUME Types, Unmixed, UNCHANGED <<pc, reply, commands, answers, cstreams, deleted, sstreams>>,
         media' = media \/ (media # <<>> /\ media' = Tail(media)),
         sloop' \in {sloop, "ended"}
  PROVE  Unmixed'
<1>0. Apart /\ Told /\ Known /\ Doomed /\ Held /\ Addressed
  BY DEF Unmixed
<1>1. Addressed'
  <2>1. CASE media' = media
    BY <2>1, <1>0 DEF Addressed
  <2>2. CASE media # <<>> /\ media' = Tail(media)
    <3>1. /\ Len(media) \in Nat \ {0} /\ Len(media') = Len(media) - 1
          /\ \A k \in 1 .. Len(media') : media'[k] = media[k + 1]
      BY <2>2, Taken DEF Types, WireTypes
    <3>2. \A k \in 1 .. Len(media') : k + 1 \in 1 .. Len(media)
      BY <3>1
    <3> QED BY <3>1, <3>2, <1>0 DEF Addressed
  <2> QED BY <2>1, <2>2
<1>2. Apart'
  BY <1>0 DEF Apart, Settled, Answered, Answers, Asks
<1>3. Once'
  BY DEF Unmixed, Once, Sent, Got, Result
<1>4. Told'
  BY <1>0 DEF Told, Coming, Result
<1>5. Known'
  BY <1>0 DEF Known
<1>6. sloop' = "read" => sloop = "read"
  OBVIOUS
<1>7. Doomed'
  <2>1. \A i \in StreamIDs : DeleteSent(i)' <=> DeleteSent(i)
    BY DEF DeleteSent
  <2>2. \A i \in StreamIDs, k \in 1 .. Len(commands) : Deletes(k, i)' <=> Deletes(k, i)
    BY DEF Deletes
  <2> QED BY <2>1, <2>2, <1>0, <1>6 DEF Doomed
<1>8. Held'
  BY <1>0, <1>6 DEF Held, Coming, DeleteSent, Result
<1> QED BY <1>1, <1>2, <1>3, <1>4, <1>5, <1>7, <1>8 DEF Unmixed

\* The client takes a reply and gives it to the caller.
LEMMA UnmixedReplied ==
  ASSUME Types, OneOpen, RepliesFit, Unmixed, HandleResult
  PROVE  Unmixed'
<1> USE Numbers
<1>0. Apart /\ Told /\ Known /\ Doomed /\ Held /\ Addressed
  BY DEF Unmixed
<1>1. PICK t \in Transactions, rep \in Replies :
           /\ Answers(1, t) /\ Waits(t)
           /\ answers # <<>> /\ answers[1].reply = rep
           /\ (t = CreateTransaction => ForStream(rep))
           /\ reply' = [reply EXCEPT ![transactions[t]] = rep]
  BY ReplyFinds
<1>15. PICK v \in Users : v = transactions[t]
  BY <1>1 DEF Waits
<1>2. /\ answers' = Tail(answers)
      /\ UNCHANGED <<pc, commands, cstreams, deleted, media, sstreams, sloop>>
  BY DEF HandleResult, serverVars
<1>3. /\ Len(answers) \in Nat \ {0} /\ Len(answers') = Len(answers) - 1
      /\ DOMAIN answers = 1 .. Len(answers) /\ DOMAIN answers' = 1 .. Len(answers')
      /\ \A k \in 1 .. Len(answers) : answers[k] \in AnswerSet
      /\ \A k \in 1 .. Len(answers') : answers'[k] = answers[k + 1]
  BY <1>1, <1>2, Taken DEF Types, WireTypes
<1>4. v \in Users /\ pc[v] = <<CallOf(t), 0>> /\ reply[v] = NoReply
  BY <1>1, <1>15 DEF Waits
<1>5. reply'[v] = rep /\ \A w \in Users : w # v => reply'[w] = reply[w]
  BY <1>1, <1>4, <1>15 DEF Types, UserTypes
<1>6. answers[1] = [to |-> t, reply |-> rep]
  BY <1>1, <1>3, AnswerKinds DEF Answers
<1>7. ASSUME NEW i \in StreamIDs, NEW n \in Serials
      PROVE  /\ Sent(i, n)' => Sent(i, n) /\ answers[1] # Result(CreateTransaction, i, n)
             /\ Sent(i, n) => Sent(i, n)' \/ answers[1] = Result(CreateTransaction, i, n)
             /\ answers[1] = Result(CreateTransaction, i, n) => Sent(i, n)
             /\ \A w \in Users : Got(w, i, n)' <=>
                  (Got(w, i, n) \/ (w = v /\ answers[1] = Result(CreateTransaction, i, n)))
  <2>1. Sent(i, n)' => Sent(i, n) /\ answers[1] # Result(CreateTransaction, i, n)
    <3> SUFFICES ASSUME NEW k \in 1 .. Len(answers'), answers[k + 1] = Result(CreateTransaction, i, n)
                 PROVE  Sent(i, n) /\ answers[1] # Result(CreateTransaction, i, n)
      BY <1>3 DEF Sent, Result
    <3>1. k + 1 \in 1 .. Len(answers) /\ 1 \in 1 .. Len(answers) /\ k + 1 # 1
      BY <1>3
    <3>2. Answers(k + 1, CreateTransaction)
      BY DEF Answers, Result
    <3>3. answers[1] = Result(CreateTransaction, i, n) => Answers(1, CreateTransaction)
      BY DEF Answers, Result
    <3> QED BY <3>1, <3>2, <3>3, <1>3 DEF Sent, OneOpen
  <2>2. Sent(i, n) => Sent(i, n)' \/ answers[1] = Result(CreateTransaction, i, n)
    <3> SUFFICES ASSUME NEW k \in 1 .. Len(answers), k # 1, answers[k] = Result(CreateTransaction, i, n)
                 PROVE  Sent(i, n)'
      BY <1>3 DEF Sent
    <3>1. k - 1 \in 1 .. Len(answers') /\ answers'[k - 1] = answers[k]
      BY <1>3
    <3> QED BY <3>1, <1>3 DEF Sent, Result
  <2>3. answers[1] = Result(CreateTransaction, i, n) => Sent(i, n)
    BY <1>3 DEF Sent
  <2>4. ASSUME NEW w \in Users, w # v PROVE Got(w, i, n)' <=> Got(w, i, n)
    BY <2>4, <1>2, <1>5 DEF Got
  <2>5. ~Got(v, i, n)
    BY <1>4 DEF Got, NoReply
  <2>6. Got(v, i, n)' <=> t = CreateTransaction /\ rep = [name |-> "_result", id |-> i, serial |-> n]
    BY <1>2, <1>4, <1>5 DEF Got, CallOf
  <2>7. answers[1] = Result(CreateTransaction, i, n) <=>
          t = CreateTransaction /\ rep = [name |-> "_result", id |-> i, serial |-> n]
    <3>1. Result(CreateTransaction, i, n).to = CreateTransaction
          /\ Result(CreateTransaction, i, n).reply = [name |-> "_result", id |-> i, serial |-> n]
      BY DEF Result
    <3>2. answers[1].to = t /\ answers[1].reply = rep
      BY <1>1 DEF Answers
    <3> QED BY <3>1, <3>2, <1>6 DEF Result
  <2> QED BY <2>1, <2>2, <2>3, <2>4, <2>5, <2>6, <2>7, <1>4
<1>8. \A i \in StreamIDs, n \in Serials : Coming(i, n)' <=> Coming(i, n)
  <2> TAKE i \in StreamIDs, n \in Serials
  <2>1. Coming(i, n) <=> Sent(i, n) \/ \E w \in Users : Got(w, i, n)
    BY DEF Coming, Sent, Got
  <2>2. Coming(i, n)' <=> Sent(i, n)' \/ \E w \in Users : Got(w, i, n)'
    BY DEF Coming, Sent, Got
  <2> QED BY <2>1, <2>2, <1>4, <1>7
<1>9. Once'
  <2> SUFFICES ASSUME NEW i \in StreamIDs, NEW n \in Serials, NEW u \in Users, NEW w \in Users,
                      Got(u, i, n)'
               PROVE  ~Sent(i, n)' /\ (Got(w, i, n)' => u = w)
    BY DEF Once
  <2>1. Once
    BY DEF Unmixed
  <2> QED BY <2>1, <1>7 DEF Once
<1>10. Apart'
  <2>1. \A k \in 1 .. Len(answers') : Answers(k, CreateTransaction)' =>
          k + 1 \in 1 .. Len(answers) /\ Answers(k + 1, CreateTransaction)
    BY <1>3 DEF Answers
  <2>2. Answered(CreateTransaction)' => Answered(CreateTransaction)
    BY <2>1 DEF Answered
  <2>3. t = CreateTransaction => Answered(CreateTransaction)
    BY <1>1, <1>3 DEF Answered
  <2>4. \A w \in Users : pc[w] = <<"create", 0>> /\ reply'[w] # NoReply => Settled
    BY <2>3, <1>0, <1>4, <1>5 DEF Apart, CallOf
  <2>5. Settled' <=> Settled
    BY <1>2 DEF Settled
  <2> QED BY <2>2, <2>4, <2>5, <1>0, <1>2 DEF Apart, Asks
<1>11. Told'
  BY <1>0, <1>2, <1>8 DEF Told
<1>12. Known' /\ Addressed'
  BY <1>0, <1>2 DEF Known, Addressed
<1>13. Doomed'
  BY <1>0, <1>2 DEF Doomed, Deletes, DeleteSent
<1>14. Held'
  BY <1>0, <1>2, <1>8 DEF Held, DeleteSent, Types, ServerTypes
<1> QED BY <1>9, <1>10, <1>11, <1>12, <1>13, <1>14 DEF Unmixed

\* The client takes a status.
LEMMA UnmixedStatus ==
  ASSUME Types, Unmixed, answers # <<>>, "to" \notin DOMAIN Head(answers), answers' = Tail(answers),
         UNCHANGED <<pc, reply, commands, cstreams, deleted, media, sstreams, sloop>>
  PROVE  Unmixed'
<1> USE Numbers
<1>0. Apart /\ Told /\ Known /\ Doomed /\ Held /\ Addressed
  BY DEF Unmixed
<1>1. /\ Len(answers) \in Nat \ {0} /\ Len(answers') = Len(answers) - 1
      /\ DOMAIN answers = 1 .. Len(answers) /\ DOMAIN answers' = 1 .. Len(answers')
      /\ \A k \in 1 .. Len(answers') : answers'[k] = answers[k + 1]
      /\ "to" \notin DOMAIN answers[1]
  BY Taken DEF Types, WireTypes
<1>2. \A i \in StreamIDs, n \in Serials : Sent(i, n)' <=> Sent(i, n)
  <2> TAKE i \in StreamIDs, n \in Serials
  <2>1. Sent(i, n)' => Sent(i, n)
    <3> SUFFICES ASSUME NEW k \in 1 .. Len(answers'), answers[k + 1] = Result(CreateTransaction, i, n)
                 PROVE  Sent(i, n)
      BY <1>1 DEF Sent, Result
    <3>1. k + 1 \in 1 .. Len(answers)
      BY <1>1
    <3> QED BY <3>1, <1>1 DEF Sent
  <2>2. Sent(i, n) => Sent(i, n)'
    <3> SUFFICES ASSUME NEW k \in 1 .. Len(answers), answers[k] = Result(CreateTransaction, i, n)
                 PROVE  Sent(i, n)'
      BY <1>1 DEF Sent
    <3>1. k # 1
      BY <1>1 DEF Result
    <3>2. k - 1 \in 1 .. Len(answers') /\ answers'[k - 1] = answers[k]
      BY <3>1, <1>1
    <3> QED BY <3>2, <1>1 DEF Sent, Result
  <2> QED BY <2>1, <2>2
<1>3. \A i \in StreamIDs, n \in Serials : Coming(i, n)' <=> Coming(i, n)
  <2> TAKE i \in StreamIDs, n \in Serials
  <2>1. Coming(i, n) <=> Sent(i, n) \/ \E w \in Users : Got(w, i, n)
    BY DEF Coming, Sent, Got
  <2>2. Coming(i, n)' <=> Sent(i, n)' \/ \E w \in Users : Got(w, i, n)
    BY DEF Coming, Sent, Got
  <2> QED BY <2>1, <2>2, <1>2
<1>4. Once'
  BY <1>2 DEF Unmixed, Once, Got
<1>5. Apart'
  <2>1. \A k \in 1 .. Len(answers') : Answers(k, CreateTransaction)' =>
          k + 1 \in 1 .. Len(answers) /\ Answers(k + 1, CreateTransaction)
    BY <1>1 DEF Answers
  <2>2. Answered(CreateTransaction)' => Answered(CreateTransaction)
    BY <2>1 DEF Answered
  <2> QED BY <2>2, <1>0 DEF Apart, Asks, Settled
<1>6. Told'
  BY <1>0, <1>3 DEF Told
<1>7. Known' /\ Addressed'
  BY <1>0 DEF Known, Addressed
<1>8. Doomed'
  BY <1>0 DEF Doomed, Deletes, DeleteSent
<1>9. Held'
  BY <1>0, <1>3 DEF Held, DeleteSent, Types, ServerTypes
<1> QED BY <1>4, <1>5, <1>6, <1>7, <1>8, <1>9 DEF Unmixed

\* What an answer adds to the streams that are being told to the client.
LEMMA SentAppended ==
  ASSUME Types, NEW a \in AnswerSet, answers' = Append(answers, a),
         NEW i \in StreamIDs, NEW n \in Serials
  PROVE  /\ Sent(i, n)' <=> Sent(i, n) \/ a = Result(CreateTransaction, i, n)
         /\ Answered(CreateTransaction)' =>
              Answered(CreateTransaction) \/ ("to" \in DOMAIN a /\ a.to = CreateTransaction)
<1>1. /\ Len(answers) \in Nat /\ Len(answers') = Len(answers) + 1
      /\ DOMAIN answers = 1 .. Len(answers) /\ DOMAIN answers' = 1 .. Len(answers')
      /\ \A k \in 1 .. Len(answers) : answers'[k] = answers[k]
      /\ answers'[Len(answers) + 1] = a
  BY Appended DEF Types, WireTypes
<1>2. \A k \in 1 .. Len(answers') : k \in 1 .. Len(answers) \/ k = Len(answers) + 1
  BY <1>1
<1>3. Len(answers) + 1 \in 1 .. Len(answers') /\ \A k \in 1 .. Len(answers) : k \in 1 .. Len(answers')
  BY <1>1
<1>4. Sent(i, n)' <=> Sent(i, n) \/ a = Result(CreateTransaction, i, n)
  <2> DEFINE r == Result(CreateTransaction, i, n)
  <2>1. r' = r
    BY DEF Result
  <2> HIDE DEF r
  <2>2. (\E k \in DOMAIN answers' : answers'[k] = r) <=> (\E k \in DOMAIN answers : answers[k] = r) \/ a = r
    BY <1>1, <1>2, <1>3
  <2> QED BY <2>1, <2>2 DEF Sent, r
<1>5. Answered(CreateTransaction)' =>
        Answered(CreateTransaction) \/ ("to" \in DOMAIN a /\ a.to = CreateTransaction)
  BY <1>1, <1>2 DEF Answered, Answers
<1> QED BY <1>4, <1>5

\* The server takes a command that is no deletion and makes no stream.
LEMMA UnmixedServed ==
  ASSUME Types, Unmixed, commands # <<>>, commands' = Tail(commands),
         Head(commands).type # "deleteStream",
         \A i \in StreamIDs, n \in Serials : Sent(i, n)' <=> Sent(i, n),
         Answered(CreateTransaction)' =>
           Answered(CreateTransaction) \/ Head(commands).type = "createStream",
         UNCHANGED <<pc, reply, cstreams, deleted, media, sstreams>>, sloop' \in {sloop, "ended"}
  PROVE  Unmixed'
<1> USE Numbers
<1>0. Apart /\ Told /\ Known /\ Doomed /\ Held /\ Addressed
  BY DEF Unmixed
<1>1. /\ Len(commands) \in Nat \ {0} /\ Len(commands') = Len(commands) - 1
      /\ DOMAIN commands = 1 .. Len(commands) /\ DOMAIN commands' = 1 .. Len(commands')
      /\ \A k \in 1 .. Len(commands') : commands'[k] = commands[k + 1]
      /\ commands[1] = Head(commands)
  BY Taken DEF Types, WireTypes
<1>2. 1 \in 1 .. Len(commands) /\ \A k \in 1 .. Len(commands') : k + 1 \in 1 .. Len(commands)
  BY <1>1
<1>3. \A k \in 1 .. Len(commands) : commands[k].type = "deleteStream" =>
        k - 1 \in 1 .. Len(commands') /\ commands'[k - 1] = commands[k]
  BY <1>1
<1>4. Settled => Settled'
  BY <1>1, <1>2 DEF Settled
<1>5. \A i \in StreamIDs : DeleteSent(i) => DeleteSent(i)'
  <2> SUFFICES ASSUME NEW i \in StreamIDs, NEW k \in 1 .. Len(commands),
                      commands[k] = [type |-> "deleteStream", id |-> i]
               PROVE  DeleteSent(i)'
    BY <1>1 DEF DeleteSent
  <2>1. commands[k].type = "deleteStream"
    OBVIOUS
  <2> QED BY <2>1, <1>1, <1>3 DEF DeleteSent
<1>6. \A i \in StreamIDs : \A k \in 1 .. Len(commands') :
        Deletes(k, i)' => k + 1 \in 1 .. Len(commands) /\ Deletes(k + 1, i)
  BY <1>1, <1>2 DEF Deletes
<1>7. \A i \in StreamIDs, n \in Serials : Coming(i, n)' <=> Coming(i, n)
  <2> TAKE i \in StreamIDs, n \in Serials
  <2>1. Coming(i, n) <=> Sent(i, n) \/ \E w \in Users : Got(w, i, n)
    BY DEF Coming, Sent, Got
  <2>2. Coming(i, n)' <=> Sent(i, n)' \/ \E w \in Users : Got(w, i, n)
    BY DEF Coming, Sent, Got
  <2> QED BY <2>1, <2>2
<1>8. Apart'
  <2>1. Head(commands).type = "createStream" => Settled
    <3> SUFFICES ASSUME Head(commands).type = "createStream", NEW k \in 1 .. Len(commands),
                        commands[k].type = "deleteStream"
                 PROVE  FALSE
      BY DEF Settled
    <3>1. Asks(1, CreateTransaction)
      BY <1>1 DEF Asks, TypeOf
    <3> QED BY <3>1, <1>0, <1>2 DEF Apart
  <2>2. ASSUME NEW j \in 1 .. Len(commands'), NEW k \in 1 .. Len(commands'),
               Asks(j, CreateTransaction)', commands'[k].type = "deleteStream"
        PROVE  k < j
    <3>1. k + 1 < j + 1
      BY <2>2, <1>0, <1>1, <1>2 DEF Apart, Asks
    <3> QED BY <3>1
  <2>3. Answered(CreateTransaction)' => Settled'
    BY <2>1, <1>0, <1>4 DEF Apart
  <2>4. \A w \in Users : pc'[w] = <<"create", 0>> /\ reply'[w] # NoReply => Settled'
    BY <1>0, <1>4 DEF Apart
  <2>5. \A v, w \in Users : v # w /\ pc'[v][1] \in {"check", "delete"} =>
          pc'[w][1] \notin {"create", "check", "delete"}
    BY <1>0 DEF Apart
  <2> QED BY <2>2, <2>3, <2>4, <2>5 DEF Apart
<1>9. Once'
  BY DEF Unmixed, Once, Got
<1>10. Told'
  BY <1>0, <1>7 DEF Told
<1>11. Known' /\ Addressed'
  BY <1>0 DEF Known, Addressed
<1>12. sloop' = "read" => sloop = "read"
  OBVIOUS
<1>13. Doomed'
  BY <1>0, <1>5, <1>6, <1>12 DEF Doomed
<1>14. Held'
  BY <1>0, <1>5, <1>7, <1>12 DEF Held, Types, ServerTypes
<1> QED BY <1>8, <1>9, <1>10, <1>11, <1>13, <1>14 DEF Unmixed

\* The server makes a stream: the client has nothing of that ID left.
LEMMA UnmixedMade ==
  ASSUME Types, OneOpen, Bounded, Counted, Unmixed, commands # <<>>, commands' = Tail(commands),
         Head(commands).type = "createStream",
         NEW i \in StreamIDs, sstreams[i] = 0, made + 1 \in Serials,
         sstreams' = [sstreams EXCEPT ![i] = made + 1],
         answers' = Append(answers, Result(CreateTransaction, i, made + 1)),
         UNCHANGED <<pc, reply, cstreams, deleted, media, sloop>>
  PROVE  Unmixed'
<1> USE Numbers
<1>0. Apart /\ Told /\ Known /\ Doomed /\ Held /\ Addressed
  BY DEF Unmixed
<1>15. PICK n \in Serials : n = made + 1
  OBVIOUS
<1> DEFINE a == Result(CreateTransaction, i, n)
<1>1. a \in AnswerSet /\ answers' = Append(answers, a)
  BY <1>15, ResultKind
<1>2. sstreams'[i] = n /\ \A j \in StreamIDs : j # i => sstreams'[j] = sstreams[j]
  BY <1>15 DEF Types, ServerTypes
<1>3. (\A j \in StreamIDs : sstreams[j] # n) /\ n \notin deleted /\ n # 0
  BY <1>15 DEF Bounded, Counted, Types, ServerTypes
<1>4. /\ Len(commands) \in Nat \ {0} /\ Len(commands') = Len(commands) - 1
      /\ DOMAIN commands = 1 .. Len(commands) /\ DOMAIN commands' = 1 .. Len(commands')
      /\ \A k \in 1 .. Len(commands') : commands'[k] = commands[k + 1]
      /\ commands[1] = Head(commands) /\ 1 \in 1 .. Len(commands)
      /\ \A k \in 1 .. Len(commands') : k + 1 \in 1 .. Len(commands)
  BY Taken DEF Types, WireTypes
<1>5. Asks(1, CreateTransaction)
  BY <1>4 DEF Asks, TypeOf
<1>6. Settled /\ Settled'
  <2>1. Settled
    BY <1>0, <1>4, <1>5 DEF Apart, Settled
  <2> QED BY <2>1, <1>4 DEF Settled
<1>7. \A w \in Users : pc[w][1] \notin {"check", "delete"}
  <2>1. Waits(CreateTransaction)
    BY <1>4, <1>5 DEF OneOpen, Asked
  <2> QED BY <2>1, <1>0 DEF Waits, Apart, CallOf
<1>8. \A j \in StreamIDs : cstreams[j] \notin deleted
  <2>1. \A j \in StreamIDs, w \in Users : pc[w] # <<"delete", j>>
    BY <1>7
  <2> QED BY <2>1, <1>0 DEF Known
<1>9. cstreams[i] = 0
  BY <1>0, <1>8 DEF Known
<1>10. ASSUME NEW j \in StreamIDs, NEW m \in Serials
       PROVE  Sent(j, m)' <=> Sent(j, m) \/ (j = i /\ m = n)
  <2>1. a = Result(CreateTransaction, j, m) <=> j = i /\ m = n
    <3>1. Result(CreateTransaction, j, m).reply = [name |-> "_result", id |-> j, serial |-> m]
      BY DEF Result
    <3>2. a.reply = [name |-> "_result", id |-> i, serial |-> n]
      BY DEF Result
    <3>3. [name |-> "_result", id |-> j, serial |-> m] = [name |-> "_result", id |-> i, serial |-> n]
            => j = i /\ m = n
      OBVIOUS
    <3> QED BY <3>1, <3>2, <3>3
  <2> HIDE DEF a
  <2> QED BY <1>1, <2>1, SentAppended
<1>11. ASSUME NEW j \in StreamIDs, NEW m \in Serials
       PROVE  Coming(j, m)' <=> Coming(j, m) \/ (j = i /\ m = n)
  <2>1. Coming(j, m) <=> Sent(j, m) \/ \E w \in Users : Got(w, j, m)
    BY DEF Coming, Sent, Got
  <2>2. Coming(j, m)' <=> Sent(j, m)' \/ \E w \in Users : Got(w, j, m)
    BY DEF Coming, Sent, Got
  <2> QED BY <2>1, <2>2, <1>10
<1>12. ASSUME NEW j \in StreamIDs, NEW m \in Serials, Coming(j, m)
       PROVE  j # i /\ m # n /\ sstreams[j] = m /\ cstreams[j] = 0 /\ m \notin deleted
  BY <1>12, <1>0, <1>3 DEF Told
<1>13. Apart'
  <2>1. \A w \in Users : pc'[w][1] \notin {"check", "delete"}
    BY <1>7
  <2> QED BY <2>1, <1>6 DEF Apart, Settled
<1>14. Told'
  BY <1>2, <1>3, <1>9, <1>11, <1>12 DEF Told
<1>16. Once'
  <2> SUFFICES ASSUME NEW j \in StreamIDs, NEW m \in Serials, NEW u \in Users, NEW w \in Users,
                      Got(u, j, m)
               PROVE  ~Sent(j, m)' /\ (Got(w, j, m) => u = w)
    BY DEF Once, Got
  <2>1. Once
    BY DEF Unmixed
  <2>2. Coming(j, m)
    BY DEF Coming, Got
  <2> QED BY <2>1, <2>2, <1>10, <1>12 DEF Once
<1>17. Known'
  BY <1>0, <1>2, <1>8, <1>9 DEF Known
<1>18. Doomed'
  <2>1. \A j \in StreamIDs : \A k \in 1 .. Len(commands') : ~Deletes(k, j)'
    BY <1>6 DEF Settled, Deletes
  <2>2. \A j \in StreamIDs, w \in Users : pc'[w] # <<"delete", j>>
    BY <1>7
  <2> QED BY <2>1, <2>2 DEF Doomed
<1>19. Held'
  <2> SUFFICES ASSUME sloop = "read", NEW j \in StreamIDs, sstreams'[j] # 0
               PROVE  cstreams'[j] = sstreams'[j] \/ Coming(j, sstreams[j])'
    BY DEF Held
  <2>1. PICK m \in Serials : m = sstreams'[j]
    BY <1>2 DEF Types, ServerTypes
  <2>4. Coming(j, m)' => Coming(j, sstreams[j])'
    BY <2>1 DEF Coming
  <2>2. CASE j = i
    BY <2>1, <2>2, <2>4, <1>2, <1>11
  <2>3. CASE j # i
    <3>1. m = sstreams[j] /\ sstreams[j] # 0
      BY <2>1, <2>3, <1>2
    <3>2. \A k \in DOMAIN commands : commands[k] # [type |-> "deleteStream", id |-> j]
      BY <1>4, <1>6 DEF Settled
    <3>3. cstreams[j] = m \/ Coming(j, m)
      BY <3>1, <3>2, <1>0 DEF Held, DeleteSent
    <3> QED BY <3>3, <2>1, <2>4, <1>11
  <2> QED BY <2>2, <2>3
<1>20. Addressed'
  <2> SUFFICES ASSUME NEW k \in 1 .. Len(media), media[k].of \notin deleted
               PROVE  sstreams'[media[k].id] = media[k].of
    BY DEF Addressed
  <2>1. media[k].id \in StreamIDs /\ media[k].of \in Serials
    <3>1. media[k] \in Media
      BY LenProperties DEF Types, WireTypes
    <3> QED BY <3>1 DEF Media
  <2> QED BY <2>1, <1>0, <1>2 DEF Addressed
<1> QED BY <1>13, <1>14, <1>16, <1>17, <1>18, <1>19, <1>20 DEF Unmixed

\* The server takes a deletion: no call is about that stream any more.
LEMMA UnmixedDeleted ==
  ASSUME Types, OneOpen, Unmixed, commands # <<>>, commands' = Tail(commands),
         NEW i \in StreamIDs, Head(commands) = [type |-> "deleteStream", id |-> i],
         \/ /\ sstreams' = [sstreams EXCEPT ![i] = 0]
            /\ sloop' \in {sloop, "ended"}
         \/ sstreams' = sstreams /\ sloop' = "ended",
         UNCHANGED <<pc, reply, answers, cstreams, deleted, media>>
  PROVE  Unmixed'
<1> USE Numbers
<1>0. Apart /\ Told /\ Known /\ Doomed /\ Held /\ Addressed
  BY DEF Unmixed
<1>1. /\ Len(commands) \in Nat \ {0} /\ Len(commands') = Len(commands) - 1
      /\ DOMAIN commands = 1 .. Len(commands) /\ DOMAIN commands' = 1 .. Len(commands')
      /\ \A k \in 1 .. Len(commands') : commands'[k] = commands[k + 1]
      /\ commands[1] = [type |-> "deleteStream", id |-> i]
  <2>1. commands \in Seq(Requests)
    BY DEF Types, WireTypes
  <2> QED BY <2>1, Taken
<1>15. 1 \in 1 .. Len(commands) /\ \A k \in 1 .. Len(commands') : k + 1 \in 1 .. Len(commands)
  BY <1>1
<1>14. \A k \in 1 .. Len(commands) :
         k # 1 => k - 1 \in 1 .. Len(commands') /\ commands'[k - 1] = commands[k]
  BY <1>1
<1>2. Deletes(1, i) /\ ~Settled
  BY <1>1, <1>15 DEF Deletes, Settled
<1>3. sstreams[i] \in deleted \cup {0}
  BY <1>0, <1>1, <1>2, <1>15 DEF Doomed
<1>4. \A j \in StreamIDs, n \in Serials : ~Coming(j, n)
  BY <1>0, <1>2, Creating
<1>5. \A j \in StreamIDs, n \in Serials : ~Coming(j, n)'
  BY <1>4 DEF Coming, Result
<1>6. /\ \A j \in StreamIDs : sstreams'[j] = sstreams[j] \/ (j = i /\ sstreams'[j] = 0)
      /\ sloop' = "read" => sloop = "read" /\ sstreams'[i] = 0
      /\ \A j \in StreamIDs : sstreams[j] = 0 => sstreams'[j] = 0
  BY DEF Types, ServerTypes
<1>7. Apart'
  <2>1. ASSUME NEW j \in 1 .. Len(commands'), NEW k \in 1 .. Len(commands'),
               Asks(j, CreateTransaction)', commands'[k].type = "deleteStream"
        PROVE  k < j
    <3>1. k + 1 < j + 1
      BY <2>1, <1>0, <1>1, <1>15 DEF Apart, Asks
    <3> QED BY <3>1
  <2>2. ~Answered(CreateTransaction)'
    BY <1>0, <1>2 DEF Apart, Answered, Answers
  <2>3. \A w \in Users : ~(pc'[w] = <<"create", 0>> /\ reply'[w] # NoReply)
    BY <1>0, <1>2 DEF Apart
  <2>4. \A v, w \in Users : v # w /\ pc'[v][1] \in {"check", "delete"} =>
          pc'[w][1] \notin {"create", "check", "delete"}
    BY <1>0 DEF Apart
  <2> QED BY <2>1, <2>2, <2>3, <2>4 DEF Apart
<1>8. Told' /\ Once'
  BY <1>5 DEF Told, Once, Coming, Got
<1>9. Known'
  <2>1. \A j \in StreamIDs : cstreams[j] # 0 => cstreams[j] = sstreams'[j] \/ cstreams[j] \in deleted
    BY <1>0, <1>3, <1>6 DEF Known
  <2> QED BY <2>1, <1>0 DEF Known
<1>10. \A j \in StreamIDs : j # i /\ DeleteSent(j) => DeleteSent(j)'
  <2> SUFFICES ASSUME NEW j \in StreamIDs, j # i, NEW k \in 1 .. Len(commands),
                      commands[k] = [type |-> "deleteStream", id |-> j]
               PROVE  DeleteSent(j)'
    BY <1>1 DEF DeleteSent
  <2>1. commands[k].id = j
    OBVIOUS
  <2>2. commands[1].id = i
    BY <1>1
  <2>3. k # 1
    BY <2>1, <2>2
  <2> QED BY <2>3, <1>1, <1>14 DEF DeleteSent
<1>11. Doomed'
  <2>1. \A j \in StreamIDs : \A k \in 1 .. Len(commands') :
          Deletes(k, j)' => sstreams'[j] \in deleted \cup {0}
    <3>1. \A j \in StreamIDs : \A k \in 1 .. Len(commands') :
            Deletes(k, j)' => k + 1 \in 1 .. Len(commands) /\ Deletes(k + 1, j)
      BY <1>1, <1>15 DEF Deletes
    <3> QED BY <3>1, <1>0, <1>6 DEF Doomed
  <2>2. ASSUME NEW j \in StreamIDs, NEW w \in Users, pc[w] = <<"delete", j>>,
               sloop' = "read", sstreams'[j] # 0
        PROVE  DeleteSent(j)'
    BY <2>2, <1>0, <1>6, <1>10 DEF Doomed
  <2> QED BY <2>1, <2>2 DEF Doomed
<1>12. Held'
  <2> SUFFICES ASSUME sloop' = "read", NEW j \in StreamIDs, sstreams'[j] # 0
               PROVE  cstreams[j] = sstreams'[j] \/ DeleteSent(j)'
    BY DEF Held
  <2>1. sloop = "read" /\ j # i /\ sstreams'[j] = sstreams[j] /\ sstreams[j] \in Serials
    BY <1>6 DEF Types, ServerTypes
  <2>2. cstreams[j] = sstreams[j] \/ DeleteSent(j)
    BY <2>1, <1>0, <1>4 DEF Held
  <2> QED BY <2>1, <2>2, <1>10
<1>13. Addressed'
  <2> SUFFICES ASSUME NEW k \in 1 .. Len(media), media[k].of \notin deleted
               PROVE  sstreams'[media[k].id] = media[k].of
    BY DEF Addressed
  <2>1. media[k].id \in StreamIDs /\ media[k].of \in Serials
    <3>1. media[k] \in Media
      BY LenProperties DEF Types, WireTypes
    <3> QED BY <3>1 DEF Media
  <2> QED BY <2>1, <1>0, <1>3, <1>6 DEF Addressed
<1> QED BY <1>7, <1>8, <1>9, <1>11, <1>12, <1>13 DEF Unmixed

-----------------------------------------------------------------------------
(* Every action keeps the types. *)

\* A set of numbers that is not empty has a least one.
LEMMA Least ==
  ASSUME NEW S, S \subseteq Nat, S # {}
  PROVE  (CHOOSE i \in S : \A j \in S : i <= j) \in S
<1>1. PICK i \in S : \A j \in S : ~(<<j, i>> \in OpToRel(<, Nat))
  BY NatLessThanWellFounded, WFMin
<1>2. \A j \in S : ~(j < i)
  BY <1>1, Zenon DEF OpToRel
<1>3. \A j \in S : i <= j
  BY <1>2
<1> QED BY <1>3

\* CreateIfAvailable takes a free ID.
LEMMA Made ==
  ASSUME Available # {}, CreateIfAvailable
  PROVE  \E i \in StreamIDs :
           /\ sstreams[i] = 0
           /\ sstreams' = [sstreams EXCEPT ![i] = made + 1]
           /\ sstate' = [sstate EXCEPT ![i] = "Inactive"]
           /\ answers' = Append(answers, Result(CreateTransaction, i, made + 1))
<1>1. Available \subseteq Nat
  BY Numbers DEF Available
<1>2. (CHOOSE i \in Available : \A j \in Available : i <= j) \in Available
  BY <1>1, Least
<1>3. (CHOOSE i \in Available : \A j \in Available : i <= j) \in StreamIDs
      /\ sstreams[CHOOSE i \in Available : \A j \in Available : i <= j] = 0
  BY <1>2 DEF Available
<1> QED BY <1>3 DEF CreateIfAvailable

\* A sequence stays one when something of its kind is appended or its head taken.
LEMMA StaysSeq ==
  ASSUME NEW S, NEW s \in Seq(S)
  PROVE  (\A e \in S : Append(s, e) \in Seq(S)) /\ (s # <<>> => Tail(s) \in Seq(S))
BY AppendProperties, HeadTailProperties

\* The users' actions.
LEMMA TypesUser ==
  ASSUME Types, RepliesFit, NEW u \in Users,
         \/ Connect(u) \/ CreateStream(u)
         \/ \E i \in StreamIDs : DeleteStream(u, i) \/ Publish(u, i) \/ WriteMedia(u, i)
         \/ UserReturns(u)
  PROVE  Types'
<1> USE Numbers
<1>1. ServerTypes' /\ open' \in BOOLEAN
  BY DEF Types, ServerTypes, serverVars, Connect, CreateStream, DeleteStream, Publish, WriteMedia,
         UserReturns, ConnectReturns, CreateStreamReturns, SendDelete, DeleteStreamReturns
<1>2. CASE Connect(u)
  <2>1. UserTypes'
    BY <1>2 DEF Types, UserTypes, Connect, Request
  <2>2. [type |-> "connect"] \in Requests
    BY DEF Requests
  <2>3. WireTypes'
    BY <1>2, <2>2, StaysSeq DEF Types, WireTypes, Connect, Request
  <2> QED BY <1>1, <2>1, <2>3 DEF Types
<1>3. CASE CreateStream(u)
  <2>1. UserTypes'
    BY <1>3 DEF Types, UserTypes, CreateStream, Request, Beside
  <2>2. [type |-> "createStream"] \in Requests
    BY DEF Requests
  <2>3. WireTypes'
    BY <1>3, <2>2, StaysSeq DEF Types, WireTypes, CreateStream, Request
  <2> QED BY <1>1, <2>1, <2>3 DEF Types
<1>4. ASSUME NEW i \in StreamIDs, DeleteStream(u, i) PROVE Types'
  <2>1. UserTypes'
    BY <1>4 DEF Types, UserTypes, DeleteStream, Beside
  <2>2. WireTypes'
    BY <1>4 DEF Types, WireTypes, DeleteStream
  <2> QED BY <1>1, <2>1, <2>2 DEF Types
<1>5. ASSUME NEW i \in StreamIDs, Publish(u, i) PROVE Types'
  <2>1. UserTypes'
    BY <1>5 DEF Types, UserTypes, Publish
  <2>2. [type |-> "publish", id |-> i] \in Requests
    BY DEF Requests
  <2>3. WireTypes'
    BY <1>5, <2>2, StaysSeq DEF Types, WireTypes, Publish
  <2> QED BY <1>1, <2>1, <2>3 DEF Types
<1>6. ASSUME NEW i \in StreamIDs, WriteMedia(u, i) PROVE Types'
  <2>1. UserTypes'
    BY <1>6 DEF Types, UserTypes, WriteMedia, clientVars
  <2>2. [id |-> i, of |-> cstreams[i]] \in Media
    BY <1>6 DEF Media, WriteMedia, Types, UserTypes
  <2>3. WireTypes'
    BY <1>6, <2>2, StaysSeq DEF Types, WireTypes, WriteMedia
  <2> QED BY <1>1, <2>1, <2>3 DEF Types
<1>7. CASE ConnectReturns(u)
  <2>1. UserTypes'
    BY <1>7 DEF Types, UserTypes, ConnectReturns, Return, Idle
  <2>2. WireTypes'
    BY <1>7 DEF Types, WireTypes, ConnectReturns
  <2> QED BY <1>1, <2>1, <2>2 DEF Types
<1>8. CASE CreateStreamReturns(u)
  <2>1. ForStream(reply[u])
    BY <1>8 DEF CreateStreamReturns, RepliesFit
  <2>2. UserTypes'
    <3>1. cstreams' \in [StreamIDs -> Serials \cup {0}]
      BY <1>8, <2>1 DEF Types, UserTypes, CreateStreamReturns, ForStream
    <3>2. pc' \in [Users -> {"idle", "connect", "create", "check", "delete"} \X (StreamIDs \cup {0})]
      BY <1>8 DEF Types, UserTypes, CreateStreamReturns, Return, Idle
    <3> QED BY <1>8, <3>1, <3>2 DEF Types, UserTypes, CreateStreamReturns
  <2>3. WireTypes'
    BY <1>8 DEF Types, WireTypes, CreateStreamReturns
  <2> QED BY <1>1, <2>2, <2>3 DEF Types
<1>9. ASSUME NEW i \in StreamIDs, SendDelete(u, i) PROVE Types'
  <2>1. UserTypes'
    BY <1>9 DEF Types, UserTypes, SendDelete
  <2>2. [type |-> "deleteStream", id |-> i] \in Requests
    BY DEF Requests
  <2>3. WireTypes'
    BY <1>9, <2>2, StaysSeq DEF Types, WireTypes, SendDelete
  <2> QED BY <1>1, <2>1, <2>3 DEF Types
<1>10. ASSUME NEW i \in StreamIDs, DeleteStreamReturns(u, i) PROVE Types'
  <2>1. UserTypes'
    BY <1>10 DEF Types, UserTypes, DeleteStreamReturns, Return, Idle
  <2>2. WireTypes'
    BY <1>10 DEF Types, WireTypes, DeleteStreamReturns
  <2> QED BY <1>1, <2>1, <2>2 DEF Types
<1> QED BY <1>2, <1>3, <1>4, <1>5, <1>6, <1>7, <1>8, <1>9, <1>10 DEF UserReturns

\* The client's loop.
LEMMA TypesClient ==
  ASSUME Types, OneOpen, RepliesFit, ClientLoop
  PROVE  Types'
<1> USE Numbers
<1>1. ServerTypes' /\ open' \in BOOLEAN
  BY DEF Types, ServerTypes, serverVars, ClientLoop, HandleResult, HandleStatus, ReadFails,
         DeleteTransaction
<1>2. /\ Reading \in {"read", "ended"} \X {0} \cup {"delete"} \X Transactions
      /\ Ended \in {"read", "ended"} \X {0} \cup {"delete"} \X Transactions
      /\ \A t \in Transactions :
           <<"delete", t>> \in {"read", "ended"} \X {0} \cup {"delete"} \X Transactions
  BY DEF Reading, Ended
<1>3. CASE HandleResult
  <2>1. PICK t \in Transactions, rep \in Replies :
           /\ Waits(t)
           /\ reply' = [reply EXCEPT ![transactions[t]] = rep]
           /\ cloop' = <<"delete", t>> /\ stray' = stray
    BY <1>3, ReplyFinds
  <2>2. reply' \in [Users -> Replies \cup {NoReply}]
    BY <2>1 DEF Types, UserTypes, Waits
  <2>3. UserTypes'
    BY <1>2, <1>3, <2>1, <2>2 DEF Types, UserTypes, HandleResult
  <2>4. WireTypes'
    BY <1>3, StaysSeq DEF Types, WireTypes, HandleResult
  <2> QED BY <1>1, <2>3, <2>4 DEF Types
<1>4. CASE HandleStatus
  <2>1. cloop' \in {"read", "ended"} \X {0} \cup {"delete"} \X Transactions
    BY <1>2, <1>4 DEF Types, UserTypes, HandleStatus
  <2>2. UserTypes'
    BY <1>4, <2>1 DEF Types, UserTypes, HandleStatus
  <2>3. WireTypes'
    BY <1>4, StaysSeq DEF Types, WireTypes, HandleStatus
  <2> QED BY <1>1, <2>2, <2>3 DEF Types
<1>5. CASE ReadFails
  <2>1. cloop' \in {"read", "ended"} \X {0} \cup {"delete"} \X Transactions
    BY <1>2, <1>5 DEF ReadFails
  <2>2. UserTypes'
    BY <1>5, <2>1 DEF Types, UserTypes, ReadFails
  <2>3. WireTypes'
    BY <1>5 DEF Types, WireTypes, ReadFails
  <2> QED BY <1>1, <2>2, <2>3 DEF Types
<1>6. ASSUME NEW t \in Transactions, DeleteTransaction(t) PROVE Types'
  <2>1. cloop' \in {"read", "ended"} \X {0} \cup {"delete"} \X Transactions
    BY <1>2, <1>6 DEF DeleteTransaction
  <2>2. UserTypes'
    BY <1>6, <2>1 DEF Types, UserTypes, DeleteTransaction
  <2>3. WireTypes'
    BY <1>6 DEF Types, WireTypes, DeleteTransaction
  <2> QED BY <1>1, <2>2, <2>3 DEF Types
<1> QED BY <1>3, <1>4, <1>5, <1>6 DEF ClientLoop

\* The server's loop takes a command of a kind.
LEMMA Received ==
  ASSUME Types, NEW type, Receives(type)
  PROVE  /\ open /\ sloop = "read" /\ commands # <<>> /\ commands' = Tail(commands)
         /\ Head(commands) = commands[1] /\ commands[1] \in Requests /\ commands[1].type = type
         /\ 1 \in 1 .. Len(commands)
         /\ commands' \in Seq(Requests)
<1>1. /\ commands \in Seq(Requests) /\ commands # <<>>
      /\ commands' = Tail(commands) /\ Head(commands).type = type /\ open /\ sloop = "read"
  BY DEF Types, WireTypes, Receives
<1> QED BY <1>1, Taken

\* The server's loop, on commands and on media, and the connection.
LEMMA TypesServer ==
  ASSUME Types, OneOpen, Bounded, ServerLoop \/ OnMedia \/ Break
  PROVE  Types'
<1> USE Numbers
<1>1. UserTypes'
  BY DEF Types, UserTypes, clientVars, ServerLoop, OnMedia, Break, OnConnect, OnCreateStream,
         OnCreateStreamRefused, CreateStreamReplyFails, OnDeleteStream, OnPublish, ServerReadFails
<1>2. open' \in BOOLEAN
  BY DEF Types, ServerLoop, OnMedia, Break, OnConnect, OnCreateStream,
         OnCreateStreamRefused, CreateStreamReplyFails, OnDeleteStream, OnPublish, ServerReadFails
<1>3. CASE OnConnect
  <2>1. commands' \in Seq(Requests)
    BY <1>3, Received DEF OnConnect
  <2>2. Result(ConnectTransaction, 0, 0) \in AnswerSet /\ Refusal(ConnectTransaction) \in AnswerSet
    BY ResultKind
  <2>3. WireTypes'
    BY <1>3, <2>1, <2>2, StaysSeq DEF Types, WireTypes, OnConnect
  <2>4. ServerTypes'
    BY <1>3 DEF Types, ServerTypes, OnConnect
  <2> QED BY <1>1, <1>2, <2>3, <2>4 DEF Types
<1>4. CASE OnCreateStream
  <2>1. commands' \in Seq(Requests) /\ Asks(1, CreateTransaction) /\ 1 \in 1 .. Len(commands)
    BY <1>4, Received DEF OnCreateStream, Asks, TypeOf
  <2>2. made < MaxCreates
    BY <2>1 DEF Bounded, Asked
  <2>3. made + 1 \in Serials
    BY <2>2 DEF Types, ServerTypes, Serials
  <2>4. PICK i \in StreamIDs :
           /\ sstreams[i] = 0
           /\ sstreams' = [sstreams EXCEPT ![i] = made + 1]
           /\ sstate' = [sstate EXCEPT ![i] = "Inactive"]
           /\ answers' = Append(answers, Result(CreateTransaction, i, made + 1))
    BY <1>4, Made DEF OnCreateStream
  <2>5. Result(CreateTransaction, i, made + 1) \in AnswerSet
    BY <2>3, ResultKind
  <2>6. WireTypes'
    BY <1>4, <2>1, <2>4, <2>5, StaysSeq DEF Types, WireTypes, OnCreateStream
  <2>7. made' \in 0 .. MaxCreates
    BY <1>4, <2>2 DEF Types, ServerTypes, OnCreateStream
  <2>8. ServerTypes'
    BY <1>4, <2>3, <2>4, <2>7 DEF Types, ServerTypes, OnCreateStream
  <2> QED BY <1>1, <1>2, <2>6, <2>8 DEF Types
<1>5. CASE OnCreateStreamRefused
  <2>1. commands' \in Seq(Requests)
    BY <1>5, Received DEF OnCreateStreamRefused
  <2>2. Refusal(CreateTransaction) \in AnswerSet
    BY ResultKind
  <2>3. WireTypes'
    BY <1>5, <2>1, <2>2, StaysSeq DEF Types, WireTypes, OnCreateStreamRefused, Refused
  <2>4. ServerTypes'
    BY <1>5 DEF Types, ServerTypes, OnCreateStreamRefused
  <2> QED BY <1>1, <1>2, <2>3, <2>4 DEF Types
<1>6. CASE CreateStreamReplyFails
  <2>1. commands' \in Seq(Requests)
    BY <1>6, Received DEF CreateStreamReplyFails
  <2>2. Refusal(CreateTransaction) \in AnswerSet
    BY ResultKind
  <2>3. WireTypes'
    <3>1. answers' \in {answers, Append(answers, Refusal(CreateTransaction))} /\ media' = media
      BY <1>6 DEF CreateStreamReplyFails, Refused
    <3> QED BY <2>1, <2>2, <3>1, StaysSeq DEF Types, WireTypes
  <2>4. ServerTypes'
    BY <1>6 DEF Types, ServerTypes, CreateStreamReplyFails
  <2> QED BY <1>1, <1>2, <2>3, <2>4 DEF Types
<1>7. CASE OnDeleteStream
  <2>1. commands' \in Seq(Requests) /\ Head(commands).id \in StreamIDs
    BY <1>7, Received, RequestKinds DEF OnDeleteStream
  <2>2. WireTypes'
    BY <1>7, <2>1 DEF Types, WireTypes, OnDeleteStream
  <2>3. ServerTypes'
    BY <1>7, <2>1 DEF Types, ServerTypes, OnDeleteStream, Remaining
  <2> QED BY <1>1, <1>2, <2>2, <2>3 DEF Types
<1>8. CASE OnPublish
  <2>1. commands' \in Seq(Requests) /\ Head(commands).id \in StreamIDs
    BY <1>8, Received, RequestKinds DEF OnPublish
  <2>2. [status |-> Head(commands).id] \in AnswerSet
    BY <2>1, StatusKind
  <2>3. answers' \in {answers, Append(answers, [status |-> Head(commands).id])} /\ media' = media
    BY <1>8 DEF OnPublish
  <2>4. WireTypes'
    BY <2>1, <2>2, <2>3, StaysSeq DEF Types, WireTypes
  <2>5. ServerTypes'
    BY <1>8, <2>1 DEF Types, ServerTypes, OnPublish
  <2> QED BY <1>1, <1>2, <2>4, <2>5 DEF Types
<1>9. CASE OnMedia
  <2>1. media' \in Seq(Media) /\ Head(media) \in Media
    BY <1>9, Taken DEF Types, WireTypes, OnMedia
  <2>2. WireTypes'
    BY <1>9, <2>1 DEF Types, WireTypes, OnMedia
  <2>3. Head(media).id \in StreamIDs /\ Head(media).of \in Serials
    BY <2>1 DEF Media
  <2>4. handed' \subseteq Serials \X Serials
    BY <1>9, <2>3 DEF Types, ServerTypes, OnMedia
  <2>5. ServerTypes'
    BY <1>9, <2>4 DEF Types, ServerTypes, OnMedia
  <2> QED BY <1>1, <1>2, <2>2, <2>5 DEF Types
<1>10. CASE ServerReadFails \/ Break
  BY <1>1, <1>2, <1>10 DEF Types, WireTypes, ServerTypes, ServerReadFails, Break, serverVars
<1> QED BY <1>3, <1>4, <1>5, <1>6, <1>7, <1>8, <1>9, <1>10 DEF ServerLoop

-----------------------------------------------------------------------------
(* Every action keeps the rest. *)

\* One transaction of a kind is under way, and replies fit.
LEMMA OpenKept ==
  ASSUME Types, OneOpen, RepliesFit, Bounded, Next
  PROVE  OneOpen' /\ RepliesFit'
<1> USE Numbers
<1>1. ASSUME NEW u \in Users, Connect(u) PROVE OneOpen' /\ RepliesFit'
  <2>1. CallOf(ConnectTransaction) = "connect" /\ TypeOf(ConnectTransaction) = "connect"
    BY DEF CallOf, TypeOf
  <2> QED BY <1>1, <2>1, OpenRequested DEF Connect, MayCall
<1>2. ASSUME NEW u \in Users, CreateStream(u) PROVE OneOpen' /\ RepliesFit'
  <2>1. CallOf(CreateTransaction) = "create" /\ TypeOf(CreateTransaction) = "createStream"
    BY DEF CallOf, TypeOf
  <2> QED BY <1>2, <2>1, OpenRequested DEF CreateStream, MayCall
<1>3. ASSUME NEW u \in Users, NEW i \in StreamIDs, DeleteStream(u, i) PROVE OneOpen' /\ RepliesFit'
  BY <1>3, OpenMoved DEF DeleteStream, MayCall
<1>4. ASSUME NEW u \in Users, NEW i \in StreamIDs, Publish(u, i) PROVE OneOpen' /\ RepliesFit'
  <2>1. [type |-> "publish", id |-> i] \in Requests /\ [type |-> "publish", id |-> i].type = "publish"
    BY DEF Requests
  <2>2. \A t \in Transactions : Waits(t) => Waits(t)'
    BY <1>4 DEF Publish, Waits
  <2>3. OneOpen'
    BY <1>4, <2>1, <2>2, OpenSent DEF Publish
  <2>4. RepliesFit'
    BY <1>4 DEF RepliesFit, Publish, Answers, ForStream
  <2> QED BY <2>3, <2>4
<1>5. ASSUME NEW u \in Users, NEW i \in StreamIDs, WriteMedia(u, i) PROVE OneOpen' /\ RepliesFit'
  BY <1>5 DEF WriteMedia, clientVars, OneOpen, RepliesFit, Asked, Answered, Asks, Answers, Waits, ForStream
<1>6. ASSUME NEW u \in Users, ConnectReturns(u) PROVE OneOpen' /\ RepliesFit'
  BY <1>6, OpenMoved DEF ConnectReturns, Return, Idle
<1>7. ASSUME NEW u \in Users, CreateStreamReturns(u) PROVE OneOpen' /\ RepliesFit'
  BY <1>7, OpenMoved DEF CreateStreamReturns, Return, Idle
<1>8. ASSUME NEW u \in Users, NEW i \in StreamIDs, SendDelete(u, i) PROVE OneOpen' /\ RepliesFit'
  <2>1. [type |-> "deleteStream", id |-> i] \in Requests
        /\ [type |-> "deleteStream", id |-> i].type = "deleteStream"
    BY DEF Requests
  <2>2. \A t \in Transactions : Waits(t) => Waits(t)'
    BY <1>8 DEF SendDelete, Waits, CallOf, Types, UserTypes
  <2>3. OneOpen'
    BY <1>8, <2>1, <2>2, OpenSent DEF SendDelete
  <2>4. RepliesFit'
    BY <1>8 DEF RepliesFit, SendDelete, Answers, ForStream, Types, UserTypes
  <2> QED BY <2>3, <2>4
<1>9. ASSUME NEW u \in Users, NEW i \in StreamIDs, DeleteStreamReturns(u, i) PROVE OneOpen' /\ RepliesFit'
  <2>1. pc[u][1] = "delete"
    BY <1>9 DEF DeleteStreamReturns
  <2> QED BY <1>9, <2>1, OpenMoved DEF DeleteStreamReturns, Return, Idle
<1>10. CASE HandleResult
  BY <1>10, OpenReplied
<1>11. ASSUME NEW t \in Transactions, DeleteTransaction(t) PROVE OneOpen' /\ RepliesFit'
  BY <1>11, OpenDeleted
<1>12. CASE HandleStatus
  <2>1. cloop' \in {Reading, Ended}
    BY <1>12 DEF HandleStatus
  <2> QED BY <1>12, <2>1, OpenStatus DEF HandleStatus
<1>13. CASE ReadFails
  <2>1. \A t \in Transactions : cloop' # <<"delete", t>>
    BY <1>13 DEF ReadFails, Ended
  <2> QED BY <1>13, <2>1 DEF ReadFails, OneOpen, RepliesFit, Asked, Answered, Asks, Answers, Waits, ForStream
<1>14. CASE OnConnect
  <2>1. PICK a \in AnswerSet : /\ "to" \in DOMAIN a /\ a.to = ConnectTransaction
                               /\ answers' = Append(answers, a)
    <3>1. CASE answers' = Append(answers, Result(ConnectTransaction, 0, 0))
      <4> DEFINE a == Result(ConnectTransaction, 0, 0)
      <4>1. a \in AnswerSet
        BY ResultKind
      <4>2. "to" \in DOMAIN a /\ a.to = ConnectTransaction
        BY DEF Result
      <4> HIDE DEF a
      <4> QED BY <3>1, <4>1, <4>2 DEF a
    <3>2. CASE answers' = Append(answers, Refusal(ConnectTransaction))
      BY <3>2, ResultKind
    <3> QED BY <3>1, <3>2, <1>14 DEF OnConnect
  <2>2. commands # <<>> /\ commands' = Tail(commands) /\ Head(commands).type = TypeOf(ConnectTransaction)
    BY <1>14 DEF OnConnect, Receives, TypeOf
  <2>3. UNCHANGED <<pc, reply, transactions, cloop>>
    BY <1>14 DEF OnConnect, clientVars
  <2>4. OneOpen'
    BY <2>1, <2>2, <2>3, OpenAnswered
  <2>5. RepliesFit'
    BY <2>1, <2>3, FitsSent
  <2> QED BY <2>4, <2>5
<1>15. CASE OnCreateStream
  <2>1. commands # <<>> /\ commands' = Tail(commands) /\ Head(commands).type = TypeOf(CreateTransaction)
    BY <1>15 DEF OnCreateStream, Receives, TypeOf
  <2>2. UNCHANGED <<pc, reply, transactions, cloop>>
    BY <1>15 DEF OnCreateStream, clientVars
  <2>3. Asked(CreateTransaction)
    BY <1>15, Received DEF OnCreateStream, Asked, Asks, TypeOf
  <2>4. made + 1 \in Serials
    BY <2>3 DEF Types, ServerTypes, Serials, Bounded
  <2>5. PICK i \in StreamIDs : answers' = Append(answers, Result(CreateTransaction, i, made + 1))
    BY <1>15, Made DEF OnCreateStream
  <2>6. PICK a \in AnswerSet : /\ "to" \in DOMAIN a /\ a.to = CreateTransaction /\ ForStream(a.reply)
                               /\ answers' = Append(answers, a)
    <3> DEFINE a == Result(CreateTransaction, i, made + 1)
    <3>1. a \in AnswerSet
      BY <2>4, ResultKind
    <3>2. "to" \in DOMAIN a /\ a.to = CreateTransaction
          /\ a.reply = [name |-> "_result", id |-> i, serial |-> made + 1]
      BY DEF Result
    <3>3. ForStream(a.reply)
      BY <2>4, <3>2 DEF ForStream
    <3> HIDE DEF a
    <3> QED BY <2>5, <3>1, <3>2, <3>3 DEF a
  <2>7. OneOpen'
    BY <2>1, <2>2, <2>6, OpenAnswered
  <2>8. RepliesFit'
    BY <2>2, <2>6, FitsSent
  <2> QED BY <2>7, <2>8
<1>16. CASE OnCreateStreamRefused \/ CreateStreamReplyFails
  <2>1. commands # <<>> /\ commands' = Tail(commands) /\ Head(commands).type = TypeOf(CreateTransaction)
    BY <1>16 DEF OnCreateStreamRefused, CreateStreamReplyFails, Receives, TypeOf
  <2>2. UNCHANGED <<pc, reply, transactions, cloop>>
    BY <1>16 DEF OnCreateStreamRefused, CreateStreamReplyFails, clientVars
  <2>3. PICK a \in AnswerSet : /\ "to" \in DOMAIN a /\ a.to = CreateTransaction /\ ForStream(a.reply)
                               /\ a = Refusal(CreateTransaction)
    BY ResultKind DEF ForStream
  <2>4. CASE answers' = answers
    <3>1. OneOpen'
      BY <2>1, <2>2, <2>4, OpenTaken
    <3>2. RepliesFit'
      BY <2>2, <2>4 DEF RepliesFit, Answers, ForStream
    <3> QED BY <3>1, <3>2
  <2>5. CASE answers' = Append(answers, a)
    <3>1. OneOpen'
      BY <2>1, <2>2, <2>3, <2>5, OpenAnswered
    <3>2. RepliesFit'
      BY <2>2, <2>3, <2>5, FitsSent
    <3> QED BY <3>1, <3>2
  <2> QED BY <1>16, <2>3, <2>4, <2>5 DEF OnCreateStreamRefused, CreateStreamReplyFails, Refused
<1>17. CASE OnDeleteStream
  <2>1. OneOpen'
    BY <1>17, OpenTaken DEF OnDeleteStream, Receives, clientVars
  <2>2. RepliesFit'
    BY <1>17 DEF OnDeleteStream, clientVars, RepliesFit, Answers, ForStream
  <2> QED BY <2>1, <2>2
<1>18. CASE OnPublish
  <2>1. commands # <<>> /\ commands' = Tail(commands) /\ Head(commands).id \in StreamIDs
        /\ UNCHANGED <<pc, reply, transactions, cloop>>
    <3>1. Receives("publish") /\ UNCHANGED <<pc, reply, transactions, cloop>>
      BY <1>18 DEF OnPublish, clientVars
    <3> QED BY <3>1, Received, RequestKinds
  <2>2. PICK a \in AnswerSet : "to" \notin DOMAIN a /\ a = [status |-> Head(commands).id]
    BY <2>1, StatusKind
  <2>3. CASE answers' = answers
    <3>1. OneOpen'
      BY <2>1, <2>3, OpenTaken
    <3>2. RepliesFit'
      BY <2>1, <2>3 DEF RepliesFit, Answers, ForStream
    <3> QED BY <3>1, <3>2
  <2>4. CASE answers' = Append(answers, a)
    <3>1. OneOpen'
      BY <2>1, <2>2, <2>4, OpenNotified
    <3>2. RepliesFit'
      BY <2>1, <2>2, <2>4, FitsSent
    <3> QED BY <3>1, <3>2
  <2> QED BY <1>18, <2>2, <2>3, <2>4 DEF OnPublish
<1>19. CASE OnMedia \/ ServerReadFails \/ Break
  <2>1. UNCHANGED <<pc, reply, transactions, cloop, commands, answers>>
    BY <1>19 DEF OnMedia, ServerReadFails, Break, clientVars
  <2> QED BY <2>1 DEF OneOpen, RepliesFit, Asked, Answered, Asks, Answers, Waits, ForStream
<1> QED
  BY <1>1, <1>2, <1>3, <1>4, <1>5, <1>6, <1>7, <1>8, <1>9, <1>10, <1>11, <1>12, <1>13, <1>14, <1>15,
     <1>16, <1>17, <1>18, <1>19 DEF Next, UserReturns, ClientLoop, ServerLoop

\* A reply never finds its transaction gone.
LEMMA ExpectedKept ==
  ASSUME Types, OneOpen, RepliesFit, RepliesExpected, Next
  PROVE  RepliesExpected'
<1>1. CASE HandleResult
  BY <1>1, ReplyFinds DEF RepliesExpected
<1>2. CASE ~HandleResult
  BY <1>2 DEF Next, Connect, CreateStream, DeleteStream, Publish, WriteMedia, UserReturns, ConnectReturns,
     CreateStreamReturns, SendDelete, DeleteStreamReturns, ClientLoop, HandleStatus, ReadFails,
     DeleteTransaction, ServerLoop, OnConnect, OnCreateStream, OnCreateStreamRefused,
     CreateStreamReplyFails, OnDeleteStream, OnPublish, ServerReadFails, OnMedia, Break, clientVars,
     RepliesExpected
<1> QED BY <1>1, <1>2

\* What has been asked was asked before, or a CreateStream was sent.
LEMMA AskedKept ==
  ASSUME Types, Next, Asked(CreateTransaction)'
  PROVE  \/ Asked(CreateTransaction)
         \/ \E u \in Users : CreateStream(u)
<1> USE Numbers
<1>1. ASSUME commands' = commands PROVE Asked(CreateTransaction)
  BY <1>1 DEF Asked, Asks
<1>2. CASE commands # <<>> /\ commands' = Tail(commands)
  <2>1. /\ Len(commands) \in Nat \ {0} /\ Len(commands') = Len(commands) - 1
        /\ \A k \in 1 .. Len(commands') : commands'[k] = commands[k + 1]
    BY <1>2, Taken DEF Types, WireTypes
  <2>2. \A k \in 1 .. Len(commands') :
          Asks(k, CreateTransaction)' => k + 1 \in 1 .. Len(commands) /\ Asks(k + 1, CreateTransaction)
    BY <2>1 DEF Asks
  <2> QED BY <2>2 DEF Asked
<1>3. ASSUME NEW m \in Requests, m.type # "createStream", commands' = Append(commands, m)
      PROVE  Asked(CreateTransaction)
  <2>1. /\ Len(commands) \in Nat /\ Len(commands') = Len(commands) + 1
        /\ \A k \in 1 .. Len(commands) : commands'[k] = commands[k]
        /\ commands'[Len(commands) + 1] = m
    BY <1>3, Appended DEF Types, WireTypes
  <2>2. \A k \in 1 .. Len(commands') :
          Asks(k, CreateTransaction)' => k \in 1 .. Len(commands) /\ Asks(k, CreateTransaction)
    BY <1>3, <2>1 DEF Asks, TypeOf
  <2> QED BY <2>2 DEF Asked
<1>4. ASSUME NEW u \in Users, Connect(u) PROVE Asked(CreateTransaction)
  <2>1. [type |-> "connect"] \in Requests
    BY DEF Requests
  <2> QED BY <1>3, <1>4, <2>1 DEF Connect, Request
<1>5. ASSUME NEW u \in Users, NEW i \in StreamIDs, Publish(u, i) PROVE Asked(CreateTransaction)
  <2>1. [type |-> "publish", id |-> i] \in Requests
    BY DEF Requests
  <2> QED BY <1>3, <1>5, <2>1 DEF Publish
<1>6. ASSUME NEW u \in Users, NEW i \in StreamIDs, SendDelete(u, i) PROVE Asked(CreateTransaction)
  <2>1. [type |-> "deleteStream", id |-> i] \in Requests
    BY DEF Requests
  <2> QED BY <1>3, <1>6, <2>1 DEF SendDelete
<1>7. CASE ClientLoop \/ OnMedia \/ Break
  BY <1>1, <1>7 DEF ClientLoop, OnMedia, Break, HandleResult, HandleStatus, ReadFails, DeleteTransaction
<1>8. CASE ServerLoop
  BY <1>1, <1>2, <1>8 DEF ServerLoop, OnConnect, OnCreateStream, OnCreateStreamRefused, Receives,
     CreateStreamReplyFails, OnDeleteStream, OnPublish, ServerReadFails
<1>9. ASSUME NEW u \in Users, NEW i \in StreamIDs,
             DeleteStream(u, i) \/ WriteMedia(u, i) \/ DeleteStreamReturns(u, i)
      PROVE  Asked(CreateTransaction)
  <2>1. commands' = commands
    BY <1>9 DEF DeleteStream, WriteMedia, DeleteStreamReturns
  <2> QED BY <1>1, <2>1
<1>10. ASSUME NEW u \in Users, ConnectReturns(u) \/ CreateStreamReturns(u)
       PROVE  Asked(CreateTransaction)
  <2>1. commands' = commands
    BY <1>10 DEF ConnectReturns, CreateStreamReturns
  <2> QED BY <1>1, <2>1
<1> QED BY <1>4, <1>5, <1>6, <1>7, <1>8, <1>9, <1>10 DEF Next, UserReturns

\* The server's tables change only when it makes a stream, deletes one, or lets
\* one be published.
LEMMA ServerTables ==
  ASSUME Next
  PROVE  \/ UNCHANGED <<sstreams, sstate, made, granted>>
         \/ OnCreateStream \/ OnDeleteStream \/ OnPublish
BY DEF Next, Connect, CreateStream, DeleteStream, Publish, WriteMedia, UserReturns, ConnectReturns,
     CreateStreamReturns, SendDelete, DeleteStreamReturns, ClientLoop, HandleResult, HandleStatus,
     ReadFails, DeleteTransaction, ServerLoop, OnConnect, OnCreateStreamRefused,
     CreateStreamReplyFails, ServerReadFails, OnMedia, Break, clientVars, serverVars

\* Serials are unique, and no more streams are made than the bound allows.
LEMMA NumbersKept ==
  ASSUME Types, OneOpen, Bounded, Serialised, Next
  PROVE  Bounded' /\ Serialised'
<1> USE Numbers
<1>1. ASSUME UNCHANGED <<sstreams, sstate, made, granted>> PROVE Bounded' /\ Serialised'
  <2>1. Asked(CreateTransaction)' => made < MaxCreates
    <3>1. ASSUME NEW u \in Users, CreateStream(u) PROVE made < MaxCreates
      BY <3>1 DEF CreateStream
    <3> QED BY <3>1, AskedKept DEF Bounded
  <2> QED BY <1>1, <2>1 DEF Bounded, Serialised
<1>2. CASE OnCreateStream
  <2>1. Asks(1, CreateTransaction) /\ commands # <<>> /\ commands' = Tail(commands)
        /\ 1 \in 1 .. Len(commands)
    BY <1>2, Received DEF OnCreateStream, Asks, TypeOf
  <2>2. /\ Len(commands) \in Nat \ {0} /\ Len(commands') = Len(commands) - 1
        /\ \A k \in 1 .. Len(commands') : commands'[k] = commands[k + 1]
    BY <2>1, Taken DEF Types, WireTypes
  <2>3. ~Asked(CreateTransaction)'
    <3> SUFFICES ASSUME NEW k \in 1 .. Len(commands'), Asks(k, CreateTransaction)' PROVE FALSE
      BY DEF Asked
    <3>1. Asks(k + 1, CreateTransaction) /\ k + 1 \in 1 .. Len(commands) /\ k + 1 # 1
      BY <2>2 DEF Asks
    <3> QED BY <3>1, <2>1 DEF OneOpen
  <2>4. PICK i \in StreamIDs :
           /\ sstreams[i] = 0
           /\ sstreams' = [sstreams EXCEPT ![i] = made + 1]
           /\ sstate' = [sstate EXCEPT ![i] = "Inactive"]
    BY <1>2, Made DEF OnCreateStream
  <2>5. made' = made + 1 /\ granted' = granted /\ made \in Nat
    BY <1>2 DEF OnCreateStream, Types, ServerTypes
  <2>6. /\ sstreams'[i] = made + 1 /\ sstate'[i] = "Inactive"
        /\ \A j \in StreamIDs : j # i => sstreams'[j] = sstreams[j] /\ sstate'[j] = sstate[j]
    BY <2>4 DEF Types, ServerTypes
  <2>7. \A j \in StreamIDs : sstreams[j] \in Nat /\ sstreams[j] <= made
    <3>1. \A j \in StreamIDs : sstreams[j] \in Serials \cup {0}
      BY DEF Types, ServerTypes
    <3>2. \A j \in StreamIDs : sstreams[j] \in Nat
      BY <3>1 DEF Serials
    <3>3. \A j \in StreamIDs : sstreams[j] <= made
      BY DEF Bounded
    <3> QED BY <3>2, <3>3
  <2>8. Bounded'
    <3>1. \A j \in StreamIDs : sstreams'[j] <= made'
      BY <2>5, <2>6, <2>7
    <3> QED BY <2>3, <3>1 DEF Bounded
  <2>9. Serialised'
    <3>1. ASSUME NEW j \in StreamIDs, NEW k \in StreamIDs, sstreams'[j] = sstreams'[k], sstreams'[j] # 0
          PROVE  j = k
      <4>1. made + 1 # sstreams[j] /\ made + 1 # sstreams[k]
        BY <2>5, <2>7
      <4> QED BY <3>1, <4>1, <2>6 DEF Serialised
    <3>2. ASSUME NEW j \in StreamIDs, sstreams'[j] # 0, sstate'[j] = "Publish"
          PROVE  sstreams'[j] \in granted
      BY <3>2, <2>6 DEF Serialised
    <3> QED BY <3>1, <3>2, <2>5 DEF Serialised
  <2> QED BY <2>8, <2>9
<1>3. Asked(CreateTransaction)' => Asked(CreateTransaction) \/ \E u \in Users : CreateStream(u)
  BY AskedKept
<1>4. ASSUME NEW u \in Users, CreateStream(u) PROVE UNCHANGED <<sstreams, sstate, made, granted>>
  BY <1>4 DEF CreateStream, serverVars
<1>5. CASE OnDeleteStream
  <2>1. Receives("deleteStream") /\ UNCHANGED <<sstate, made, granted>>
        /\ (sstreams' = [sstreams EXCEPT ![Head(commands).id] = 0] \/ sstreams' = sstreams)
    BY <1>5 DEF OnDeleteStream, Remaining
  <2>2. Head(commands).id \in StreamIDs
    BY <2>1, Received, RequestKinds
  <2>3. \A j \in StreamIDs : sstreams'[j] = sstreams[j] \/ sstreams'[j] = 0
    BY <2>1, <2>2 DEF Types, ServerTypes
  <2>4. \A j \in StreamIDs : sstreams'[j] <= made
    BY <2>3 DEF Bounded, Types, ServerTypes
  <2>5. Asked(CreateTransaction)' => made < MaxCreates
    <3>1. ASSUME NEW u \in Users, CreateStream(u) PROVE made < MaxCreates
      BY <3>1 DEF CreateStream
    <3> QED BY <3>1, <1>3 DEF Bounded
  <2>6. Serialised'
    BY <2>1, <2>3 DEF Serialised
  <2> QED BY <2>1, <2>4, <2>5, <2>6 DEF Bounded
<1>6. CASE OnPublish
  <2>1. Receives("publish") /\ UNCHANGED <<sstreams, made>>
    BY <1>6 DEF OnPublish
  <2>2. Head(commands).id \in StreamIDs
    BY <2>1, Received, RequestKinds
  <2>3. granted \subseteq granted'
    BY <1>6 DEF OnPublish
  <2>4. \A j \in StreamIDs : sstreams[j] # 0 /\ sstate'[j] = "Publish" =>
           sstate[j] = "Publish" \/ sstreams[j] \in granted'
    BY <1>6, <2>2 DEF OnPublish, Types, ServerTypes
  <2>5. Serialised'
    BY <2>1, <2>3, <2>4 DEF Serialised
  <2>6. Asked(CreateTransaction)' => made < MaxCreates
    <3>1. ASSUME NEW u \in Users, CreateStream(u) PROVE made < MaxCreates
      BY <3>1 DEF CreateStream
    <3> QED BY <3>1, <1>3 DEF Bounded
  <2> QED BY <2>1, <2>5, <2>6 DEF Bounded
<1> QED BY <1>1, <1>2, <1>5, <1>6, ServerTables

\* Only media that arrive change what the Handler has got, and what excuses them
\* stays.
LEMMA HandedOnly ==
  ASSUME Types, Next, ~OnMedia
  PROVE  /\ handed' = handed /\ granted \subseteq granted' /\ deleted \subseteq deleted'
         /\ mixed => mixed'
<1>1. 0 \notin deleted
  BY Numbers DEF Types, UserTypes
<1>2. ASSUME NEW u \in Users, NEW i \in StreamIDs, SendDelete(u, i)
      PROVE  /\ handed' = handed /\ granted' = granted /\ deleted \subseteq deleted' /\ mixed' = mixed
  BY <1>1, <1>2 DEF SendDelete, serverVars
<1>3. ASSUME NEW u \in Users, NEW i \in StreamIDs,
             Publish(u, i) \/ WriteMedia(u, i) \/ DeleteStreamReturns(u, i)
      PROVE  handed' = handed /\ granted' = granted /\ deleted' = deleted /\ mixed' = mixed
  BY <1>3 DEF Publish, WriteMedia, DeleteStreamReturns, clientVars, serverVars
<1>7. ASSUME NEW u \in Users, NEW i \in StreamIDs, DeleteStream(u, i)
      PROVE  handed' = handed /\ granted' = granted /\ deleted' = deleted /\ (mixed => mixed')
  <2>1. handed' = handed /\ granted' = granted /\ deleted' = deleted
    BY <1>7 DEF DeleteStream, serverVars
  <2>2. mixed => mixed'
    BY <1>7, Zenon DEF DeleteStream
  <2> QED BY <2>1, <2>2
<1>8. ASSUME NEW u \in Users, CreateStream(u)
      PROVE  handed' = handed /\ granted' = granted /\ deleted' = deleted /\ (mixed => mixed')
  <2>1. handed' = handed /\ granted' = granted /\ deleted' = deleted
    BY <1>8 DEF CreateStream, serverVars
  <2>2. mixed => mixed'
    BY <1>8, Zenon DEF CreateStream
  <2> QED BY <2>1, <2>2
<1>4. ASSUME NEW u \in Users, Connect(u) \/ ConnectReturns(u) \/ CreateStreamReturns(u)
      PROVE  handed' = handed /\ granted' = granted /\ deleted' = deleted /\ mixed' = mixed
  BY <1>4 DEF Connect, ConnectReturns, CreateStreamReturns, serverVars
<1>5. CASE ClientLoop \/ Break
  BY <1>5 DEF ClientLoop, HandleResult, HandleStatus, ReadFails, DeleteTransaction, Break, clientVars, serverVars
<1>6. CASE ServerLoop
  BY <1>6 DEF ServerLoop, OnConnect, OnCreateStream, OnCreateStreamRefused,
     CreateStreamReplyFails, OnDeleteStream, OnPublish, ServerReadFails, clientVars
<1> QED BY <1>2, <1>3, <1>4, <1>5, <1>6, <1>7, <1>8 DEF Next, UserReturns

\* What the Handler gets is media of the publication they were written to.
LEMMA MediaKept ==
  ASSUME Types, Serialised, MediaOfPublication, ~mixed => Unmixed, Next
  PROVE  MediaOfPublication'
<1>1. CASE ~OnMedia
  <2>1. /\ handed' = handed /\ granted \subseteq granted' /\ deleted \subseteq deleted'
        /\ mixed => mixed'
    BY <1>1, HandedOnly
  <2> QED BY <2>1 DEF MediaOfPublication
<1>2. CASE OnMedia
  <2>1. /\ media # <<>> /\ Head(media) = media[1] /\ media[1] \in Media /\ 1 \in 1 .. Len(media)
    <3>1. media \in Seq(Media) /\ media # <<>>
      BY <1>2 DEF OnMedia, Types, WireTypes
    <3> QED BY <3>1, Taken
  <2>2. media[1].id \in StreamIDs /\ media[1].of \in Serials
    BY <2>1 DEF Media
  <2>3. /\ UNCHANGED <<granted, deleted, mixed>>
        /\ \/ handed' = handed
           \/ /\ sstreams[media[1].id] # 0 /\ sstate[media[1].id] = "Publish"
              /\ handed' = handed \cup {<<sstreams[media[1].id], media[1].of>>}
    BY <1>2, <2>1 DEF OnMedia, clientVars
  <2>4. CASE handed' = handed
    BY <2>3, <2>4 DEF MediaOfPublication
  <2>5. CASE /\ sstreams[media[1].id] # 0 /\ sstate[media[1].id] = "Publish"
             /\ handed' = handed \cup {<<sstreams[media[1].id], media[1].of>>}
    <3>1. sstreams[media[1].id] \in granted
      BY <2>2, <2>5 DEF Serialised
    <3>2. sstreams[media[1].id] = media[1].of \/ media[1].of \in deleted \/ mixed
      BY <2>1 DEF Unmixed, Addressed
    <3> QED BY <2>3, <2>5, <3>1, <3>2 DEF MediaOfPublication
  <2> QED BY <2>3, <2>4, <2>5
<1> QED BY <1>1, <1>2

\* The client knows no serial that is still to come.
LEMMA CountedKept ==
  ASSUME Types, RepliesFit, Bounded, Unmixed, Counted, Next
  PROVE  Counted'
<1> USE Numbers
<1>1. (\A i \in StreamIDs : cstreams[i] <= made) /\ (\A n \in deleted : n <= made)
      /\ made \in Nat /\ deleted \subseteq Nat
      /\ \A i \in StreamIDs : cstreams[i] \in Nat
  <2>1. \A i \in StreamIDs : cstreams[i] \in Nat
    BY DEF Types, UserTypes, Serials
  <2> QED BY <2>1 DEF Counted, Types, UserTypes, ServerTypes, Serials
<1>2. ASSUME UNCHANGED <<cstreams, deleted>>, made' \in {made, made + 1} PROVE Counted'
  BY <1>1, <1>2 DEF Counted
<1>3. ASSUME NEW u \in Users, CreateStreamReturns(u) PROVE Counted'
  <2>1. /\ pc[u] = <<"create", 0>> /\ reply[u] # NoReply
        /\ cstreams' = IF reply[u].name = "_result" /\ cstreams[reply[u].id] = 0
                         THEN [cstreams EXCEPT ![reply[u].id] = reply[u].serial]
                         ELSE cstreams
        /\ UNCHANGED <<deleted, made>>
    BY <1>3 DEF CreateStreamReturns, serverVars
  <2>2. CASE cstreams' = cstreams
    BY <1>2, <2>1, <2>2
  <2>3. CASE reply[u].name = "_result" /\ cstreams' = [cstreams EXCEPT ![reply[u].id] = reply[u].serial]
    <3>1. reply[u] \in Replies /\ ForStream(reply[u])
      BY <2>1 DEF RepliesFit, Types, UserTypes
    <3>2. PICK i \in StreamIDs, n \in Serials : i = reply[u].id /\ n = reply[u].serial
      BY <2>3, <3>1 DEF ForStream
    <3>3. reply[u] = [name |-> "_result", id |-> i, serial |-> n]
      BY <2>3, <3>1, <3>2, ReplyKinds
    <3>4. sstreams[i] = n
      BY <2>1, <3>3 DEF Unmixed, Told, Coming
    <3>5. n <= made
      BY <3>4 DEF Bounded
    <3>6. \A j \in StreamIDs : cstreams'[j] = cstreams[j] \/ cstreams'[j] = n
      BY <2>3, <3>2 DEF Types, UserTypes
    <3> QED BY <1>1, <2>1, <3>5, <3>6 DEF Counted
  <2> QED BY <2>1, <2>2, <2>3
<1>4. ASSUME NEW u \in Users, NEW i \in StreamIDs, SendDelete(u, i) PROVE Counted'
  <2>1. cstreams' = cstreams /\ made' = made /\ deleted' = (deleted \cup {cstreams[i]}) \ {0}
    BY <1>4 DEF SendDelete, serverVars
  <2>2. \A n \in deleted' : n <= made
    BY <1>1, <2>1
  <2> QED BY <1>1, <2>1, <2>2 DEF Counted
<1>5. ASSUME NEW u \in Users, NEW i \in StreamIDs, DeleteStreamReturns(u, i) PROVE Counted'
  <2>1. cstreams' = [cstreams EXCEPT ![i] = 0] /\ made' = made /\ deleted' = deleted
    BY <1>5 DEF DeleteStreamReturns, serverVars
  <2>2. \A j \in StreamIDs : cstreams'[j] = cstreams[j] \/ cstreams'[j] = 0
    BY <2>1 DEF Types, UserTypes
  <2>3. \A j \in StreamIDs : cstreams'[j] <= made
    BY <1>1, <2>2
  <2> QED BY <1>1, <2>1, <2>3 DEF Counted
<1>6. ASSUME NEW u \in Users, NEW i \in StreamIDs,
             DeleteStream(u, i) \/ Publish(u, i) \/ WriteMedia(u, i)
      PROVE  Counted'
  <2>1. UNCHANGED <<cstreams, deleted, made>>
    BY <1>6 DEF DeleteStream, Publish, WriteMedia, clientVars, serverVars
  <2> QED BY <1>2, <2>1
<1>7. ASSUME NEW u \in Users, Connect(u) \/ CreateStream(u) \/ ConnectReturns(u) PROVE Counted'
  <2>1. UNCHANGED <<cstreams, deleted, made>>
    BY <1>7 DEF Connect, CreateStream, ConnectReturns, serverVars
  <2> QED BY <1>2, <2>1
<1>8. CASE ClientLoop
  <2>1. UNCHANGED <<cstreams, deleted, made>>
    BY <1>8 DEF ClientLoop, HandleResult, HandleStatus, ReadFails, DeleteTransaction, serverVars
  <2> QED BY <1>2, <2>1
<1>9. CASE ServerLoop \/ OnMedia \/ Break
  <2>1. UNCHANGED <<cstreams, deleted>>
    BY <1>9 DEF ServerLoop, OnConnect, OnCreateStream, OnCreateStreamRefused,
       CreateStreamReplyFails, OnDeleteStream, OnPublish, ServerReadFails, OnMedia, Break, clientVars
  <2>2. made' \in {made, made + 1}
    BY <1>9 DEF ServerLoop, OnConnect, OnCreateStream, OnCreateStreamRefused,
       CreateStreamReplyFails, OnDeleteStream, OnPublish, ServerReadFails, OnMedia, Break, serverVars
  <2> QED BY <1>2, <2>1, <2>2
<1> QED BY <1>3, <1>4, <1>5, <1>6, <1>7, <1>8, <1>9 DEF Next, UserReturns

\* What holds while calls do not overlap.
LEMMA UnmixedKept ==
  ASSUME Types, OneOpen, RepliesFit, Bounded, Serialised, Unmixed, Counted, Next, ~mixed'
  PROVE  Unmixed'
<1> USE Numbers
<1>1. ASSUME NEW u \in Users, Connect(u) PROVE Unmixed'
  <2>1. CallOf(ConnectTransaction) = "connect" /\ TypeOf(ConnectTransaction) = "connect"
    BY DEF CallOf, TypeOf
  <2> QED BY <1>1, <2>1, UnmixedRequested DEF Connect, MayCall, serverVars
<1>2. ASSUME NEW u \in Users, CreateStream(u) PROVE Unmixed'
  <2>1. CallOf(CreateTransaction) = "create" /\ TypeOf(CreateTransaction) = "createStream"
    BY DEF CallOf, TypeOf
  <2>2. ~Beside(u, {"check", "delete"})
    BY <1>2, Zenon DEF CreateStream
  <2> QED BY <1>2, <2>1, <2>2, UnmixedRequested DEF CreateStream, MayCall, serverVars
<1>3. ASSUME NEW u \in Users, NEW i \in StreamIDs, DeleteStream(u, i) PROVE Unmixed'
  <2>1. ~Beside(u, {"create", "check", "delete"})
    BY <1>3, Zenon DEF DeleteStream
  <2> QED BY <1>3, <2>1, UnmixedChecked DEF DeleteStream, MayCall, serverVars
<1>4. ASSUME NEW u \in Users, NEW i \in StreamIDs, Publish(u, i) PROVE Unmixed'
  BY <1>4, UnmixedPublished DEF Publish, serverVars
<1>5. ASSUME NEW u \in Users, NEW i \in StreamIDs, WriteMedia(u, i) PROVE Unmixed'
  BY <1>5, UnmixedWritten DEF WriteMedia, clientVars, serverVars
<1>6. ASSUME NEW u \in Users, ConnectReturns(u) PROVE Unmixed'
  BY <1>6, UnmixedReturned DEF ConnectReturns, Return, serverVars
<1>7. ASSUME NEW u \in Users, CreateStreamReturns(u) PROVE Unmixed'
  BY <1>7, UnmixedCreated
<1>8. ASSUME NEW u \in Users, NEW i \in StreamIDs, SendDelete(u, i) PROVE Unmixed'
  BY <1>8, UnmixedDeleting
<1>9. ASSUME NEW u \in Users, NEW i \in StreamIDs, DeleteStreamReturns(u, i) PROVE Unmixed'
  BY <1>9, UnmixedReturned DEF DeleteStreamReturns, Return, serverVars
<1>10. CASE HandleResult
  BY <1>10, UnmixedReplied
<1>11. ASSUME NEW t \in Transactions, DeleteTransaction(t) PROVE Unmixed'
  BY <1>11, UnmixedEnds DEF DeleteTransaction, serverVars
<1>12. CASE HandleStatus
  <2>1. answers # <<>> /\ "status" \in DOMAIN Head(answers) /\ answers' = Tail(answers)
    BY <1>12 DEF HandleStatus
  <2>2. Head(answers) \in AnswerSet
    BY <2>1, Taken DEF Types, WireTypes
  <2>3. "to" \notin DOMAIN Head(answers)
    BY <2>1, <2>2 DEF AnswerSet
  <2> QED BY <1>12, <2>1, <2>3, UnmixedStatus DEF HandleStatus, serverVars
<1>13. CASE ReadFails
  BY <1>13, UnmixedEnds DEF ReadFails, serverVars
<1>14. CASE OnConnect
  <2>1. commands # <<>> /\ commands' = Tail(commands) /\ Head(commands).type # "deleteStream"
    BY <1>14 DEF OnConnect, Receives
  <2>2. PICK a \in AnswerSet : /\ "to" \in DOMAIN a /\ a.to = ConnectTransaction
                               /\ answers' = Append(answers, a)
    <3>1. CASE answers' = Append(answers, Result(ConnectTransaction, 0, 0))
      <4> DEFINE a == Result(ConnectTransaction, 0, 0)
      <4>1. a \in AnswerSet
        BY ResultKind
      <4>2. "to" \in DOMAIN a /\ a.to = ConnectTransaction
        BY DEF Result
      <4> HIDE DEF a
      <4> QED BY <3>1, <4>1, <4>2 DEF a
    <3>2. CASE answers' = Append(answers, Refusal(ConnectTransaction))
      BY <3>2, ResultKind
    <3> QED BY <3>1, <3>2, <1>14 DEF OnConnect
  <2>3. \A i \in StreamIDs, n \in Serials : a # Result(CreateTransaction, i, n)
    <3>1. \A i, n : Result(CreateTransaction, i, n).to = CreateTransaction
      BY DEF Result
    <3> QED BY <2>2, <3>1
  <2>4. /\ \A i \in StreamIDs, n \in Serials : Sent(i, n)' <=> Sent(i, n)
        /\ \A i \in StreamIDs, n \in Serials :
             Answered(CreateTransaction)' => Answered(CreateTransaction)
    BY <2>2, <2>3, SentAppended
  <2>5. Answered(CreateTransaction)' => Answered(CreateTransaction)
    <3>1. /\ Len(answers) \in Nat /\ Len(answers') = Len(answers) + 1
          /\ \A k \in 1 .. Len(answers) : answers'[k] = answers[k]
          /\ answers'[Len(answers) + 1] = a
      BY <2>2, Appended DEF Types, WireTypes
    <3> QED BY <2>2, <3>1 DEF Answered, Answers
  <2> QED BY <1>14, <2>1, <2>4, <2>5, UnmixedServed DEF OnConnect, Receives, clientVars
<1>15. CASE OnCreateStream
  <2>1. commands # <<>> /\ commands' = Tail(commands) /\ Head(commands).type = "createStream"
    BY <1>15 DEF OnCreateStream, Receives
  <2>2. Asked(CreateTransaction)
    BY <1>15, Received DEF OnCreateStream, Asked, Asks, TypeOf
  <2>3. made + 1 \in Serials
    BY <2>2 DEF Types, ServerTypes, Serials, Bounded
  <2>4. PICK i \in StreamIDs :
           /\ sstreams[i] = 0
           /\ sstreams' = [sstreams EXCEPT ![i] = made + 1]
           /\ answers' = Append(answers, Result(CreateTransaction, i, made + 1))
    BY <1>15, Made DEF OnCreateStream
  <2>5. UNCHANGED <<pc, reply, cstreams, deleted, media, sloop>>
    BY <1>15 DEF OnCreateStream, clientVars
  <2> QED BY <2>1, <2>3, <2>4, <2>5, UnmixedMade
<1>16. CASE OnCreateStreamRefused \/ CreateStreamReplyFails
  <2>1. commands # <<>> /\ commands' = Tail(commands) /\ Head(commands).type = "createStream"
    BY <1>16 DEF OnCreateStreamRefused, CreateStreamReplyFails, Receives
  <2>2. /\ UNCHANGED <<pc, reply, cstreams, deleted, media, sstreams>> /\ sloop' \in {sloop, "ended"}
        /\ answers' \in {answers, Append(answers, Refusal(CreateTransaction))}
    BY <1>16 DEF OnCreateStreamRefused, CreateStreamReplyFails, Refused, clientVars
  <2>3. \A i \in StreamIDs, n \in Serials : Sent(i, n)' <=> Sent(i, n)
    <3>1. CASE answers' = answers
      BY <3>1 DEF Sent, Result
    <3>2. CASE answers' = Append(answers, Refusal(CreateTransaction))
      <4>1. Refusal(CreateTransaction) \in AnswerSet
        BY ResultKind
      <4>2. \A i \in StreamIDs, n \in Serials : Refusal(CreateTransaction) # Result(CreateTransaction, i, n)
        <5>1. \A i, n : Result(CreateTransaction, i, n).reply.name = "_result"
          BY DEF Result
        <5>2. Refusal(CreateTransaction).reply.name = "_error"
          BY ResultKind
        <5> QED BY <5>1, <5>2
      <4> QED BY <3>2, <4>1, <4>2, SentAppended
    <3> QED BY <2>2, <3>1, <3>2
  <2> QED BY <2>1, <2>2, <2>3, UnmixedServed
<1>17. CASE OnDeleteStream
  <2>1. Receives("deleteStream") /\ UNCHANGED <<pc, reply, answers, cstreams, deleted, media>>
    BY <1>17 DEF OnDeleteStream, clientVars
  <2>2. commands # <<>> /\ commands' = Tail(commands)
        /\ Head(commands) \in Requests /\ Head(commands).type = "deleteStream"
    BY <2>1, Received
  <2>3. PICK i \in StreamIDs : i = Head(commands).id /\ Head(commands) = [type |-> "deleteStream", id |-> i]
    BY <2>2, RequestKinds
  <2>4. \/ /\ sstreams' = [sstreams EXCEPT ![i] = 0]
           /\ sloop' \in {sloop, "ended"}
        \/ sstreams' = sstreams /\ sloop' = "ended"
    BY <1>17, <2>3 DEF OnDeleteStream, Remaining
  <2> QED BY <2>1, <2>2, <2>3, <2>4, UnmixedDeleted
<1>18. CASE OnPublish
  <2>1. Receives("publish") /\ UNCHANGED <<pc, reply, cstreams, deleted, media, sstreams>>
        /\ sloop' \in {sloop, "ended"}
        /\ answers' \in {answers, Append(answers, [status |-> Head(commands).id])}
    BY <1>18 DEF OnPublish, clientVars
  <2>2. commands # <<>> /\ commands' = Tail(commands)
        /\ Head(commands).id \in StreamIDs /\ Head(commands).type = "publish"
    BY <2>1, Received, RequestKinds
  <2>3. PICK a \in AnswerSet : "to" \notin DOMAIN a /\ a = [status |-> Head(commands).id]
    BY <2>2, StatusKind
  <2>4. (\A i \in StreamIDs, n \in Serials : Sent(i, n)' <=> Sent(i, n))
        /\ (Answered(CreateTransaction)' => Answered(CreateTransaction))
    <3>1. CASE answers' = answers
      BY <3>1 DEF Sent, Result, Answered, Answers
    <3>2. CASE answers' = Append(answers, a)
      <4>1. \A i \in StreamIDs, n \in Serials : a # Result(CreateTransaction, i, n)
        <5>1. \A i, n : "to" \in DOMAIN Result(CreateTransaction, i, n)
          BY DEF Result
        <5> QED BY <2>3, <5>1
      <4>2. \A i \in StreamIDs, n \in Serials : Sent(i, n)' <=> Sent(i, n)
        BY <3>2, <4>1, SentAppended
      <4>3. /\ Len(answers) \in Nat /\ Len(answers') = Len(answers) + 1
            /\ \A k \in 1 .. Len(answers) : answers'[k] = answers[k]
            /\ answers'[Len(answers) + 1] = a
        BY <3>2, Appended DEF Types, WireTypes
      <4>4. Answered(CreateTransaction)' => Answered(CreateTransaction)
        BY <2>3, <4>3 DEF Answered, Answers
      <4> QED BY <4>2, <4>4
    <3> QED BY <2>1, <2>3, <3>1, <3>2
  <2> QED BY <2>1, <2>2, <2>4, UnmixedServed
<1>19. CASE OnMedia \/ ServerReadFails \/ Break
  <2>1. UNCHANGED <<pc, reply, commands, answers, cstreams, deleted, sstreams>>
    BY <1>19 DEF OnMedia, ServerReadFails, Break, clientVars, serverVars
  <2>2. sloop' \in {sloop, "ended"}
    BY <1>19 DEF OnMedia, ServerReadFails, Break, serverVars
  <2>3. media' = media \/ (media # <<>> /\ media' = Tail(media))
    BY <1>19 DEF OnMedia, ServerReadFails, Break
  <2> QED BY <2>1, <2>2, <2>3, UnmixedEnds
<1> QED
  BY <1>1, <1>2, <1>3, <1>4, <1>5, <1>6, <1>7, <1>8, <1>9, <1>10, <1>11, <1>12, <1>13, <1>14, <1>15,
     <1>16, <1>17, <1>18, <1>19 DEF Next, UserReturns, ClientLoop, ServerLoop

-----------------------------------------------------------------------------
(* The theorems. *)

\* The invariant holds at the start,
LEMMA Start == Init => IInv
<1> SUFFICES ASSUME Init PROVE IInv
  OBVIOUS
<1> USE Numbers
<1>1. Types
  <2>1. UserTypes
    BY DEF Init, UserTypes, Idle, Reading
  <2>2. WireTypes
    BY DEF Init, WireTypes
  <2>3. ServerTypes
    BY DEF Init, ServerTypes
  <2> QED BY <2>1, <2>2, <2>3 DEF Init, Types
<1>2. Len(commands) = 0 /\ Len(answers) = 0 /\ Len(media) = 0
  BY DEF Init
<1>3. OneOpen /\ RepliesFit /\ Bounded
  BY <1>2 DEF Init, OneOpen, RepliesFit, Bounded, Asked, Answered, Reading, Idle
<1>4. Serialised /\ RepliesExpected /\ MediaOfPublication /\ Counted
  BY DEF Init, Serialised, RepliesExpected, MediaOfPublication, Counted
<1>5. \A i \in StreamIDs, n \in Serials : ~Coming(i, n)
  BY DEF Init, Coming, Idle
<1>6. Apart /\ Told /\ Once
  BY <1>2, <1>5 DEF Init, Apart, Told, Once, Answered, Settled, Got, Idle
<1>7. Known /\ Doomed /\ Held /\ Addressed
  BY <1>2 DEF Init, Known, Doomed, Held, Addressed, Idle
<1> QED BY <1>1, <1>3, <1>4, <1>6, <1>7 DEF IInv, Unmixed

\* and every step keeps it.
LEMMA Inductive == IInv /\ [Next]_vars => IInv'
<1> SUFFICES ASSUME IInv, [Next]_vars PROVE IInv'
  OBVIOUS
<1>1. CASE Next
  <2>1. Types'
    BY <1>1, TypesUser, TypesClient, TypesServer DEF IInv, Next
  <2>2. OneOpen' /\ RepliesFit'
    BY <1>1, OpenKept DEF IInv
  <2>3. Bounded' /\ Serialised'
    BY <1>1, NumbersKept DEF IInv
  <2>4. RepliesExpected' /\ MediaOfPublication'
    BY <1>1, ExpectedKept, MediaKept DEF IInv
  <2>5. mixed => mixed'
    BY <1>1, HandedOnly DEF IInv, OnMedia, clientVars
  <2>6. ~mixed' => Unmixed' /\ Counted'
    BY <1>1, <2>5, UnmixedKept, CountedKept DEF IInv
  <2> QED BY <2>1, <2>2, <2>3, <2>4, <2>6 DEF IInv
<1>2. CASE UNCHANGED vars
  <2>1. Types'
    BY <1>2 DEF vars, IInv, Types, UserTypes, WireTypes, ServerTypes
  <2>2. OneOpen' /\ RepliesFit'
    BY <1>2 DEF vars, IInv, OneOpen, RepliesFit, Asked, Answered, Asks, Answers, Waits, ForStream
  <2>3. Bounded' /\ Serialised' /\ RepliesExpected' /\ MediaOfPublication'
    BY <1>2 DEF vars, IInv, Bounded, Serialised, RepliesExpected, MediaOfPublication, Asked, Asks
  <2>4. ~mixed' => Unmixed'
    BY <1>2, UnmixedEnds DEF vars, IInv
  <2>5. ~mixed' => Counted'
    BY <1>2 DEF vars, IInv, Counted
  <2> QED BY <2>1, <2>2, <2>3, <2>4, <2>5 DEF IInv
<1> QED BY <1>1, <1>2

\* While no DeleteStream has overlapped another call the tables agree: each
\* stream of the server is the client's, or is being told to it or deleted.
LEMMA Agreement == IInv => TablesAgree
<1> SUFFICES ASSUME IInv, Alive, ~mixed, NEW i \in StreamIDs
             PROVE  /\ sstreams[i] # 0 => \/ cstreams[i] = sstreams[i]
                                          \/ Coming(i, sstreams[i])
                                          \/ DeleteSent(i)
                    /\ cstreams[i] # 0 => \/ cstreams[i] = sstreams[i]
                                          \/ cstreams[i] \in deleted
  BY DEF TablesAgree
<1>1. Known /\ Held /\ sloop = "read"
  BY DEF IInv, Unmixed, Alive
<1> QED BY <1>1 DEF Known, Held

\* The invariant holds in every state.
THEOREM Invariant == Spec => []IInv
BY Start, Inductive, PTL DEF Spec

\* The tables, the loops and what is under way have their types
\* (transaction.go:17, stream.go:34, client_conn.go:30, streams.go:20).
THEOREM Typing == Spec => []TypeOK
<1>1. IInv => TypeOK
  BY TypeParts DEF IInv
<1> QED BY <1>1, Invariant, PTL

\* The client's loop never ends because a reply finds no transaction: its
\* caller's entry is there until the reply is handled (stream_handler.go:177).
THEOREM RepliesAwaited == Spec => []RepliesExpected
<1>1. IInv => RepliesExpected
  BY DEF IInv
<1> QED BY <1>1, Invariant, PTL

\* The Handler gets media of accepted publications only, and of the stream they
\* were written to unless the client had deleted it or calls overlapped
\* (server_data_publish_handler.go:32, 35).
THEOREM MediaStaysWithPublication == Spec => []MediaOfPublication
<1>1. IInv => MediaOfPublication
  BY DEF IInv
<1> QED BY <1>1, Invariant, PTL

\* Neither side leaks a stream or takes one for another while no DeleteStream
\* overlaps a CreateStream or DeleteStream (client_conn.go:103, 122, 130).
THEOREM TablesStayInStep == Spec => []TablesAgree
BY Agreement, Invariant, PTL
=============================================================================
