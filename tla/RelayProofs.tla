---------------------------- MODULE RelayProofs ----------------------------
(* Proofs about Relay, for any number of connections, keys, publications and *)
(* events: first about its registry, then, on top of that, about what its     *)
(* players are given.                                                         *)
EXTENDS Relay, SequenceTheorems, FiniteSetTheorems, TLAPS

\* What the proofs need of the types.
RegistryTypes ==
  /\ streams \in [Keys -> Pubsubs \cup {NoPubsub}]
  /\ DOMAIN pc = Conns
  /\ count \in [Conns -> 0 .. MaxPublications]
  /\ name \in [Pubsubs -> Keys \cup {NoKey}]

\* A publication that its connection still has to remove, or never will,
\* since a later one took its place in h.pub.
Stays(c, n) == pc[c] # "closed" \/ n < count[c]

\* Each such publication is in the registry under its name.
Registered ==
  \A c \in Conns : \A n \in 1 .. count[c] :
    /\ name[<<c, n>>] \in Keys
    /\ Stays(c, n) => streams[name[<<c, n>>]] = <<c, n>>

\* Nothing else is in the registry.
OnlyRegistered ==
  \A k \in Keys : \A c \in Conns : \A n \in 1 .. MaxPublications :
    streams[k] = <<c, n>> => name[<<c, n>>] = k /\ n <= count[c] /\ Stays(c, n)

IInv == RegistryTypes /\ Registered /\ OnlyRegistered

\* The registry depends on these variables only.
registry == <<streams, pc, count, name>>

-----------------------------------------------------------------------------

\* A step of a connection that stays open leaves the registry as it is.
LEMMA StepsElsewhere ==
  ASSUME IInv, NEW c \in Conns, NEW l, pc[c] # "closed", l # "closed",
         pc' = [pc EXCEPT ![c] = l], UNCHANGED <<streams, count, name>>
  PROVE  IInv'
<1>1. RegistryTypes'
  BY DEF IInv, RegistryTypes
<1>2. \A d \in Conns : pc'[d] = "closed" <=> pc[d] = "closed"
  BY DEF IInv, RegistryTypes
<1>3. Registered'
  BY <1>2 DEF IInv, Registered, Stays
<1>4. OnlyRegistered'
  BY <1>2 DEF IInv, OnlyRegistered, Stays
<1> QED BY <1>1, <1>3, <1>4 DEF IInv

\* So does one that moves no connection.
LEMMA Unmoved ==
  ASSUME IInv, UNCHANGED registry
  PROVE  IInv'
BY DEF IInv, RegistryTypes, Registered, OnlyRegistered, Stays, registry

\* Registering a new Pubsub under a free key.
LEMMA PublishStep ==
  ASSUME IInv, NEW c \in Conns, NEW k \in Keys, OnPublish(c, k)
  PROVE  IInv'
<1> DEFINE m == count[c] + 1
<1> USE DEF IInv
<1>1. /\ count[c] \in Nat /\ MaxPublications \in Nat /\ m \in 1 .. MaxPublications
      /\ <<c, m>> \in Pubsubs
  BY ConstantsAssumption DEF OnPublish, MayRegister, RegistryTypes, Pubsubs
<1>2. /\ pc' = pc /\ pc[c] # "closed" /\ streams[k] = NoPubsub
      /\ count' = [count EXCEPT ![c] = m]
      /\ name' = [name EXCEPT ![<<c, m>>] = k]
      /\ streams' = [streams EXCEPT ![k] = <<c, m>>]
  BY DEF OnPublish, Free
<1> HIDE DEF m
<1>3. RegistryTypes'
  BY <1>1, <1>2 DEF RegistryTypes, Pubsubs
<1>4. Registered'
  <2> SUFFICES ASSUME NEW d \in Conns, NEW n \in 1 .. count'[d]
               PROVE  /\ name'[<<d, n>>] \in Keys
                      /\ Stays(d, n)' => streams'[name'[<<d, n>>]] = <<d, n>>
    BY DEF Registered
  <2>1. CASE d = c /\ n = m
    BY <2>1, <1>1, <1>2 DEF RegistryTypes, Pubsubs
  <2>2. CASE ~(d = c /\ n = m)
    <3>1. n \in 1 .. count[d] /\ (d = c => count'[d] = m)
      BY <2>2, <1>1, <1>2 DEF RegistryTypes, m
    <3>2. <<d, n>> \in Pubsubs /\ <<d, n>> # <<c, m>>
      BY <2>2, <3>1, <1>1 DEF RegistryTypes, Pubsubs
    <3>3. name'[<<d, n>>] = name[<<d, n>>] /\ name[<<d, n>>] \in Keys
      BY <3>1, <3>2, <1>2 DEF Registered, RegistryTypes
    <3>4. ASSUME Stays(d, n)' PROVE streams'[name'[<<d, n>>]] = <<d, n>>
      <4>1. Stays(d, n)
        BY <3>1, <3>4, <1>1, <1>2 DEF Stays, RegistryTypes
      <4>2. streams[name[<<d, n>>]] = <<d, n>>
        BY <4>1, <3>1 DEF Registered
      <4>3. name[<<d, n>>] # k
        BY <4>2, <3>2, <1>2, ConstantsAssumption
      <4> QED BY <4>2, <4>3, <3>3, <1>2 DEF RegistryTypes
    <3> QED BY <3>3, <3>4
  <2> QED BY <2>1, <2>2
<1>5. OnlyRegistered'
  <2> SUFFICES ASSUME NEW j \in Keys, NEW d \in Conns, NEW n \in 1 .. MaxPublications,
                      streams'[j] = <<d, n>>
               PROVE  name'[<<d, n>>] = j /\ n <= count'[d] /\ Stays(d, n)'
    BY DEF OnlyRegistered
  <2>1. CASE j = k
    <3>1. d = c /\ n = m
      BY <2>1, <1>2 DEF RegistryTypes
    <3> QED BY <3>1, <2>1, <1>1, <1>2 DEF RegistryTypes, Stays
  <2>2. CASE j # k
    <3>1. streams[j] = <<d, n>>
      BY <2>2, <1>2 DEF RegistryTypes
    <3>2. name[<<d, n>>] = j /\ n <= count[d] /\ Stays(d, n)
      BY <3>1 DEF OnlyRegistered
    <3>3. <<d, n>> # <<c, m>>
      BY <3>2, <1>1 DEF m
    <3>4. n <= count'[d] /\ Stays(d, n)'
      BY <3>2, <1>1, <1>2 DEF RegistryTypes, Stays, m
    <3> QED BY <3>2, <3>3, <3>4, <1>2 DEF RegistryTypes, Pubsubs
  <2> QED BY <2>1, <2>2
<1> QED BY <1>3, <1>4, <1>5

\* Closing removes the connection's last Pubsub, found under its name.
LEMMA CloseStep ==
  ASSUME IInv, NEW c \in Conns, OnClose(c)
  PROVE  IInv'
<1> USE DEF IInv
<1>1. /\ pc[c] = "closing" /\ pc' = [pc EXCEPT ![c] = "closed"]
      /\ UNCHANGED <<count, name>> /\ streams' = RemovePubsub(c)
  BY DEF OnClose, Goto, pubVars
<1>2. count[c] \in Nat /\ count[c] <= MaxPublications /\ MaxPublications \in Nat
  BY ConstantsAssumption DEF RegistryTypes
<1>3. ASSUME count[c] > 0
      PROVE  /\ name[<<c, count[c]>>] \in Keys
             /\ streams[name[<<c, count[c]>>]] = <<c, count[c]>>
             /\ streams' = [streams EXCEPT ![name[<<c, count[c]>>]] = NoPubsub]
  <2>1. count[c] \in 1 .. count[c]
    BY <1>2, <1>3
  <2> QED BY <2>1, <1>1, <1>3 DEF Registered, Stays, RemovePubsub, Pub
<1>4. ASSUME ~(count[c] > 0) PROVE streams' = streams
  BY <1>1, <1>4 DEF RemovePubsub
<1>5. RegistryTypes'
  BY <1>1, <1>3, <1>4 DEF RegistryTypes
<1>6. \A d \in Conns : \A n \in 1 .. count[d] :
        Stays(d, n)' <=> Stays(d, n) /\ ~(d = c /\ n = count[c])
  BY <1>1, <1>2 DEF Stays, RegistryTypes
<1>7. Registered'
  <2> SUFFICES ASSUME NEW d \in Conns, NEW n \in 1 .. count[d], Stays(d, n)'
               PROVE  streams'[name[<<d, n>>]] = <<d, n>>
    BY <1>1 DEF Registered
  <2>1. streams[name[<<d, n>>]] = <<d, n>> /\ name[<<d, n>>] \in Keys
    BY <1>6 DEF Registered
  <2>2. CASE count[c] > 0
    <3>1. <<d, n>> # <<c, count[c]>>
      BY <1>6
    <3>2. name[<<d, n>>] # name[<<c, count[c]>>]
      BY <3>1, <2>1, <1>3, <2>2
    <3> QED BY <3>2, <2>1, <1>3, <2>2 DEF RegistryTypes
  <2>3. CASE ~(count[c] > 0)
    BY <2>1, <2>3, <1>4
  <2> QED BY <2>2, <2>3
<1>8. OnlyRegistered'
  <2> SUFFICES ASSUME NEW j \in Keys, NEW d \in Conns, NEW n \in 1 .. MaxPublications,
                      streams'[j] = <<d, n>>
               PROVE  name[<<d, n>>] = j /\ n <= count[d] /\ Stays(d, n)'
    BY <1>1 DEF OnlyRegistered
  <2>1. <<d, n>> # NoPubsub
    BY ConstantsAssumption DEF Pubsubs
  <2>2. streams[j] = <<d, n>>
    BY <2>1, <1>3, <1>4 DEF RegistryTypes
  <2>3. name[<<d, n>>] = j /\ n <= count[d] /\ Stays(d, n)
    BY <2>2 DEF OnlyRegistered
  <2>4. ~(d = c /\ n = count[c])
    <3> SUFFICES ASSUME d = c, n = count[c] PROVE FALSE
      OBVIOUS
    <3>1. streams'[j] = NoPubsub
      BY <2>3, <1>3, <1>2 DEF RegistryTypes
    <3> QED BY <3>1, <2>1
  <2>5. n \in 1 .. count[d]
    BY <2>3 DEF RegistryTypes
  <2> QED BY <2>3, <2>4, <2>5, <1>6
<1> QED BY <1>5, <1>7, <1>8

LEMMA InitInv == Init => IInv
<1> SUFFICES ASSUME Init PROVE IInv
  OBVIOUS
<1>1. RegistryTypes
  BY ConstantsAssumption DEF Init, RegistryTypes
<1>2. Registered
  BY DEF Init, Registered
<1>3. OnlyRegistered
  <2> SUFFICES ASSUME NEW k \in Keys, NEW c \in Conns, NEW n \in 1 .. MaxPublications
               PROVE  streams[k] # <<c, n>>
    BY DEF OnlyRegistered
  <2>1. <<c, n>> \in Pubsubs
    BY DEF Pubsubs
  <2> QED BY <2>1, ConstantsAssumption DEF Init
<1> QED BY <1>1, <1>2, <1>3 DEF IInv

LEMMA Inductive == IInv /\ [Next]_vars => IInv'
<1> SUFFICES ASSUME IInv, [Next]_vars PROVE IInv'
  OBVIOUS
<1> USE ConstantsAssumption DEF Goto, pubVars, subVars
<1>1. CASE UNCHANGED vars
  BY <1>1, Unmoved DEF vars, registry
<1>2. ASSUME NEW ch \in Channels, NEW k \in Keys, SetKey(ch, k) PROVE IInv'
  BY <1>2, Unmoved DEF SetKey, registry
<1>3. ASSUME NEW c \in Publishers, NEW k \in Keys, OnPublish(c, k) PROVE IInv'
  BY <1>3, PublishStep
<1>4. ASSUME NEW c \in Publishers, NEW k \in Keys, OnPublishRejected(c, k) PROVE IInv'
  BY <1>4, StepsElsewhere DEF OnPublishRejected
<1>5. ASSUME NEW c \in Publishers, NEW kind \in Kinds, Publish(c, kind) PROVE IInv'
  BY <1>5, StepsElsewhere DEF Publish
<1>6. ASSUME NEW c \in Players, NEW ch \in Channels, OnPlay(c, ch) PROVE IInv'
  BY <1>6, StepsElsewhere DEF OnPlay
<1>7. ASSUME NEW c \in Players, NEW ch \in Channels, OnPlayRejected(c, ch) PROVE IInv'
  BY <1>7, StepsElsewhere DEF OnPlayRejected
<1>8. ASSUME NEW c \in Conns, Sub(c) PROVE IInv'
  BY <1>8, StepsElsewhere DEF Sub
<1>9. ASSUME NEW c \in Conns, SetEventCallback(c) PROVE IInv'
  BY <1>9, StepsElsewhere DEF SetEventCallback
<1>10. ASSUME NEW c \in Conns, Deliver(c) PROVE IInv'
  BY <1>10, Unmoved DEF Deliver, registry
<1>11. ASSUME NEW c \in Conns, CallNil(c) PROVE IInv'
  BY <1>11, StepsElsewhere DEF CallNil
<1>12. ASSUME NEW c \in Conns, PublishReturns(c) PROVE IInv'
  BY <1>12, StepsElsewhere DEF PublishReturns
<1>13. ASSUME NEW c \in Conns, Disconnect(c) PROVE IInv'
  BY <1>13, StepsElsewhere DEF Disconnect
<1>14. ASSUME NEW c \in Conns, OnClose(c) PROVE IInv'
  BY <1>14, CloseStep
<1> QED
  BY <1>1, <1>2, <1>3, <1>4, <1>5, <1>6, <1>7, <1>8, <1>9, <1>10, <1>11, <1>12,
     <1>13, <1>14 DEF Next

-----------------------------------------------------------------------------

\* A key is never held by a connection that is gone, except through a
\* publication that a second publish command had replaced (handler.go:61).
THEOREM NothingLeftBehind == Spec => []PublishedHasPublisher
<1>1. IInv => PublishedHasPublisher
  <2> SUFFICES ASSUME IInv, NEW k \in Keys, NEW p \in Pubsubs, streams[k] = p
               PROVE  name[p] = k /\ (pc[p[1]] = "closed" => p[2] < count[p[1]])
    BY DEF PublishedHasPublisher
  <2>1. PICK c \in Conns, n \in 1 .. MaxPublications : p = <<c, n>>
    BY DEF Pubsubs
  <2> QED BY <2>1 DEF IInv, OnlyRegistered, Stays
<1> QED BY <1>1, InitInv, Inductive, PTL DEF Spec

\* Whatever the connections do, a registered Pubsub is only removed by the
\* closing of the connection whose last publication it is, and never
\* replaced (relay_service.go:24, 47).
THEOREM OnlyOwnRemoved == Spec => RemovesOwn
<1> DEFINE Own == \A k \in Keys : \A c \in Conns : \A n \in 1 .. MaxPublications :
                    streams[k] = <<c, n>> /\ streams'[k] # <<c, n>> =>
                      streams'[k] = NoPubsub /\ pc[c] = "closing" /\ n = count[c]
<1>1. IInv /\ [Next]_vars => [Own]_vars
  <2> SUFFICES ASSUME IInv, Next, NEW k \in Keys, NEW c \in Conns,
                      NEW n \in 1 .. MaxPublications,
                      streams[k] = <<c, n>>, streams'[k] # <<c, n>>
               PROVE  streams'[k] = NoPubsub /\ pc[c] = "closing" /\ n = count[c]
    BY DEF vars
  <2>1. <<c, n>> # NoPubsub
    BY ConstantsAssumption DEF Pubsubs
  <2>2. CASE \E d \in Publishers, j \in Keys : OnPublish(d, j)
    <3>1. PICK d \in Publishers, j \in Keys : OnPublish(d, j)
      BY <2>2
    <3>2. j # k /\ streams' = [streams EXCEPT ![j] = <<d, count[d] + 1>>]
      BY <3>1, <2>1 DEF OnPublish, Free
    <3> QED BY <3>2 DEF IInv, RegistryTypes
  <2>3. CASE \E d \in Conns : OnClose(d)
    <3>1. PICK d \in Conns : OnClose(d)
      BY <2>3
    <3>2. /\ pc[d] = "closing" /\ count[d] > 0
          /\ streams' = [streams EXCEPT ![name[<<d, count[d]>>]] = NoPubsub]
      BY <3>1 DEF OnClose, RemovePubsub, Pub
    <3>3. count[d] \in 1 .. count[d]
      BY <3>2, ConstantsAssumption DEF IInv, RegistryTypes
    <3>4. streams[name[<<d, count[d]>>]] = <<d, count[d]>>
      BY <3>2, <3>3 DEF IInv, Registered, Stays
    <3>5. name[<<d, count[d]>>] = k
      BY <3>2 DEF IInv, RegistryTypes
    <3> QED BY <3>2, <3>4, <3>5 DEF IInv, RegistryTypes
  <2>4. CASE UNCHANGED streams
    BY <2>4
  <2> QED
    BY <2>2, <2>3, <2>4
    DEF Next, SetKey, OnPublishRejected, Publish, OnPlay, OnPlayRejected, Sub,
        SetEventCallback, Deliver, CallNil, PublishReturns, Disconnect
<1>2. [][Own]_vars => RemovesOwn
  BY PTL DEF RemovesOwn
<1> QED BY <1>1, <1>2, InitInv, Inductive, PTL DEF Spec

-----------------------------------------------------------------------------
(* What the players are given. *)


\* A publication whose connection may publish more events of it.
Publishes(p) == p[2] = count[p[1]] /\ pc[p[1]] \notin {"closing", "closed"}

\* The event of publication p that its Sub s should have been given.
Due(p, s) == IF s \in Elements(rest[p[1]]) THEN Len(log[p]) - 1 ELSE Len(log[p])

Last(s) == got[s][Len(got[s])]

\* The kind of the event a player was given at place i.
KindAt(s, i) == log[target[s]][got[s][i].event]

\* A player is in the list of the publication it found, once, and in no other.
Attached ==
  /\ \A p \in Pubsubs : \A i \in 1 .. Len(subs[p]) :
       target[subs[p][i]] = p /\ pc[subs[p][i]] # "sub"
  /\ \A p \in Pubsubs : \A i, j \in 1 .. Len(subs[p]) : subs[p][i] = subs[p][j] => i = j
  /\ \A s \in Conns : target[s] # NoPubsub => target[s][2] <= count[target[s][1]]
  /\ \A s \in Conns : pc[s] = "sub" => target[s] # NoPubsub
  /\ \A p \in Pubsubs : p[2] > count[p[1]] => log[p] = <<>>

\* The loop over the Subs has some of them before it, each once.
Turns ==
  \A c \in Conns :
    /\ rest[c] # <<>> => pc[c] = "publish"
    /\ pc[c] = "publish" => count[c] > 0 /\ log[Pub(c)] # <<>>
    /\ \A i \in 1 .. Len(rest[c]) : rest[c][i] \in Elements(subs[Pub(c)])
    /\ \A i, j \in 1 .. Len(rest[c]) : rest[c][i] = rest[c][j] => i = j

\* The header h and the key frame k kept of the events in l, once there was
\* video, which an encoder sends in their order.
Retains(l, h, k) ==
  /\ h \in 0 .. Len(l) /\ k \in 0 .. Len(l)
  /\ (\E e \in 1 .. Len(l) : l[e] # "audio") => h # 0 /\ k # 0
  /\ h # 0 => l[h] = "header"
  /\ k # 0 => l[k] \in {"header", "key"}
  /\ (\E e \in 1 .. Len(l) : l[e] = "key") => l[k] = "key"
  /\ \A e \in 1 .. Len(l) : l[e] = "inter" => \E d \in 1 .. e - 1 : l[d] = "key"

Keeps == \A p \in Pubsubs : Retains(log[p], avcSeqHeader[p], lastKeyFrame[p])

\* What players were given are events of the publication they found.
Within ==
  \A s \in Conns : \A j \in 1 .. Len(got[s]) :
    /\ target[s] # NoPubsub /\ s \in Elements(subs[target[s]])
    /\ got[s][j].event \in 1 .. Len(log[target[s]])

\* An open player that follows live has been given all up to now.
CaughtUp ==
  \A s \in Conns \ closed : \A p \in Pubsubs :
    target[s] = p /\ Publishes(p) /\ got[s] # <<>> /\ Last(s).live => Last(s).event = Due(p, s)

\* An initialized player has a header, and a key frame if there was one.
Primed ==
  \A s \in initialized \ closed :
    /\ \E i \in 1 .. Len(got[s]) : KindAt(s, i) = "header"
    /\ \A p \in Pubsubs : target[s] = p /\ Publishes(p) =>
         \A e \in 1 .. Due(p, s) :
           log[p][e] = "key" => \E i \in 1 .. Len(got[s]) : KindAt(s, i) = "key"

\* Timestamps in g count from the origin o, which is 0 as long as nothing but
\* the first event was given.
Timed(o, g) ==
  /\ o = 0 => \A j \in 1 .. Len(g) : g[j].event = 1
  /\ \A j \in 1 .. Len(g) : g[j].live =>
       g[j].stamp = IF g[j].event - 1 < o THEN 0 ELSE g[j].event - 1 - o
  /\ \A i, j \in 1 .. Len(g) :
       i <= j /\ g[i].live /\ g[j].live => g[i].event <= g[j].event

Clocked ==
  \A s \in Conns :
    /\ Timed(lastTimestamp[s], got[s])
    /\ lastTimestamp[s] # 0 => target[s] # NoPubsub /\ lastTimestamp[s] < Len(log[target[s]])

Published == {e \in Pubsubs \X (1 .. MaxEvents) : e[2] <= Len(log[e[1]])}

InBounds == IsFiniteSet(Published) /\ \A p \in Pubsubs : Len(log[p]) <= MaxEvents

\* The invariant.
PInv ==
  /\ IInv /\ TypeOK /\ InBounds /\ Attached /\ Turns /\ Keeps /\ Within
  /\ CaughtUp /\ NoGap /\ Primed /\ KeyFirst /\ Clocked

-----------------------------------------------------------------------------

\* What a sequence is after Append,
LEMMA Appended ==
  ASSUME NEW S, NEW q \in Seq(S), NEW x \in S
  PROVE  /\ Append(q, x) \in Seq(S) /\ Len(Append(q, x)) = Len(q) + 1
         /\ \A i \in 1 .. Len(q) : Append(q, x)[i] = q[i]
         /\ Append(q, x)[Len(q) + 1] = x
         /\ Elements(Append(q, x)) = Elements(q) \cup {x}
<1> DEFINE a == Append(q, x)
<1>1. /\ a \in Seq(S) /\ Len(a) = Len(q) + 1 /\ Len(q) \in Nat
      /\ \A i \in 1 .. Len(q) : a[i] = q[i]
      /\ a[Len(q) + 1] = x
      /\ DOMAIN a = 1 .. Len(q) + 1 /\ DOMAIN q = 1 .. Len(q)
  OBVIOUS
<1> HIDE DEF a
<1>2. Elements(a) = Elements(q) \cup {x}
  <2>1. \A i \in 1 .. Len(q) + 1 : i \in 1 .. Len(q) \/ i = Len(q) + 1
    BY <1>1
  <2>2. \A i \in 1 .. Len(q) : i \in 1 .. Len(q) + 1
    BY <1>1
  <2>3. Len(q) + 1 \in 1 .. Len(q) + 1
    BY <1>1
  <2> QED BY <2>1, <2>2, <2>3, <1>1 DEF Elements
<1> QED BY <1>1, <1>2 DEF a

\* and after Tail.
LEMMA Rest ==
  ASSUME NEW S, NEW q \in Seq(S), q # <<>>
  PROVE  /\ Tail(q) \in Seq(S) /\ Len(Tail(q)) = Len(q) - 1 /\ Head(q) \in S /\ Len(q) > 0
         /\ \A i \in 1 .. Len(q) - 1 : Tail(q)[i] = q[i + 1]
         /\ Head(q) = q[1]
         /\ Elements(q) = {Head(q)} \cup Elements(Tail(q))
<1> DEFINE t == Tail(q)
<1>1. /\ t \in Seq(S) /\ Len(t) = Len(q) - 1 /\ Len(q) \in Nat /\ Len(q) > 0
      /\ \A i \in 1 .. Len(q) - 1 : t[i] = q[i + 1]
      /\ Head(q) = q[1] /\ q[1] \in S
      /\ DOMAIN t = 1 .. Len(q) - 1 /\ DOMAIN q = 1 .. Len(q)
  OBVIOUS
<1> HIDE DEF t
<1>2. Elements(q) = {Head(q)} \cup Elements(t)
  <2>1. \A i \in 1 .. Len(q) : i = 1 \/ (i - 1 \in 1 .. Len(q) - 1 /\ i = (i - 1) + 1)
    BY <1>1
  <2>2. \A i \in 1 .. Len(q) - 1 : i + 1 \in 1 .. Len(q)
    BY <1>1
  <2>3. 1 \in 1 .. Len(q)
    BY <1>1
  <2>6. \A i \in 1 .. Len(q) - 1 : t[i] \in Elements(t)
    BY <1>1 DEF Elements
  <2>4. ASSUME NEW i \in 1 .. Len(q) PROVE q[i] = Head(q) \/ q[i] \in Elements(t)
    <3>1. CASE i = 1
      BY <3>1, <1>1
    <3>2. CASE i # 1
      <4>1. i - 1 \in 1 .. Len(q) - 1 /\ (i - 1) + 1 = i
        BY <3>2, <2>1
      <4> QED BY <4>1, <2>6, <1>1
    <3> QED BY <3>1, <3>2
  <2>5. \A i \in 1 .. Len(q) - 1 : t[i] \in Elements(q)
    BY <2>2, <1>1 DEF Elements
  <2> QED BY <2>3, <2>4, <2>5, <1>1 DEF Elements
<1> QED BY <1>1, <1>2 DEF t

\* Two elements put together.
LEMMA Pair ==
  ASSUME NEW x, NEW y
  PROVE  <<x>> \o <<y>> = <<x, y>>
<1> DEFINE S == {x, y}
<1>1. <<x>> \o <<y>> \in Seq(S) /\ <<x, y>> \in Seq(S)
  OBVIOUS
<1>2. Len(<<x>> \o <<y>>) = 2 /\ Len(<<x, y>>) = 2
  OBVIOUS
<1>3. (<<x>> \o <<y>>)[1] = x /\ (<<x>> \o <<y>>)[2] = y
  OBVIOUS
<1>4. \A i \in 1 .. 2 : (<<x>> \o <<y>>)[i] = <<x, y>>[i]
  <2>1. \A i \in 1 .. 2 : i = 1 \/ i = 2
    OBVIOUS
  <2> QED BY <1>3, <2>1
<1> QED BY <1>1, <1>2, <1>4, SeqEqual

\* The elements of a sequence by their places.
LEMMA Placed ==
  ASSUME NEW S, NEW q \in Seq(S)
  PROVE  /\ Elements(q) \subseteq S
         /\ \A x : x \in Elements(q) <=> \E i \in 1 .. Len(q) : q[i] = x
<1>1. DOMAIN q = 1 .. Len(q) /\ \A i \in 1 .. Len(q) : q[i] \in S
  OBVIOUS
<1> QED BY <1>1 DEF Elements

\* The first of several different elements is not among the others.
LEMMA FirstOnce ==
  ASSUME NEW S, NEW q \in Seq(S), q # <<>>,
         \A i, j \in 1 .. Len(q) : q[i] = q[j] => i = j
  PROVE  /\ Head(q) \notin Elements(Tail(q))
         /\ \A i, j \in 1 .. Len(Tail(q)) : Tail(q)[i] = Tail(q)[j] => i = j
<1>1. /\ Tail(q) \in Seq(S) /\ Len(Tail(q)) = Len(q) - 1 /\ Len(q) > 0 /\ Len(q) \in Nat
      /\ \A i \in 1 .. Len(q) - 1 : Tail(q)[i] = q[i + 1]
      /\ Head(q) = q[1]
  BY Rest
<1>2. \A i \in 1 .. Len(q) - 1 : i + 1 \in 1 .. Len(q) /\ i + 1 # 1
  BY <1>1
<1>3. 1 \in 1 .. Len(q)
  BY <1>1
<1>4. Head(q) \notin Elements(Tail(q))
  <2> SUFFICES ASSUME Head(q) \in Elements(Tail(q)) PROVE FALSE
    OBVIOUS
  <2>0. DOMAIN Tail(q) = 1 .. Len(Tail(q))
    BY <1>1
  <2>1. PICK i \in 1 .. Len(q) - 1 : Tail(q)[i] = Head(q)
    BY <1>1, <2>0 DEF Elements
  <2> QED BY <2>1, <1>1, <1>2, <1>3
<1>5. \A i, j \in 1 .. Len(q) - 1 : Tail(q)[i] = Tail(q)[j] => i = j
  BY <1>1, <1>2
<1> QED BY <1>4, <1>5, <1>1

\* The newest event so far.
Newest(g, i) == i <= MaxEvents /\ \A j \in 1 .. Len(g) : g[j].event <= i

\* What a Sub with the origin o that was given g is after onEvent.
Handed(o, g, i, live, sub) ==
  /\ sub.origin \in Nat /\ sub.got \in Seq(Delivery)
  /\ sub.origin = o \/ sub.origin < i
  /\ Timed(sub.origin, sub.got)
  /\ Len(sub.got) = Len(g) + 1
  /\ \A j \in 1 .. Len(g) : sub.got[j] = g[j]
  /\ sub.got[Len(g) + 1].event = i
  /\ sub.got[Len(g) + 1].live <=> live

\* One event handed to a Sub: its timestamp counts from the origin, and a
\* live one, the newest so far, is given its place after the others.
LEMMA EventGiven ==
  ASSUME NEW o \in Nat, NEW g \in Seq(Delivery), NEW i \in Nat, NEW live \in BOOLEAN,
         i > 0, Timed(o, g), live => o < i /\ Newest(g, i)
  PROVE  Handed(o, g, i, live, OnEvent([origin |-> o, got |-> g], i, live))
<1> DEFINE n == Origin(o, i)
<1> DEFINE d == Stamped(o, i, live)
<1> DEFINE h == Append(g, d)
<1>1. n \in Nat /\ (n = o \/ (o = 0 /\ n = i - 1)) /\ (o = 0 => n = i - 1) /\ (o # 0 => n = o)
  BY DEF Origin
<1>2. /\ d \in Delivery /\ d.event = i /\ d.live = live
      /\ d.stamp = (i - 1 - n) % Modulus
  <2>1. (i - 1 - n) % Modulus \in Nat
    BY <1>1, ConstantsAssumption
  <2> QED BY <2>1 DEF Stamped, Delivery
<1>3. live => d.stamp = i - 1 - n /\ ~(i - 1 < n)
  <2> SUFFICES ASSUME live PROVE d.stamp = i - 1 - n /\ ~(i - 1 < n)
    OBVIOUS
  <2>1. o < i /\ i <= MaxEvents
    BY DEF Newest
  <2>4. n \in Nat /\ n <= i - 1
    BY <1>1, <2>1
  <2> HIDE DEF n, d
  <2>5. i - 1 - n \in Nat /\ i - 1 - n < Modulus /\ Modulus \in Nat
    BY <2>1, <2>4, ConstantsAssumption
  <2>6. \A x, m \in Nat : x < m => x % m = x
    OBVIOUS
  <2>2. (i - 1 - n) % Modulus = i - 1 - n
    BY <2>5, <2>6
  <2>3. d.stamp = i - 1 - n
    BY <2>2, <1>2
  <2> QED BY <2>3, <2>4
<1> HIDE DEF n, d
<1>4. /\ h \in Seq(Delivery) /\ Len(h) = Len(g) + 1 /\ Len(g) \in Nat
      /\ \A j \in 1 .. Len(g) : h[j] = g[j]
      /\ h[Len(g) + 1] = d
  BY <1>2, Appended
<1> HIDE DEF h
<1>5. /\ \A j \in 1 .. Len(h) : j \in 1 .. Len(g) \/ j = Len(g) + 1
      /\ \A j \in 1 .. Len(g) : g[j] \in Delivery
  BY <1>4
<1>6. Timed(n, h)
  <2>1. ASSUME n = 0, NEW j \in 1 .. Len(h) PROVE h[j].event = 1
    BY <2>1, <1>1, <1>2, <1>4, <1>5 DEF Timed
  <2>2. ASSUME NEW j \in 1 .. Len(h), h[j].live
        PROVE  h[j].stamp = IF h[j].event - 1 < n THEN 0 ELSE h[j].event - 1 - n
    <3>1. CASE j = Len(g) + 1
      BY <3>1, <2>2, <1>1, <1>2, <1>3, <1>4
    <3>2. CASE j \in 1 .. Len(g)
      <4>1. g[j].stamp = IF g[j].event - 1 < o THEN 0 ELSE g[j].event - 1 - o
        BY <3>2, <2>2, <1>4 DEF Timed
      <4>2. CASE o = 0
        <5>1. g[j].event = 1
          BY <4>2, <3>2 DEF Timed
        <5> QED BY <5>1, <4>1, <4>2, <3>2, <1>1, <1>4
      <4>3. CASE o # 0
        BY <4>1, <4>3, <3>2, <1>1, <1>4
      <4> QED BY <4>2, <4>3
    <3> QED BY <3>1, <3>2, <1>5
  <2>3. ASSUME NEW j \in 1 .. Len(h), NEW k \in 1 .. Len(h), j <= k, h[j].live, h[k].live
        PROVE  h[j].event <= h[k].event
    <3>1. CASE k \in 1 .. Len(g)
      <4>1. j \in 1 .. Len(g)
        BY <3>1, <2>3, <1>4
      <4> QED BY <4>1, <3>1, <2>3, <1>4 DEF Timed
    <3>2. CASE k = Len(g) + 1
      <4>1. CASE j = Len(g) + 1
        BY <4>1, <3>2, <1>2, <1>4
      <4>2. CASE j \in 1 .. Len(g)
        BY <4>2, <3>2, <2>3, <1>2, <1>4 DEF Newest
      <4> QED BY <4>1, <4>2, <1>5
    <3> QED BY <3>1, <3>2, <1>5
  <2> QED BY <2>1, <2>2, <2>3 DEF Timed
<1>7. /\ OnEvent([origin |-> o, got |-> g], i, live).origin = n
      /\ OnEvent([origin |-> o, got |-> g], i, live).got = h
  BY DEF OnEvent, n, d, h
<1>8. n = o \/ n < i
  BY <1>1
<1>9. h[Len(g) + 1].live <=> live
  BY <1>2, <1>4
<1> QED BY <1>1, <1>2, <1>4, <1>6, <1>7, <1>8, <1>9 DEF Handed

-----------------------------------------------------------------------------

\* The Pubsub of a connection that has published.
LEMMA OwnPub ==
  ASSUME TypeOK, NEW c \in Conns, count[c] > 0
  PROVE  Pub(c) \in Pubsubs /\ Pub(c)[1] = c /\ Pub(c)[2] = count[c]
BY ConstantsAssumption DEF TypeOK, Pub, Pubsubs

\* The invariant holds at first.
LEMMA PInit == Init => PInv
<1> SUFFICES ASSUME Init PROVE PInv
  OBVIOUS
<1>1. IInv
  BY InitInv
<1>2. TypeOK
  BY ConstantsAssumption DEF Init, TypeOK
<1>3. InBounds
  <2>1. Published = {}
    BY ConstantsAssumption DEF Init, Published, Pubsubs
  <2> QED BY <2>1, FS_EmptySet, ConstantsAssumption DEF Init, InBounds
<1>4. Attached
  BY DEF Init, Attached, Pubsubs
<1>5. Turns
  BY DEF Init, Turns
<1>6. Keeps
  BY DEF Init, Keeps, Retains
<1>7. Within /\ NoGap /\ KeyFirst
  BY DEF Init, Within, NoGap, KeyFirst
<1>8. CaughtUp /\ Primed
  BY DEF Init, CaughtUp, Primed
<1>9. Clocked
  BY DEF Init, Clocked, Timed
<1> QED BY <1>1, <1>2, <1>3, <1>4, <1>5, <1>6, <1>7, <1>8, <1>9 DEF PInv

\* What the types give of the registry.
LEMMA TypesFrom ==
  ASSUME TypeOK
  PROVE  /\ \A p \in Pubsubs : p[1] \in Conns /\ p[2] \in 1 .. MaxPublications /\ p = <<p[1], p[2]>>
         /\ \A p \in Pubsubs : log[p] \in Seq(Kinds) /\ subs[p] \in Seq(Conns)
         /\ \A p \in Pubsubs : Elements(subs[p]) \subseteq Conns
         /\ \A c \in Conns : Elements(rest[c]) \subseteq Conns
<1>1. \A p \in Pubsubs : p[1] \in Conns /\ p[2] \in 1 .. MaxPublications /\ p = <<p[1], p[2]>>
  BY DEF Pubsubs
<1>2. \A p \in Pubsubs : log[p] \in Seq(Kinds) /\ subs[p] \in Seq(Conns)
  BY DEF TypeOK
<1>3. \A c \in Conns : rest[c] \in Seq(Conns)
  BY DEF TypeOK
<1>4. \A q \in Seq(Conns) : Elements(q) \subseteq Conns
  BY DEF Elements
<1> QED BY <1>1, <1>2, <1>3, <1>4

-----------------------------------------------------------------------------
(* Types. *)

\* The variables of the registry, whose types IInv has.
LEMMA RegistryTyped ==
  ASSUME IInv'
  PROVE  /\ streams' \in [Keys -> Pubsubs \cup {NoPubsub}]
         /\ count' \in [Conns -> 0 .. MaxPublications]
         /\ name' \in [Pubsubs -> Keys \cup {NoKey}]
BY DEF IInv, RegistryTypes

\* What a loop's turn gives the Sub at its head.
TurnGiven(c, s) ==
  LET g    == Given(c, s)
      live == ~Replays(c, s)
      sub  == [origin |-> lastTimestamp[s], got |-> got[s]]
  IN  CASE Len(g) = 0 -> sub
        [] Len(g) = 1 -> OnEvent(sub, g[1], live)
        [] Len(g) = 2 -> OnEvent(OnEvent(sub, g[1], live), g[2], live)

\* It by the number of events.
LEMMA TurnLengths ==
  ASSUME NEW c, NEW s
  PROVE  LET sub == [origin |-> lastTimestamp[s], got |-> got[s]]
         IN  /\ Given(c, s) = <<>> => TurnGiven(c, s) = sub
             /\ \A i : Given(c, s) = <<i>> /\ ~Replays(c, s) =>
                  TurnGiven(c, s) = OnEvent(sub, i, TRUE)
             /\ \A i, j : Given(c, s) = <<i, j>> /\ Replays(c, s) =>
                  TurnGiven(c, s) = OnEvent(OnEvent(sub, i, FALSE), j, FALSE)
<1> DEFINE sub == [origin |-> lastTimestamp[s], got |-> got[s]]
<1> DEFINE live == ~Replays(c, s)
<1>0. \A i, j : /\ Len(<<i>>) = 1 /\ <<i>>[1] = i
                /\ Len(<<i, j>>) = 2 /\ <<i, j>>[1] = i /\ <<i, j>>[2] = j
  OBVIOUS
<1>1. ASSUME Given(c, s) = <<>> PROVE TurnGiven(c, s) = sub
  BY <1>1 DEF TurnGiven
<1>2. ASSUME NEW i, Given(c, s) = <<i>>, ~Replays(c, s)
      PROVE  TurnGiven(c, s) = OnEvent(sub, i, TRUE)
  <2>1. live = TRUE
    BY <1>2, Zenon
  <2>2. TurnGiven(c, s) = OnEvent(sub, i, live)
    BY <1>0, <1>2 DEF TurnGiven
  <2> HIDE DEF live, sub
  <2> QED BY <2>1, <2>2, Zenon
<1>3. ASSUME NEW i, NEW j, Given(c, s) = <<i, j>>, Replays(c, s)
      PROVE  TurnGiven(c, s) = OnEvent(OnEvent(sub, i, FALSE), j, FALSE)
  <2>1. live = FALSE
    BY <1>3, Zenon
  <2>2. TurnGiven(c, s) = OnEvent(OnEvent(sub, i, live), j, live)
    BY <1>0, <1>3 DEF TurnGiven
  <2> HIDE DEF live, sub
  <2> QED BY <2>1, <2>2, Zenon
<1> QED BY <1>1, <1>2, <1>3

\* What a turn of the loop changes.
LEMMA TurnOf ==
  ASSUME PInv, NEW c \in Conns, Deliver(c)
  PROVE  LET s == Head(rest[c])
             p == Pub(c)
         IN  /\ s \in Conns /\ p \in Pubsubs /\ p[1] = c /\ p[2] = count[c]
             /\ pc[c] = "publish" /\ count[c] > 0
             /\ log[p] \in Seq(Kinds) /\ Len(log[p]) \in Nat /\ Len(log[p]) > 0
             /\ s \in Elements(subs[p]) /\ target[s] = p
             /\ rest' = [rest EXCEPT ![c] = Tail(rest[c])]
             /\ Elements(rest[c]) = {s} \cup Elements(Tail(rest[c]))
             /\ s \notin Elements(Tail(rest[c]))
             /\ lastTimestamp' = [lastTimestamp EXCEPT ![s] = TurnGiven(c, s).origin]
             /\ got' = [got EXCEPT ![s] = TurnGiven(c, s).got]
             /\ initialized' = IF Replays(c, s) THEN initialized \cup {s} ELSE initialized
<1> DEFINE s == Head(rest[c])
<1> DEFINE p == Pub(c)
<1>0. TypeOK /\ Attached /\ Turns
  BY DEF PInv
<1>1. pc[c] = "publish" /\ rest[c] # <<>> /\ rest[c] \in Seq(Conns)
  BY <1>0 DEF Deliver, TypeOK
<1>2. count[c] > 0 /\ log[p] # <<>>
  BY <1>0, <1>1 DEF Turns
<1>3. p \in Pubsubs /\ p[1] = c /\ p[2] = count[c]
  BY <1>0, <1>2, OwnPub
<1> HIDE DEF p
<1>4. log[p] \in Seq(Kinds)
  BY <1>0, <1>3, TypesFrom
<1>5. Len(log[p]) \in Nat /\ Len(log[p]) > 0
  BY <1>4, <1>2
<1>6. /\ s \in Conns /\ Len(rest[c]) > 0 /\ s = rest[c][1]
      /\ Elements(rest[c]) = {s} \cup Elements(Tail(rest[c]))
  BY <1>1, Rest
<1>7. 1 \in 1 .. Len(rest[c])
  BY <1>1, <1>6
<1>8. s \in Elements(subs[p])
  BY <1>0, <1>6, <1>7 DEF Turns, p
<1>9. target[s] = p
  <2>1. subs[p] \in Seq(Conns)
    BY <1>0, <1>3, TypesFrom
  <2>2. PICK i \in 1 .. Len(subs[p]) : subs[p][i] = s
    BY <2>1, <1>8 DEF Elements
  <2> QED BY <2>2, <1>0, <1>3 DEF Attached
<1>10. s \notin Elements(Tail(rest[c]))
  BY <1>0, <1>1, FirstOnce DEF Turns
<1>11. /\ rest' = [rest EXCEPT ![c] = Tail(rest[c])]
       /\ lastTimestamp' = [lastTimestamp EXCEPT ![s] = TurnGiven(c, s).origin]
       /\ got' = [got EXCEPT ![s] = TurnGiven(c, s).got]
       /\ initialized' = IF Replays(c, s) THEN initialized \cup {s} ELSE initialized
  BY DEF Deliver, Remaining, TurnGiven
<1> QED BY <1>1, <1>2, <1>3, <1>4, <1>5, <1>6, <1>8, <1>9, <1>10, <1>11 DEF p

\* What the Sub at the head has then been given: nothing when it is closed,
LEMMA TurnClosed ==
  ASSUME PInv, NEW c \in Conns, Deliver(c), Head(rest[c]) \in closed
  PROVE  UNCHANGED <<got, lastTimestamp>>
<1> DEFINE s == Head(rest[c])
<1>1. /\ s \in Conns
      /\ lastTimestamp' = [lastTimestamp EXCEPT ![s] = TurnGiven(c, s).origin]
      /\ got' = [got EXCEPT ![s] = TurnGiven(c, s).got]
  BY TurnOf
<1>2. Given(c, s) = <<>>
  BY DEF Given
<1>3. TurnGiven(c, s) = [origin |-> lastTimestamp[s], got |-> got[s]]
  BY <1>2 DEF TurnGiven
<1> QED BY <1>1, <1>3 DEF PInv, TypeOK

\* the header and the key frame when it is not initialized,
LEMMA TurnReplays ==
  ASSUME PInv, NEW c \in Conns, Deliver(c), Head(rest[c]) \notin closed,
         Replays(c, Head(rest[c]))
  PROVE  LET s == Head(rest[c])
             p == Pub(c)
             n == Len(got[s])
             o == lastTimestamp'[s]
             g == got'[s]
         IN  /\ o \in Nat /\ g \in Seq(Delivery)
             /\ lastTimestamp' = [lastTimestamp EXCEPT ![s] = o]
             /\ got' = [got EXCEPT ![s] = g]
             /\ o = lastTimestamp[s] \/ o < Len(log[p])
             /\ Timed(o, g)
             /\ Len(g) = n + 2
             /\ \A j \in 1 .. n : g[j] = got[s][j]
             /\ g[n + 1].event = avcSeqHeader[p] /\ ~g[n + 1].live
             /\ g[n + 2].event = lastKeyFrame[p] /\ ~g[n + 2].live
             /\ avcSeqHeader[p] \in 1 .. Len(log[p]) /\ lastKeyFrame[p] \in 1 .. Len(log[p])
             /\ Retains(log[p], avcSeqHeader[p], lastKeyFrame[p])
<1> DEFINE s == Head(rest[c])
<1> DEFINE p == Pub(c)
<1>1. /\ s \in Conns /\ p \in Pubsubs
      /\ log[p] \in Seq(Kinds) /\ Len(log[p]) \in Nat /\ Len(log[p]) > 0
      /\ lastTimestamp' = [lastTimestamp EXCEPT ![s] = TurnGiven(c, s).origin]
      /\ got' = [got EXCEPT ![s] = TurnGiven(c, s).got]
  BY TurnOf
<1>2. TypeOK /\ Keeps /\ Clocked
  BY DEF PInv
<1>3. Retains(log[p], avcSeqHeader[p], lastKeyFrame[p])
  BY <1>1, <1>2 DEF Keeps
<1>4. log[p][Len(log[p])] # "audio"
  BY DEF Replays
<1>5. Len(log[p]) \in 1 .. Len(log[p])
  BY <1>1
<1> DEFINE a == avcSeqHeader[p]
<1> DEFINE k == lastKeyFrame[p]
<1>6. a \in 1 .. Len(log[p]) /\ k \in 1 .. Len(log[p]) /\ a \in Nat /\ k \in Nat /\ a > 0 /\ k > 0
  BY <1>1, <1>3, <1>4, <1>5 DEF Retains
<1>7. Given(c, s) = <<a, k>>
  <2>1. Given(c, s) = NotNil(a) \o NotNil(k)
    BY DEF Given
  <2>2. NotNil(a) = <<a>> /\ NotNil(k) = <<k>>
    BY <1>6 DEF NotNil
  <2> QED BY <2>1, <2>2, Pair
<1> HIDE DEF a, k
<1>live. PICK live \in BOOLEAN : ~live
  OBVIOUS
<1> DEFINE u == OnEvent([origin |-> lastTimestamp[s], got |-> got[s]], a, live)
<1> DEFINE v == OnEvent([origin |-> u.origin, got |-> u.got], k, live)
<1>8. TurnGiven(c, s) = v
  <2>1. TurnGiven(c, s) = OnEvent(OnEvent([origin |-> lastTimestamp[s], got |-> got[s]], a, FALSE), k, FALSE)
    BY <1>7, TurnLengths
  <2>2. TurnGiven(c, s) = OnEvent(u, k, live)
    <3> HIDE DEF s
    <3> QED BY <2>1, <1>live, Zenon DEF u
  <2> QED BY <2>2 DEF OnEvent
<1>9. lastTimestamp[s] \in Nat /\ got[s] \in Seq(Delivery) /\ Len(got[s]) \in Nat
  BY <1>1, <1>2 DEF TypeOK
<1>10. Timed(lastTimestamp[s], got[s])
  BY <1>1, <1>2 DEF Clocked
<1>11. /\ u.origin \in Nat /\ u.got \in Seq(Delivery)
       /\ u.origin = lastTimestamp[s] \/ u.origin < a
       /\ Timed(u.origin, u.got)
       /\ Len(u.got) = Len(got[s]) + 1
       /\ \A j \in 1 .. Len(got[s]) : u.got[j] = got[s][j]
       /\ u.got[Len(got[s]) + 1].event = a
       /\ ~u.got[Len(got[s]) + 1].live
  <2> HIDE DEF s, p
  <2>1. a \in Nat /\ a > 0 /\ lastTimestamp[s] \in Nat /\ got[s] \in Seq(Delivery)
        /\ Timed(lastTimestamp[s], got[s])
    BY <1>6, <1>9, <1>10
  <2>2. Handed(lastTimestamp[s], got[s], a, live, u)
    BY <2>1, <1>live, EventGiven
  <2> HIDE DEF u
  <2> QED BY <2>2, <1>live DEF Handed
<1> HIDE DEF u
<1>12. /\ v.origin \in Nat /\ v.got \in Seq(Delivery)
       /\ v.origin = u.origin \/ v.origin < k
       /\ Timed(v.origin, v.got)
       /\ Len(v.got) = Len(u.got) + 1
       /\ \A j \in 1 .. Len(u.got) : v.got[j] = u.got[j]
       /\ v.got[Len(u.got) + 1].event = k
       /\ ~v.got[Len(u.got) + 1].live
  <2> HIDE DEF s, p
  <2>1. k \in Nat /\ k > 0 /\ u.origin \in Nat /\ u.got \in Seq(Delivery)
        /\ Timed(u.origin, u.got)
    BY <1>6, <1>11
  <2>2. Handed(u.origin, u.got, k, live, v)
    BY <2>1, <1>live, EventGiven
  <2> HIDE DEF v
  <2> QED BY <2>2, <1>live DEF Handed
<1> HIDE DEF v, p
<1>13. /\ Len(v.got) = Len(got[s]) + 2
       /\ v.got[Len(got[s]) + 1] = u.got[Len(got[s]) + 1]
       /\ v.got[Len(got[s]) + 2].event = k /\ ~v.got[Len(got[s]) + 2].live
  <2>1. Len(got[s]) + 1 \in 1 .. Len(u.got) /\ Len(u.got) + 1 = Len(got[s]) + 2
    BY <1>9, <1>11
  <2> QED BY <2>1, <1>12
<1>14. \A j \in 1 .. Len(got[s]) : v.got[j] = got[s][j]
  <2>1. \A j \in 1 .. Len(got[s]) : j \in 1 .. Len(u.got)
    BY <1>9, <1>11
  <2> QED BY <2>1, <1>11, <1>12
<1>15. v.origin = lastTimestamp[s] \/ v.origin < Len(log[p])
  <2>1. u.origin = lastTimestamp[s] \/ u.origin < Len(log[p])
    BY <1>11, <1>6, <1>1
  <2>2. v.origin = u.origin \/ v.origin < Len(log[p])
    BY <1>12, <1>6, <1>1
  <2> QED BY <2>1, <2>2
<1>16. lastTimestamp'[s] = v.origin /\ got'[s] = v.got
  BY <1>1, <1>2, <1>8 DEF TypeOK
<1>17. /\ lastTimestamp' = [lastTimestamp EXCEPT ![s] = v.origin]
       /\ got' = [got EXCEPT ![s] = v.got]
  BY <1>1, <1>8
<1> QED
  BY <1>3, <1>6, <1>11, <1>12, <1>13, <1>14, <1>15, <1>16, <1>17 DEF p, a, k

\* and the newest event when it follows live.
LEMMA TurnLive ==
  ASSUME PInv, NEW c \in Conns, Deliver(c), Head(rest[c]) \notin closed,
         ~Replays(c, Head(rest[c]))
  PROVE  LET s == Head(rest[c])
             p == Pub(c)
             n == Len(got[s])
             o == lastTimestamp'[s]
             g == got'[s]
         IN  /\ o \in Nat /\ g \in Seq(Delivery)
             /\ lastTimestamp' = [lastTimestamp EXCEPT ![s] = o]
             /\ got' = [got EXCEPT ![s] = g]
             /\ o = lastTimestamp[s] \/ o < Len(log[p])
             /\ Timed(o, g)
             /\ Len(g) = n + 1
             /\ \A j \in 1 .. n : g[j] = got[s][j]
             /\ g[n + 1].event = Len(log[p]) /\ g[n + 1].live
<1> DEFINE s == Head(rest[c])
<1> DEFINE p == Pub(c)
<1>1. /\ s \in Conns /\ p \in Pubsubs /\ target[s] = p
      /\ Len(log[p]) \in Nat /\ Len(log[p]) > 0
      /\ lastTimestamp' = [lastTimestamp EXCEPT ![s] = TurnGiven(c, s).origin]
      /\ got' = [got EXCEPT ![s] = TurnGiven(c, s).got]
  BY TurnOf
<1>2. TypeOK /\ Clocked /\ Within /\ InBounds
  BY DEF PInv
<1> DEFINE L == Len(log[p])
<1>3. Given(c, s) = <<L>>
  BY DEF Given
<1> HIDE DEF p
<1>live. PICK live \in BOOLEAN : live
  OBVIOUS
<1> DEFINE v == OnEvent([origin |-> lastTimestamp[s], got |-> got[s]], L, live)
<1>4. TurnGiven(c, s) = v
  <2>1. TurnGiven(c, s) = OnEvent([origin |-> lastTimestamp[s], got |-> got[s]], L, TRUE)
    BY <1>3, TurnLengths
  <2>2. live = TRUE
    BY <1>live
  <2> HIDE DEF s
  <2> QED BY <2>1, <2>2, Zenon
<1>5. lastTimestamp[s] \in Nat /\ got[s] \in Seq(Delivery)
  BY <1>1, <1>2 DEF TypeOK
<1>6. Timed(lastTimestamp[s], got[s]) /\ lastTimestamp[s] < L
  BY <1>1, <1>2 DEF Clocked
<1>7. L <= MaxEvents
  BY <1>1, <1>2 DEF InBounds
<1>8. \A j \in 1 .. Len(got[s]) : got[s][j].event <= L
  BY <1>1, <1>2 DEF Within
<1>9. /\ v.origin \in Nat /\ v.got \in Seq(Delivery)
      /\ v.origin = lastTimestamp[s] \/ v.origin < L
      /\ Timed(v.origin, v.got)
      /\ Len(v.got) = Len(got[s]) + 1
      /\ \A j \in 1 .. Len(got[s]) : v.got[j] = got[s][j]
      /\ v.got[Len(got[s]) + 1].event = L
      /\ v.got[Len(got[s]) + 1].live
  <2>1. L \in Nat /\ L > 0
    BY <1>1
  <2>2. lastTimestamp[s] < L /\ Newest(got[s], L)
    BY <1>6, <1>7, <1>8 DEF Newest
  <2> HIDE DEF s, L
  <2>3. Handed(lastTimestamp[s], got[s], L, live, v)
    BY <2>1, <2>2, <1>5, <1>6, EventGiven
  <2> HIDE DEF v
  <2> QED BY <2>3, <1>live DEF Handed
<1> HIDE DEF v
<1>10. lastTimestamp'[s] = v.origin /\ got'[s] = v.got
  BY <1>1, <1>2, <1>4 DEF TypeOK
<1>11. /\ lastTimestamp' = [lastTimestamp EXCEPT ![s] = v.origin]
       /\ got' = [got EXCEPT ![s] = v.got]
  BY <1>1, <1>4
<1> QED BY <1>9, <1>10, <1>11 DEF p

\* The call that panics was given an event of the publication, whatever Sub.
LEMMA NilGiven ==
  ASSUME PInv, NEW c \in Conns, CallNil(c)
  PROVE  LET s == Head(rest[c])
             p == Pub(c)
             o == Origin(lastTimestamp[s], Given(c, s)[1])
         IN  /\ s \in Conns /\ p \in Pubsubs /\ target[s] = p
             /\ Len(log[p]) \in Nat /\ Len(log[p]) > 0
             /\ o \in Nat
             /\ lastTimestamp' = [lastTimestamp EXCEPT ![s] = o]
             /\ o = lastTimestamp[s] \/ (lastTimestamp[s] = 0 /\ o < Len(log[p]))
<1> DEFINE s == Head(rest[c])
<1> DEFINE p == Pub(c)
<1> DEFINE i == Given(c, s)[1]
<1>0. TypeOK /\ Attached /\ Turns /\ Keeps
  BY DEF PInv
<1>1. pc[c] = "publish" /\ rest[c] # <<>> /\ rest[c] \in Seq(Conns)
  BY <1>0 DEF CallNil, TypeOK
<1>2. count[c] > 0 /\ log[p] # <<>>
  BY <1>0, <1>1 DEF Turns
<1>3. p \in Pubsubs
  BY <1>0, <1>2, OwnPub
<1>4. log[p] \in Seq(Kinds) /\ Len(log[p]) \in Nat /\ Len(log[p]) > 0
  <2>1. log[p] \in Seq(Kinds)
    BY <1>0, <1>3, TypesFrom
  <2> QED BY <2>1, <1>2
<1>5. s \in Conns /\ s = rest[c][1] /\ 1 \in 1 .. Len(rest[c])
  BY <1>1, Rest
<1>6. target[s] = p
  <2>1. s \in Elements(subs[p])
    BY <1>0, <1>5 DEF Turns
  <2>2. subs[p] \in Seq(Conns)
    BY <1>0, <1>3, TypesFrom
  <2>3. PICK j \in 1 .. Len(subs[p]) : subs[p][j] = s
    BY <2>1, <2>2 DEF Elements
  <2> QED BY <2>3, <1>0, <1>3 DEF Attached
<1>7. i \in 1 .. Len(log[p])
  <2>1. s \notin closed
    BY DEF CallNil, Given
  <2>2. CASE Replays(c, s)
    <3>1. Retains(log[p], avcSeqHeader[p], lastKeyFrame[p])
      BY <1>0, <1>3 DEF Keeps
    <3>2. log[p][Len(log[p])] # "audio" /\ Len(log[p]) \in 1 .. Len(log[p])
      BY <2>2, <1>4 DEF Replays
    <3>3. avcSeqHeader[p] \in 1 .. Len(log[p]) /\ lastKeyFrame[p] # 0
      BY <3>1, <3>2, <1>4 DEF Retains
    <3>4. Given(c, s) = NotNil(avcSeqHeader[p]) \o NotNil(lastKeyFrame[p])
      BY <2>1, <2>2 DEF Given
    <3>5. NotNil(avcSeqHeader[p]) = <<avcSeqHeader[p]>> /\ NotNil(lastKeyFrame[p]) = <<lastKeyFrame[p]>>
      BY <3>3 DEF NotNil
    <3>6. Given(c, s) = <<avcSeqHeader[p], lastKeyFrame[p]>>
      BY <3>4, <3>5, Pair
    <3> QED BY <3>6, <3>3
  <2>3. CASE ~Replays(c, s)
    <3>1. Given(c, s) = <<Len(log[p])>>
      BY <2>1, <2>3 DEF Given
    <3> QED BY <3>1, <1>4
  <2> QED BY <2>2, <2>3
<1>8. lastTimestamp' = [lastTimestamp EXCEPT ![s] = Origin(lastTimestamp[s], i)]
  BY DEF CallNil
<1>9. lastTimestamp[s] \in Nat
  BY <1>5, <1>0 DEF TypeOK
<1> HIDE DEF i
<1>10. /\ Origin(lastTimestamp[s], i) \in Nat
       /\ \/ Origin(lastTimestamp[s], i) = lastTimestamp[s]
          \/ lastTimestamp[s] = 0 /\ Origin(lastTimestamp[s], i) < Len(log[p])
  BY <1>4, <1>7, <1>9 DEF Origin
<1> QED BY <1>3, <1>4, <1>5, <1>6, <1>8, <1>10 DEF i

\* Every step keeps the types.
LEMMA Typed ==
  ASSUME PInv, IInv', [Next]_vars
  PROVE  TypeOK'
<1>0. TypeOK /\ IInv
  BY DEF PInv
<1>1. /\ streams' \in [Keys -> Pubsubs \cup {NoPubsub}]
      /\ count' \in [Conns -> 0 .. MaxPublications]
      /\ name' \in [Pubsubs -> Keys \cup {NoKey}]
  BY RegistryTyped
<1> USE DEF Goto, pubVars, subVars
<1>2. CASE UNCHANGED vars
  BY <1>2, <1>0 DEF vars, TypeOK
<1>3. ASSUME NEW ch \in Channels, NEW k \in Keys, SetKey(ch, k) PROVE TypeOK'
  BY <1>3, <1>0 DEF SetKey, TypeOK
<1>4. ASSUME NEW c \in Publishers, NEW k \in Keys, OnPublish(c, k) PROVE TypeOK'
  BY <1>4, <1>0, <1>1 DEF OnPublish, TypeOK
<1>5. ASSUME NEW c \in Publishers, NEW k \in Keys, OnPublishRejected(c, k) PROVE TypeOK'
  BY <1>5, <1>0 DEF OnPublishRejected, TypeOK
<1>6. ASSUME NEW c \in Publishers, NEW kind \in Kinds, Publish(c, kind) PROVE TypeOK'
  <2>1. c \in Conns /\ count[c] > 0
    BY <1>6, ConstantsAssumption DEF Publish
  <2>2. Pub(c) \in Pubsubs
    BY <2>1, <1>0, OwnPub
  <2> DEFINE p == Pub(c)
  <2> HIDE DEF p
  <2>3. log[p] \in Seq(Kinds) /\ subs[p] \in Seq(Conns)
    BY <2>2, <1>0 DEF TypeOK, p
  <2>4. Append(log[p], kind) \in Seq(Kinds) /\ Len(log[p]) + 1 \in Nat
    BY <2>3
  <2>5. log' = [log EXCEPT ![p] = Append(log[p], kind)] /\ rest' = [rest EXCEPT ![c] = subs[p]]
    BY <1>6 DEF Publish, p
  <2>6. log' \in [Pubsubs -> Seq(Kinds)] /\ rest' \in [Conns -> Seq(Conns)]
    BY <2>1, <2>2, <2>3, <2>4, <2>5, <1>0 DEF TypeOK
  <2>7. avcSeqHeader' \in [Pubsubs -> Nat]
    <3> DEFINE v == IF "header" \in Kept(kind) THEN Len(log[p]) + 1 ELSE avcSeqHeader[p]
    <3>1. avcSeqHeader' = [avcSeqHeader EXCEPT ![p] = v]
      BY <1>6 DEF Publish, p
    <3>2. v \in Nat
      BY <2>2, <2>4, <1>0 DEF TypeOK, p
    <3> QED BY <3>1, <3>2, <1>0 DEF TypeOK
  <2>8. lastKeyFrame' \in [Pubsubs -> Nat]
    <3> DEFINE v == IF "key" \in Kept(kind) THEN Len(log[p]) + 1 ELSE lastKeyFrame[p]
    <3>1. lastKeyFrame' = [lastKeyFrame EXCEPT ![p] = v]
      BY <1>6 DEF Publish, p
    <3>2. v \in Nat
      BY <2>2, <2>4, <1>0 DEF TypeOK, p
    <3> QED BY <3>1, <3>2, <1>0 DEF TypeOK
  <2>9. pc' \in [Conns -> {"ready", "sub", "callback", "publish", "closing", "closed"}]
    BY <1>6, <1>0 DEF Publish, TypeOK
  <2> QED BY <2>6, <2>7, <2>8, <2>9, <1>0, <1>6 DEF Publish, TypeOK
<1>7. ASSUME NEW c \in Players, NEW ch \in Channels, OnPlay(c, ch) PROVE TypeOK'
  <2>1. cache[ch] \in Keys /\ streams[cache[ch]] \in Pubsubs
    BY <1>7, <1>0 DEF OnPlay, Found, TypeOK
  <2> QED BY <2>1, <1>7, <1>0 DEF OnPlay, TypeOK
<1>8. ASSUME NEW c \in Players, NEW ch \in Channels, OnPlayRejected(c, ch) PROVE TypeOK'
  BY <1>8, <1>0 DEF OnPlayRejected, TypeOK
<1>9. ASSUME NEW c \in Conns, Sub(c) PROVE TypeOK'
  <2>1. target[c] \in Pubsubs
    BY <1>9, <1>0 DEF Sub, PInv, Attached, TypeOK
  <2>2. Append(subs[target[c]], c) \in Seq(Conns)
    BY <2>1, <1>0 DEF TypeOK
  <2>3. subs' \in [Pubsubs -> Seq(Conns)]
    BY <2>1, <2>2, <1>9, <1>0 DEF Sub, TypeOK
  <2> QED BY <2>3, <1>9, <1>0 DEF Sub, TypeOK
<1>10. ASSUME NEW c \in Conns, SetEventCallback(c) PROVE TypeOK'
  BY <1>10, <1>0 DEF SetEventCallback, TypeOK
<1>11. ASSUME NEW c \in Conns, Deliver(c) PROVE TypeOK'
  <2> DEFINE s == Head(rest[c])
  <2>1. s \in Conns /\ rest' = [rest EXCEPT ![c] = Tail(rest[c])]
    BY <1>11, TurnOf
  <2>2. Tail(rest[c]) \in Seq(Conns)
    BY <1>11, <1>0, Rest DEF Deliver, TypeOK
  <2>3. rest' \in [Conns -> Seq(Conns)]
    BY <2>1, <2>2, <1>0 DEF TypeOK
  <2>4. initialized' \subseteq Conns
    BY <1>11, <2>1, <1>0 DEF Deliver, TypeOK
  <2>5. /\ lastTimestamp' \in [Conns -> Nat]
        /\ got' \in [Conns -> Seq(Delivery)]
    <3>1. CASE s \in closed
      BY <3>1, <1>11, <1>0, TurnClosed DEF TypeOK
    <3>2. CASE s \notin closed /\ Replays(c, s)
      <4>1. PICK o \in Nat, g \in Seq(Delivery) :
              /\ lastTimestamp' = [lastTimestamp EXCEPT ![s] = o]
              /\ got' = [got EXCEPT ![s] = g]
        BY <3>2, <1>11, TurnReplays
      <4> QED BY <4>1, <2>1, <1>0 DEF TypeOK
    <3>3. CASE s \notin closed /\ ~Replays(c, s)
      <4>1. PICK o \in Nat, g \in Seq(Delivery) :
              /\ lastTimestamp' = [lastTimestamp EXCEPT ![s] = o]
              /\ got' = [got EXCEPT ![s] = g]
        BY <3>3, <1>11, TurnLive
      <4> QED BY <4>1, <2>1, <1>0 DEF TypeOK
    <3> QED BY <3>1, <3>2, <3>3
  <2> QED BY <2>3, <2>4, <2>5, <1>11, <1>0 DEF Deliver, TypeOK
<1>12. ASSUME NEW c \in Conns, CallNil(c) PROVE TypeOK'
  <2> DEFINE s == Head(rest[c])
  <2>1. s \in Conns
    BY <1>12, <1>0, Rest DEF CallNil, TypeOK
  <2>2. lastTimestamp' = [lastTimestamp EXCEPT ![s] = Origin(@, Given(c, s)[1])]
    BY <1>12 DEF CallNil
  <2>3. Origin(lastTimestamp[s], Given(c, s)[1]) \in Nat
    BY <1>12, NilGiven
  <2>4. lastTimestamp' \in [Conns -> Nat]
    BY <2>1, <2>2, <2>3, <1>0 DEF TypeOK
  <2>5. rest' = [rest EXCEPT ![c] = <<>>] /\ pc' = [pc EXCEPT ![c] = "closing"]
    BY <1>12 DEF CallNil
  <2>6. rest' \in [Conns -> Seq(Conns)]
    <3>1. <<>> \in Seq(Conns)
      OBVIOUS
    <3> QED BY <2>5, <3>1, <1>0 DEF TypeOK
  <2>7. UNCHANGED <<cache, streams, count, name, subs, log, avcSeqHeader, lastKeyFrame, target,
                    callback, initialized, closed, got>>
    BY <1>12 DEF CallNil
  <2> QED BY <2>4, <2>5, <2>6, <2>7, <1>0 DEF TypeOK
<1>13. ASSUME NEW c \in Conns, PublishReturns(c) PROVE TypeOK'
  BY <1>13, <1>0 DEF PublishReturns, TypeOK
<1>14. ASSUME NEW c \in Conns, Disconnect(c) PROVE TypeOK'
  BY <1>14, <1>0 DEF Disconnect, TypeOK
<1>15. ASSUME NEW c \in Conns, OnClose(c) PROVE TypeOK'
  <2>1. closed' \subseteq Conns
    <3>1. count[c] > 0 => Elements(subs[Pub(c)]) \subseteq Conns
      BY <1>0, OwnPub, TypesFrom
    <3> QED BY <3>1, <1>15, <1>0 DEF OnClose, TypeOK
  <2> QED BY <2>1, <1>15, <1>0, <1>1 DEF OnClose, TypeOK
<1> QED
  BY <1>2, <1>3, <1>4, <1>5, <1>6, <1>7, <1>8, <1>9, <1>10, <1>11, <1>12,
     <1>13, <1>14, <1>15 DEF Next

-----------------------------------------------------------------------------
(* Steps that give nothing to players. *)

\* What players were given stands when lists of Subs grow, Subs are closed and
\* connections end: no publication that players found goes on.
LEMMA Standing ==
  ASSUME PInv,
         UNCHANGED <<log, avcSeqHeader, lastKeyFrame, rest, initialized, lastTimestamp, got>>,
         \A s \in Conns : target[s] # NoPubsub => target'[s] = target[s],
         \A p \in Pubsubs : Elements(subs[p]) \subseteq Elements(subs'[p]),
         closed \subseteq closed',
         \A s \in Conns : \A p \in Pubsubs : target[s] = p /\ Publishes(p)' => Publishes(p)
  PROVE  InBounds' /\ Keeps' /\ Within' /\ CaughtUp' /\ NoGap' /\ Primed' /\ KeyFirst' /\ Clocked'
<1>0. /\ TypeOK /\ InBounds /\ Keeps /\ Within /\ CaughtUp /\ NoGap /\ Primed /\ KeyFirst
      /\ Clocked
  BY DEF PInv
<1>1. \A s \in Conns : target[s] \in Pubsubs \cup {NoPubsub} /\ got[s] \in Seq(Delivery)
  BY <1>0 DEF TypeOK
<1>2. \A s \in Conns : Len(got[s]) \in Nat /\ (got[s] # <<>> => 1 \in 1 .. Len(got[s]))
  BY <1>1
<1>3. \A s \in Conns : got[s] # <<>> => target[s] # NoPubsub /\ target'[s] = target[s]
  BY <1>0, <1>2 DEF Within
<1>4. \A s \in Conns : \A j \in 1 .. Len(got[s]) : got[s] # <<>>
  BY <1>1
<1>5. \A p \in Pubsubs : \A s : Due(p, s)' = Due(p, s)
  BY DEF Due
<1>6. InBounds'
  BY <1>0 DEF InBounds, Published
<1>7. Keeps'
  BY <1>0 DEF Keeps
<1>8. Within'
  <2> SUFFICES ASSUME NEW s \in Conns, NEW j \in 1 .. Len(got[s])
               PROVE  /\ target'[s] # NoPubsub /\ s \in Elements(subs'[target'[s]])
                      /\ got[s][j].event \in 1 .. Len(log[target'[s]])
    BY DEF Within
  <2>1. target[s] # NoPubsub /\ target'[s] = target[s]
    BY <1>3, <1>4
  <2>2. /\ s \in Elements(subs[target[s]])
        /\ got[s][j].event \in 1 .. Len(log[target[s]])
    BY <1>0 DEF Within
  <2>3. target[s] \in Pubsubs
    BY <2>1, <1>1
  <2> QED BY <2>1, <2>2, <2>3
<1>9. CaughtUp'
  <2> SUFFICES ASSUME NEW s \in Conns \ closed', NEW p \in Pubsubs,
                      target'[s] = p, Publishes(p)', got[s] # <<>>, Last(s).live
               PROVE  Last(s).event = Due(p, s)
    BY <1>5 DEF CaughtUp, Last
  <2>1. target[s] = p /\ s \in Conns \ closed
    BY <1>3
  <2>2. Publishes(p)
    BY <2>1
  <2> QED BY <2>1, <2>2, <1>0 DEF CaughtUp
<1>10. NoGap'
  BY <1>0 DEF NoGap
<1>11. Primed'
  <2> SUFFICES ASSUME NEW s \in initialized \ closed'
               PROVE  /\ \E i \in 1 .. Len(got[s]) : KindAt(s, i)' = "header"
                      /\ \A p \in Pubsubs : target'[s] = p /\ Publishes(p)' =>
                           \A e \in 1 .. Due(p, s) :
                             log[p][e] = "key" => \E i \in 1 .. Len(got[s]) : KindAt(s, i)' = "key"
    BY <1>5 DEF Primed
  <2>1. s \in initialized \ closed /\ s \in Conns
    BY <1>0 DEF TypeOK
  <2>2. PICK h \in 1 .. Len(got[s]) : KindAt(s, h) = "header"
    BY <2>1, <1>0 DEF Primed
  <2>3. target'[s] = target[s] /\ target[s] # NoPubsub
    BY <2>1, <2>2, <1>3, <1>4
  <2>4. \A i \in 1 .. Len(got[s]) : KindAt(s, i)' = KindAt(s, i)
    BY <2>3 DEF KindAt
  <2>5. \E i \in 1 .. Len(got[s]) : KindAt(s, i)' = "header"
    BY <2>2, <2>4
  <2>6. ASSUME NEW p \in Pubsubs, target'[s] = p, Publishes(p)',
               NEW e \in 1 .. Due(p, s), log[p][e] = "key"
        PROVE  \E i \in 1 .. Len(got[s]) : KindAt(s, i)' = "key"
    <3>1. target[s] = p /\ Publishes(p)
      BY <2>3, <2>6, <2>1
    <3>2. \E i \in 1 .. Len(got[s]) : KindAt(s, i) = "key"
      BY <3>1, <2>1, <2>6, <1>0 DEF Primed
    <3> QED BY <3>2, <2>4
  <2> QED BY <2>5, <2>6
<1>12. KeyFirst'
  <2> SUFFICES ASSUME NEW s \in Conns, NEW j \in 1 .. Len(got[s]),
                      log[target'[s]][got[s][j].event] = "inter"
               PROVE  /\ \E i \in 1 .. j - 1 : log[target'[s]][got[s][i].event] = "header"
                      /\ \E i \in 1 .. j - 1 : log[target'[s]][got[s][i].event] = "key"
    BY DEF KeyFirst
  <2>1. target'[s] = target[s]
    BY <1>3, <1>4
  <2> QED BY <2>1, <1>0 DEF KeyFirst
<1>13. Clocked'
  BY <1>0 DEF Clocked
<1> QED BY <1>6, <1>7, <1>8, <1>9, <1>10, <1>11, <1>12, <1>13

\* So it does when a connection only goes on to another place.
LEMMA Resting ==
  ASSUME PInv, IInv', TypeOK', NEW c \in Conns, NEW l,
         pc' = [pc EXCEPT ![c] = l], l \notin {"sub", "publish"},
         pc[c] = "publish" => rest[c] = <<>>,
         pc[c] \in {"closing", "closed"} => l \in {"closing", "closed"},
         closed \subseteq closed',
         UNCHANGED <<count, subs, rest, target, log, avcSeqHeader, lastKeyFrame, subVars>>
  PROVE  PInv'
<1> USE DEF subVars
<1>0. TypeOK /\ Attached /\ Turns
  BY DEF PInv
<1>1. DOMAIN pc = Conns /\ pc'[c] = l /\ \A d \in Conns : d # c => pc'[d] = pc[d]
  BY <1>0 DEF TypeOK
<1>2. \A p \in Pubsubs : Publishes(p)' => Publishes(p)
  <2>1. \A p \in Pubsubs : p[1] \in Conns
    BY <1>0, TypesFrom
  <2> QED BY <2>1, <1>1 DEF Publishes
<1>3. InBounds' /\ Keeps' /\ Within' /\ CaughtUp' /\ NoGap' /\ Primed' /\ KeyFirst' /\ Clocked'
  <2>1. \A s \in Conns : target[s] # NoPubsub => target'[s] = target[s]
    OBVIOUS
  <2>2. \A p \in Pubsubs : Elements(subs[p]) \subseteq Elements(subs'[p])
    OBVIOUS
  <2>3. \A s \in Conns : \A p \in Pubsubs : target[s] = p /\ Publishes(p)' => Publishes(p)
    BY <1>2
  <2>4. UNCHANGED <<log, avcSeqHeader, lastKeyFrame, rest, initialized, lastTimestamp, got>>
    OBVIOUS
  <2> QED BY <2>1, <2>2, <2>3, <2>4, Standing
<1>4. Attached'
  <2>1. \A p \in Pubsubs : \A i \in 1 .. Len(subs[p]) : subs[p][i] \in Conns
    <3>1. \A p \in Pubsubs : subs[p] \in Seq(Conns)
      BY <1>0, TypesFrom
    <3> QED BY <3>1
  <2>2. \A p \in Pubsubs : \A i \in 1 .. Len(subs[p]) :
          target[subs[p][i]] = p /\ pc'[subs[p][i]] # "sub"
    BY <2>1, <1>0, <1>1 DEF Attached
  <2>3. \A s \in Conns : pc'[s] = "sub" => target[s] # NoPubsub
    BY <1>0, <1>1 DEF Attached
  <2> QED BY <2>2, <2>3, <1>0 DEF Attached
<1>5. Turns'
  <2> SUFFICES ASSUME NEW d \in Conns
               PROVE  /\ rest[d] # <<>> => pc'[d] = "publish"
                      /\ pc'[d] = "publish" => count[d] > 0 /\ log[Pub(d)] # <<>>
                      /\ \A i \in 1 .. Len(rest[d]) : rest[d][i] \in Elements(subs[Pub(d)])
                      /\ \A i, j \in 1 .. Len(rest[d]) : rest[d][i] = rest[d][j] => i = j
    BY DEF Turns, Pub
  <2>1. rest[d] # <<>> => pc'[d] = "publish"
    BY <1>0, <1>1 DEF Turns
  <2>2. pc'[d] = "publish" => count[d] > 0 /\ log[Pub(d)] # <<>>
    BY <1>0, <1>1 DEF Turns
  <2> QED BY <2>1, <2>2, <1>0 DEF Turns
<1> QED BY <1>3, <1>4, <1>5 DEF PInv

\* A publication takes the place of its connection's last one, which no player
\* has found yet.
LEMMA NewPublication ==
  ASSUME PInv, IInv', TypeOK', NEW c \in Conns, NEW k \in Keys, OnPublish(c, k)
  PROVE  PInv'
<1>0. TypeOK /\ Attached /\ Turns
  BY DEF PInv
<1>1. /\ pc[c] = "ready" /\ count' = [count EXCEPT ![c] = @ + 1]
      /\ UNCHANGED <<pc, subs, rest, target, closed, initialized, lastTimestamp, got, log,
                     avcSeqHeader, lastKeyFrame>>
  BY DEF OnPublish, subVars
<1>2. \A d \in Conns : /\ count[d] \in Nat /\ count'[d] = IF d = c THEN count[d] + 1 ELSE count[d]
                       /\ count[d] <= count'[d]
  BY <1>0, <1>1, ConstantsAssumption DEF TypeOK
<1>3. \A p \in Pubsubs : p[1] \in Conns /\ p[2] \in Nat
  BY <1>0, TypesFrom
<1>4. InBounds' /\ Keeps' /\ Within' /\ CaughtUp' /\ NoGap' /\ Primed' /\ KeyFirst' /\ Clocked'
  <2>1. \A s \in Conns : target[s] # NoPubsub => target'[s] = target[s]
    BY <1>1
  <2>2. \A p \in Pubsubs : Elements(subs[p]) \subseteq Elements(subs'[p])
    BY <1>1
  <2>3. ASSUME NEW s \in Conns, NEW p \in Pubsubs, target[s] = p, Publishes(p)'
        PROVE  Publishes(p)
    <3>1. p # NoPubsub
      BY ConstantsAssumption
    <3>2. p[2] <= count[p[1]]
      BY <2>3, <3>1, <1>0 DEF Attached
    <3>3. p[2] = count'[p[1]] /\ pc[p[1]] \notin {"closing", "closed"}
      BY <2>3, <1>1 DEF Publishes
    <3>4. p[1] # c
      BY <3>2, <3>3, <1>2, <1>3
    <3> QED BY <3>3, <3>4, <1>2, <1>3 DEF Publishes
  <2>4. UNCHANGED <<log, avcSeqHeader, lastKeyFrame, rest, initialized, lastTimestamp, got>>
    BY <1>1
  <2>5. closed \subseteq closed'
    BY <1>1
  <2> QED BY <2>1, <2>2, <2>3, <2>4, <2>5, Standing
<1>5. Attached'
  <2>1. ASSUME NEW s \in Conns, target[s] # NoPubsub
        PROVE  target[s][2] <= count'[target[s][1]]
    <3>1. target[s] \in Pubsubs
      BY <2>1, <1>0 DEF TypeOK
    <3>2. target[s][2] <= count[target[s][1]]
      BY <2>1, <1>0 DEF Attached
    <3> QED BY <3>1, <3>2, <1>2, <1>3
  <2>2. ASSUME NEW p \in Pubsubs, p[2] > count'[p[1]]
        PROVE  log[p] = <<>>
    <3>1. p[2] > count[p[1]]
      BY <2>2, <1>2, <1>3
    <3> QED BY <3>1, <1>0 DEF Attached
  <2> QED BY <2>1, <2>2, <1>0, <1>1 DEF Attached
<1>6. Turns'
  <2> SUFFICES ASSUME NEW d \in Conns
               PROVE  /\ rest[d] # <<>> => pc[d] = "publish"
                      /\ pc[d] = "publish" => count'[d] > 0 /\ log[Pub(d)'] # <<>>
                      /\ \A i \in 1 .. Len(rest[d]) : rest[d][i] \in Elements(subs[Pub(d)'])
                      /\ \A i, j \in 1 .. Len(rest[d]) : rest[d][i] = rest[d][j] => i = j
    BY <1>1 DEF Turns, Pub
  <2>1. CASE d = c
    <3>1. rest[d] = <<>> /\ pc[d] # "publish"
      BY <2>1, <1>0, <1>1 DEF Turns
    <3> QED BY <3>1
  <2>2. CASE d # c
    <3>1. count'[d] = count[d] /\ Pub(d)' = Pub(d)
      BY <2>2, <1>2 DEF Pub
    <3> QED BY <3>1, <1>0 DEF Turns
  <2> QED BY <2>1, <2>2
<1> QED BY <1>4, <1>5, <1>6 DEF PInv

\* What holds of the loops when a connection that is in none goes elsewhere.
LEMMA LoopsStand ==
  ASSUME TypeOK, Turns, NEW c \in Conns, NEW l, rest[c] = <<>>, l # "publish",
         pc' = [pc EXCEPT ![c] = l], UNCHANGED <<count, rest, log>>,
         \A p \in Pubsubs : Elements(subs[p]) \subseteq Elements(subs'[p])
  PROVE  Turns'
<1> SUFFICES ASSUME NEW d \in Conns
             PROVE  /\ rest[d] # <<>> => pc'[d] = "publish"
                    /\ pc'[d] = "publish" => count[d] > 0 /\ log[Pub(d)] # <<>>
                    /\ \A i \in 1 .. Len(rest[d]) : rest[d][i] \in Elements(subs'[Pub(d)])
                    /\ \A i, j \in 1 .. Len(rest[d]) : rest[d][i] = rest[d][j] => i = j
  BY DEF Turns, Pub
<1>1. pc'[c] = l /\ (d # c => pc'[d] = pc[d])
  BY DEF TypeOK
<1>2. CASE rest[d] = <<>>
  BY <1>1, <1>2 DEF Turns
<1>3. CASE rest[d] # <<>>
  <2>1. d # c /\ pc[d] = "publish" /\ count[d] > 0 /\ log[Pub(d)] # <<>>
    BY <1>3 DEF Turns
  <2>2. Pub(d) \in Pubsubs
    BY <2>1, OwnPub
  <2>3. Elements(subs[Pub(d)]) \subseteq Elements(subs'[Pub(d)])
    BY <2>2
  <2> QED BY <2>1, <2>3, <1>1 DEF Turns
<1> QED BY <1>2, <1>3

\* A player finds a publication that is registered, so one that was made.
LEMMA PlayerFinds ==
  ASSUME PInv, IInv', TypeOK', NEW c \in Conns, NEW ch \in Channels, OnPlay(c, ch)
  PROVE  PInv'
<1> DEFINE t == streams[cache[ch]]
<1>0. TypeOK /\ Attached /\ Turns /\ IInv
  BY DEF PInv
<1>1. /\ pc[c] = "ready" /\ target[c] = NoPubsub /\ cache[ch] # NoKey /\ t # NoPubsub
      /\ target' = [target EXCEPT ![c] = t]
      /\ pc' = [pc EXCEPT ![c] = "sub"]
      /\ UNCHANGED <<count, subs, rest, closed, initialized, lastTimestamp, got, log,
                     avcSeqHeader, lastKeyFrame>>
  BY DEF OnPlay, Plays, Found, Goto, subVars, pubVars
<1>2. cache[ch] \in Keys /\ t \in Pubsubs
  BY <1>0, <1>1 DEF TypeOK
<1>3. t[2] <= count[t[1]]
  <2>1. PICK d \in Conns, n \in 1 .. MaxPublications : t = <<d, n>>
    BY <1>2 DEF Pubsubs
  <2> QED BY <2>1, <1>0, <1>2 DEF IInv, OnlyRegistered
<1> HIDE DEF t
<1>4. \A s \in Conns : /\ target'[s] = IF s = c THEN t ELSE target[s]
                       /\ pc'[s] = IF s = c THEN "sub" ELSE pc[s]
  BY <1>0, <1>1 DEF TypeOK
<1>5. InBounds' /\ Keeps' /\ Within' /\ CaughtUp' /\ NoGap' /\ Primed' /\ KeyFirst' /\ Clocked'
  <2>1. \A s \in Conns : target[s] # NoPubsub => target'[s] = target[s]
    BY <1>1, <1>4
  <2>2. \A p \in Pubsubs : Elements(subs[p]) \subseteq Elements(subs'[p])
    BY <1>1
  <2>3. \A p \in Pubsubs : Publishes(p)' => Publishes(p)
    <3>1. \A p \in Pubsubs : p[1] \in Conns
      BY <1>0, TypesFrom
    <3> QED BY <3>1, <1>1, <1>4 DEF Publishes
  <2>4. UNCHANGED <<log, avcSeqHeader, lastKeyFrame, rest, initialized, lastTimestamp, got>>
    BY <1>1
  <2>5. closed \subseteq closed'
    BY <1>1
  <2> QED BY <2>1, <2>2, <2>3, <2>4, <2>5, Standing
<1>6. Attached'
  <2>1. ASSUME NEW p \in Pubsubs, NEW i \in 1 .. Len(subs[p])
        PROVE  target'[subs[p][i]] = p /\ pc'[subs[p][i]] # "sub"
    <3>1. subs[p][i] \in Conns
      <4>1. subs[p] \in Seq(Conns)
        BY <1>0, TypesFrom
      <4> QED BY <4>1
    <3>2. target[subs[p][i]] = p /\ pc[subs[p][i]] # "sub"
      BY <1>0 DEF Attached
    <3>3. subs[p][i] # c
      BY <3>2, <1>1, ConstantsAssumption
    <3> QED BY <3>1, <3>2, <3>3, <1>4
  <2>2. ASSUME NEW s \in Conns, target'[s] # NoPubsub
        PROVE  target'[s][2] <= count[target'[s][1]]
    BY <2>2, <1>0, <1>3, <1>4 DEF Attached
  <2>3. \A s \in Conns : pc'[s] = "sub" => target'[s] # NoPubsub
    BY <1>0, <1>1, <1>4 DEF Attached
  <2> QED BY <2>1, <2>2, <2>3, <1>0, <1>1 DEF Attached
<1>7. Turns'
  <2>1. rest[c] = <<>>
    BY <1>0, <1>1 DEF Turns
  <2> QED BY <2>1, <1>0, <1>1, LoopsStand
<1> QED BY <1>5, <1>6, <1>7 DEF PInv

\* The player is then added to the list of that publication.
LEMMA PlayerAdded ==
  ASSUME PInv, IInv', TypeOK', NEW c \in Conns, Sub(c)
  PROVE  PInv'
<1> DEFINE t == target[c]
<1>0. TypeOK /\ Attached /\ Turns
  BY DEF PInv
<1>1. /\ pc[c] = "sub"
      /\ subs' = [subs EXCEPT ![t] = Append(subs[t], c)]
      /\ pc' = [pc EXCEPT ![c] = "callback"]
      /\ UNCHANGED <<count, target, rest, closed, initialized, lastTimestamp, got, log,
                     avcSeqHeader, lastKeyFrame>>
  BY DEF Sub, Goto, subVars, pubVars
<1>2. t \in Pubsubs /\ t # NoPubsub
  BY <1>0, <1>1 DEF Attached, TypeOK
<1> HIDE DEF t
<1>3. \A s \in Conns : pc'[s] = IF s = c THEN "callback" ELSE pc[s]
  BY <1>0, <1>1 DEF TypeOK
<1>4. \A p \in Pubsubs : subs'[p] = IF p = t THEN Append(subs[p], c) ELSE subs[p]
  BY <1>0, <1>1, <1>2 DEF TypeOK
<1>5. \A p \in Pubsubs : subs[p] \in Seq(Conns)
  BY <1>0, TypesFrom
<1>6. \A p \in Pubsubs : Elements(subs[p]) \subseteq Elements(subs'[p])
  <2> SUFFICES ASSUME NEW p \in Pubsubs PROVE Elements(subs[p]) \subseteq Elements(subs'[p])
    OBVIOUS
  <2>1. Elements(Append(subs[p], c)) = Elements(subs[p]) \cup {c}
    BY <1>5, Appended
  <2> QED BY <2>1, <1>4
<1>7. InBounds' /\ Keeps' /\ Within' /\ CaughtUp' /\ NoGap' /\ Primed' /\ KeyFirst' /\ Clocked'
  <2>1. \A s \in Conns : target[s] # NoPubsub => target'[s] = target[s]
    BY <1>1
  <2>3. \A p \in Pubsubs : Publishes(p)' => Publishes(p)
    <3>1. \A p \in Pubsubs : p[1] \in Conns
      BY <1>0, TypesFrom
    <3> QED BY <3>1, <1>1, <1>3 DEF Publishes
  <2>4. UNCHANGED <<log, avcSeqHeader, lastKeyFrame, rest, initialized, lastTimestamp, got>>
    BY <1>1
  <2>5. closed \subseteq closed'
    BY <1>1
  <2> QED BY <2>1, <1>6, <2>3, <2>4, <2>5, Standing
<1>8. Attached'
  <2>1. ASSUME NEW p \in Pubsubs
        PROVE  /\ \A i \in 1 .. Len(subs'[p]) : target[subs'[p][i]] = p /\ pc'[subs'[p][i]] # "sub"
               /\ \A i, j \in 1 .. Len(subs'[p]) : subs'[p][i] = subs'[p][j] => i = j
    <3>1. /\ \A i \in 1 .. Len(subs[p]) : target[subs[p][i]] = p /\ pc[subs[p][i]] # "sub"
          /\ \A i, j \in 1 .. Len(subs[p]) : subs[p][i] = subs[p][j] => i = j
      BY <1>0 DEF Attached
    <3>2. \A i \in 1 .. Len(subs[p]) : subs[p][i] \in Conns /\ subs[p][i] # c
      BY <3>1, <1>1, <1>5
    <3>3. CASE p # t
      BY <3>1, <3>2, <3>3, <1>3, <1>4
    <3>4. CASE p = t
      <4> DEFINE n == Len(subs[p])
      <4>1. /\ Len(subs'[p]) = n + 1 /\ n \in Nat
            /\ \A i \in 1 .. n : subs'[p][i] = subs[p][i]
            /\ subs'[p][n + 1] = c
        <5>1. subs[p] \in Seq(Conns) /\ subs'[p] = Append(subs[p], c)
          BY <3>4, <1>4, <1>5
        <5>2. /\ Len(Append(subs[p], c)) = n + 1 /\ n \in Nat
              /\ \A i \in 1 .. n : Append(subs[p], c)[i] = subs[p][i]
              /\ Append(subs[p], c)[n + 1] = c
          BY <5>1, Appended
        <5> QED BY <5>1, <5>2
      <4>2. \A i \in 1 .. n + 1 : i \in 1 .. n \/ i = n + 1
        BY <4>1
      <4>3. target[c] = p
        BY <3>4 DEF t
      <4> HIDE DEF n
      <4>4. \A i \in 1 .. n + 1 : target[subs'[p][i]] = p /\ pc'[subs'[p][i]] # "sub"
        BY <4>1, <4>2, <4>3, <3>1, <3>2, <1>3 DEF n
      <4>5. \A i, j \in 1 .. n + 1 : subs'[p][i] = subs'[p][j] => i = j
        BY <4>1, <4>2, <3>1, <3>2 DEF n
      <4> QED BY <4>1, <4>4, <4>5
    <3> QED BY <3>3, <3>4
  <2>2. \A s \in Conns : pc'[s] = "sub" => target[s] # NoPubsub
    BY <1>0, <1>3 DEF Attached
  <2> QED BY <2>1, <2>2, <1>0, <1>1 DEF Attached
<1>9. Turns'
  <2>1. rest[c] = <<>>
    BY <1>0, <1>1 DEF Turns
  <2> QED BY <2>1, <1>0, <1>1, <1>6, LoopsStand
<1> QED BY <1>7, <1>8, <1>9 DEF PInv

-----------------------------------------------------------------------------
(* Publishing an event. *)

\* What Publish keeps for the players to come, given what an encoder sends.
LEMMA RetainsGrows ==
  ASSUME NEW l \in Seq(Kinds), NEW h \in Nat, NEW k \in Nat, NEW kind \in Kinds,
         Retains(l, h, k),
         kind = "header" => "header" \notin Elements(l),
         kind = "key" => "header" \in Elements(l),
         kind = "inter" => "key" \in Elements(l)
  PROVE  Retains(Append(l, kind),
                 IF "header" \in Kept(kind) THEN Len(l) + 1 ELSE h,
                 IF "key" \in Kept(kind) THEN Len(l) + 1 ELSE k)
<1> DEFINE m == Append(l, kind)
<1> DEFINE n == Len(l) + 1
<1>1. /\ m \in Seq(Kinds) /\ Len(m) = n /\ n \in Nat /\ n > 0 /\ Len(l) \in Nat
      /\ \A i \in 1 .. Len(l) : m[i] = l[i]
      /\ m[n] = kind
      /\ \A i \in 1 .. n : i \in 1 .. Len(l) \/ i = n
      /\ \A i \in 1 .. Len(l) : i \in 1 .. n
      /\ n \in 1 .. n
  BY Appended
<1>2. \A x : x \in Elements(l) <=> \E i \in 1 .. Len(l) : l[i] = x
  BY Placed
<1> HIDE DEF m
<1>3. /\ h \in 0 .. Len(l) /\ k \in 0 .. Len(l)
      /\ (\E e \in 1 .. Len(l) : l[e] # "audio") => h # 0 /\ k # 0
      /\ h # 0 => l[h] = "header"
      /\ k # 0 => l[k] \in {"header", "key"}
      /\ (\E e \in 1 .. Len(l) : l[e] = "key") => l[k] = "key"
      /\ \A e \in 1 .. Len(l) : l[e] = "inter" => \E d \in 1 .. e - 1 : l[d] = "key"
  BY DEF Retains
<1>4. /\ h # 0 => h \in 1 .. Len(l) /\ m[h] = "header"
      /\ k # 0 => k \in 1 .. Len(l) /\ m[k] = l[k]
      /\ h \in 0 .. n /\ k \in 0 .. n
  BY <1>1, <1>3
<1>5. /\ "key" \in Elements(l) => h # 0 /\ k # 0 /\ l[k] = "key"
      /\ "header" \in Elements(l) => h # 0 /\ k # 0
  BY <1>2, <1>3
<1>6. h # 0 => "header" \in Elements(l)
  BY <1>2, <1>3, <1>4
<1>7. \A e \in 1 .. Len(l) : m[e] = "inter" => \E d \in 1 .. e - 1 : m[d] = "key"
  <2> SUFFICES ASSUME NEW e \in 1 .. Len(l), m[e] = "inter"
               PROVE  \E d \in 1 .. e - 1 : m[d] = "key"
    OBVIOUS
  <2>1. PICK d \in 1 .. e - 1 : l[d] = "key"
    BY <1>1, <1>3
  <2>2. d \in 1 .. Len(l)
    BY <1>1
  <2> QED BY <2>1, <2>2, <1>1
<1>8. CASE kind = "audio"
  <2>1. Kept(kind) = {}
    BY <1>8 DEF Kept
  <2>2. \A e \in 1 .. n : m[e] # "audio" => e \in 1 .. Len(l) /\ l[e] = m[e]
    BY <1>8, <1>1
  <2>3. (\E e \in 1 .. n : m[e] # "audio") => h # 0 /\ k # 0
    BY <2>2, <1>3
  <2>4. (\E e \in 1 .. n : m[e] = "key") => m[k] = "key"
    <3> SUFFICES ASSUME NEW e \in 1 .. n, m[e] = "key" PROVE m[k] = "key"
      OBVIOUS
    <3>1. e \in 1 .. Len(l) /\ l[e] = "key"
      BY <2>2
    <3> QED BY <3>1, <1>3, <1>4
  <2>5. \A e \in 1 .. n : m[e] = "inter" => \E d \in 1 .. e - 1 : m[d] = "key"
    BY <2>2, <1>7
  <2>6. Retains(m, h, k)
    BY <2>3, <2>4, <2>5, <1>1, <1>3, <1>4 DEF Retains
  <2> QED BY <2>1, <2>6 DEF m
<1>9. CASE kind = "header"
  <2>1. "header" \in Kept(kind) /\ "key" \in Kept(kind)
    BY <1>9 DEF Kept
  <2>2. \A e \in 1 .. n : m[e] # "key"
    BY <1>9, <1>1, <1>2, <1>5, <1>6
  <2>3. \A e \in 1 .. n : m[e] = "inter" => e \in 1 .. Len(l)
    BY <1>9, <1>1
  <2>4. \A e \in 1 .. n : m[e] = "inter" => \E d \in 1 .. e - 1 : m[d] = "key"
    BY <2>3, <1>7
  <2>5. Retains(m, n, n)
    BY <2>2, <2>4, <1>1, <1>9 DEF Retains
  <2> QED BY <2>1, <2>5 DEF m
<1>10. CASE kind = "key"
  <2>1. "header" \notin Kept(kind) /\ "key" \in Kept(kind)
    BY <1>10 DEF Kept
  <2>2. h # 0
    BY <1>10, <1>5
  <2>3. \A e \in 1 .. n : m[e] = "inter" => e \in 1 .. Len(l)
    BY <1>10, <1>1
  <2>4. \A e \in 1 .. n : m[e] = "inter" => \E d \in 1 .. e - 1 : m[d] = "key"
    BY <2>3, <1>7
  <2>5. Retains(m, h, n)
    BY <2>2, <2>4, <1>1, <1>4, <1>10 DEF Retains
  <2> QED BY <2>1, <2>5 DEF m
<1>11. CASE kind = "inter"
  <2>1. Kept(kind) = {}
    BY <1>11 DEF Kept
  <2>2. h # 0 /\ k # 0 /\ l[k] = "key" /\ m[k] = "key" /\ k \in 1 .. Len(l)
    BY <1>11, <1>4, <1>5
  <2>3. \A e \in 1 .. n : m[e] = "inter" => \E d \in 1 .. e - 1 : m[d] = "key"
    <3> SUFFICES ASSUME NEW e \in 1 .. n, m[e] = "inter"
                 PROVE  \E d \in 1 .. e - 1 : m[d] = "key"
      OBVIOUS
    <3>1. CASE e \in 1 .. Len(l)
      BY <3>1, <1>7
    <3>2. CASE e = n
      <4>1. k \in 1 .. e - 1
        BY <3>2, <2>2, <1>1
      <4> QED BY <4>1, <2>2
    <3> QED BY <3>1, <3>2, <1>1
  <2>4. Retains(m, h, k)
    BY <2>2, <2>3, <1>1, <1>4 DEF Retains
  <2> QED BY <2>1, <2>4 DEF m
<1> QED BY <1>8, <1>9, <1>10, <1>11 DEF Kinds

\* There is room for one more event of a publication.
LEMMA Room ==
  ASSUME TypeOK, InBounds, MayPublish, NEW p \in Pubsubs
  PROVE  Len(log[p]) + 1 <= MaxEvents
<1> DEFINE n == Len(log[p])
<1>1. n \in Nat /\ n <= MaxEvents /\ MaxEvents \in Nat
  <2>1. log[p] \in Seq(Kinds)
    BY DEF TypeOK
  <2> QED BY <2>1, ConstantsAssumption DEF InBounds
<1> DEFINE f == [i \in 1 .. n |-> <<p, i>>]
<1>2. f \in Injection(1 .. n, Published)
  <2>1. \A i \in 1 .. n : <<p, i>> \in Published
    BY <1>1 DEF Published
  <2> HIDE DEF n
  <2>2. f \in [1 .. n -> Published]
    BY <2>1
  <2> QED BY <2>2 DEF Injection, IsInjective
<1>3. IsFiniteSet(Published) /\ Cardinality(Published) < MaxEvents /\ Cardinality(Published) \in Nat
  BY FS_CardinalityType DEF InBounds, MayPublish, Published
<1>4. Cardinality(1 .. n) = n
  BY <1>1, FS_Interval
<1> HIDE DEF f, n
<1>5. Cardinality(1 .. n) <= Cardinality(Published)
  BY <1>2, <1>3, FS_Injection
<1>6. n + 1 <= MaxEvents
  BY <1>1, <1>3, <1>4, <1>5
<1> QED BY <1>6 DEF n

\* What a step of Publish changes.
LEMMA PublishStarts ==
  ASSUME PInv, NEW c \in Conns, NEW kind \in Kinds, Publish(c, kind)
  PROVE  LET p == Pub(c)
             n == Len(log[p])
         IN  /\ p \in Pubsubs /\ p[1] = c /\ p[2] = count[c] /\ count[c] > 0
             /\ pc[c] = "ready" /\ rest[c] = <<>>
             /\ n \in Nat /\ n + 1 <= MaxEvents
             /\ \A q \in Pubsubs : /\ log[q] \in Seq(Kinds)
                                   /\ log'[q] = IF q = p THEN Append(log[p], kind) ELSE log[q]
             /\ Len(log'[p]) = n + 1
             /\ \A q \in Pubsubs : /\ Len(log[q]) \in Nat /\ Len(log'[q]) \in Nat
                                   /\ Len(log[q]) <= Len(log'[q])
                                   /\ q # p => Len(log'[q]) = Len(log[q])
             /\ \A q \in Pubsubs : \A i \in 1 .. Len(log[q]) : log'[q][i] = log[q][i]
             /\ \A d \in Conns : /\ rest'[d] = IF d = c THEN subs[p] ELSE rest[d]
                                 /\ pc'[d] = IF d = c THEN "publish" ELSE pc[d]
             /\ UNCHANGED <<count, subs, target, closed, initialized, lastTimestamp, got>>
<1> DEFINE p == Pub(c)
<1>0. TypeOK /\ Turns /\ InBounds
  BY DEF PInv
<1>1. /\ count[c] > 0 /\ pc[c] = "ready" /\ MayPublish
      /\ log' = [log EXCEPT ![p] = Append(log[p], kind)]
      /\ rest' = [rest EXCEPT ![c] = subs[p]]
      /\ pc' = [pc EXCEPT ![c] = "publish"]
      /\ UNCHANGED <<count, subs, target, closed, initialized, lastTimestamp, got>>
  BY DEF Publish, Goto, subVars
<1>2. p \in Pubsubs /\ p[1] = c /\ p[2] = count[c]
  BY <1>0, <1>1, OwnPub
<1> HIDE DEF p
<1>3. rest[c] = <<>>
  BY <1>0, <1>1 DEF Turns
<1>4. Len(log[p]) + 1 <= MaxEvents
  BY <1>0, <1>1, <1>2, Room
<1>5. \A q \in Pubsubs : /\ log[q] \in Seq(Kinds) /\ Len(log[q]) \in Nat
                         /\ log'[q] = IF q = p THEN Append(log[p], kind) ELSE log[q]
  BY <1>0, <1>1, <1>2 DEF TypeOK
<1>6. /\ Len(Append(log[p], kind)) = Len(log[p]) + 1
      /\ \A i \in 1 .. Len(log[p]) : Append(log[p], kind)[i] = log[p][i]
  BY <1>2, <1>5, Appended
<1>7. \A q \in Pubsubs : /\ Len(log'[q]) \in Nat /\ Len(log[q]) <= Len(log'[q])
                         /\ q # p => Len(log'[q]) = Len(log[q])
  <2> TAKE q \in Pubsubs
  <2>1. CASE q = p
    <3>1. log'[q] = Append(log[p], kind) /\ log[q] = log[p] /\ Len(log[p]) \in Nat
      BY <2>1, <1>5
    <3>2. Len(log'[q]) = Len(log[q]) + 1
      BY <3>1, <1>6
    <3> QED BY <3>1, <3>2, <2>1
  <2>2. CASE q # p
    BY <2>2, <1>5
  <2> QED BY <2>1, <2>2
<1>8. \A q \in Pubsubs : \A i \in 1 .. Len(log[q]) : log'[q][i] = log[q][i]
  BY <1>5, <1>6, <1>2
<1>9. Len(log'[p]) = Len(log[p]) + 1
  BY <1>2, <1>5, <1>6
<1>10. \A d \in Conns : /\ rest'[d] = IF d = c THEN subs[p] ELSE rest[d]
                        /\ pc'[d] = IF d = c THEN "publish" ELSE pc[d]
  BY <1>0, <1>1 DEF TypeOK
<1> QED BY <1>1, <1>2, <1>3, <1>4, <1>5, <1>7, <1>8, <1>9, <1>10 DEF p

\* The event is the newest for the Subs, each of which the loop has yet to
\* reach.
LEMMA EventPublished ==
  ASSUME PInv, IInv', TypeOK', NEW c \in Conns, NEW kind \in Kinds, Publish(c, kind)
  PROVE  PInv'
<1> DEFINE p == Pub(c)
<1> DEFINE n == Len(log[p])
<1>0. /\ TypeOK /\ InBounds /\ Attached /\ Turns /\ Keeps /\ Within /\ CaughtUp /\ NoGap
      /\ Primed /\ KeyFirst /\ Clocked
  BY DEF PInv
<1>1. /\ p \in Pubsubs /\ p[1] = c /\ p[2] = count[c] /\ count[c] > 0
      /\ pc[c] = "ready" /\ rest[c] = <<>>
      /\ n \in Nat /\ n + 1 <= MaxEvents
      /\ UNCHANGED <<count, subs, target, closed, initialized, lastTimestamp, got>>
  BY PublishStarts
<1>2. /\ \A q \in Pubsubs : /\ log[q] \in Seq(Kinds)
                            /\ log'[q] = IF q = p THEN Append(log[p], kind) ELSE log[q]
      /\ Len(log'[p]) = n + 1
      /\ \A q \in Pubsubs : /\ Len(log[q]) \in Nat /\ Len(log'[q]) \in Nat
                            /\ Len(log[q]) <= Len(log'[q])
                            /\ q # p => Len(log'[q]) = Len(log[q])
      /\ \A q \in Pubsubs : \A i \in 1 .. Len(log[q]) : log'[q][i] = log[q][i]
  BY PublishStarts
<1>3. \A d \in Conns : /\ rest'[d] = IF d = c THEN subs[p] ELSE rest[d]
                       /\ pc'[d] = IF d = c THEN "publish" ELSE pc[d]
  BY PublishStarts
<1> HIDE DEF p, n
<1>4. \A q \in Pubsubs : q[1] \in Conns /\ q[2] \in Nat /\ q = <<q[1], q[2]>> /\ subs[q] \in Seq(Conns)
  BY <1>0, TypesFrom
<1>5. \A s \in Conns : \A j \in 1 .. Len(got[s]) :
        /\ target[s] \in Pubsubs /\ s \in Elements(subs[target[s]])
        /\ got[s][j].event \in 1 .. Len(log[target[s]])
        /\ KindAt(s, j)' = KindAt(s, j)
  <2> SUFFICES ASSUME NEW s \in Conns, NEW j \in 1 .. Len(got[s])
               PROVE  /\ target[s] \in Pubsubs /\ s \in Elements(subs[target[s]])
                      /\ got[s][j].event \in 1 .. Len(log[target[s]])
                      /\ KindAt(s, j)' = KindAt(s, j)
    OBVIOUS
  <2>1. target[s] \in Pubsubs
    BY <1>0 DEF Within, TypeOK
  <2>2. s \in Elements(subs[target[s]]) /\ got[s][j].event \in 1 .. Len(log[target[s]])
    BY <1>0 DEF Within
  <2> QED BY <2>1, <2>2, <1>1, <1>2 DEF KindAt
<1>6. \A s \in Conns : got[s] \in Seq(Delivery)
  BY <1>0 DEF TypeOK
<1>7. \A q \in Pubsubs : Publishes(q)' => Publishes(q)
  BY <1>1, <1>3, <1>4 DEF Publishes
<1>8. ASSUME NEW s \in Conns, NEW q \in Pubsubs, target[s] = q, Publishes(q)', got[s] # <<>>
      PROVE  Due(q, s)' = Due(q, s) /\ Due(q, s) <= Len(log[q])
  <2>1. 1 \in 1 .. Len(got[s])
    BY <1>6, <1>8
  <2>2. s \in Elements(subs[q])
    BY <2>1, <1>5, <1>8
  <2>3. CASE q = p
    <3>1. s \in Elements(rest'[q[1]]) /\ s \notin Elements(rest[q[1]])
      BY <2>2, <2>3, <1>1, <1>3 DEF Elements
    <3> QED BY <3>1, <2>3, <1>1, <1>2 DEF Due, n
  <2>4. CASE q # p
    <3>1. q[2] = count[q[1]]
      BY <1>7, <1>8 DEF Publishes
    <3>2. q[1] # c
      BY <3>1, <2>4, <1>1, <1>4
    <3>3. rest'[q[1]] = rest[q[1]] /\ log'[q] = log[q]
      BY <3>2, <2>4, <1>2, <1>3, <1>4
    <3> QED BY <3>3, <1>2 DEF Due
  <2> QED BY <2>3, <2>4
<1>9. InBounds'
  <2>1. Published' = Published \cup {<<p, n + 1>>}
    <3>1. \A q \in Pubsubs, i \in 1 .. MaxEvents :
            i <= Len(log'[q]) <=> i <= Len(log[q]) \/ (q = p /\ i = n + 1)
      BY <1>1, <1>2 DEF n
    <3>2. n + 1 \in 1 .. MaxEvents
      BY <1>1, ConstantsAssumption
    <3> QED BY <3>1, <3>2, <1>1 DEF Published
  <2>2. IsFiniteSet(Published')
    BY <2>1, <1>0, FS_AddElement DEF InBounds
  <2>3. \A q \in Pubsubs : Len(log'[q]) <= MaxEvents
    BY <1>0, <1>1, <1>2 DEF InBounds
  <2> QED BY <2>2, <2>3 DEF InBounds
<1>10. Attached'
  <2>1. \A q \in Pubsubs : \A i \in 1 .. Len(subs[q]) :
          target[subs[q][i]] = q /\ pc'[subs[q][i]] # "sub"
    <3>1. \A q \in Pubsubs : \A i \in 1 .. Len(subs[q]) : subs[q][i] \in Conns
      BY <1>4
    <3> QED BY <3>1, <1>0, <1>3 DEF Attached
  <2>2. \A s \in Conns : pc'[s] = "sub" => target[s] # NoPubsub
    BY <1>0, <1>3 DEF Attached
  <2>3. ASSUME NEW q \in Pubsubs, q[2] > count[q[1]] PROVE log'[q] = <<>>
    <3>1. q # p
      BY <2>3, <1>1, <1>4
    <3> QED BY <3>1, <2>3, <1>0, <1>2 DEF Attached
  <2> QED BY <2>1, <2>2, <2>3, <1>0, <1>1 DEF Attached
<1>11. Turns'
  <2> SUFFICES ASSUME NEW d \in Conns
               PROVE  /\ rest'[d] # <<>> => pc'[d] = "publish"
                      /\ pc'[d] = "publish" => count[d] > 0 /\ log'[Pub(d)] # <<>>
                      /\ \A i \in 1 .. Len(rest'[d]) : rest'[d][i] \in Elements(subs[Pub(d)])
                      /\ \A i, j \in 1 .. Len(rest'[d]) : rest'[d][i] = rest'[d][j] => i = j
    BY <1>1 DEF Turns, Pub
  <2>1. CASE d = c
    <3>1. rest'[d] = subs[p] /\ pc'[d] = "publish" /\ Pub(d) = p /\ count[d] > 0
      BY <2>1, <1>1, <1>3 DEF p
    <3>2. log'[p] # <<>>
      BY <1>1, <1>2
    <3>3. \A i \in 1 .. Len(subs[p]) : subs[p][i] \in Elements(subs[p])
      BY <1>1, <1>4 DEF Elements
    <3> QED BY <3>1, <3>2, <3>3, <1>0, <1>1 DEF Attached
  <2>2. CASE d # c
    <3>1. rest'[d] = rest[d] /\ pc'[d] = pc[d]
      BY <2>2, <1>3
    <3>2. ASSUME pc[d] = "publish" PROVE count[d] > 0 /\ log'[Pub(d)] # <<>>
      <4>1. count[d] > 0 /\ log[Pub(d)] # <<>>
        BY <3>2, <1>0 DEF Turns
      <4>2. Pub(d) \in Pubsubs /\ Pub(d)[1] = d
        BY <4>1, <1>0, OwnPub
      <4>3. Pub(d) # p
        BY <4>2, <2>2, <1>1
      <4> QED BY <4>1, <4>2, <4>3, <1>2
    <3> QED BY <3>1, <3>2, <1>0 DEF Turns
  <2> QED BY <2>1, <2>2
<1>12. Keeps'
  <2> SUFFICES ASSUME NEW q \in Pubsubs
               PROVE  Retains(log'[q], avcSeqHeader'[q], lastKeyFrame'[q])
    BY DEF Keeps
  <2>0. /\ avcSeqHeader' = [avcSeqHeader EXCEPT ![p] = IF "header" \in Kept(kind) THEN n + 1
                                                       ELSE avcSeqHeader[p]]
        /\ lastKeyFrame' = [lastKeyFrame EXCEPT ![p] = IF "key" \in Kept(kind) THEN n + 1
                                                       ELSE lastKeyFrame[p]]
    BY DEF Publish, p, n
  <2>1. CASE q # p
    BY <2>0, <2>1, <1>0, <1>2 DEF Keeps, TypeOK
  <2>2. CASE q = p
    <3>1. /\ log[p] \in Seq(Kinds) /\ avcSeqHeader[p] \in Nat /\ lastKeyFrame[p] \in Nat
          /\ Retains(log[p], avcSeqHeader[p], lastKeyFrame[p])
      BY <1>0, <1>1 DEF Keeps, TypeOK
    <3>2. Sends(p, kind)
      BY DEF Publish, p
    <3>3. /\ kind = "header" => "header" \notin Elements(log[p])
          /\ kind = "key" => "header" \in Elements(log[p])
          /\ kind = "inter" => "key" \in Elements(log[p])
      BY <3>2 DEF Sends
    <3>4. Retains(Append(log[p], kind),
                  IF "header" \in Kept(kind) THEN n + 1 ELSE avcSeqHeader[p],
                  IF "key" \in Kept(kind) THEN n + 1 ELSE lastKeyFrame[p])
      BY <3>1, <3>3, RetainsGrows DEF n
    <3>5. /\ avcSeqHeader'[p] = IF "header" \in Kept(kind) THEN n + 1 ELSE avcSeqHeader[p]
          /\ lastKeyFrame'[p] = IF "key" \in Kept(kind) THEN n + 1 ELSE lastKeyFrame[p]
      BY <2>0, <1>0, <1>1 DEF TypeOK
    <3>6. log'[p] = Append(log[p], kind)
      BY <1>1, <1>2
    <3> QED BY <3>4, <3>5, <3>6, <2>2
  <2> QED BY <2>1, <2>2
<1>13. Within'
  <2> SUFFICES ASSUME NEW s \in Conns, NEW j \in 1 .. Len(got[s])
               PROVE  /\ target[s] # NoPubsub /\ s \in Elements(subs[target[s]])
                      /\ got[s][j].event \in 1 .. Len(log'[target[s]])
    BY <1>1 DEF Within
  <2>1. target[s] \in Pubsubs /\ target[s] # NoPubsub
    BY <1>5, ConstantsAssumption
  <2>2. s \in Elements(subs[target[s]]) /\ got[s][j].event \in 1 .. Len(log[target[s]])
    BY <1>5
  <2>3. Len(log[target[s]]) \in Nat /\ Len(log'[target[s]]) \in Nat /\ Len(log[target[s]]) <= Len(log'[target[s]])
    BY <2>1, <1>2
  <2> QED BY <2>1, <2>2, <2>3
<1>14. CaughtUp'
  <2> SUFFICES ASSUME NEW s \in Conns \ closed, NEW q \in Pubsubs,
                      target[s] = q, Publishes(q)', got[s] # <<>>, Last(s).live
               PROVE  Last(s).event = Due(q, s)'
    BY <1>1 DEF CaughtUp, Last
  <2>1. Due(q, s)' = Due(q, s)
    BY <1>8
  <2> QED BY <2>1, <1>0, <1>7 DEF CaughtUp
<1>15. NoGap'
  BY <1>0, <1>1 DEF NoGap
<1>16. Primed'
  <2> SUFFICES ASSUME NEW s \in initialized \ closed
               PROVE  /\ \E i \in 1 .. Len(got[s]) : KindAt(s, i)' = "header"
                      /\ \A q \in Pubsubs : target[s] = q /\ Publishes(q)' =>
                           \A e \in 1 .. Due(q, s)' :
                             log'[q][e] = "key" => \E i \in 1 .. Len(got[s]) : KindAt(s, i)' = "key"
    BY <1>1 DEF Primed
  <2>1. s \in Conns
    BY <1>0 DEF TypeOK
  <2>2. PICK h \in 1 .. Len(got[s]) : KindAt(s, h) = "header"
    BY <1>0 DEF Primed
  <2>3. got[s] # <<>>
    BY <2>1, <2>2, <1>6
  <2>4. \E i \in 1 .. Len(got[s]) : KindAt(s, i)' = "header"
    BY <2>1, <2>2, <1>5
  <2>5. ASSUME NEW q \in Pubsubs, target[s] = q, Publishes(q)',
               NEW e \in 1 .. Due(q, s)', log'[q][e] = "key"
        PROVE  \E i \in 1 .. Len(got[s]) : KindAt(s, i)' = "key"
    <3>1. Due(q, s)' = Due(q, s) /\ Due(q, s) <= Len(log[q])
      BY <2>1, <2>3, <2>5, <1>8
    <3>2. Due(q, s) \in Int
      BY <1>2 DEF Due
    <3>3. e \in 1 .. Due(q, s) /\ e \in 1 .. Len(log[q])
      BY <3>1, <3>2, <2>5, <1>2
    <3>4. log[q][e] = "key"
      BY <3>3, <2>5, <1>2
    <3>5. \E i \in 1 .. Len(got[s]) : KindAt(s, i) = "key"
      BY <3>3, <3>4, <2>5, <1>0, <1>7 DEF Primed
    <3> QED BY <3>5, <2>1, <1>5
  <2> QED BY <2>4, <2>5
<1>17. KeyFirst'
  <2> SUFFICES ASSUME NEW s \in Conns, NEW j \in 1 .. Len(got[s]), KindAt(s, j)' = "inter"
               PROVE  /\ \E i \in 1 .. j - 1 : KindAt(s, i)' = "header"
                      /\ \E i \in 1 .. j - 1 : KindAt(s, i)' = "key"
    BY <1>1 DEF KeyFirst, KindAt
  <2>1. KindAt(s, j) = "inter"
    BY <1>5
  <2>2. /\ \E i \in 1 .. j - 1 : KindAt(s, i) = "header"
        /\ \E i \in 1 .. j - 1 : KindAt(s, i) = "key"
    BY <2>1, <1>0 DEF KeyFirst, KindAt
  <2>3. \A i \in 1 .. j - 1 : i \in 1 .. Len(got[s])
    <3>1. Len(got[s]) \in Nat
      BY <1>6
    <3> QED BY <3>1
  <2> QED BY <2>2, <2>3, <1>5
<1>18. Clocked'
  <2> SUFFICES ASSUME NEW s \in Conns
               PROVE  /\ Timed(lastTimestamp[s], got[s])
                      /\ lastTimestamp[s] # 0 =>
                           target[s] # NoPubsub /\ lastTimestamp[s] < Len(log'[target[s]])
    BY <1>1 DEF Clocked
  <2>1. Timed(lastTimestamp[s], got[s])
    BY <1>0 DEF Clocked
  <2>2. ASSUME lastTimestamp[s] # 0
        PROVE  target[s] # NoPubsub /\ lastTimestamp[s] < Len(log'[target[s]])
    <3>1. target[s] # NoPubsub /\ lastTimestamp[s] < Len(log[target[s]])
      BY <2>2, <1>0 DEF Clocked
    <3>2. target[s] \in Pubsubs /\ lastTimestamp[s] \in Nat
      BY <3>1, <1>0 DEF TypeOK
    <3> QED BY <3>1, <3>2, <1>2
  <2> QED BY <2>1, <2>2
<1> QED
  BY <1>9, <1>10, <1>11, <1>12, <1>13, <1>14, <1>15, <1>16, <1>17, <1>18 DEF PInv

-----------------------------------------------------------------------------
(* Handing an event to a Sub. *)

\* What the invariant says of g, given to a Sub with the origin o of p.
Has(g, p, kind) == \E i \in 1 .. Len(g) : log[p][g[i].event] = kind

Fits(g, o, p) ==
  /\ \A j \in 1 .. Len(g) : g[j].event \in 1 .. Len(log[p])
  /\ \A j \in 2 .. Len(g) : g[j - 1].live /\ g[j].live => g[j].event = g[j - 1].event + 1
  /\ \A j \in 1 .. Len(g) : log[p][g[j].event] = "inter" =>
       /\ \E i \in 1 .. j - 1 : log[p][g[i].event] = "header"
       /\ \E i \in 1 .. j - 1 : log[p][g[i].event] = "key"
  /\ Timed(o, g)
  /\ o # 0 => o < Len(log[p])

LEMMA FitsNow ==
  ASSUME PInv, NEW s \in Conns, NEW p \in Pubsubs, target[s] = p
  PROVE  Fits(got[s], lastTimestamp[s], p)
<1>0. Within /\ NoGap /\ KeyFirst /\ Clocked
  BY DEF PInv
<1>1. \A j \in 1 .. Len(got[s]) : got[s][j].event \in 1 .. Len(log[p])
  BY <1>0 DEF Within
<1>2. \A j \in 2 .. Len(got[s]) :
        got[s][j - 1].live /\ got[s][j].live => got[s][j].event = got[s][j - 1].event + 1
  BY <1>0 DEF NoGap
<1>3. \A j \in 1 .. Len(got[s]) : log[p][got[s][j].event] = "inter" =>
        /\ \E i \in 1 .. j - 1 : log[p][got[s][i].event] = "header"
        /\ \E i \in 1 .. j - 1 : log[p][got[s][i].event] = "key"
  BY <1>0 DEF KeyFirst
<1>4. Timed(lastTimestamp[s], got[s]) /\ (lastTimestamp[s] # 0 => lastTimestamp[s] < Len(log[p]))
  BY <1>0 DEF Clocked
<1> QED BY <1>1, <1>2, <1>3, <1>4 DEF Fits

\* After the loop's turn the Sub has the newest event, or its replays.
LEMMA TurnFits ==
  ASSUME PInv, NEW c \in Conns, Deliver(c)
  PROVE  LET s == Head(rest[c])
             p == Pub(c)
             g == got'[s]
         IN  /\ Fits(g, lastTimestamp'[s], p)
             /\ s \notin closed =>
                  /\ g # <<>> /\ g[Len(g)].live => g[Len(g)].event = Len(log[p])
                  /\ Has(g, p, "header")
                     \/ s \notin initialized'
                  /\ s \in initialized' => \A e \in 1 .. Len(log[p]) :
                       log[p][e] = "key" => Has(g, p, "key")
<1> DEFINE s == Head(rest[c])
<1> DEFINE p == Pub(c)
<1> DEFINE n == Len(log[p])
<1> DEFINE old == got[s]
<1> DEFINE m == Len(old)
<1>1. /\ s \in Conns /\ p \in Pubsubs /\ p[1] = c /\ p[2] = count[c] /\ target[s] = p
      /\ pc[c] = "publish" /\ log[p] \in Seq(Kinds) /\ n \in Nat /\ n > 0
      /\ s \in Elements(rest[c])
      /\ initialized' = IF Replays(c, s) THEN initialized \cup {s} ELSE initialized
  BY TurnOf
<1>2. Fits(old, lastTimestamp[s], p)
  BY <1>1, FitsNow
<1>3. old \in Seq(Delivery) /\ m \in Nat /\ lastTimestamp[s] \in Nat
  BY <1>1 DEF PInv, TypeOK
<1>4. CASE s \in closed
  <2>1. got'[s] = old /\ lastTimestamp'[s] = lastTimestamp[s]
    BY <1>4, TurnClosed
  <2> QED BY <2>1, <1>2, <1>4
<1>5. CASE s \notin closed /\ Replays(c, s)
  <2>1. PICK g \in Seq(Delivery), o \in Nat :
          /\ g = got'[s] /\ o = lastTimestamp'[s]
          /\ o = lastTimestamp[s] \/ o < n
          /\ Timed(o, g)
          /\ Len(g) = m + 2
          /\ \A j \in 1 .. m : g[j] = old[j]
          /\ g[m + 1].event = avcSeqHeader[p] /\ ~g[m + 1].live
          /\ g[m + 2].event = lastKeyFrame[p] /\ ~g[m + 2].live
          /\ avcSeqHeader[p] \in 1 .. n /\ lastKeyFrame[p] \in 1 .. n
          /\ Retains(log[p], avcSeqHeader[p], lastKeyFrame[p])
    BY <1>5, TurnReplays
  <2> HIDE DEF s, p, n, old, m
  <2>2. \A j \in 1 .. m + 2 : j \in 1 .. m \/ j = m + 1 \/ j = m + 2
    BY <1>3
  <2>3. /\ log[p][avcSeqHeader[p]] = "header"
        /\ log[p][lastKeyFrame[p]] \in {"header", "key"}
        /\ (\E e \in 1 .. n : log[p][e] = "key") => log[p][lastKeyFrame[p]] = "key"
    BY <2>1 DEF Retains, n
  <2>4. \A j \in 1 .. m + 2 : g[j].event \in 1 .. n
    BY <2>1, <2>2, <1>2 DEF Fits, n, m
  <2>5. \A j \in 2 .. m + 2 : g[j - 1].live /\ g[j].live => g[j].event = g[j - 1].event + 1
    <3> SUFFICES ASSUME NEW j \in 2 .. m + 2, g[j - 1].live, g[j].live
                 PROVE  g[j].event = g[j - 1].event + 1
      OBVIOUS
    <3>1. j # m + 1 /\ j # m + 2
      BY <2>1
    <3>2. j \in 2 .. m /\ j - 1 \in 1 .. m /\ j \in 1 .. m
      BY <3>1, <1>3
    <3>3. g[j] = old[j] /\ g[j - 1] = old[j - 1]
      BY <3>2, <2>1
    <3>4. old[j - 1].live /\ old[j].live => old[j].event = old[j - 1].event + 1
      BY <3>2, <1>2 DEF Fits, m
    <3> QED BY <3>3, <3>4
  <2>6. \A j \in 1 .. m + 2 : log[p][g[j].event] = "inter" =>
          /\ \E i \in 1 .. j - 1 : log[p][g[i].event] = "header"
          /\ \E i \in 1 .. j - 1 : log[p][g[i].event] = "key"
    <3> SUFFICES ASSUME NEW j \in 1 .. m + 2, log[p][g[j].event] = "inter"
                 PROVE  /\ \E i \in 1 .. j - 1 : log[p][g[i].event] = "header"
                        /\ \E i \in 1 .. j - 1 : log[p][g[i].event] = "key"
      OBVIOUS
    <3>1. j \in 1 .. m
      BY <2>1, <2>2, <2>3
    <3>2. /\ \E i \in 1 .. j - 1 : log[p][old[i].event] = "header"
          /\ \E i \in 1 .. j - 1 : log[p][old[i].event] = "key"
      BY <3>1, <2>1, <1>2 DEF Fits, m
    <3>3. \A i \in 1 .. j - 1 : g[i] = old[i]
      BY <3>1, <2>1, <1>3
    <3> QED BY <3>2, <3>3
  <2>7. Timed(o, g) /\ (o # 0 => o < n)
    BY <2>1, <1>2 DEF Fits, n
  <2>8. Fits(g, o, p)
    BY <2>1, <2>4, <2>5, <2>6, <2>7 DEF Fits, n
  <2>9. m + 1 \in 1 .. m + 2 /\ m + 2 \in 1 .. m + 2
    BY <1>3
  <2>10. Has(g, p, "header")
    BY <2>1, <2>3, <2>9 DEF Has
  <2>11. \A e \in 1 .. n : log[p][e] = "key" => Has(g, p, "key")
    BY <2>1, <2>3, <2>9 DEF Has
  <2>12. ~g[Len(g)].live
    BY <2>1
  <2> QED BY <2>1, <2>8, <2>10, <2>11, <2>12 DEF s, p, n
<1>6. CASE s \notin closed /\ ~Replays(c, s)
  <2>1. PICK g \in Seq(Delivery), o \in Nat :
          /\ g = got'[s] /\ o = lastTimestamp'[s]
          /\ o = lastTimestamp[s] \/ o < n
          /\ Timed(o, g)
          /\ Len(g) = m + 1
          /\ \A j \in 1 .. m : g[j] = old[j]
          /\ g[m + 1].event = n /\ g[m + 1].live
    BY <1>6, TurnLive
  <2>2. /\ initialized' = initialized
        /\ log[p][n] # "audio" => s \in initialized \ closed
    BY <1>1, <1>6 DEF Replays
  <2>3. Due(p, s) = n - 1 /\ Publishes(p)
    BY <1>1 DEF Due, Publishes
  <2>4. /\ old # <<>> /\ old[m].live => old[m].event = n - 1
        /\ s \in initialized => Has(old, p, "header")
        /\ s \in initialized => \A e \in 1 .. n - 1 : log[p][e] = "key" => Has(old, p, "key")
    <3>0. CaughtUp /\ Primed
      BY DEF PInv
    <3>1. old # <<>> /\ old[m].live => old[m].event = n - 1
      BY <2>3, <1>1, <1>6, <3>0 DEF CaughtUp, Last
    <3>2. s \in initialized => Has(old, p, "header")
      BY <1>1, <1>6, <3>0 DEF Primed, Has, KindAt
    <3>3. s \in initialized => \A e \in 1 .. n - 1 : log[p][e] = "key" => Has(old, p, "key")
      BY <2>3, <1>1, <1>6, <3>0 DEF Primed, Has, KindAt
    <3> QED BY <3>1, <3>2, <3>3
  <2>5. Retains(log[p], avcSeqHeader[p], lastKeyFrame[p])
    BY <1>1 DEF PInv, Keeps
  <2> HIDE DEF s, p, n, old, m
  <2>6. \A j \in 1 .. m + 1 : j \in 1 .. m \/ j = m + 1
    BY <1>3
  <2>7. \A j \in 1 .. m + 1 : g[j].event \in 1 .. n
    BY <2>1, <2>6, <1>1, <1>2 DEF Fits, n, m
  <2>8. \A j \in 2 .. m + 1 : g[j - 1].live /\ g[j].live => g[j].event = g[j - 1].event + 1
    <3> SUFFICES ASSUME NEW j \in 2 .. m + 1, g[j - 1].live, g[j].live
                 PROVE  g[j].event = g[j - 1].event + 1
      OBVIOUS
    <3>1. CASE j = m + 1
      <4>1. m \in 1 .. m /\ j - 1 = m
        BY <3>1, <1>3
      <4>2. g[m] = old[m] /\ old # <<>>
        BY <4>1, <2>1 DEF m
      <4>3. old[m].event = n - 1
        BY <4>1, <4>2, <2>4
      <4>4. g[j - 1].event = n - 1 /\ g[j].event = n
        BY <4>1, <4>2, <4>3, <3>1, <2>1
      <4> QED BY <4>4, <1>1
    <3>2. CASE j # m + 1
      <4>1. j \in 2 .. m /\ j - 1 \in 1 .. m /\ j \in 1 .. m
        BY <3>2, <1>3
      <4>2. g[j] = old[j] /\ g[j - 1] = old[j - 1]
        BY <4>1, <2>1
      <4>3. old[j - 1].live /\ old[j].live => old[j].event = old[j - 1].event + 1
        BY <4>1, <1>2 DEF Fits, m
      <4> QED BY <4>2, <4>3
    <3> QED BY <3>1, <3>2
  <2>9. \A kind : Has(old, p, kind) => \E i \in 1 .. m : log[p][g[i].event] = kind
    BY <2>1 DEF Has, m
  <2>10. \A j \in 1 .. m + 1 : log[p][g[j].event] = "inter" =>
           /\ \E i \in 1 .. j - 1 : log[p][g[i].event] = "header"
           /\ \E i \in 1 .. j - 1 : log[p][g[i].event] = "key"
    <3> SUFFICES ASSUME NEW j \in 1 .. m + 1, log[p][g[j].event] = "inter"
                 PROVE  /\ \E i \in 1 .. j - 1 : log[p][g[i].event] = "header"
                        /\ \E i \in 1 .. j - 1 : log[p][g[i].event] = "key"
      OBVIOUS
    <3>1. CASE j \in 1 .. m
      <4>1. /\ \E i \in 1 .. j - 1 : log[p][old[i].event] = "header"
            /\ \E i \in 1 .. j - 1 : log[p][old[i].event] = "key"
        BY <3>1, <2>1, <1>2 DEF Fits, m
      <4>2. \A i \in 1 .. j - 1 : g[i] = old[i]
        BY <3>1, <2>1, <1>3
      <4> QED BY <4>1, <4>2
    <3>2. CASE j = m + 1
      <4>1. log[p][n] = "inter" /\ n \in 1 .. n /\ j - 1 = m
        BY <3>2, <2>1, <1>1, <1>3
      <4>2. PICK e \in 1 .. n - 1 : log[p][e] = "key"
        BY <4>1, <2>5 DEF Retains, n
      <4>3. s \in initialized
        BY <4>1, <2>2
      <4>4. Has(old, p, "header") /\ Has(old, p, "key")
        BY <4>2, <4>3, <2>4
      <4> QED BY <4>1, <4>4, <2>9
    <3> QED BY <3>1, <3>2, <2>6
  <2>11. Timed(o, g) /\ (o # 0 => o < n)
    BY <2>1, <1>2 DEF Fits, n
  <2>12. Fits(g, o, p)
    BY <2>1, <2>7, <2>8, <2>10, <2>11 DEF Fits, n
  <2>13. \A kind : (\E i \in 1 .. m : log[p][g[i].event] = kind) => Has(g, p, kind)
    <3>1. \A i \in 1 .. m : i \in 1 .. Len(g)
      BY <2>1, <1>3
    <3> QED BY <3>1 DEF Has
  <2>14. s \in initialized' => Has(g, p, "header")
    BY <2>2, <2>4, <2>9, <2>13
  <2>15. ASSUME s \in initialized', NEW e \in 1 .. n, log[p][e] = "key"
         PROVE  Has(g, p, "key")
    <3>1. CASE e = n
      <4>1. m + 1 \in 1 .. Len(g)
        BY <2>1, <1>3
      <4> QED BY <4>1, <3>1, <2>1, <2>15 DEF Has
    <3>2. CASE e # n
      <4>1. e \in 1 .. n - 1
        BY <3>2, <1>1
      <4> QED BY <4>1, <2>2, <2>4, <2>9, <2>13, <2>15
    <3> QED BY <3>1, <3>2
  <2>16. g[Len(g)].event = n
    BY <2>1
  <2> QED BY <2>1, <2>12, <2>14, <2>15, <2>16 DEF s, p, n
<1> QED BY <1>4, <1>5, <1>6

\* A turn of the loop.
LEMMA TurnTaken ==
  ASSUME PInv, IInv', TypeOK', NEW c \in Conns, Deliver(c)
  PROVE  PInv'
<1>0. /\ TypeOK /\ InBounds /\ Attached /\ Turns /\ Keeps /\ Within /\ CaughtUp /\ NoGap
      /\ Primed /\ KeyFirst /\ Clocked
  BY DEF PInv
<1>1. PICK s \in Conns, p \in Pubsubs :
      /\ s = Head(rest[c]) /\ p = Pub(c) /\ p[1] = c /\ p[2] = count[c] /\ target[s] = p
      /\ pc[c] = "publish" /\ count[c] > 0
      /\ s \in Elements(subs[p])
      /\ rest' = [rest EXCEPT ![c] = Tail(rest[c])]
      /\ Elements(rest[c]) = {s} \cup Elements(Tail(rest[c]))
      /\ s \notin Elements(Tail(rest[c]))
      /\ lastTimestamp' = [lastTimestamp EXCEPT ![s] = TurnGiven(c, s).origin]
      /\ got' = [got EXCEPT ![s] = TurnGiven(c, s).got]
      /\ initialized' = IF Replays(c, s) THEN initialized \cup {s} ELSE initialized
  <2>1. Head(rest[c]) \in Conns /\ Pub(c) \in Pubsubs
    BY TurnOf
  <2> QED BY <2>1, TurnOf
<1>2. UNCHANGED <<pc, count, subs, target, closed, log, avcSeqHeader, lastKeyFrame>>
  BY DEF Deliver, pubVars
<1>3. /\ Fits(got'[s], lastTimestamp'[s], p)
      /\ s \notin closed =>
           /\ got'[s] # <<>> /\ got'[s][Len(got'[s])].live =>
                got'[s][Len(got'[s])].event = Len(log[p])
           /\ Has(got'[s], p, "header") \/ s \notin initialized'
           /\ s \in initialized' => \A e \in 1 .. Len(log[p]) :
                log[p][e] = "key" => Has(got'[s], p, "key")
  BY <1>1, TurnFits
<1>4. rest[c] \in Seq(Conns) /\ rest[c] # <<>>
  BY <1>0 DEF TypeOK, Deliver
<1>5. /\ Tail(rest[c]) \in Seq(Conns) /\ Len(Tail(rest[c])) = Len(rest[c]) - 1
      /\ \A i \in 1 .. Len(rest[c]) - 1 : Tail(rest[c])[i] = rest[c][i + 1]
  BY <1>4, Rest
<1>6. \A t \in Conns : t # s =>
        /\ got'[t] = got[t] /\ lastTimestamp'[t] = lastTimestamp[t]
        /\ t \in initialized' <=> t \in initialized
  BY <1>0, <1>1 DEF TypeOK
<1>7. \A d \in Conns : rest'[d] = IF d = c THEN Tail(rest[c]) ELSE rest[d]
  BY <1>0, <1>1 DEF TypeOK
<1>8. \A q \in Pubsubs : q[1] \in Conns /\ q[2] \in Nat /\ q = <<q[1], q[2]>>
  BY <1>0, TypesFrom
<1>9. \A q \in Pubsubs : Publishes(q)' <=> Publishes(q)
  BY <1>2 DEF Publishes
<1>10. ASSUME NEW q \in Pubsubs, NEW t \in Conns, t # s PROVE Due(q, t)' = Due(q, t)
  <2>1. q[1] \in Conns
    BY <1>8
  <2>2. t \in Elements(rest'[q[1]]) <=> t \in Elements(rest[q[1]])
    BY <2>1, <1>1, <1>7, <1>10
  <2> QED BY <2>2, <1>2 DEF Due
<1>11. Due(p, s)' = Len(log[p])
  <2>1. s \notin Elements(rest'[p[1]])
    BY <1>1, <1>7
  <2> QED BY <2>1, <1>2 DEF Due
<1>12. InBounds' /\ Keeps'
  BY <1>0, <1>2 DEF InBounds, Published, Keeps
<1>13. Attached'
  BY <1>0, <1>2 DEF Attached
<1>14. Turns'
  <2> SUFFICES ASSUME NEW d \in Conns
               PROVE  /\ rest'[d] # <<>> => pc[d] = "publish"
                      /\ pc[d] = "publish" => count[d] > 0 /\ log[Pub(d)] # <<>>
                      /\ \A i \in 1 .. Len(rest'[d]) : rest'[d][i] \in Elements(subs[Pub(d)])
                      /\ \A i, j \in 1 .. Len(rest'[d]) : rest'[d][i] = rest'[d][j] => i = j
    BY <1>2 DEF Turns, Pub
  <2>1. CASE d # c
    BY <2>1, <1>0, <1>7 DEF Turns
  <2>2. CASE d = c
    <3>1. rest'[d] = Tail(rest[c])
      BY <2>2, <1>7
    <3>2. pc[d] = "publish" /\ count[d] > 0 /\ log[Pub(d)] # <<>>
      BY <2>2, <1>0, <1>1 DEF Turns
    <3>3. \A i \in 1 .. Len(rest[c]) - 1 : i + 1 \in 1 .. Len(rest[c])
      BY <1>4
    <3>4. \A i \in 1 .. Len(rest[c]) : rest[c][i] \in Elements(subs[Pub(c)])
      BY <1>0 DEF Turns
    <3>5. \A i \in 1 .. Len(Tail(rest[c])) : Tail(rest[c])[i] \in Elements(subs[Pub(c)])
      BY <3>3, <3>4, <1>5
    <3>6. \A i, j \in 1 .. Len(rest[c]) : rest[c][i] = rest[c][j] => i = j
      BY <1>0 DEF Turns
    <3>7. \A i, j \in 1 .. Len(Tail(rest[c])) : Tail(rest[c])[i] = Tail(rest[c])[j] => i = j
      BY <1>4, <3>6, FirstOnce
    <3> QED BY <3>1, <3>2, <3>5, <3>7, <2>2
  <2> QED BY <2>1, <2>2
<1>15. Within'
  <2> SUFFICES ASSUME NEW t \in Conns, NEW j \in 1 .. Len(got'[t])
               PROVE  /\ target[t] # NoPubsub /\ t \in Elements(subs[target[t]])
                      /\ got'[t][j].event \in 1 .. Len(log[target[t]])
    BY <1>2 DEF Within
  <2>1. CASE t # s
    <3>1. got'[t] = got[t]
      BY <2>1, <1>6
    <3> QED BY <3>1, <1>0 DEF Within
  <2>2. CASE t = s
    BY <2>2, <1>1, <1>3, ConstantsAssumption DEF Fits
  <2> QED BY <2>1, <2>2
<1>16. CaughtUp'
  <2> SUFFICES ASSUME NEW t \in Conns \ closed, NEW q \in Pubsubs, target[t] = q, Publishes(q),
                      got'[t] # <<>>, got'[t][Len(got'[t])].live
               PROVE  got'[t][Len(got'[t])].event = Due(q, t)'
    BY <1>2, <1>9 DEF CaughtUp, Last
  <2>1. CASE t # s
    <3>1. Due(q, t)' = Due(q, t)
      BY <2>1, <1>10
    <3>2. got'[t] = got[t]
      BY <2>1, <1>6
    <3> QED BY <3>1, <3>2, <1>0 DEF CaughtUp, Last
  <2>2. CASE t = s
    <3>1. q = p
      BY <2>2, <1>1
    <3> QED BY <3>1, <2>2, <1>3, <1>11
  <2> QED BY <2>1, <2>2
<1>17. NoGap'
  <2> SUFFICES ASSUME NEW t \in Conns, NEW j \in 2 .. Len(got'[t]),
                      got'[t][j - 1].live, got'[t][j].live
               PROVE  got'[t][j].event = got'[t][j - 1].event + 1
    BY DEF NoGap
  <2>1. CASE t # s
    <3>1. got'[t] = got[t]
      BY <2>1, <1>6
    <3> QED BY <3>1, <1>0 DEF NoGap
  <2>2. CASE t = s
    BY <2>2, <1>3 DEF Fits
  <2> QED BY <2>1, <2>2
<1>18. Primed'
  <2> SUFFICES ASSUME NEW t \in initialized' \ closed
               PROVE  /\ \E i \in 1 .. Len(got'[t]) : KindAt(t, i)' = "header"
                      /\ \A q \in Pubsubs : target[t] = q /\ Publishes(q) =>
                           \A e \in 1 .. Due(q, t)' :
                             log[q][e] = "key" => \E i \in 1 .. Len(got'[t]) : KindAt(t, i)' = "key"
    BY <1>2, <1>9 DEF Primed
  <2>1. t \in Conns
    <3>1. initialized' \subseteq Conns
      BY <1>0, <1>1 DEF TypeOK
    <3> QED BY <3>1
  <2>2. \A i : KindAt(t, i)' = log[target[t]][got'[t][i].event]
    BY <1>2 DEF KindAt
  <2>3. CASE t # s
    <3>1. t \in initialized \ closed /\ got'[t] = got[t]
      BY <2>1, <2>3, <1>6
    <3>2. \A i : KindAt(t, i)' = KindAt(t, i)
      BY <2>2, <3>1 DEF KindAt
    <3>3. \A q \in Pubsubs : Due(q, t)' = Due(q, t)
      BY <2>1, <2>3, <1>10
    <3> QED BY <3>1, <3>2, <3>3, <1>0 DEF Primed
  <2>4. CASE t = s
    <3>1. \A i : KindAt(t, i)' = log[p][got'[s][i].event]
      BY <2>2, <2>4, <1>1
    <3>2. Has(got'[s], p, "header")
      BY <2>4, <1>3
    <3>3. \A e \in 1 .. Len(log[p]) : log[p][e] = "key" => Has(got'[s], p, "key")
      BY <2>4, <1>3
    <3>4. \E i \in 1 .. Len(got'[t]) : KindAt(t, i)' = "header"
      BY <3>1, <3>2, <2>4 DEF Has
    <3>5. ASSUME NEW q \in Pubsubs, target[t] = q, NEW e \in 1 .. Due(q, t)', log[q][e] = "key"
          PROVE  \E i \in 1 .. Len(got'[t]) : KindAt(t, i)' = "key"
      <4>1. q = p
        BY <3>5, <2>4, <1>1
      <4>2. e \in 1 .. Len(log[p]) /\ log[p][e] = "key"
        BY <4>1, <3>5, <2>4, <1>11
      <4>3. Has(got'[s], p, "key")
        BY <4>2, <3>3
      <4> QED BY <4>3, <3>1, <2>4 DEF Has
    <3> QED BY <3>4, <3>5
  <2> QED BY <2>3, <2>4
<1>19. KeyFirst'
  <2> SUFFICES ASSUME NEW t \in Conns, NEW j \in 1 .. Len(got'[t]), KindAt(t, j)' = "inter"
               PROVE  /\ \E i \in 1 .. j - 1 : KindAt(t, i)' = "header"
                      /\ \E i \in 1 .. j - 1 : KindAt(t, i)' = "key"
    BY DEF KeyFirst, KindAt
  <2>0. \A i : KindAt(t, i)' = log[target[t]][got'[t][i].event]
    BY <1>2 DEF KindAt
  <2>1. CASE t # s
    <3>1. got'[t] = got[t]
      BY <2>1, <1>6
    <3>2. \A i : KindAt(t, i)' = KindAt(t, i)
      BY <3>1, <2>0 DEF KindAt
    <3>3. \A i \in 1 .. Len(got[t]) : KindAt(t, i) = "inter" =>
            /\ \E e \in 1 .. i - 1 : KindAt(t, e) = "header"
            /\ \E e \in 1 .. i - 1 : KindAt(t, e) = "key"
      BY <1>0 DEF KeyFirst, KindAt
    <3> QED BY <3>1, <3>2, <3>3
  <2>2. CASE t = s
    <3>1. \A i : KindAt(t, i)' = log[p][got'[s][i].event]
      BY <2>0, <2>2, <1>1
    <3>2. \A i \in 1 .. Len(got'[s]) : log[p][got'[s][i].event] = "inter" =>
            /\ \E e \in 1 .. i - 1 : log[p][got'[s][e].event] = "header"
            /\ \E e \in 1 .. i - 1 : log[p][got'[s][e].event] = "key"
      BY <1>3 DEF Fits
    <3> QED BY <3>1, <3>2, <2>2
  <2> QED BY <2>1, <2>2
<1>20. Clocked'
  <2> SUFFICES ASSUME NEW t \in Conns
               PROVE  /\ Timed(lastTimestamp'[t], got'[t])
                      /\ lastTimestamp'[t] # 0 =>
                           target[t] # NoPubsub /\ lastTimestamp'[t] < Len(log[target[t]])
    BY <1>2 DEF Clocked
  <2>1. CASE t # s
    <3>1. got'[t] = got[t] /\ lastTimestamp'[t] = lastTimestamp[t]
      BY <2>1, <1>6
    <3> QED BY <3>1, <1>0 DEF Clocked
  <2>2. CASE t = s
    BY <2>2, <1>1, <1>3, ConstantsAssumption DEF Fits
  <2> QED BY <2>1, <2>2
<1> QED
  BY <1>12, <1>13, <1>14, <1>15, <1>16, <1>17, <1>18, <1>19, <1>20 DEF PInv

\* The turn that ends in a panic, and with it the publication.
LEMMA TurnPanics ==
  ASSUME PInv, IInv', TypeOK', NEW c \in Conns, CallNil(c)
  PROVE  PInv'
<1> DEFINE s == Head(rest[c])
<1> DEFINE p == Pub(c)
<1>0. /\ TypeOK /\ InBounds /\ Attached /\ Turns /\ Keeps /\ Within /\ CaughtUp /\ NoGap
      /\ Primed /\ KeyFirst /\ Clocked
  BY DEF PInv
<1>1. PICK o \in Nat :
        /\ s \in Conns /\ p \in Pubsubs /\ target[s] = p
        /\ Len(log[p]) \in Nat /\ Len(log[p]) > 0
        /\ lastTimestamp' = [lastTimestamp EXCEPT ![s] = o]
        /\ o = lastTimestamp[s] \/ (lastTimestamp[s] = 0 /\ o < Len(log[p]))
  BY NilGiven
<1>2. /\ UNCHANGED <<count, subs, target, closed, log, avcSeqHeader, lastKeyFrame, initialized, got>>
      /\ rest' = [rest EXCEPT ![c] = <<>>] /\ pc' = [pc EXCEPT ![c] = "closing"]
  BY DEF CallNil, Goto, pubVars
<1> HIDE DEF s, p
<1>3. \A d \in Conns : /\ rest'[d] = IF d = c THEN <<>> ELSE rest[d]
                       /\ pc'[d] = IF d = c THEN "closing" ELSE pc[d]
                       /\ lastTimestamp'[d] = IF d = s THEN o ELSE lastTimestamp[d]
  BY <1>0, <1>1, <1>2 DEF TypeOK
<1>4. \A q \in Pubsubs : q[1] \in Conns /\ subs[q] \in Seq(Conns)
  BY <1>0, TypesFrom
<1>5. \A q \in Pubsubs : Publishes(q)' => Publishes(q) /\ q[1] # c
  BY <1>2, <1>3, <1>4 DEF Publishes
<1>6. \A q \in Pubsubs : \A t : q[1] # c => Due(q, t)' = Due(q, t)
  BY <1>2, <1>3, <1>4 DEF Due
<1>7. InBounds' /\ Keeps' /\ Within' /\ NoGap' /\ KeyFirst'
  BY <1>0, <1>2 DEF InBounds, Published, Keeps, Within, NoGap, KeyFirst
<1>8. Attached'
  <2>1. \A q \in Pubsubs : \A i \in 1 .. Len(subs[q]) : subs[q][i] \in Conns
    BY <1>4
  <2>2. \A q \in Pubsubs : \A i \in 1 .. Len(subs[q]) :
          target[subs[q][i]] = q /\ pc'[subs[q][i]] # "sub"
    BY <2>1, <1>0, <1>3 DEF Attached
  <2>3. \A t \in Conns : pc'[t] = "sub" => target[t] # NoPubsub
    BY <1>0, <1>3 DEF Attached
  <2> QED BY <2>2, <2>3, <1>0, <1>2 DEF Attached
<1>9. Turns'
  <2> SUFFICES ASSUME NEW d \in Conns
               PROVE  /\ rest'[d] # <<>> => pc'[d] = "publish"
                      /\ pc'[d] = "publish" => count[d] > 0 /\ log[Pub(d)] # <<>>
                      /\ \A i \in 1 .. Len(rest'[d]) : rest'[d][i] \in Elements(subs[Pub(d)])
                      /\ \A i, j \in 1 .. Len(rest'[d]) : rest'[d][i] = rest'[d][j] => i = j
    BY <1>2 DEF Turns, Pub
  <2>1. CASE d = c
    BY <2>1, <1>3
  <2>2. CASE d # c
    BY <2>2, <1>0, <1>3 DEF Turns
  <2> QED BY <2>1, <2>2
<1>10. CaughtUp'
  <2> SUFFICES ASSUME NEW t \in Conns \ closed, NEW q \in Pubsubs, target[t] = q, Publishes(q)',
                      got[t] # <<>>, Last(t).live
               PROVE  Last(t).event = Due(q, t)'
    BY <1>2 DEF CaughtUp, Last
  <2> QED BY <1>0, <1>5, <1>6 DEF CaughtUp
<1>11. Primed'
  <2>1. \A t, i : KindAt(t, i)' = KindAt(t, i)
    BY <1>2 DEF KindAt
  <2> SUFFICES ASSUME NEW t \in initialized \ closed
               PROVE  /\ \E i \in 1 .. Len(got[t]) : KindAt(t, i) = "header"
                      /\ \A q \in Pubsubs : target[t] = q /\ Publishes(q)' =>
                           \A e \in 1 .. Due(q, t)' :
                             log[q][e] = "key" => \E i \in 1 .. Len(got[t]) : KindAt(t, i) = "key"
    BY <1>2, <2>1 DEF Primed
  <2>2. \E i \in 1 .. Len(got[t]) : KindAt(t, i) = "header"
    BY <1>0 DEF Primed
  <2>3. ASSUME NEW q \in Pubsubs, target[t] = q, Publishes(q)',
               NEW e \in 1 .. Due(q, t)', log[q][e] = "key"
        PROVE  \E i \in 1 .. Len(got[t]) : KindAt(t, i) = "key"
    <3>1. Publishes(q) /\ Due(q, t)' = Due(q, t)
      BY <2>3, <1>5, <1>6
    <3> QED BY <3>1, <2>3, <1>0 DEF Primed
  <2> QED BY <2>2, <2>3
<1>12. Clocked'
  <2> SUFFICES ASSUME NEW t \in Conns
               PROVE  /\ Timed(lastTimestamp'[t], got[t])
                      /\ lastTimestamp'[t] # 0 =>
                           target[t] # NoPubsub /\ lastTimestamp'[t] < Len(log[target[t]])
    BY <1>2 DEF Clocked
  <2>1. CASE lastTimestamp'[t] = lastTimestamp[t]
    BY <2>1, <1>0 DEF Clocked
  <2>2. CASE lastTimestamp'[t] # lastTimestamp[t]
    <3>1. t = s /\ lastTimestamp'[t] = o /\ lastTimestamp[t] = 0 /\ o < Len(log[p])
      BY <2>2, <1>1, <1>3
    <3>2. Timed(0, got[t])
      BY <3>1, <1>0 DEF Clocked
    <3>3. Timed(o, got[t])
      <4>1. \A j \in 1 .. Len(got[t]) : got[t][j].event = 1
        BY <3>2 DEF Timed
      <4>2. \A j \in 1 .. Len(got[t]) : got[t][j].live =>
              got[t][j].stamp = IF got[t][j].event - 1 < o THEN 0 ELSE got[t][j].event - 1 - o
        BY <3>2, <4>1 DEF Timed
      <4> QED BY <4>1, <4>2, <3>2 DEF Timed
    <3> QED BY <3>1, <3>3, <1>1, ConstantsAssumption
  <2> QED BY <2>1, <2>2
<1> QED BY <1>7, <1>8, <1>9, <1>10, <1>11, <1>12 DEF PInv

-----------------------------------------------------------------------------

\* A step that concerns neither connections nor players.
LEMMA OthersMove ==
  ASSUME PInv, IInv', TypeOK',
         UNCHANGED <<pc, count, subs, rest, target, closed, log, avcSeqHeader, lastKeyFrame,
                     initialized, lastTimestamp, got>>
  PROVE  PInv'
<1>0. /\ InBounds /\ Attached /\ Turns /\ Keeps /\ Within /\ CaughtUp /\ NoGap /\ Primed
      /\ KeyFirst /\ Clocked
  BY DEF PInv
<1>1. Attached' /\ Turns'
  BY <1>0 DEF Attached, Turns, Pub
<1>2. InBounds' /\ Keeps' /\ Within'
  BY <1>0 DEF InBounds, Published, Keeps, Within
<1>3. CaughtUp'
  BY <1>0 DEF CaughtUp, Publishes, Due, Last
<1>4. Primed'
  BY <1>0 DEF Primed, Publishes, Due, KindAt
<1>5. NoGap' /\ KeyFirst'
  <2>1. NoGap'
    BY <1>0 DEF NoGap
  <2>2. KeyFirst'
    BY <1>0 DEF KeyFirst
  <2> QED BY <2>1, <2>2
<1>6. Clocked'
  BY <1>0 DEF Clocked
<1> QED BY <1>1, <1>2, <1>3, <1>4, <1>5, <1>6 DEF PInv

\* Every step keeps the invariant.
LEMMA PInductive == PInv /\ [Next]_vars => PInv'
<1> SUFFICES ASSUME PInv, [Next]_vars PROVE PInv'
  OBVIOUS
<1>1. IInv'
  BY Inductive DEF PInv
<1>2. TypeOK'
  BY <1>1, Typed
<1>3. Turns
  BY DEF PInv
<1>4. \A d \in Conns : pc[d] # "publish" => rest[d] = <<>>
  BY <1>3 DEF Turns
<1>5. Publishers \subseteq Conns /\ Players \subseteq Conns
  BY ConstantsAssumption
<1>6. CASE UNCHANGED vars
  BY <1>6, <1>1, <1>2, OthersMove DEF vars
<1>7. ASSUME NEW ch \in Channels, NEW k \in Keys, SetKey(ch, k) PROVE PInv'
  BY <1>7, <1>1, <1>2, OthersMove DEF SetKey, pubVars, subVars
<1>8. ASSUME NEW c \in Publishers, NEW k \in Keys, OnPublish(c, k) PROVE PInv'
  BY <1>8, <1>1, <1>2, <1>5, NewPublication
<1>9. ASSUME NEW c \in Publishers, NEW k \in Keys, OnPublishRejected(c, k) PROVE PInv'
  <2>1. /\ c \in Conns /\ pc[c] = "ready" /\ pc' = [pc EXCEPT ![c] = "closing"]
        /\ UNCHANGED <<closed, count, subs, rest, target, log, avcSeqHeader, lastKeyFrame, subVars>>
    BY <1>9, <1>5 DEF OnPublishRejected, Goto, pubVars
  <2> QED BY <2>1, <1>1, <1>2, Resting
<1>10. ASSUME NEW c \in Publishers, NEW kind \in Kinds, Publish(c, kind) PROVE PInv'
  BY <1>10, <1>1, <1>2, <1>5, EventPublished
<1>11. ASSUME NEW c \in Players, NEW ch \in Channels, OnPlay(c, ch) PROVE PInv'
  BY <1>11, <1>1, <1>2, <1>5, PlayerFinds
<1>12. ASSUME NEW c \in Players, NEW ch \in Channels, OnPlayRejected(c, ch) PROVE PInv'
  <2>1. /\ c \in Conns /\ pc[c] = "ready" /\ pc' = [pc EXCEPT ![c] = "closing"]
        /\ UNCHANGED <<closed, count, subs, rest, target, log, avcSeqHeader, lastKeyFrame, subVars>>
    BY <1>12, <1>5 DEF OnPlayRejected, Goto, pubVars
  <2> QED BY <2>1, <1>1, <1>2, Resting
<1>13. ASSUME NEW c \in Conns, Sub(c) PROVE PInv'
  BY <1>13, <1>1, <1>2, PlayerAdded
<1>14. ASSUME NEW c \in Conns, SetEventCallback(c) PROVE PInv'
  <2>1. /\ pc[c] = "callback" /\ pc' = [pc EXCEPT ![c] = "ready"]
        /\ UNCHANGED <<closed, count, subs, rest, target, log, avcSeqHeader, lastKeyFrame, subVars>>
    BY <1>14 DEF SetEventCallback, Goto, pubVars
  <2> QED BY <2>1, <1>1, <1>2, Resting
<1>15. ASSUME NEW c \in Conns, Deliver(c) PROVE PInv'
  BY <1>15, <1>1, <1>2, TurnTaken
<1>16. ASSUME NEW c \in Conns, CallNil(c) PROVE PInv'
  BY <1>16, <1>1, <1>2, TurnPanics
<1>17. ASSUME NEW c \in Conns, PublishReturns(c) PROVE PInv'
  <2>1. /\ pc[c] = "publish" /\ rest[c] = <<>> /\ pc' = [pc EXCEPT ![c] = "ready"]
        /\ UNCHANGED <<closed, count, subs, rest, target, log, avcSeqHeader, lastKeyFrame, subVars>>
    BY <1>17 DEF PublishReturns, Goto, pubVars
  <2> QED BY <2>1, <1>1, <1>2, Resting
<1>18. ASSUME NEW c \in Conns, Disconnect(c) PROVE PInv'
  <2>1. /\ pc[c] = "ready" /\ pc' = [pc EXCEPT ![c] = "closing"]
        /\ UNCHANGED <<closed, count, subs, rest, target, log, avcSeqHeader, lastKeyFrame, subVars>>
    BY <1>18 DEF Disconnect, Goto, pubVars
  <2> QED BY <2>1, <1>1, <1>2, Resting
<1>19. ASSUME NEW c \in Conns, OnClose(c) PROVE PInv'
  <2>1. /\ pc[c] = "closing" /\ pc' = [pc EXCEPT ![c] = "closed"] /\ closed \subseteq closed'
        /\ UNCHANGED <<count, subs, rest, target, log, avcSeqHeader, lastKeyFrame, subVars>>
    BY <1>19 DEF OnClose, Goto, pubVars
  <2> QED BY <2>1, <1>1, <1>2, Resting
<1> QED
  BY <1>6, <1>7, <1>8, <1>9, <1>10, <1>11, <1>12, <1>13, <1>14, <1>15, <1>16, <1>17,
     <1>18, <1>19 DEF Next

-----------------------------------------------------------------------------

\* The types.
THEOREM PlayersTyped == Spec => []TypeOK
<1>1. PInv => TypeOK
  BY DEF PInv
<1> QED BY <1>1, PInit, PInductive, PTL DEF Spec

\* No player misses an event between two that it is given live, whatever other
\* players and publishers do during the loop (pubsub.go:74, 88).
THEOREM NothingSkipped == Spec => []NoGap
<1>1. PInv => NoGap
  BY DEF PInv
<1> QED BY <1>1, PInit, PInductive, PTL DEF Spec

\* When Publish has returned, each open player that follows live has the newest
\* event (pubsub.go:74, 88).
THEOREM AllReached == Spec => []UpToDate
<1>1. PInv => UpToDate
  <2> SUFFICES ASSUME PInv, NEW c \in Conns, pc[c] = "ready", count[c] > 0,
                      NEW s \in Elements(subs[Pub(c)]) \ closed,
                      got[s] # <<>>, Last(s).live
               PROVE  Last(s).event = Len(log[Pub(c)])
    BY DEF UpToDate, Last
  <2> DEFINE p == Pub(c)
  <2>0. TypeOK /\ Attached /\ Turns /\ CaughtUp
    BY DEF PInv
  <2>1. p \in Pubsubs /\ p[1] = c /\ p[2] = count[c]
    BY <2>0, OwnPub
  <2> HIDE DEF p
  <2>2. subs[p] \in Seq(Conns)
    BY <2>0, <2>1, TypesFrom
  <2>3. s \in Conns /\ target[s] = p
    <3>1. PICK i \in 1 .. Len(subs[p]) : subs[p][i] = s
      BY <2>2 DEF Elements, p
    <3> QED BY <3>1, <2>0, <2>1, <2>2 DEF Attached
  <2>4. rest[c] = <<>>
    BY <2>0 DEF Turns
  <2>5. Publishes(p) /\ Due(p, s) = Len(log[p])
    BY <2>1, <2>4 DEF Publishes, Due, Elements
  <2>6. Last(s).event = Due(p, s)
    BY <2>0, <2>1, <2>3, <2>5 DEF CaughtUp
  <2> QED BY <2>5, <2>6 DEF p
<1> QED BY <1>1, PInit, PInductive, PTL DEF Spec

\* Whenever it joins, a player gets a sequence header and a key frame before
\* the first frame that refers to others (pubsub.go:90).
THEOREM DecodableStart == Spec => []KeyFirst
<1>1. PInv => KeyFirst
  BY DEF PInv
<1> QED BY <1>1, PInit, PInductive, PTL DEF Spec

\* The timestamps of a player's live events never go back and never wrap
\* (pubsub.go:127).
THEOREM ClockNeverBack == Spec => []ClockForward
<1>1. PInv => ClockForward
  <2> SUFFICES ASSUME PInv, NEW s \in Conns, NEW i \in 1 .. Len(got[s]), NEW j \in 1 .. Len(got[s]),
                      i <= j, got[s][i].live, got[s][j].live
               PROVE  got[s][i].stamp <= got[s][j].stamp /\ got[s][j].stamp <= MaxEvents
    BY DEF ClockForward
  <2>0. TypeOK /\ InBounds /\ Within /\ Clocked
    BY DEF PInv
  <2> DEFINE e == got[s][i].event
  <2> DEFINE f == got[s][j].event
  <2> DEFINE o == lastTimestamp[s]
  <2>1. o \in Nat /\ target[s] \in Pubsubs
    BY <2>0 DEF TypeOK, Within
  <2>2. log[target[s]] \in Seq(Kinds) /\ Len(log[target[s]]) <= MaxEvents
    BY <2>0, <2>1 DEF TypeOK, InBounds
  <2>3. e \in 1 .. Len(log[target[s]]) /\ f \in 1 .. Len(log[target[s]])
    BY <2>0 DEF Within
  <2>4. /\ got[s][i].stamp = IF e - 1 < o THEN 0 ELSE e - 1 - o
        /\ got[s][j].stamp = IF f - 1 < o THEN 0 ELSE f - 1 - o
        /\ e <= f
    BY <2>0 DEF Clocked, Timed
  <2>5. f <= MaxEvents /\ e \in Nat /\ f \in Nat /\ e > 0 /\ f > 0 /\ MaxEvents \in Nat
    <3>1. Len(log[target[s]]) \in Nat
      BY <2>2
    <3>2. MaxEvents \in Nat
      BY ConstantsAssumption
    <3> HIDE DEF e, f
    <3> QED BY <3>1, <3>2, <2>2, <2>3
  <2> HIDE DEF e, f, o
  <2> QED BY <2>1, <2>4, <2>5
<1> QED BY <1>1, PInit, PInductive, PTL DEF Spec
=============================================================================
