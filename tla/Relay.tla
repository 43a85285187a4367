------------------------------- MODULE Relay -------------------------------
(***************************************************************************)
(* The relay server (example/server_relay_demo): publishers register a      *)
(* Pubsub under a key, players attach a Sub to it, and the goroutine of the *)
(* publisher's connection hands every event to every Sub. Each connection   *)
(* is one goroutine that runs its Handler's callbacks one after another;    *)
(* the goroutines share the registry, the lists of subscribers and the      *)
(* fields of the Subs, only some of them under a lock.                      *)
(*                                                                         *)
(* A Sub belongs to one connection and is named after it; a Pubsub is named *)
(* after its connection and its number there. An event is its position in   *)
(* its publication, which is also its timestamp, counted from 0.            *)
(***************************************************************************)
EXTENDS Integers, Sequences, FiniteSets

CONSTANTS
  Conns,            \* connections, each with its Handler
  Publishers,       \* bound: the connections that may send publish
  Players,          \* bound: the connections that may send play
  Channels,         \* names a player asks for
  Keys,             \* publishing names
  NoKey, NoPubsub,  \* nothing found
  MaxPublications,  \* bound: publications of all connections
  MaxEvents,        \* bound: events of all publications
  Modulus           \* timestamps are uint32: 2^32, or any larger than MaxEvents

Pubsubs == Conns \X (1 .. MaxPublications)
Kinds   == {"audio", "header", "key", "inter"}  \* "audio" stands for script data too

ASSUME ConstantsAssumption ==
  /\ Publishers \subseteq Conns
  /\ Players \subseteq Conns
  /\ NoKey \notin Keys
  /\ NoPubsub \notin Pubsubs
  /\ MaxPublications \in Nat
  /\ MaxEvents \in Nat
  /\ Modulus \in Nat /\ Modulus > 2 * MaxEvents

VARIABLES
  cache,          \* Cache.store: the key of a channel
  streams,        \* RelayService.streams: the Pubsub of a key
  pc,             \* where each connection's goroutine is
  count,          \* publications of a connection; h.pub is the last one's
  name,           \* Pubsub.name
  subs,           \* Pubsub.subs
  log,            \* the kinds of the events published so far
  avcSeqHeader,   \* Pub.avcSeqHeader and Pub.lastKeyFrame, 0 when nil
  lastKeyFrame,
  rest,           \* Publish: the subscribers its range loop has yet to reach
  target,         \* the Pubsub a player found
  callback,       \* Subs with an eventCallback
  initialized,    \* Subs with the flag set
  closed,         \* Subs with the flag set
  lastTimestamp,  \* Sub.lastTimestamp
  got             \* what each Sub's callback was given

pubVars == <<name, log, avcSeqHeader, lastKeyFrame>>
subVars == <<initialized, lastTimestamp, got>>
vars == <<cache, streams, pc, count, name, subs, log, avcSeqHeader, lastKeyFrame,
          rest, target, callback, initialized, closed, lastTimestamp, got>>

Delivery == [event : Nat, stamp : Nat, live : BOOLEAN]

\* Types of the registry, the connections' Handlers and the subscriptions
\* (RelayService, Pubsub, Sub, Handler).
TypeOK ==
  /\ cache \in [Channels -> Keys \cup {NoKey}]
  /\ streams \in [Keys -> Pubsubs \cup {NoPubsub}]
  /\ pc \in [Conns -> {"ready", "sub", "callback", "publish", "closing", "closed"}]
  /\ count \in [Conns -> 0 .. MaxPublications]
  /\ name \in [Pubsubs -> Keys \cup {NoKey}]
  /\ subs \in [Pubsubs -> Seq(Conns)]
  /\ log \in [Pubsubs -> Seq(Kinds)]
  /\ avcSeqHeader \in [Pubsubs -> Nat]
  /\ lastKeyFrame \in [Pubsubs -> Nat]
  /\ rest \in [Conns -> Seq(Conns)]
  /\ target \in [Conns -> Pubsubs \cup {NoPubsub}]
  /\ callback \subseteq Conns
  /\ initialized \subseteq Conns
  /\ closed \subseteq Conns
  /\ lastTimestamp \in [Conns -> Nat]
  /\ got \in [Conns -> Seq(Delivery)]

Init ==
  /\ cache = [ch \in Channels |-> NoKey]
  /\ streams = [k \in Keys |-> NoPubsub]
  /\ pc = [c \in Conns |-> "ready"]
  /\ count = [c \in Conns |-> 0]
  /\ name = [p \in Pubsubs |-> NoKey]
  /\ subs = [p \in Pubsubs |-> <<>>]
  /\ log = [p \in Pubsubs |-> <<>>]
  /\ avcSeqHeader = [p \in Pubsubs |-> 0]
  /\ lastKeyFrame = [p \in Pubsubs |-> 0]
  /\ rest = [c \in Conns |-> <<>>]
  /\ target = [c \in Conns |-> NoPubsub]
  /\ callback = {} /\ initialized = {} /\ closed = {}
  /\ lastTimestamp = [c \in Conns |-> 0]
  /\ got = [c \in Conns |-> <<>>]

Goto(c, l) == pc' = [pc EXCEPT ![c] = l]

\* h.pub.pb of a connection that has published, h.sub # nil of one that plays.
Pub(c)  == <<c, count[c]>>
Plays(c) == target[c] # NoPubsub

Elements(s) == {s[i] : i \in DOMAIN s}

-----------------------------------------------------------------------------
(* Keys, publishing and playing. *)

\* A request for /data?channel=ch gives the channel a random key, also when
\* it has one: a key in use is never drawn again.
SetKey(ch, k) ==
  /\ streams[k] = NoPubsub
  /\ \A other \in Channels : cache[other] # k
  /\ cache' = [cache EXCEPT ![ch] = k]
  /\ UNCHANGED <<streams, pc, count, subs, rest, target, callback, closed, pubVars, subVars>>

MayRegister(c) ==
  /\ count[c] < MaxPublications
  /\ Cardinality({p \in Pubsubs : name[p] # NoKey}) < MaxPublications

\* NewPubsub's check, under the registry's lock.
FreeMutant(k) == TRUE   \* mutant: "Already published" is not checked

Free(k) == streams[k] = NoPubsub

\* OnPublish registers a new Pubsub; a second publish command of the
\* connection (on another message stream) replaces h.pub.
OnPublish(c, k) ==
  /\ pc[c] = "ready" /\ ~Plays(c)
  /\ MayRegister(c)
  /\ Free(k)
  /\ count' = [count EXCEPT ![c] = @ + 1]
  /\ name' = [name EXCEPT ![<<c, count[c] + 1>>] = k]
  /\ streams' = [streams EXCEPT ![k] = <<c, count[c] + 1>>]
  /\ UNCHANGED <<cache, pc, subs, rest, target, callback, closed, subVars>>
  /\ UNCHANGED <<log, avcSeqHeader, lastKeyFrame>>

\* An error of OnPublish or OnPlay ends the connection.
OnPublishRejected(c, k) ==
  /\ pc[c] = "ready"
  /\ Plays(c) \/ ~Free(k)
  /\ Goto(c, "closing")
  /\ UNCHANGED <<cache, streams, count, subs, rest, target, callback, closed, pubVars, subVars>>

\* OnPlay looks for the Pubsub of the channel's key,
Found(ch) == cache[ch] # NoKey /\ streams[cache[ch]] # NoPubsub

OnPlay(c, ch) ==
  /\ pc[c] = "ready" /\ ~Plays(c)
  /\ Found(ch)
  /\ target' = [target EXCEPT ![c] = streams[cache[ch]]]
  /\ Goto(c, "sub")
  /\ UNCHANGED <<cache, streams, count, subs, rest, callback, closed, pubVars, subVars>>

OnPlayRejected(c, ch) ==
  /\ pc[c] = "ready"
  /\ Plays(c) \/ ~Found(ch)
  /\ Goto(c, "closing")
  /\ UNCHANGED <<cache, streams, count, subs, rest, target, callback, closed, pubVars, subVars>>

\* adds a Sub to it, whether or not it is still registered,
Sub(c) ==
  /\ pc[c] = "sub"
  /\ subs' = [subs EXCEPT ![target[c]] = Append(@, c)]
  /\ Goto(c, "callback")
  /\ UNCHANGED <<cache, streams, count, rest, target, callback, closed, pubVars, subVars>>

\* and only then sets the Sub's callback.
SetEventCallback(c) ==
  /\ pc[c] = "callback"
  /\ callback' = callback \cup {c}
  /\ Goto(c, "ready")
  /\ UNCHANGED <<cache, streams, count, subs, rest, target, closed, pubVars, subVars>>

-----------------------------------------------------------------------------
(* Publishing events. *)

\* What an encoder sends (external): the sequence header before other
\* video, and a key frame before frames that refer to it.
Sends(p, kind) ==
  LET sent == Elements(log[p])
  IN  CASE kind = "header" -> "header" \notin sent
        [] kind = "key"    -> "header" \in sent
        [] kind = "inter"  -> "key" \in sent
        [] OTHER           -> TRUE

MayPublish ==
  Cardinality({e \in Pubsubs \X (1 .. MaxEvents) : e[2] <= Len(log[e[1]])}) < MaxEvents

\* Publish keeps a sequence header and a key frame for the Subs to come (a
\* sequence header has the frame type of one).
KeptMutant(kind) ==   \* mutant: a header is only kept as a key frame
  IF kind \in {"header", "key"} THEN {"key"} ELSE {}

Kept(kind) ==
  CASE kind = "header" -> {"header", "key"}
    [] kind = "key"    -> {"key"}
    [] OTHER           -> {}

\* Publish evaluates p.pb.subs once, without the lock.
Publish(c, kind) ==
  /\ pc[c] = "ready" /\ count[c] > 0
  /\ MayPublish
  /\ Sends(Pub(c), kind)
  /\ LET i == Len(log[Pub(c)]) + 1
     IN  /\ avcSeqHeader' =
              [avcSeqHeader EXCEPT ![Pub(c)] = IF "header" \in Kept(kind) THEN i ELSE @]
         /\ lastKeyFrame' =
              [lastKeyFrame EXCEPT ![Pub(c)] = IF "key" \in Kept(kind) THEN i ELSE @]
  /\ log' = [log EXCEPT ![Pub(c)] = Append(@, kind)]
  /\ rest' = [rest EXCEPT ![c] = subs[Pub(c)]]
  /\ Goto(c, "publish")
  /\ UNCHANGED <<cache, streams, count, name, subs, target, callback, closed, subVars>>

\* onEvent takes the first timestamp that is not 0 as the Sub's origin.
OriginMutant(l, i) == IF l = 0 THEN i ELSE l   \* mutant: one too late

Origin(l, i) == IF l = 0 THEN i - 1 ELSE l

StampedMutant(l, i, live) ==   \* mutant: signed arithmetic
  [event |-> i, stamp |-> i - 1 - Origin(l, i), live |-> live]

Stamped(l, i, live) ==
  [event |-> i, stamp |-> (i - 1 - Origin(l, i)) % Modulus, live |-> live]

\* A video event that finds the Sub not initialized is replaced by the last
\* sequence header and the last key frame.
Replays(c, s) ==
  log[Pub(c)][Len(log[Pub(c)])] # "audio" /\ s \notin initialized

NotNil(i) == IF i = 0 THEN <<>> ELSE <<i>>

\* What onEvent is called with for a Sub; it does nothing for a closed one.
Given(c, s) ==
  IF s \in closed THEN <<>>
  ELSE IF Replays(c, s) THEN NotNil(avcSeqHeader[Pub(c)]) \o NotNil(lastKeyFrame[Pub(c)])
  ELSE <<Len(log[Pub(c)])>>

\* onEvent, on a Sub's origin and what its callback was given.
OnEvent(sub, i, live) ==
  [origin |-> Origin(sub.origin, i),
   got    |-> Append(sub.got, Stamped(sub.origin, i, live))]

\* The Subs the loop goes on with.
RemainingMutant(c) ==   \* mutant: the loop ends at a closed Sub
  IF Head(rest[c]) \in closed THEN <<>> ELSE Tail(rest[c])

BreakMutant(c) ==   \* mutant: break for continue
  IF Replays(c, Head(rest[c])) THEN <<>> ELSE Tail(rest[c])

Remaining(c) == Tail(rest[c])

\* One turn of the loop over the Subs.
Deliver(c) ==
  /\ pc[c] = "publish" /\ rest[c] # <<>>
  /\ LET s    == Head(rest[c])
         g    == Given(c, s)
         live == ~Replays(c, s)
         sub  == [origin |-> lastTimestamp[s], got |-> got[s]]
         next == CASE Len(g) = 0 -> sub
                   [] Len(g) = 1 -> OnEvent(sub, g[1], live)
                   [] Len(g) = 2 -> OnEvent(OnEvent(sub, g[1], live), g[2], live)
     IN  /\ g = <<>> \/ s \in callback
         /\ lastTimestamp' = [lastTimestamp EXCEPT ![s] = next.origin]
         /\ got' = [got EXCEPT ![s] = next.got]
         /\ initialized' = IF Replays(c, s) THEN initialized \cup {s} ELSE initialized
  /\ rest' = [rest EXCEPT ![c] = Remaining(c)]
  /\ UNCHANGED <<cache, streams, pc, count, subs, target, callback, closed, pubVars>>

\* A nil callback is called: the panic ends the publisher's connection.
CallNil(c) ==
  /\ pc[c] = "publish" /\ rest[c] # <<>>
  /\ LET s == Head(rest[c])
     IN  /\ Given(c, s) # <<>> /\ s \notin callback
         /\ lastTimestamp' = [lastTimestamp EXCEPT ![s] = Origin(@, Given(c, s)[1])]
  /\ rest' = [rest EXCEPT ![c] = <<>>]
  /\ Goto(c, "closing")
  /\ UNCHANGED <<cache, streams, count, subs, target, callback, closed, pubVars>>
  /\ UNCHANGED <<initialized, got>>

PublishReturns(c) ==
  /\ pc[c] = "publish" /\ rest[c] = <<>>
  /\ Goto(c, "ready")
  /\ UNCHANGED <<cache, streams, count, subs, rest, target, callback, closed, pubVars, subVars>>

-----------------------------------------------------------------------------
(* The end of a connection. *)

\* Reading fails: the peer is gone, or sent what the library rejects.
Disconnect(c) ==
  /\ pc[c] = "ready"
  /\ Goto(c, "closing")
  /\ UNCHANGED <<cache, streams, count, subs, rest, target, callback, closed, pubVars, subVars>>

\* Deregister removes the Pubsub from the registry by its name.
RemovePubsubMutant(c) ==   \* mutant: only where it had a subscriber
  IF count[c] > 0 /\ subs[Pub(c)] # <<>> THEN [streams EXCEPT ![name[Pub(c)]] = NoPubsub]
                                         ELSE streams

RemovePubsub(c) ==
  IF count[c] > 0 THEN [streams EXCEPT ![name[Pub(c)]] = NoPubsub] ELSE streams

\* OnClose: the Subs of the connection's Pubsub are closed, the Pubsub is
\* removed, and the connection's own Sub is closed.
OnClose(c) ==
  /\ pc[c] = "closing"
  /\ closed' = closed
       \cup (IF count[c] > 0 THEN Elements(subs[Pub(c)]) ELSE {})
       \cup (IF Plays(c) THEN {c} ELSE {})
  /\ streams' = RemovePubsub(c)
  /\ Goto(c, "closed")
  /\ UNCHANGED <<cache, count, subs, rest, target, callback, pubVars, subVars>>

-----------------------------------------------------------------------------

Next ==
  \/ \E ch \in Channels, k \in Keys : SetKey(ch, k)
  \/ \E c \in Publishers :
       \/ \E k \in Keys : OnPublish(c, k) \/ OnPublishRejected(c, k)
       \/ \E kind \in Kinds : Publish(c, kind)
  \/ \E c \in Players, ch \in Channels : OnPlay(c, ch) \/ OnPlayRejected(c, ch)
  \/ \E c \in Conns :
       \/ Sub(c) \/ SetEventCallback(c)
       \/ Deliver(c) \/ CallNil(c) \/ PublishReturns(c)
       \/ Disconnect(c) \/ OnClose(c)

Spec == Init /\ [][Next]_vars

-----------------------------------------------------------------------------
(* Properties *)

\* A key never stays taken by a connection that is gone: what a closed
\* connection leaves registered are only publications that a second publish
\* command of its own had replaced in h.pub (handler.go:61).
PublishedHasPublisher ==
  \A k \in Keys : \A p \in Pubsubs :
    streams[k] = p => /\ name[p] = k
                      /\ pc[p[1]] = "closed" => p[2] < count[p[1]]

\* A registered Pubsub is never replaced, and it is removed only when its own
\* connection closes: RemovePubsub, which goes by the name, never takes away
\* another publisher's (relay_service.go:47).
RemovesOwn ==
  [][\A k \in Keys : \A c \in Conns : \A n \in 1 .. MaxPublications :
       streams[k] = <<c, n>> /\ streams'[k] # <<c, n>> =>
         streams'[k] = NoPubsub /\ pc[c] = "closing" /\ n = count[c]]_vars

\* A player misses nothing: of two events it is given in a row, with no replay
\* between, the second follows the first in the publication (pubsub.go:74, 88).
NoGap ==
  \A s \in Conns : \A j \in 2 .. Len(got[s]) :
    got[s][j - 1].live /\ got[s][j].live => got[s][j].event = got[s][j - 1].event + 1

\* When Publish has returned every open Sub that has been given something has
\* been given the newest event, or just its replays in place of it: no other
\* Sub's end makes the loop leave one out (pubsub.go:74, 88).
UpToDate ==
  \A c \in Conns : pc[c] = "ready" /\ count[c] > 0 =>
    \A s \in Elements(subs[Pub(c)]) \ closed :
      LET last == got[s][Len(got[s])]
      IN  got[s] # <<>> /\ last.live => last.event = Len(log[Pub(c)])

\* A player can decode what it is given, whenever it joins: before the first
\* frame that refers to others it gets a sequence header and a key frame
\* (pubsub.go:90).
KeyFirst ==
  \A s \in Conns : \A j \in 1 .. Len(got[s]) :
    LET kind(i) == log[target[s]][got[s][i].event]
    IN  kind(j) = "inter" =>
          /\ \E i \in 1 .. j - 1 : kind(i) = "header"
          /\ \E i \in 1 .. j - 1 : kind(i) = "key"

\* The timestamps a player is given with the publication's events go forward
\* and never wrap, whatever Publish replayed to it before (pubsub.go:127).
ClockForward ==
  \A s \in Conns : \A i, j \in 1 .. Len(got[s]) :
    i <= j /\ got[s][i].live /\ got[s][j].live =>
      /\ got[s][i].stamp <= got[s][j].stamp
      /\ got[s][j].stamp <= MaxEvents

=============================================================================
