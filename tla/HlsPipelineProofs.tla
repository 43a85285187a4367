------------------------- MODULE HlsPipelineProofs -------------------------
(* Proofs about the converter and the HLS server, for any number of channels. *)
EXTENDS HlsPipeline, FiniteSetTheorems, TLAPS

\* TypeOK with counts of any size.
Shape ==
  /\ streamer \in [Channels -> {"idle", "named", "live", "gone"}]
  /\ channel \in Names
  /\ start \in [Channels -> {"none", "sent", "started", "download", "ffmpeg", "running", "done"}]
  /\ said \in [Channels -> Names]
  /\ loaded \in [Channels -> Names]
  /\ call \in [Channels -> {"none", "sent", "playing", "handle", "listen", "serves", "failed"}]
  /\ hlsUp \in BOOLEAN /\ handled \in BOOLEAN
  /\ serving \in Names
  /\ viewerCounts \in [Channels -> Nat]
  /\ disturbed \subseteq Channels

ConvEvents == [type : {"started", "ready", "stopped"}, channel : Names]
HlsEvents  == [type : {"joined"}, channel : Channels, count : Nat]
                \cup [type : {"playing"}, channel : Channels]

Logs == events \in Seq(ConvEvents) /\ hlsEvents \in Seq(HlsEvents)

\* A download belongs to a streamer that has published, a request to the HLS
\* server to a download, and only one with a channel is dealt with.
Begun ==
  \A c \in Channels :
    /\ start[c] # "none" => streamer[c] \in {"live", "gone"}
    /\ call[c] # "none" => start[c] \notin {"none", "sent", "started", "download"}
    /\ call[c] \notin {"none", "sent", "failed"} => loaded[c] \in Channels

\* The global is the channel of every streamer that relies on it undisturbed.
Kept == \A c \in Channels \ disturbed : Relies(c) => channel = c

\* The requests that have been counted for channel c.
Counted(c) == {d \in Channels : call[d] \notin {"none", "sent"} /\ loaded[d] = c}

CountsRight == \A c \in Channels : viewerCounts[c] = Cardinality(Counted(c))

\* No count announced is beyond the count of now.
Announced ==
  \A i \in 1 .. Len(hlsEvents) :
    hlsEvents[i].type = "joined" => hlsEvents[i].count <= viewerCounts[hlsEvents[i].channel]

\* What the relay and the converter do, and what the HLS server does.
ConvInv == Shape /\ Begun /\ Kept /\ OwnStream
IInv    == ConvInv /\ Logs /\ CountsRight /\ Announced /\ JoinsInOrder

-----------------------------------------------------------------------------

\* Nothing has been named, asked for or announced.
LEMMA InitInv == Init => IInv
<1> SUFFICES ASSUME Init PROVE IInv
  OBVIOUS
<1>1. ConvInv
  BY DEF Init, ConvInv, Shape, Names, Begun, Kept, OwnStream, Relies
<1>2. Logs
  BY DEF Init, Logs
<1>3. \A c \in Channels : Counted(c) = {}
  BY DEF Init, Counted
<1>4. CountsRight
  BY <1>3, FS_EmptySet DEF Init, CountsRight
<1>5. Announced /\ JoinsInOrder
  BY DEF Init, Announced, JoinsInOrder
<1> QED BY <1>1, <1>2, <1>4, <1>5 DEF IInv

\* The types, the global and the own streams, step by step: whoever relies on
\* the global when another request assigns it is disturbed from then on.
LEMMA NameChannelStep ==
  ASSUME ConvInv, NEW c \in Channels, NameChannel(c) \/ NamingFails(c)
  PROVE  ConvInv'
<1> USE ConstantsAssumption
    DEF ConvInv, NameChannel, NamingFails, AssignChannel, hlsVars, convVars, Names
<1>1. Shape'
  BY DEF Shape
<1>2. Begun'
  BY DEF Shape, Begun
<1>3. Kept'
  BY DEF Shape, Kept, Relies
<1>4. OwnStream'
  BY DEF Shape, OwnStream
<1> QED BY <1>1, <1>2, <1>3, <1>4

\* The same when the request has no channel.
LEMMA AskStep ==
  ASSUME ConvInv, AskWithoutChannel
  PROVE  ConvInv'
<1> USE DEF ConvInv, AskWithoutChannel, AssignChannel, hlsVars, Names
<1>1. Shape'
  BY DEF Shape
<1>2. Begun'
  BY DEF Shape, Begun
<1>3. Kept'
  BY DEF Shape, Kept, Relies
<1>4. OwnStream'
  BY DEF Shape, OwnStream
<1> QED BY <1>1, <1>2, <1>3, <1>4

\* Publishing and leaving name no channel.
LEMMA StreamerStep ==
  ASSUME ConvInv, NEW c \in Channels, Publish(c) \/ Leave(c)
  PROVE  ConvInv'
<1> USE DEF ConvInv, Publish, Leave, hlsVars, convVars
<1>1. Shape'
  BY DEF Shape
<1>2. Begun'
  BY DEF Shape, Begun
<1>3. Kept'
  BY DEF Shape, Kept, Relies
<1>4. OwnStream'
  BY DEF Shape, OwnStream
<1> QED BY <1>1, <1>2, <1>3, <1>4

\* The channel announced is the one the streamer relies on,
LEMMA AnnounceStartStep ==
  ASSUME ConvInv, NEW c \in Channels, AnnounceStart(c)
  PROVE  ConvInv'
<1> USE DEF ConvInv, AnnounceStart, relayVars, hlsVars
<1>1. Shape'
  BY DEF Shape
<1>2. Begun'
  BY DEF Shape, Begun
<1>3. Kept'
  BY DEF Shape, Kept, Relies
<1>4. OwnStream'
  <2>1. c \notin disturbed => channel = c
    BY DEF Kept, Relies
  <2> QED BY <2>1 DEF Shape, OwnStream
<1> QED BY <1>1, <1>2, <1>3, <1>4

\* and so is the channel downloaded.
LEMMA StartDownloadStep ==
  ASSUME ConvInv, NEW c \in Channels, StartDownload(c)
  PROVE  ConvInv'
<1> USE ConstantsAssumption DEF ConvInv, StartDownload, relayVars, hlsVars
<1>1. Shape'
  BY DEF Shape
<1>2. Begun'
  BY DEF Shape, Begun
<1>3. Kept'
  BY DEF Shape, Kept, Relies
<1>4. OwnStream'
  <2>1. c \notin disturbed => channel = c
    BY DEF Kept, Relies
  <2> QED BY <2>1 DEF Shape, OwnStream
<1> QED BY <1>1, <1>2, <1>3, <1>4

\* After that the download reads its own channel only.
LEMMA DownloadStep ==
  ASSUME ConvInv, NEW c \in Channels,
         MkdirFails(c) \/ AnnounceReady(c) \/ RunFfmpeg(c) \/ AnnounceStop(c)
  PROVE  ConvInv'
<1> USE DEF ConvInv, relayVars, hlsVars
<1>1. /\ UNCHANGED <<streamer, disturbed, channel, said, loaded,
                     hlsUp, handled, serving, viewerCounts>>
      /\ start[c] \notin {"none", "sent", "started"}
      /\ \E l \in {"ffmpeg", "running", "done"} : start' = [start EXCEPT ![c] = l]
      /\ call' = call \/ call' = [call EXCEPT ![c] = "sent"]
  <2>1. CASE MkdirFails(c)
    BY <2>1 DEF MkdirFails
  <2>2. CASE AnnounceReady(c)
    BY <2>2 DEF AnnounceReady
  <2>3. CASE RunFfmpeg(c)
    BY <2>3 DEF RunFfmpeg
  <2>4. CASE AnnounceStop(c)
    BY <2>4 DEF AnnounceStop
  <2> QED BY <2>1, <2>2, <2>3, <2>4
<1>2. Shape'
  <2>1. /\ call' \in [Channels -> {"none", "sent", "playing", "handle", "listen", "serves", "failed"}]
        /\ start' \in [Channels -> {"none", "sent", "started", "download", "ffmpeg", "running", "done"}]
    BY <1>1 DEF Shape
  <2> QED BY <2>1, <1>1 DEF Shape
<1>3. Begun'
  BY <1>1 DEF Shape, Begun
<1>4. Kept'
  BY <1>1 DEF Shape, Kept, Relies
<1>5. OwnStream'
  BY <1>1 DEF Shape, OwnStream
<1> QED BY <1>2, <1>3, <1>4, <1>5

\* The HLS server only moves its own requests, none of which is new.
LEMMA HlsStep ==
  ASSUME ConvInv, NEW c \in Channels, Hls(c)
  PROVE  ConvInv'
<1> USE DEF ConvInv, Ded, DedWithoutChannel, IncrementViewer, AnnouncePlaying, HandleRoot,
            HandleRootPanics, ListenAndServe, relayVars, convVars
<1>1. UNCHANGED <<streamer, disturbed, channel, start, said, loaded, events>>
  BY DEF Hls
<1>2. \A d \in Channels : call'[d] # "none" => call[d] # "none"
  BY DEF Hls, Shape
<1>3. /\ call[c] # "none" /\ loaded[c] \in Names
      /\ ~DedWithoutChannel(c) => loaded[c] \in Channels
  BY DEF Hls, Begun, Shape, Names
<1>4. Shape'
  <2>1. CASE Ded(c)
    BY <2>1, <1>3 DEF Shape
  <2>2. CASE DedWithoutChannel(c) \/ AnnouncePlaying(c) \/ HandleRoot(c)
    BY <2>2 DEF Shape
  <2>3. CASE HandleRootPanics(c)
    BY <2>3 DEF Shape, Names
  <2>4. CASE ListenAndServe(c)
    BY <2>4, <1>3 DEF Shape
  <2> QED BY <2>1, <2>2, <2>3, <2>4 DEF Hls
<1>5. Begun'
  <2>1. \A d \in Channels : call'[d] \notin {"none", "sent", "failed"} => loaded[d] \in Channels
    BY <1>3, <1>4 DEF Hls, Shape, Begun
  <2> QED BY <1>1, <1>2, <2>1 DEF Begun
<1>6. Kept' /\ OwnStream'
  BY <1>1 DEF Kept, OwnStream, Relies
<1> QED BY <1>4, <1>5, <1>6

\* Every step, and every stutter, keeps the invariant of relay and converter.
LEMMA ConvNext == ConvInv /\ [Next]_vars => ConvInv'
<1>1. ASSUME ConvInv, NEW c \in Channels,
             \/ NameChannel(c) \/ NamingFails(c) \/ Publish(c) \/ Leave(c)
             \/ Download(c) \/ AnnounceStop(c) \/ Hls(c)
      PROVE  ConvInv'
  BY <1>1, NameChannelStep, StreamerStep, AnnounceStartStep, StartDownloadStep, DownloadStep, HlsStep
  DEF Download
<1>2. ASSUME ConvInv, AskWithoutChannel PROVE ConvInv'
  BY <1>2, AskStep
<1>3. ASSUME ConvInv, UNCHANGED vars PROVE ConvInv'
  BY <1>3 DEF ConvInv, Shape, Begun, Kept, OwnStream, Relies, vars, relayVars, convVars, hlsVars
<1> QED BY <1>1, <1>2, <1>3 DEF Next

-----------------------------------------------------------------------------

\* A step that counts no request keeps the counts and what was announced.
LEMMA UncountedStep ==
  ASSUME IInv, UNCHANGED viewerCounts,
         \A d \in Channels :
           /\ call'[d] \in {"none", "sent"} <=> call[d] \in {"none", "sent"}
           /\ call[d] \notin {"none", "sent"} => loaded'[d] = loaded[d]
  PROVE  CountsRight'
<1>1. \A c \in Channels : Counted(c)' = Counted(c)
  BY DEF Counted
<1> QED BY <1>1 DEF IInv, CountsRight

\* Relay and converter touch neither counts nor their announcements, and their
\* own announcements name a channel.
LEMMA RelayConvStep ==
  ASSUME IInv, ConvInv', NEW c \in Channels,
         \/ NameChannel(c) \/ NamingFails(c) \/ Publish(c) \/ Leave(c)
         \/ Download(c) \/ AnnounceStop(c)
  PROVE  IInv'
<1> USE DEF NameChannel, NamingFails, AssignChannel, Publish, Leave, AnnounceStart,
            StartDownload, MkdirFails, AnnounceReady, RunFfmpeg, AnnounceStop, relayVars, convVars, hlsVars
<1>1. UNCHANGED <<viewerCounts, hlsEvents>>
  BY DEF Download
<1>2. Announced' /\ JoinsInOrder'
  BY <1>1 DEF IInv, Announced, JoinsInOrder
<1>3. CountsRight'
  <2>1. \A d \in Channels :
          /\ call'[d] \in {"none", "sent"} <=> call[d] \in {"none", "sent"}
          /\ call[d] \notin {"none", "sent"} => loaded'[d] = loaded[d]
    BY DEF IInv, ConvInv, Shape, Begun, Download
  <2> QED BY <2>1, <1>1, UncountedStep
<1>4. Logs'
  <2>1. CASE events' = events
    BY <2>1, <1>1 DEF IInv, Logs
  <2>2. CASE \E t \in {"started", "ready", "stopped"}, d \in Names :
               events' = Append(events, Event(t, d))
    <3> PICK t \in {"started", "ready", "stopped"}, d \in Names :
               events' = Append(events, Event(t, d))
      BY <2>2
    <3>1. Event(t, d) \in ConvEvents
      BY DEF Event, ConvEvents
    <3> HIDE DEF NameChannel
    <3> QED BY <3>1, <1>1 DEF IInv, Logs
  <2>3. channel \in Names /\ loaded[c] \in Names
    BY DEF IInv, ConvInv, Shape
  <2> QED BY <2>1, <2>2, <2>3 DEF Download
<1> QED BY <1>2, <1>3, <1>4 DEF IInv

\* A request is counted once, and its count announced.
LEMMA DedStep ==
  ASSUME IInv, ConvInv', NEW c \in Channels, Ded(c)
  PROVE  IInv'
<1> DEFINE h == loaded[c]
           e == Joined(h, viewerCounts[h] + 1)
<1>1. h \in Channels /\ call[c] = "sent"
  BY DEF Ded, IInv, ConvInv, Shape, Names
<1>2. /\ viewerCounts' = [viewerCounts EXCEPT ![h] = @ + 1]
      /\ hlsEvents' = Append(hlsEvents, e)
      /\ call' = [call EXCEPT ![c] = "playing"]
      /\ UNCHANGED <<loaded, events>>
  BY DEF Ded, IncrementViewer, convVars
<1>3. viewerCounts \in [Channels -> Nat] /\ hlsEvents \in Seq(HlsEvents)
      /\ call \in [Channels -> {"none", "sent", "playing", "handle", "listen", "serves", "failed"}]
  BY DEF IInv, ConvInv, Shape, Logs
<1>4. e \in HlsEvents /\ e.type = "joined" /\ e.channel = h /\ e.count = viewerCounts[h] + 1
  BY <1>1, <1>3 DEF Joined, HlsEvents
<1> HIDE DEF h, e
<1>5. Logs'
  BY <1>2, <1>3, <1>4 DEF IInv, Logs
<1>6. CountsRight'
  <2> SUFFICES ASSUME NEW d \in Channels PROVE viewerCounts'[d] = Cardinality(Counted(d)')
    BY DEF CountsRight
  <2>1. viewerCounts[d] = Cardinality(Counted(d))
    BY DEF IInv, CountsRight
  <2>2. CASE d = h
    <3>1. Counted(d)' = Counted(d) \cup {c} /\ c \notin Counted(d)
      BY <2>2, <1>1, <1>2, <1>3 DEF Counted, h
    <3>2. IsFiniteSet(Counted(d))
      BY ConstantsAssumption, FS_Subset DEF Counted
    <3>3. Cardinality(Counted(d)') = Cardinality(Counted(d)) + 1
      BY <3>1, <3>2, FS_AddElement
    <3> QED BY <3>3, <2>1, <2>2, <1>1, <1>2, <1>3
  <2>3. CASE d # h
    <3>1. Counted(d)' = Counted(d)
      BY <2>3, <1>1, <1>2, <1>3 DEF Counted, h
    <3> QED BY <3>1, <2>1, <2>3, <1>1, <1>2, <1>3
  <2> QED BY <2>2, <2>3
<1>7. \A i \in 1 .. Len(hlsEvents) : hlsEvents[i].type = "joined" =>
        hlsEvents[i].count \in Nat /\ hlsEvents[i].channel \in Channels
  <2> SUFFICES ASSUME NEW i \in 1 .. Len(hlsEvents), hlsEvents[i].type = "joined"
               PROVE  hlsEvents[i].count \in Nat /\ hlsEvents[i].channel \in Channels
    OBVIOUS
  <2>1. hlsEvents[i] \in HlsEvents
    BY <1>3
  <2> QED BY <2>1 DEF HlsEvents
<1>8. /\ Len(hlsEvents') = Len(hlsEvents) + 1 /\ hlsEvents'[Len(hlsEvents) + 1] = e
      /\ \A i \in 1 .. Len(hlsEvents) : hlsEvents'[i] = hlsEvents[i]
      /\ Len(hlsEvents) \in Nat
  BY <1>2, <1>3, <1>4
<1>9. Announced'
  BY <1>1, <1>2, <1>3, <1>4, <1>7, <1>8 DEF IInv, Announced
<1>10. JoinsInOrder'
  <2> SUFFICES ASSUME NEW i \in 1 .. Len(hlsEvents'), NEW j \in 1 .. Len(hlsEvents'), i < j,
                      hlsEvents'[i].type = "joined", hlsEvents'[j].type = "joined",
                      hlsEvents'[i].channel = hlsEvents'[j].channel
               PROVE  hlsEvents'[i].count < hlsEvents'[j].count
    BY DEF JoinsInOrder
  <2>1. i \in 1 .. Len(hlsEvents)
    BY <1>8
  <2>2. CASE j = Len(hlsEvents) + 1
    <3>1. hlsEvents'[j] = e /\ hlsEvents'[i] = hlsEvents[i]
      BY <2>1, <2>2, <1>8
    <3>2. /\ hlsEvents[i].type = "joined" /\ hlsEvents[i].channel = h
          /\ hlsEvents[i].count \in Nat
      BY <2>1, <3>1, <1>4, <1>7
    <3>3. hlsEvents[i].count <= viewerCounts[h]
      BY <2>1, <3>2 DEF IInv, Announced
    <3> QED BY <3>1, <3>2, <3>3, <1>1, <1>3, <1>4
  <2>3. CASE j # Len(hlsEvents) + 1
    BY <2>1, <2>3, <1>8 DEF IInv, JoinsInOrder
  <2> QED BY <2>2, <2>3
<1> QED BY <1>5, <1>6, <1>9, <1>10 DEF IInv

\* An announcement that is no count changes nothing for the counts.
LEMMA PlayingStep ==
  ASSUME IInv, ConvInv', NEW c \in Channels, AnnouncePlaying(c)
  PROVE  IInv'
<1> DEFINE e == Event("playing", loaded[c])
<1>1. /\ hlsEvents' = Append(hlsEvents, e) /\ call[c] = "playing"
      /\ call' = [call EXCEPT ![c] = "handle"]
      /\ UNCHANGED <<loaded, events, viewerCounts>>
  BY DEF AnnouncePlaying, convVars
<1>2. hlsEvents \in Seq(HlsEvents)
      /\ call \in [Channels -> {"none", "sent", "playing", "handle", "listen", "serves", "failed"}]
  BY DEF IInv, ConvInv, Shape, Logs
<1>3. e \in HlsEvents /\ e.type = "playing"
  BY <1>1 DEF Event, HlsEvents, IInv, ConvInv, Begun
<1> HIDE DEF e
<1>4. /\ Len(hlsEvents') = Len(hlsEvents) + 1 /\ hlsEvents'[Len(hlsEvents) + 1] = e
      /\ \A i \in 1 .. Len(hlsEvents) : hlsEvents'[i] = hlsEvents[i]
      /\ Len(hlsEvents) \in Nat
  BY <1>1, <1>2, <1>3
<1>5. \A i \in 1 .. Len(hlsEvents') : hlsEvents'[i].type = "joined" =>
        i \in 1 .. Len(hlsEvents) /\ hlsEvents'[i] = hlsEvents[i]
  BY <1>3, <1>4
<1>6. Logs'
  BY <1>1, <1>2, <1>3 DEF IInv, Logs
<1>7. CountsRight'
  BY <1>1, <1>2, UncountedStep
<1>8. Announced' /\ JoinsInOrder'
  BY <1>1, <1>5 DEF IInv, Announced, JoinsInOrder
<1> QED BY <1>6, <1>7, <1>8 DEF IInv

\* Handlers and port do not either.
LEMMA ServeStep ==
  ASSUME IInv, ConvInv', NEW c \in Channels,
         HandleRoot(c) \/ HandleRootPanics(c) \/ ListenAndServe(c)
  PROVE  IInv'
<1>1. UNCHANGED <<viewerCounts, hlsEvents, events, loaded>>
  BY DEF HandleRoot, HandleRootPanics, ListenAndServe, convVars
<1>2. \A d \in Channels : call'[d] \in {"none", "sent"} <=> call[d] \in {"none", "sent"}
  BY DEF HandleRoot, HandleRootPanics, ListenAndServe, IInv, ConvInv, Shape
<1>3. CountsRight'
  BY <1>1, <1>2, UncountedStep
<1>4. Logs' /\ Announced' /\ JoinsInOrder'
  BY <1>1 DEF IInv, Logs, Announced, JoinsInOrder
<1> QED BY <1>3, <1>4 DEF IInv

\* A request without a channel counts for none.
LEMMA RefusedStep ==
  ASSUME IInv, ConvInv', NEW c \in Channels, DedWithoutChannel(c)
  PROVE  IInv'
<1>1. /\ UNCHANGED <<viewerCounts, hlsEvents, events, loaded>>
      /\ loaded[c] = None /\ call[c] = "sent" /\ call' = [call EXCEPT ![c] = "failed"]
      /\ DOMAIN call = Channels
  BY DEF DedWithoutChannel, convVars, IInv, ConvInv, Shape
<1>2. \A d \in Channels : Counted(d)' = Counted(d)
  BY <1>1, ConstantsAssumption DEF Counted
<1>3. CountsRight'
  BY <1>1, <1>2 DEF IInv, CountsRight
<1>4. Logs' /\ Announced' /\ JoinsInOrder'
  BY <1>1 DEF IInv, Logs, Announced, JoinsInOrder
<1> QED BY <1>3, <1>4 DEF IInv

\* Every step keeps the whole invariant.
LEMMA NextInv == IInv /\ [Next]_vars => IInv'
<1> SUFFICES ASSUME IInv, [Next]_vars PROVE IInv'
  OBVIOUS
<1>1. ConvInv'
  BY ConvNext DEF IInv
<1>2. CASE UNCHANGED vars
  <2>1. CountsRight'
    BY <1>2, UncountedStep DEF vars, convVars, hlsVars
  <2>2. Logs' /\ Announced' /\ JoinsInOrder'
    BY <1>2 DEF vars, convVars, hlsVars, IInv, Logs, Announced, JoinsInOrder
  <2> QED BY <1>1, <2>1, <2>2 DEF IInv
<1>3. ASSUME NEW c \in Channels,
             \/ NameChannel(c) \/ NamingFails(c) \/ Publish(c) \/ Leave(c)
             \/ Download(c) \/ AnnounceStop(c) \/ Hls(c)
      PROVE  IInv'
  BY <1>1, <1>3, RelayConvStep, DedStep, RefusedStep, PlayingStep, ServeStep DEF Hls
<1>4. CASE AskWithoutChannel
  <2>1. UNCHANGED <<call, loaded, viewerCounts, events, hlsEvents>>
    BY <1>4 DEF AskWithoutChannel, hlsVars
  <2>2. CountsRight'
    BY <2>1, UncountedStep
  <2>3. Logs' /\ Announced' /\ JoinsInOrder'
    BY <2>1 DEF IInv, Logs, Announced, JoinsInOrder
  <2> QED BY <1>1, <2>2, <2>3 DEF IInv
<1> QED BY <1>2, <1>3, <1>4 DEF Next

\* The counts are bounded by the number of channels: a request is counted once.
LEMMA InvTypes == IInv => TypeOK
<1> SUFFICES ASSUME IInv PROVE TypeOK
  OBVIOUS
<1>1. viewerCounts \in [Channels -> 0 .. Cardinality(Channels)]
  <2> SUFFICES ASSUME NEW c \in Channels PROVE viewerCounts[c] \in 0 .. Cardinality(Channels)
    BY DEF IInv, ConvInv, Shape
  <2>1. Counted(c) \in SUBSET Channels
    BY DEF Counted
  <2>2. Cardinality(Counted(c)) <= Cardinality(Channels)
    BY <2>1, ConstantsAssumption, FS_Subset
  <2>3. Cardinality(Channels) \in Nat
    BY ConstantsAssumption, FS_CardinalityType
  <2> QED BY <2>2, <2>3 DEF IInv, ConvInv, Shape, CountsRight
<1> QED BY <1>1 DEF IInv, ConvInv, Shape, Logs, ConvEvents, HlsEvents, TypeOK

\* The invariant holds in every behaviour.
LEMMA Invariant == Spec => []IInv
BY InitInv, NextInv, PTL DEF Spec

\* The types of the converter's and the HLS server's state, and that no
\* channel's count goes beyond the number of channels (both main.go).
THEOREM Typing == Spec => []TypeOK
BY Invariant, InvTypes, PTL

\* A streamer whose naming reached the converter, and in whose way no other
\* request assigned the global, has its own channel announced and downloaded,
\* however many others come and go before and after, with a channel or without
\* (cchls-integrated/main.go).
THEOREM OwnChannel == Spec => []OwnStream
<1>1. IInv => OwnStream
  BY DEF IInv, ConvInv
<1> QED BY <1>1, Invariant, PTL

\* The viewer counts announced for a channel grow, whatever requests overlap
\* (hlsnew-integrated/main.go, incrementViewer).
THEOREM CountsGrow == Spec => []JoinsInOrder
<1>1. IInv => JoinsInOrder
  BY DEF IInv
<1> QED BY <1>1, Invariant, PTL

-----------------------------------------------------------------------------
(* What the converter announces for a channel.                             *)

\* The downloads of channel c that have been announced ready and not stopped.
Converting(c) == {d \in Channels : loaded[d] = c /\ start[d] \in {"ffmpeg", "running"}}

\* How often an announcement has been made.
Number(type, c) == Count(type, c, Len(events))

Balance ==
  \A c \in Names : Number("ready", c) = Number("stopped", c) + Cardinality(Converting(c))

Followed ==
  \A c \in Names : \A k \in 1 .. Len(events) : Count("stopped", c, k) <= Count("ready", c, k)

BInv == IInv /\ Balance /\ Followed

\* Where a sequence holds x among its first k.
Where(s, x, k) == {i \in 1 .. k : s[i] = x}

\* There are finitely many such places.
LEMMA WhereFinite ==
  ASSUME NEW s, NEW x, NEW k \in Nat
  PROVE  IsFiniteSet(Where(s, x, k)) /\ Cardinality(Where(s, x, k)) \in Nat
<1>1. IsFiniteSet(1 .. k)
  BY FS_Interval
<1>2. Where(s, x, k) \in SUBSET (1 .. k)
  BY DEF Where
<1>3. IsFiniteSet(Where(s, x, k))
  BY <1>1, <1>2, FS_Subset
<1> QED BY <1>3, FS_CardinalityType

\* One more element adds one place where it is x, and leaves the others.
LEMMA WhereAppended ==
  ASSUME NEW S, NEW s \in Seq(S), NEW e \in S, NEW x
  PROVE  /\ \A k \in 0 .. Len(s) : Where(Append(s, e), x, k) = Where(s, x, k)
         /\ e # x => Where(Append(s, e), x, Len(s) + 1) = Where(s, x, Len(s))
         /\ e = x => /\ Where(Append(s, e), x, Len(s) + 1) = Where(s, x, Len(s)) \cup {Len(s) + 1}
                     /\ Len(s) + 1 \notin Where(s, x, Len(s))
<1> DEFINE a == Append(s, e)
<1>1. /\ Len(s) \in Nat /\ a[Len(s) + 1] = e
      /\ \A i \in 1 .. Len(s) : a[i] = s[i]
  OBVIOUS
<1> HIDE DEF a
<1>2. \A k \in 0 .. Len(s) : Where(a, x, k) = Where(s, x, k)
  BY <1>1 DEF Where
<1>3. e # x => Where(a, x, Len(s) + 1) = Where(s, x, Len(s))
  BY <1>1 DEF Where
<1>4. e = x => /\ Where(a, x, Len(s) + 1) = Where(s, x, Len(s)) \cup {Len(s) + 1}
               /\ Len(s) + 1 \notin Where(s, x, Len(s))
  BY <1>1 DEF Where
<1> QED BY <1>2, <1>3, <1>4 DEF a

\* A number grows by one with an announcement of its own, and no earlier count
\* is disturbed.
LEMMA Announcing ==
  ASSUME IInv, NEW t \in {"started", "ready", "stopped"}, NEW d \in Names,
         events' = Append(events, Event(t, d)), NEW u, NEW c
  PROVE  /\ \A k \in 1 .. Len(events) : Count(u, c, k)' = Count(u, c, k)
         /\ Len(events') = Len(events) + 1
         /\ Number(u, c) \in Nat
         /\ t = u /\ d = c => Number(u, c)' = Number(u, c) + 1
         /\ ~(t = u /\ d = c) => Number(u, c)' = Number(u, c)
<1> DEFINE e == Event(t, d)
           x == Event(u, c)
<1>1. e \in ConvEvents /\ events \in Seq(ConvEvents)
  BY DEF Event, ConvEvents, IInv, Logs
<1>2. (t = u /\ d = c) <=> e = x
  BY DEF Event
<1>3. /\ \A k : Count(u, c, k) = Cardinality(Where(events, x, k))
      /\ \A k : Count(u, c, k)' = Cardinality(Where(events', x, k))
  BY DEF Count, Where
<1>4. Len(events) \in Nat /\ Len(events') = Len(events) + 1 /\ events' = Append(events, e)
  BY <1>1
<1>5. /\ Number(u, c) = Cardinality(Where(events, x, Len(events)))
      /\ Number(u, c)' = Cardinality(Where(events', x, Len(events) + 1))
  BY <1>4 DEF Number, Count, Where
<1> HIDE DEF e, x
<1>6. /\ \A k \in 0 .. Len(events) : Where(events', x, k) = Where(events, x, k)
      /\ e # x => Where(events', x, Len(events) + 1) = Where(events, x, Len(events))
      /\ e = x => /\ Where(events', x, Len(events) + 1)
                       = Where(events, x, Len(events)) \cup {Len(events) + 1}
                  /\ Len(events) + 1 \notin Where(events, x, Len(events))
  BY <1>1, <1>4, WhereAppended
<1>7. /\ IsFiniteSet(Where(events, x, Len(events)))
      /\ Cardinality(Where(events, x, Len(events))) \in Nat
  BY <1>4, WhereFinite
<1>8. e = x => Number(u, c)' = Number(u, c) + 1
  BY <1>5, <1>6, <1>7, FS_AddElement
<1>9. e # x => Number(u, c)' = Number(u, c)
  BY <1>5, <1>6
<1>10. \A k \in 1 .. Len(events) : Count(u, c, k)' = Count(u, c, k)
  BY <1>3, <1>4, <1>6
<1> QED BY <1>2, <1>4, <1>5, <1>7, <1>8, <1>9, <1>10

\* There are finitely many channels, so finitely many downloads of one.
LEMMA ConvertingFinite ==
  ASSUME NEW c
  PROVE  IsFiniteSet(Converting(c)) /\ Cardinality(Converting(c)) \in Nat
<1>1. Converting(c) \in SUBSET Channels
  BY DEF Converting
<1>2. IsFiniteSet(Converting(c))
  BY <1>1, ConstantsAssumption, FS_Subset
<1> QED BY <1>2, FS_CardinalityType

\* If the numbers balance after an announcement no count before it is wrong.
LEMMA FollowedStep ==
  ASSUME BInv, Balance', NEW t \in {"started", "ready", "stopped"}, NEW d \in Names,
         events' = Append(events, Event(t, d))
  PROVE  Followed'
<1> SUFFICES ASSUME NEW c \in Names, NEW k \in 1 .. Len(events')
             PROVE  (Count("stopped", c, k) <= Count("ready", c, k))'
  BY DEF Followed
<1>1. Len(events) \in Nat /\ Len(events') = Len(events) + 1
  BY Announcing DEF BInv, IInv, Logs
<1>2. CASE k \in 1 .. Len(events)
  <2>0. IInv
    BY DEF BInv
  <2>1. ASSUME NEW u PROVE Count(u, c, k)' = Count(u, c, k)
    <3>1. \A i \in 1 .. Len(events) : Count(u, c, i)' = Count(u, c, i)
      BY <2>0, Announcing
    <3> QED BY <3>1, <1>2
  <2>2. Count("stopped", c, k) <= Count("ready", c, k)
    BY <1>2 DEF BInv, Followed
  <2> QED BY <2>1, <2>2
<1>3. CASE k = Len(events')
  <2>1. Number("ready", c)' = Number("stopped", c)' + Cardinality(Converting(c))'
    BY DEF Balance
  <2>2. Number("stopped", c)' \in Nat
    BY Announcing DEF BInv
  <2>3. Cardinality(Converting(c))' \in Nat
    <3>1. Converting(c)' \in SUBSET Channels
      BY DEF Converting
    <3> QED BY <3>1, ConstantsAssumption, FS_Subset, FS_CardinalityType
  <2>4. Number("stopped", c)' <= Number("ready", c)'
    BY <2>1, <2>2, <2>3
  <2> QED BY <2>4, <1>3 DEF Number
<1> QED BY <1>1, <1>2, <1>3

\* A step that announces neither and ends no download.
LEMMA OtherStep ==
  ASSUME BInv,
         \/ events' = events
         \/ \E d \in Names : events' = Append(events, Event("started", d)),
         \A c \in Names : Converting(c)' = Converting(c)
  PROVE  Balance' /\ Followed'
<1>1. CASE events' = events
  <2>1. \A u, c, k : Count(u, c, k)' = Count(u, c, k) /\ Number(u, c)' = Number(u, c)
    BY <1>1 DEF Count, Number
  <2> QED BY <2>1, <1>1 DEF BInv, Balance, Followed
<1>2. CASE \E d \in Names : events' = Append(events, Event("started", d))
  <2> PICK d \in Names : events' = Append(events, Event("started", d))
    BY <1>2
  <2>1. \A c \in Names : Number("ready", c)' = Number("ready", c)
                              /\ Number("stopped", c)' = Number("stopped", c)
    BY Announcing DEF BInv
  <2>2. Balance'
    BY <2>1 DEF BInv, Balance
  <2> QED BY <2>2, FollowedStep
<1> QED BY <1>1, <1>2

\* A channel is announced ready and its ffmpeg is then under way.
LEMMA ReadyStep ==
  ASSUME BInv, NEW c \in Channels, AnnounceReady(c)
  PROVE  Balance' /\ Followed'
<1>1. PICK h \in Names : h = loaded[c]
  BY DEF AnnounceReady, BInv, IInv, ConvInv, Shape
<1>2. /\ start[c] = "download" /\ start' = [start EXCEPT ![c] = "ffmpeg"]
      /\ loaded' = loaded /\ events' = Append(events, Event("ready", h))
      /\ start \in [Channels -> {"none", "sent", "started", "download", "ffmpeg", "running", "done"}]
  BY <1>1 DEF AnnounceReady, BInv, IInv, ConvInv, Shape
<1>3. Balance'
  <2> SUFFICES ASSUME NEW d \in Names
               PROVE  Number("ready", d)' = Number("stopped", d)' + Cardinality(Converting(d))'
    BY DEF Balance
  <2>1. Number("ready", d) = Number("stopped", d) + Cardinality(Converting(d))
    BY DEF BInv, Balance
  <2>2. Number("stopped", d)' = Number("stopped", d) /\ Number("stopped", d) \in Nat
    BY <1>2, Announcing DEF BInv
  <2>3. CASE d = h
    <3>1. Number("ready", d)' = Number("ready", d) + 1 /\ Number("ready", d) \in Nat
      BY <1>2, <2>3, Announcing DEF BInv
    <3>2. Converting(d)' = Converting(d) \cup {c} /\ c \notin Converting(d)
      BY <2>3, <1>1, <1>2 DEF Converting
    <3>3. Cardinality(Converting(d)') = Cardinality(Converting(d)) + 1
      BY <3>2, ConvertingFinite, FS_AddElement
    <3> QED BY <2>1, <2>2, <3>1, <3>3, ConvertingFinite
  <2>4. CASE d # h
    <3>1. Number("ready", d)' = Number("ready", d)
      BY <1>2, <2>4, Announcing DEF BInv
    <3>2. Converting(d)' = Converting(d)
      BY <2>4, <1>1, <1>2 DEF Converting
    <3> QED BY <2>1, <2>2, <3>1, <3>2
  <2> QED BY <2>3, <2>4
<1> QED BY <1>2, <1>3, FollowedStep

\* A stop is announced when an ffmpeg that was announced ready is over.
LEMMA StopStep ==
  ASSUME BInv, NEW c \in Channels, AnnounceStop(c)
  PROVE  Balance' /\ Followed'
<1>1. PICK h \in Names : h = loaded[c]
  BY DEF AnnounceStop, BInv, IInv, ConvInv, Shape
<1>2. /\ start[c] \in {"ffmpeg", "running"} /\ start' = [start EXCEPT ![c] = "done"]
      /\ loaded' = loaded /\ events' = Append(events, Event("stopped", h))
      /\ start \in [Channels -> {"none", "sent", "started", "download", "ffmpeg", "running", "done"}]
  BY <1>1 DEF AnnounceStop, BInv, IInv, ConvInv, Shape
<1>3. Balance'
  <2> SUFFICES ASSUME NEW d \in Names
               PROVE  Number("ready", d)' = Number("stopped", d)' + Cardinality(Converting(d))'
    BY DEF Balance
  <2>1. Number("ready", d) = Number("stopped", d) + Cardinality(Converting(d))
    BY DEF BInv, Balance
  <2>2. Number("ready", d)' = Number("ready", d) /\ Number("stopped", d) \in Nat
    BY <1>2, Announcing DEF BInv
  <2>3. CASE d = h
    <3>1. Number("stopped", d)' = Number("stopped", d) + 1
      BY <1>2, <2>3, Announcing DEF BInv
    <3>2. Converting(d)' = Converting(d) \ {c} /\ c \in Converting(d)
      BY <2>3, <1>1, <1>2 DEF Converting
    <3>3. Cardinality(Converting(d)') = Cardinality(Converting(d)) - 1
      BY <3>2, ConvertingFinite, FS_RemoveElement
    <3> QED BY <2>1, <2>2, <3>1, <3>3, ConvertingFinite
  <2>4. CASE d # h
    <3>1. Number("stopped", d)' = Number("stopped", d)
      BY <1>2, <2>4, Announcing DEF BInv
    <3>2. Converting(d)' = Converting(d)
      BY <2>4, <1>1, <1>2 DEF Converting
    <3> QED BY <2>1, <2>2, <3>1, <3>2
  <2> QED BY <2>3, <2>4
<1> QED BY <1>2, <1>3, FollowedStep

\* The other steps of relay and converter begin, set up or run a download.
LEMMA OtherConvStep ==
  ASSUME BInv, NEW c \in Channels,
         \/ NameChannel(c) \/ NamingFails(c) \/ Publish(c) \/ Leave(c)
         \/ AnnounceStart(c) \/ StartDownload(c) \/ MkdirFails(c) \/ RunFfmpeg(c)
  PROVE  Balance' /\ Followed'
<1>0. /\ start \in [Channels -> {"none", "sent", "started", "download", "ffmpeg", "running", "done"}]
      /\ loaded \in [Channels -> Names]
      /\ channel \in Names
      /\ streamer[c] = "named" => start[c] = "none"
  BY DEF BInv, IInv, ConvInv, Shape, Begun
<1>1. CASE NameChannel(c) \/ NamingFails(c) \/ Leave(c)
  <2>1. UNCHANGED <<start, loaded, events>>
    BY <1>1 DEF NameChannel, NamingFails, Leave, convVars
  <2> QED BY <2>1, OtherStep DEF Converting
<1>2. CASE Publish(c)
  <2>1. /\ start' = [start EXCEPT ![c] = "sent"] /\ UNCHANGED <<loaded, events>>
        /\ start[c] = "none"
    BY <1>0, <1>2 DEF Publish
  <2>2. \A d \in Names : Converting(d)' = Converting(d)
    BY <1>0, <2>1 DEF Converting
  <2> QED BY <2>1, <2>2, OtherStep
<1>3. CASE AnnounceStart(c)
  <2>1. /\ start' = [start EXCEPT ![c] = "started"] /\ UNCHANGED loaded
        /\ start[c] = "sent" /\ events' = Append(events, Event("started", channel))
        /\ channel \in Names
    BY <1>0, <1>3 DEF AnnounceStart
  <2>2. \A d \in Names : Converting(d)' = Converting(d)
    BY <1>0, <2>1 DEF Converting
  <2> QED BY <2>1, <2>2, OtherStep
<1>4. CASE StartDownload(c)
  <2>1. /\ start' = [start EXCEPT ![c] = "download"] /\ loaded' = [loaded EXCEPT ![c] = channel]
        /\ start[c] = "started" /\ UNCHANGED events
    BY <1>4 DEF StartDownload
  <2>2. \A d \in Names : Converting(d)' = Converting(d)
    BY <1>0, <2>1 DEF Converting
  <2> QED BY <2>1, <2>2, OtherStep
<1>5. CASE MkdirFails(c)
  <2>1. /\ start' = [start EXCEPT ![c] = "done"] /\ start[c] = "download"
        /\ UNCHANGED <<loaded, events>>
    BY <1>5 DEF MkdirFails
  <2>2. \A d \in Names : Converting(d)' = Converting(d)
    BY <1>0, <2>1 DEF Converting
  <2> QED BY <2>1, <2>2, OtherStep
<1>6. CASE RunFfmpeg(c)
  <2>1. /\ start' = [start EXCEPT ![c] = "running"] /\ start[c] = "ffmpeg"
        /\ UNCHANGED <<loaded, events>>
    BY <1>6 DEF RunFfmpeg
  <2>2. \A d \in Names : Converting(d)' = Converting(d)
    BY <1>0, <2>1 DEF Converting
  <2> QED BY <2>1, <2>2, OtherStep
<1> QED BY <1>1, <1>2, <1>3, <1>4, <1>5, <1>6

\* Every step keeps the balance; the HLS server announces on its own account.
LEMMA BalanceNext == BInv /\ [Next]_vars => BInv'
<1> SUFFICES ASSUME BInv, [Next]_vars PROVE BInv'
  OBVIOUS
<1>1. IInv'
  BY NextInv DEF BInv
<1>2. ASSUME UNCHANGED <<start, loaded, events>> PROVE Balance' /\ Followed'
  BY <1>2, OtherStep DEF Converting
<1>3. CASE UNCHANGED vars
  <2>1. UNCHANGED <<start, loaded, events>>
    BY <1>3 DEF vars, convVars
  <2>2. Balance' /\ Followed'
    BY <2>1, <1>2
  <2> QED BY <1>1, <2>2 DEF BInv
<1>4. ASSUME NEW c \in Channels,
             \/ NameChannel(c) \/ NamingFails(c) \/ Publish(c) \/ Leave(c)
             \/ Download(c) \/ AnnounceStop(c) \/ Hls(c)
      PROVE  Balance' /\ Followed'
  <2>1. CASE Hls(c)
    <3>1. UNCHANGED <<start, loaded, events>>
      BY <2>1 DEF Hls, Ded, DedWithoutChannel, AnnouncePlaying, HandleRoot, HandleRootPanics, ListenAndServe, convVars
    <3> QED BY <3>1, <1>2
  <2>2. CASE ~Hls(c)
    BY <1>4, <2>2, OtherConvStep, ReadyStep, StopStep DEF Download
  <2> QED BY <2>1, <2>2
<1>5. ASSUME AskWithoutChannel PROVE Balance' /\ Followed'
  <2>1. UNCHANGED <<start, loaded, events>>
    BY <1>5 DEF AskWithoutChannel
  <2> QED BY <2>1, <1>2
<1> QED BY <1>1, <1>3, <1>4, <1>5 DEF Next, BInv

\* At first nothing has been announced.
LEMMA BalanceInit == Init => BInv
<1> SUFFICES ASSUME Init PROVE BInv
  OBVIOUS
<1>1. \A u, c : Count(u, c, Len(events)) = 0
  BY FS_EmptySet DEF Init, Count
<1>2. \A c \in Names : Cardinality(Converting(c)) = 0
  BY FS_EmptySet DEF Init, Converting
<1>3. Balance /\ Followed
  BY <1>1, <1>2 DEF Init, Balance, Number, Followed
<1> QED BY <1>3, InitInv DEF BInv

\* stream.stopped is never announced more often than hls.ready, and as often
\* once no download of the channel is under way, however many downloads of one
\* channel overlap and whichever ffmpeg fails (cchls-integrated/main.go,
\* startDownload).
THEOREM StopsFollowReady == Spec => []StopsMatchReady
<1>1. BInv => StopsMatchReady
  <2> SUFFICES ASSUME BInv, NEW c \in Names
               PROVE  /\ \A k \in 1 .. Len(events) : Count("stopped", c, k) <= Count("ready", c, k)
                      /\ (\A d \in Channels : loaded[d] = c => start[d] \notin {"ffmpeg", "running"})
                           => Number("stopped", c) = Number("ready", c)
    BY DEF StopsMatchReady, Number
  <2>1. ASSUME \A d \in Channels : loaded[d] = c => start[d] \notin {"ffmpeg", "running"}
        PROVE  Number("stopped", c) = Number("ready", c)
    <3>1. Converting(c) = {}
      BY <2>1 DEF Converting
    <3>2. Number("stopped", c) \in Nat
      <4>1. Len(events) \in Nat
        BY DEF BInv, IInv, Logs
      <4> QED BY <4>1, WhereFinite DEF Number, Count, Where
    <3> QED BY <3>1, <3>2, FS_EmptySet DEF BInv, Balance
  <2> QED BY <2>1 DEF BInv, Followed
<1>2. Spec => []BInv
  BY BalanceInit, BalanceNext, PTL DEF Spec
<1> QED BY <1>1, <1>2, PTL
=============================================================================
