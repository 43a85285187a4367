---------------------------- MODULE HlsPipeline ----------------------------
(***************************************************************************)
(* From a published stream to HLS: the relay's HTTP handler that hands out *)
(* a key and names the channel to the converter, the request "$tart" that  *)
(* an accepted publish sends it, the converter's one global channel,       *)
(* ffmpeg, and the HLS server with its one port (cchls-integrated and      *)
(* hlsnew-integrated). Each channel has one streamer, who asks for a key,  *)
(* publishes once and leaves; anybody may ask the converter for anything   *)
(* without naming a channel. Every request runs in goroutines of its own,  *)
(* in steps between which any other may run.                               *)
(***************************************************************************)
EXTENDS Integers, Sequences, FiniteSets

CONSTANTS
  Channels,
  None,      \* the empty name
  Failing    \* bound: the names whose directory or ffmpeg may fail

ASSUME ConstantsAssumption ==
  /\ IsFiniteSet(Channels)
  /\ None \notin Channels
  /\ Failing \subseteq Channels \cup {None}

VARIABLES
  streamer,      \* of a channel: what it has done
  channel,       \* the converter's global
  start,         \* the goroutines of a streamer's "$tart" request
  said,          \* the channel of its stream.started
  loaded,        \* the channel it downloads
  call,          \* the goroutines of its request to the HLS server
  hlsUp,         \* whether the HLS server runs
  handled,       \* whether "/" has a handler there
  serving,       \* the channel whose directory the port serves
  viewerCounts,
  events,        \* what the converter gave publishEvent
  hlsEvents,     \* what the HLS server gave publishEvent
  disturbed      \* history: streamers whose naming was lost or overwritten

relayVars == <<streamer, disturbed>>
convVars == <<channel, start, said, loaded, events>>
hlsVars == <<call, hlsUp, handled, serving, viewerCounts, hlsEvents>>
vars == <<relayVars, convVars, hlsVars>>

Names == Channels \cup {None}

Event(type, c) == [type |-> type, channel |-> c]
Joined(c, n) == [type |-> "joined", channel |-> c, count |-> n]

\* Types of the global, the requests' goroutines and the HLS server's tables
\* (cchls-integrated and hlsnew-integrated).
TypeOK ==
  /\ streamer \in [Channels -> {"idle", "named", "live", "gone"}]
  /\ channel \in Names
  /\ start \in [Channels -> {"none", "sent", "started", "download", "ffmpeg", "running", "done"}]
  /\ said \in [Channels -> Names]
  /\ loaded \in [Channels -> Names]
  /\ call \in [Channels -> {"none", "sent", "playing", "handle", "listen", "serves", "failed"}]
  /\ hlsUp \in BOOLEAN /\ handled \in BOOLEAN
  /\ serving \in Names
  /\ viewerCounts \in [Channels -> 0 .. Cardinality(Channels)]
  /\ events \in Seq([type : {"started", "ready", "stopped"}, channel : Names])
  /\ hlsEvents \in Seq([type : {"joined"}, channel : Channels, count : Nat]
                         \cup [type : {"playing"}, channel : Channels])
  /\ disturbed \subseteq Channels

Init ==
  /\ streamer = [c \in Channels |-> "idle"]
  /\ channel = None
  /\ start = [c \in Channels |-> "none"]
  /\ said = [c \in Channels |-> None] /\ loaded = [c \in Channels |-> None]
  /\ call = [c \in Channels |-> "none"]
  /\ hlsUp = TRUE /\ handled = FALSE /\ serving = None
  /\ viewerCounts = [c \in Channels |-> 0]
  /\ events = <<>> /\ hlsEvents = <<>> /\ disturbed = {}

-----------------------------------------------------------------------------
(* The streamer and the relay server. *)

\* Between the naming of its own channel and its download a streamer relies
\* on the converter's global.
Relies(c) ==
  streamer[c] = "named" \/ start[c] \in {"sent", "started"}

\* A request to the converter that is not "$tart" assigns the channel it has,
\* "" when it has none, to the global, and only then looks whether it had one.
AssignChannel(name, asking) ==
  /\ channel' = name
  /\ disturbed' = disturbed \cup {d \in Channels \ asking : Relies(d)}

\* The relay's HTTP handler stores a key and names the channel to the
\* converter. Its own answer, with the key, is sent when it returns.
NameChannelMutant(c) ==   \* mutant: a channel already named is kept
  /\ streamer[c] = "idle"
  /\ streamer' = [streamer EXCEPT ![c] = "named"]
  /\ AssignChannel(IF channel = None THEN c ELSE channel, {c})
  /\ UNCHANGED <<start, said, loaded, events, hlsVars>>

NameChannel(c) ==
  /\ streamer[c] = "idle"
  /\ streamer' = [streamer EXCEPT ![c] = "named"]
  /\ AssignChannel(c, {c})
  /\ UNCHANGED <<start, said, loaded, events, hlsVars>>

\* A converter that cannot be asked is logged: the streamer has its key all
\* the same.
NamingFails(c) ==
  /\ streamer[c] = "idle"
  /\ streamer' = [streamer EXCEPT ![c] = "named"]
  /\ disturbed' = disturbed \cup {c}
  /\ UNCHANGED <<convVars, hlsVars>>

\* The converter's handler serves every path: a browser's request for an icon
\* is one without a channel, and is refused with 400 after the assignment.
AskWithoutChannel ==
  /\ AssignChannel(None, {})
  /\ UNCHANGED <<streamer, start, said, loaded, events, hlsVars>>

\* A publish that the Handler has accepted makes the server send "$tart".
Publish(c) ==
  /\ streamer[c] = "named"
  /\ streamer' = [streamer EXCEPT ![c] = "live"]
  /\ start' = [start EXCEPT ![c] = "sent"]
  /\ UNCHANGED <<disturbed, channel, said, loaded, events, hlsVars>>

Leave(c) ==
  /\ streamer[c] = "live"
  /\ streamer' = [streamer EXCEPT ![c] = "gone"]
  /\ UNCHANGED <<disturbed, convVars, hlsVars>>

-----------------------------------------------------------------------------
(* The converter. *)

\* "$tart" announces the stream of the global channel,
AnnounceStart(c) ==
  /\ start[c] = "sent"
  /\ said' = [said EXCEPT ![c] = channel]
  /\ events' = Append(events, Event("started", channel))
  /\ start' = [start EXCEPT ![c] = "started"]
  /\ UNCHANGED <<relayVars, channel, loaded, hlsVars>>

\* and reads the global again for the download.
StartDownload(c) ==
  /\ start[c] = "started"
  /\ loaded' = [loaded EXCEPT ![c] = channel]
  /\ start' = [start EXCEPT ![c] = "download"]
  /\ UNCHANGED <<relayVars, channel, said, events, hlsVars>>

MkdirFails(c) ==
  /\ start[c] = "download" /\ loaded[c] \in Failing
  /\ start' = [start EXCEPT ![c] = "done"]
  /\ UNCHANGED <<relayVars, channel, said, loaded, events, hlsVars>>

\* hls.ready comes before ffmpeg, and before the HLS server is asked.
AnnounceReadyMutant(c) ==   \* mutant: the HLS server is asked when ffmpeg has ended
  /\ start[c] = "download"
  /\ events' = Append(events, Event("ready", loaded[c]))
  /\ start' = [start EXCEPT ![c] = "ffmpeg"]
  /\ UNCHANGED <<relayVars, channel, said, loaded, hlsVars>>

AnnounceReady(c) ==
  /\ start[c] = "download"
  /\ events' = Append(events, Event("ready", loaded[c]))
  /\ call' = [call EXCEPT ![c] = "sent"]
  /\ start' = [start EXCEPT ![c] = "ffmpeg"]
  /\ UNCHANGED <<relayVars, channel, said, loaded,
                 hlsUp, handled, serving, viewerCounts, hlsEvents>>

\* The relay finds a channel while its streamer publishes, and none named "".
Found(name) == name # None /\ streamer[name] = "live"

\* ffmpeg plays the channel from the relay,
RunFfmpeg(c) ==
  /\ start[c] = "ffmpeg" /\ Found(loaded[c])
  /\ start' = [start EXCEPT ![c] = "running"]
  /\ UNCHANGED <<relayVars, channel, said, loaded, events, hlsVars>>

\* and ends, with or without an error, when it finds no stream or has lost it.
Ends(c) ==
  \/ ~Found(loaded[c])
  \/ start[c] = "running" /\ loaded[c] \in Failing

AnnounceStopMutant(c) ==   \* mutant: an ffmpeg that could not run is only logged
  /\ start[c] \in {"ffmpeg", "running"} /\ Ends(c)
  /\ events' = IF start[c] = "running" THEN Append(events, Event("stopped", loaded[c])) ELSE events
  /\ start' = [start EXCEPT ![c] = "done"]
  /\ UNCHANGED <<relayVars, channel, said, loaded, hlsVars>>

AnnounceStop(c) ==
  /\ start[c] \in {"ffmpeg", "running"} /\ Ends(c)
  /\ events' = Append(events, Event("stopped", loaded[c]))
  /\ start' = [start EXCEPT ![c] = "done"]
  /\ UNCHANGED <<relayVars, channel, said, loaded, hlsVars>>

-----------------------------------------------------------------------------
(* The HLS server. *)

\* incrementViewer counts and announces under one lock.
IncrementViewerMutant(c) ==   \* mutant: sets the count to one
  /\ viewerCounts' = [viewerCounts EXCEPT ![c] = 1]
  /\ hlsEvents' = Append(hlsEvents, Joined(c, 1))

IncrementViewer(c) ==
  /\ viewerCounts' = [viewerCounts EXCEPT ![c] = @ + 1]
  /\ hlsEvents' = Append(hlsEvents, Joined(c, viewerCounts[c] + 1))

\* A request to a server that has ended is given up and changes nothing.
DedMutant(c) ==   \* mutant: the request is repeated while it is not answered
  /\ call[c] = "sent" /\ hlsUp /\ loaded[c] # None
  /\ IncrementViewer(loaded[c])
  /\ call' \in {call, [call EXCEPT ![c] = "playing"]}
  /\ UNCHANGED <<relayVars, convVars, hlsUp, handled, serving>>

Ded(c) ==
  /\ call[c] = "sent" /\ hlsUp /\ loaded[c] # None
  /\ IncrementViewer(loaded[c])
  /\ call' = [call EXCEPT ![c] = "playing"]
  /\ UNCHANGED <<relayVars, convVars, hlsUp, handled, serving>>

\* A download of "" asks for no channel, which is refused.
DedWithoutChannel(c) ==
  /\ call[c] = "sent" /\ hlsUp /\ loaded[c] = None
  /\ call' = [call EXCEPT ![c] = "failed"]
  /\ UNCHANGED <<relayVars, convVars, hlsUp, handled, serving, viewerCounts, hlsEvents>>

\* startStream announces the playback, registers the handler for "/" and then
\* listens on the port.
AnnouncePlaying(c) ==
  /\ call[c] = "playing"
  /\ hlsEvents' = Append(hlsEvents, Event("playing", loaded[c]))
  /\ call' = [call EXCEPT ![c] = "handle"]
  /\ UNCHANGED <<relayVars, convVars, hlsUp, handled, serving, viewerCounts>>

HandleRoot(c) ==
  /\ call[c] = "handle" /\ ~handled
  /\ handled' = TRUE
  /\ call' = [call EXCEPT ![c] = "listen"]
  /\ UNCHANGED <<relayVars, convVars, hlsUp, serving, viewerCounts, hlsEvents>>

\* A second registration panics, and the process ends with all it serves.
HandleRootPanics(c) ==
  /\ call[c] = "handle" /\ handled
  /\ hlsUp' = FALSE /\ serving' = None
  /\ call' = [d \in Channels |-> IF call[d] \in {"none", "sent"} THEN call[d] ELSE "failed"]
  /\ UNCHANGED <<relayVars, convVars, handled, viewerCounts, hlsEvents>>

ListenAndServe(c) ==
  /\ call[c] = "listen"
  /\ serving' = loaded[c]
  /\ call' = [call EXCEPT ![c] = "serves"]
  /\ UNCHANGED <<relayVars, convVars, hlsUp, handled, viewerCounts, hlsEvents>>

-----------------------------------------------------------------------------

Download(c) ==
  AnnounceStart(c) \/ StartDownload(c) \/ MkdirFails(c) \/ AnnounceReady(c) \/ RunFfmpeg(c)
Hls(c) ==
  \/ Ded(c) \/ DedWithoutChannel(c) \/ AnnouncePlaying(c)
  \/ HandleRoot(c) \/ HandleRootPanics(c) \/ ListenAndServe(c)

Next ==
  \/ AskWithoutChannel
  \/ \E c \in Channels :
       \/ NameChannel(c) \/ NamingFails(c) \/ Publish(c) \/ Leave(c)
       \/ Download(c) \/ AnnounceStop(c) \/ Hls(c)

\* Goroutines run on. No streamer has to publish or to leave, and no ffmpeg
\* has to notice that its stream has ended.
Fairness == \A c \in Channels : WF_vars(Download(c)) /\ WF_vars(Hls(c))

Spec == Init /\ [][Next]_vars /\ Fairness

-----------------------------------------------------------------------------
(* Properties *)

\* A publish announces and downloads its own channel, unless its naming did
\* not reach the converter or another request, of another channel or of none,
\* assigned the global in between: nothing else loses it, whatever the streams
\* before it still do (cchls-integrated/main.go:86 to 106).
OwnStream ==
  \A c \in Channels \ disturbed :
    /\ start[c] \notin {"none", "sent"} => said[c] = c
    /\ start[c] \notin {"none", "sent", "started"} => loaded[c] = c

Count(type, c, k) == Cardinality({i \in 1 .. k : events[i] = Event(type, c)})

\* stream.stopped is never announced more often than hls.ready, and as often
\* once no download of the channel is under way (startDownload), also when two
\* downloads of one channel run, one channel's ffmpeg fails or "" is downloaded.
StopsMatchReady ==
  \A c \in Names :
    /\ \A k \in 1 .. Len(events) : Count("stopped", c, k) <= Count("ready", c, k)
    /\ (\A d \in Channels : loaded[d] = c => start[d] \notin {"ffmpeg", "running"})
         => Count("stopped", c, Len(events)) = Count("ready", c, Len(events))

\* The viewer counts announced for a channel grow, whatever requests overlap
\* (incrementViewer, which sends its event with the lock held).
JoinsInOrder ==
  \A i, j \in 1 .. Len(hlsEvents) :
    (/\ i < j /\ hlsEvents[i].type = "joined" /\ hlsEvents[j].type = "joined"
     /\ hlsEvents[i].channel = hlsEvents[j].channel)
      => hlsEvents[i].count < hlsEvents[j].count

\* A stream whose channel the converter got right, and that does not fail, is
\* converted and has the HLS server's port while its streamer publishes, as
\* long as no other download asks for the port (integration/README.md:114 to
\* 116): whatever is named or asked once its download has begun. Its directory
\* is then served at the root of the port, the URL of stream.playing, and not
\* at the URL of hls.ready (cchls-integrated/main.go:138).
AloneIsServed ==
  \A c \in Channels \ Failing :
    start[c] = "sent" ~>
      \/ start[c] = "running" /\ serving = c
      \/ streamer[c] = "gone" \/ c \in disturbed
      \/ \E d \in Channels \ {c} : call[d] # "none"

=============================================================================
