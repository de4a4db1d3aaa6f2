----------------------------- MODULE VideoPause -----------------------------
(***************************************************************************)
(* The video application (app_video.cpp) next to the ASDCS client: the      *)
(* client pauses the playback when its connection opens and resumes it      *)
(* when the backoff between channel selections is over.  Video is sent by a *)
(* timer that starts itself again, one frame each time.                     *)
(*                                                                         *)
(* Time is discrete, as in NextChannel.                                     *)
(***************************************************************************)
EXTENDS Integers, Sequences

CONSTANTS
  FramePeriod,  \* SECOND / nFPS
  Backoff,      \* changeBackoffTime
  LastStart,    \* bound: the video starts at any time up to this one
  MaxRequests   \* bound: channel scans the client accepts after the first

VideoAssumption ==
  /\ {FramePeriod, Backoff, LastStart} \subseteq Nat \ {0}
  /\ MaxRequests \in Nat

VARIABLES
  start,     \* the timer of the first frame, set by AppVideoClientInit
  frames,    \* timers of further frames
  paused,    \* VideoClientPtr->paused
  over,      \* history: a chain of frames has come to the end of the stream
  inbox,     \* messages of the ASDCS client on their way to the video client
  client,    \* the ASDCS client: opened, initBackoff, its backoff timer
  since      \* history: time since the playback was paused

vars == <<start, frames, paused, over, inbox, client, since>>
Video == <<start, frames, paused, over, since>>

Start(timers, duration) == Append(timers, duration)
Due(timers) == timers # <<>> /\ Head(timers) = 0
Pass(timers) == [i \in DOMAIN timers |-> timers[i] - 1]

TypeOK ==
  /\ start \in Seq(0 .. LastStart)
  /\ frames \in Seq(0 .. FramePeriod)
  /\ paused \in BOOLEAN /\ over \in BOOLEAN
  /\ inbox \in Seq({"PausePlayback", "ResumePlayback"})
  /\ client \in [opened : BOOLEAN, initBackoff : BOOLEAN, backoff : Seq(0 .. Backoff),
                 requests : 0 .. MaxRequests]
  /\ since \in 0 .. FramePeriod + 1

Init ==
  /\ start \in {<<time>> : time \in 0 .. LastStart}
  /\ frames = <<>>
  /\ paused = FALSE /\ over = FALSE
  /\ inbox = <<>>
  /\ client = [opened |-> FALSE, initBackoff |-> FALSE, backoff |-> <<>>, requests |-> 0]
  /\ since = 0

-----------------------------------------------------------------------------
(* The ASDCS client, as far as it touches the video *)

\* MSG_APP_FromTransOpenResult
ClientOpen ==
  /\ ~client.opened
  /\ client' = [client EXCEPT !.opened = TRUE, !.initBackoff = TRUE,
                              !.backoff = Start(@, Backoff)]
  /\ inbox' = Append(inbox, "PausePlayback")
  /\ UNCHANGED Video

\* MSG_APP_InitiateChannelScanRequest, when the round before is over
InitiateChannelScan ==
  /\ client.opened /\ ~client.initBackoff
  /\ client.requests < MaxRequests
  /\ client' = [client EXCEPT !.initBackoff = TRUE, !.backoff = Start(@, Backoff),
                              !.requests = @ + 1]
  /\ UNCHANGED <<inbox, Video>>

\* MSG_APP_TxChannelSelectionTimeout
ChannelSelectionTimeout ==
  /\ Due(client.backoff)
  /\ client' = [client EXCEPT !.initBackoff = FALSE, !.backoff = Tail(@)]
  /\ inbox' = Append(inbox, "ResumePlayback")
  /\ UNCHANGED Video

-----------------------------------------------------------------------------
(* AppLayerVideoClient *)

\* MSG_APP_FromChanswitchPausePlayback
PausePlayback ==
  /\ inbox # <<>> /\ Head(inbox) = "PausePlayback"
  /\ inbox' = Tail(inbox)
  /\ paused' = TRUE /\ since' = 0
  /\ UNCHANGED <<start, frames, over, client>>

\* Mutant of ResumePlayback: the chain of frames is not started again.
ResumePlaybackOnly ==
  /\ inbox # <<>> /\ Head(inbox) = "ResumePlayback"
  /\ inbox' = Tail(inbox)
  /\ paused' = FALSE
  /\ UNCHANGED <<start, frames, over, client, since>>

\* MSG_APP_FromChanswitchResumePlayback
ResumePlayback ==
  /\ inbox # <<>> /\ Head(inbox) = "ResumePlayback"
  /\ inbox' = Tail(inbox)
  /\ paused' = FALSE
  /\ frames' = Start(frames, FramePeriod)
  /\ UNCHANGED <<start, over, client, since>>

\* A frame is sent and, if it was not the last and the playback is not paused, the
\* timer of the next one is started.
Continue(timers) == IF paused THEN timers ELSE Start(timers, FramePeriod)

\* APP_TIMER_SEND_PKT, the first
FirstFrame ==
  /\ Due(start)
  /\ start' = <<>>
  /\ frames' = Continue(frames)
  /\ UNCHANGED <<paused, over, inbox, client, since>>

\* APP_TIMER_SEND_PKT
Frame ==
  /\ Due(frames)
  /\ frames' = Continue(Tail(frames))
  /\ UNCHANGED <<start, paused, over, inbox, client, since>>

\* APP_TIMER_SEND_PKT, requestNextFrameProcessing fails
LastFrame ==
  /\ Due(frames)
  /\ frames' = Tail(frames)
  /\ over' = TRUE
  /\ UNCHANGED <<start, paused, inbox, client, since>>

-----------------------------------------------------------------------------
Tick ==
  /\ ~Due(start) /\ ~Due(frames) /\ ~Due(client.backoff) /\ inbox = <<>>
  /\ start' = Pass(start)
  /\ frames' = Pass(frames)
  /\ client' = [client EXCEPT !.backoff = Pass(@)]
  /\ since' = IF since > FramePeriod THEN since ELSE since + 1
  /\ UNCHANGED <<paused, over, inbox>>

Deliver == PausePlayback \/ ResumePlayback
Timeout == ChannelSelectionTimeout \/ FirstFrame \/ Frame \/ LastFrame

Next ==
  \/ ClientOpen \/ InitiateChannelScan
  \/ Deliver
  \/ Timeout
  \/ Tick

Spec == Init /\ [][Next]_vars

\* Messages and timers are dispatched and time passes.
FairSpec == Spec /\ WF_vars(Deliver) /\ WF_vars(Timeout) /\ SF_vars(Tick)

-----------------------------------------------------------------------------
\* A pause longer than a frame stops the video: no chain of frames survives it.
PauseStops == paused /\ since > FramePeriod => frames = <<>>

\* A video that is not paused goes on: its next frame has a timer until the end of
\* the stream is met, whatever pauses and resumptions came before.
NeverStalls == ~paused /\ ~over => start # <<>> \/ frames # <<>>

(* What the source says of itself and does not do: it is checked to fail. *)

-----------------------------------------------------------------------------
(* What a comment or an assertion of the code says and its actions do not keep. *)

\* "unpause video, send the next frame": there is one next frame, and so one frame
\* per period.  Fails when the video starts after the playback has been resumed, and
\* with every later channel selection, whose backoff resumes what was never paused.
OneFrameAtATime == Len(frames) <= 1
=============================================================================
