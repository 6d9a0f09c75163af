------------------------------- MODULE Audio --------------------------------
(* The voice and the channels, which the machine's thread commands and the   *)
(* host's audio thread plays, a callback at a time.  The device keeps a busy *)
(* flag and a lock of its own, the host a lock of its own around the tone it *)
(* plays; neither thread may wait for the other while it holds what the      *)
(* other waits for.  Tones are numbered; how a wave is shaped is left out.   *)
EXTENDS Integers, Sequences, FiniteSets

CONSTANTS
  Channels,
  Durations,    \* of a tone, in callbacks; 0: until stopped
  Full,         \* the level of an envelope at its height
  Envelopes,    \* [attack, decay, sustain, release], times in callbacks
  Orchestras    \* [voice, keys, left]: does the program play tones, which channels does it key, commands left

ASSUME AudioAssumption == Full \in Nat \ {0} /\ Durations \subseteq Nat

VARIABLES
  busy,       \* a tone is playing, as the program sees it
  toneAt,     \* the host: [active, left, no], left = 0 until stopped
  sound,     \* the host's: "none" yet, "open", "failed", or "gone" as when there is no host
  audioLock,  \* who holds the host's lock: "nobody", "machine" or "speaker"
  channelLock,
  machineAt,  \* what the machine's thread is at
  speakerAt,  \* what the audio thread is at
  hostAt,     \* is there a host: "none", "here", "closing" its stream as it leaves, "left"
  channels,   \* [stage, level, releaseFrom, envelope] of each
  asked,      \* the tones asked for so far
  ended,      \* how each was: "playing", "stopped", "replaced" or "over", for the properties
  heard,       \* for each tone that the interrupt came for, by the last that was asked for then; for the properties
  orchestra

audioVars == <<busy, toneAt, sound, audioLock, channelLock, machineAt, speakerAt, hostAt, channels, asked, ended, heard, orchestra>>

machineVars == <<machineAt, asked, ended>>
Silent == [active |-> FALSE, left |-> 0, no |-> 0]
Idle == [at |-> "idle"]
Over(how) == IF asked > 0 /\ ended[asked] = "playing" THEN [ended EXCEPT ![asked] = how] ELSE ended

\* The host says a tone is over: only a busy device makes an interrupt of it.
ToneFinished == busy' = FALSE /\ heard' = IF busy THEN Append(heard, asked) ELSE heard

-----------------------------------------------------------------------------
(* The machine's thread.                                                     *)

Commands(what) == machineAt = Idle /\ hostAt \in {"here", "none"} /\ orchestra.left > 0 /\ what /\ orchestra' = [orchestra EXCEPT !.left = @ - 1]

\* Where there is no host to play it the tone is not started at all.
Play(duration) ==
  /\ IF sound = "gone" THEN UNCHANGED <<busy, asked, ended, machineAt>>
     ELSE /\ busy' = TRUE /\ asked' = asked + 1 /\ ended' = Append(Over("replaced"), "playing")
          /\ machineAt' = [at |-> "open", then |-> "tone", duration |-> duration]
  /\ UNCHANGED <<toneAt, sound, audioLock, channelLock, speakerAt, hostAt, channels, heard>>
\* A reset stops a tone that is playing, and then the channels.
StopTone(then) ==
  /\ IF then = "reset" /\ ~busy THEN busy' = busy /\ ended' = ended /\ machineAt' = [at |-> "silence", then |-> then]
     ELSE /\ busy' = FALSE /\ ended' = Over("stopped")
          /\ machineAt' = [at |-> IF sound = "gone" THEN "silence" ELSE "hush", then |-> then]
  /\ UNCHANGED <<toneAt, sound, audioLock, channelLock, speakerAt, hostAt, channels, asked, heard>>
(* Mutant: the lock is taken first and the host asked under it. *)
KeyCommandLocking(c, command) ==
  /\ channelLock = "nobody" /\ channelLock' = "machine"
  /\ machineAt' = [at |-> IF command = "on" /\ sound # "gone" THEN "open" ELSE "key", then |-> "key",
                   channel |-> c, command |-> command, rendered |-> FALSE]
  /\ UNCHANGED <<busy, toneAt, sound, audioLock, speakerAt, hostAt, channels, asked, ended, heard>>
\* Keying a channel on asks the host first, before the lock is taken.
KeyCommand(c, command) ==
  /\ machineAt' = [at |-> IF command = "on" /\ sound # "gone" THEN "open" ELSE "key", then |-> "key",
                   channel |-> c, command |-> command, rendered |-> FALSE]
  /\ UNCHANGED <<busy, toneAt, sound, audioLock, channelLock, speakerAt, hostAt, channels, asked, ended, heard>>
SetEnvelope(c, envelope) ==
  /\ channelLock = "nobody" /\ channels' = [channels EXCEPT ![c].envelope = envelope]
  /\ UNCHANGED <<busy, toneAt, sound, audioLock, channelLock, machineAt, speakerAt, hostAt, asked, ended, heard>>

\* ensureAudio(): the stream is opened once, kept under the lock and then started, which may
\* wait for a callback in flight; a host whose sound does not open is not asked again.
Opens ==
  /\ machineAt.at = "open"
  /\ \/ sound \in {"open", "failed"} /\ sound' = sound /\ machineAt' = [machineAt EXCEPT !.at = "opened"]
     \/ sound = "none" /\ sound' = "failed" /\ machineAt' = [machineAt EXCEPT !.at = "opened"]
     \/ sound = "none" /\ audioLock = "nobody" /\ sound' = "open" /\ machineAt' = [machineAt EXCEPT !.at = "start"]
  /\ UNCHANGED <<busy, toneAt, audioLock, channelLock, speakerAt, hostAt, channels, asked, ended, heard, orchestra>>
Starts ==
  /\ machineAt.at = "start" /\ speakerAt = "idle" /\ machineAt' = [machineAt EXCEPT !.at = "opened"]
  /\ UNCHANGED <<busy, toneAt, sound, audioLock, channelLock, speakerAt, hostAt, channels, asked, ended, heard, orchestra>>

\* The sink: with no sound the tone is over at once, otherwise it takes the place of the other.
SinkTone ==
  /\ machineAt.at = "opened" /\ machineAt.then = "tone" /\ machineAt' = Idle
  /\ IF sound # "open" THEN ToneFinished /\ ended' = Over("over") /\ UNCHANGED toneAt
     ELSE /\ audioLock = "nobody" /\ UNCHANGED <<busy, heard, ended>>
          /\ toneAt' = [active |-> TRUE, left |-> machineAt.duration, no |-> asked]
  /\ UNCHANGED <<sound, audioLock, channelLock, speakerAt, hostAt, channels, asked, orchestra>>
SinkSilence ==
  /\ machineAt.at = "hush" /\ audioLock = "nobody" /\ toneAt' = [toneAt EXCEPT !.active = FALSE]
  /\ machineAt' = [at |-> "silence", then |-> machineAt.then]
  /\ UNCHANGED <<busy, sound, audioLock, channelLock, speakerAt, hostAt, channels, asked, ended, heard, orchestra>>
Unkeyed == [stage |-> "off", level |-> 0, releaseFrom |-> 0, envelope |-> CHOOSE e \in Envelopes : TRUE]
SilenceChannels ==
  /\ machineAt.at = "silence" /\ machineAt' = Idle
  /\ IF machineAt.then = "reset" THEN channelLock = "nobody" /\ channels' = [c \in Channels |-> Unkeyed] ELSE UNCHANGED channels
  /\ UNCHANGED <<busy, toneAt, sound, audioLock, channelLock, speakerAt, hostAt, asked, ended, heard, orchestra>>

\* The command itself, under the device's lock.  A channel keyed on rises from the level it
\* has; where the host renders none it stays as it is.
KeyAnswered ==
  /\ machineAt.at = "opened" /\ machineAt.then = "key"
  /\ machineAt' = [machineAt EXCEPT !.at = "key", !.rendered = sound = "open"]
  /\ UNCHANGED <<busy, toneAt, sound, audioLock, channelLock, speakerAt, hostAt, channels, asked, ended, heard, orchestra>>
KeyedTo(channel, command, rendered) ==
  CASE command = "on" /\ rendered -> [channel EXCEPT !.stage = "attack"]
    [] command = "off" /\ channel.stage # "off" -> [channel EXCEPT !.releaseFrom = channel.level, !.stage = "release"]
    [] command = "stop" -> [channel EXCEPT !.stage = "off", !.level = 0]
    [] OTHER -> channel
KeyTaken ==
  /\ machineAt.at = "key" /\ channelLock \in {"nobody", "machine"} /\ channelLock' = "nobody" /\ machineAt' = Idle
  /\ channels' = [channels EXCEPT ![machineAt.channel] = KeyedTo(@, machineAt.command, machineAt.rendered)]
  /\ UNCHANGED <<busy, toneAt, sound, audioLock, speakerAt, hostAt, asked, ended, heard, orchestra>>

-----------------------------------------------------------------------------
(* The audio thread.                                                         *)

CallbackBegins ==
  /\ sound = "open" /\ speakerAt = "idle" /\ speakerAt' = "wants"
  /\ UNCHANGED <<busy, toneAt, sound, audioLock, channelLock, machineVars, hostAt, channels, heard, orchestra>>
CallbackLocks ==
  /\ speakerAt = "wants" /\ audioLock = "nobody" /\ audioLock' = "speaker" /\ speakerAt' = "tone"
  /\ UNCHANGED <<busy, toneAt, sound, channelLock, machineVars, hostAt, channels, heard, orchestra>>
\* The callback's samples of the tone; the last of them ends it.
ToneSounds ==
  /\ speakerAt = "tone"
  /\ LET last == toneAt.active /\ toneAt.left = 1
     IN  /\ toneAt' = IF last THEN Silent ELSE IF toneAt.active /\ toneAt.left > 1 THEN [toneAt EXCEPT !.left = @ - 1] ELSE toneAt
         /\ speakerAt' = IF last THEN "over" ELSE "channels"
         /\ ended' = IF last /\ ended[toneAt.no] = "playing" THEN [ended EXCEPT ![toneAt.no] = "over"] ELSE ended
  /\ UNCHANGED <<busy, sound, audioLock, channelLock, machineAt, asked, hostAt, channels, heard, orchestra>>
ToneEnds ==
  /\ speakerAt = "over" /\ speakerAt' = "channels" /\ ToneFinished
  /\ UNCHANGED <<toneAt, sound, audioLock, channelLock, machineVars, hostAt, channels, orchestra>>

\* What an envelope moves in a callback, at least one step of the scale.
Moves(time, span) == IF time = 0 THEN Full ELSE IF span > 0 /\ span < time THEN 1 ELSE span \div time
Sounded(c) ==
  LET e == c.envelope
      up == c.level + Moves(e.attack, Full)
      down == c.level - Moves(e.decay, Full - e.sustain)
      away == c.level - Moves(e.release, c.releaseFrom)
  IN  CASE c.stage = "attack" -> IF up >= Full THEN [c EXCEPT !.level = Full, !.stage = "decay"] ELSE [c EXCEPT !.level = up]
        [] c.stage = "decay" -> IF down <= e.sustain THEN [c EXCEPT !.level = e.sustain, !.stage = "sustain"] ELSE [c EXCEPT !.level = down]
        [] c.stage = "release" -> IF away <= 0 THEN [c EXCEPT !.level = 0, !.stage = "off"] ELSE [c EXCEPT !.level = away]
        [] OTHER -> c
RendersChannels ==
  /\ speakerAt = "channels" /\ channelLock = "nobody"
  /\ channels' = IF sound = "gone" THEN channels ELSE [c \in Channels |-> Sounded(channels[c])]
  /\ audioLock' = "nobody" /\ speakerAt' = "idle"
  /\ UNCHANGED <<busy, toneAt, sound, channelLock, machineVars, hostAt, heard, orchestra>>

-----------------------------------------------------------------------------
(* The host leaves, on the machine's thread when the run is over: its        *)
(* pointers go under the lock, its stream outside it.                        *)

HostLeaves ==
  /\ hostAt = "here" /\ machineAt = Idle /\ audioLock = "nobody"
  /\ hostAt' = IF sound = "open" THEN "closing" ELSE "left"
  /\ sound' = "gone" /\ toneAt' = Silent
  /\ UNCHANGED <<busy, audioLock, channelLock, machineVars, speakerAt, channels, heard, orchestra>>
StreamCloses ==
  /\ hostAt = "closing" /\ speakerAt = "idle" /\ hostAt' = "left"
  /\ audioLock' = "nobody"
  /\ UNCHANGED <<busy, toneAt, sound, channelLock, machineVars, speakerAt, channels, heard, orchestra>>

AudioStart ==
  /\ busy = FALSE /\ toneAt = Silent /\ audioLock = "nobody" /\ channelLock = "nobody"
  /\ machineAt = Idle /\ speakerAt = "idle" /\ asked = 0 /\ ended = <<>> /\ heard = <<>>
  /\ channels = [c \in Channels |-> Unkeyed]
AudioInit == AudioStart /\ hostAt \in {"here", "none"} /\ sound = (IF hostAt = "here" THEN "none" ELSE "gone") /\ orchestra \in Orchestras
AudioIdle == AudioStart /\ hostAt = "none" /\ sound = "gone" /\ orchestra = [voice |-> FALSE, keys |-> {}, left |-> 0]

MachinePlays ==
  \/ orchestra.voice /\ \E d \in Durations : Commands(Play(d))
  \/ orchestra.voice /\ \E then \in {"stop", "reset"} : Commands(StopTone(then))
  \/ \E c \in orchestra.keys, command \in {"on", "off", "stop", "other"} : Commands(KeyCommand(c, command))
  \/ \E c \in orchestra.keys, e \in Envelopes : Commands(SetEnvelope(c, e))
MachineWaits == Opens \/ Starts \/ SinkTone \/ SinkSilence \/ SilenceChannels \/ KeyAnswered \/ KeyTaken
SpeakerPlays == CallbackBegins \/ CallbackLocks \/ ToneSounds \/ ToneEnds \/ RendersChannels
AudioNext == MachinePlays \/ MachineWaits \/ SpeakerPlays \/ HostLeaves \/ StreamCloses
AudioSpec == AudioInit /\ [][AudioNext]_audioVars

(***************************************************************************)
(* Properties.                                                             *)
(***************************************************************************)

\* A program that waits for the busy bit, or for a channel's, to clear waits for something:
\* between its instructions a busy device has a tone in the host's hands, or just over, and a
\* channel sounds only where somebody renders it.
SomebodyPlays ==
  hostAt \in {"here", "none"} =>
    /\ busy /\ machineAt = Idle => toneAt.active \/ speakerAt = "over"
    /\ \A c \in Channels : channels[c].stage # "off" => sound = "open"

\* The machine's thread and the audio thread never wait for each other: for a lock, or for
\* the callback in flight as the sound starts and closes.
MachineWaitsForSpeaker ==
  \/ speakerAt # "idle" /\ (machineAt.at = "start" \/ hostAt = "closing")
  \/ audioLock = "speaker" /\ (machineAt.at = "hush" \/ (machineAt.at = "opened" /\ machineAt.then = "tone"))
SpeakerWaitsForMachine ==
  \/ audioLock = "machine" /\ speakerAt = "wants"
  \/ channelLock = "machine" /\ speakerAt = "channels"
NoCircleOfWaits == ~(MachineWaitsForSpeaker /\ SpeakerWaitsForMachine)

\* The interrupt comes for a tone that ran to its end, and for no tone that was stopped or
\* replaced.
OnlyEndedTonesTell == \A i \in DOMAIN heard : ended[heard[i]] = "over"

\* Nobody waits for sound that no longer comes, neither the program nor a thread.
SoundGoesOn == SomebodyPlays /\ NoCircleOfWaits
=============================================================================
