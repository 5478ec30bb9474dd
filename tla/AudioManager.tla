----------------------------- MODULE AudioManager -----------------------------
(***************************************************************************)
(* core/audiomanager.cpp as built for Windows: the main thread, the thread *)
(* that captures the microphone and the thread that plays samples.  The    *)
(* main thread waits (join) for either to end; its calls are atomic but    *)
(* for these waits, which "doing" names.  What a thread does under a mutex *)
(* is one step.                                                            *)
(*                                                                         *)
(* Samples are counted in buffers.  Positions, speeds, waveforms, the file *)
(* formats and the seconds shown while recording are left out: playback    *)
(* may end at any tick.                                                    *)
(***************************************************************************)
EXTENDS Naturals

CONSTANTS
  AudioMessages,
  NoMessage,   \* the empty id: nothing is played
  MaxBuffers   \* bound: buffers captured in one recording

ASSUME AudioAssumption == MaxBuffers \in Nat /\ NoMessage \notin AudioMessages

VARIABLES
  doing,      \* what the main thread waits in, or "idle"
  recording,  \* m_isRecording, a plain bool that the capturing thread reads
  micOn,      \* m_recordThreadRunning
  mic,        \* m_recordThread; "none" is not joinable
  buffer,     \* m_recordedPcmAudio: how many buffers
  captured,   \* history: what the thread has captured since it started
  file,       \* history: what the last stopRecording() wrote, or "none"
  playing,    \* m_isPlaying
  current,    \* m_currentPlayingId
  next,       \* the message playAudio() is about to play
  type,       \* m_audioType: "voice" and "music" are 0 and 1, both "synth"
  mci,        \* m_isMciActive
  sounding,   \* m_audioPlaying
  workerOn,   \* m_audioThreadRunning
  worker,     \* m_audioThread
  samples,    \* whose samples m_playbackFilePcm holds
  volume, muted,
  shared,     \* m_volumeAtomic
  device,     \* the volume that MCI was given
  savedVolume \* QSettings

recordVars == <<recording, micOn, mic, buffer, captured, file>>
playVars   == <<playing, current, next, type, mci, sounding, workerOn, worker, samples>>
volumeVars == <<volume, muted, shared, device, savedVolume>>
audioVars  == <<doing, recordVars, playVars, volumeVars>>

Volumes == 0 .. 1
Kinds   == {"synth", "file", "mci"}
Threads == {"none", "opening", "looping", "filling", "closing", "ended"}

AudioTypeOK ==
  /\ doing \in {"idle", "record", "stop", "cancel", "play", "pause", "finish"}
  /\ {recording, micOn, playing, mci, sounding, workerOn, muted} \subseteq BOOLEAN
  /\ mic \in Threads /\ worker \in Threads
  /\ {buffer, captured} \subseteq 0 .. MaxBuffers
  /\ file \in 0 .. MaxBuffers \/ file = MaxBuffers + 1
  /\ {current, next, samples} \subseteq AudioMessages \union {NoMessage}
  /\ type \in Kinds
  /\ {volume, shared, device} \subseteq Volumes
  /\ savedVolume \in [volume : Volumes, muted : BOOLEAN]

NoFile == MaxBuffers + 1
Loudness(v, m) == IF m THEN 0 ELSE v

Idle == doing = "idle"

(* A recording that is written is whole and alone: everything its thread   *)
(* took from the device, the buffer in work when it was stopped too, and   *)
(* nothing else.  (What the device itself still holds is dropped.)         *)
(* Between recordings no thread captures and no audio is kept, so that the *)
(* next std::thread is never assigned over a joinable one.                 *)
RecordingIsWhole ==
  /\ file # NoFile => file = captured
  /\ recording => buffer = captured
  /\ Idle /\ ~recording => mic = "none" /\ buffer = 0

(* The thread that plays serves the message that is shown as playing, with *)
(* that message's samples; when nothing is shown as playing it is gone.    *)
(* The message that is current, playing or paused, is open in the engine   *)
(* that resumes it, and both engines are as loud as the slider and the     *)
(* mute button say, now and at the next start.                             *)
PlaysWhatIsShown ==
  /\ worker = "looping" /\ workerOn /\ sounding /\ type = "file" => samples = current
  /\ Idle /\ ~playing => worker = "none" /\ ~sounding
  /\ Idle /\ current # NoMessage => (mci <=> type = "mci")
  /\ mci => worker = "none" /\ ~workerOn /\ device = Loudness(volume, muted)
  /\ shared = Loudness(volume, muted) /\ savedVolume = [volume |-> volume, muted |-> muted]

AudioInit ==
  /\ doing = "idle"
  /\ recording = FALSE /\ micOn = FALSE /\ mic = "none"
  /\ buffer = 0 /\ captured = 0 /\ file = NoFile
  /\ playing = FALSE /\ current = NoMessage /\ next = NoMessage /\ type = "synth"
  /\ mci = FALSE /\ sounding = FALSE /\ workerOn = FALSE /\ worker = "none"
  /\ samples = NoMessage
  /\ savedVolume \in [volume : Volumes, muted : BOOLEAN]
  /\ volume = savedVolume.volume /\ muted = savedVolume.muted
  /\ shared = Loudness(savedVolume.volume, savedVolume.muted) /\ device = 0

-----------------------------------------------------------------------------
(* The two threads.                                                        *)

(* waveInOpen() may fail: the thread ends and the recording stays empty.   *)
MicOpened ==
  /\ mic = "opening"
  /\ mic' \in {"looping", "ended"}
  /\ UNCHANGED <<doing, recording, micOn, buffer, captured, file, playVars, volumeVars>>

(* The loop's condition; a stale m_isRecording may let one more pass.      *)
MicLoops ==
  /\ mic = "looping"
  /\ \/ micOn /\ captured < MaxBuffers /\ mic' = "filling"
     \/ (~micOn \/ ~recording) /\ mic' = "ended"
  /\ UNCHANGED <<doing, recording, micOn, buffer, captured, file, playVars, volumeVars>>

MicFills ==
  /\ mic = "filling"
  /\ buffer' = buffer + 1 /\ captured' = captured + 1
  /\ mic' = "looping"
  /\ UNCHANGED <<doing, recording, micOn, file, playVars, volumeVars>>

(* audioOutputWorker(); where waveOutOpen() fails, the thread ends.        *)
WorkerRuns ==
  /\ \/ worker = "opening" /\ worker' \in {"looping", "closing"}
     \/ worker = "looping" /\ ~(workerOn /\ sounding) /\ worker' = "closing"
  /\ UNCHANGED <<doing, playing, current, next, type, mci, sounding, workerOn, samples>>
  /\ UNCHANGED <<recordVars, volumeVars>>

WorkerEnds ==
  /\ worker = "closing"
  /\ worker' = "ended" /\ workerOn' = FALSE
  /\ UNCHANGED <<doing, playing, current, next, type, mci, sounding, samples>>
  /\ UNCHANGED <<recordVars, volumeVars>>

MicJoined    == mic \in {"none", "ended"}
WorkerJoined == worker \in {"none", "ended"}

-----------------------------------------------------------------------------
(* Recording.                                                              *)

(* startRecording() pauses what is playing first.                          *)
StartRecording ==
  /\ Idle /\ ~recording
  /\ doing' = "record"
  /\ IF playing THEN /\ playing' = FALSE /\ sounding' = FALSE /\ workerOn' = FALSE
                ELSE UNCHANGED <<playing, sounding, workerOn>>
  /\ UNCHANGED <<current, next, type, mci, worker, samples, recordVars, volumeVars>>

RecordingStarted ==
  /\ doing = "record" /\ WorkerJoined
  /\ doing' = "idle"
  /\ worker' = "none"
  /\ recording' = TRUE /\ micOn' = TRUE /\ mic' = "opening"
  /\ buffer' = 0 /\ captured' = 0 /\ file' = NoFile
  /\ UNCHANGED <<playing, current, next, type, mci, sounding, workerOn, samples, volumeVars>>

StopRecording ==
  /\ Idle /\ recording
  /\ recording' = FALSE /\ micOn' = FALSE
  /\ doing' \in {"stop", "cancel"}
  /\ UNCHANGED <<mic, buffer, captured, file, playVars, volumeVars>>

(* What saveWavFile() leaves: nothing if the file cannot be opened.        *)
Written == IF doing = "stop" THEN {buffer, NoFile} ELSE {NoFile}

(* Mutant: the recording is written without waiting for the thread.        *)
WrittenAtOnce ==
  /\ doing \in {"stop", "cancel"}
  /\ doing' = "idle"
  /\ mic' = IF MicJoined THEN "none" ELSE mic
  /\ file' \in Written
  /\ buffer' = 0
  /\ UNCHANGED <<recording, micOn, captured, playVars, volumeVars>>

(* stopRecording() and cancelRecording() after the thread is joined.       *)
RecordingStopped ==
  /\ doing \in {"stop", "cancel"} /\ MicJoined
  /\ doing' = "idle"
  /\ mic' = "none"
  /\ file' \in Written
  /\ buffer' = 0
  /\ UNCHANGED <<recording, micOn, captured, playVars, volumeVars>>

-----------------------------------------------------------------------------
(* Playback.                                                               *)

(* playAudio(): another message closes both engines; the same message is   *)
(* resumed, by MCI or by a thread, unless one is (still) running.          *)
PlayAudio(m) ==
  /\ Idle
  /\ IF m # current
     THEN /\ doing' = "play" /\ next' = m
          /\ mci' = FALSE /\ sounding' = FALSE /\ workerOn' = FALSE
          /\ UNCHANGED <<playing, worker, shared>>
     ELSE /\ playing' = TRUE
          /\ IF mci THEN UNCHANGED <<sounding, workerOn, worker>>
             ELSE /\ sounding' = TRUE /\ workerOn' = TRUE
                  /\ worker' = IF workerOn THEN worker ELSE "opening"
          /\ shared' = Loudness(volume, muted)
          /\ UNCHANGED <<doing, next, mci>>
  /\ UNCHANGED <<current, type, samples, volume, muted, device, savedVolume, recordVars>>

(* The rest of playAudio(), after the join: MCI plays the file, or it is   *)
(* a WAV file whose samples are read, or a tune is made up.                *)
AudioStarted(kind) ==
  /\ doing = "play" /\ WorkerJoined
  /\ doing' = "idle"
  /\ current' = next /\ type' = kind
  /\ mci' = (kind = "mci") /\ workerOn' = (kind # "mci")
  /\ worker' = IF kind = "mci" THEN "none" ELSE "opening"
  /\ samples' = IF kind = "file" THEN next ELSE samples
  /\ device' = IF kind = "mci" THEN Loudness(volume, muted) ELSE device
  /\ shared' = Loudness(volume, muted)
  /\ playing' = TRUE
  /\ UNCHANGED <<next, sounding, volume, muted, savedVolume, recordVars>>

PauseAudio ==
  /\ Idle /\ playing
  /\ doing' = "pause"
  /\ playing' = FALSE /\ sounding' = FALSE /\ workerOn' = FALSE
  /\ UNCHANGED <<current, next, type, mci, worker, samples, recordVars, volumeVars>>

TogglePlayPause(m) == IF current = m /\ playing THEN PauseAudio ELSE PlayAudio(m)

(* onPlaybackTimerTick() at the end of the message.                        *)
PlaybackEnds ==
  /\ Idle /\ playing
  /\ doing' = "finish"
  /\ playing' = FALSE /\ sounding' = FALSE /\ workerOn' = FALSE /\ mci' = FALSE
  /\ UNCHANGED <<current, next, type, worker, samples, recordVars, volumeVars>>

(* Mutant: the message that has ended stays the current one.               *)
PauseOnly ==
  /\ doing \in {"pause", "finish"} /\ WorkerJoined
  /\ doing' = "idle" /\ worker' = "none"
  /\ UNCHANGED <<playing, current, next, type, mci, sounding, workerOn, samples>>
  /\ UNCHANGED <<recordVars, volumeVars>>

(* pauseAudio() and the end of a message, after the join.                  *)
AudioStopped ==
  /\ doing \in {"pause", "finish"} /\ WorkerJoined
  /\ doing' = "idle" /\ worker' = "none"
  /\ current' = IF doing = "finish" THEN NoMessage ELSE current
  /\ UNCHANGED <<playing, next, type, mci, sounding, workerOn, samples, recordVars, volumeVars>>

-----------------------------------------------------------------------------
(* Loudness.                                                               *)

SetVolume(v) ==
  /\ Idle /\ v # volume
  /\ volume' = v
  /\ muted' = (muted /\ v = 0)
  /\ shared' = Loudness(v, muted')
  /\ device' = IF mci THEN Loudness(v, muted') ELSE device
  /\ savedVolume' = [volume |-> v, muted |-> muted']
  /\ UNCHANGED <<doing, recordVars, playVars>>

(* setMuted() and toggleMute().                                            *)
SetMuted ==
  /\ Idle
  /\ muted' = ~muted
  /\ shared' = Loudness(volume, muted')
  /\ device' = IF mci THEN Loudness(volume, muted') ELSE device
  /\ savedVolume' = [savedVolume EXCEPT !.muted = muted']
  /\ UNCHANGED <<doing, volume, recordVars, playVars>>

(* The constructor; the destructor's own joins are left out.               *)
AudioRestart ==
  /\ Idle /\ mic = "none" /\ worker = "none"
  /\ volume' = savedVolume.volume /\ muted' = savedVolume.muted
  /\ shared' = Loudness(savedVolume.volume, savedVolume.muted)
  /\ mci' = FALSE /\ playing' = FALSE /\ current' = NoMessage
  /\ type' = "synth" /\ samples' = NoMessage /\ next' = NoMessage
  /\ UNCHANGED <<doing, device, savedVolume, recordVars, sounding, workerOn, worker>>

AudioNext ==
  \/ MicOpened \/ MicLoops \/ MicFills \/ WorkerRuns \/ WorkerEnds
  \/ StartRecording \/ RecordingStarted \/ StopRecording \/ RecordingStopped
  \/ \E m \in AudioMessages : PlayAudio(m) \/ TogglePlayPause(m)
  \/ \E kind \in Kinds : AudioStarted(kind)
  \/ PauseAudio \/ PlaybackEnds \/ AudioStopped
  \/ \E v \in Volumes : SetVolume(v)
  \/ SetMuted \/ AudioRestart

AudioSpec == AudioInit /\ [][AudioNext]_audioVars
================================================================================
