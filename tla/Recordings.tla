----------------------------- MODULE Recordings ------------------------------
(***************************************************************************)
(* A recorded call on its way from the recorder's raw samples to Feishu    *)
(* (the WAV file, the copy without its leading silence, the encoded copy    *)
(* with the duration it is sent with), and a typed prompt converted to the *)
(* rate of the module, of cmd/dj4ghub-macos/automation.go.                 *)
(*                                                                         *)
(* A sound is either the loudness of its 20 ms windows with the bytes left *)
(* over, or the samples themselves. A file is what its header says, of     *)
(* which sound, and how many of its bytes the data chunk leaves out.       *)
(***************************************************************************)
EXTENDS Integers, Sequences, FiniteSets

CONSTANTS
  Recorded,         \* what recorders leave: [windows |-> Seq(BOOLEAN), rest |-> bytes]
  Speech,           \* the speech of a typed prompt: a sequence of samples
  SpeechRate        \* the sample rates of the speech

\* Recordings and speech are of finite length, and speech comes at some rate.
ASSUME SoundAssumption ==
  /\ Recorded \subseteq [windows : Seq(BOOLEAN), rest : Nat]
  /\ Speech \subseteq Seq(Int) /\ SpeechRate \subseteq Nat \ {0}

VARIABLES
  sound,            \* what was recorded or spoken
  stage,            \* how far the recording or the prompt is
  soundFiles,       \* the files of the recording that are there
  clip,             \* the file that is encoded
  trimmed,          \* the samples that were cut off
  durationMS,       \* the duration the clip is sent with
  modulePrompt      \* the prompt that is uploaded to the module

soundVars == <<sound, stage, soundFiles, clip, trimmed, durationMS, modulePrompt>>

NoClip == [dataSize |-> 0, sampleRate |-> 0, cut |-> 0]

\* The header of 16-bit mono PCM, before the sound without its first cut bytes.
Header(dataSize, rate, cut) == [dataSize |-> dataSize, sampleRate |-> rate, cut |-> cut]

Window(rate) == rate \div 50
RawSize(s, rate) == 2 * Window(rate) * Len(s.windows) + s.rest

SoundInit ==
  /\ \/ sound \in Recorded /\ stage = "recorded" /\ soundFiles = {"raw"} /\ modulePrompt = NoClip
     \/ /\ sound \in Speech /\ stage = "spoken" /\ soundFiles = {}
        /\ \E rate \in SpeechRate : modulePrompt = Header(2 * Len(sound), rate, 0)
  /\ clip = NoClip /\ trimmed = 0 /\ durationMS = 0

-------------------------------------------------------------------------------
(* finishHostCallRecording *)

\* Nothing was recorded, or the file cannot be written, in part or at all: the samples stay.
FinishFails ==
  /\ stage = "recorded"
  /\ stage' = "dropped"
  /\ UNCHANGED <<sound, soundFiles, clip, trimmed, durationMS, modulePrompt>>

\* The raw samples become a WAV file at the rate of the module, and are removed.
\* Mutant: the samples are removed before the file is written.
RemovesFirst ==
  /\ stage = "recorded" /\ RawSize(sound, 8000) > 0
  /\ \E written \in BOOLEAN :
       /\ soundFiles' = IF written THEN {"wav"} ELSE {}
       /\ stage' = IF written THEN "saved" ELSE "dropped"
       /\ clip' = IF written THEN Header(RawSize(sound, 8000), 8000, 0) ELSE clip
  /\ UNCHANGED <<sound, trimmed, durationMS, modulePrompt>>
Finish ==
  /\ stage = "recorded" /\ RawSize(sound, 8000) > 0
  /\ stage' = "saved"
  /\ clip' = Header(RawSize(sound, 8000), 8000, 0)
  /\ \E removed \in BOOLEAN : soundFiles' = IF removed THEN {"wav"} ELSE {"raw", "wav"}
  /\ UNCHANGED <<sound, trimmed, durationMS, modulePrompt>>

-------------------------------------------------------------------------------
(* trimLeadingSilenceWAV *)

SustainedVoiceFrames == 8

\* The last quiet window up to n, 0 if there is none.
LastQuiet(windows, n) ==
  LET Quiet == {i \in 1..n : ~windows[i]}
  IN IF Quiet = {} THEN 0 ELSE CHOOSE i \in Quiet : \A j \in Quiet : j <= i

\* The loud windows in a row that end with the n-th.
\* Mutant: a quiet window does not start the count again.
AboveInAll(windows, n) == Cardinality({i \in 1..n : windows[i]})
AboveThreshold(windows, n) == n - LastQuiet(windows, n)

\* The windows before the voice, or none when it is never loud for long enough.
Onsets(windows) ==
  LET Loud == {n \in 1..Len(windows) : AboveThreshold(windows, n) = SustainedVoiceFrames}
  IN IF Loud = {} THEN {}
     ELSE {(CHOOSE n \in Loud : \A m \in Loud : n <= m) - SustainedVoiceFrames}

\* The samples to leave out: up to 200 ms before the voice.
TrimSamples(s, rate) ==
  LET preroll == (rate * 200) \div 1000
      Cuts == {n \in {w * Window(rate) - preroll : w \in Onsets(s.windows)} :
                 n > 0 /\ 2 * n < RawSize(s, rate)}
  IN IF Cuts = {} \/ RawSize(s, rate) < 4 THEN 0 ELSE CHOOSE n \in Cuts : TRUE

\* forwardCallRecording: a copy without the silence, or the recording as it is, also when
\* the copy cannot be written.
\* Mutant: the copy keeps the header of the recording.
TrimKeepsHeader ==
  /\ stage = "saved"
  /\ LET n == TrimSamples(sound, clip.sampleRate)
     IN \E cuts \in {n > 0, FALSE} :
          /\ trimmed' = IF cuts THEN n ELSE 0
          /\ clip' = IF cuts THEN [clip EXCEPT !.cut = 2 * n] ELSE clip
          /\ soundFiles' = IF cuts THEN soundFiles \union {"trimmed"} ELSE soundFiles
  /\ stage' = "trimmed"
  /\ UNCHANGED <<sound, durationMS, modulePrompt>>
Trim ==
  /\ stage = "saved"
  /\ LET n == TrimSamples(sound, clip.sampleRate)
     IN \E cuts \in {n > 0, FALSE} :
          /\ trimmed' = IF cuts THEN n ELSE 0
          /\ clip' = IF cuts THEN Header(clip.dataSize - 2 * n, clip.sampleRate, 2 * n) ELSE clip
          /\ soundFiles' = IF cuts THEN soundFiles \union {"trimmed"} ELSE soundFiles
  /\ stage' = "trimmed"
  /\ UNCHANGED <<sound, durationMS, modulePrompt>>

-------------------------------------------------------------------------------
(* transcodeRecordingToOpus *)

wavDurationMS(c) == (c.dataSize * 1000) \div (c.sampleRate * 2)

\* No duration, no encoder or no encoding: nothing is sent, and the copy goes.
TranscodeFails ==
  /\ stage = "trimmed"
  /\ stage' = "dropped" /\ soundFiles' = soundFiles \ {"trimmed"}
  /\ UNCHANGED <<sound, clip, trimmed, durationMS, modulePrompt>>

Transcode ==
  /\ stage = "trimmed" /\ wavDurationMS(clip) > 0
  /\ stage' = "encoded" /\ durationMS' = wavDurationMS(clip)
  /\ soundFiles' = soundFiles \union {"opus"}
  /\ UNCHANGED <<sound, clip, trimmed, modulePrompt>>

\* The encoded copy is sent, or is not, and the copies go.
Sent ==
  /\ stage = "encoded"
  /\ stage' = "sent" /\ soundFiles' = soundFiles \ {"trimmed", "opus"}
  /\ UNCHANGED <<sound, clip, trimmed, durationMS, modulePrompt>>

-------------------------------------------------------------------------------
(* normalizeLinuxPromptWAV *)

TargetRate == 8000
PromptPrerollSamples == 4000

\* Go's division of integers, towards zero.
Quotient(a, b) == IF a < 0 THEN -((-a) \div b) ELSE a \div b

TargetSamples(n, rate) == (n * TargetRate + rate - 1) \div rate

\* The index-th sample at the rate of the module: on the line between its neighbours.
Resampled(samples, rate, index) ==
  LET base == IF (index * rate) \div TargetRate >= Len(samples) - 1
                THEN Len(samples) - 1 ELSE (index * rate) \div TargetRate
      fraction == IF base = Len(samples) - 1 THEN 0 ELSE (index * rate) % TargetRate
      first == samples[base + 1]
      second == IF base + 1 < Len(samples) THEN samples[base + 2] ELSE first
  IN first + Quotient((second - first) * fraction, TargetRate)

\* Speech at the rate of the module is taken as it is, speech without samples refused.
NormalizeLeaves ==
  /\ stage = "spoken"
  /\ stage' = IF sound # <<>> /\ modulePrompt.sampleRate = TargetRate
               THEN "prompt" ELSE "dropped"
  /\ sound = <<>> \/ modulePrompt.sampleRate = TargetRate
  /\ UNCHANGED <<sound, soundFiles, clip, trimmed, durationMS, modulePrompt>>

\* Mutant: the silence is not counted in the header.
NormalizeShort ==
  /\ stage = "spoken" /\ sound # <<>> /\ modulePrompt.sampleRate # TargetRate
  /\ stage' = "prompt"
  /\ LET n == TargetSamples(Len(sound), modulePrompt.sampleRate)
     IN /\ sound' = [i \in 1..n |-> Resampled(sound, modulePrompt.sampleRate, i - 1)]
        /\ modulePrompt' = Header(2 * n, TargetRate, -2 * PromptPrerollSamples)
  /\ UNCHANGED <<soundFiles, clip, trimmed, durationMS>>
Normalize ==
  /\ stage = "spoken" /\ sound # <<>> /\ modulePrompt.sampleRate # TargetRate
  /\ stage' = "prompt"
  /\ LET n == TargetSamples(Len(sound), modulePrompt.sampleRate)
     IN /\ sound' = [i \in 1..n |-> Resampled(sound, modulePrompt.sampleRate, i - 1)]
        /\ modulePrompt' = Header(2 * (PromptPrerollSamples + n), TargetRate,
                            -2 * PromptPrerollSamples)
  /\ UNCHANGED <<soundFiles, clip, trimmed, durationMS>>

SoundNext ==
  \/ FinishFails \/ Finish \/ Trim \/ TranscodeFails \/ Transcode \/ Sent
  \/ NormalizeLeaves \/ Normalize

SoundSpec == SoundInit /\ [][SoundNext]_soundVars

-------------------------------------------------------------------------------
(* Properties *)

\* Eight windows in a row are loud from the i-th on.
VoiceAt(windows, i) ==
  i + SustainedVoiceFrames - 1 <= Len(windows)
    /\ \A k \in i..(i + SustainedVoiceFrames - 1) : windows[k]

\* What is cut off a recording ends 200 ms before the first voice in it, so that no voice
\* is lost (trimLeadingSilenceWAV).
CutsSilenceOnly ==
  trimmed > 0 =>
    \E i \in DOMAIN sound.windows :
      /\ VoiceAt(sound.windows, i) /\ \A j \in 1..(i - 1) : ~VoiceAt(sound.windows, j)
      /\ (trimmed * 1000) \div clip.sampleRate + 200 = (i - 1) * 20

\* The clip's header, and the duration it is sent with, are those of the samples that
\* follow: with what was cut they make up the recording (transcodeRecordingToOpus).
DurationTrue ==
  /\ stage \in {"saved", "trimmed", "encoded", "sent"} =>
       clip.dataSize + clip.cut = RawSize(sound, 8000)
  /\ stage \in {"encoded", "sent"} =>
       durationMS + (trimmed * 1000) \div clip.sampleRate
         \in {(RawSize(sound, 8000) * 1000) \div 16000 - d : d \in {0, 1}}

\* What was recorded is kept, as samples or as a file, and the copies made to send it are
\* gone when the forwarding ends (finishHostCallRecording, forwardCallRecording).
RecordingKept ==
  /\ stage \in {"recorded", "saved", "trimmed", "encoded", "sent", "dropped"}
       /\ modulePrompt = NoClip => soundFiles \cap {"raw", "wav"} # {}
  /\ stage \in {"sent", "dropped"} => soundFiles \subseteq {"raw", "wav"}

\* A prompt for the module has its rate, and its header counts its samples with the
\* silence that primes the route (normalizeLinuxPromptWAV).
PromptWhole ==
  stage = "prompt" =>
    /\ modulePrompt.sampleRate = TargetRate
    /\ modulePrompt.dataSize + modulePrompt.cut = 2 * Len(sound)

RecordingsWhole == CutsSilenceOnly /\ DurationTrue /\ RecordingKept /\ PromptWhole
===============================================================================
