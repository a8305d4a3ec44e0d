---------------------------- MODULE AudioPlayer -----------------------------
(***************************************************************************)
(* audio_player.c and speaker.c: one playback task, and the calls that     *)
(* give it something to play: speaker_beep, from the task that feeds, and  *)
(* the voice of the intercom (Intercom).                                   *)
(*                                                                         *)
(* The playback task has the highest priority and never blocks while it    *)
(* plays, so it keeps core 1 to itself; the voice task is pinned to that   *)
(* core and runs only while playback rests.  The beep comes from core 0,   *)
(* between any two steps of the others: each access to a variable they     *)
(* share is a step of its own.                                             *)
(***************************************************************************)
EXTENDS Integers

CONSTANTS
    BeepSamples,  \* s_beep_total
    MaxSamples,   \* MAX_SESSION_SAMPLES
    MaxBeeps      \* bound: beeps

ASSUME AudioAssumption ==
    BeepSamples \in Nat \ {0} /\ MaxSamples \in Nat \ {0} /\ MaxBeeps \in Nat

Callers == {"beep", "voice"}
Buffers == {"none", "beep", "session"}
Given == [samples : Buffers, count : Nat]

VARIABLES
    playing,         \* s_playing
    samples, count,  \* s_samples, s_sample_count
    sem,             \* s_play_sem, binary
    unmuted,         \* the LEDC drives the speaker
    task,            \* where audio_playback_task is
    own,             \* its locals samples and sample_count
    pos,             \* i of play_samples
    at,              \* where each caller is
    want,            \* the arguments of its audio_player_start
    \* history and bounds
    beeps,           \* beeps begun
    beepHeard,       \* samples of the beep that sounded in the last playback
    alone            \* no voice was started since the beep began

playerVars == <<playing, samples, count, sem, unmuted, task, own, pos>>
callerVars == <<at, want>>
beepGhosts == <<beeps, beepHeard, alone>>
audioVars == <<playing, samples, count, sem, unmuted, task, own, pos, at, want,
               beeps, beepHeard, alone>>

TaskPlaces == {"wait", "load", "load_count", "unmute", "play", "mute", "clear"}
StartPlaces == {"start", "stop", "mute", "pause", "samples", "count", "flag", "give"}
BeepPlaces == {"nap", "poll", "last_stop", "last_mute"}
VoicePlaces == {"peek", "read"}
CallerPlaces == {"idle"} \cup StartPlaces \cup BeepPlaces \cup VoicePlaces

AudioTypeOK ==
    /\ playing \in BOOLEAN
    /\ samples \in Buffers
    /\ count \in Nat
    /\ sem \in BOOLEAN
    /\ unmuted \in BOOLEAN
    /\ task \in TaskPlaces
    /\ own \in Given
    /\ pos \in Nat /\ (task = "play" => pos <= own.count)
    /\ at \in [Callers -> CallerPlaces]
    /\ want \in [Callers -> Given]
    /\ beeps \in 0 .. MaxBeeps
    /\ beepHeard \in Nat
    /\ alone \in BOOLEAN

Nothing == [samples |-> "none", count |-> 0]

AudioInit ==
    /\ playing = FALSE
    /\ samples = "none" /\ count = 0
    /\ sem = FALSE
    /\ unmuted = FALSE
    /\ task = "wait"
    /\ own = Nothing
    /\ pos = 0
    /\ at = [c \in Callers |-> "idle"]
    /\ want = [c \in Callers |-> Nothing]
    /\ beeps = 0
    /\ beepHeard = 0
    /\ alone = FALSE

Move(c, from, to) ==
    /\ at[c] = from
    /\ at' = [at EXCEPT ![c] = to]

\* Nothing of higher priority wants the core of the voice task.
Cpu1Free == task = "wait" /\ ~sem

\* Milliseconds are enough for every step of the playback task but playing.
Settled == Cpu1Free \/ task = "play"

\* A caller can take a step.
Runs(c) == c = "beep" \/ Cpu1Free

-----------------------------------------------------------------------------
(***************************************************************************)
(* audio_player_start, by caller c.                                        *)
(***************************************************************************)

StartAnyway(c) ==
    /\ Runs(c)
    /\ Move(c, "start", "samples")
    /\ UNCHANGED <<playerVars, want, beepGhosts>>

\* Something is playing: stop it first.
StartChecks(c) ==
    /\ Runs(c)
    /\ Move(c, "start", IF playing THEN "stop" ELSE "samples")
    /\ UNCHANGED <<playerVars, want, beepGhosts>>

StartStops(c) ==
    /\ Runs(c)
    /\ Move(c, "stop", "mute")
    /\ playing' = FALSE
    /\ UNCHANGED <<samples, count, sem, unmuted, task, own, pos, want, beepGhosts>>

StartMutes(c) ==
    /\ Runs(c)
    /\ Move(c, "mute", "pause")
    /\ unmuted' = FALSE
    /\ UNCHANGED <<playing, samples, count, sem, task, own, pos, want, beepGhosts>>

\* The 5 ms are over.  Playback looks at s_playing 80 times in that time, so
\* it has come to rest, unless it has been started again meanwhile.
StartResumes(c) ==
    /\ Runs(c)
    /\ Settled /\ (task = "play" => playing)
    /\ Move(c, "pause", "samples")
    /\ UNCHANGED <<playerVars, want, beepGhosts>>

SetSamples(c) ==
    /\ Runs(c)
    /\ Move(c, "samples", "count")
    /\ samples' = want[c].samples
    /\ UNCHANGED <<playing, count, sem, unmuted, task, own, pos, want, beepGhosts>>

SetCount(c) ==
    /\ Runs(c)
    /\ Move(c, "count", "flag")
    /\ count' = want[c].count
    /\ UNCHANGED <<playing, samples, sem, unmuted, task, own, pos, want, beepGhosts>>

SetPlaying(c) ==
    /\ Runs(c)
    /\ Move(c, "flag", "give")
    /\ playing' = TRUE
    /\ UNCHANGED <<samples, count, sem, unmuted, task, own, pos, want, beepGhosts>>

GiveSem(c) ==
    /\ Runs(c)
    /\ Move(c, "give", IF c = "beep" THEN "nap" ELSE "idle")
    /\ sem' = TRUE
    /\ UNCHANGED <<playing, samples, count, unmuted, task, own, pos, want, beepGhosts>>

Start(c) ==
    \/ StartChecks(c) \/ StartStops(c) \/ StartMutes(c) \/ StartResumes(c)
    \/ SetSamples(c) \/ SetCount(c) \/ SetPlaying(c) \/ GiveSem(c)

-----------------------------------------------------------------------------
(***************************************************************************)
(* speaker_beep, from the one task that is in the feed workflow.           *)
(***************************************************************************)

BeepBegins(voiceQuiet) ==
    /\ beeps < MaxBeeps
    /\ beeps' = beeps + 1
    /\ Move("beep", "idle", "start")
    /\ want' = [want EXCEPT !["beep"] = [samples |-> "beep", count |-> BeepSamples]]
    /\ beepHeard' = 0
    /\ alone' = voiceQuiet
    /\ UNCHANGED playerVars

\* The 10 ms are over, in which playback takes the semaphore if it rests.
BeepNapEnds ==
    /\ Settled
    /\ Move("beep", "nap", "poll")
    /\ UNCHANGED <<playerVars, want, beepGhosts>>

\* while (audio_player_is_playing()): another 20 ms, or the end.
BeepPolls ==
    /\ Move("beep", "poll", IF playing THEN "poll" ELSE "last_stop")
    /\ UNCHANGED <<playerVars, want, beepGhosts>>

BeepStops ==
    /\ Move("beep", "last_stop", "last_mute")
    /\ playing' = FALSE
    /\ UNCHANGED <<samples, count, sem, unmuted, task, own, pos, want, beepGhosts>>

BeepReturns ==
    /\ Move("beep", "last_mute", "idle")
    /\ unmuted' = FALSE
    /\ UNCHANGED <<playing, samples, count, sem, task, own, pos, want, beepGhosts>>

Beep == Start("beep") \/ BeepNapEnds \/ BeepPolls \/ BeepStops \/ BeepReturns

-----------------------------------------------------------------------------
(***************************************************************************)
(* audio_playback_task and play_samples.                                   *)
(***************************************************************************)

Playback(from, to) ==
    /\ task = from
    /\ task' = to
    /\ UNCHANGED <<samples, count, at, want, beeps, alone>>

TakeSem ==
    /\ sem
    /\ Playback("wait", "load")
    /\ sem' = FALSE
    /\ UNCHANGED <<playing, unmuted, own, pos, beepHeard>>

LoadSamples ==
    /\ Playback("load", "load_count")
    /\ own' = [own EXCEPT !.samples = samples]
    /\ UNCHANGED <<playing, sem, unmuted, pos, beepHeard>>

LoadCountForgetting ==
    /\ Playback("load_count",
                IF own.samples = "none" \/ count = 0 THEN "wait" ELSE "unmute")
    /\ own' = [own EXCEPT !.count = count]
    /\ UNCHANGED <<playing, sem, unmuted, pos, beepHeard>>

\* Without samples there is nothing to do but clear s_playing.
LoadCount ==
    /\ Playback("load_count",
                IF own.samples = "none" \/ count = 0 THEN "clear" ELSE "unmute")
    /\ own' = [own EXCEPT !.count = count]
    /\ UNCHANGED <<playing, sem, unmuted, pos, beepHeard>>

Unmute ==
    /\ Playback("unmute", "play")
    /\ unmuted' = TRUE
    /\ pos' = 0
    /\ beepHeard' = 0
    /\ UNCHANGED <<playing, sem, own>>

\* One sample reaches the speaker.
PlaySample ==
    /\ pos < own.count
    /\ playing
    /\ Playback("play", "play")
    /\ pos' = pos + 1
    /\ beepHeard' = IF own.samples = "beep" THEN beepHeard + 1 ELSE beepHeard
    /\ UNCHANGED <<playing, sem, unmuted, own>>

PlayEnds ==
    /\ pos >= own.count \/ ~playing
    /\ Playback("play", "mute")
    /\ UNCHANGED <<playing, sem, unmuted, own, pos, beepHeard>>

Mute ==
    /\ Playback("mute", "clear")
    /\ unmuted' = FALSE
    /\ UNCHANGED <<playing, sem, own, pos, beepHeard>>

ClearLeavingFlag ==
    /\ Playback("clear", "wait")
    /\ UNCHANGED <<playing, sem, unmuted, own, pos, beepHeard>>

Clear ==
    /\ Playback("clear", "wait")
    /\ playing' = FALSE
    /\ UNCHANGED <<sem, unmuted, own, pos, beepHeard>>

PlaybackTask ==
    TakeSem \/ LoadSamples \/ LoadCount \/ Unmute \/ PlaySample \/ PlayEnds
        \/ Mute \/ Clear
=============================================================================
