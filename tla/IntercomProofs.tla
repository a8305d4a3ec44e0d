--------------------------- MODULE IntercomProofs ---------------------------
(***************************************************************************)
(* Theorems about Intercom and the AudioPlayer under it, for every buffer  *)
(* size, message length and bound.                                         *)
(***************************************************************************)
EXTENDS Intercom, TLAPS

\* A caller that moves stays at a place of the program.
LEMMA MoveType ==
    ASSUME AudioTypeOK, NEW c \in Callers, NEW from, NEW to \in CallerPlaces,
           Move(c, from, to)
    PROVE  at' \in [Callers -> CallerPlaces]
BY DEF AudioTypeOK, Move

\* audio_player_start keeps the player's types, whoever calls it.
LEMMA StartTyping ==
    ASSUME AudioTypeOK, NEW c \in Callers, Start(c)
    PROVE  AudioTypeOK'
<1> USE DEF AudioTypeOK, playerVars, beepGhosts
<1>1. at' \in [Callers -> CallerPlaces]
  BY MoveType DEF Start, StartChecks, StartStops, StartMutes, StartResumes, SetSamples,
                  SetCount, SetPlaying, GiveSem, CallerPlaces, StartPlaces, BeepPlaces
<1>2. want[c].samples \in Buffers /\ want[c].count \in Nat
  BY DEF Given
<1>3. CASE StartChecks(c) \/ StartResumes(c)
  BY <1>1, <1>3 DEF StartChecks, StartResumes
<1>4. CASE StartStops(c) \/ StartMutes(c)
  BY <1>1, <1>4 DEF StartStops, StartMutes
<1>5. CASE SetSamples(c) \/ SetCount(c)
  BY <1>1, <1>2, <1>5 DEF SetSamples, SetCount
<1>6. CASE SetPlaying(c) \/ GiveSem(c)
  BY <1>1, <1>6 DEF SetPlaying, GiveSem
<1> QED
  BY <1>3, <1>4, <1>5, <1>6 DEF Start

\* So does the rest of speaker_beep.
LEMMA BeepTyping ==
    ASSUME AudioTypeOK, Beep
    PROVE  AudioTypeOK'
<1>1. CASE Start("beep")
  BY <1>1, StartTyping DEF Callers
<1>2. CASE BeepNapEnds \/ BeepPolls \/ BeepStops \/ BeepReturns
  <2>1. at' \in [Callers -> CallerPlaces]
    BY <1>2, MoveType DEF BeepNapEnds, BeepPolls, BeepStops, BeepReturns, Callers,
                          CallerPlaces, BeepPlaces
  <2> QED
    BY <1>2, <2>1 DEF AudioTypeOK, playerVars, beepGhosts, BeepNapEnds, BeepPolls,
                      BeepStops, BeepReturns
<1> QED
  BY <1>1, <1>2 DEF Beep

\* So does the playback task.
LEMMA PlaybackTyping ==
    ASSUME AudioTypeOK, PlaybackTask
    PROVE  AudioTypeOK'
<1> USE DEF AudioTypeOK, Playback, TaskPlaces
<1>1. CASE TakeSem \/ PlayEnds \/ Mute \/ Clear
  BY <1>1 DEF TakeSem, PlayEnds, Mute, Clear
<1>4. CASE Unmute
  <2>1. own.count \in Nat
    BY DEF Given
  <2> QED
    BY <1>4, <2>1 DEF Unmute
<1>2. CASE LoadSamples \/ LoadCount
  BY <1>2 DEF LoadSamples, LoadCount, Given
<1>3. CASE PlaySample
  BY <1>3 DEF PlaySample, Given
<1> QED
  BY <1>1, <1>2, <1>3, <1>4 DEF PlaybackTask

-----------------------------------------------------------------------------
(***************************************************************************)
(* The buffer: what is collected, and the message under way, fit.          *)
(***************************************************************************)
PartialInv ==
    /\ partial \in [length : Nat, arrived : Nat]
    /\ partial # NoPartial => partial.arrived < partial.length

\* What one fragment of a message writes and leaves behind.
LEMMA DataFacts ==
    ASSUME TypeOK, BufferHolds,
           NEW length \in Nat, NEW offset \in Nat, NEW fragment \in Nat,
           offset + fragment <= length, Data(length, offset, fragment)
    PROVE  /\ buffered' \in 0 .. MaxSamples /\ extent' \in 0 .. MaxSamples
           /\ open' \in BOOLEAN /\ session' \in Nat
           /\ content' \in [1 .. MaxSamples -> Nat]
           /\ PartialInv'
<1> USE AudioAssumption
<1> DEFINE base == IF ~open /\ offset = 0 THEN 0 ELSE buffered
           now == IF ~open /\ offset = 0 THEN session + 1 ELSE session
           last == base + offset + fragment
<1>1. base \in 0 .. MaxSamples /\ now \in Nat /\ extent \in 0 .. MaxSamples
  BY DEF TypeOK, BufferHolds
<1>2. open' \in BOOLEAN /\ session' = now
  BY DEF Data, TypeOK
<1>3. PartialInv'
  BY DEF Data, PartialInv, NoPartial
<1>4. CASE Fits(base, fragment, length)
  <2>1. last \in 0 .. MaxSamples /\ base + length \in 0 .. MaxSamples
    BY <1>1, <1>4 DEF Fits
  <2>2. /\ extent' = IF last > extent THEN last ELSE extent
        /\ buffered' = IF offset + fragment >= length THEN base + length ELSE base
        /\ content' \in [1 .. MaxSamples -> Nat]
    BY <1>1, <1>4 DEF Data, TypeOK
  <2> QED
    BY <1>1, <1>2, <1>3, <2>1, <2>2
<1>5. CASE ~Fits(base, fragment, length)
  <2>1. buffered' = base /\ UNCHANGED <<content, extent>>
    BY <1>5 DEF Data
  <2> QED
    BY <1>1, <1>2, <1>3, <2>1 DEF TypeOK
<1> QED
  BY <1>4, <1>5

-----------------------------------------------------------------------------
(***************************************************************************)
(* s_playing is up only while something will still be played or cleared:   *)
(* the semaphore is given, playback is under way, or a caller is about to  *)
(* give the semaphore.                                                     *)
(***************************************************************************)
RestInv ==
    /\ playing => sem \/ task # "wait" \/ \E c \in Callers : at[c] = "give"
    /\ unmuted => task \in {"play", "mute"}

IInv == TypeOK /\ BufferHolds /\ PartialInv /\ RestInv

\* What the start of a playback does to RestInv.
LEMMA StartRests ==
    ASSUME AudioTypeOK, RestInv, NEW c \in Callers, Start(c)
    PROVE  RestInv'
<1> USE DEF RestInv, AudioTypeOK, Move, playerVars
<1>1. CASE StartChecks(c) \/ StartResumes(c) \/ StartMutes(c) \/ SetSamples(c) \/ SetCount(c)
  <2>1. UNCHANGED <<playing, sem, task>> /\ (unmuted' => unmuted)
    BY <1>1 DEF StartChecks, StartResumes, StartMutes, SetSamples, SetCount
  <2>2. \A d \in Callers : at[d] = "give" => at'[d] = "give"
    BY <1>1 DEF StartChecks, StartResumes, StartMutes, SetSamples, SetCount
  <2> QED
    BY <2>1, <2>2
<1>2. CASE StartStops(c)
  BY <1>2 DEF StartStops
<1>3. CASE SetPlaying(c)
  BY <1>3 DEF SetPlaying
<1>4. CASE GiveSem(c)
  BY <1>4 DEF GiveSem
<1> QED
  BY <1>1, <1>2, <1>3, <1>4 DEF Start

\* Steps of a caller outside audio_player_start.
LEMMA MoveRests ==
    ASSUME AudioTypeOK, RestInv, NEW c \in Callers, NEW from, NEW to,
           from # "give", Move(c, from, to),
           UNCHANGED <<sem, task>>, playing' => playing, unmuted' => unmuted
    PROVE  RestInv'
<1>1. \A d \in Callers : at[d] = "give" => at'[d] = "give"
  BY DEF AudioTypeOK, Move
<1> QED
  BY <1>1 DEF RestInv

\* The playback task clears what it leaves.
LEMMA PlaybackRests ==
    ASSUME AudioTypeOK, RestInv, PlaybackTask
    PROVE  RestInv'
<1> USE DEF RestInv, Playback, AudioTypeOK
<1>1. CASE TakeSem \/ LoadSamples \/ LoadCount
  BY <1>1 DEF TakeSem, LoadSamples, LoadCount
<1>2. CASE Unmute \/ PlaySample \/ PlayEnds
  BY <1>2 DEF Unmute, PlaySample, PlayEnds
<1>3. CASE Mute \/ Clear
  BY <1>3 DEF Mute, Clear
<1> QED
  BY <1>1, <1>2, <1>3 DEF PlaybackTask

-----------------------------------------------------------------------------
\* Every step keeps the invariant.
LEMMA Inductive == IInv /\ [Next]_vars => IInv'
<1> SUFFICES ASSUME IInv, [Next]_vars PROVE IInv'
  OBVIOUS
<1> USE DEF IInv
<1>1. AudioTypeOK /\ RestInv /\ BufferHolds
  BY DEF TypeOK
<1>2. ASSUME NEW length \in Nat, NEW offset \in Nat, NEW fragment \in Nat,
             offset + fragment <= length, Data(length, offset, fragment),
             messages' \in 0 .. MaxMessages, owed' \in Nat,
             UNCHANGED <<audioVars, trigger, drops, stopped>>
      PROVE  IInv'
  <2>1. /\ buffered' \in 0 .. MaxSamples /\ extent' \in 0 .. MaxSamples
        /\ open' \in BOOLEAN /\ session' \in Nat
        /\ content' \in [1 .. MaxSamples -> Nat]
        /\ PartialInv'
    BY <1>2, DataFacts
  <2>2. AudioTypeOK' /\ RestInv'
    BY <1>1, <1>2 DEF audioVars, AudioTypeOK, RestInv
  <2>3. extent' <= MaxSamples /\ buffered' <= MaxSamples
        /\ extent' \in Nat /\ buffered' \in Nat
    BY <2>1, AudioAssumption
  <2>4. /\ trigger' \in BOOLEAN /\ drops' \in 0 .. MaxDrops
        /\ stopped' \in [session : Nat, length : Nat]
    BY <1>2 DEF TypeOK
  <2>5. BufferHolds'
    BY <2>3 DEF BufferHolds
  <2>6. TypeOK'
    BY <1>2, <2>1, <2>2, <2>3, <2>4 DEF TypeOK, PartialInv
  <2> QED
    BY <2>1, <2>2, <2>5, <2>6
<1>3. CASE MessageStarts
  <2>1. messages' \in 0 .. MaxMessages
    BY <1>3, IntercomAssumption DEF MessageStarts, TypeOK
  <2>2. PICK length \in Lengths : \E fragment \in 1 .. length : Data(length, 0, fragment)
    BY <1>3 DEF MessageStarts
  <2>3. PICK fragment \in 1 .. length : Data(length, 0, fragment)
    BY <2>2
  <2>4. length \in Nat /\ fragment \in Nat /\ 0 + fragment <= length
    BY IntercomAssumption
  <2> QED
    BY <1>2, <1>3, <2>1, <2>3, <2>4 DEF MessageStarts
<1>4. CASE MessageContinues
  <2> DEFINE rest == partial.length - partial.arrived
  <2>1. /\ partial.length \in Nat /\ partial.arrived \in Nat /\ rest \in Nat
        /\ partial.arrived + rest <= partial.length
    BY <1>4 DEF MessageContinues, PartialInv
  <2>2. Data(partial.length, partial.arrived, rest)
    BY <1>4 DEF MessageContinues
  <2>3. messages' \in 0 .. MaxMessages /\ owed' \in Nat
    BY <1>4 DEF MessageContinues, TypeOK
  <2> QED
    BY <1>2, <1>4, <2>1, <2>2, <2>3 DEF MessageContinues
<1>5. CASE Stop
  <2>1. AudioTypeOK' /\ RestInv'
    BY <1>1, <1>5 DEF Stop, audioVars, AudioTypeOK, RestInv
  <2> QED
    BY <1>5, <2>1 DEF Stop, KeepSession, TypeOK, BufferHolds, PartialInv
<1>6. CASE Disconnect
  <2>1. AudioTypeOK' /\ RestInv'
    BY <1>1, <1>6 DEF Disconnect, audioVars, AudioTypeOK, RestInv
  <2>2. PartialInv' /\ drops' \in 0 .. MaxDrops
    BY <1>6, IntercomAssumption DEF Disconnect, TypeOK, PartialInv, NoPartial
  <2>3. BufferHolds'
    BY <1>6, AudioAssumption DEF Disconnect, BufferHolds
  <2>4. TypeOK'
    BY <1>6, <2>1, <2>2 DEF Disconnect, TypeOK, PartialInv
  <2> QED
    BY <2>1, <2>2, <2>3, <2>4
<1>7. ASSUME AudioTypeOK', RestInv', owed' \in Nat, trigger' \in BOOLEAN,
             UNCHANGED <<buffered, open, partial, content, extent, session,
                         messages, drops, stopped>>
      PROVE  IInv'
  BY <1>7 DEF TypeOK, BufferHolds, PartialInv
<1>8. CASE VoiceWakes \/ VoicePeeks \/ VoiceReads
  <2>1. "voice" \in Callers /\ \A p \in {"idle", "peek", "read", "start"} : p \in CallerPlaces
    BY DEF Callers, CallerPlaces, VoicePlaces, StartPlaces
  <2>2. AudioTypeOK'
    <3>1. at' \in [Callers -> CallerPlaces]
      BY <1>1, <1>8, <2>1, MoveType DEF VoiceWakes, VoicePeeks, VoiceReads
    <3>2. want' \in [Callers -> Given]
      BY <1>1, <1>8 DEF VoiceWakes, VoicePeeks, VoiceReads, AudioTypeOK, TypeOK, Given,
                        Buffers
    <3> QED
      BY <1>1, <1>8, <3>1, <3>2
         DEF VoiceWakes, VoicePeeks, VoiceReads, AudioTypeOK, playerVars, beepGhosts
  <2>3. RestInv'
    BY <1>1, <1>8, <2>1, MoveRests DEF VoiceWakes, VoicePeeks, VoiceReads, playerVars
  <2> QED
    BY <1>7, <1>8, <2>2, <2>3
       DEF VoiceWakes, VoicePeeks, VoiceReads, netVars, netGhosts, TypeOK
<1>9. CASE Start("voice") /\ UNCHANGED <<netVars, netGhosts>>
  BY <1>1, <1>7, <1>9, StartTyping, StartRests DEF Callers, netVars, netGhosts, TypeOK
<1>10. CASE FeedBeeps
  <2>1. AudioTypeOK'
    <3>1. at' \in [Callers -> CallerPlaces]
      BY <1>1, <1>10, MoveType DEF FeedBeeps, BeepBegins, Callers, CallerPlaces, StartPlaces
    <3>2. want' \in [Callers -> Given]
      BY <1>1, <1>10, AudioAssumption
         DEF FeedBeeps, BeepBegins, AudioTypeOK, Given, Buffers
    <3>3. beeps' \in 0 .. MaxBeeps /\ beepHeard' \in Nat
      BY <1>1, <1>10, AudioAssumption DEF FeedBeeps, BeepBegins, AudioTypeOK
    <3>4. alone' \in BOOLEAN
      BY <1>1, <1>10 DEF FeedBeeps, BeepBegins
    <3> QED
      BY <1>1, <1>10, <3>1, <3>2, <3>3, <3>4
         DEF FeedBeeps, BeepBegins, AudioTypeOK, playerVars
  <2>2. RestInv'
    BY <1>1, <1>10, MoveRests DEF FeedBeeps, BeepBegins, Callers, playerVars
  <2> QED
    BY <1>7, <1>10, <2>1, <2>2 DEF FeedBeeps, netVars, TypeOK
<1>11. CASE BeepStep
  <2>1. AudioTypeOK'
    BY <1>1, <1>11, BeepTyping DEF BeepStep
  <2>2. RestInv'
    <3>1. CASE Start("beep")
      BY <1>1, <3>1, StartRests DEF Callers
    <3>2. CASE BeepNapEnds \/ BeepPolls \/ BeepStops \/ BeepReturns
      BY <1>1, <3>2, MoveRests
         DEF BeepNapEnds, BeepPolls, BeepStops, BeepReturns, Callers, playerVars
    <3> QED
      BY <1>11, <3>1, <3>2 DEF BeepStep, Beep
  <2> QED
    BY <1>7, <1>11, <2>1, <2>2 DEF BeepStep, netVars, netGhosts, TypeOK
<1>12. CASE PlaybackStep
  <2>1. owed' \in Nat
    BY <1>12 DEF PlaybackStep, TypeOK
  <2> QED
    BY <1>1, <1>7, <1>12, <2>1, PlaybackTyping, PlaybackRests
       DEF PlaybackStep, netVars, TypeOK
<1>13. CASE UNCHANGED vars
  BY <1>1, <1>7, <1>13
     DEF vars, audioVars, netVars, netGhosts, AudioTypeOK, RestInv, TypeOK
<1> QED
  BY <1>3, <1>4, <1>5, <1>6, <1>8, <1>9, <1>10, <1>11, <1>12, <1>13
     DEF Next, Network, Voice

LEMMA Invariant == Spec => []IInv
<1>1. Init => IInv
  <2> SUFFICES ASSUME Init PROVE IInv
    OBVIOUS
  <2> USE AudioAssumption, IntercomAssumption DEF Init
  <2>1. Nothing \in Given
    BY DEF Nothing, Given, Buffers
  <2>2. AudioTypeOK
    <3>1. at \in [Callers -> CallerPlaces] /\ want \in [Callers -> Given]
      BY <2>1 DEF AudioInit, CallerPlaces
    <3>2. samples \in Buffers /\ task \in TaskPlaces /\ own \in Given
      BY <2>1 DEF AudioInit, Buffers, TaskPlaces
    <3>3. pos \in Nat /\ count \in Nat /\ beeps \in 0 .. MaxBeeps /\ beepHeard \in Nat
      BY DEF AudioInit
    <3>4. task # "play" /\ playing \in BOOLEAN /\ sem \in BOOLEAN
          /\ unmuted \in BOOLEAN /\ alone \in BOOLEAN
      BY DEF AudioInit
    <3> QED
      BY <3>1, <3>2, <3>3, <3>4 DEF AudioTypeOK
  <2>3. PartialInv
    BY DEF PartialInv, NoPartial
  <2>4. BufferHolds
    BY DEF BufferHolds
  <2>5. RestInv
    BY DEF AudioInit, RestInv
  <2>6. content \in [1 .. MaxSamples -> Nat] /\ stopped \in [session : Nat, length : Nat]
    OBVIOUS
  <2>7. /\ 0 \in 0 .. MaxMessages /\ 0 \in 0 .. MaxDrops /\ partial \in [length : Nat, arrived : Nat]
    BY <2>3 DEF PartialInv
  <2>8. /\ buffered \in Nat /\ open \in BOOLEAN /\ trigger \in BOOLEAN
        /\ extent \in Nat /\ session \in Nat /\ owed \in Nat
        /\ messages \in 0 .. MaxMessages /\ drops \in 0 .. MaxDrops
    BY <2>7
  <2>9. TypeOK
    BY <2>2, <2>6, <2>7, <2>8 DEF TypeOK
  <2> QED
    BY <2>3, <2>4, <2>5, <2>9 DEF IInv
<1> QED
  BY <1>1, Inductive, PTL DEF Spec

\* The state of the intercom and of the player keeps its types.
THEOREM IntercomTyping == Spec => []TypeOK
<1>1. IInv => TypeOK
  BY DEF IInv
<1> QED
  BY <1>1, Invariant, PTL

\* No sequence of messages, fragments, sessions and lost connections makes
\* ws_event_handler write behind the end of s_psram_buf.
THEOREM NeverWritesBehindBuffer == Spec => []BufferHolds
<1>1. IInv => BufferHolds
  BY DEF IInv
<1> QED
  BY <1>1, Invariant, PTL

\* s_playing and the output are down whenever playback is over, whoever raced
\* whom in audio_player_start and audio_player_stop: speaker_beep, which waits
\* for s_playing with the feed mutex held, is not left waiting.
THEOREM NothingLeftPlaying == Spec => []RestIsQuiet
<1>1. IInv => RestIsQuiet
  BY DEF IInv, RestInv, RestIsQuiet, Cpu1Free
<1> QED
  BY <1>1, Invariant, PTL
-----------------------------------------------------------------------------
(***************************************************************************)
(* A beep that no voice is started against.  Until it sets s_playing, what *)
(* it interrupts has come to rest; from then on the one playback there is  *)
(* is that of the beep, and it says how much of it has sounded.            *)
(***************************************************************************)
Beeping == at["beep"] # "idle"

\* Playback that was given the semaphore while it played was so by a beep that waits.
GivenInv ==
    /\ playing /\ sem /\ task # "wait" => at["beep"] \in {"give", "nap", "poll"}
    /\ alone => at["voice"] = "idle"

\* s_samples and s_sample_count, and what the playback task read of them.
Set == samples = "beep" /\ count = BeepSamples

Read == own.samples = "beep" /\ own.count = BeepSamples

Played ==
    \/ playing /\ sem /\ task = "wait"
    \/ /\ playing /\ ~sem
       /\ \/ task = "load"
          \/ task = "load_count" /\ own.samples = "beep"
          \/ task = "unmute" /\ Read
          \/ task = "play" /\ Read /\ beepHeard = pos
          \/ task \in {"mute", "clear"} /\ beepHeard = BeepSamples
    \/ ~playing /\ Cpu1Free /\ beepHeard = BeepSamples

AloneInv ==
    alone /\ Beeping =>
        /\ want["beep"] = [samples |-> "beep", count |-> BeepSamples]
        /\ at["beep"] \in {"start", "stop"} =>
              (playing /\ (sem => task = "wait")) \/ (~playing /\ Cpu1Free)
        /\ at["beep"] \in {"mute", "pause"} => ~playing
        /\ at["beep"] \in {"samples", "count", "flag"} => ~playing /\ Cpu1Free
        /\ at["beep"] = "give" => playing /\ Cpu1Free
        /\ at["beep"] \in {"count", "flag", "give", "nap", "poll"} => samples = "beep"
        /\ at["beep"] \in {"flag", "give", "nap", "poll"} => Set
        /\ at["beep"] \in {"nap", "poll"} => Played
        /\ at["beep"] \in {"last_stop", "last_mute"} => Cpu1Free /\ beepHeard = BeepSamples

\* A caller that moves is where it moved to, the other one where it was.
LEMMA MoveFacts ==
    ASSUME AudioTypeOK, NEW c \in Callers, NEW from, NEW to, Move(c, from, to)
    PROVE  /\ at[c] = from /\ at'[c] = to
           /\ c = "beep" => at'["voice"] = at["voice"]
           /\ c = "voice" => at'["beep"] = at["beep"]
BY DEF AudioTypeOK, Move, Callers

\* The voice runs only while playback rests, and a beep it meets is not alone.
LEMMA VoiceAlone ==
    ASSUME AudioTypeOK, GivenInv, AloneInv, Voice
    PROVE  GivenInv' /\ AloneInv'
<1> USE DEF Callers
<1>1. CASE VoiceWakes
  <2>1. at'["beep"] = at["beep"]
    BY <1>1, MoveFacts DEF VoiceWakes
  <2> QED
    BY <1>1, <2>1 DEF VoiceWakes, playerVars, GivenInv, AloneInv
<1>2. CASE VoicePeeks \/ VoiceReads
  <2>1. at'["beep"] = at["beep"] /\ at["voice"] # "idle"
    BY <1>2, MoveFacts DEF VoicePeeks, VoiceReads
  <2>2. UNCHANGED <<playing, sem, task, alone>>
    BY <1>2 DEF VoicePeeks, VoiceReads, playerVars, beepGhosts
  <2> QED
    BY <2>1, <2>2 DEF GivenInv, AloneInv
<1>3. CASE Start("voice")
  <2>1. at'["beep"] = at["beep"] /\ at["voice"] # "idle"
    BY <1>3, MoveFacts DEF Start, StartChecks, StartStops, StartMutes, StartResumes,
                           SetSamples, SetCount, SetPlaying, GiveSem
  <2>2. task' = "wait" /\ UNCHANGED alone
    BY <1>3 DEF Start, StartChecks, StartStops, StartMutes, StartResumes, SetSamples,
                SetCount, SetPlaying, GiveSem, Runs, Cpu1Free, playerVars, beepGhosts
  <2> QED
    BY <2>1, <2>2 DEF GivenInv, AloneInv
<1> QED
  BY <1>1, <1>2, <1>3 DEF Voice

LEMMA FeedBeepsAlone ==
    ASSUME AudioTypeOK, GivenInv, FeedBeeps
    PROVE  GivenInv' /\ AloneInv'
<1>1. /\ at["beep"] = "idle" /\ at'["beep"] = "start" /\ at'["voice"] = at["voice"]
      /\ UNCHANGED <<playing, sem, task>>
  BY MoveFacts DEF FeedBeeps, BeepBegins, Callers, playerVars
<1>2. /\ want'["beep"] = [samples |-> "beep", count |-> BeepSamples]
      /\ alone' = (at["voice"] = "idle" /\ (playing \/ Cpu1Free))
  BY DEF FeedBeeps, BeepBegins, AudioTypeOK, Callers
<1>3. GivenInv'
  BY <1>1, <1>2 DEF GivenInv
<1>4. ASSUME alone'
      PROVE  (playing' /\ (sem' => task' = "wait")) \/ (~playing' /\ Cpu1Free')
  BY <1>1, <1>2, <1>4 DEF GivenInv, Cpu1Free
<1> QED
  BY <1>1, <1>2, <1>3, <1>4 DEF AloneInv

\* The beep itself.
LEMMA BeepAlone ==
    ASSUME AudioTypeOK, GivenInv, AloneInv, Beep
    PROVE  GivenInv' /\ AloneInv'
<1> USE DEF Callers, playerVars, beepGhosts
<1>1. CASE StartChecks("beep")
  <2>1. /\ at["beep"] = "start" /\ at'["beep"] = IF playing THEN "stop" ELSE "samples"
        /\ at'["voice"] = at["voice"]
    BY <1>1, MoveFacts DEF StartChecks
  <2> QED
    BY <1>1, <2>1 DEF StartChecks, GivenInv, AloneInv, Beeping, Cpu1Free
<1>2. CASE StartStops("beep")
  <2>1. at["beep"] = "stop" /\ at'["beep"] = "mute" /\ at'["voice"] = at["voice"]
    BY <1>2, MoveFacts DEF StartStops
  <2> QED
    BY <1>2, <2>1 DEF StartStops, GivenInv, AloneInv, Beeping
<1>3. CASE StartMutes("beep")
  <2>1. at["beep"] = "mute" /\ at'["beep"] = "pause" /\ at'["voice"] = at["voice"]
    BY <1>3, MoveFacts DEF StartMutes
  <2> QED
    BY <1>3, <2>1 DEF StartMutes, GivenInv, AloneInv, Beeping
<1>4. CASE StartResumes("beep")
  <2>1. at["beep"] = "pause" /\ at'["beep"] = "samples" /\ at'["voice"] = at["voice"]
    BY <1>4, MoveFacts DEF StartResumes
  <2> QED
    BY <1>4, <2>1 DEF StartResumes, Settled, GivenInv, AloneInv, Beeping, Cpu1Free
<1>5. CASE SetSamples("beep")
  <2>1. at["beep"] = "samples" /\ at'["beep"] = "count" /\ at'["voice"] = at["voice"]
    BY <1>5, MoveFacts DEF SetSamples
  <2> QED
    BY <1>5, <2>1 DEF SetSamples, GivenInv, AloneInv, Beeping, Cpu1Free
<1>6. CASE SetCount("beep")
  <2>1. at["beep"] = "count" /\ at'["beep"] = "flag" /\ at'["voice"] = at["voice"]
    BY <1>6, MoveFacts DEF SetCount
  <2> QED
    BY <1>6, <2>1 DEF SetCount, GivenInv, AloneInv, Beeping, Cpu1Free, Set
<1>7. CASE SetPlaying("beep")
  <2>1. at["beep"] = "flag" /\ at'["beep"] = "give" /\ at'["voice"] = at["voice"]
    BY <1>7, MoveFacts DEF SetPlaying
  <2> QED
    BY <1>7, <2>1 DEF SetPlaying, GivenInv, AloneInv, Beeping, Cpu1Free, Set
<1>8. CASE GiveSem("beep")
  <2>1. at["beep"] = "give" /\ at'["beep"] = "nap" /\ at'["voice"] = at["voice"]
    BY <1>8, MoveFacts DEF GiveSem
  <2> QED
    BY <1>8, <2>1 DEF GiveSem, GivenInv, AloneInv, Beeping, Cpu1Free, Set, Played
<1>9. CASE BeepNapEnds
  <2>1. at["beep"] = "nap" /\ at'["beep"] = "poll" /\ at'["voice"] = at["voice"]
    BY <1>9, MoveFacts DEF BeepNapEnds
  <2> QED
    BY <1>9, <2>1 DEF BeepNapEnds, GivenInv, AloneInv, Beeping, Cpu1Free, Set, Played, Read
<1>10. CASE BeepPolls
  <2>1. /\ at["beep"] = "poll" /\ at'["beep"] = IF playing THEN "poll" ELSE "last_stop"
        /\ at'["voice"] = at["voice"]
    BY <1>10, MoveFacts DEF BeepPolls
  <2> QED
    BY <1>10, <2>1 DEF BeepPolls, GivenInv, AloneInv, Beeping, Cpu1Free, Set, Played, Read
<1>11. CASE BeepStops
  <2>1. at["beep"] = "last_stop" /\ at'["beep"] = "last_mute" /\ at'["voice"] = at["voice"]
    BY <1>11, MoveFacts DEF BeepStops
  <2> QED
    BY <1>11, <2>1 DEF BeepStops, GivenInv, AloneInv, Beeping, Cpu1Free
<1>12. CASE BeepReturns
  <2>1. at["beep"] = "last_mute" /\ at'["beep"] = "idle" /\ at'["voice"] = at["voice"]
    BY <1>12, MoveFacts DEF BeepReturns
  <2> QED
    BY <1>12, <2>1 DEF BeepReturns, GivenInv, AloneInv, Beeping
<1> QED
  BY <1>1, <1>2, <1>3, <1>4, <1>5, <1>6, <1>7, <1>8, <1>9, <1>10, <1>11, <1>12
     DEF Beep, Start

\* The playback task, while a beep that is alone goes through its places.
LEMMA PlaybackAlone ==
    ASSUME AudioTypeOK, GivenInv, AloneInv, PlaybackTask
    PROVE  GivenInv' /\ AloneInv'
<1>1. /\ UNCHANGED <<samples, count, at, want, alone>>
      /\ sem' => sem
      /\ playing' => playing
      /\ task = "wait" => ~sem'
  BY DEF PlaybackTask, Playback, TakeSem, LoadSamples, LoadCount, Unmute, PlaySample,
         PlayEnds, Mute, Clear, AudioTypeOK
<1>2. GivenInv'
  BY <1>1 DEF GivenInv
<1>3. ASSUME alone, Beeping PROVE ~Cpu1Free
  BY DEF PlaybackTask, Playback, TakeSem, LoadSamples, LoadCount, Unmute, PlaySample,
         PlayEnds, Mute, Clear, Cpu1Free
<1>4. ASSUME playing, sem => task = "wait"
      PROVE  (playing' /\ (sem' => task' = "wait")) \/ (~playing' /\ Cpu1Free')
  BY <1>4 DEF PlaybackTask, Playback, TakeSem, LoadSamples, LoadCount, Unmute, PlaySample,
              PlayEnds, Mute, Clear, Cpu1Free
<1>5. ASSUME Set, Played, ~Cpu1Free PROVE Played'
  <2> USE AudioAssumption DEF Playback, Played, Read
  <2>1. CASE TakeSem
    BY <1>5, <2>1 DEF TakeSem
  <2>2. CASE LoadSamples
    BY <1>5, <2>2 DEF LoadSamples, Set, AudioTypeOK, Given
  <2>3. CASE LoadCount
    BY <1>5, <2>3 DEF LoadCount, Set, AudioTypeOK, Given
  <2>4. CASE Unmute
    BY <1>5, <2>4 DEF Unmute
  <2>5. CASE PlaySample
    BY <1>5, <2>5 DEF PlaySample
  <2>6. CASE PlayEnds
    BY <1>5, <2>6 DEF PlayEnds, AudioTypeOK
  <2>7. CASE Mute \/ Clear
    BY <1>5, <2>7 DEF Mute, Clear, Cpu1Free
  <2> QED
    BY <2>1, <2>2, <2>3, <2>4, <2>5, <2>6, <2>7 DEF PlaybackTask
<1> QED
  BY <1>1, <1>2, <1>3, <1>4, <1>5 DEF AloneInv, Beeping, Set

LEMMA AloneHolds == Spec => [](GivenInv /\ AloneInv)
<1>1. Init => GivenInv /\ AloneInv
  BY DEF Init, AudioInit, GivenInv, AloneInv
<1>2. AudioTypeOK /\ GivenInv /\ AloneInv /\ [Next]_vars => GivenInv' /\ AloneInv'
  <2> SUFFICES ASSUME AudioTypeOK, GivenInv, AloneInv, [Next]_vars
               PROVE  GivenInv' /\ AloneInv'
    OBVIOUS
  <2>1. CASE Voice
    BY <2>1, VoiceAlone
  <2>2. CASE FeedBeeps
    BY <2>2, FeedBeepsAlone
  <2>3. CASE BeepStep
    BY <2>3, BeepAlone DEF BeepStep
  <2>4. CASE PlaybackStep
    BY <2>4, PlaybackAlone DEF PlaybackStep
  <2>5. CASE Network \/ UNCHANGED vars
    <3>1. UNCHANGED audioVars
      BY <2>5 DEF Network, MessageStarts, MessageContinues, Stop, Disconnect, vars
    <3> QED
      BY <3>1 DEF audioVars, GivenInv, AloneInv, Beeping, Set, Played, Read, Cpu1Free
  <2> QED
    BY <2>1, <2>2, <2>3, <2>4, <2>5 DEF Next
<1>3. IInv => AudioTypeOK
  BY DEF IInv, TypeOK
<1> QED
  BY <1>1, <1>2, <1>3, Invariant, PTL DEF Spec

\* Of whatever length the beep and whatever it interrupts: when speaker_beep returns
\* and no voice was started meanwhile, all of its samples have sounded.
THEOREM LoneBeepPlays == Spec => LoneBeepIsHeard
<1>1. AloneInv => (at["beep"] = "last_mute" /\ at'["beep"] = "idle" /\ alone
                     => beepHeard = BeepSamples)
  BY DEF AloneInv, Beeping
<1>2. AloneInv /\ [Next]_vars
        => [at["beep"] = "last_mute" /\ at'["beep"] = "idle" /\ alone
              => beepHeard = BeepSamples]_vars
  BY <1>1
<1> QED
  BY <1>2, AloneHolds, PTL DEF Spec, LoneBeepIsHeard
=============================================================================
