------------------------------ MODULE Intercom ------------------------------
(***************************************************************************)
(* audio_intercom.c on top of AudioPlayer: the owner's voice arrives in    *)
(* WebSocket messages, is collected in one buffer until "stop", and is     *)
(* played from that buffer (MAX_IRAM_BYTES is 0, so there is no copy)      *)
(* while the next session may already be arriving.                         *)
(*                                                                         *)
(* The event handler runs in the WebSocket client's task, one event at a   *)
(* time.  Amounts are counted in samples.                                  *)
(***************************************************************************)
EXTENDS AudioPlayer, Sequences

CONSTANTS
    Lengths,      \* lengths of a binary message, in samples
    MaxMessages,  \* bound: binary messages
    MaxDrops      \* bound: lost connections

ASSUME IntercomAssumption ==
    Lengths \subseteq Nat \ {0} /\ MaxMessages \in Nat /\ MaxDrops \in Nat

VARIABLES
    buffered,   \* s_psram_samples
    open,       \* s_session_open
    trigger,    \* s_play_trigger, binary
    partial,    \* the message under way: its length, and how much arrived
    \* history and bounds
    content,    \* which session wrote each sample of s_psram_buf
    extent,     \* the furthest sample ever written
    session,    \* sessions begun
    messages, drops,
    stopped,    \* the last session that was stopped, and how long it was
    owed        \* its samples still to be heard, if nothing got in between

netVars == <<buffered, open, trigger, partial>>
netGhosts == <<content, extent, session, messages, drops, stopped, owed>>
vars == <<audioVars, netVars, netGhosts>>

NoPartial == [length |-> 0, arrived |-> 0]

TypeOK ==
    /\ AudioTypeOK
    /\ buffered \in Nat
    /\ open \in BOOLEAN
    /\ trigger \in BOOLEAN
    /\ partial \in [length : Nat, arrived : Nat]
    /\ content \in [1 .. MaxSamples -> Nat]
    /\ extent \in Nat
    /\ session \in Nat
    /\ messages \in 0 .. MaxMessages
    /\ drops \in 0 .. MaxDrops
    /\ stopped \in [session : Nat, length : Nat]
    /\ owed \in Nat

Init ==
    /\ AudioInit
    /\ buffered = 0
    /\ open = FALSE
    /\ trigger = FALSE
    /\ partial = NoPartial
    /\ content = [i \in 1 .. MaxSamples |-> 0]
    /\ extent = 0
    /\ session = 0
    /\ messages = 0 /\ drops = 0
    /\ stopped = [session |-> 0, length |-> 0]
    /\ owed = 0

-----------------------------------------------------------------------------
(***************************************************************************)
(* ws_event_handler.                                                       *)
(***************************************************************************)

\* The whole message fits behind what is buffered.
Fits(base, fragment, length) == base + length <= MaxSamples

\* One WEBSOCKET_EVENT_DATA with a fragment of a binary message of the given
\* length, that starts at offset.
Data(length, offset, fragment) ==
    LET opening == ~open /\ offset = 0
        base == IF opening THEN 0 ELSE buffered
        first == base + offset + 1
        last == base + offset + fragment
        now == IF opening THEN session + 1 ELSE session
        complete == offset + fragment >= length
    IN  /\ open' = (open \/ opening)
        /\ session' = now
        /\ IF Fits(base, fragment, length)
           THEN /\ content' = [i \in 1 .. MaxSamples |->
                                 IF i \in first .. last THEN now ELSE content[i]]
                /\ extent' = IF last > extent THEN last ELSE extent
                /\ buffered' = IF complete THEN base + length ELSE base
           ELSE buffered' = base /\ UNCHANGED <<content, extent>>
        /\ partial' = IF complete THEN NoPartial
                      ELSE [length |-> length, arrived |-> offset + fragment]

\* A message arrives, or its first part.
MessageStarts ==
    /\ messages < MaxMessages
    /\ partial = NoPartial
    /\ messages' = messages + 1
    /\ \E length \in Lengths : \E fragment \in 1 .. length : Data(length, 0, fragment)
    /\ owed' = 0
    /\ UNCHANGED <<audioVars, trigger, drops, stopped>>

\* The rest of it.
MessageContinues ==
    /\ partial # NoPartial
    /\ Data(partial.length, partial.arrived, partial.length - partial.arrived)
    /\ UNCHANGED <<audioVars, trigger, messages, drops, stopped, owed>>

\* Nothing that gets in the way of the session that was just stopped.
SpeakerFree == at["beep"] = "idle" /\ at["voice"] = "idle" /\ ~trigger /\ Cpu1Free

StopEndsSession == buffered' = 0

\* What stopping a session does to its samples: nothing.
KeepSession == buffered' = buffered

\* The text message "stop".
Stop ==
    /\ partial = NoPartial
    /\ open
    /\ open' = FALSE
    /\ trigger' = TRUE
    /\ KeepSession
    /\ stopped' = [session |-> session, length |-> buffered]
    /\ owed' = IF SpeakerFree THEN buffered ELSE 0
    /\ UNCHANGED <<audioVars, partial, content, extent, session, messages, drops>>

\* WEBSOCKET_EVENT_DISCONNECTED: session_reset.
Disconnect ==
    /\ drops < MaxDrops
    /\ drops' = drops + 1
    /\ buffered' = 0
    /\ open' = FALSE
    /\ partial' = NoPartial
    /\ owed' = 0
    /\ UNCHANGED <<audioVars, trigger, content, extent, session, messages, stopped>>

Network == MessageStarts \/ MessageContinues \/ Stop \/ Disconnect

-----------------------------------------------------------------------------
(***************************************************************************)
(* session_play_task and session_play.                                     *)
(***************************************************************************)

VoiceWakes ==
    /\ Cpu1Free
    /\ trigger
    /\ trigger' = FALSE
    /\ Move("voice", "idle", "peek")
    /\ alone' = FALSE
    /\ UNCHANGED <<playerVars, want, beeps, beepHeard, buffered, open, partial,
                   netGhosts>>

\* "Nothing to play", or on.
VoicePeeks ==
    /\ Cpu1Free
    /\ Move("voice", "peek", IF buffered = 0 THEN "idle" ELSE "read")
    /\ UNCHANGED <<playerVars, want, beepGhosts, netVars, netGhosts>>

VoiceReads ==
    /\ Cpu1Free
    /\ Move("voice", "read", "start")
    /\ want' = [want EXCEPT !["voice"] = [samples |-> "session", count |-> buffered]]
    /\ UNCHANGED <<playerVars, beepGhosts, netVars, netGhosts>>

Voice ==
    VoiceWakes \/ VoicePeeks \/ VoiceReads
        \/ (Start("voice") /\ UNCHANGED <<netVars, netGhosts>>)

-----------------------------------------------------------------------------
\* A feed beeps; what the owner said may be talked over.  The beep has the speaker to
\* itself unless a voice is being started, or playback that was told to stop, by the
\* last beep, has not come to rest yet.
FeedBeeps ==
    /\ BeepBegins(at["voice"] = "idle" /\ (playing \/ Cpu1Free))
    /\ owed' = 0
    /\ UNCHANGED <<netVars, content, extent, session, messages, drops, stopped>>

BeepStep == Beep /\ UNCHANGED <<netVars, netGhosts>>

\* A sample of the stopped session that sounds is owed no longer.
Hears ==
    task = "play" /\ own.samples = "session" /\ pos' = pos + 1
        /\ content[pos + 1] = stopped.session

PlaybackStep ==
    /\ PlaybackTask
    /\ owed' = IF owed > 0 /\ Hears THEN owed - 1 ELSE owed
    /\ UNCHANGED <<netVars, content, extent, session, messages, drops, stopped>>

Next == Network \/ Voice \/ FeedBeeps \/ BeepStep \/ PlaybackStep

\* The tasks on both cores run when they can; what arrives, and whether a
\* feed beeps, is up to others.
Fairness == WF_vars(Voice) /\ WF_vars(BeepStep) /\ WF_vars(PlaybackStep)

Spec == Init /\ [][Next]_vars /\ Fairness

-----------------------------------------------------------------------------
\* s_psram_buf is never written behind its end, whatever the messages, their
\* fragments, the sessions and the lost connections.
BufferHolds == extent <= MaxSamples /\ buffered <= MaxSamples

\* s_playing, which speaker_beep waits for with the feed mutex held, is not
\* left up behind a playback that is over, and the speaker is muted then.
RestIsQuiet ==
    Cpu1Free /\ (\A c \in Callers : at[c] # "give") => ~playing /\ ~unmuted

\* A beep that no voice message was started against is heard in full, also
\* when it has to interrupt one.
LoneBeepIsHeard ==
    [][at["beep"] = "last_mute" /\ at'["beep"] = "idle" /\ alone
          => beepHeard = BeepSamples]_vars

\* A voice message that finds the speaker free, and that no beep, no new
\* message and no lost connection gets in the way of, is heard in full.
VoiceIsHeard == owed > 0 ~> owed = 0

\* The feed does not hang in its beep once the owner stops talking.
BeepEnds == at["beep"] # "idle" ~> at["beep"] = "idle"
=============================================================================
