--------------------------- MODULE CameraPipeline ---------------------------
(***************************************************************************)
(* main.c from the camera to the WebSocket: camera_capture_task takes a    *)
(* frame buffer from the driver and queues it, ws_send_task converts and   *)
(* sends it and gives it back.  Three failures in a row reinitialise the   *)
(* camera, which frees the driver's buffers wherever they are.             *)
(*                                                                         *)
(* A frame buffer is known by its address: where the driver's array of     *)
(* buffers was allocated, and the position in it.  A new allocation may    *)
(* get the address of the one that was freed before.                       *)
(***************************************************************************)
EXTENDS Integers, Sequences, Functions

CONSTANTS
    Bases,        \* addresses at which the array of buffers may be allocated
    FbCount,      \* fb_count of init_camera
    QueueLength,  \* length of xQueueIFrame
    MaxFailures,  \* MAX_FAILURES of camera_capture_task
    Patience      \* fb_get time-outs (4 s) that fit into one send: 5 s each for
                  \* the client's lock, the header and the payload

ASSUME PipelineAssumption ==
    /\ FbCount \in Nat \ {0} /\ QueueLength \in Nat \ {0}
    /\ MaxFailures \in Nat \ {0} /\ Patience \in Nat

VARIABLES
    streaming,  \* s_camera_streaming
    healthy,    \* the sensor answers and delivers pictures
    up,         \* the driver is initialised: s_state # NULL
    base,       \* where its buffers are
    free,       \* its buffers with en set: empty, to be filled
    filled,     \* frame_buffer_queue: filled, to be taken
    cap,        \* where camera_capture_task is
    failures,   \* consecutive_failures
    queue,      \* xQueueIFrame
    snd,        \* where ws_send_task is
    hand,       \* the buffer it works on, a set of one, or of none while it waits
    \* history
    waited,     \* fb_get time-outs during this send
    starved,    \* fb_get waited for a send or a sensor that has come back since
    late        \* frames queued since the stream was switched off

driverVars == <<up, base, free, filled>>
captureVars == <<cap, failures, starved>>
senderVars == <<snd, hand, waited>>
vars == <<streaming, healthy, driverVars, captureVars, queue, senderVars, late>>

Positions == 1 .. FbCount
Frames == Bases \X Positions

TypeOK ==
    /\ streaming \in BOOLEAN
    /\ healthy \in BOOLEAN
    /\ up \in BOOLEAN
    /\ base \in Bases
    /\ free \in SUBSET Positions
    /\ filled \in Seq(Positions) /\ Len(filled) <= FbCount
    /\ cap \in {"look", "get", "reinit"}
    /\ failures \in 0 .. MaxFailures - 1
    /\ queue \in Seq(Frames) /\ Len(queue) <= QueueLength
    /\ snd \in {"receive", "convert", "send"}
    /\ hand \in SUBSET Frames
    /\ waited \in 0 .. Patience
    /\ starved \in BOOLEAN
    /\ late \in Nat

\* app_main starts both tasks only if the camera came up.
Init ==
    /\ streaming = FALSE
    /\ healthy = TRUE
    /\ up = TRUE
    /\ base \in Bases
    /\ free = Positions
    /\ filled = <<>>
    /\ cap = "look"
    /\ failures = 0
    /\ queue = <<>>
    /\ snd = "receive"
    /\ hand = {}
    /\ waited = 0
    /\ starved = FALSE
    /\ late = 0

-----------------------------------------------------------------------------
(***************************************************************************)
(* The surroundings: the camera switch and the sensor.                     *)
(***************************************************************************)

Switch ==
    /\ streaming' = ~streaming
    /\ late' = 0
    /\ UNCHANGED <<healthy, driverVars, captureVars, queue, senderVars>>

SensorChanges ==
    /\ healthy' = ~healthy
    /\ starved' = (starved \/ (~healthy /\ cap = "get"))
    /\ UNCHANGED <<streaming, driverVars, cap, failures, queue, senderVars, late>>

(***************************************************************************)
(* The driver, with CAMERA_GRAB_WHEN_EMPTY.                                *)
(***************************************************************************)

\* A picture goes into an empty buffer; if frame_buffer_queue is full the oldest
\* one is dropped from it and becomes empty.
Fill(x) ==
    /\ up /\ healthy /\ x \in free
    /\ IF Len(filled) < FbCount
       THEN /\ free' = free \ {x}
            /\ filled' = Append(filled, x)
       ELSE /\ free' = (free \ {x}) \cup {Head(filled)}
            /\ filled' = Append(Tail(filled), x)
    /\ UNCHANGED <<streaming, healthy, up, base, captureVars, queue, senderVars, late>>

\* esp_camera_fb_return: a buffer of the driver with one of these addresses is
\* empty again.
Returned(frames) == free \cup {x \in Positions : up /\ <<base, x>> \in frames}

-----------------------------------------------------------------------------
(***************************************************************************)
(* camera_capture_task.                                                    *)
(***************************************************************************)

Look ==
    /\ cap = "look" /\ streaming
    /\ cap' = "get"
    /\ UNCHANGED <<streaming, healthy, driverVars, failures, starved, queue, senderVars, late>>

\* The oldest filled buffer, which esp_camera_fb_get delivers.
Taken == <<base, Head(filled)>>

TakeFrame ==
    /\ cap = "get" /\ up /\ filled # <<>>
    /\ filled' = Tail(filled)
    /\ failures' = 0
    /\ cap' = "look"
    /\ starved' = FALSE
    /\ UNCHANGED <<streaming, healthy, up, base, senderVars>>

GetFrame ==
    /\ TakeFrame
    /\ Len(queue) < QueueLength
    /\ queue' = Append(queue, Taken)
    /\ late' = IF streaming THEN late ELSE late + 1
    /\ UNCHANGED free

GetFrameQueueFull ==
    /\ TakeFrame
    /\ Len(queue) = QueueLength
    /\ free' = Returned({Taken})
    /\ UNCHANGED <<queue, late>>

GetShortFrameKeeping ==
    /\ TakeFrame
    /\ ~healthy
    /\ UNCHANGED <<free, queue, late>>

\* Less than 100 bytes: a healthy sensor delivers whole pictures.
GetShortFrame ==
    /\ TakeFrame
    /\ ~healthy
    /\ free' = Returned({Taken})
    /\ UNCHANGED <<queue, late>>

Least(m, n) == IF m < n THEN m ELSE n

\* esp_camera_fb_get finds no driver and fails at once, or finds nothing to take
\* for 4 s: longer than a healthy sensor needs to fill an empty buffer, and than
\* ws_send_task needs for anything but a send.  The 4 s may end just after the send
\* or the sensor's failure did, before a buffer is filled again.
NothingComes ==
    /\ cap = "get"
    /\ \/ ~up
       \/ /\ filled = <<>>
          /\ \/ starved
             \/ /\ ~healthy \/ free = {}
                /\ \/ snd = "receive" /\ queue = <<>>
                   \/ snd = "send" /\ waited < Patience
    /\ waited' = IF up /\ snd = "send" THEN Least(Patience, waited + 1) ELSE waited
    /\ starved' = FALSE
    /\ UNCHANGED <<streaming, healthy, base, queue, snd, hand, late>>

GetFails ==
    /\ NothingComes
    /\ failures + 1 < MaxFailures
    /\ failures' = failures + 1
    /\ cap' = "look"
    /\ UNCHANGED <<up, free, filled>>

\* esp_camera_deinit frees every buffer.
Deinit ==
    /\ up' = FALSE
    /\ free' = {}
    /\ filled' = <<>>

ReinitOnce ==
    /\ NothingComes
    /\ failures + 1 >= MaxFailures
    /\ failures' = 0
    /\ IF up THEN cap' = "reinit" /\ Deinit
             ELSE cap' = "look" /\ UNCHANGED <<up, free, filled>>

\* reinit_camera begins, for the driver that is there or has failed to come up.
Reinit ==
    /\ NothingComes
    /\ failures + 1 >= MaxFailures
    /\ failures' = 0
    /\ cap' = "reinit"
    /\ Deinit

\* init_camera, 500 ms later.
InitSucceeds ==
    /\ cap = "reinit"
    /\ up' = TRUE
    /\ base' \in Bases
    /\ free' = Positions
    /\ cap' = "look"
    /\ UNCHANGED <<streaming, healthy, filled, failures, starved, queue, senderVars, late>>

InitFails ==
    /\ cap = "reinit" /\ ~healthy
    /\ cap' = "look"
    /\ UNCHANGED <<streaming, healthy, driverVars, failures, starved, queue, senderVars, late>>

Capture ==
    \/ Look
    \/ GetFrame \/ GetFrameQueueFull \/ GetShortFrame
    \/ GetFails \/ Reinit
    \/ InitSucceeds \/ InitFails

-----------------------------------------------------------------------------
(***************************************************************************)
(* ws_send_task.                                                           *)
(***************************************************************************)

ReceiveWhileStreaming ==
    /\ snd = "receive" /\ queue # <<>> /\ streaming
    /\ snd' = "convert"
    /\ hand' = {Head(queue)}
    /\ queue' = Tail(queue)
    /\ UNCHANGED <<streaming, healthy, driverVars, captureVars, waited, late>>

Receive ==
    /\ snd = "receive" /\ queue # <<>>
    /\ snd' = "convert"
    /\ hand' = {Head(queue)}
    /\ queue' = Tail(queue)
    /\ UNCHANGED <<streaming, healthy, driverVars, captureVars, waited, late>>

Convert ==
    /\ snd = "convert"
    /\ snd' = "send"
    /\ UNCHANGED <<streaming, healthy, driverVars, captureVars, queue, hand, waited, late>>

ConvertFailsKeeping ==
    /\ snd = "convert"
    /\ snd' = "receive" /\ hand' = {}
    /\ UNCHANGED <<streaming, healthy, driverVars, captureVars, queue, waited, late>>

ConvertFails ==
    /\ snd = "convert"
    /\ snd' = "receive" /\ hand' = {}
    /\ free' = Returned(hand)
    /\ UNCHANGED <<streaming, healthy, up, base, filled, captureVars, queue, waited, late>>

\* Sent, failed, timed out or not connected: the frame goes back.
Sent ==
    /\ snd = "send"
    /\ snd' = "receive" /\ hand' = {}
    /\ free' = Returned(hand)
    /\ waited' = 0
    /\ starved' = (starved \/ cap = "get")
    /\ UNCHANGED <<streaming, healthy, up, base, filled, cap, failures, queue, late>>

Send == Receive \/ Convert \/ ConvertFails \/ Sent

-----------------------------------------------------------------------------

Driver == \E x \in Positions : Fill(x)

Next == Switch \/ SensorChanges \/ Driver \/ Capture \/ Send

Spec == Init /\ [][Next]_vars

\* FreeRTOS serves both tasks, and a healthy sensor keeps delivering.
Fairness == WF_vars(Driver) /\ WF_vars(Capture) /\ WF_vars(Send)

FairSpec == Spec /\ Fairness

-----------------------------------------------------------------------------
(***************************************************************************)
(* Properties.                                                             *)
(***************************************************************************)

\* The addresses that the two tasks and the queue between them hold.
Held == Range(queue) \cup hand

\* No path of the two tasks loses a buffer: each one the driver owns is empty, or
\* filled, or on its way to the WebSocket.  Two lost buffers would blind the
\* camera until the next reinitialisation.
NoFrameLost ==
    up => \A x \in Positions :
            x \in free \/ x \in Range(filled) \/ <<base, x>> \in Held

\* After the stream was switched off, the capture task lets at most the one frame
\* through that it was already waiting for.
DarkAfterOne == late <= 1

\* A camera that works is reinitialised only under a send that does not end, or on a
\* time-out that began under a send or a failure of the sensor: no other wait starves
\* esp_camera_fb_get.
ReinitOnlyIfSickOrStuck ==
    [][up /\ ~up' => ~healthy \/ snd = "send" \/ starved]_vars

\* However often the camera failed, and whatever the reinitialisations left in
\* the queue: once it works and stays switched on, frames reach the sender for ever.
StreamRecovers == <>[](streaming /\ healthy) => []<>(snd = "convert")

\* Once the stream stays off, what was queued goes out, both tasks come to rest, and
\* the driver that is up has all its buffers again.  Those it has filled stay filled:
\* when the stream is switched on again, these old pictures are the first to be taken
\* (Taken), FbCount of them at most.
StreamDrains ==
    <>[](~streaming) =>
        <>[](Held = {} /\ snd = "receive" /\ (up => free \cup Range(filled) = Positions))
=============================================================================
