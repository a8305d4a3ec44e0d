------------------------ MODULE CameraPipelineProofs ------------------------
(***************************************************************************)
(* Theorems about CameraPipeline, for every number of buffers, length of   *)
(* the queue, number of failures and patience.                             *)
(***************************************************************************)
EXTENDS CameraPipeline, TLAPS

LEMMA EmptySeq ==
    ASSUME NEW S
    PROVE  <<>> \in Seq(S) /\ Len(<<>>) = 0
OBVIOUS

\* What a queue holds after an element came to its end.
LEMMA RangeAppend ==
    ASSUME NEW S, NEW s \in Seq(S), NEW e \in S
    PROVE  Range(Append(s, e)) = Range(s) \cup {e}
<1>1. DOMAIN s = 1 .. Len(s) /\ DOMAIN Append(s, e) = 1 .. Len(s) + 1 /\ Len(s) \in Nat
  OBVIOUS
<1>2. \A i \in 1 .. Len(s) : Append(s, e)[i] = s[i]
  OBVIOUS
<1>3. Append(s, e)[Len(s) + 1] = e
  OBVIOUS
<1>4. 1 .. Len(s) + 1 = (1 .. Len(s)) \cup {Len(s) + 1}
  BY <1>1
<1> QED
  BY <1>1, <1>2, <1>3, <1>4 DEF Range

\* What a queue held before its first element was taken.
LEMMA RangeTail ==
    ASSUME NEW S, NEW s \in Seq(S), s # <<>>
    PROVE  /\ Head(s) \in S /\ Tail(s) \in Seq(S) /\ Len(Tail(s)) = Len(s) - 1
           /\ Range(s) = {Head(s)} \cup Range(Tail(s))
<1>1. Len(s) \in Nat \ {0} /\ DOMAIN s = 1 .. Len(s)
  OBVIOUS
<1>2. /\ Head(s) = s[1] /\ Head(s) \in S
      /\ Tail(s) \in Seq(S) /\ Len(Tail(s)) = Len(s) - 1
      /\ DOMAIN Tail(s) = 1 .. Len(s) - 1
  OBVIOUS
<1>3. \A i \in 1 .. Len(s) - 1 : Tail(s)[i] = s[i + 1]
  OBVIOUS
<1>4. ASSUME NEW y \in Range(s)
      PROVE  y \in {Head(s)} \cup Range(Tail(s))
  <2>1. PICK i \in 1 .. Len(s) : y = s[i]
    BY <1>1, <1>4 DEF Range
  <2>2. CASE i = 1
    BY <1>2, <2>1, <2>2
  <2>3. CASE i # 1
    <3>1. i - 1 \in 1 .. Len(s) - 1 /\ (i - 1) + 1 = i
      BY <1>1, <2>1, <2>3
    <3>2. Tail(s)[i - 1] = y
      BY <1>3, <2>1, <3>1
    <3> QED
      BY <1>2, <3>1, <3>2 DEF Range
  <2> QED
    BY <2>2, <2>3
<1>5. ASSUME NEW y \in {Head(s)} \cup Range(Tail(s))
      PROVE  y \in Range(s)
  <2>1. CASE y = Head(s)
    BY <1>1, <1>2, <2>1 DEF Range
  <2>2. CASE y \in Range(Tail(s))
    <3>1. PICK i \in 1 .. Len(s) - 1 : y = Tail(s)[i]
      BY <1>2, <2>2 DEF Range
    <3>2. i + 1 \in 1 .. Len(s) /\ s[i + 1] = y
      BY <1>1, <1>3, <3>1
    <3> QED
      BY <1>1, <3>2 DEF Range
  <2> QED
    BY <1>5, <2>1, <2>2
<1> QED
  BY <1>2, <1>4, <1>5

\* What is given back are buffers of the driver, next to those that were free.
LEMMA ReturnedType ==
    ASSUME TypeOK, NEW frames
    PROVE  Returned(frames) \in SUBSET Positions /\ free \subseteq Returned(frames)
BY DEF TypeOK, Returned
-----------------------------------------------------------------------------
(***************************************************************************)
(* Types.                                                                  *)
(***************************************************************************)

LEMMA InitTyped == Init => TypeOK
<1> SUFFICES ASSUME Init PROVE TypeOK
  OBVIOUS
<1>1. 0 \in 0 .. MaxFailures - 1 /\ 0 \in 0 .. Patience /\ 0 <= FbCount /\ 0 <= QueueLength
  BY PipelineAssumption
<1>2. filled \in Seq(Positions) /\ Len(filled) <= FbCount
  BY <1>1, EmptySeq DEF Init
<1>3. queue \in Seq(Frames) /\ Len(queue) <= QueueLength
  BY <1>1, EmptySeq DEF Init
<1> QED
  BY <1>1, <1>2, <1>3 DEF Init, TypeOK

\* A picture that comes in changes where two buffers are, and no types.
LEMMA FillTyped ==
    ASSUME TypeOK, NEW x \in Positions, Fill(x)
    PROVE  TypeOK'
<1> USE DEF TypeOK, Fill, captureVars, senderVars
<1>1. CASE Len(filled) < FbCount
  <2>1. Append(filled, x) \in Seq(Positions) /\ Len(Append(filled, x)) = Len(filled) + 1
    OBVIOUS
  <2>2. Len(filled) + 1 <= FbCount
    BY <1>1, PipelineAssumption
  <2> QED
    BY <1>1, <2>1, <2>2
<1>2. CASE ~(Len(filled) < FbCount)
  <2>1. filled # <<>>
    BY <1>2, PipelineAssumption
  <2>2. Head(filled) \in Positions /\ Tail(filled) \in Seq(Positions) /\ Len(Tail(filled)) = Len(filled) - 1
    BY <2>1, RangeTail
  <2>3. Append(Tail(filled), x) \in Seq(Positions) /\ Len(Append(Tail(filled), x)) = Len(filled)
    BY <2>2
  <2> QED
    BY <1>2, <2>2, <2>3
<1> QED
  BY <1>1, <1>2

\* Nor does a frame that is taken from the driver.
LEMMA TakeTyped ==
    ASSUME TypeOK, TakeFrame,
           free' \in SUBSET Positions,
           \/ queue' = queue
           \/ Len(queue) < QueueLength /\ queue' = Append(queue, Taken),
           late' \in Nat
    PROVE  TypeOK'
<1>1. Head(filled) \in Positions /\ Tail(filled) \in Seq(Positions) /\ Len(Tail(filled)) = Len(filled) - 1
  BY RangeTail DEF TypeOK, TakeFrame
<1>2. Taken \in Frames
  BY <1>1 DEF TypeOK, Taken, Frames
<1>3. queue' \in Seq(Frames) /\ Len(queue') <= QueueLength
  <2>1. CASE queue' = queue
    BY <2>1 DEF TypeOK
  <2>2. CASE Len(queue) < QueueLength /\ queue' = Append(queue, Taken)
    BY <1>2, <2>2, PipelineAssumption DEF TypeOK
  <2> QED
    BY <2>1, <2>2
<1>4. filled' \in Seq(Positions) /\ Len(filled') <= FbCount
  BY <1>1, PipelineAssumption DEF TypeOK, TakeFrame
<1>5. failures' \in 0 .. MaxFailures - 1 /\ cap' = "look"
  BY PipelineAssumption DEF TakeFrame
<1>6. starved' \in BOOLEAN
  BY ZenonT(30) DEF TakeFrame
<1>7. UNCHANGED <<streaming, healthy, up, base, snd, hand, waited>>
  BY DEF TakeFrame, senderVars
<1> QED
  BY <1>3, <1>4, <1>5, <1>6, <1>7 DEF TypeOK

\* A time-out is counted up to the limit.
LEMMA TimeOutTyped ==
    ASSUME TypeOK, NothingComes
    PROVE  /\ waited' \in 0 .. Patience /\ starved' \in BOOLEAN
           /\ UNCHANGED <<streaming, healthy, base, queue, snd, hand, late>>
<1>1. Least(Patience, waited + 1) \in 0 .. Patience
  BY PipelineAssumption DEF TypeOK, Least
<1>2. waited' \in 0 .. Patience
  BY <1>1 DEF TypeOK, NothingComes
<1>3. starved' \in BOOLEAN
  BY ZenonT(30) DEF NothingComes
<1> QED
  BY <1>2, <1>3 DEF NothingComes

LEMMA CaptureTyped ==
    ASSUME TypeOK, Capture
    PROVE  TypeOK'
<1>1. CASE Look
  BY <1>1 DEF TypeOK, Look, driverVars, senderVars
<1>2. CASE GetFrame
  BY <1>2, TakeTyped DEF TypeOK, GetFrame
<1>3. CASE GetFrameQueueFull
  BY <1>3, TakeTyped, ReturnedType DEF TypeOK, GetFrameQueueFull
<1>4. CASE GetShortFrame
  BY <1>4, TakeTyped, ReturnedType DEF TypeOK, GetShortFrame
<1>5. CASE GetFails
  <2>1. failures' \in 0 .. MaxFailures - 1 /\ cap' = "look" /\ UNCHANGED <<up, free, filled>>
    BY <1>5, PipelineAssumption DEF TypeOK, GetFails
  <2>2. NothingComes
    BY <1>5 DEF GetFails
  <2> QED
    BY <2>1, <2>2, TimeOutTyped DEF TypeOK
<1>6. CASE Reinit
  <2>1. filled' \in Seq(Positions) /\ Len(filled') <= FbCount
    BY <1>6, EmptySeq, PipelineAssumption DEF Reinit, Deinit
  <2>2. failures' \in 0 .. MaxFailures - 1
    BY <1>6, PipelineAssumption DEF Reinit
  <2>3. /\ waited' \in 0 .. Patience /\ starved' \in BOOLEAN
        /\ UNCHANGED <<streaming, healthy, base, queue, snd, hand, late>>
    BY <1>6, TimeOutTyped DEF Reinit
  <2>4. up' = FALSE /\ free' = {} /\ cap' = "reinit"
    BY <1>6 DEF Reinit, Deinit
  <2> QED
    BY <2>1, <2>2, <2>3, <2>4 DEF TypeOK
<1>7. CASE InitSucceeds
  BY <1>7 DEF TypeOK, InitSucceeds, senderVars
<1>8. CASE InitFails
  BY <1>8 DEF TypeOK, InitFails, driverVars, senderVars
<1> QED
  BY <1>1, <1>2, <1>3, <1>4, <1>5, <1>6, <1>7, <1>8 DEF Capture

LEMMA SendTyped ==
    ASSUME TypeOK, Send
    PROVE  TypeOK'
<1>1. CASE Receive
  <2>1. Head(queue) \in Frames /\ Tail(queue) \in Seq(Frames) /\ Len(Tail(queue)) = Len(queue) - 1
    BY <1>1, RangeTail DEF TypeOK, Receive
  <2> QED
    BY <1>1, <2>1, PipelineAssumption DEF TypeOK, Receive, driverVars, captureVars
<1>2. CASE Convert
  BY <1>2 DEF TypeOK, Convert, driverVars, captureVars
<1>3. CASE ConvertFails
  BY <1>3, ReturnedType DEF TypeOK, ConvertFails, captureVars
<1>4. CASE Sent
  BY <1>4, ReturnedType, PipelineAssumption DEF TypeOK, Sent, captureVars
<1> QED
  BY <1>1, <1>2, <1>3, <1>4 DEF Send

LEMMA NextTyped ==
    ASSUME TypeOK, [Next]_vars
    PROVE  TypeOK'
<1>1. CASE Switch
  BY <1>1 DEF TypeOK, Switch, driverVars, captureVars, senderVars
<1>2. CASE SensorChanges
  BY <1>2 DEF TypeOK, SensorChanges, driverVars, captureVars, senderVars
<1>3. CASE Driver
  BY <1>3, FillTyped DEF Driver
<1>4. CASE Capture
  BY <1>4, CaptureTyped
<1>5. CASE Send
  BY <1>5, SendTyped
<1>6. CASE UNCHANGED vars
  BY <1>6 DEF TypeOK, vars, driverVars, captureVars, senderVars
<1> QED
  BY <1>1, <1>2, <1>3, <1>4, <1>5, <1>6 DEF Next

\* Driver, tasks and queue keep their types and lengths, whatever the
\* reinitialisations leave in the queue.
THEOREM PipelineTyping == Spec => []TypeOK
<1>1. Init => TypeOK
  BY InitTyped
<1>2. TypeOK /\ [Next]_vars => TypeOK'
  BY NextTyped
<1> QED
  BY <1>1, <1>2, PTL DEF Spec
-----------------------------------------------------------------------------
(***************************************************************************)
(* No buffer is lost.  The sender's hand is empty while it waits: else the *)
(* next frame would push one out.                                          *)
(***************************************************************************)

HandInv == snd = "receive" => hand = {}

FrameInv == HandInv /\ NoFrameLost

\* A step that leaves every buffer of the driver somewhere loses none.
LEMMA PictureKeeps ==
    ASSUME TypeOK, FrameInv, NEW x \in Positions, Fill(x)
    PROVE  FrameInv'
<1>1. UNCHANGED <<up, base, queue, snd, hand>> /\ Held' = Held
  BY DEF Fill, Held, senderVars
<1>2. free \cup Range(filled) \subseteq free' \cup Range(filled')
  <2>1. CASE Len(filled) < FbCount
    <3>1. filled \in Seq(Positions) /\ filled' = Append(filled, x) /\ free' = free \ {x}
      BY <2>1 DEF TypeOK, Fill
    <3>2. Range(Append(filled, x)) = Range(filled) \cup {x}
      BY <3>1, RangeAppend
    <3> QED
      BY <3>1, <3>2
  <2>2. CASE ~(Len(filled) < FbCount)
    <3>1. filled # <<>>
      BY <2>2, PipelineAssumption DEF TypeOK
    <3>2. Range(filled) = {Head(filled)} \cup Range(Tail(filled))
      BY <3>1, RangeTail DEF TypeOK
    <3>3. Tail(filled) \in Seq(Positions)
      BY <3>1, RangeTail DEF TypeOK
    <3>4. Range(Append(Tail(filled), x)) = Range(Tail(filled)) \cup {x}
      <4>1. \A t \in Seq(Positions) : Range(Append(t, x)) = Range(t) \cup {x}
        BY RangeAppend
      <4> QED
        BY <3>3, <4>1, Zenon
    <3>5. filled' = Append(Tail(filled), x) /\ free' = (free \ {x}) \cup {Head(filled)}
      BY <2>2 DEF Fill
    <3> QED
      BY <3>2, <3>4, <3>5
  <2> QED
    BY <2>1, <2>2
<1> QED
  BY <1>1, <1>2 DEF FrameInv, HandInv, NoFrameLost

\* A frame that is taken from the driver is queued or given back.
LEMMA TakeKeeps ==
    ASSUME TypeOK, FrameInv, TakeFrame,
           \/ UNCHANGED free /\ queue' = Append(queue, Taken)
           \/ free' = Returned({Taken}) /\ UNCHANGED queue
    PROVE  FrameInv'
<1>1. /\ Head(filled) \in Positions
      /\ Range(filled) = {Head(filled)} \cup Range(filled')
  BY RangeTail DEF TypeOK, TakeFrame
<1>2. up /\ up' /\ base' = base /\ UNCHANGED <<snd, hand>>
  BY DEF TakeFrame, senderVars
<1>3. Taken \in Frames
  BY <1>1 DEF TypeOK, Taken, Frames
<1>4. CASE UNCHANGED free /\ queue' = Append(queue, Taken)
  <2>1. Range(queue') = Range(queue) \cup {Taken}
    <3>1. queue \in Seq(Frames)
      BY DEF TypeOK
    <3> QED
      BY <1>3, <1>4, <3>1, RangeAppend
  <2>2. Held' = Held \cup {<<base, Head(filled)>>}
    BY <1>2, <2>1 DEF Held, Taken
  <2> QED
    BY <1>1, <1>2, <1>4, <2>2 DEF FrameInv, HandInv, NoFrameLost
<1>5. CASE free' = Returned({Taken}) /\ UNCHANGED queue
  <2>1. free' = free \cup {Head(filled)}
    BY <1>1, <1>2, <1>5 DEF Returned, Taken
  <2> QED
    BY <1>1, <1>2, <1>5, <2>1 DEF FrameInv, HandInv, NoFrameLost, Held
<1> QED
  BY <1>4, <1>5

LEMMA CaptureKeeps ==
    ASSUME TypeOK, FrameInv, Capture
    PROVE  FrameInv'
<1> USE DEF FrameInv, HandInv, NoFrameLost, Held
<1>1. CASE Look
  BY <1>1 DEF Look, driverVars, senderVars
<1>2. CASE GetFrame
  BY <1>2, TakeKeeps DEF GetFrame
<1>3. CASE GetFrameQueueFull \/ GetShortFrame
  BY <1>3, TakeKeeps DEF GetFrameQueueFull, GetShortFrame
<1>4. CASE GetFails
  BY <1>4 DEF GetFails, NothingComes
<1>5. CASE Reinit
  BY <1>5 DEF Reinit, NothingComes, Deinit
<1>6. CASE InitSucceeds
  BY <1>6 DEF InitSucceeds, senderVars
<1>7. CASE InitFails
  BY <1>7 DEF InitFails, driverVars, senderVars
<1> QED
  BY <1>1, <1>2, <1>3, <1>4, <1>5, <1>6, <1>7 DEF Capture

LEMMA SendKeeps ==
    ASSUME TypeOK, FrameInv, Send
    PROVE  FrameInv'
<1>1. CASE Receive
  <2>1. Range(queue) = {Head(queue)} \cup Range(queue') /\ hand = {} /\ hand' = {Head(queue)}
    BY <1>1, RangeTail DEF TypeOK, FrameInv, HandInv, Receive
  <2>2. Held' = Held
    BY <2>1 DEF Held
  <2> QED
    BY <1>1, <2>2 DEF FrameInv, HandInv, NoFrameLost, Receive, driverVars
<1>2. CASE Convert
  BY <1>2 DEF FrameInv, HandInv, NoFrameLost, Held, Convert, driverVars
<1>3. CASE ConvertFails \/ Sent
  <2>1. /\ UNCHANGED <<up, base, filled, queue>>
        /\ hand' = {} /\ free' = Returned(hand)
    BY <1>3 DEF ConvertFails, Sent
  <2> QED
    BY <2>1 DEF FrameInv, HandInv, NoFrameLost, Held, Returned
<1> QED
  BY <1>1, <1>2, <1>3 DEF Send

LEMMA NextKeeps ==
    ASSUME TypeOK, FrameInv, [Next]_vars
    PROVE  FrameInv'
<1> USE DEF FrameInv, HandInv, NoFrameLost, Held
<1>1. CASE Switch \/ SensorChanges
  BY <1>1 DEF Switch, SensorChanges, driverVars, senderVars
<1>2. CASE Driver
  BY <1>2, PictureKeeps DEF Driver
<1>3. CASE Capture
  BY <1>3, CaptureKeeps
<1>4. CASE Send
  BY <1>4, SendKeeps
<1>5. CASE UNCHANGED vars
  BY <1>5 DEF vars, driverVars, senderVars
<1> QED
  BY <1>1, <1>2, <1>3, <1>4, <1>5 DEF Next

LEMMA FrameInvHolds == Spec => []FrameInv
<1>1. Init => FrameInv
  BY DEF Init, FrameInv, HandInv, NoFrameLost
<1>2. TypeOK /\ FrameInv /\ [Next]_vars => FrameInv'
  BY NextKeeps
<1> QED
  BY <1>1, <1>2, PipelineTyping, PTL DEF Spec

\* Every path of both tasks gives back or passes on the buffer it took.
THEOREM EveryFrameAccounted == Spec => []NoFrameLost
<1>1. FrameInv => NoFrameLost
  BY DEF FrameInv
<1> QED
  BY <1>1, FrameInvHolds, PTL

\* Only a sensor that fails or a send that does not end takes the camera down, if
\* need be by a time-out that began under it: with no buffer lost, nothing else can
\* starve the driver.
THEOREM ReinitHasCause == Spec => ReinitOnlyIfSickOrStuck
<1>1. ASSUME TypeOK, FrameInv, [Next]_vars, up, ~up'
      PROVE  ~healthy \/ snd = "send" \/ starved
  <2>1. Reinit
    BY <1>1 DEF Next, vars, driverVars, Switch, SensorChanges, Driver, Fill, Capture, Look,
                GetFrame, GetFrameQueueFull, GetShortFrame, TakeFrame, GetFails, InitSucceeds,
                InitFails, Send, Receive, Convert, ConvertFails, Sent
  <2> SUFFICES ASSUME healthy, snd # "send", ~starved PROVE FALSE
    OBVIOUS
  <2>2. filled = <<>> /\ free = {} /\ snd = "receive" /\ queue = <<>>
    BY <1>1, <2>1 DEF Reinit, NothingComes
  <2>3. Held = {} /\ Range(filled) = {}
    BY <1>1, <2>2 DEF FrameInv, HandInv, Held, Range
  <2>4. 1 \in Positions
    BY PipelineAssumption DEF Positions
  <2> QED
    BY <1>1, <2>2, <2>3, <2>4 DEF FrameInv, NoFrameLost
<1>2. TypeOK /\ FrameInv /\ [Next]_vars => [up /\ ~up' => ~healthy \/ snd = "send" \/ starved]_vars
  BY <1>1
<1> QED
  BY <1>2, PipelineTyping, FrameInvHolds, PTL DEF Spec, ReinitOnlyIfSickOrStuck
-----------------------------------------------------------------------------
(***************************************************************************)
(* The last frame after the stream was switched off: it is the one the     *)
(* capture task was waiting for, so none is late while it still waits.     *)
(***************************************************************************)

LateInv == late = 0 \/ (late = 1 /\ ~streaming /\ cap # "get")

LEMMA LateInvStep ==
    ASSUME LateInv, [Next]_vars
    PROVE  LateInv'
<1> USE DEF LateInv
<1>1. CASE Switch
  <2>1. late' = 0
    BY <1>1 DEF Switch
  <2> QED
    BY <2>1
<1>7. CASE SensorChanges \/ Driver
  BY <1>7 DEF SensorChanges, Driver, Fill, captureVars
<1>2. CASE Look
  BY <1>2 DEF Look
<1>3. CASE GetFrame \/ GetFrameQueueFull \/ GetShortFrame
  BY <1>3 DEF GetFrame, GetFrameQueueFull, GetShortFrame, TakeFrame
<1>4. CASE GetFails \/ Reinit \/ InitSucceeds \/ InitFails
  BY <1>4 DEF GetFails, Reinit, NothingComes, InitSucceeds, InitFails
<1>5. CASE Send
  BY <1>5 DEF Send, Receive, Convert, ConvertFails, Sent, captureVars
<1>6. CASE UNCHANGED vars
  BY <1>6 DEF vars, captureVars
<1> QED
  BY <1>1, <1>2, <1>3, <1>4, <1>5, <1>6, <1>7 DEF Next, Capture

\* Once the camera is switched off, one more frame at most is queued.
THEOREM OneLateFrame == Spec => []DarkAfterOne
<1>1. Init => LateInv
  BY DEF Init, LateInv
<1>2. LateInv /\ [Next]_vars => LateInv'
  BY LateInvStep
<1>3. LateInv => DarkAfterOne
  BY DEF LateInv, DarkAfterOne
<1> QED
  BY <1>1, <1>2, <1>3, PTL DEF Spec
=============================================================================
