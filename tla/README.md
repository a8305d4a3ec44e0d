# A verification of the Sit-n-Chow feeder

The repository is the firmware of a pet feeder on an ESP32-S3: a phone app (or a
schedule) asks for a meal, the device beeps, waits for the pet, streams pictures
to a posture model in the cloud, turns a stepper motor that drops the food, and
reports what it did. The firmware proper is `src/main` (about 3600 lines of C on
FreeRTOS); the rest of the repository is vendored drivers and build output.

This directory holds TLA+ models of that code, the TLC configurations that check
them on small instances, and TLAPS proofs of the results that matter most.
`PROJECT.json` maps every definition to the lines it stands for.

## 1. Inventory

| Component | State it keeps | Operations | What is hard | What makes it correct |
|---|---|---|---|---|
| **Feed workflow** (`main.c` `do_feed_workflow`, 490-571) | `s_feed_mutex`, the locals of the call; in the cloud `feedEvents`, `notifications`, `inventory/lowFood` | beep, presence, camera on, sitting verdict, camera off, motor, level, event, notices, flag | one function called from two tasks; every step blocks; every write to the cloud may be lost; power may go anywhere | feeds never overlap; the mutex comes back on every path; what is reported happened; a feed ends |
| **Command polling** (`main.c` 577-634) | `commands/<id>/pending` in the cloud | GET, DELETE, call the workflow | at-least-once delivery by hand: the DELETE may fail, or hit a newer command | a command is not fed twice without cause, and does not stay pending |
| **Live-view polling** (`main.c` 122-141, 686-711) | `s_camera_streaming`, `last_state` | mirror `cameraActive` on a change | the flag is shared with the sitting detector | the camera does not stream without a reason |
| **Schedule runner** (`schedule_runner.c`) | table of schedules, last-fired time and weekday, refresh flag, `last_refresh` | fetch and parse, check and fire, refresh | six checks fall into one minute; two conventions for weekdays; a feed blocks the task; the memory dies with the device | a due minute is served once; nothing else fires; refreshes are not lost |
| **Dispenser** (`dispenser.c`) | loop counters, the motor pins | `dispenser_run` | unsigned differences, integer slopes, float conversion, busy-waiting | exactly the computed pulses, at periods the motor follows |
| **Audio player, speaker** (`audio_player.c`, `speaker.c`) | `s_playing`, `s_samples`, `s_sample_count`, a binary semaphore, the LEDC output | start, stop, beep, playback | two callers on two cores and no lock | nothing stays playing; what is played is heard; the beep, which the feed waits for, ends |
| **Audio intercom** (`audio_intercom.c`) | session buffer and length, session flag, play trigger | binary messages in fragments, "stop", disconnect, play | the next session arrives in the buffer that is being played | the buffer is not overrun; a message nobody disturbs is heard |
| **Camera pipeline** (`main.c` 143-300, 640-684) | two driver frame buffers, a queue of four, the WebSocket | capture, send, reinitialise after three failures | ownership of a frame across tasks, and across `reinit_camera` | no buffer is lost; the stream recovers from failures and comes to rest when it is switched off; nobody holds what the driver may fill |
| **Sitting detector** (`main.c` 395-474) | baseline of `updatedAt` | poll `updatedAt`, then `posture` | two GETs of one record; a baseline that cannot be read; the time-out counts its sleeps only | a verdict belongs to this feed; the wait ends in the time its sleeps and requests take |
| **ToF presence, level sensor** (`tof.c`, the TMF8701 driver, `ultrasonic.c`) | the driver's window of host and sensor times, its ratio; consecutive close readings, the deadline | start the sensor; wait for presence; measure | two clocks that wrap; distances are 0 until there is a ratio; a calibration loop without a bound; a missing sensor | a wait keeps its time; a pet is said only of a pet, and seen when it stays |
| **Firebase client** (`firebase_client.c`) | token, its timer, two mutexes in use, two HTTP handles, response buffers | get, set, patch, push, delete, streaming get, refresh | URL, body and buffer are set on a shared handle; the URL is built before the wait for it; a failed refresh waits 55 minutes; growth of the buffer | no exchange mixes with another's, no request hangs, no buffer is overrun, a session is renewed in time |
| **WebSocket client** (`esp_websocket_client.c`) | state, `lock`, `wait_for_pong_resp`, the time stamps of PING, PONG and reconnection, the transport | the client's task; start, is_connected, the sending functions; the camera's hello | the state is read outside the lock; fragments of two tasks on one connection; a server that is gone without a word | whole messages after the hello on every connection; the client comes back |
| **Manual button** (`manual_button.c`) | debounce, the motor pins | hold to turn | would drive the dispenser's pins without the feed mutex; `manual_button_start` has no caller in this version | one user of the motor at a time |
| **Wi-Fi, boot, heartbeat** (`app_wifi.c`, `main.c` 476-488, 717-880) | event group, identity, which tasks run | provision, reconnect, start the tasks | handlers that outlive the event group they use; tasks that start without an owner | the device comes up; the tasks run on what boot left |

**Interactions.** The schedule runner calls the workflow through a callback, in
its own task; the command task calls it directly. Both meet at `s_feed_mutex`,
which is *tried*, not waited for: the loser's trigger is dropped. The workflow
calls the speaker, the ToF sensor, the dispenser and the level sensor in its own
thread, and talks to camera and posture model through `s_camera_streaming` and
the database. The beep meets the intercom in the audio player. Everything that
touches the cloud goes through the Firebase client, one request at a time but for
the camera poll, which has a handle of its own. The camera's frames go through
one WebSocket client, the owner's voice comes through another.

The hazards this list comes from are in `PROJECT.json`, each at its line, with
the properties that would notice them, or the reason why none does yet.

## 2. Modules

| Module | Stands for | Variables and actions |
|---|---|---|
| `FeedService` | what the feeder promises about one feed | abstract: `phase`, `asked`, `count`, `poured`, `reports`; begin, give up, pour or refuse, report, end |
| `FeedWorkflow` | `main.c`: both callers, the workflow, the live-view task, the app, the database, power loss | `pc[t]`, `job[t]` are the program counter and the locals of task `t`; one action for each blocking step, because the other tasks run while it blocks |
| `ScheduleRunner` | `schedule_runner.c` and local time | `pc` over the loop of `schedule_task`; `answers`: the tables that the request under way may return; `Tick` advances time only where the task blocks |
| `StepCount` | `dispenser.c:122-124` in binary32 | `TotalSteps(grams)`, a pure definition |
| `Dispenser` | `dispenser.c`: `dispenser_run` pulse by pulse | `pc` over the three loops, `i` the loop counter |
| `AudioPlayer` | `audio_player.c`, `speaker_beep` | `task`, `own`, `pos`: the playback task; `at[c]`, `want[c]`: caller `c` inside `audio_player_start` and after; one action per access to a shared variable |
| `Intercom` | `audio_intercom.c`, extends `AudioPlayer` | `buffered`, `open`, `trigger` as in the code; `partial` is the message being delivered |
| `CameraPipeline` | `main.c`: `camera_capture_task`, `ws_send_task`, `init_camera`, `reinit_camera`, and the driver's buffers | `cap`, `snd`: the two tasks; `queue` is `xQueueIFrame`; `free`, `filled`, `base`: the driver's empty and filled buffers and the address of their array |
| `FirebaseClient` | `firebase_client.c` | `pc` of each caller; `token` in two halves, by age; `chan`: URL, body, buffer and reply of each handle; one action per lock, per piece of a reply, per half of the token |
| `Boot` | `app_main`, `app_wifi.c`, extends `FirebaseClient` | `stage` of `app_main`, `station`, the event group, `running`: the tasks started so far |
| `TofSensor` | `tof.c` and what of the TMF8701 driver decides its outcome | `now`, `clock`: the two clocks; `times`: the driver's window; `deadline`, `confirm`; `measures`: whether results come |
| `Feeder` | `main.c:810-816`: the schedule runner with the workflow as its callback; extends `FeedWorkflow`, has an instance of `ScheduleRunner` | actions of the one or of the other, and three of both: the call, its return, the restart; `orders`, `causes`, `excused` remember who asked for what |
| `SittingDetector` | `sitting_detector_run` and the ML service's record | `detector`, `baseline`, `polls`; `updatedAt`, `posture` in the cloud; `took`, the time that the code does not count |
| `PetDetection` | steps 2 to 4 of the workflow: extends the two above | the verdicts that `FeedWorkflow` takes as free choices are made here |
| `WebSocketClient` | `esp_websocket_client.c`, with `ws_send_task` and the hello of `main.c` | `task`, `sender`: the client's task and the sending one; `state`, `lock`, `waiting` as in the code; `wire`: what the server makes of what it got; `cut`: whether a frame of this connection was written in part |
| `MC*` | small instances | |
| `*Proofs` | theorems about the module they are named after; `BootProofs` about `FirebaseClient` and `Boot`, `FeedWorkflowProofs` also about `FeedService` and `Feeder`, `PetDetectionProofs` about its two parts | |

Composition: `FeedWorkflow` implements `FeedService` under the mapping at its end
(`phase` is the group of locations the mutex holder is in); `Intercom` is the
composition of the intercom, the player and the beep; `Feeder` is that of the workflow
and the schedule runner, both of which it is shown to implement (`FeederRunsBoth`); `Boot` is the composition of
boot, Wi-Fi and the Firebase client, whose steps it is shown to refine
(`BootRunsClient`); `PetDetection` that of sensor and detector; `MCDispenser`
gives `Dispenser` the step counts of `StepCount`.

**Ghosts.** Variables under "history and bounds" record what happened; no action
of the code reads them, save that the `Max...` bounds stop the environment
(commands, schedule calls, lost DELETEs, switches, edits, failed fetches,
messages, restarts). A schedule call is the environment's in `FeedWorkflow`; in
`Feeder` the code itself makes it, and there `MaxFires` holds back a callback beyond the
second. `Horizon` stops the clock of `ScheduleRunner`. No other bound stops the code.

**Seeded bugs.** A definition placed before another and named for how it is
wrong (`AckOnlyUnforced` before `AckApplied`, `RememberTimeOnly` before
`Remember`) is a plausible mistake in the code of the definition after it. No
action uses it. Put in its place, it breaks the property that `PROJECT.json`
pairs it with: each property has shown that it can fail.

### How the models abstract

* *Feed workflow.* Messages, paths and time stamps are gone; a command is an
  identity, an action, an amount that may be missing, and `force`. A write to the
  cloud is applied or lost, since no caller looks at the result. The presence
  wait, the verdict and the level reading are free choices; `PetDetection` makes the
  first two. A DELETE whose
  request was reported lost and takes effect later is not modelled. The owner is
  known at boot or not (`identityReady`): without an owner neither the schedule
  runner nor notices exist.
* *Schedule runner.* Time advances in slots, a fraction of a minute. The code
  between two blocking calls takes no time. `s_mutex` guards what only the task
  itself touches and is left out. A fetch returns the table as it was at some
  moment of the request, so that an edit may fall between the server's answer and its
  arrival (`answers`). `schedule_runner_refresh` has no caller in this version of the
  firmware; `RefreshHonoured` is about what its header promises. Local time never jumps
  (no daylight saving, no late SNTP answer).
* *Dispenser.* A pulse and its period are one step. DIR, SLP and RST never change
  the outcome. Calls come from one task at a time, which `MutexOwned` shows of
  the workflow; the manual button is not part of it.
* *Audio.* The playback task has the highest priority and does not block while it
  plays, so the voice task, pinned to the same core, moves only while playback
  rests (`Cpu1Free`). The beep runs on the other core, between any two steps. The
  waits of 5, 10 and 20 ms are long against everything but playing (`Settled`):
  the playback task looks at `s_playing` at 16 kHz. `MAX_IRAM_BYTES` is 0, an
  allocation of that size yields no buffer, and playback is from the session
  buffer itself. Amounts are whole samples: the byte of an odd payload is lost by
  a rounding down that moves nothing else.
* *Camera pipeline.* Stands alone: the switch (`camera_streaming_start` and
  `_stop`, whoever calls them) and the sensor may change at any time. A buffer is
  its address, since that is all `esp_camera_fb_return` compares; memory freed by
  a reinitialisation may be handed out again. There is no clock: what lasts longer
  than what is written into the guard of `NothingComes`: an empty-handed
  `esp_camera_fb_get` is due to a stuck send or a failing sensor, or began under one
  and expired just after it ended (`starved`). A healthy sensor fills an
  empty buffer, and `ws_send_task` does everything but send, within the 4 s of
  `esp_camera_fb_get`; a send may outlast `Patience` of them, since 5 s are
  allowed for each of the client's lock, the header and the payload. The step
  from `cam_deinit` to `s_state = NULL` is atomic, and what a task reads from a
  buffer that has been freed is not modelled: it keeps running. The outcome of a
  send is a free choice; `WebSocketClient` has its inside.
* *Firebase client.* No absolute time: a token and a waiting request have ages,
  which stop where nothing changes any more. The text of the token is written in
  two halves, so that a copy made in between would show. A reply arrives in
  pieces of at most `Chunk` and may end anywhere, with a failure too. Paths and
  JSON are gone; what callers make of a result is in their own modules.
* *Boot.* A restart forgets everything but the Wi-Fi credentials. A task whose
  stack cannot be allocated is left out. Provisioning is a credential that
  arrives; the NVS and BLE machinery behind it is external.
* *ToF sensor.* Ticks of the two clocks are equally long, so a ratio is right
  exactly when two differences agree. In the driver 5000 of the sensor's are one of
  the host's, both words have 32 bits: the host's word holds whole rounds of the
  sensor's, which takes 14 minutes for one and so more than a wait
  (`ClocksAssumption`). A distance is near, far or 0. Registers, the
  RAM patch and the calibration data are left out; what the sensor runs, whether it
  answers and whether it measures are kept. It may not measure although it was told to,
  and may stop for good (`StartMeasuring`, `SensorLost`); that results come in the end
  from one that measures is assumed.
* *Sitting detector.* Time is counted in sleeps of 500 ms. `polls` is the
  `elapsed_ms` of the code; `took` adds the time of each GET, up to `MaxGet`
  (`timeout_ms` of the HTTP client is 15 s). `updatedAt` and `posture` are written
  together by the service and read by two GETs.
* *Step count.* `StepCount` rounds as binary32 does, for positive amounts up to 18 kg:
  beyond, the error may exceed one step.
* *WebSocket client.* As the firmware configures it: no separate send lock,
  reconnection after an error and none after a CLOSE. `ws_send_raw` writes a
  frame whole, in part or not at all. After a part the code goes on with a new frame for the
  rest (`esp_websocket_client.c:732-734`), of a PING, a PONG or a CLOSE it does not look
  how much was written, and the server, which waits for the rest of the first frame, makes
  nothing of what follows: `wire` is garbled with the next write. A received frame arrives
  whole or fails; the second time the
  lock is taken for data left over from the handshake is skipped; a redirection with an
  address is one more reason to connect again, one without counts as a connection. A connection may be lost without a word.

## 3. Runs

| Run | Question | Instance |
|---|---|---|
| `FeedWorkflow_progress` | do the tasks implement `FeedService`; does each feed end and each command go, and is none fed again without cause; does a closed live view go dark | one command, one schedule call, one restart and, beside them, one lost DELETE or a live view opened and closed; an amount the dispenser takes |
| `Feeder_meals` | is each motor run somebody's wish, and each due meal answered; do reports agree with the motor; does a Quick Feed move food | one Quick Feed; one table, with an entry for the day that passes among those for the other day and for another device; two calls of the schedule runner, one restart at any point, every POST lost or not; a day of two minutes of two slots |
| `ScheduleRunner_week` | do entries fire once per minute and boot; is every undisturbed due minute served; is no refresh lost; how old may the table get | a week of two days of three minutes of three slots; tables with every kind of rejected entry; feeds of up to four slots; an edit, before or behind the server's answer, a refresh, a failed fetch and a restart |
| `Dispenser_runs` | are all steps given, at which periods, with which pauses, and how good is the float | 29 amounts at 60 rpm, where the floor of 800 us binds; a restart anywhere |
| `Intercom_heard` | is the buffer safe, does nothing stay playing, is who has the speaker alone heard in full, does the beep end | a beep of two samples, a buffer of three, two messages of one or two samples in fragments, a lost connection, two beeps |
| `CameraPipeline_frames` | is no buffer lost; when is a working camera taken down; does the stream recover, and come to rest | two buffers at two addresses, a queue of three, two failures, patience for two; switch and sensor unbounded |
| `FirebaseClient_requests` | does an exchange stay its caller's, do replies fit, does a request expire in the queue | two tasks on the shared handle, one camera poll; a lifetime of six ticks, a period of two, a fetch and a wait of one; a buffer that is doubled once |
| `Boot_session` | does the device come up, does no request hang, is a token renewed | the schedule task and the command task; two attempts at token and owner; a loss of Wi-Fi and the restart it ends in; with and without stored credentials |
| `PetDetection_feeds` | does a wait keep its time, is a pet said only of a pet and seen when it stays, where can the start hang, is a verdict new, how long does the detector run | a host clock of ten ticks, a sensor clock of five, a timeout of five; two samples; two polls, two verdicts, GETs of no time or of a sleep's; any number of feeds |
| `WebSocketClient_stream` | does the server get the hello and whole messages, is a connection given up only for its own PONG, does the client come back | messages of five units at most over a buffer of two, so up to three frames, each of which may be written in part; a PING every tick, a PONG timeout of three |

Ten passing runs; two more, `ScheduleRunner_weekly` and `Boot_reconnect`, each refute
one sentence of the code (section 5). Some of what is proved is not run again:
`TypeOK` of each module, `MutexOwned`, `MlStreamEnds`, `PulsesExact`,
`FiresOnlyWhatIsDue`, `BufferHolds`, `SpeedLimits`, `DarkAfterOne`, `TokenWhole` and
`LocksBeforeTasks` held in runs of TLC on these instances and are theorems now.

**Why the bounds are enough.** The workflow has two callers and one mutex: one
command and one schedule call bring both into every pair of locations. The lost
DELETE, which makes the command come back at each of them, and the restart are in
`FeedWorkflow_progress`. Its constraint `LostOrWatched` keeps the lost DELETE, which
is about `pending`, and the live view, which is about `streaming`, out of each
other's behaviours; no fair action is cut short by it, because a DELETE may always
arrive instead and the app owes nothing. The second call of a minute that fires
again after a restart is in `Feeder_meals`. Amounts that are not positive, commands
that are not forced and more of everything are only in the theorems. In the week,
both kinds of day, the wrap of the weekday, a table of entries of which the array holds fewer, and feeds that end
in the next minute or cover a whole one occur. What is due while a feed lasts, or in
the last minute of one that leaves no time for a nap and a fetch, is missed, because the
callback runs in the schedule task: `DueMinuteIsServed` excepts exactly those minutes.
The
amounts of `MCDispenser` lie on both sides of each case distinction in the code. In
the intercom, two messages may make two sessions, or one session of which the
second message does not fit, and the second of two beeps meets what the first and a
voice left behind. The
camera pipeline has no bound of its own, its state is finite; a queue of three
and two failures in place of four and three keep the run short, and what matters
is kept: one send can outlast as many time-outs as make a failure, and buffers of
several generations fill the queue. Two callers on one handle are enough for one to
wait while the other is anywhere, and the third shows that the handles do not
meet; the token can expire in the hand of a waiting request if refreshes fail,
and the times satisfy the inequality the proof needs by one tick. `Boot_session`
has no camera poll, which shares nothing with boot but the token. In
`PetDetection_feeds` both clocks wrap several times between and within waits, and
the window of the driver, one old result, is what the code's four are: more than
none and less than a wait; the sensor, which a restart of the device does not
restart, begins anywhere on its clock. Three frames
of a message have a first, a middle and a last, and a short write can leave a rest that
fills a buffer or does not.

`WaitKeepsItsTime` speaks of waits that begin clear of the wrap, `InitEnds` of
a sensor that measures, `MessagesFit` of the time before a frame is written in part, `VerdictIsNew` of a baseline that is read: near the
wrap the wait may end at once (`tof.c:156`), `setCaibrationMode`
loops without a limit for results that never come if the sensor's identity was misread, the write
that starts the measurement was lost or the sensor fails in between, a short write is
not finished, and without a baseline any
old verdict looks new. Each is a hazard in `PROJECT.json`, and the reason for
the condition.

**Fairness.** `FeedWorkflow`: weak fairness of the command task, of the live-view
task and of each workflow call. FreeRTOS serves every ready task, and each
blocking call returns: requests have time-outs, the ToF wait has a deadline, the
motor loop a count, the beep is `BeepEnds` of the intercom. The step with which a
feed of the schedule begins is the callback's, and nothing is fair about the app,
the network or power. `LiveViewStops` is conditional on the app having closed the
view for good. `Intercom`: weak fairness of the voice task, the beep and the
playback task; what arrives is unfair. `BeepEnds` rests on the bound on messages:
an owner who never stops talking could restart playback under the beep for ever.
`CameraPipeline`: weak fairness of the
two tasks and of the driver while the sensor works; switch and sensor are unfair,
and `StreamRecovers` and `StreamDrains` are conditional on them.
`Boot`: weak fairness of boot and the tasks; HTTP calls return, by their
time-outs; somebody provides credentials, and the access point is joined in the
end (strong fairness of `GotIp`); the mutex is handed on (strong fairness of
`Configure`), and a refresh that keeps being possible succeeds in the end
(`StoreBegins`). `PetDetection`: the tasks run, GETs end, and a sensor
that measures delivers results; nothing is assumed of the ML service.
`WebSocketClient`: weak fairness of time and of both tasks, a server that
finishes a frame it began, strong fairness of taking the lock (a FreeRTOS mutex
wakes its first waiter) and of `Connects`: among all attempts, one succeeds.
`ScheduleRunner`, `Feeder` and `Dispenser` are checked for safety only, and their
specifications claim no fairness; that a due minute is served is the action
property `DueMinuteIsServed`, at the tick that ends the minute.

**Deadlock** is checked everywhere but in `Intercom_heard`, where the bounded
network may have said all it had to say and both tasks wait.

## 4. Theorems

All are of the form `Spec => []P` (or `Spec => A`, `A` an action property), for every value of the constants that the
named assumptions allow; `tlapm` checks them to the last leaf.

| Module | Theorem | Invariant it rests on |
|---|---|---|
| `FeedWorkflowProofs` | `Typing`, `FeedsNeverOverlap` (`MutexOwned`), `NobodyFilmedAfterwards` (`MlStreamEnds`) | inductive with `TypeOK` |
| | `CommandFedOnce` (`CommandOnce`) | `CommandInv`: while a command is pending, or between its GET and its feed, each of its feeds so far is paid for by a lost DELETE, and by one more if it is pending and about to be fed |
| | `EventsTellTheTruth` (`EventsTruthful`) | `FeedInv` and `MutexOwned`: the feed in progress is the last that began, is not in the log before its event, and has its pair in `poured` once a positive amount is past the motor |
| | `QuickFeedPours` (`ForcedFeedPours`) | `ForcedInv`: a forced feed never stands where a feed waits for the pet, and a feed behind the motor has poured |
| | `WorkflowImplementsService` | each action of the tasks is an action of `FeedService` or a stutter, from `TypeOK` and `MutexOwned` |
| | `FeederTyping`, `FeederRunsBoth` | each step of the feeder is a step of `FeedWorkflow` or leaves it alone, and one of `ScheduleRunner` or leaves it alone |
| | `NothingPoursUnasked` (`EveryPourAsked`) | the way of an amount, place by place: `OrderInv`, what the command task holds is what the app ordered; `CallInv`, what the schedule task holds is what the runner fired last; `CauseInv`, each feed is for one command or one call, and no call for two; `PourInv`, what was poured is what its feed owes. That a fired entry was due is `OnlyWhatIsDue`, by `FeederRunsBoth` |
| | `DueMealsAreAnswered` (`DueMealAnswered`) | `AnswerInv`: every call of this boot but one on its way began a feed or met one of the command task, and in an undisturbed minute all calls are of this boot; with `ServedWithinTheWeek`, whose assumptions it has, and `MutexOwned` |
| | `NoticesTellTheSame` (`NoticesAgree`) | `NoticeInv`: no notice is of the feed in progress before its event, and between event and notices the job still says what the event said |
| `ScheduleRunnerProofs` | `RunnerTyping`, `OncePerMinute`, `OnlyWhatIsDue`, `RefreshNeverLost` | `HistoryInv`: no recorded call is ahead of the clock, one made in this minute and boot is what the memory still names, and the entries of the table passed the parser |
| | `TableFollowsCloud` (`StaleBounded`) | `TimeInv`: at each place of the loop, the time since the last refresh is bounded by the time waited there and what the places before may have taken, and by one request more, whose answer may be older than an edit |
| | `MissedOnlyWeeksLater`, `ServedWithinTheWeek` (`DueMinuteIsServed`) | `DueInv`: of an undisturbed due minute, either it is served, or the memory names it, or the loop comes round in time; `MemoryInv`: what the memory names was called in this boot, so that a mark that is met without a call in this minute is whole weeks old. Both assume that a nap and a fetch take at most a minute (`CheckSlots + MaxFetchSlots <= SlotsPerMinute`): the nap is 10 s, a request that takes longer than 50 s spoils it; the second also a `Horizon` of one week |
| `DispenserProofs` | `DispenserTyping`, `EveryStepGiven` (`PulsesExact`), `SpeedStaysInLimits` | `RunInv`: pulses given so far are the finished loops plus `i`; `SpeedInv`: the last period lies between target and start |
| | `ProcessorGivenUp` (`HogsAtMostOneCruise`) | `PaceInv`: pulses since the last yield, as a function of loop and `i`; the ramps are shorter than the distance of two yields |
| | `SpeedNeverJumps` (`SmoothRamp`) | `PeriodInv`: the last period is the one the profile has at `i`, also over the seam of two loops; neighbouring quotients of the slope differ by at most one step of it |
| | `FloatLosesOneStepAtMost` (`AtMostOneStepShort`) | no invariant beyond `EveryStepGiven`, but arithmetic: `ScaleExists`, a quotient has 24 bits before the point at one of the scales 9 to 27; `RoundsTwice`, two roundings move a product by less than the denominator leaves room for. Assumes what `MCDispenser` lets TLC check, that the table of steps is that of the build (`StepsAreComputed`), up to 18 kg |
| `IntercomProofs` | `IntercomTyping`, `NeverWritesBehindBuffer` (`BufferHolds`), `NothingLeftPlaying` (`RestIsQuiet`) | `PartialInv`: less of a message has arrived than it is long; `RestInv`: `s_playing` is up only while the semaphore is given, playback is under way, or a caller is about to give it |
| | `LoneBeepPlays` (`LoneBeepIsHeard`) | `GivenInv`: only a beep that is about to wait, or waits, gives the semaphore while something plays; `AloneInv`: until a beep that is alone sets `s_playing`, what it interrupts has come to rest, and from then on the one playback there is is its own |
| `CameraPipelineProofs` | `PipelineTyping`, `EveryFrameAccounted` (`NoFrameLost`), `ReinitHasCause` (`ReinitOnlyIfSickOrStuck`), `OneLateFrame` (`DarkAfterOne`) | `FrameInv`: the sender's hand is empty while it waits, and no buffer is lost; that a working camera goes down only under a send or a failure of the sensor, or on a time-out begun there, follows from it and the guards. `LateInv`: no frame is late while the capture task still waits |
| `BootProofs` | `ClientTypes`, `ExchangesAreOwn` (`OwnExchange`), `RepliesFit` (`BufferFits`), `CopiesAreWhole` (`TokenWhole`), `RequestsAreFresh` (`FreshWhenRefreshed`) | `IInv`: `MutexInv`, who holds which mutex where; `SessionInv`; `BufferInv`, sizes of the growing buffer; `WholeInv`, the halves differ only under the lock; `AgeInv`, the age of the token, of the timer and of the waiting request together stay below the lifetime. Uses `TimesAssumption` (`Period + 2 * FetchTime + WaitTime < Lifetime`) and `BuffersAssumption` |
| | `BootRunsClient`, `LocksComeFirst` (`LocksBeforeTasks`), `BootRequestsAreFresh` | each step of the device, its restart included, is a step of the client or leaves it alone |
| `PetDetectionProofs` | `WaitIsTimely` (`WaitKeepsItsTime`) | `ClockInv`: deadline, clock and elapsed time modulo the wrap. Uses `TofAssumption` (`Timeout + MaxLoop < HostWrap`) |
| | `VerdictsAreNew` (`VerdictIsNew`) | `NewerInv`: a baseline that was read is no older than the start of the detector |
| | `PetTyping`, `PetIsReal` (`PetIsThere`) | `RealInv`: the two clocks and all results in the window agree modulo the sensor's word; from it, by division with remainder (`RatioIsRight`), the bounds of 0.7 and 1.3 leave no room for a wrap. Uses `ClocksAssumption` |
| | `StayingPetIsSeen` (`PetIsSeen`) | `SeenInv`: without a ratio, the window holds results of this wait whose sensor times turn over at one moment at most, and those from the second window on came after it. Uses `ClocksAssumption`; of waits clear of the tick count's wrap |
| | `DetectorRunsInTime` (`DetectorInTime`) | `SpentInv`: the time so far is at most the polls and one GET for each, and one for the baseline |
| `WebSocketClientProofs` | `WebSocketTypes`, `ServerUnderstands` (`MessagesFit`), `PongsAreOverdue` (`PongIsOverdue`) | `LockInv`, who holds the lock where; `WireInv`, what the server has seen against what the sender has left, unless a frame was written in part; `PongInv`, a PONG waited for is one of this connection |

Few of the invariants people would argue about are inductive as they stand.
`CommandOnce` counts starts, and a second start is prevented only by where the
command is; `EventsTruthful` and `NoticesAgree` speak of the past of a call that has
moved on; `RestIsQuiet` holds at rest only because of what the tasks still owe
elsewhere; `StaleBounded` needs the whole budget of a turn of the loop; `PetIsSeen`
needs to know where in the wait the sensor's clock turns over. Each strengthening also holds in TLC's runs on the small instances;
most were checked there before their proof, some (`NoticeInv`, `TimeInv`, `DueInv`,
`MemoryInv`, `PaceInv`, `PeriodInv`) only after it. In `AnswerInv` TLC
could not see what was missing: it held, and was not inductive until it said that no
recorded call is of a later boot.

Proving them corrected the models in three places. With one beep the run could
not show that `LoneBeepIsHeard` was false of a second one that follows upon a voice the
first had stopped: a beep now counts as alone only if that playback has come to rest,
needs no quiet speaker beyond it, and the run has two. A feed that returns so late that the
minute's rest is too short for a nap and a fetch had counted as undisturbed. And the
sensor's clock began at zero, which a restart of the device alone does not bring about.

Only model-checked: everything under fairness (`FeedEnds`, `CommandConsumed`,
`LiveViewStops`, `VoiceIsHeard`, `BeepEnds`, `StreamRecovers`, `StreamDrains`,
`ComesUp`, `NeverStuck`, `Renewed`, `InitEnds`, `ComesBack` and the fair part
of `ServiceSpec`), since the prover has neither liveness under fairness nor
`ENABLED`. Every other property of a passing run is a theorem.

## 5. Where code and comments part

Each has a run in which TLC shows the sentence refuted.

| Run | What the code says | What it does |
|---|---|---|
| `ScheduleRunner_weekly` | "fires the feed workflow when the current time matches a schedule entry" (`schedule_runner.c:4-5`) | a schedule that is the only one, on one day of the week, meets its own last-fired mark a week later and never fires again; `MissedOnlyWeeksLater` proves that an undisturbed minute is missed in no other way |
| `Boot_reconnect` | "Disconnected, reconnecting..." (`app_wifi.c:58`), and a call of `esp_wifi_connect` to go on | `app_wifi_main` has deleted the event group (`app_wifi.c:154-155`) but not the handlers: the address that comes with the reconnection sets a bit in a group that is NULL (`app_wifi.c:67`), whose assertion restarts the device, and with it the feed under way |

Disagreements met on the way that no run is about: the acknowledging DELETE
("Acknowledge by deleting the pending command before running workflow",
`main.c:589`) may delete a command written after the GET, unread; closing the live view
switches off the camera that was turned on "for ML" (`main.c:519`, `706`); a voice
message that starts against the beep silences it, though `speaker.h:36-40` has it
play two tones and block until they are complete (`audio_player.c:141`); a send
that lasts 12 s starves the driver of buffers, and the reinitialisation frees the
one being sent, though the grab mode in use only "Fills buffers when they are
empty" (`esp_camera.h:89`, `main.c:679`); the intercom logs that it reconnects
(`audio_intercom.c:224`) after a CLOSE of the server too, which ends its client for good
(`esp_websocket_client.c:1367`); `token_refresh_cb` is said to take `s_http_mutex`
(`firebase_client.c:265-267`) and does not; `streaming_get` is said to be called with the
mutex held (`firebase_client.c:291`) and takes it itself; the sitting detector is
said to wait for a status "finished" and watches `updatedAt`
(`main.c:395`); the sensor driver's time-out of 1000 is a `uint8_t` and becomes 232
(`DFRobot_TMF8701_espidf.cpp:631`); the result of the
acknowledging DELETE is ignored, so that a lost one feeds again (`CommandOnce`
counts how often); a frame
written in part is followed by a new one for the rest, and the send reports the full length
(`esp_websocket_client.c:732-739`), "Number of data was sent" for its header
(`esp_websocket_client.h`), while the server loses the stream; the calibration of the distance sensor is
"continuing anyway" after a missing status (`DFRobot_TMF8701_espidf.cpp:386-391`) into a
loop that may never end; the pictures the driver filled before the stream was switched
off, two at most, are the first to be sent when it is switched on
(`CAMERA_GRAB_WHEN_EMPTY`, `main.c:663`); `CONFIG_FEED_DISPENSE_TIMEOUT_MS`, the "Safety cut-off for the
dispense motor" (`Kconfig.projbuild:148`), is read by no code, and 60 g at 10 rpm
take 18.7 s against its 15 s; the last-fired memory is in RAM,
so that a restart within the minute fires a schedule twice although
`schedule_runner.c:16-17` says at most once (`FiresOncePerMinuteAndBoot` says what
is left); a feed of more than a minute misses what is due meanwhile; a due meal that meets a feed
of the command task is dropped, and remembered as fired (`DueMealAnswered` says
that nothing else costs it); the sitting detector blocks until the posture is seen
"or until timeout_ms elapses" (`main.c:396`), but only its sleeps are counted
(`main.c:432`), and with the 100 s of `sdkconfig` each of up to 201 requests may add its
15 s (`DetectorRunsInTime` proves what is left); a command of
0 g is refused by the dispenser and yet logged as a completed feed; `schedule_runner.c`
speaks of checks "every 30 s" and refreshes "every 5 min" and has 10 s and 60 s;
the ramp is said to start at a quarter of the speed and starts at half;
`GRAMS_PER_REV` is per quarter revolution in `dispenser.c` and per revolution in
`Kconfig.projbuild`; `audio_intercom.h` describes polling where the code has a
WebSocket; `manual_button.c` promises to wait for a feed and does not.

## 6. Not modelled, and the plan

Most lines of the repository are not logic the firmware runs: vendored drivers of
image sensors it does not have, which are tables of registers behind one
interface; a JPEG decoder that is present twice and called by nobody; examples and
generated files. Of vendored code the models have what decides an outcome of
the firmware: the WebSocket client's task and sends, the camera driver's ownership
of buffers, the distance sensor's start, results and ratio of clocks. The share of
lines that `PROJECT.json` maps stays low for that reason.

Not modelled in `src/main`: the manual button, whose start function has no
caller; the echo timing of the level sensor, pure I/O, of which the workflow has the
outcomes; `firebase_get_intercom`, its handle and mutex, `speaker_play_pcm` and
`audio_player_play_sync` with its two output switches, which have no caller; the
heartbeat's PATCH beyond its being a caller of the client, since nothing depends on
it. Of the WebSocket client: stop, close, destroy, pause, and the setters of URI
and headers, called by nobody.

The order so far: the workflow first, because everything meets there; then what
triggers it, what it drives, and what it waits for; then the client everything
goes through, the boot, the two verdicts and the stream's connection. What is left:

1. `CameraPipeline` composed with `WebSocketClient` and with the camera switch of
   `FeedWorkflow`: what the posture model sees of a feed.
2. A clock that jumps, as it does when SNTP answers late or summer time begins.
3. `FeedWorkflow` on the verdicts of `PetDetection` in place of free choices.
4. With each of these compositions, that it refines its parts, so that what is proved
   of them carries over, as `BootRunsClient` and `FeederRunsBoth` do.
