-------------------------- MODULE WebSocketClient --------------------------
(***************************************************************************)
(* The client of esp_websocket_client as the firmware configures it:       *)
(* reconnection after an error, none after a CLOSE of the server           *)
(* (close_reconnect), no lock of its own for sending.  Its task keeps the  *)
(* connection; the camera's has ws_send_task as well, which sends frames,  *)
(* and a handler that says hello.  The intercom's has neither.             *)
(*                                                                         *)
(* What the task does with the lock held is one step where state changes   *)
(* once in it, for state is all that others read without the lock.         *)
(***************************************************************************)
EXTENDS Naturals

CONSTANTS
    Camera,       \* the client of the camera; else of the intercom
    MaxMessage,   \* length of a message, and ...
    BufferSize,   \* ... buffer_size, in the same unit
    PingEvery,    \* ping_interval_sec
    PongTimeout,  \* pingpong_timeout_sec
    Reconnect     \* reconnect_timeout_ms

ASSUME ClientAssumption ==
    /\ Camera \in BOOLEAN
    /\ {MaxMessage, BufferSize, PingEvery, PongTimeout, Reconnect} \subseteq Nat \ {0}

VARIABLES
    state,      \* the client's state, WEBSOCKET_STATE_...
    waiting,    \* wait_for_pong_resp
    closeSent,  \* CLOSE_FRAME_SENT_BIT
    sincePing,  \* time since ping_tick_ms, ...
    sincePong,  \* ... pingpong_tick_ms ...
    sinceDrop,  \* ... and reconnect_tick_ms
    lock,       \* client->lock
    task,       \* where esp_websocket_client_task is
    sender,     \* where ws_send_task is
    opcode,     \* of its next fragment
    left,       \* what it has yet to send of its message
    conn,       \* the transport: "broken" when the peer is gone without a word
    \* history
    wire,       \* what the server makes of what it got on this connection
    cut,        \* a frame of this connection was written in part only
    standing    \* time since the connection was made

timeVars == <<sincePing, sincePong, sinceDrop, standing>>
senderVars == <<sender, opcode, left>>
wireVars == <<wire, cut>>
wsVars == <<state, waiting, closeSent, timeVars, lock, task, senderVars, conn, wireVars>>

TypeOK ==
    /\ state \in {"init", "connected", "wait", "closing", "unknown"}
    /\ {waiting, closeSent} \subseteq BOOLEAN
    /\ sincePing \in 0 .. PingEvery + 1
    /\ {sincePong, standing} \subseteq 0 .. PongTimeout + 1
    /\ sinceDrop \in 0 .. Reconnect + 1
    /\ lock \in {"free", "task", "sender"}
    /\ task \in {"top", "connecting", "hello", "peek", "after", "poll", "failed", "readable", "exit", "gone"}
    /\ sender \in {"idle", "waits", "sends"}
    /\ opcode \in {"binary", "continuation"}
    /\ left \in 0 .. MaxMessage
    /\ conn \in {"open", "broken", "closed"}
    /\ wire \in {"silent", "whole", "part", "garbled"}
    /\ cut \in BOOLEAN

\* esp_websocket_client_start.
Init ==
    /\ state = "init"
    /\ waiting = FALSE
    /\ closeSent = FALSE
    /\ sincePing = 0 /\ sincePong = 0 /\ sinceDrop = 0 /\ standing = 0
    /\ lock = "free"
    /\ task = "top"
    /\ sender = "idle"
    /\ opcode = "binary"
    /\ left = 0
    /\ conn = "closed"
    /\ wire = "silent"
    /\ cut = FALSE

Older(age, limit) == IF age > limit THEN age ELSE age + 1

Tick ==
    /\ sincePing' = Older(sincePing, PingEvery)
    /\ sincePong' = Older(sincePong, PongTimeout)
    /\ sinceDrop' = Older(sinceDrop, Reconnect)
    /\ standing' = Older(standing, PongTimeout)
    /\ UNCHANGED <<state, waiting, closeSent, lock, task, senderVars, conn, wireVars>>

\* The peer or the Wi-Fi goes away, and no packet says so.
Breaks ==
    /\ conn = "open"
    /\ conn' = "broken"
    /\ UNCHANGED <<state, waiting, closeSent, timeVars, lock, task, senderVars, wireVars>>

\* The server wants the hello first, then messages one after the other.
Understood(kind, last) ==
    CASE kind = "hello" /\ wire = "silent" -> "whole"
      [] kind = "binary" /\ wire = "whole" -> IF last THEN "whole" ELSE "part"
      [] kind = "continuation" /\ wire = "part" -> IF last THEN "whole" ELSE "part"
      [] OTHER -> "garbled"

\* What follows half a frame is taken for the rest of it.
Write(kind, last) ==
    wire' = CASE conn # "open" -> wire
              [] conn = "open" /\ cut -> "garbled"
              [] OTHER -> Understood(kind, last)

\* A frame may be written in part; of a PING, a PONG or a CLOSE nobody looks how much was.
MayBeCut == cut' \in {cut, cut \/ conn = "open"}

\* esp_websocket_client_abort_connection.
Abort ==
    IF state \in {"init", "connected"}
    THEN state' = "wait" /\ conn' = "closed" /\ sinceDrop' = 0
    ELSE UNCHANGED <<state, conn, sinceDrop>>
-----------------------------------------------------------------------------
(* The task: connecting.                                                   *)

Connect ==
    /\ task = "top" /\ state = "init" /\ lock = "free"
    /\ lock' = "task"
    /\ task' = "connecting"
    /\ UNCHANGED <<state, waiting, closeSent, timeVars, senderVars, conn, wireVars>>

ConnectFails ==
    /\ task = "connecting"
    /\ Abort
    /\ lock' = "free"
    /\ task' = "after"
    /\ UNCHANGED <<waiting, closeSent, sincePing, sincePong, standing, senderVars, wireVars>>

\* The server sends the client to another address, which the next round tries.
Redirected ==
    /\ task = "connecting"
    /\ lock' = "free"
    /\ task' = "after"
    /\ UNCHANGED <<state, waiting, closeSent, timeVars, senderVars, conn, wireVars>>

\* Seeded bug: the lock is given back before the event, so that a frame may be first.
ConnectsUnlocked ==
    /\ task = "connecting"
    /\ state' = "connected"
    /\ waiting' = FALSE
    /\ conn' = "open"
    /\ wire' = "silent"
    /\ cut' = FALSE
    /\ standing' = 0
    /\ task' = "hello"
    /\ lock' = "free"
    /\ UNCHANGED <<closeSent, sincePing, sincePong, sinceDrop, senderVars>>

\* Seeded bug: the connection begins with the PING of the last one.
ConnectsKeepingPing ==
    /\ task = "connecting"
    /\ state' = "connected"
    /\ conn' = "open"
    /\ wire' = "silent"
    /\ cut' = FALSE
    /\ standing' = 0
    /\ task' = "hello"
    /\ UNCHANGED <<waiting, closeSent, sincePing, sincePong, sinceDrop, lock, senderVars>>

\* The switch to another address without the address is taken for a connection as well.
Connects ==
    /\ task = "connecting"
    /\ state' = "connected"
    /\ waiting' = FALSE
    /\ conn' = "open"
    /\ wire' = "silent"
    /\ cut' = FALSE
    /\ standing' = 0
    /\ task' = "hello"
    /\ UNCHANGED <<closeSent, sincePing, sincePong, sinceDrop, lock, senderVars>>

\* The handler of the event runs in the task, which holds the lock.  Of a hello written
\* in part the rest follows as a frame of its own.
Hello ==
    /\ task = "hello"
    /\ \/ Camera /\ Write("hello", TRUE) /\ cut' = cut
       \/ Camera /\ conn = "open" /\ wire' = "garbled" /\ cut' = TRUE
       \/ ~Camera /\ UNCHANGED wireVars
    /\ task' = "peek"
    /\ UNCHANGED <<state, waiting, closeSent, timeVars, lock, senderVars, conn>>

HelloFails ==
    /\ task = "hello" /\ Camera
    /\ Abort
    /\ lock' = "free"
    /\ task' = "after"
    /\ UNCHANGED <<waiting, closeSent, sincePing, sincePong, standing, senderVars, wireVars>>
-----------------------------------------------------------------------------
(* The task: keeping the connection.                                       *)

\* Seeded bug: nobody remembers that a PONG is expected.
PingAndForget ==
    /\ sincePing' = IF sincePing > PingEvery THEN 0 ELSE sincePing
    /\ IF sincePing > PingEvery THEN MayBeCut ELSE UNCHANGED cut
    /\ UNCHANGED <<sincePong, waiting>>

\* State CONNECTED: a PING if it is time, whether or not it can be written, and no
\* PONG is overdue.
Ping ==
    IF sincePing > PingEvery
    THEN /\ sincePing' = 0
         /\ sincePong' = IF waiting THEN sincePong ELSE 0
         /\ waiting' = TRUE
         /\ MayBeCut
    ELSE UNCHANGED <<sincePing, sincePong, waiting, cut>>

Serve ==
    /\ task = "top" /\ state = "connected" /\ lock = "free"
    /\ Ping
    /\ waiting' => sincePong' <= PongTimeout
    /\ task' = "after"
    /\ UNCHANGED <<state, closeSent, sinceDrop, standing, lock, senderVars, conn, wire>>

PongMissing ==
    /\ task = "top" /\ state = "connected" /\ lock = "free"
    /\ Ping
    /\ waiting' /\ sincePong' > PongTimeout
    /\ Abort
    /\ task' = "after"
    /\ UNCHANGED <<closeSent, standing, lock, senderVars, wire>>

\* State WAIT_TIMEOUT.
Waits ==
    /\ task = "top" /\ state = "wait" /\ lock = "free"
    /\ state' = IF sinceDrop > Reconnect THEN "init" ELSE state
    /\ task' = "after"
    /\ UNCHANGED <<waiting, closeSent, timeVars, lock, senderVars, conn, wireVars>>

\* State CLOSING: the CLOSE is sent back.
EchoClose ==
    /\ task = "top" /\ state = "closing" /\ lock = "free"
    /\ closeSent' = TRUE
    /\ MayBeCut
    /\ task' = "after"
    /\ UNCHANGED <<state, waiting, timeVars, lock, senderVars, conn, wire>>

\* Behind the switch: without the lock, the task polls a connection, sleeps between
\* two, or is done when the CLOSE has been sent.
After ==
    /\ task = "after"
    /\ task' = CASE state = "connected" -> "poll"
                 [] state = "closing" /\ closeSent -> "exit"
                 [] OTHER -> "top"
    /\ state' = IF task' = "exit" THEN "unknown" ELSE state
    /\ UNCHANGED <<waiting, closeSent, timeVars, lock, senderVars, conn, wireVars>>

Poll ==
    /\ task = "poll"
    /\ task' \in {"top", "failed"} \cup (IF conn = "open" THEN {"readable"} ELSE {})
    /\ UNCHANGED <<state, waiting, closeSent, timeVars, lock, senderVars, conn, wireVars>>

\* The poll failed, or does so the read of what it saw.
ReadFails ==
    /\ task \in {"failed", "readable"} /\ lock = "free"
    /\ Abort
    /\ task' = "top"
    /\ UNCHANGED <<waiting, closeSent, sincePing, sincePong, standing, lock, senderVars, wireVars>>

\* esp_websocket_client_recv: data for the handler or a PING, which is answered; a
\* PONG; a CLOSE.
Recv ==
    /\ conn # "closed"
    /\ \/ UNCHANGED <<state, waiting>> /\ MayBeCut
       \/ waiting' = FALSE /\ UNCHANGED <<state, cut>>
       \/ state' = "closing" /\ UNCHANGED <<waiting, cut>>

Read ==
    /\ task = "readable" /\ lock = "free"
    /\ Recv
    /\ task' = "top"
    /\ UNCHANGED <<closeSent, timeVars, lock, senderVars, conn, wire>>

\* Anything that came with the handshake is read at once.
Peek ==
    /\ task = "peek"
    /\ Recv \/ UNCHANGED <<state, waiting, cut>>
    /\ lock' = "free"
    /\ task' = "after"
    /\ UNCHANGED <<closeSent, timeVars, senderVars, conn, wire>>

PeekFails ==
    /\ task = "peek"
    /\ Abort
    /\ lock' = "free"
    /\ task' = "after"
    /\ UNCHANGED <<waiting, closeSent, sincePing, sincePong, standing, senderVars, wireVars>>

\* The end of the task, which closes the transport without the lock.
Exit ==
    /\ task = "exit"
    /\ conn' = "closed"
    /\ task' = "gone"
    /\ UNCHANGED <<state, waiting, closeSent, timeVars, lock, senderVars, wireVars>>
-----------------------------------------------------------------------------
(* ws_send_task: is_connected twice, then send_with_exact_opcode.          *)

\* Not connected: the frame is dropped.  Else it looks again just before the lock.
SenderLooks ==
    /\ Camera
    /\ sender = "idle" /\ state = "connected"
    /\ sender' = "waits"
    /\ UNCHANGED <<state, waiting, closeSent, timeVars, lock, task, opcode, left, conn, wireVars>>

SenderGivesUp ==
    /\ sender = "waits"
    /\ sender' = "idle"
    /\ UNCHANGED <<state, waiting, closeSent, timeVars, lock, task, opcode, left, conn, wireVars>>

SenderLocks ==
    /\ sender = "waits" /\ lock = "free"
    /\ lock' = "sender"
    /\ sender' = "sends"
    /\ opcode' = "binary"
    /\ left' \in 1 .. MaxMessage
    /\ UNCHANGED <<state, waiting, closeSent, timeVars, task, conn, wireVars>>

SenderReturns ==
    /\ sender' = "idle"
    /\ opcode' = "binary"
    /\ left' = 0
    /\ lock' = "free"

\* The first frame has the opcode, the last one FIN.  Of a frame written in part the
\* rest goes out as a new frame, and the message counts as sent.
SendFragment ==
    LET frame == IF left > BufferSize THEN BufferSize ELSE left IN
    /\ sender = "sends" /\ conn # "closed"
    /\ Write(opcode, left <= BufferSize)
    /\ \E wlen \in 1 .. frame :
          /\ cut' = (cut \/ (conn = "open" /\ wlen < frame))
          /\ IF wlen = left
             THEN SenderReturns
             ELSE /\ opcode' = "continuation"
                  /\ left' = left - wlen
                  /\ UNCHANGED <<sender, lock>>
    /\ UNCHANGED <<state, waiting, closeSent, timeVars, task, conn>>

SendFails ==
    /\ sender = "sends"
    /\ Abort
    /\ SenderReturns
    /\ UNCHANGED <<waiting, closeSent, sincePing, sincePong, standing, task, wireVars>>
-----------------------------------------------------------------------------
Locking == Connect \/ Serve \/ PongMissing \/ Waits \/ EchoClose \/ ReadFails \/ Read

Going == ConnectFails \/ Redirected \/ Connects \/ Hello \/ HelloFails
             \/ Peek \/ PeekFails \/ After \/ Poll \/ Exit

Sending == SenderLooks \/ SenderGivesUp \/ SenderLocks \/ SendFragment \/ SendFails

Next == Tick \/ Breaks \/ Locking \/ Going \/ Sending

Spec == Init /\ [][Next]_wsVars

(***************************************************************************)
(* Fairness: time passes, the tasks run and every transport call returns;  *)
(* a task that waits without a limit for the lock gets it at last, for the *)
(* mutex wakes its first waiter; and among all attempts to connect one     *)
(* succeeds.  The server owes nothing, but to finish a frame it began.     *)
(***************************************************************************)
Fairness ==
    /\ WF_wsVars(Tick)
    /\ WF_wsVars(Going)
    /\ SF_wsVars(Locking)
    /\ SF_wsVars(Connects)
    /\ WF_wsVars(SenderGivesUp \/ SenderLocks \/ SendFragment \/ SendFails)

FairSpec == Spec /\ Fairness
-----------------------------------------------------------------------------
\* Up to the first frame written in part, the server gets on every connection the
\* hello and then whole messages, one after the other: what two tasks send, over
\* reconnections and failed writes, and from a sender that looked at the state before
\* it waited for the lock, never mixes (client->lock in send_with_exact_opcode and
\* around the CONNECTED event).  A frame written in part does garble the stream, for
\* the code goes on with a new one (esp_websocket_client.c:732-734); nothing else does.
MessagesFit == wire = "garbled" => cut

\* Only a connection that has stood for longer than PongTimeout is given up for want
\* of a PONG: the PINGs of an earlier one do not count (wait_for_pong_resp).
PongIsOverdue == [][PongMissing => standing > PongTimeout]_wsVars

\* A connection that was lost, or that is broken although no call fails, is made
\* again, unless the server has sent a CLOSE: the camera can stream again.
ComesBack == conn # "open" ~> conn = "open" \/ state \in {"closing", "unknown"}
=============================================================================
