----------------------- MODULE WebSocketClientProofs -----------------------
(***************************************************************************)
(* What the WebSocket client guarantees for messages of any length and for *)
(* any times.                                                              *)
(***************************************************************************)
EXTENDS WebSocketClient, TLAPS

\* Who holds the lock is where the lock is needed, and a sender is in a message
\* only while it holds it.
LockInv ==
    /\ lock = "task" <=> task \in {"connecting", "hello", "peek"}
    /\ lock = "sender" <=> sender = "sends"
    /\ sender = "sends" => 0 < left
    /\ sender # "sends" => opcode = "binary"
    /\ ~Camera => sender = "idle"

\* What an open connection has carried so far, unless a frame was written in part.  A
\* message may stay unfinished once the connection is closing, but then no other
\* follows it.
WireInv ==
    /\ conn = "open" => state \in {"connected", "closing", "unknown"} /\ task # "connecting"
    /\ task = "hello" => state = "connected"
    /\ conn = "open" /\ task = "hello" => wire = "silent" /\ ~cut
    /\ conn = "open" /\ task # "hello" /\ Camera /\ ~cut =>
          /\ opcode = "continuation" => wire = "part"
          /\ opcode = "binary" /\ (state = "connected" \/ sender # "idle") => wire = "whole"
    /\ wire = "garbled" => cut

\* The PING that is waited for went out on this connection.
PongInv ==
    /\ sincePong \in Nat /\ standing \in Nat
    /\ sincePong <= PongTimeout + 1 /\ standing <= PongTimeout + 1
    /\ waiting => sincePong <= standing

IInv == TypeOK /\ LockInv /\ WireInv /\ PongInv

USE ClientAssumption

\* A PONG is missing only where one was waited for already: a new PING resets the time.
LEMMA Overdue ==
    ASSUME PongMissing, sincePong \in Nat
    PROVE  waiting /\ sincePong > PongTimeout /\ UNCHANGED sincePong
<1>1. PongTimeout \in Nat
  OBVIOUS
<1>2. waiting' /\ sincePong' > PongTimeout
  BY DEF PongMissing
<1>3. CASE sincePing > PingEvery
  <2>1. sincePong' = IF waiting THEN sincePong ELSE 0
    BY <1>3 DEF PongMissing, Ping
  <2>2. CASE ~waiting
    BY <1>1, <1>2, <2>1, <2>2
  <2> QED
    BY <1>2, <2>1, <2>2
<1>4. CASE ~(sincePing > PingEvery)
  <2>1. UNCHANGED <<sincePong, waiting>>
    BY <1>4 DEF PongMissing, Ping
  <2> QED
    BY <1>2, <2>1
<1> QED
  BY <1>3, <1>4

LEMMA Initial == Init => IInv
<1> SUFFICES ASSUME Init PROVE IInv
  OBVIOUS
<1>1. waiting \in BOOLEAN /\ closeSent \in BOOLEAN /\ cut \in BOOLEAN
  BY ZenonT(30) DEF Init
<1>2. TypeOK
  BY <1>1 DEF Init, TypeOK
<1> QED
  BY <1>2 DEF Init, IInv, LockInv, WireInv, PongInv

\* The types.
LEMMA TypeStep ==
    TypeOK /\ LockInv /\ [Next]_wsVars => TypeOK'
<1> SUFFICES ASSUME TypeOK, LockInv, [Next]_wsVars PROVE TypeOK'
  OBVIOUS
<1>1. CASE Connect
  BY <1>1 DEF Connect, TypeOK, timeVars, senderVars, wireVars
<1>2. CASE Serve
  <2>1. waiting' \in BOOLEAN
    BY <1>2, ZenonT(30) DEF Serve, Ping, TypeOK
  <2>2. sincePing' \in 0 .. PingEvery + 1 /\ sincePong' \in 0 .. PongTimeout + 1
    BY <1>2 DEF Serve, Ping, TypeOK
  <2> QED
    BY <1>2, <2>1, <2>2 DEF Serve, MayBeCut, Ping, TypeOK, senderVars, wireVars
<1>3. CASE PongMissing
  <2>1. sincePong \in 0 .. PongTimeout + 1 /\ sincePong \in Nat
    BY DEF TypeOK
  <2>2. UNCHANGED sincePong
    BY <1>3, <2>1, Overdue
  <2>3. waiting' \in BOOLEAN
    BY <1>3, ZenonT(30) DEF PongMissing, Ping, TypeOK
  <2>4. sincePing' \in 0 .. PingEvery + 1
    <3>1. sincePing' = 0 \/ sincePing' = sincePing
      BY <1>3, ZenonT(30) DEF PongMissing, Ping
    <3> QED
      BY <3>1 DEF TypeOK
  <2>5. cut' \in BOOLEAN
    BY <1>3, ZenonT(30) DEF PongMissing, Ping, MayBeCut, TypeOK
  <2> QED
    BY <1>3, <2>2, <2>3, <2>4, <2>5 DEF PongMissing, Abort, TypeOK, senderVars, wireVars
<1>4. CASE Waits
  BY <1>4 DEF Waits, TypeOK, timeVars, senderVars, wireVars
<1>5. CASE EchoClose
  BY <1>5 DEF EchoClose, MayBeCut, TypeOK, timeVars, senderVars, wireVars
<1>6. CASE ReadFails
  BY <1>6 DEF ReadFails, Abort, TypeOK, timeVars, senderVars, wireVars
<1>7. CASE Read
  BY <1>7 DEF Read, Recv, MayBeCut, TypeOK, timeVars, senderVars, wireVars
<1>8. CASE ConnectFails
  BY <1>8 DEF ConnectFails, Abort, TypeOK, timeVars, senderVars, wireVars
<1>9. CASE Redirected
  BY <1>9 DEF Redirected, TypeOK, timeVars, senderVars, wireVars
<1>10. CASE Connects
  <2>1. waiting' \in BOOLEAN /\ cut' \in BOOLEAN
    BY <1>10, ZenonT(30) DEF Connects
  <2> QED
    BY <1>10, <2>1 DEF Connects, TypeOK, senderVars, wireVars
<1>11. CASE Hello
  <2>1. cut' \in BOOLEAN
    BY <1>11, ZenonT(30) DEF Hello, TypeOK, wireVars
  <2> QED
    BY <1>11, <2>1 DEF Hello, Write, Understood, TypeOK, timeVars, senderVars, wireVars
<1>12. CASE HelloFails
  BY <1>12 DEF HelloFails, Abort, TypeOK, timeVars, senderVars, wireVars
<1>13. CASE Peek
  BY <1>13 DEF Peek, Recv, MayBeCut, TypeOK, timeVars, senderVars, wireVars
<1>14. CASE PeekFails
  BY <1>14 DEF PeekFails, Abort, TypeOK, timeVars, senderVars, wireVars
<1>15. CASE After
  BY <1>15 DEF After, TypeOK, timeVars, senderVars, wireVars
<1>16. CASE Poll
  BY <1>16 DEF Poll, TypeOK, timeVars, senderVars, wireVars
<1>17. CASE Exit
  BY <1>17 DEF Exit, TypeOK, timeVars, senderVars, wireVars
<1>18. CASE SenderLooks
  BY <1>18 DEF SenderLooks, TypeOK, timeVars, senderVars, wireVars
<1>19. CASE SenderGivesUp
  BY <1>19 DEF SenderGivesUp, TypeOK, timeVars, senderVars, wireVars
<1>20. CASE SenderLocks
  BY <1>20 DEF SenderLocks, TypeOK, timeVars, senderVars, wireVars
<1>21. CASE SendFragment
  <2>1. wire' \in {"silent", "whole", "part", "garbled"}
    BY <1>21 DEF SendFragment, Write, Understood, TypeOK
  <2>2. opcode' \in {"binary", "continuation"} /\ left' \in 0 .. MaxMessage
    BY <1>21 DEF SendFragment, SenderReturns, TypeOK, LockInv
  <2>3. sender' \in {"idle", "waits", "sends"} /\ lock' \in {"free", "task", "sender"}
    BY <1>21 DEF SendFragment, SenderReturns, TypeOK
  <2>4. cut' \in BOOLEAN
    BY <1>21 DEF SendFragment, TypeOK
  <2> QED
    BY <1>21, <2>1, <2>2, <2>3, <2>4 DEF SendFragment, TypeOK, timeVars
<1>22. CASE SendFails
  BY <1>22 DEF SendFails, Abort, SenderReturns, TypeOK, timeVars, senderVars, wireVars
<1>23. CASE Tick
  BY <1>23 DEF Tick, Older, TypeOK, timeVars, senderVars, wireVars
<1>24. CASE Breaks
  BY <1>24 DEF Breaks, TypeOK, timeVars, senderVars, wireVars
<1>25. CASE UNCHANGED wsVars
  BY <1>25 DEF wsVars, timeVars, senderVars, wireVars, TypeOK
<1> QED
  BY <1>1, <1>2, <1>3, <1>4, <1>5, <1>6, <1>7, <1>8, <1>9, <1>10, <1>11, <1>12, <1>13, <1>14, <1>15, <1>16, <1>17, <1>18, <1>19, <1>20, <1>21, <1>22, <1>23, <1>24, <1>25 DEF Next, Locking, Going, Sending

\* The lock.  A step moves one task, and the lock with it.
LEMMA LockStep ==
    TypeOK /\ LockInv /\ [Next]_wsVars => LockInv'
<1> SUFFICES ASSUME TypeOK, LockInv, [Next]_wsVars PROVE LockInv'
  OBVIOUS
<1>1. CASE Connect
  BY <1>1 DEF Connect, TypeOK, LockInv, timeVars, senderVars, wireVars
<1>2. CASE Serve
  BY <1>2 DEF Serve, Ping, TypeOK, LockInv, timeVars, senderVars, wireVars
<1>3. CASE PongMissing
  BY <1>3 DEF PongMissing, Abort, Ping, TypeOK, LockInv, timeVars, senderVars, wireVars
<1>4. CASE Waits
  BY <1>4 DEF Waits, TypeOK, LockInv, timeVars, senderVars, wireVars
<1>5. CASE EchoClose
  BY <1>5 DEF EchoClose, MayBeCut, TypeOK, LockInv, timeVars, senderVars, wireVars
<1>6. CASE ReadFails
  BY <1>6 DEF ReadFails, Abort, TypeOK, LockInv, timeVars, senderVars, wireVars
<1>7. CASE Read
  BY <1>7 DEF Read, Recv, MayBeCut, TypeOK, LockInv, timeVars, senderVars, wireVars
<1>8. CASE ConnectFails
  BY <1>8 DEF ConnectFails, Abort, TypeOK, LockInv, timeVars, senderVars, wireVars
<1>9. CASE Redirected
  BY <1>9 DEF Redirected, TypeOK, LockInv, timeVars, senderVars, wireVars
<1>10. CASE Connects
  BY <1>10 DEF Connects, TypeOK, LockInv, timeVars, senderVars, wireVars
<1>11. CASE Hello
  BY <1>11 DEF Hello, TypeOK, LockInv, timeVars, senderVars, wireVars
<1>12. CASE HelloFails
  BY <1>12 DEF HelloFails, Abort, TypeOK, LockInv, timeVars, senderVars, wireVars
<1>13. CASE Peek
  BY <1>13 DEF Peek, Recv, MayBeCut, TypeOK, LockInv, timeVars, senderVars, wireVars
<1>14. CASE PeekFails
  BY <1>14 DEF PeekFails, Abort, TypeOK, LockInv, timeVars, senderVars, wireVars
<1>15. CASE After
  BY <1>15 DEF After, TypeOK, LockInv, timeVars, senderVars, wireVars
<1>16. CASE Poll
  BY <1>16 DEF Poll, TypeOK, LockInv, timeVars, senderVars, wireVars
<1>17. CASE Exit
  BY <1>17 DEF Exit, TypeOK, LockInv, timeVars, senderVars, wireVars
<1>18. CASE SenderLooks
  BY <1>18 DEF SenderLooks, TypeOK, LockInv, timeVars, senderVars, wireVars
<1>19. CASE SenderGivesUp
  BY <1>19 DEF SenderGivesUp, TypeOK, LockInv, timeVars, senderVars, wireVars
<1>20. CASE SenderLocks
  BY <1>20 DEF SenderLocks, TypeOK, LockInv, timeVars, senderVars, wireVars
<1>21. CASE SendFragment
  BY <1>21 DEF SendFragment, SenderReturns, TypeOK, LockInv, timeVars, senderVars, wireVars
<1>22. CASE SendFails
  BY <1>22 DEF SendFails, Abort, SenderReturns, TypeOK, LockInv, timeVars, senderVars, wireVars
<1>23. CASE Tick
  BY <1>23 DEF Tick, TypeOK, LockInv, timeVars, senderVars, wireVars
<1>24. CASE Breaks
  BY <1>24 DEF Breaks, TypeOK, LockInv, timeVars, senderVars, wireVars
<1>25. CASE UNCHANGED wsVars
  BY <1>25 DEF wsVars, timeVars, senderVars, wireVars, TypeOK, LockInv
<1> QED
  BY <1>1, <1>2, <1>3, <1>4, <1>5, <1>6, <1>7, <1>8, <1>9, <1>10, <1>11, <1>12, <1>13, <1>14, <1>15, <1>16, <1>17, <1>18, <1>19, <1>20, <1>21, <1>22, <1>23, <1>24, <1>25 DEF Next, Locking, Going, Sending

\* What goes over the wire.
LEMMA WireStep ==
    TypeOK /\ LockInv /\ WireInv /\ [Next]_wsVars => WireInv'
<1> SUFFICES ASSUME TypeOK, LockInv, WireInv, [Next]_wsVars PROVE WireInv'
  OBVIOUS
<1>1. CASE Connect
  BY <1>1 DEF Connect, TypeOK, LockInv, WireInv, timeVars, senderVars, wireVars
<1>2. CASE Serve
  BY <1>2 DEF Serve, Ping, MayBeCut, TypeOK, LockInv, WireInv, timeVars, senderVars, wireVars
<1>3. CASE PongMissing
  BY <1>3 DEF PongMissing, Ping, MayBeCut, Abort, TypeOK, LockInv, WireInv, timeVars, senderVars, wireVars
<1>4. CASE Waits
  BY <1>4 DEF Waits, TypeOK, LockInv, WireInv, timeVars, senderVars, wireVars
<1>5. CASE EchoClose
  BY <1>5 DEF EchoClose, MayBeCut, TypeOK, LockInv, WireInv, timeVars, senderVars, wireVars
<1>6. CASE ReadFails
  BY <1>6 DEF ReadFails, Abort, TypeOK, LockInv, WireInv, timeVars, senderVars, wireVars
<1>7. CASE Read
  BY <1>7 DEF Read, Recv, MayBeCut, TypeOK, LockInv, WireInv, timeVars, senderVars, wireVars
<1>8. CASE ConnectFails
  BY <1>8 DEF ConnectFails, Abort, TypeOK, LockInv, WireInv, timeVars, senderVars, wireVars
<1>9. CASE Redirected
  BY <1>9 DEF Redirected, TypeOK, LockInv, WireInv, timeVars, senderVars, wireVars
<1>10. CASE Connects
  BY <1>10 DEF Connects, TypeOK, LockInv, WireInv, timeVars, senderVars, wireVars
<1>11. CASE Hello
  BY <1>11 DEF Hello, Write, Understood, TypeOK, LockInv, WireInv, timeVars, senderVars, wireVars
<1>12. CASE HelloFails
  BY <1>12 DEF HelloFails, Abort, TypeOK, LockInv, WireInv, timeVars, senderVars, wireVars
<1>13. CASE Peek
  BY <1>13 DEF Peek, Recv, MayBeCut, TypeOK, LockInv, WireInv, timeVars, senderVars, wireVars
<1>14. CASE PeekFails
  BY <1>14 DEF PeekFails, Abort, TypeOK, LockInv, WireInv, timeVars, senderVars, wireVars
<1>15. CASE After
  BY <1>15 DEF After, TypeOK, LockInv, WireInv, timeVars, senderVars, wireVars
<1>16. CASE Poll
  BY <1>16 DEF Poll, TypeOK, LockInv, WireInv, timeVars, senderVars, wireVars
<1>17. CASE Exit
  BY <1>17 DEF Exit, TypeOK, LockInv, WireInv, timeVars, senderVars, wireVars
<1>18. CASE SenderLooks
  BY <1>18 DEF SenderLooks, TypeOK, LockInv, WireInv, timeVars, senderVars, wireVars
<1>19. CASE SenderGivesUp
  BY <1>19 DEF SenderGivesUp, TypeOK, LockInv, WireInv, timeVars, senderVars, wireVars
<1>20. CASE SenderLocks
  BY <1>20 DEF SenderLocks, TypeOK, LockInv, WireInv, timeVars, senderVars, wireVars
<1>21. CASE SendFragment
  BY <1>21 DEF SendFragment, SenderReturns, Write, Understood, TypeOK, LockInv, WireInv, timeVars, senderVars, wireVars
<1>22. CASE SendFails
  BY <1>22 DEF SendFails, Abort, SenderReturns, TypeOK, LockInv, WireInv, timeVars, senderVars, wireVars
<1>23. CASE Tick
  BY <1>23 DEF Tick, TypeOK, LockInv, WireInv, timeVars, senderVars, wireVars
<1>24. CASE Breaks
  BY <1>24 DEF Breaks, TypeOK, LockInv, WireInv, timeVars, senderVars, wireVars
<1>25. CASE UNCHANGED wsVars
  BY <1>25 DEF wsVars, timeVars, senderVars, wireVars, TypeOK, LockInv, WireInv
<1> QED
  BY <1>1, <1>2, <1>3, <1>4, <1>5, <1>6, <1>7, <1>8, <1>9, <1>10, <1>11, <1>12, <1>13, <1>14, <1>15, <1>16, <1>17, <1>18, <1>19, <1>20, <1>21, <1>22, <1>23, <1>24, <1>25 DEF Next, Locking, Going, Sending

\* The PING that is waited for.
LEMMA PongStep ==
    TypeOK /\ PongInv /\ [Next]_wsVars => PongInv'
<1> SUFFICES ASSUME TypeOK, PongInv, [Next]_wsVars PROVE PongInv'
  OBVIOUS
<1>1. CASE Connect
  BY <1>1 DEF Connect, TypeOK, PongInv, timeVars, senderVars, wireVars
<1>2. CASE Serve
  BY <1>2 DEF Serve, Ping, TypeOK, PongInv, timeVars, senderVars, wireVars
<1>3. CASE PongMissing
  BY <1>3, Overdue DEF PongMissing, PongInv
<1>4. CASE Waits
  BY <1>4 DEF Waits, TypeOK, PongInv, timeVars, senderVars, wireVars
<1>5. CASE EchoClose
  BY <1>5 DEF EchoClose, MayBeCut, TypeOK, PongInv, timeVars, senderVars, wireVars
<1>6. CASE ReadFails
  BY <1>6 DEF ReadFails, TypeOK, PongInv, timeVars, senderVars, wireVars
<1>7. CASE Read
  BY <1>7 DEF Read, Recv, MayBeCut, TypeOK, PongInv, timeVars, senderVars, wireVars
<1>8. CASE ConnectFails
  BY <1>8 DEF ConnectFails, TypeOK, PongInv, timeVars, senderVars, wireVars
<1>9. CASE Redirected
  BY <1>9 DEF Redirected, TypeOK, PongInv, timeVars, senderVars, wireVars
<1>10. CASE Connects
  BY <1>10 DEF Connects, TypeOK, PongInv, timeVars, senderVars, wireVars
<1>11. CASE Hello
  BY <1>11 DEF Hello, TypeOK, PongInv, timeVars, senderVars, wireVars
<1>12. CASE HelloFails
  BY <1>12 DEF HelloFails, TypeOK, PongInv, timeVars, senderVars, wireVars
<1>13. CASE Peek
  BY <1>13 DEF Peek, Recv, MayBeCut, TypeOK, PongInv, timeVars, senderVars, wireVars
<1>14. CASE PeekFails
  BY <1>14 DEF PeekFails, TypeOK, PongInv, timeVars, senderVars, wireVars
<1>15. CASE After
  BY <1>15 DEF After, TypeOK, PongInv, timeVars, senderVars, wireVars
<1>16. CASE Poll
  BY <1>16 DEF Poll, TypeOK, PongInv, timeVars, senderVars, wireVars
<1>17. CASE Exit
  BY <1>17 DEF Exit, TypeOK, PongInv, timeVars, senderVars, wireVars
<1>18. CASE SenderLooks
  BY <1>18 DEF SenderLooks, TypeOK, PongInv, timeVars, senderVars, wireVars
<1>19. CASE SenderGivesUp
  BY <1>19 DEF SenderGivesUp, TypeOK, PongInv, timeVars, senderVars, wireVars
<1>20. CASE SenderLocks
  BY <1>20 DEF SenderLocks, TypeOK, PongInv, timeVars, senderVars, wireVars
<1>21. CASE SendFragment
  BY <1>21 DEF SendFragment, TypeOK, PongInv, timeVars, senderVars, wireVars
<1>22. CASE SendFails
  BY <1>22 DEF SendFails, TypeOK, PongInv, timeVars, senderVars, wireVars
<1>23. CASE Tick
  BY <1>23 DEF Tick, Older, TypeOK, PongInv, timeVars, senderVars, wireVars
<1>24. CASE Breaks
  BY <1>24 DEF Breaks, TypeOK, PongInv, timeVars, senderVars, wireVars
<1>25. CASE UNCHANGED wsVars
  BY <1>25 DEF wsVars, timeVars, senderVars, wireVars, TypeOK, PongInv
<1> QED
  BY <1>1, <1>2, <1>3, <1>4, <1>5, <1>6, <1>7, <1>8, <1>9, <1>10, <1>11, <1>12, <1>13, <1>14, <1>15, <1>16, <1>17, <1>18, <1>19, <1>20, <1>21, <1>22, <1>23, <1>24, <1>25 DEF Next, Locking, Going, Sending

\* All of it holds in every reachable state.
THEOREM WebSocketInductive == Spec => []IInv
<1>1. IInv /\ [Next]_wsVars => IInv'
  BY TypeStep, LockStep, WireStep, PongStep DEF IInv
<1> QED
  BY Initial, <1>1, PTL DEF Spec

\* The client's state keeps its types for messages of any length and all times.
THEOREM WebSocketTypes == Spec => []TypeOK
<1>1. IInv => TypeOK
  BY DEF IInv
<1> QED
  BY <1>1, WebSocketInductive, PTL

\* Up to the first frame written in part, the server gets on every connection the
\* hello and then whole messages, whoever sends, fails, gives up or reconnects in
\* between.
THEOREM ServerUnderstands == Spec => []MessagesFit
<1>1. IInv => MessagesFit
  BY DEF IInv, WireInv, MessagesFit
<1> QED
  BY <1>1, WebSocketInductive, PTL

\* No connection is given up for the PINGs of an earlier one.
THEOREM PongsAreOverdue == Spec => PongIsOverdue
<1>1. IInv /\ [Next]_wsVars => [PongMissing => standing > PongTimeout]_wsVars
  <2> SUFFICES ASSUME IInv, PongMissing PROVE standing > PongTimeout
    OBVIOUS
  <2>1. waiting /\ sincePong > PongTimeout
    BY Overdue DEF IInv, PongInv
  <2> QED
    BY <2>1 DEF IInv, PongInv
<1> QED
  BY <1>1, WebSocketInductive, PTL DEF Spec, PongIsOverdue
=============================================================================
