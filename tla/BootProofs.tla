----------------------------- MODULE BootProofs -----------------------------
(***************************************************************************)
(* What firebase_client.c guarantees for any number of tasks, any buffer   *)
(* sizes and any times that satisfy the assumptions of FirebaseClient; and *)
(* what app_main guarantees: it uses the client as FirebaseClient says,    *)
(* and no task runs before its mutexes exist.                              *)
(***************************************************************************)
EXTENDS Boot, TLAPS


\* A mutex is held by the one caller that is at work with its handle.
MutexInv ==
    /\ \A c \in Callers : Holding(c) <=> mutex[Channel(c)] = c
    /\ \A ch \in Channels : mutex[ch] # NoCaller => Channel(mutex[ch]) = ch

\* Before a session there is nothing to do; s_token_mutex is held while storing.
SessionInv ==
    /\ session = "starting" => tries < InitTries /\ \A c \in Callers : pc[c] = "idle"
    /\ session # "ready" => refresh = "idle"
    /\ tokenLock <=> refresh = "storing"

\* What the buffers are when a reply is awaited and while it is read.
BufferInv ==
    \A c \in Callers :
        /\ pc[c] = "ready" => len[Channel(c)] = 0
        /\ pc[c] = "ready" /\ c \in RestCallers => cap["rest"] = RestCap
        /\ pc[c] = "reading" => len[Channel(c)] + 1 <= cap[Channel(c)]
        /\ pc[c] = "reading" /\ c \in StreamCallers => SmallCap <= cap["stream"]

\* A token is whole unless it is being stored, and then its head is new.
WholeInv ==
    /\ ~tokenLock => token.head = token.tail
    /\ tokenLock => token.head = fetching
    /\ TokenWhole

\* How old the token and its copies can be when no refresh has failed: a period
\* and two fetches, and the wait for the copies.
AgeInv ==
    /\ refresh = "asking" => fetching = Period - due
    /\ refresh = "storing" => fetching <= Period - due
    /\ refresh # "idle" => Period - due <= FetchTime
    /\ session = "ready" /\ ~lapsed =>
        /\ token.head <= FetchTime + Period + FetchTime
        /\ token.tail <= FetchTime + Period + FetchTime
        /\ refresh = "idle" => token.tail <= FetchTime + Period - due
        /\ refresh # "idle" => token.tail <= FetchTime + Period + Period - due
    /\ session = "ready" => \A c \in Callers : InFlight(c) /\ c \notin builtLate =>
        /\ url[c].head <= FetchTime + Period + FetchTime + waiting[c]
        /\ url[c].tail <= FetchTime + Period + FetchTime + waiting[c]

IInv == TypeOK /\ MutexInv /\ OwnExchange /\ SessionInv /\ BufferInv /\ WholeInv /\ AgeInv

USE DEF Holding, InFlight

LEMMA Times ==
    /\ Lifetime \in Nat /\ Period \in Nat /\ FetchTime \in Nat /\ WaitTime \in Nat
    /\ InitTries \in Nat /\ 0 < InitTries
    /\ FetchTime < Period /\ Period + 2 * FetchTime + WaitTime < Lifetime
BY TimesAssumption, CallersAssumption

LEMMA Buffers ==
    /\ Chunk \in Nat /\ RestCap \in Nat /\ SmallCap \in Nat /\ LargeCap \in Nat
    /\ 0 < Chunk /\ 0 < RestCap /\ Chunk <= SmallCap /\ SmallCap <= LargeCap
BY BuffersAssumption

USE Times, Buffers

LEMMA ChannelType == ASSUME NEW c \in Callers PROVE Channel(c) \in Channels
BY DEF Channel, Channels

-----------------------------------------------------------------------------
(* Types.                                                                  *)

LEMMA TypeInit == Init => TypeOK
<1> SUFFICES ASSUME Init PROVE TypeOK
  OBVIOUS
<1>1. NoToken \in Texts
  BY DEF NoToken, Texts, Ages
<1>2. tokenLock \in BOOLEAN /\ lapsed \in BOOLEAN
  BY DEF Init
<1> QED
  BY <1>1, <1>2 DEF Init, TypeOK

LEMMA TypeReturn ==
    ASSUME TypeOK, NEW c \in Callers, Return(c)
    PROVE  TypeOK'
BY ChannelType DEF TypeOK, Return, NoToken, Texts, Ages, tokenVars

LEMMA TypeCall ==
    ASSUME TypeOK, BufferInv, NEW c \in Callers, Call(c)
    PROVE  TypeOK'
<1>1. CASE \E v \in {"read", "write"} : Build(c, v)
  BY <1>1 DEF Build, TypeOK, tokenVars, clientVars
<1>2. CASE Configure(c)
  BY <1>2, ChannelType DEF Configure, TypeOK, tokenVars
<1>3. CASE Accepted(c)
  BY <1>3 DEF Channels, Accepted, TypeOK, tokenVars
<1>4. CASE Refused(c) \/ ReplyEnds(c)
  BY <1>4, TypeReturn DEF Refused, ReplyEnds
<1>5. ASSUME NEW n \in 1 .. Chunk, Receive(c, n) PROVE TypeOK'
  <2>1. Channel(c) = "rest"
    BY <1>5, CallersAssumption DEF Receive, Channel, Callers
  <2>2. cap["rest"] \in Nat /\ len["rest"] \in Nat /\ len["rest"] + 1 <= cap["rest"]
    BY <1>5, <2>1 DEF Receive, Channels, TypeOK, BufferInv
  <2>3. len' \in [Channels -> Nat]
    BY <1>5, <2>2 DEF Receive, Channels, TypeOK
  <2> QED
    BY <1>5, <2>3 DEF Receive, Channels, TypeOK, tokenVars, callVars
<1>6. ASSUME NEW n \in 1 .. Chunk, ReadFits(c, n) PROVE TypeOK'
  BY <1>6 DEF ReadFits, Channels, TypeOK, tokenVars, callVars
<1>7. ASSUME NEW n \in 1 .. Chunk, ReadOverflows(c, n) PROVE TypeOK'
  BY <1>7, TypeReturn DEF ReadOverflows
<1> QED
  BY <1>1, <1>2, <1>3, <1>4, <1>5, <1>6, <1>7 DEF Call

LEMMA OlderType == ASSUME NEW text \in Texts PROVE OlderText(text) \in Texts
BY DEF OlderText, Older, Texts, Ages

LEMMA TypeNext == TypeOK /\ SessionInv /\ BufferInv /\ [Next]_vars => TypeOK'
<1> SUFFICES ASSUME TypeOK, SessionInv, BufferInv, [Next]_vars PROVE TypeOK'
  OBVIOUS
<1>1. CASE InitSucceeds
  BY <1>1 DEF InitSucceeds, TypeOK, callVars, clientVars, Texts, Ages
<1>2. CASE InitFails
  BY <1>2 DEF InitFails, SessionInv, TypeOK, callVars, clientVars
<1>3. CASE RefreshFires
  BY <1>3 DEF RefreshFires, TypeOK, callVars, clientVars
<1>4. CASE RefreshFails
  BY <1>4 DEF RefreshFails, TypeOK, callVars, clientVars
<1>5. CASE StoreBegins
  <2>1. PICK age \in 0 .. fetching : token' = [token EXCEPT !.head = age] /\ fetching' = age
    BY <1>5 DEF StoreBegins
  <2>2. token' \in Texts /\ fetching' \in 0 .. FetchTime
    BY <2>1 DEF TypeOK, Texts, Ages
  <2> QED
    BY <1>5, <2>2 DEF StoreBegins, TypeOK, callVars, clientVars
<1>6. CASE StoreEnds
  <2>1. token' \in Texts
    BY <1>6 DEF StoreEnds, TypeOK, Texts, Ages
  <2>2. /\ tokenLock' \in BOOLEAN /\ refresh' = "idle" /\ fetching' = 0 /\ lapsed' \in BOOLEAN
        /\ UNCHANGED <<session, tries, due, callVars, clientVars>>
    BY <1>6 DEF StoreEnds
  <2> QED
    BY <2>1, <2>2 DEF TypeOK, callVars, clientVars
<1>7. CASE \E c \in Callers : Call(c)
  BY <1>7, TypeCall
<1>8. CASE Tick
  <2>1. token' \in Texts /\ url' \in [Callers -> Texts]
    BY <1>8, OlderType DEF Tick, TypeOK
  <2>2. due' \in 0 .. Period /\ fetching' \in 0 .. FetchTime /\ waiting' \in [Callers -> 0 .. WaitTime]
    BY <1>8 DEF Tick, TypeOK
  <2> QED
    BY <1>8, <2>1, <2>2 DEF Tick, TypeOK, clientVars
<1>9. CASE Restart
  <2>1. NoToken \in Texts
    BY DEF NoToken, Texts, Ages
  <2>2. tokenLock' \in BOOLEAN /\ lapsed' \in BOOLEAN
    BY <1>9 DEF Restart
  <2> QED
    BY <1>9, <2>1, <2>2 DEF Restart, TypeOK
<1>10. CASE UNCHANGED vars
  BY <1>10 DEF vars, tokenVars, callVars, clientVars, TypeOK
<1> QED
  BY <1>1, <1>2, <1>3, <1>4, <1>5, <1>6, <1>7, <1>8, <1>9, <1>10 DEF Next, Refresh
-----------------------------------------------------------------------------
(* The handles: mutex, exchange and buffer.                                *)

HandleInv == MutexInv /\ OwnExchange /\ BufferInv

LEMMA HandleInit == Init => HandleInv
<1> SUFFICES ASSUME Init PROVE HandleInv
  OBVIOUS
<1>1. \A c \in Callers : pc[c] = "idle" /\ mutex[Channel(c)] = NoCaller /\ c # NoCaller
  BY ChannelType, CallersAssumption DEF Init
<1>2. \A ch \in Channels : mutex[ch] = NoCaller
  BY DEF Init
<1> QED
  BY <1>1, <1>2 DEF HandleInv, MutexInv, OwnExchange, BufferInv

LEMMA HandleFrame == HandleInv /\ UNCHANGED <<pc, verb, clientVars>> => HandleInv'
BY DEF HandleInv, MutexInv, OwnExchange, BufferInv, clientVars

LEMMA HandleRestart == Restart => HandleInv'
<1> SUFFICES ASSUME Restart PROVE HandleInv'
  OBVIOUS
<1>1. \A c \in Callers : pc'[c] = "idle" /\ mutex'[Channel(c)] = NoCaller /\ c # NoCaller
  BY ChannelType, CallersAssumption DEF Restart
<1>2. \A ch \in Channels : mutex'[ch] = NoCaller
  BY DEF Restart
<1> QED
  BY <1>1, <1>2 DEF HandleInv, MutexInv, OwnExchange, BufferInv

\* Two callers of one channel that are at work are the same one.
LEMMA OneHolder ==
    ASSUME HandleInv, NEW c \in Callers, NEW d \in Callers,
           Holding(c), Holding(d), Channel(c) = Channel(d)
    PROVE  c = d
BY DEF HandleInv, MutexInv

LEMMA HandleReturn ==
    ASSUME TypeOK, HandleInv, NEW c \in Callers, Holding(c), Return(c)
    PROVE  HandleInv'
<1> DEFINE ch == Channel(c)
<1>1. ch \in Channels /\ c # NoCaller
  BY ChannelType, CallersAssumption
<1>2. /\ pc' = [pc EXCEPT ![c] = "idle"] /\ mutex' = [mutex EXCEPT ![ch] = NoCaller]
      /\ len' = [len EXCEPT ![ch] = 0] /\ cap' = [cap EXCEPT ![ch] = 0]
      /\ verb' = [verb EXCEPT ![c] = "read"] /\ client' = client
  BY DEF Return
<1>3. \A d \in Callers : Channel(d) = ch /\ Holding(d) => d = c
  BY OneHolder
<1>4. \A d \in Callers : Channel(d) # ch =>
        /\ mutex'[Channel(d)] = mutex[Channel(d)] /\ pc'[d] = pc[d] /\ verb'[d] = verb[d]
        /\ len'[Channel(d)] = len[Channel(d)] /\ cap'[Channel(d)] = cap[Channel(d)]
  BY <1>1, <1>2, ChannelType DEF TypeOK
<1>5. \A d \in Callers : Channel(d) = ch => ~Holding(d)' /\ mutex'[Channel(d)] = NoCaller /\ d # NoCaller
  BY <1>1, <1>2, <1>3, CallersAssumption DEF TypeOK
<1>6. MutexInv'
  <2>1. \A d \in Callers : Holding(d)' <=> mutex'[Channel(d)] = d
    BY <1>4, <1>5 DEF HandleInv, MutexInv
  <2>2. \A x \in Channels : mutex'[x] # NoCaller => Channel(mutex'[x]) = x
    BY <1>1, <1>2 DEF TypeOK, HandleInv, MutexInv
  <2> QED
    BY <2>1, <2>2 DEF MutexInv
<1>7. OwnExchange'
  BY <1>2, <1>4, <1>5 DEF HandleInv, OwnExchange
<1>8. BufferInv'
  <2>1. \A d \in Callers : Channel(d) # ch /\ d \in RestCallers => cap'["rest"] = cap["rest"]
    BY <1>1, <1>2, CallersAssumption DEF TypeOK, Channel, Channels
  <2>2. \A d \in Callers : Channel(d) # ch /\ d \in StreamCallers => cap'["stream"] = cap["stream"]
    BY <1>1, <1>2, CallersAssumption DEF TypeOK, Channel, Channels
  <2> QED
    BY <1>4, <1>5, <2>1, <2>2 DEF HandleInv, BufferInv
<1> QED
  BY <1>6, <1>7, <1>8 DEF HandleInv

LEMMA HandleBuild ==
    ASSUME TypeOK, HandleInv, NEW c \in Callers, NEW v \in {"read", "write"}, Build(c, v)
    PROVE  HandleInv'
<1>1. /\ pc[c] = "idle" /\ pc' = [pc EXCEPT ![c] = "wait"] /\ verb' = [verb EXCEPT ![c] = v]
      /\ UNCHANGED <<mutex, client, len, cap>>
  BY DEF Build, clientVars
<1>2. \A d \in Callers : (Holding(d)' <=> Holding(d)) /\ (Holding(d) => pc'[d] = pc[d] /\ verb'[d] = verb[d])
  BY <1>1 DEF TypeOK
<1> QED
  BY <1>1, <1>2 DEF HandleInv, MutexInv, OwnExchange, BufferInv

LEMMA HandleConfigure ==
    ASSUME TypeOK, HandleInv, NEW c \in Callers, Configure(c)
    PROVE  HandleInv'
<1> DEFINE ch == Channel(c)
<1>1. ch \in Channels /\ c # NoCaller
  BY ChannelType, CallersAssumption
<1>2. /\ pc[c] = "wait" /\ mutex[ch] = NoCaller
      /\ pc' = [pc EXCEPT ![c] = "ready"] /\ mutex' = [mutex EXCEPT ![ch] = c]
      /\ len' = [len EXCEPT ![ch] = 0]
      /\ cap' = [cap EXCEPT ![ch] = IF ch = "rest" THEN RestCap ELSE 0]
      /\ client' = [client EXCEPT ![ch] = [url |-> c, buf |-> c,
                      post |-> IF verb[c] = "write" THEN c ELSE NoCaller]]
      /\ verb' = verb
  BY DEF Configure
<1>3. \A d \in Callers : Channel(d) = ch => ~Holding(d) /\ d # NoCaller
  BY <1>2, CallersAssumption DEF HandleInv, MutexInv
<1>4. \A d \in Callers : d # c => pc'[d] = pc[d]
  BY <1>2 DEF TypeOK
<1>5. \A d \in Callers : Channel(d) # ch =>
        /\ mutex'[Channel(d)] = mutex[Channel(d)] /\ client'[Channel(d)] = client[Channel(d)]
        /\ len'[Channel(d)] = len[Channel(d)] /\ cap'[Channel(d)] = cap[Channel(d)]
  BY <1>1, <1>2, ChannelType DEF TypeOK
<1>6. /\ pc'[c] = "ready" /\ mutex'[ch] = c /\ len'[ch] = 0
      /\ client'[ch] = [url |-> c, buf |-> c, post |-> IF verb[c] = "write" THEN c ELSE NoCaller]
  BY <1>1, <1>2 DEF TypeOK
<1>7. MutexInv'
  <2>1. \A d \in Callers : Holding(d)' <=> mutex'[Channel(d)] = d
    BY <1>3, <1>4, <1>5, <1>6 DEF HandleInv, MutexInv
  <2>2. \A x \in Channels : mutex'[x] # NoCaller => Channel(mutex'[x]) = x
    BY <1>1, <1>2 DEF TypeOK, HandleInv, MutexInv
  <2> QED
    BY <2>1, <2>2 DEF MutexInv
<1>8. OwnExchange'
  BY <1>2, <1>3, <1>4, <1>5, <1>6 DEF HandleInv, OwnExchange
<1>9. BufferInv'
  <2>1. c \in RestCallers => cap'["rest"] = RestCap
    BY <1>1, <1>2, CallersAssumption DEF TypeOK, Channel, Channels
  <2>2. \A d \in Callers : d \in RestCallers /\ Channel(d) # ch => cap'["rest"] = cap["rest"]
    BY <1>1, <1>2, CallersAssumption DEF TypeOK, Channel, Channels
  <2>3. \A d \in Callers : d \in StreamCallers /\ Channel(d) # ch => cap'["stream"] = cap["stream"]
    BY <1>1, <1>2, CallersAssumption DEF TypeOK, Channel, Channels
  <2>4. ASSUME NEW d \in Callers, Holding(d)' PROVE d = c \/ (Channel(d) # ch /\ pc'[d] = pc[d])
    BY <1>3, <1>4, <2>4
  <2> QED
    BY <1>5, <1>6, <2>1, <2>2, <2>3, <2>4 DEF HandleInv, BufferInv
<1> QED
  BY <1>7, <1>8, <1>9 DEF HandleInv

\* The server's answer and what is read of it touch the buffer of one channel.
LEMMA HandleAccepted ==
    ASSUME TypeOK, HandleInv, NEW c \in Callers, Accepted(c)
    PROVE  HandleInv'
<1>1. /\ pc[c] = "ready" /\ pc' = [pc EXCEPT ![c] = "reading"]
      /\ UNCHANGED <<verb, mutex, client, len>>
  BY DEF Accepted
<1>2. \A d \in Callers : (d # c => pc'[d] = pc[d]) /\ (Holding(d)' <=> Holding(d))
  BY <1>1 DEF TypeOK
<1>3. \A d \in Callers : Holding(d) /\ d # c => Channel(d) # Channel(c)
  BY <1>1, OneHolder
<1>4. len[Channel(c)] = 0
  BY <1>1 DEF HandleInv, BufferInv
<1>5. MutexInv' /\ OwnExchange'
  BY <1>1, <1>2 DEF HandleInv, MutexInv, OwnExchange
<1>6. CASE c \in RestCallers
  <2>1. c \notin StreamCallers /\ Channel(c) = "rest" /\ cap' = cap /\ cap["rest"] = RestCap
    BY <1>1, <1>6, CallersAssumption DEF Accepted, Channel, HandleInv, BufferInv, Callers
  <2> QED
    BY <1>1, <1>2, <1>4, <1>5, <2>1 DEF HandleInv, BufferInv
<1>7. CASE c \in StreamCallers
  <2>1. c \notin RestCallers /\ Channel(c) = "stream"
    BY <1>7, CallersAssumption DEF Channel
  <2>2. PICK size \in {LargeCap, SmallCap} : cap' = [cap EXCEPT !["stream"] = size]
    BY <2>1 DEF Accepted
  <2>3. cap'["stream"] >= SmallCap /\ cap'["rest"] = cap["rest"] /\ SmallCap >= 1
    BY <2>2 DEF TypeOK, Channels
  <2>4. \A d \in Callers : Holding(d) /\ d # c => Channel(d) = "rest" /\ d \notin StreamCallers
    BY <1>3, <2>1 DEF Channel
  <2>5. pc'[c] = "reading" /\ len'["stream"] + 1 <= cap'["stream"] /\ SmallCap <= cap'["stream"]
    BY <1>1, <1>4, <2>1, <2>2, <2>3 DEF TypeOK, Channels
  <2>6. ASSUME NEW d \in Callers, d # c, Holding(d)
        PROVE  /\ pc'[d] = pc[d] /\ d \notin StreamCallers
               /\ cap'[Channel(d)] = cap[Channel(d)] /\ len'[Channel(d)] = len[Channel(d)]
    BY <1>1, <1>2, <2>3, <2>4, <2>6
  <2>7. BufferInv'
    BY <1>2, <2>1, <2>3, <2>5, <2>6 DEF HandleInv, BufferInv
  <2> QED
    BY <1>5, <2>7 DEF HandleInv
<1> QED
  BY <1>6, <1>7 DEF Callers

LEMMA HandleReceive ==
    ASSUME TypeOK, HandleInv, NEW c \in Callers, NEW n \in 1 .. Chunk, Receive(c, n)
    PROVE  HandleInv'
<1>1. /\ pc[c] = "reading" /\ Channel(c) = "rest" /\ c \in RestCallers
      /\ UNCHANGED <<pc, verb, mutex, client, cap>>
  BY CallersAssumption DEF Receive, Channel, callVars
<1>2. len["rest"] + 1 <= cap["rest"] /\ len["rest"] \in Nat /\ cap["rest"] \in Nat
  BY <1>1 DEF HandleInv, BufferInv, TypeOK, Channels
<1>3. len'["rest"] + 1 <= cap["rest"] /\ len'["stream"] = len["stream"]
  BY <1>2 DEF Receive, TypeOK, Channels
<1>4. \A d \in Callers : Holding(d) /\ d # c => Channel(d) = "stream"
  BY <1>1, OneHolder, ChannelType DEF Channels
<1> QED
  BY <1>1, <1>3, <1>4 DEF HandleInv, MutexInv, OwnExchange, BufferInv

LEMMA HandleRead ==
    ASSUME TypeOK, HandleInv, NEW c \in Callers, NEW n \in 1 .. Chunk, ReadFits(c, n)
    PROVE  HandleInv'
<1>1. /\ pc[c] = "reading" /\ Channel(c) = "stream" /\ c \in StreamCallers
      /\ UNCHANGED <<pc, verb, mutex, client>>
  BY DEF ReadFits, Channel, callVars
<1>2. /\ len["stream"] + 1 <= cap["stream"] /\ SmallCap <= cap["stream"]
      /\ len["stream"] \in Nat /\ cap["stream"] \in Nat
  BY <1>1 DEF HandleInv, BufferInv, TypeOK, Channels
<1>3. /\ len'["stream"] + 1 <= cap'["stream"] /\ SmallCap <= cap'["stream"]
      /\ len'["rest"] = len["rest"] /\ cap'["rest"] = cap["rest"]
  BY <1>2 DEF ReadFits, TypeOK, Channels
<1>4. \A d \in Callers : Holding(d) /\ d # c => Channel(d) = "rest"
  BY <1>1, OneHolder, ChannelType DEF Channels
<1>5. \A d \in Callers : Channel(d) = "rest" => d \notin StreamCallers
  BY DEF Channel
<1>6. c \notin RestCallers
  BY <1>1, CallersAssumption
<1> QED
  BY <1>1, <1>3, <1>4, <1>5, <1>6 DEF HandleInv, MutexInv, OwnExchange, BufferInv

LEMMA HandleNext == TypeOK /\ HandleInv /\ [Next]_vars => HandleInv'
<1> SUFFICES ASSUME TypeOK, HandleInv, [Next]_vars PROVE HandleInv'
  OBVIOUS
<1>1. CASE InitSucceeds \/ InitFails \/ Refresh \/ Tick \/ UNCHANGED vars
  <2>1. UNCHANGED <<pc, verb, clientVars>>
    BY <1>1 DEF InitSucceeds, InitFails, Refresh, RefreshFires, RefreshFails, StoreBegins,
                StoreEnds, Tick, vars, callVars
  <2> QED
    BY <2>1, HandleFrame
<1>2. ASSUME NEW c \in Callers, Call(c) PROVE HandleInv'
  <2>1. CASE Refused(c) \/ ReplyEnds(c) \/ \E n \in 1 .. Chunk : ReadOverflows(c, n)
    <3>1. Holding(c) /\ Return(c)
      BY <2>1 DEF Refused, ReplyEnds, ReadOverflows
    <3> QED
      BY <3>1, HandleReturn
  <2> QED
    BY <1>2, <2>1, HandleBuild, HandleConfigure, HandleAccepted, HandleReceive, HandleRead DEF Call
<1> QED
  BY <1>1, <1>2, HandleRestart DEF Next
-----------------------------------------------------------------------------
(* The session and the token's text.                                       *)

LEMMA SessionNext == TypeOK /\ SessionInv /\ [Next]_vars => SessionInv'
<1> SUFFICES ASSUME TypeOK, SessionInv, [Next]_vars PROVE SessionInv'
  OBVIOUS
<1>1. CASE InitSucceeds \/ InitFails
  BY <1>1 DEF InitSucceeds, InitFails, SessionInv, TypeOK, callVars
<1>2. CASE Refresh
  BY <1>2 DEF Refresh, RefreshFires, RefreshFails, StoreBegins, StoreEnds, SessionInv, callVars
<1>3. ASSUME NEW c \in Callers, Call(c) PROVE SessionInv'
  <2>1. UNCHANGED tokenVars
    BY <1>3 DEF Call, Build, Configure, Accepted, Refused, Receive, ReadFits, ReadOverflows,
                ReplyEnds, Return
  <2>2. session # "starting"
    BY <1>3 DEF Call, Build, Configure, Accepted, Refused, Receive, ReadFits, ReadOverflows,
                ReplyEnds, SessionInv
  <2> QED
    BY <2>1, <2>2 DEF SessionInv, tokenVars
<1>4. CASE Tick
  BY <1>4 DEF Tick, SessionInv
<1>5. CASE Restart
  BY <1>5 DEF Restart, SessionInv
<1>6. CASE UNCHANGED vars
  BY <1>6 DEF vars, tokenVars, callVars, SessionInv
<1> QED
  BY <1>1, <1>2, <1>3, <1>4, <1>5, <1>6 DEF Next

\* What a call does to the copies of the token: it makes one, of the token as it
\* is while nothing is being stored, or it throws its own away.
LEMMA CallCopies ==
    ASSUME TypeOK, SessionInv, NEW c \in Callers, Call(c)
    PROVE  /\ UNCHANGED tokenVars /\ session # "starting"
           /\ \A d \in Callers : d # c =>
                /\ pc'[d] = pc[d] /\ url'[d] = url[d] /\ waiting'[d] = waiting[d]
                /\ d \in builtLate' <=> d \in builtLate
           /\ \/ pc'[c] = "idle"
              \/ /\ ~tokenLock /\ pc'[c] = "wait" /\ url'[c] = token /\ waiting'[c] = 0
                 /\ c \notin builtLate' => ~lapsed
              \/ /\ pc[c] # "idle" /\ url'[c] = url[c] /\ waiting'[c] = waiting[c]
                 /\ c \in builtLate' <=> c \in builtLate
<1>1. CASE \E v \in {"read", "write"} : Build(c, v)
  BY <1>1 DEF Build, TypeOK
<1>2. CASE Configure(c) \/ Accepted(c) \/ \E n \in 1 .. Chunk : Receive(c, n) \/ ReadFits(c, n)
  BY <1>2 DEF Configure, Accepted, Receive, ReadFits, callVars, TypeOK, SessionInv
<1>3. CASE Refused(c) \/ ReplyEnds(c) \/ \E n \in 1 .. Chunk : ReadOverflows(c, n)
  BY <1>3 DEF Refused, ReplyEnds, ReadOverflows, Return, TypeOK, SessionInv
<1> QED
  BY <1>1, <1>2, <1>3 DEF Call

LEMMA WholeNext == TypeOK /\ SessionInv /\ WholeInv /\ [Next]_vars => WholeInv'
<1> SUFFICES ASSUME TypeOK, SessionInv, WholeInv, [Next]_vars PROVE WholeInv'
  OBVIOUS
<1>1. CASE InitSucceeds \/ InitFails
  BY <1>1 DEF InitSucceeds, InitFails, WholeInv, TokenWhole, SessionInv, callVars
<1>2. CASE RefreshFires \/ RefreshFails
  BY <1>2 DEF RefreshFires, RefreshFails, WholeInv, TokenWhole, SessionInv, callVars
<1>3. CASE StoreBegins
  BY <1>3 DEF StoreBegins, WholeInv, TokenWhole, TypeOK, Texts, callVars
<1>4. CASE StoreEnds
  BY <1>4 DEF StoreEnds, WholeInv, TokenWhole, SessionInv, TypeOK, Texts, callVars
<1>5. ASSUME NEW c \in Callers, Call(c) PROVE WholeInv'
  BY <1>5, CallCopies DEF WholeInv, TokenWhole, tokenVars
<1>6. CASE Tick
  BY <1>6 DEF Tick, WholeInv, TokenWhole, SessionInv, OlderText, TypeOK
<1>7. CASE Restart
  BY <1>7 DEF Restart, WholeInv, TokenWhole, NoToken
<1>8. CASE UNCHANGED vars
  BY <1>8 DEF vars, tokenVars, callVars, WholeInv, TokenWhole
<1> QED
  BY <1>1, <1>2, <1>3, <1>4, <1>5, <1>6, <1>7, <1>8 DEF Next, Refresh
-----------------------------------------------------------------------------
(* The ages.                                                               *)

LEMMA OlderByOne ==
    ASSUME NEW age \in Ages
    PROVE  Older(age) \in Ages /\ Older(age) <= age + 1
BY DEF Older, Ages

LEMMA AgeNext == TypeOK /\ SessionInv /\ WholeInv /\ AgeInv /\ [Next]_vars => AgeInv'
<1> SUFFICES ASSUME TypeOK, SessionInv, WholeInv, AgeInv, [Next]_vars PROVE AgeInv'
  OBVIOUS
<1>1. CASE InitSucceeds
  <2>1. PICK age \in 0 .. FetchTime : token' = [head |-> age, tail |-> age]
    BY <1>1 DEF InitSucceeds
  <2>2. /\ due' = Period /\ refresh' = "idle"
        /\ \A c \in Callers : pc'[c] = "idle"
    BY <1>1 DEF InitSucceeds, SessionInv, callVars
  <2> QED
    BY <2>1, <2>2 DEF AgeInv
<1>2. CASE InitFails
  BY <1>2 DEF InitFails, AgeInv, SessionInv, callVars
<1>3. CASE RefreshFires
  BY <1>3 DEF RefreshFires, AgeInv, TypeOK, callVars
<1>4. CASE RefreshFails
  BY <1>4 DEF RefreshFails, AgeInv, callVars
<1>5. CASE StoreBegins
  <2>1. PICK age \in 0 .. fetching : token' = [token EXCEPT !.head = age] /\ fetching' = age
    BY <1>5 DEF StoreBegins
  <2>2. /\ refresh = "asking" /\ refresh' = "storing"
        /\ UNCHANGED <<session, due, lapsed, callVars>>
    BY <1>5 DEF StoreBegins
  <2>3. token'.head = age /\ token'.tail = token.tail /\ age <= FetchTime /\ age <= Period - due
    BY <2>1, <2>2 DEF AgeInv, TypeOK, Texts
  <2> QED
    BY <2>1, <2>2, <2>3 DEF AgeInv, TypeOK, callVars
<1>6. CASE StoreEnds
  <2>1. token'.head = token.head /\ token'.tail = fetching
    BY <1>6 DEF StoreEnds, TypeOK, Texts
  <2>2. /\ refresh = "storing" /\ refresh' = "idle" /\ UNCHANGED <<session, due, callVars>>
    BY <1>6 DEF StoreEnds
  <2>3. token.head = fetching
    BY <2>2 DEF SessionInv, WholeInv
  <2> QED
    BY <2>1, <2>2, <2>3 DEF AgeInv, TypeOK, callVars
<1>7. ASSUME NEW c \in Callers, Call(c) PROVE AgeInv'
  <2>1. ASSUME session = "ready", NEW d \in Callers, pc'[d] # "idle", d \notin builtLate'
        PROVE  /\ url'[d].head <= FetchTime + Period + FetchTime + waiting'[d]
               /\ url'[d].tail <= FetchTime + Period + FetchTime + waiting'[d]
    BY <1>7, <2>1, CallCopies DEF AgeInv
  <2> QED
    BY <1>7, <2>1, CallCopies DEF AgeInv, tokenVars
<1>8. CASE Tick
  <2>1. /\ UNCHANGED <<session, refresh, lapsed, pc, builtLate>>
        /\ refresh # "storing" /\ (refresh = "asking" => fetching < FetchTime)
        /\ fetching' = IF refresh = "idle" THEN fetching ELSE fetching + 1
        /\ session = "ready" => due > 0 /\ due' = due - 1
    BY <1>8 DEF Tick
  <2>2. /\ token'.head <= token.head + 1 /\ token'.tail <= token.tail + 1
        /\ token'.head \in Ages /\ token'.tail \in Ages
        /\ token.head \in Ages /\ token.tail \in Ages
    BY <1>8, OlderByOne DEF Tick, OlderText, TypeOK, Texts
  <2>3. token'.head = token'.tail
    BY <1>8, <2>1 DEF Tick, OlderText, SessionInv, WholeInv
  <2>4. ASSUME NEW c \in Callers, pc[c] # "idle"
        PROVE  /\ url'[c].head <= url[c].head + 1 /\ url'[c].tail <= url[c].tail + 1
               /\ url'[c].head \in Ages /\ url'[c].tail \in Ages
               /\ url[c].head \in Ages /\ url[c].tail \in Ages
               /\ waiting'[c] = waiting[c] + 1 /\ waiting[c] \in Nat
    BY <1>8, <2>4, OlderByOne DEF Tick, OlderText, TypeOK, Texts
  <2>5. session = "ready" => \A c \in Callers : pc'[c] # "idle" /\ c \notin builtLate' =>
          /\ url'[c].head <= FetchTime + Period + FetchTime + waiting'[c]
          /\ url'[c].tail <= FetchTime + Period + FetchTime + waiting'[c]
    <3> SUFFICES ASSUME session = "ready", NEW c \in Callers, pc[c] # "idle", c \notin builtLate
                 PROVE  /\ url'[c].head <= FetchTime + Period + FetchTime + waiting'[c]
                        /\ url'[c].tail <= FetchTime + Period + FetchTime + waiting'[c]
      BY <2>1
    <3>1. /\ url[c].head <= FetchTime + Period + FetchTime + waiting[c]
          /\ url[c].tail <= FetchTime + Period + FetchTime + waiting[c]
      BY DEF AgeInv
    <3> QED
      BY <2>4, <3>1 DEF Ages
  <2>6. /\ refresh' = "asking" => fetching' = Period - due'
        /\ refresh' # "idle" => Period - due' <= FetchTime
        /\ session' = "ready" /\ ~lapsed' /\ refresh' = "idle" => token'.tail <= FetchTime + Period - due'
        /\ session' = "ready" /\ ~lapsed' /\ refresh' # "idle" =>
              token'.tail <= FetchTime + Period + Period - due'
    BY <2>1, <2>2 DEF AgeInv, SessionInv, TypeOK, Ages
  <2>7. due' \in 0 .. Period
    BY <1>8 DEF Tick, TypeOK
  <2> QED
    BY <2>1, <2>2, <2>3, <2>5, <2>6, <2>7 DEF AgeInv, TypeOK, Ages
<1>9. CASE Restart
  BY <1>9 DEF Restart, AgeInv
<1>10. CASE UNCHANGED vars
  BY <1>10 DEF vars, tokenVars, callVars, AgeInv
<1> QED
  BY <1>1, <1>2, <1>3, <1>4, <1>5, <1>6, <1>7, <1>8, <1>9, <1>10 DEF Next, Refresh
-----------------------------------------------------------------------------
\* Everything above holds together, from a fresh start on.
THEOREM ClientInductive == Spec => []IInv
<1>1. Init => IInv
  <2>1. Init => SessionInv /\ WholeInv /\ AgeInv
    BY DEF Init, SessionInv, WholeInv, TokenWhole, AgeInv, NoToken
  <2> QED
    BY <2>1, TypeInit, HandleInit DEF IInv, HandleInv
<1>2. IInv /\ [Next]_vars => IInv'
  BY TypeNext, HandleNext, SessionNext, WholeNext, AgeNext DEF IInv, HandleInv
<1> QED
  BY <1>1, <1>2, PTL DEF Spec

\* Every variable of the client stays in its range, the ages and buffers too.
THEOREM ClientTypes == Spec => []TypeOK
BY ClientInductive, PTL DEF IInv

\* Tasks that share a handle never send or receive another's data.
THEOREM ExchangesAreOwn == Spec => []OwnExchange
BY ClientInductive, PTL DEF IInv

\* No reply runs over its buffer, for all buffer sizes where one read is no
\* larger than the smallest buffer.
THEOREM RepliesFit == Spec => []BufferFits
<1>1. IInv => BufferFits
  BY DEF IInv, BufferInv, BufferFits
<1> QED
  BY <1>1, ClientInductive, PTL

\* A URL never holds a token in the middle of its storing.
THEOREM CopiesAreWhole == Spec => []TokenWhole
BY ClientInductive, PTL DEF IInv, WholeInv

\* A period, two fetches and the longest wait fit into a token's lifetime, so
\* that a request goes out with an expired one only after a failed refresh.
THEOREM RequestsAreFresh == Spec => []FreshWhenRefreshed
<1>1. IInv => FreshWhenRefreshed
  <2> SUFFICES ASSUME IInv, session = "ready", NEW c \in Callers, InFlight(c), c \notin builtLate
               PROVE  url[c].head < Lifetime /\ url[c].tail < Lifetime
    BY DEF FreshWhenRefreshed
  <2>1. /\ url[c].head <= FetchTime + Period + FetchTime + waiting[c]
        /\ url[c].tail <= FetchTime + Period + FetchTime + waiting[c]
    BY DEF IInv, AgeInv
  <2>2. url[c].head \in 0 .. Lifetime /\ url[c].tail \in 0 .. Lifetime /\ waiting[c] \in 0 .. WaitTime
    BY DEF IInv, TypeOK, Texts, Ages
  <2> QED
    BY <2>1, <2>2
<1> QED
  BY <1>1, ClientInductive, PTL

-----------------------------------------------------------------------------
(* app_main, around the client.                                            *)

\* What app_main has made by each of its stages.
StageInv ==
    /\ session = "starting" => stage \in {"start", "wifi", "clock", "token"}
    /\ stage \in {"tasks", "up"} => locks
    /\ running # {} => stage \in {"tasks", "up"}
    /\ running \subseteq Callers

LEMMA BootInitial == BootInit => Init /\ StageInv
BY DEF BootInit, Init, StageInv

\* A step of the device is a step of its client or leaves the client alone.
LEMMA BootStep == StageInv /\ [BootNext]_allVars => [Next]_vars
<1> SUFFICES ASSUME StageInv, [BootNext]_allVars PROVE [Next]_vars
  OBVIOUS
<1>1. CASE TokenTried
  BY <1>1 DEF TokenTried, Next
<1>2. CASE GotIpPanics
  BY <1>2 DEF GotIpPanics, Next
<1>3. CASE ClientStep
  <2>1. CASE \E c \in running : Call(c)
    BY <2>1 DEF StageInv, Next
  <2> QED
    BY <1>3, <2>1 DEF ClientStep, Next, Refresh
<1>4. CASE \/ StartWifi \/ CredentialsReceived \/ CredentialsFail \/ GotIp \/ Disconnected
           \/ WifiDone \/ ClockDone \/ OwnerFound \/ OwnerMissed \/ DevicesDone
           \/ MakeLocks \/ StartScheduler \/ StartTasks
  BY <1>4 DEF StartWifi, CredentialsReceived, CredentialsFail, GotIp, Disconnected, WifiDone,
              ClockDone, OwnerFound, OwnerMissed, DevicesDone, MakeLocks, StartScheduler, StartTasks
<1>5. CASE UNCHANGED allVars
  BY <1>5 DEF allVars
<1> QED
  BY <1>1, <1>2, <1>3, <1>4, <1>5 DEF BootNext

\* A call or a refresh leaves the state of the session alone.
LEMMA ClientSession == ClientStep => session' = session
<1>1. ASSUME NEW c, Call(c) PROVE session' = session
  BY <1>1 DEF Call, Build, Configure, Accepted, Refused, Receive, ReadFits, ReadOverflows,
              ReplyEnds, Return, tokenVars
<1> QED
  BY <1>1 DEF ClientStep, RefreshFires, RefreshFails, StoreBegins, StoreEnds, Tick

LEMMA StageNext == StageInv /\ [BootNext]_allVars => StageInv'
<1> SUFFICES ASSUME StageInv, [BootNext]_allVars PROVE StageInv'
  OBVIOUS
<1>1. CASE \/ StartWifi \/ CredentialsReceived \/ CredentialsFail \/ GotIp \/ Disconnected
           \/ WifiDone \/ ClockDone \/ OwnerFound \/ OwnerMissed \/ DevicesDone \/ MakeLocks
  BY <1>1 DEF StartWifi, CredentialsReceived, CredentialsFail, GotIp, Disconnected, WifiDone,
              ClockDone, OwnerFound, OwnerMissed, DevicesDone, MakeLocks,
              StageInv, mainVars, wifiVars, vars, tokenVars
<1>2. CASE TokenTried
  BY <1>2 DEF TokenTried, InitSucceeds, InitFails, StageInv, wifiVars
<1>3. CASE StartScheduler \/ StartTasks
  BY <1>3, BootAssumption DEF StartScheduler, StartTasks, StageInv, wifiVars, vars, tokenVars, Callers
<1>4. CASE GotIpPanics
  BY <1>4 DEF GotIpPanics, Restart, StageInv
<1>5. CASE ClientStep
  BY <1>5, ClientSession DEF ClientStep, StageInv, bootVars, mainVars
<1>6. CASE UNCHANGED allVars
  BY <1>6 DEF allVars, vars, tokenVars, bootVars, mainVars, StageInv
<1> QED
  BY <1>1, <1>2, <1>3, <1>4, <1>5, <1>6 DEF BootNext

LEMMA StageInductive == BootSpec => []StageInv
BY BootInitial, StageNext, PTL DEF BootSpec

\* The device, with its restarts and its losses of Wi-Fi, is one of the clients
\* that FirebaseClient describes: all that holds of those holds of it.
THEOREM BootRunsClient == BootSpec => Spec
BY BootInitial, BootStep, StageInductive, PTL DEF BootSpec, Spec

\* The mutexes of the client, of the feed and of the camera exist before any task
\* that takes them, however often the device restarts.
THEOREM LocksComeFirst == BootSpec => []LocksBeforeTasks
<1>1. StageInv => LocksBeforeTasks
  BY DEF StageInv, LocksBeforeTasks
<1> QED
  BY <1>1, StageInductive, PTL

\* So a request of the running device carries an expired token only after a
\* refresh has failed.
THEOREM BootRequestsAreFresh == BootSpec => []FreshWhenRefreshed
BY BootRunsClient, RequestsAreFresh, PTL
=============================================================================
