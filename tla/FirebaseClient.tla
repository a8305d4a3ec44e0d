--------------------------- MODULE FirebaseClient ---------------------------
(***************************************************************************)
(* firebase_client.c: the token and its refresh timer, and the requests of *)
(* all tasks.  The short requests (do_request) share one HTTP handle, one  *)
(* reply buffer and one mutex; the camera poll has a handle of its own     *)
(* (streaming_get), with a reply buffer that grows.                        *)
(*                                                                         *)
(* Time passes in ticks and only ages count: how old the token is, how     *)
(* long a request waits.  An age stops at Lifetime, where a token has      *)
(* expired; the empty token of a fresh start is as good as an expired one. *)
(* The token's text is written in two halves, so that a copy made in       *)
(* between would be seen.                                                  *)
(***************************************************************************)
EXTENDS Integers

CONSTANTS
    RestCallers,    \* tasks that call firebase_get, _patch, _put, _push, _delete
    StreamCallers,  \* tasks that call firebase_get_camera_poll
    InitTries,      \* attempts of firebase_client_init at a first token
    Lifetime,       \* age at which the server refuses a token (60 min)
    Period,         \* of the refresh timer (55 min)
    FetchTime,      \* longest time of a token fetch (timeout_ms of its client)
    WaitTime,       \* longest time from build_url to the reply: the requests
                    \* ahead in the mutex's queue, each with its timeout_ms
    Chunk,          \* most that arrives at a time
    RestCap,        \* BODY_BUF_SIZE
    SmallCap,       \* buffer of streaming_get without PSRAM
    LargeCap,       \* buffer of streaming_get in PSRAM
    MaxCap          \* size up to which it is doubled

Callers == RestCallers \cup StreamCallers
NoCaller == "nobody"

ASSUME CallersAssumption ==
    /\ RestCallers \cap StreamCallers = {}
    /\ NoCaller \notin Callers
    /\ InitTries \in Nat \ {0}

\* 55 min + twice 15 s + the queue for the mutex < 60 min.
ASSUME TimesAssumption ==
    /\ {Lifetime, Period, FetchTime, WaitTime} \subseteq Nat
    /\ FetchTime < Period
    /\ Period + 2 * FetchTime + WaitTime < Lifetime

ASSUME BuffersAssumption ==
    /\ {Chunk, RestCap, SmallCap, LargeCap, MaxCap} \subseteq Nat \ {0}
    /\ Chunk <= SmallCap /\ SmallCap <= LargeCap /\ LargeCap <= MaxCap

Channels == {"rest", "stream"}
Channel(c) == IF c \in StreamCallers THEN "stream" ELSE "rest"
Ages == 0 .. Lifetime
Texts == [head : Ages, tail : Ages]
NoToken == [head |-> Lifetime, tail |-> Lifetime]
Older(age) == IF age < Lifetime THEN age + 1 ELSE age
OlderText(text) == [head |-> Older(text.head), tail |-> Older(text.tail)]

VARIABLES
    session,    \* "starting", "ready", or "tokenless": firebase_client_init failed
    tries,      \* failed attempts of firebase_client_init
    token,      \* s_auth_token, by the age of its halves
    tokenLock,  \* s_token_mutex is taken by the storing of a new token
    due,        \* time until s_refresh_timer fires
    refresh,    \* where token_refresh_cb is
    fetching,   \* age of the fetch under way, of the new token while it is stored
    pc,         \* where each caller is in its request
    verb,       \* a write has a body, a read has none
    url,        \* the token in the URL built for the request
    waiting,    \* how long ago that was
    mutex,      \* s_http_mutex, s_camera_poll_mutex: who holds it
    client,     \* per handle: whose url, whose post field, whose reply buffer
    len, cap,   \* the reply buffer in use: bytes in it, bytes allocated
    \* history
    lapsed,     \* no refresh has succeeded since one failed
    builtLate   \* callers whose URL was built while it was so

tokenVars == <<session, tries, token, tokenLock, due, refresh, fetching, lapsed>>
callVars == <<pc, verb, url, waiting, builtLate>>
clientVars == <<mutex, client, len, cap>>
vars == <<tokenVars, callVars, clientVars>>

InFlight(c) == pc[c] # "idle"
Holding(c) == pc[c] \in {"ready", "reading"}

TypeOK ==
    /\ session \in {"starting", "ready", "tokenless"}
    /\ tries \in 0 .. InitTries
    /\ token \in Texts
    /\ tokenLock \in BOOLEAN
    /\ due \in 0 .. Period
    /\ refresh \in {"idle", "asking", "storing"}
    /\ fetching \in 0 .. FetchTime
    /\ lapsed \in BOOLEAN
    /\ pc \in [Callers -> {"idle", "wait", "ready", "reading"}]
    /\ verb \in [Callers -> {"read", "write"}]
    /\ url \in [Callers -> Texts]
    /\ waiting \in [Callers -> 0 .. WaitTime]
    /\ builtLate \in SUBSET Callers
    /\ mutex \in [Channels -> Callers \cup {NoCaller}]
    /\ client \in [Channels -> [url : Callers \cup {NoCaller}, post : Callers \cup {NoCaller},
                                buf : Callers \cup {NoCaller}]]
    /\ len \in [Channels -> Nat]
    /\ cap \in [Channels -> Nat]

Init ==
    /\ session = "starting"
    /\ tries = 0
    /\ token = NoToken
    /\ tokenLock = FALSE
    /\ due = 0
    /\ refresh = "idle"
    /\ fetching = 0
    /\ lapsed = FALSE
    /\ pc = [c \in Callers |-> "idle"]
    /\ verb = [c \in Callers |-> "read"]
    /\ url = [c \in Callers |-> NoToken]
    /\ waiting = [c \in Callers |-> 0]
    /\ builtLate = {}
    /\ mutex = [ch \in Channels |-> NoCaller]
    /\ client = [ch \in Channels |-> [url |-> NoCaller, post |-> NoCaller, buf |-> NoCaller]]
    /\ len = [ch \in Channels |-> 0]
    /\ cap = [ch \in Channels |-> 0]

\* A restart: static memory is fresh again.
Restart ==
    /\ session' = "starting"
    /\ tries' = 0
    /\ token' = NoToken
    /\ tokenLock' = FALSE
    /\ due' = 0
    /\ refresh' = "idle"
    /\ fetching' = 0
    /\ lapsed' = FALSE
    /\ pc' = [c \in Callers |-> "idle"]
    /\ verb' = [c \in Callers |-> "read"]
    /\ url' = [c \in Callers |-> NoToken]
    /\ waiting' = [c \in Callers |-> 0]
    /\ builtLate' = {}
    /\ mutex' = [ch \in Channels |-> NoCaller]
    /\ client' = [ch \in Channels |-> [url |-> NoCaller, post |-> NoCaller, buf |-> NoCaller]]
    /\ len' = [ch \in Channels |-> 0]
    /\ cap' = [ch \in Channels |-> 0]
-----------------------------------------------------------------------------
(* The token.                                                              *)

\* Seeded bug: the timer is set to the lifetime of a token.
InitSucceedsLateTimer ==
    /\ session = "starting"
    /\ \E age \in 0 .. FetchTime : token' = [head |-> age, tail |-> age]
    /\ session' = "ready"
    /\ due' = Lifetime
    /\ UNCHANGED <<tries, tokenLock, refresh, fetching, lapsed, callVars, clientVars>>

\* firebase_client_init: fetch_token succeeds, the timer is started.
InitSucceeds ==
    /\ session = "starting"
    /\ \E age \in 0 .. FetchTime : token' = [head |-> age, tail |-> age]
    /\ session' = "ready"
    /\ due' = Period
    /\ UNCHANGED <<tries, tokenLock, refresh, fetching, lapsed, callVars, clientVars>>

\* It fails; after the last attempt init returns before it creates the timer.
InitFails ==
    /\ session = "starting"
    /\ tries' = tries + 1
    /\ session' = IF tries + 1 = InitTries THEN "tokenless" ELSE "starting"
    /\ UNCHANGED <<token, tokenLock, due, refresh, fetching, lapsed, callVars, clientVars>>

\* s_refresh_timer fires token_refresh_cb: fetch_token asks Cloud Run, with a
\* client of its own and without any mutex.
RefreshFires ==
    /\ session = "ready" /\ due = 0 /\ refresh = "idle"
    /\ refresh' = "asking"
    /\ fetching' = 0
    /\ due' = Period
    /\ UNCHANGED <<session, tries, token, tokenLock, lapsed, callVars, clientVars>>

\* Nothing tries again before the next period.
RefreshFails ==
    /\ refresh = "asking"
    /\ refresh' = "idle"
    /\ fetching' = 0
    /\ lapsed' = TRUE
    /\ UNCHANGED <<session, tries, token, tokenLock, due, callVars, clientVars>>

\* A token came: it is copied over the old one under s_token_mutex ...
StoreBegins ==
    /\ refresh = "asking" /\ ~tokenLock
    /\ tokenLock' = TRUE
    /\ \E age \in 0 .. fetching :
        /\ token' = [token EXCEPT !.head = age]
        /\ fetching' = age
    /\ refresh' = "storing"
    /\ UNCHANGED <<session, tries, due, lapsed, callVars, clientVars>>

\* Seeded bug: s_token_mutex is not given back.
StoreEndsKeepingLock ==
    /\ refresh = "storing"
    /\ token' = [token EXCEPT !.tail = fetching]
    /\ refresh' = "idle"
    /\ fetching' = 0
    /\ lapsed' = FALSE
    /\ UNCHANGED <<session, tries, tokenLock, due, callVars, clientVars>>

StoreEnds ==
    /\ refresh = "storing"
    /\ token' = [token EXCEPT !.tail = fetching]
    /\ tokenLock' = FALSE
    /\ refresh' = "idle"
    /\ fetching' = 0
    /\ lapsed' = FALSE
    /\ UNCHANGED <<session, tries, due, callVars, clientVars>>
-----------------------------------------------------------------------------
(* A request.                                                              *)

\* build_url copies the token, before the wait for the mutex of the handle.
Build(c, v) ==
    /\ session # "starting"
    /\ pc[c] = "idle" /\ ~tokenLock
    /\ c \in StreamCallers => v = "read"
    /\ url' = [url EXCEPT ![c] = token]
    /\ builtLate' = IF lapsed THEN builtLate \cup {c} ELSE builtLate \ {c}
    /\ verb' = [verb EXCEPT ![c] = v]
    /\ waiting' = [waiting EXCEPT ![c] = 0]
    /\ pc' = [pc EXCEPT ![c] = "wait"]
    /\ UNCHANGED <<tokenVars, clientVars>>

\* Seeded bug: a read leaves the body of the last write at the handle.
ConfigureKeepingBody(c) ==
    LET ch == Channel(c) IN
    /\ pc[c] = "wait" /\ mutex[ch] = NoCaller
    /\ mutex' = [mutex EXCEPT ![ch] = c]
    /\ client' = [client EXCEPT ![ch] = [url |-> c, buf |-> c,
                      post |-> IF verb[c] = "write" THEN c ELSE @.post]]
    /\ len' = [len EXCEPT ![ch] = 0]
    /\ cap' = [cap EXCEPT ![ch] = IF ch = "rest" THEN RestCap ELSE 0]
    /\ pc' = [pc EXCEPT ![c] = "ready"]
    /\ UNCHANGED <<tokenVars, verb, url, waiting, builtLate>>

\* With the mutex, the handle gets this request's url, body and reply buffer; a
\* read clears the body that an earlier write left.
Configure(c) ==
    LET ch == Channel(c) IN
    /\ pc[c] = "wait" /\ mutex[ch] = NoCaller
    /\ mutex' = [mutex EXCEPT ![ch] = c]
    /\ client' = [client EXCEPT ![ch] = [url |-> c, buf |-> c,
                      post |-> IF verb[c] = "write" THEN c ELSE NoCaller]]
    /\ len' = [len EXCEPT ![ch] = 0]
    /\ cap' = [cap EXCEPT ![ch] = IF ch = "rest" THEN RestCap ELSE 0]
    /\ pc' = [pc EXCEPT ![c] = "ready"]
    /\ UNCHANGED <<tokenVars, verb, url, waiting, builtLate>>

\* Every way out frees the buffer and gives the mutex back; the handle keeps
\* what it was set to.
Return(c) ==
    LET ch == Channel(c) IN
    /\ pc' = [pc EXCEPT ![c] = "idle"]
    /\ mutex' = [mutex EXCEPT ![ch] = NoCaller]
    /\ len' = [len EXCEPT ![ch] = 0]
    /\ cap' = [cap EXCEPT ![ch] = 0]
    /\ waiting' = [waiting EXCEPT ![c] = 0]
    /\ url' = [url EXCEPT ![c] = NoToken]
    /\ verb' = [verb EXCEPT ![c] = "read"]
    /\ builtLate' = builtLate \ {c}
    /\ UNCHANGED <<tokenVars, client>>

\* The server accepts the request that the handle holds.  streaming_get now
\* allocates its buffer, in PSRAM or else on the heap.
Accepted(c) ==
    LET sent == url[client[Channel(c)].url] IN
    /\ pc[c] = "ready"
    /\ sent.head < Lifetime /\ sent.tail < Lifetime
    /\ \/ c \in RestCallers /\ cap' = cap
       \/ c \in StreamCallers /\ \E size \in {LargeCap, SmallCap} : cap' = [cap EXCEPT !["stream"] = size]
    /\ pc' = [pc EXCEPT ![c] = "reading"]
    /\ UNCHANGED <<tokenVars, verb, url, waiting, builtLate, mutex, client, len>>

\* Seeded bug: the way out of an error keeps the mutex.
RefusedKeepingMutex(c) ==
    LET ch == Channel(c) IN
    /\ pc[c] = "ready"
    /\ pc' = [pc EXCEPT ![c] = "idle"]
    /\ len' = [len EXCEPT ![ch] = 0]
    /\ cap' = [cap EXCEPT ![ch] = 0]
    /\ waiting' = [waiting EXCEPT ![c] = 0]
    /\ url' = [url EXCEPT ![c] = NoToken]
    /\ verb' = [verb EXCEPT ![c] = "read"]
    /\ builtLate' = builtLate \ {c}
    /\ UNCHANGED <<tokenVars, mutex, client>>

\* No memory, no connection, or a status other than 2xx.
Refused(c) ==
    /\ pc[c] = "ready"
    /\ Return(c)

\* http_event_handler: n bytes arrive, as many are copied as leave room for the
\* terminator, the others are dropped.
Receive(c, n) ==
    LET room == cap["rest"] - len["rest"] - 1
        copied == IF n < room THEN n ELSE room
    IN  /\ pc[c] = "reading" /\ c \in RestCallers
        /\ len' = [len EXCEPT !["rest"] = @ + copied]
        /\ UNCHANGED <<tokenVars, callVars, mutex, client, cap>>

\* Seeded bug: the terminator is not counted.
ReadFitsBarely(c, n) ==
    LET size == cap["stream"]
        needed == len["stream"] + n
    IN  /\ pc[c] = "reading" /\ c \in StreamCallers
        /\ needed > size => 2 * size <= MaxCap
        /\ cap' = [cap EXCEPT !["stream"] = IF needed > size THEN 2 * @ ELSE @]
        /\ len' = [len EXCEPT !["stream"] = @ + n]
        /\ UNCHANGED <<tokenVars, callVars, mutex, client>>

\* The loop of streaming_get: the buffer is doubled first where n bytes and the
\* terminator would not fit.
ReadFits(c, n) ==
    LET size == cap["stream"]
        needed == len["stream"] + n + 1
    IN  /\ pc[c] = "reading" /\ c \in StreamCallers
        /\ needed > size => 2 * size <= MaxCap
        /\ cap' = [cap EXCEPT !["stream"] = IF needed > size THEN 2 * @ ELSE @]
        /\ len' = [len EXCEPT !["stream"] = @ + n]
        /\ UNCHANGED <<tokenVars, callVars, mutex, client>>

\* It is too large or cannot be reallocated.
ReadOverflows(c, n) ==
    /\ pc[c] = "reading" /\ c \in StreamCallers
    /\ len["stream"] + n + 1 > cap["stream"]
    /\ Return(c)

\* The reply ends, or breaks off.  Whether the caller gets data or an error (a
\* part of a JSON text does not parse) is a choice in the models of the callers.
ReplyEnds(c) ==
    /\ pc[c] = "reading"
    /\ Return(c)

\* Time passes while nothing is overdue; copying the token takes none.
Tick ==
    /\ session = "ready" => due > 0
    /\ refresh # "storing"
    /\ refresh = "asking" => fetching < FetchTime
    /\ \A c \in Callers : InFlight(c) => waiting[c] < WaitTime
    /\ token' = OlderText(token)
    /\ url' = [c \in Callers |-> IF InFlight(c) THEN OlderText(url[c]) ELSE url[c]]
    /\ due' = IF session = "ready" THEN due - 1 ELSE due
    /\ fetching' = IF refresh = "idle" THEN fetching ELSE fetching + 1
    /\ waiting' = [c \in Callers |-> IF InFlight(c) THEN waiting[c] + 1 ELSE waiting[c]]
    /\ UNCHANGED <<session, tries, tokenLock, refresh, lapsed, pc, verb, builtLate, clientVars>>

Refresh == RefreshFires \/ RefreshFails \/ StoreBegins \/ StoreEnds

Call(c) ==
    \/ \E v \in {"read", "write"} : Build(c, v)
    \/ Configure(c)
    \/ Accepted(c)
    \/ Refused(c)
    \/ \E n \in 1 .. Chunk : Receive(c, n) \/ ReadFits(c, n) \/ ReadOverflows(c, n)
    \/ ReplyEnds(c)

Next ==
    \/ InitSucceeds
    \/ InitFails
    \/ Refresh
    \/ \E c \in Callers : Call(c)
    \/ Tick
    \/ Restart

Spec == Init /\ [][Next]_vars

\* What goes out and what comes in through a shared handle is this caller's
\* own: its URL, its body or none (never one that an earlier write has freed),
\* and its reply buffer (do_request reconfigures a handle that all tasks use).
OwnExchange ==
    \A c \in Callers :
        Holding(c) => client[Channel(c)] =
            [url |-> c, buf |-> c, post |-> IF verb[c] = "write" THEN c ELSE NoCaller]

\* The reply and its terminator stay inside the buffer: in http_event_handler,
\* which cuts, and in streaming_get, which doubles once per read at most.
BufferFits ==
    \A c \in Callers : pc[c] = "reading" => len[Channel(c)] + 1 <= cap[Channel(c)]

\* No URL is built from a token that is half old and half new (s_token_mutex in
\* fetch_token and build_url).
TokenWhole ==
    \A c \in Callers : InFlight(c) => url[c].head = url[c].tail

\* As long as every refresh succeeds, no request goes out with an expired token,
\* although its URL is built before the wait for the mutex: five minutes cover
\* a fetch and the longest wait.
FreshWhenRefreshed ==
    \A c \in Callers :
        session = "ready" /\ InFlight(c) /\ c \notin builtLate
            => url[c].head < Lifetime /\ url[c].tail < Lifetime
=============================================================================
