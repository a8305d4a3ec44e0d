-------------------------------- MODULE Boot --------------------------------
(***************************************************************************)
(* app_main and app_wifi.c around the Firebase client: Wi-Fi is joined (or *)
(* provisioned over BLE first), the clock is set, a token and the owner    *)
(* are fetched, the devices and the mutexes are made, and the tasks are    *)
(* started.  The Wi-Fi events go on afterwards.                            *)
(*                                                                         *)
(* A restart forgets everything but the Wi-Fi credentials in flash.        *)
(***************************************************************************)
EXTENDS FirebaseClient

CONSTANTS
    Scheduler,   \* the caller that is started for a known owner only
    OwnerTries,  \* attempts of app_main at the owner's uid
    MaxDrops     \* bound: losses of the Wi-Fi connection

ASSUME BootAssumption ==
    Scheduler \in RestCallers /\ OwnerTries \in Nat \ {0} /\ MaxDrops \in Nat

VARIABLES
    stage,        \* where app_main is
    station,      \* the Wi-Fi station
    provisioned,  \* credentials are stored in flash
    group,        \* s_wifi_event_group exists
    connected,    \* WIFI_CONNECTED_BIT in it
    asked,        \* failed attempts at the owner's uid
    identity,     \* s_identity_ready
    locks,        \* s_feed_mutex and s_camera_mutex exist
    running,      \* callers whose task has been started
    drops         \* losses of the connection so far

wifiVars == <<station, provisioned, group, connected, drops>>
mainVars == <<stage, asked, identity, locks, running>>
bootVars == <<wifiVars, mainVars>>

BootTypeOK ==
    /\ stage \in {"start", "wifi", "clock", "token", "owner", "devices", "locks", "tasks", "up"}
    /\ station \in {"off", "provisioning", "joining", "up"}
    /\ {provisioned, group, connected, identity, locks} \subseteq BOOLEAN
    /\ asked \in 0 .. OwnerTries
    /\ running \in SUBSET Callers
    /\ drops \in 0 .. MaxDrops

BootInit ==
    /\ Init
    /\ stage = "start"
    /\ station = "off"
    /\ provisioned \in BOOLEAN
    /\ group = FALSE
    /\ connected = FALSE
    /\ asked = 0
    /\ identity = FALSE
    /\ locks = FALSE
    /\ running = {}
    /\ drops = 0
-----------------------------------------------------------------------------
(* Wi-Fi.                                                                  *)

\* app_wifi_main: the event group, the handlers, then the station or, without
\* credentials, BLE provisioning.
StartWifi ==
    /\ stage = "start"
    /\ stage' = "wifi"
    /\ group' = TRUE
    /\ station' = IF provisioned THEN "joining" ELSE "provisioning"
    /\ UNCHANGED <<provisioned, connected, drops, asked, identity, locks, running, vars>>

\* WIFI_PROV_CRED_RECV: the manager tries the credentials.
CredentialsReceived ==
    /\ station = "provisioning"
    /\ station' = "joining"
    /\ UNCHANGED <<provisioned, group, connected, drops, mainVars, vars>>

\* WIFI_PROV_CRED_FAIL: event_handler resets the manager for another attempt.
CredentialsFail ==
    /\ station = "joining" /\ ~provisioned
    /\ station' = "provisioning"
    /\ UNCHANGED <<provisioned, group, connected, drops, mainVars, vars>>

\* IP_EVENT_STA_GOT_IP: event_handler sets the bit.
GotIp ==
    /\ station = "joining" /\ group
    /\ station' = "up"
    /\ connected' = TRUE
    /\ provisioned' = TRUE
    /\ UNCHANGED <<group, drops, mainVars, vars>>

\* With the group deleted, xEventGroupSetBits(NULL) fails its assertion, and the
\* panic handler restarts the device.
GotIpPanics ==
    /\ station = "joining" /\ ~group
    /\ Restart
    /\ stage' = "start"
    /\ station' = "off"
    /\ group' = FALSE
    /\ connected' = FALSE
    /\ asked' = 0
    /\ identity' = FALSE
    /\ locks' = FALSE
    /\ running' = {}
    /\ UNCHANGED <<provisioned, drops>>

\* WIFI_EVENT_STA_DISCONNECTED: event_handler connects again.
Disconnected ==
    /\ station = "up" /\ drops < MaxDrops
    /\ station' = "joining"
    /\ drops' = drops + 1
    /\ UNCHANGED <<provisioned, group, connected, mainVars, vars>>

\* app_wifi_main sees the bit, deletes the group and returns.
WifiDone ==
    /\ stage = "wifi" /\ connected
    /\ stage' = "clock"
    /\ group' = FALSE
    /\ UNCHANGED <<station, provisioned, connected, drops, asked, identity, locks, running, vars>>
-----------------------------------------------------------------------------
(* app_main.                                                               *)

\* sntp_sync_wait ends after twenty seconds, synchronised or not.
ClockDone ==
    /\ stage = "clock"
    /\ stage' = "token"
    /\ UNCHANGED <<wifiVars, asked, identity, locks, running, vars>>

\* firebase_client_init; its result is only logged.
TokenTried ==
    /\ stage = "token"
    /\ (InitSucceeds /\ station = "up") \/ InitFails
    /\ stage' = IF session' = "starting" THEN "token" ELSE "owner"
    /\ UNCHANGED <<wifiVars, asked, identity, locks, running>>

\* fetch_owner_uid, up to five times.  The uid is kept by nobody else.
OwnerFound ==
    /\ stage = "owner" /\ station = "up" /\ token.tail < Lifetime
    /\ identity' = TRUE
    /\ stage' = "devices"
    /\ UNCHANGED <<wifiVars, asked, locks, running, vars>>

\* Seeded bug: the attempts are not limited.
OwnerMissedForever ==
    /\ stage = "owner"
    /\ asked' = IF asked < OwnerTries THEN asked + 1 ELSE asked
    /\ stage' = stage
    /\ UNCHANGED <<wifiVars, identity, locks, running, vars>>

OwnerMissed ==
    /\ stage = "owner"
    /\ asked' = asked + 1
    /\ stage' = IF asked + 1 = OwnerTries THEN "devices" ELSE "owner"
    /\ UNCHANGED <<wifiVars, identity, locks, running, vars>>

\* report_online, camera, WebSocket, speaker, intercom, level sensor, motor and
\* ToF sensor: whatever fails is logged.
DevicesDone ==
    /\ stage = "devices"
    /\ stage' = "locks"
    /\ UNCHANGED <<wifiVars, asked, identity, locks, running, vars>>

\* s_feed_mutex and s_camera_mutex.
MakeLocks ==
    /\ stage = "locks"
    /\ locks' = TRUE
    /\ stage' = "tasks"
    /\ UNCHANGED <<wifiVars, asked, identity, running, vars>>

\* schedule_runner_start comes first and only with the owner; then the background
\* tasks (app_main leaves out one whose stack it cannot allocate; here all start).
StartScheduler ==
    /\ stage = "tasks" /\ identity /\ Scheduler \notin running
    /\ running' = running \cup {Scheduler}
    /\ UNCHANGED <<wifiVars, stage, asked, identity, locks, vars>>

StartTasks ==
    /\ stage = "tasks" /\ (identity => Scheduler \in running)
    /\ running' = running \cup (Callers \ {Scheduler})
    /\ stage' = "up"
    /\ UNCHANGED <<wifiVars, asked, identity, locks, vars>>

\* The client goes on with the tasks there are; nothing is answered without Wi-Fi.
ClientStep ==
    /\ \/ RefreshFires \/ RefreshFails \/ StoreEnds \/ Tick
       \/ StoreBegins /\ station = "up"
       \/ \E c \in running : Call(c) /\ (Accepted(c) => station = "up")
    /\ UNCHANGED bootVars

BootNext ==
    \/ StartWifi \/ CredentialsReceived \/ CredentialsFail \/ GotIp \/ GotIpPanics
    \/ Disconnected \/ WifiDone
    \/ ClockDone \/ TokenTried \/ OwnerFound \/ OwnerMissed \/ DevicesDone
    \/ MakeLocks \/ StartScheduler \/ StartTasks
    \/ ClientStep

allVars == <<vars, bootVars>>

BootSpec == BootInit /\ [][BootNext]_allVars

(***************************************************************************)
(* Fairness: app_main and the event task run; someone provides credentials *)
(* that work, an access point that is there is joined, and the start of    *)
(* the ToF sensor comes to an end, in which it may fail (InitEnds of       *)
(* TofSensor says when it does not end).  Nothing is assumed of the cloud  *)
(* but that every HTTP call returns.                                       *)
(***************************************************************************)
BootFairness ==
    /\ WF_allVars(StartWifi) /\ WF_allVars(WifiDone)
    /\ WF_allVars(CredentialsReceived) /\ SF_allVars(GotIp) /\ WF_allVars(GotIpPanics)
    /\ WF_allVars(ClockDone) /\ WF_allVars(TokenTried)
    /\ WF_allVars(OwnerFound \/ OwnerMissed)
    /\ WF_allVars(DevicesDone) /\ WF_allVars(MakeLocks)
    /\ WF_allVars(StartScheduler) /\ WF_allVars(StartTasks)

ClientFairness ==
    /\ \A c \in Callers :
        /\ SF_allVars(Configure(c) /\ UNCHANGED bootVars)
        /\ WF_allVars(Refused(c) /\ UNCHANGED bootVars)
        /\ WF_allVars(ReplyEnds(c) /\ UNCHANGED bootVars)
    /\ WF_allVars(RefreshFires /\ UNCHANGED bootVars)
    /\ WF_allVars(RefreshFails /\ UNCHANGED bootVars)
    /\ SF_allVars(StoreBegins /\ station = "up" /\ UNCHANGED bootVars)
    /\ WF_allVars(StoreEnds /\ UNCHANGED bootVars)
    /\ WF_allVars(Tick /\ UNCHANGED bootVars)

FairBootSpec == BootSpec /\ BootFairness /\ ClientFairness
-----------------------------------------------------------------------------
\* No task runs before the mutexes exist that it will take: those of the client,
\* s_feed_mutex and s_camera_mutex (the order of app_main).
LocksBeforeTasks ==
    running # {} => locks /\ session # "starting"

\* app_main waits for nothing but Wi-Fi: without an answer from the cloud it
\* gives up after its attempts, and the device comes up all the same, after any
\* loss of the connection and any restart.
ComesUp == []<>(stage = "up")

\* A request in flight comes to an end, be it by a restart.
NeverStuck ==
    \A c \in Callers : InFlight(c) ~> ~InFlight(c)

\* A device that came up with a token gets a new one when that has expired.
Renewed ==
    (session = "ready" /\ token.tail = Lifetime) ~> (token.tail < Lifetime \/ session # "ready")

\* app_wifi.c:58, "Disconnected, reconnecting...": a device that is up gets its
\* connection back and goes on.
ReconnectKeepsRunning ==
    [][stage = "up" /\ station = "joining" /\ station' # "joining" => stage' = "up"]_allVars
=============================================================================
