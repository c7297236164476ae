------------------------------ MODULE Network -------------------------------
(***************************************************************************)
(* How the kiosk knows that it is connected: the poll of the API's health  *)
(* (useApiStatus), the browser's online and offline events, both of which  *)
(* put the session machine in or out of offline mode (useApiNetworkMonitor)*)
(* and the banner that announces it (OfflineBanner); the poll of the local *)
(* daemon (useNetworkMonitor) feeds the status bar.                        *)
(*                                                                         *)
(* The intervals of the poll grow from MIN_POLL_MS to MAX_POLL_MS and only *)
(* matter as time; StatusBar polls with an instance of its own.            *)
(***************************************************************************)
EXTENDS Naturals

CONSTANT MaxOutages   \* bound on changes of each of the three links

ASSUME NetworkConstants == MaxOutages \in Nat

VARIABLES
    onLine,     \* navigator.onLine
    apiUp,      \* the API answers /health
    daemonUp,   \* the daemon answers /healthz
    outages,    \* changes so far, by link
    poll,       \* useApiStatus: "asking", "waiting" for its timer
    apiStatus,  \* state of useApiStatus
    reported,   \* the status the effect of useApiNetworkMonitor last saw
    isOfflineMode, \* of the machine
    banner,     \* [isOffline, dismissed, timer] of OfflineBanner
    mesh        \* session store: [online, peers]

networkVars == <<onLine, apiUp, daemonUp, outages, poll, apiStatus, reported,
                 isOfflineMode, banner, mesh>>

NetworkInit ==
    /\ onLine = TRUE /\ apiUp = TRUE /\ daemonUp = TRUE
    /\ outages = [l \in {"browser", "api", "daemon"} |-> 0]
    /\ poll = "asking"
    /\ apiStatus = "unknown" /\ reported = "unknown"
    /\ isOfflineMode = FALSE
    /\ banner = [isOffline |-> FALSE, dismissed |-> FALSE, timer |-> FALSE]
    /\ mesh = [online |-> onLine, peers |-> 0]

Change(link) ==
    /\ outages[link] < MaxOutages
    /\ outages' = [outages EXCEPT ![link] = @ + 1]

apiChanges ==
    /\ Change("api")
    /\ apiUp' = ~apiUp
    /\ UNCHANGED <<onLine, daemonUp, poll, apiStatus, reported, isOfflineMode, banner, mesh>>

daemonChanges ==
    /\ Change("daemon")
    /\ daemonUp' = ~daemonUp
    /\ UNCHANGED <<onLine, apiUp, poll, apiStatus, reported, isOfflineMode, banner, mesh>>

\* The online and offline events of the window reach both hooks.
browserChanges ==
    /\ Change("browser")
    /\ onLine' = ~onLine
    /\ isOfflineMode' = onLine
    /\ mesh' = [mesh EXCEPT !.online = ~onLine]
    /\ UNCHANGED <<apiUp, daemonUp, poll, apiStatus, reported, banner>>

-----------------------------------------------------------------------------

\* Mutant: the next poll is scheduled after an answer only.
checkStatusOnSuccess ==
    /\ poll = "asking"
    /\ IF apiUp THEN poll' = "waiting" /\ apiStatus' = "online"
                ELSE poll' = "stopped" /\ apiStatus' = "offline"
    /\ UNCHANGED <<onLine, apiUp, daemonUp, outages, reported, isOfflineMode, banner, mesh>>

\* The request ends; a failure is "offline" or "degraded" by its message.
checkStatus ==
    /\ poll = "asking"
    /\ poll' = "waiting"
    /\ apiStatus' \in IF apiUp THEN {"online"} ELSE {"offline", "degraded"}
    /\ UNCHANGED <<onLine, apiUp, daemonUp, outages, reported, isOfflineMode, banner, mesh>>

pollAgain ==
    /\ poll = "waiting"
    /\ poll' = "asking"
    /\ UNCHANGED <<onLine, apiUp, daemonUp, outages, apiStatus, reported,
                   isOfflineMode, banner, mesh>>

\* The effect runs when a render has another status than the one before.
reportStatus ==
    /\ reported # apiStatus
    /\ reported' = apiStatus
    /\ isOfflineMode' = (apiStatus # "online")
    /\ UNCHANGED <<onLine, apiUp, daemonUp, outages, poll, apiStatus, banner, mesh>>

\* pollMeshHealth: what the daemon says, or no peers.
pollMeshHealth ==
    /\ \E peers \in IF daemonUp THEN {0, 1} ELSE {0} :
          mesh.peers # peers /\ mesh' = [mesh EXCEPT !.peers = peers]
    /\ UNCHANGED <<onLine, apiUp, daemonUp, outages, poll, apiStatus, reported,
                   isOfflineMode, banner>>

-----------------------------------------------------------------------------
(* OfflineBanner *)

isVisible == banner.isOffline /\ ~banner.dismissed

\* Its effect: a timer while offline, a fresh start when online again.
bannerRenders ==
    /\ banner.isOffline # isOfflineMode
    /\ banner' = [isOffline |-> isOfflineMode, timer |-> isOfflineMode,
                  dismissed |-> isOfflineMode /\ banner.dismissed]
    /\ UNCHANGED <<onLine, apiUp, daemonUp, outages, poll, apiStatus, reported,
                   isOfflineMode, mesh>>

\* After AUTO_DISMISS_MS, or by a tap before.
dismiss ==
    /\ \/ isVisible /\ banner' = [banner EXCEPT !.dismissed = TRUE]
       \/ banner.timer /\ banner' = [banner EXCEPT !.dismissed = TRUE, !.timer = FALSE]
    /\ UNCHANGED <<onLine, apiUp, daemonUp, outages, poll, apiStatus, reported,
                   isOfflineMode, mesh>>

HookStep ==
    checkStatus \/ pollAgain \/ reportStatus \/ bannerRenders

NetworkNext ==
    \/ apiChanges \/ daemonChanges \/ browserChanges
    \/ HookStep \/ pollMeshHealth \/ dismiss

NetworkSpec == NetworkInit /\ [][NetworkNext]_networkVars

-----------------------------------------------------------------------------
(* Properties *)

\* Offline mode, which either source may set or clear, always has a source
\* that will clear it: the browser is offline, or the status reported last is
\* not "online" and the poll goes on, so that the next good answer differs from
\* it.
OfflineHasReason ==
    isOfflineMode => ~onLine \/ (reported # "online" /\ poll \in {"asking", "waiting"})

\* A kiosk whose browser and API are back leaves offline mode for good,
\* whichever of the two sources noticed the outage and in whatever order the
\* events and a late answer of the poll came.
RecoveryIsNoticed ==
    <>[](onLine /\ apiUp) => <>[](~isOfflineMode /\ ~banner.isOffline)
=============================================================================
