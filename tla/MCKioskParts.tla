---------------------------- MODULE MCKioskParts ----------------------------
(***************************************************************************)
(* Parts of the kiosk that share no state: the updater, the remote         *)
(* modules, the session with the customer's phone, the payment screen, the *)
(* connection monitors, the menu and the produce scanner.  A behaviour     *)
(* exercises the one `part` names.                                         *)
(***************************************************************************)
EXTENDS Updater, RemoteModules, GhostCart, Terminal, Network, Menu, Produce

VARIABLE part

vars == <<updaterVars, remoteVars, ghostVars, terminalVars, networkVars, menuVars,
          produceVars, part>>

MCFirstVersion == <<1>>

\* v1.0 is v1; the others are newer; one is not signed, one has no artifact,
\* one no rollout.
MCManifests ==
    {[version |-> <<1, 0>>, signed |-> TRUE, artifact |-> TRUE, rollout |-> TRUE],
     [version |-> <<1, 1>>, signed |-> TRUE, artifact |-> TRUE, rollout |-> TRUE],
     [version |-> <<2>>, signed |-> TRUE, artifact |-> TRUE, rollout |-> TRUE],
     [version |-> <<2>>, signed |-> FALSE, artifact |-> TRUE, rollout |-> TRUE],
     [version |-> <<2, 1>>, signed |-> TRUE, artifact |-> FALSE, rollout |-> TRUE],
     [version |-> <<1, 2>>, signed |-> TRUE, artifact |-> TRUE, rollout |-> FALSE]}

Dish(i, name) == [id |-> i, category |-> name]

\* Two full pages and a half; one category fits on a page, one does not.
MCMenuItems ==
    <<Dish(1, "hot"), Dish(2, "cold"), Dish(3, "hot"), Dish(4, "hot"), Dish(5, "cold")>>

Init ==
    /\ UpdaterInit /\ RemotesInit /\ GhostInit /\ TerminalInit /\ NetworkInit
    /\ MenuInit /\ ProduceInit
    /\ part \in {"updater", "remotes", "phone", "terminal", "network", "menu", "produce"}

Updating(A) ==
    /\ part = "updater" /\ A
    /\ UNCHANGED <<remoteVars, ghostVars, terminalVars, networkVars, menuVars, produceVars, part>>

Mounting(A) ==
    /\ part = "remotes" /\ A
    /\ UNCHANGED <<updaterVars, ghostVars, terminalVars, networkVars, menuVars, produceVars, part>>

Pairing(A) ==
    /\ part = "phone" /\ A
    /\ UNCHANGED <<updaterVars, remoteVars, terminalVars, networkVars, menuVars, produceVars, part>>

Paying(A) ==
    /\ part = "terminal" /\ A
    /\ UNCHANGED <<updaterVars, remoteVars, ghostVars, networkVars, menuVars, produceVars, part>>

Watching(A) ==
    /\ part = "network" /\ A
    /\ UNCHANGED <<updaterVars, remoteVars, ghostVars, terminalVars, menuVars, produceVars, part>>

Browsing(A) ==
    /\ part = "menu" /\ A
    /\ UNCHANGED <<updaterVars, remoteVars, ghostVars, terminalVars, networkVars, produceVars, part>>

Scanning(A) ==
    /\ part = "produce" /\ A
    /\ UNCHANGED <<updaterVars, remoteVars, ghostVars, terminalVars, networkVars, menuVars, part>>

Next ==
    \/ Updating(UpdaterNext)
    \/ Mounting(RemotesNext)
    \/ Pairing(GhostNext)
    \/ Paying(TerminalNext)
    \/ Watching(NetworkNext)
    \/ Browsing(MenuNext)
    \/ Scanning(ProduceNext)

\* Requests end, callbacks return, timers fire, React runs its effects, and
\* ICE notices a lost peer.
Fairness ==
    /\ WF_vars(Updating(CheckStep))
    /\ \A a \in 1..MaxApplies : WF_vars(Updating(ApplyStep(a)))
    /\ WF_vars(Pairing(GhostAmbient))
    /\ WF_vars(Paying(AnswerStep))
    /\ WF_vars(Watching(checkStatus)) /\ WF_vars(Watching(pollAgain))
    /\ WF_vars(Watching(reportStatus)) /\ WF_vars(Watching(bannerRenders))

FairSpec == Init /\ [][Next]_vars /\ Fairness
=============================================================================
