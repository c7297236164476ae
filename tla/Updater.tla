------------------------------ MODULE Updater -------------------------------
(***************************************************************************)
(* The kiosk's self-updater (apps/kiosk/src/updater): one Updater object   *)
(* whose check(), applyWhenIdle() and rollback timer are asynchronous.     *)
(* Each call of check() and of applyWhenIdle() is a process of its own: it *)
(* suspends at every await, while the other calls read and write the same  *)
(* fields (state, currentVersion, pendingManifest, pendingBlob).           *)
(*                                                                         *)
(* A version is the sequence of its dotted, numeric segments.  The server  *)
(* may answer a fetch with any manifest of Manifests: its signature may be *)
(* wrong, its rollout missing, and a download may be damaged.              *)
(***************************************************************************)
EXTENDS Naturals, Sequences

CONSTANTS
    FirstVersion,    \* currentVersion given to the constructor
    Manifests,       \* what the server may answer
    HasHealthCheck,  \* config.healthCheck is given
    MaxChecks,       \* bound on the calls of check()
    MaxApplies       \* bound on the calls of applyWhenIdle()

Version == Seq(Nat)

\* signed: the signature verifies; artifact: one is listed for the platform;
\* rollout: there is one, which validateManifestShape does not ask for.
Manifest == [version : Version, signed : BOOLEAN, artifact : BOOLEAN, rollout : BOOLEAN]

ASSUME UpdaterConstants ==
    /\ FirstVersion \in Version
    /\ Manifests \subseteq Manifest
    /\ HasHealthCheck \in BOOLEAN
    /\ MaxChecks \in Nat /\ MaxApplies \in Nat

VARIABLES
    state,            \* UpdateState
    currentVersion,
    pendingManifest,
    pendingBlob,
    polling,          \* pollTimer is set
    rollbackTimer,    \* apply whose timer is stored in rollbackTimer, or 0
    checks,           \* calls of check(): where they are and what they hold
    applies           \* calls of applyWhenIdle(), with the timer they armed

updaterVars == <<state, currentVersion, pendingManifest, pendingBlob, polling,
                 rollbackTimer, checks, applies>>

pendingVars == <<currentVersion, pendingManifest, pendingBlob>>

NoManifest == [version |-> <<>>, signed |-> FALSE, artifact |-> FALSE, rollout |-> FALSE]

\* version: whose artifact it is; intact: its bytes are the published ones.
NoBlob == [version |-> <<>>, intact |-> FALSE]

UpdateState == {"idle", "checking", "downloading", "pending", "applying",
                "healthy", "rolled_back"}

UpdaterTypeOK ==
    /\ state \in UpdateState
    /\ currentVersion \in Version
    /\ pendingManifest \in Manifest
    /\ pendingBlob \in [version : Version, intact : BOOLEAN]
    /\ polling \in BOOLEAN
    /\ rollbackTimer \in 0..Len(applies)
    /\ checks \in Seq([step : {"fetch", "verify", "download", "done"},
                       manifest : Manifest])
    /\ applies \in Seq([step : {"applying", "applied", "failed"},
                        previous : Version, manifest : Manifest,
                        blob : [version : Version, intact : BOOLEAN],
                        timer : {"none", "armed", "probing", "fired",
                                 "cleared"},
                        restored : BOOLEAN])

-----------------------------------------------------------------------------
(* Versions *)

segment(v, i) == IF i \in DOMAIN v THEN v[i] ELSE 0

\* Negative, zero or positive: the sign is 0, 1, 2 here.
compareVersions(current, next) ==
    LET segments == 1..(Len(current) + Len(next))
        differ == {i \in segments : segment(current, i) # segment(next, i)}
    IN  IF differ = {} THEN 1
        ELSE LET i == CHOOSE d \in differ : \A e \in differ : d <= e
             IN  IF segment(current, i) < segment(next, i) THEN 0 ELSE 2

\* Nothing newer than what runs: the manifest is not worth a download.
upToDate(manifest) == compareVersions(currentVersion, manifest.version) >= 1

-----------------------------------------------------------------------------

UpdaterInit ==
    /\ state = "idle"
    /\ currentVersion = FirstVersion
    /\ pendingManifest = NoManifest
    /\ pendingBlob = NoBlob
    /\ polling = FALSE
    /\ rollbackTimer = 0
    /\ checks = <<>>
    /\ applies = <<>>

(***************************************************************************)
(* check()                                                                 *)
(***************************************************************************)
\* The synchronous beginning; a call that finds another one busy returns.
BeginCheck ==
    IF state \in {"checking", "downloading"}
    THEN UNCHANGED <<state, checks>>
    ELSE /\ Len(checks) < MaxChecks
         /\ state' = "checking"
         /\ checks' = Append(checks, [step |-> "fetch", manifest |-> NoManifest])

\* By hand, or from the poll interval that start() sets.
check ==
    /\ state \notin {"checking", "downloading"}
    /\ BeginCheck
    /\ UNCHANGED <<pendingVars, polling, rollbackTimer, applies>>

start ==
    /\ ~polling
    /\ polling' = TRUE
    /\ BeginCheck
    /\ UNCHANGED <<pendingVars, rollbackTimer, applies>>

\* The paths that give up: up to date, or an exception caught.
endCheck(c) ==
    /\ checks' = [checks EXCEPT ![c].step = "done"]
    /\ state' = "idle"

fetchManifest(c) ==
    /\ checks[c].step = "fetch"
    /\ \E m \in Manifests :
          IF upToDate(m) \/ ~m.artifact
          THEN endCheck(c)
          ELSE /\ checks' = [checks EXCEPT ![c] = [step |-> "verify", manifest |-> m]]
               /\ UNCHANGED state
    /\ UNCHANGED <<pendingVars, polling, rollbackTimer, applies>>

verifyManifestSignature(c) ==
    /\ checks[c].step = "verify"
    /\ IF checks[c].manifest.signed
       THEN /\ checks' = [checks EXCEPT ![c].step = "download"]
            /\ state' = "downloading"
       ELSE endCheck(c)
    /\ UNCHANGED <<pendingVars, polling, rollbackTimer, applies>>

\* Mutant: a manifest that is already staged is kept.
downloadAndVerifyArtifactKeeps(c) ==
    /\ checks[c].step = "download"
    /\ pendingManifest' = IF pendingManifest = NoManifest THEN checks[c].manifest
                          ELSE pendingManifest
    /\ pendingBlob' = [version |-> checks[c].manifest.version, intact |-> TRUE]
    /\ state' = "pending"
    /\ checks' = [checks EXCEPT ![c].step = "done"]
    /\ UNCHANGED <<currentVersion, polling, rollbackTimer, applies>>

\* Whatever arrives is compared with the manifest's checksum.
downloadAndVerifyArtifact(c) ==
    /\ checks[c].step = "download"
    /\ \E intact \in BOOLEAN :
          IF intact
          THEN /\ pendingManifest' = checks[c].manifest
               /\ pendingBlob' = [version |-> checks[c].manifest.version,
                                  intact |-> intact]
               /\ state' = "pending"
               /\ checks' = [checks EXCEPT ![c].step = "done"]
          ELSE endCheck(c) /\ UNCHANGED <<pendingManifest, pendingBlob>>
    /\ UNCHANGED <<currentVersion, polling, rollbackTimer, applies>>

\* The request fails: no network, not found, or a manifest of another shape.
requestFails(c) ==
    /\ checks[c].step \in {"fetch", "download"}
    /\ endCheck(c)
    /\ UNCHANGED <<pendingVars, polling, rollbackTimer, applies>>

(***************************************************************************)
(* applyWhenIdle() and the rollback check                                  *)
(***************************************************************************)
applyWhenIdle ==
    /\ state = "pending"
    /\ pendingManifest # NoManifest /\ pendingBlob # NoBlob
    /\ Len(applies) < MaxApplies
    /\ state' = "applying"
    /\ applies' = Append(applies,
                    [step |-> "applying", previous |-> currentVersion,
                     manifest |-> pendingManifest, blob |-> pendingBlob,
                     timer |-> "none", restored |-> FALSE])
    /\ UNCHANGED <<pendingVars, polling, rollbackTimer, checks>>

\* Mutant: a timer that was set before is taken for one that still runs.
scheduleRollbackCheckOnce(a) ==
    /\ applies' = [applies EXCEPT
                     ![a].step = "applied",
                     ![a].timer = IF rollbackTimer = 0 THEN "armed" ELSE "none"]
    /\ rollbackTimer' = IF rollbackTimer = 0 THEN a ELSE rollbackTimer

scheduleRollbackCheck(a) ==
    /\ applies' = [applies EXCEPT ![a].step = "applied", ![a].timer = "armed"]
    /\ rollbackTimer' = a

\* onApply resolves.
applied(a) ==
    /\ applies[a].step = "applying" /\ applies[a].manifest.rollout
    /\ currentVersion' = applies[a].manifest.version
    /\ pendingManifest' = NoManifest
    /\ pendingBlob' = NoBlob
    /\ state' = "healthy"
    /\ scheduleRollbackCheck(a)
    /\ UNCHANGED <<polling, checks>>

\* onApply resolves, and reading the rollout throws: the update is rolled back,
\* but currentVersion and what was pending stay.
appliedWithoutRollout(a) ==
    /\ applies[a].step = "applying" /\ ~applies[a].manifest.rollout
    /\ currentVersion' = applies[a].manifest.version
    /\ applies' = [applies EXCEPT ![a].step = "failed", ![a].restored = TRUE]
    /\ state' = "rolled_back"
    /\ UNCHANGED <<pendingManifest, pendingBlob, polling, rollbackTimer, checks>>

\* onApply rejects; onRollback is called before the next await.
applyRejected(a) ==
    /\ applies[a].step = "applying"
    /\ applies' = [applies EXCEPT ![a].step = "failed", ![a].restored = TRUE]
    /\ state' = "rolled_back"
    /\ UNCHANGED <<pendingVars, polling, rollbackTimer, checks>>

\* The timer fires; without a health check the update is taken for good.
rollbackTimerFires(a) ==
    /\ applies[a].timer = "armed"
    /\ applies' = [applies EXCEPT
                     ![a].timer = IF HasHealthCheck THEN "probing" ELSE "fired"]
    /\ UNCHANGED <<state, pendingVars, polling, rollbackTimer, checks>>

\* A probe that throws rolls nothing back, as if it had found the kiosk healthy.
healthCheck(a) ==
    /\ applies[a].timer = "probing"
    /\ \E healthy \in BOOLEAN :
          /\ applies' = [applies EXCEPT ![a].timer = "fired",
                                        ![a].restored = ~healthy]
          /\ state' = IF healthy THEN state ELSE "rolled_back"
    /\ UNCHANGED <<pendingVars, polling, rollbackTimer, checks>>

\* Only the timer stored last can be cleared.
stop ==
    /\ polling \/ rollbackTimer # 0
    /\ polling' = FALSE
    /\ rollbackTimer' = 0
    /\ applies' = [a \in DOMAIN applies |->
                     IF a = rollbackTimer /\ applies[a].timer = "armed"
                     THEN [applies[a] EXCEPT !.timer = "cleared"]
                     ELSE applies[a]]
    /\ UNCHANGED <<state, pendingVars, checks>>

-----------------------------------------------------------------------------

CheckStep ==
    \E c \in DOMAIN checks :
       \/ fetchManifest(c)
       \/ verifyManifestSignature(c)
       \/ downloadAndVerifyArtifact(c)
       \/ requestFails(c)

ApplyStep(a) ==
    /\ a \in DOMAIN applies
    /\ \/ applied(a)
       \/ appliedWithoutRollout(a)
       \/ applyRejected(a)
       \/ rollbackTimerFires(a)
       \/ healthCheck(a)

UpdaterNext ==
    \/ start
    \/ stop
    \/ check
    \/ applyWhenIdle
    \/ CheckStep
    \/ \E a \in 1..MaxApplies : ApplyStep(a)

UpdaterSpec == UpdaterInit /\ [][UpdaterNext]_updaterVars

-----------------------------------------------------------------------------
(* Properties *)

\* An update that reaches onApply was signed, and its blob is the undamaged
\* artifact of the very manifest it is installed for, whatever other checks
\* replaced pendingManifest and pendingBlob meanwhile.
AppliedIsVerified ==
    \A a \in DOMAIN applies :
       /\ applies[a].manifest.signed
       /\ applies[a].blob.intact
       /\ applies[a].blob.version = applies[a].manifest.version

\* Every update that was installed is probed once its time is up, even when
\* another one is installed first; only stop() gives that up.
UpdateIsProbed ==
    \A a \in 1..MaxApplies :
       (a \in DOMAIN applies /\ applies[a].step = "applied")
          ~> (a \in DOMAIN applies /\ applies[a].timer \in {"fired", "cleared"})
=============================================================================
