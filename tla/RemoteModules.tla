--------------------------- MODULE RemoteModules ----------------------------
(***************************************************************************)
(* RemoteModuleManager (apps/kiosk/src/updater/remote-modules.ts): swaps   *)
(* the entry URL of the federated micro-frontends.  applyManifest() swaps  *)
(* the remotes of a manifest one after another and suspends at the health  *)
(* check and at the mount; nothing keeps two calls from overlapping, and   *)
(* rollbackAll(), called by an error boundary, may come between.           *)
(*                                                                         *)
(* applyManifest() uses the manifest's version as the new base URL, so a   *)
(* URL is a version number; register() chooses its own.                    *)
(***************************************************************************)
EXTENDS Naturals, Sequences, FiniteSets

CONSTANTS
    Remotes,        \* names of the registered remotes
    MaxManifests,   \* bound on calls of applyManifest, one version each
    MaxRegisters    \* bound on later calls of register

ASSUME RemoteConstants ==
    IsFiniteSet(Remotes) /\ MaxManifests \in Nat /\ MaxRegisters \in Nat

VARIABLES
    remote,     \* RemoteState by name; object tells one registration from the next
    swaps,      \* calls of applyManifest
    answered,   \* URLs whose health check succeeded
    defined     \* URLs some register() call gave

remoteVars == <<remote, swaps, answered, defined>>

RegisteredUrl(object) == 10 * object
RegisteredFallback(object) == 10 * object + 1

Definition(object) ==
    [object |-> object, baseUrl |-> RegisteredUrl(object),
     fallbackUrl |-> RegisteredFallback(object), version |-> 0,
     status |-> "mounting"]

\* Version k + 100 belongs to the k-th manifest.
ManifestVersion(k) == 100 + k

RemotesInit ==
    /\ remote = [r \in Remotes |-> Definition(1)]
    /\ swaps = <<>>
    /\ answered = {}
    /\ defined = {RegisteredUrl(1), RegisteredFallback(1)}

-----------------------------------------------------------------------------

\* The map gets a new object; a swap under way keeps writing to the old one.
register(r) ==
    /\ remote[r].object <= MaxRegisters
    /\ LET o == remote[r].object + 1
       IN  /\ remote' = [remote EXCEPT ![r] = Definition(o)]
           /\ defined' = defined \union {RegisteredUrl(o), RegisteredFallback(o)}
    /\ UNCHANGED <<swaps, answered>>

\* Writes of swap k reach the map only while its object is still in it.
Write(k, r, new) ==
    remote' = IF remote[r].object = swaps[k].object
              THEN [remote EXCEPT ![r] = new] ELSE remote

applyManifest ==
    /\ Len(swaps) < MaxManifests
    /\ \E names \in (SUBSET Remotes) \ {{}} :
          swaps' = Append(swaps, [todo |-> names, name |-> CHOOSE r \in names : TRUE,
                                  step |-> "next", object |-> 0,
                                  oldVersion |-> 0, oldFallback |-> 0])
    /\ UNCHANGED <<remote, answered, defined>>

Finished(s) == [s EXCEPT !.step = "next", !.todo = @ \ {s.name}]

\* The beginning of swapVersion for one of the manifest's remotes.
swapVersion(k) ==
    /\ swaps[k].step = "next"
    /\ \E r \in swaps[k].todo :
          LET s == [swaps[k] EXCEPT !.name = r]
          IN  swaps' = [swaps EXCEPT ![k] =
                 IF remote[r].version = ManifestVersion(k)
                 THEN Finished(s)
                 ELSE [s EXCEPT !.step = "preflight", !.object = remote[r].object,
                                !.oldVersion = remote[r].version]]
    /\ UNCHANGED <<remote, answered, defined>>

\* Mutant: an error page counts as an answer.
checkRemoteHealthAnyAnswer(response) == response # "aborted"

checkRemoteHealth(response) == response = "ok"

\* The pre-flight check answers: the URL is switched, or the remote fails.
preflight(k) ==
    LET r == swaps[k].name
        now == remote[r]
    IN  /\ swaps[k].step = "preflight"
        /\ \E response \in {"ok", "error", "aborted"} :
              /\ answered' = IF response = "ok" 
                            THEN answered \union {ManifestVersion(k)} ELSE answered
              /\ IF checkRemoteHealth(response)
                 THEN /\ Write(k, r, [now EXCEPT !.fallbackUrl = now.baseUrl,
                                                 !.baseUrl = ManifestVersion(k),
                                                 !.version = ManifestVersion(k)])
                      /\ swaps' = [swaps EXCEPT ![k].step = "mounting",
                                                ![k].oldFallback = now.fallbackUrl]
                 ELSE /\ Write(k, r, [now EXCEPT !.status = "failed"])
                      /\ swaps' = [swaps EXCEPT ![k] = Finished(@)]
        /\ UNCHANGED defined

\* The entry script loads, fails or times out.
tryMount(k) ==
    LET r == swaps[k].name
        now == remote[r]
    IN  /\ swaps[k].step = "mounting"
        /\ \E ok \in BOOLEAN :
              Write(k, r, IF ok THEN [now EXCEPT !.status = "mounted"]
                          ELSE [now EXCEPT !.baseUrl = now.fallbackUrl,
                                           !.fallbackUrl = swaps[k].oldFallback,
                                           !.version = swaps[k].oldVersion,
                                           !.status = "rolled_back"])
        /\ swaps' = [swaps EXCEPT ![k] = Finished(@)]
        /\ UNCHANGED <<answered, defined>>

\* An error boundary caught an exception in some remote; versions stay.
rollbackAll ==
    /\ remote' = [r \in Remotes |->
                    IF remote[r].baseUrl = remote[r].fallbackUrl THEN remote[r]
                    ELSE [remote[r] EXCEPT !.baseUrl = remote[r].fallbackUrl,
                                           !.status = "rolled_back"]]
    /\ remote' # remote
    /\ UNCHANGED <<swaps, answered, defined>>

RemotesNext ==
    \/ \E r \in Remotes : register(r)
    \/ applyManifest
    \/ \E k \in DOMAIN swaps : swapVersion(k) \/ preflight(k) \/ tryMount(k)
    \/ rollbackAll

RemotesSpec == RemotesInit /\ [][RemotesNext]_remoteVars

-----------------------------------------------------------------------------

\* The class comment's promise: a remote is only ever loaded from a URL that
\* answered a health check or that somebody registered, and so is what it
\* would fall back to, whatever swaps, rollbacks and registrations overlap.
UrlWasHealthy ==
    \A r \in Remotes :
       {remote[r].baseUrl, remote[r].fallbackUrl} \subseteq answered \union defined
=============================================================================
