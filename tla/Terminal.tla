------------------------------ MODULE Terminal ------------------------------
(***************************************************************************)
(* The payment micro-frontend (apps/kiosk-payment): PaymentApp asks the    *)
(* sidecar of the card terminal to charge, and hands a signed offline      *)
(* token to the local daemon when the sidecar cannot be reached.           *)
(*                                                                         *)
(* Each choice of a method is an attempt with an idempotency key of its    *)
(* own.  The terminal and the daemon are external: an attempt the browser  *)
(* gave up on after 30 s may still be charged.                             *)
(***************************************************************************)
EXTENDS Naturals, Sequences

CONSTANTS
    EnvKey,       \* VITE_PAYMENT_SYNC_KEY was set when the app was built
    Dev,          \* import.meta.env.DEV
    MaxAttempts   \* bound on choices of a method

ASSUME TerminalConstants ==
    EnvKey \in BOOLEAN /\ Dev \in BOOLEAN /\ MaxAttempts \in Nat

VARIABLES
    phase,      \* UiPhase
    attempts,   \* [step, card]: handleSelectMethod, and what the terminal did
    queue,      \* attempts whose token is in the daemon's queue
    results     \* calls of onResult: [attempt, status]

terminalVars == <<phase, attempts, queue, results>>

Steps == {"asking", "importKey", "enqueue", "done", "threw"}

TerminalTypeOK ==
    /\ phase \in {"select_method", "awaiting_terminal", "queued_offline", "declined"}
    /\ attempts \in Seq([step : Steps, card : {"waiting", "approved", "declined"}])
    /\ queue \subseteq DOMAIN attempts
    /\ results \in Seq([attempt : Nat, status : {"captured", "queued_offline"}])

TerminalInit ==
    /\ phase = "select_method"
    /\ attempts = <<>>
    /\ queue = {}
    /\ results = <<>>

-----------------------------------------------------------------------------

\* The buttons are only there in this phase.
handleSelectMethod ==
    /\ phase = "select_method"
    /\ Len(attempts) < MaxAttempts
    /\ phase' = "awaiting_terminal"
    /\ attempts' = Append(attempts, [step |-> "asking", card |-> "waiting"])
    /\ UNCHANGED <<queue, results>>

\* The customer at the PIN pad, at any time from the request on.
terminalDecides(a) ==
    /\ attempts[a].card = "waiting"
    /\ \E card \in {"approved", "declined"} :
          attempts' = [attempts EXCEPT ![a].card = card]
    /\ UNCHANGED <<phase, queue, results>>

Report(a, status) == Append(results, [attempt |-> a, status |-> status])

\* The sidecar's answer arrives in time.
initiatePayment(a) ==
    /\ attempts[a].step = "asking"
    /\ attempts[a].card # "waiting"
    /\ attempts' = [attempts EXCEPT ![a].step = "done"]
    /\ IF attempts[a].card = "declined"
       THEN phase' = "declined" /\ UNCHANGED results
       ELSE results' = Report(a, "captured") /\ UNCHANGED phase
    /\ UNCHANGED queue

\* Mutant: a bridge error is shown as a decline.
bridgeErrorDeclines(a) ==
    /\ attempts[a].step = "asking"
    /\ attempts' = [attempts EXCEPT ![a].step = "done"]
    /\ phase' = "declined"
    /\ UNCHANGED <<queue, results>>

\* Mutant: the return after queueOffline is missing.
bridgeErrorFallsThrough(a) ==
    /\ attempts[a].step = "asking"
    /\ attempts' = [attempts EXCEPT ![a].step = "enqueue"]
    /\ phase' = "declined"
    /\ UNCHANGED <<queue, results>>

\* PaymentBridgeError: an error status, no answer, or the 30 s are over.
bridgeError(a) ==
    /\ attempts[a].step = "asking"
    /\ attempts' = [attempts EXCEPT ![a].step = "importKey"]
    /\ phase' = "queued_offline"
    /\ UNCHANGED <<queue, results>>

\* fetchSyncKeyFromDaemon: asked by a development build only.
keyAvailable(daemonAnswers) == EnvKey \/ (Dev /\ daemonAnswers)

\* Without a key queueOffline throws, and nobody catches it.
importDevSyncKey(a) ==
    /\ attempts[a].step = "importKey"
    /\ \E daemonAnswers \in BOOLEAN :
          attempts' = [attempts EXCEPT ![a].step =
                         IF keyAvailable(daemonAnswers) THEN "enqueue" ELSE "threw"]
    /\ UNCHANGED <<phase, queue, results>>

\* Mutant: a daemon that cannot be reached ends the sale.
enqueueTokenOrStop(a) ==
    /\ attempts[a].step = "enqueue"
    /\ attempts' = [attempts EXCEPT ![a].step = "done"]
    /\ \/ queue' = queue \union {a} /\ results' = Report(a, "queued_offline")
       \/ UNCHANGED <<queue, results>>
    /\ UNCHANGED phase

\* The signed token is handed over; the result is reported even when the
\* daemon did not get it.
enqueueToken(a) ==
    /\ attempts[a].step = "enqueue"
    /\ attempts' = [attempts EXCEPT ![a].step = "done"]
    /\ queue' \in {queue, queue \union {a}}
    /\ results' = Report(a, "queued_offline")
    /\ UNCHANGED phase

tryAnotherMethod ==
    /\ phase = "declined"
    /\ phase' = "select_method"
    /\ UNCHANGED <<attempts, queue, results>>

\* What ends within a time limit: 30 s for the sidecar, 2 s for the key.  The
\* daemon's answer to a token has none.
AnswerStep ==
    \E a \in DOMAIN attempts :
       \/ initiatePayment(a)
       \/ bridgeError(a)
       \/ importDevSyncKey(a)

AttemptStep ==
    \/ AnswerStep
    \/ \E a \in DOMAIN attempts : enqueueToken(a)

\* What the customer can press in each phase.
PaymentApp == handleSelectMethod \/ tryAnotherMethod

TerminalNext ==
    \/ PaymentApp
    \/ AttemptStep
    \/ \E a \in DOMAIN attempts : terminalDecides(a)

TerminalSpec == TerminalInit /\ [][TerminalNext]_terminalVars

-----------------------------------------------------------------------------
(* Properties *)

\* A customer who is told "declined", and asked for another method, has not
\* been charged for any attempt and never will be: a failure of the bridge
\* is not a decline.
DeclinedIsNotCharged ==
    phase = "declined" =>
       /\ \A a \in DOMAIN attempts : attempts[a].card = "declined"
       /\ queue = {}

\* One sale, one result: whatever the bridge and the daemon do, the shell
\* hears of at most one payment, and a captured one was approved.
OneResult ==
    /\ Len(results) <= 1
    /\ \A i \in DOMAIN results :
          results[i].status = "captured" => attempts[results[i].attempt].card = "approved"

\* A screen that asks the customer to wait, with nothing reported yet, has an
\* attempt that is still at work; a build without a key may also have thrown.
WaitingIsForSomething ==
    (phase \in {"awaiting_terminal", "queued_offline"} /\ results = <<>>) =>
       \E a \in DOMAIN attempts :
          \/ attempts[a].step \in {"asking", "importKey", "enqueue"}
          \/ attempts[a].step = "threw" /\ ~EnvKey

\* PaymentApp's comment: "if the sidecar is unreachable, we fail into a
\* locally-queued offline token rather than blocking the sale".  But without
\* a key queueOffline throws, and the screen says "payment secured" for good.
SaleIsNotBlocked ==
    (phase = "awaiting_terminal") ~> (phase = "declined" \/ results # <<>>)
=============================================================================
