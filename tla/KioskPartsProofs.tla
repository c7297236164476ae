-------------------------- MODULE KioskPartsProofs --------------------------
(***************************************************************************)
(* Proofs about the parts of the kiosk that share no state: the payment    *)
(* screen, the self-updater, the remote modules, the menu, the produce     *)
(* scanner, the session with the customer's phone, connectivity and the    *)
(* sync of the cart.  Each part has its own invariant and specification;   *)
(* Spec, TypeOK and vars are those of the cart sync.                       *)
(***************************************************************************)
EXTENDS CartSync, Updater, RemoteModules, GhostCart, Terminal, Network, Menu, Produce, TLAPS

-----------------------------------------------------------------------------
(* Facts about sequences the parts share *)

LEMMA AppendFacts ==
    ASSUME NEW S, NEW s \in Seq(S), NEW e \in S
    PROVE  /\ Append(s, e) \in Seq(S)
           /\ Len(Append(s, e)) = Len(s) + 1 /\ Len(s) \in Nat
           /\ DOMAIN Append(s, e) = 1..(Len(s) + 1) /\ DOMAIN s = 1..Len(s)
           /\ Append(s, e)[Len(s) + 1] = e
           /\ \A i \in 1..Len(s) : Append(s, e)[i] = s[i]
  OBVIOUS

LEMMA SeqExcept ==
    ASSUME NEW S, NEW s \in Seq(S), NEW x \in S, NEW i \in DOMAIN s
    PROVE  /\ [s EXCEPT ![i] = x] \in Seq(S)
           /\ Len([s EXCEPT ![i] = x]) = Len(s) /\ Len(s) \in Nat
           /\ DOMAIN [s EXCEPT ![i] = x] = 1..Len(s) /\ DOMAIN s = 1..Len(s)
           /\ [s EXCEPT ![i] = x][i] = x
           /\ \A j \in 1..Len(s) : j # i => [s EXCEPT ![i] = x][j] = s[j]
<1> DEFINE t == [s EXCEPT ![i] = x]
<1>1. Len(s) \in Nat /\ DOMAIN s = 1..Len(s) /\ DOMAIN t = 1..Len(s)
  OBVIOUS
<1>2. \A j \in 1..Len(s) : t[j] \in S
  BY <1>1
<1>3. t = [j \in 1..Len(s) |-> t[j]]
  BY <1>1
<1>4. t[i] = x /\ \A j \in 1..Len(s) : j # i => t[j] = s[j]
  BY <1>1
<1> HIDE DEF t
<1>5. t \in Seq(S) /\ Len(t) = Len(s)
  BY <1>1, <1>2, <1>3
<1> QED
  BY <1>1, <1>4, <1>5 DEF t

-----------------------------------------------------------------------------
(* The payment screen *)

(***************************************************************************)
(* Only the last attempt can be open: a customer is offered another method *)
(* after a decline, and a decline is the terminal's.  An open attempt says *)
(* which phase the screen is in, and nothing was reported or queued before *)
(* it ended.                                                               *)
(***************************************************************************)
TerminalInv ==
    /\ TerminalTypeOK
    /\ \A a \in DOMAIN attempts : a # Len(attempts) =>
          attempts[a].step = "done" /\ attempts[a].card = "declined"
    /\ phase \in {"select_method", "declined"} =>
          /\ \A a \in DOMAIN attempts :
                attempts[a].step = "done" /\ attempts[a].card = "declined"
          /\ results = <<>>
    /\ phase # "queued_offline" => queue = {}
    /\ \A a \in DOMAIN attempts :
          /\ attempts[a].step = "asking" => phase = "awaiting_terminal"
          /\ attempts[a].step \in {"importKey", "enqueue"} => phase = "queued_offline"
          /\ attempts[a].step # "done" => results = <<>>
    /\ \A i \in DOMAIN results : results[i].attempt \in DOMAIN attempts
    /\ OneResult

Attempt == [step : Steps, card : {"waiting", "approved", "declined"}]

\* Every step of an attempt rewrites its record.
LEMMA AttemptChange ==
    ASSUME TerminalTypeOK, NEW a \in DOMAIN attempts, NEW x \in Attempt,
           attempts' = [attempts EXCEPT ![a] = x]
    PROVE  /\ attempts' \in Seq(Attempt)
           /\ DOMAIN attempts' = DOMAIN attempts /\ Len(attempts') = Len(attempts)
           /\ attempts'[a] = x
           /\ \A b \in DOMAIN attempts : b # a => attempts'[b] = attempts[b]
<1>1. attempts \in Seq(Attempt)
  BY DEF TerminalTypeOK, Attempt
<1> HIDE DEF Attempt
<1> QED
  BY <1>1, SeqExcept

\* The attempt that is not over is the last one.
LEMMA OpenAttempt ==
    ASSUME TerminalInv, NEW a \in DOMAIN attempts,
           attempts[a].step # "done" \/ attempts[a].card # "declined"
    PROVE  /\ a = Len(attempts) /\ attempts[a] \in Attempt
           /\ \A b \in DOMAIN attempts : b # a =>
                 attempts[b].step = "done" /\ attempts[b].card = "declined"
           /\ phase \in {"awaiting_terminal", "queued_offline"}
<1>1. attempts \in Seq(Attempt)
  BY DEF TerminalInv, TerminalTypeOK, Attempt
<1>2. attempts[a] \in Attempt
  BY <1>1
<1> QED
  BY <1>2 DEF TerminalInv, TerminalTypeOK

LEMMA TerminalStep ==
    ASSUME TerminalInv, TerminalNext
    PROVE  TerminalInv'
<1>0. /\ attempts \in Seq(Attempt) /\ Len(attempts) \in Nat
      /\ DOMAIN attempts = 1..Len(attempts)
      /\ TerminalTypeOK /\ queue \subseteq DOMAIN attempts
      /\ results \in Seq([attempt : Nat, status : {"captured", "queued_offline"}])
  BY DEF TerminalInv, TerminalTypeOK, Attempt
<1>1. CASE handleSelectMethod
  <2> DEFINE x == [step |-> "asking", card |-> "waiting"]
  <2>1. x \in Attempt
    BY DEF Attempt, Steps
  <2>2. attempts' = Append(attempts, x) /\ UNCHANGED <<queue, results>>
        /\ phase' = "awaiting_terminal" /\ phase = "select_method"
    BY <1>1 DEF handleSelectMethod
  <2>3. x.step = "asking" /\ x.card = "waiting"
    OBVIOUS
  <2> HIDE DEF x, Attempt
  <2>4. /\ attempts' \in Seq(Attempt) /\ Len(attempts') = Len(attempts) + 1
        /\ DOMAIN attempts' = 1..(Len(attempts) + 1)
        /\ attempts'[Len(attempts) + 1] = x
        /\ \A i \in 1..Len(attempts) : attempts'[i] = attempts[i]
    BY <1>0, <2>1, <2>2, AppendFacts
  <2>5. TerminalTypeOK'
    BY <1>0, <2>2, <2>4 DEF TerminalTypeOK, Attempt
  <2> QED
    BY <1>0, <2>2, <2>3, <2>4, <2>5 DEF TerminalInv, OneResult
<1>2. CASE tryAnotherMethod
  <2>1. TerminalTypeOK'
    BY <1>2 DEF tryAnotherMethod, TerminalInv, TerminalTypeOK
  <2> QED
    BY <1>2, <2>1 DEF tryAnotherMethod, TerminalInv, OneResult
<1>3. ASSUME NEW a \in DOMAIN attempts, terminalDecides(a)
      PROVE  TerminalInv'
  <2>1. PICK card \in {"approved", "declined"} :
           attempts' = [attempts EXCEPT ![a].card = card]
    BY <1>3 DEF terminalDecides
  <2> DEFINE x == [attempts[a] EXCEPT !.card = card]
  <2>2. attempts[a] \in Attempt /\ attempts[a].card = "waiting"
        /\ UNCHANGED <<phase, queue, results>>
    BY <1>0, <1>3 DEF terminalDecides
  <2>3. x \in Attempt /\ x.step = attempts[a].step /\ attempts' = [attempts EXCEPT ![a] = x]
    BY <1>0, <2>1, <2>2 DEF Attempt
  <2> HIDE DEF x
  <2>4. /\ attempts' \in Seq(Attempt) /\ DOMAIN attempts' = DOMAIN attempts
        /\ Len(attempts') = Len(attempts) /\ attempts'[a] = x
        /\ \A b \in DOMAIN attempts : b # a => attempts'[b] = attempts[b]
    BY <1>0, <2>3, AttemptChange
  <2>5. /\ a = Len(attempts) /\ phase \in {"awaiting_terminal", "queued_offline"}
        /\ \A b \in DOMAIN attempts : b # a =>
              attempts[b].step = "done" /\ attempts[b].card = "declined"
    BY <2>2, OpenAttempt
  <2>6. TerminalTypeOK'
    BY <1>0, <2>2, <2>4 DEF TerminalTypeOK, Attempt
  <2>7. OneResult'
    BY <2>2, <2>4 DEF TerminalInv, OneResult
  <2> QED
    BY <1>0, <2>2, <2>3, <2>4, <2>5, <2>6, <2>7 DEF TerminalInv
<1>4. ASSUME NEW a \in DOMAIN attempts, initiatePayment(a)
      PROVE  TerminalInv'
  <2> DEFINE x == [attempts[a] EXCEPT !.step = "done"]
  <2>1. attempts[a] \in Attempt
    BY <1>0
  <2>2. attempts[a] \in Attempt /\ attempts[a].step = "asking"
        /\ attempts[a].card \in {"approved", "declined"} /\ UNCHANGED queue
    BY <1>4, <2>1 DEF initiatePayment, Attempt
  <2>3. /\ x \in Attempt /\ x.step = "done" /\ x.card = attempts[a].card
        /\ attempts' = [attempts EXCEPT ![a] = x]
    BY <1>0, <1>4, <2>2 DEF Attempt, Steps, initiatePayment
  <2> HIDE DEF x
  <2>4. /\ attempts' \in Seq(Attempt) /\ DOMAIN attempts' = DOMAIN attempts
        /\ Len(attempts') = Len(attempts) /\ attempts'[a] = x
        /\ \A b \in DOMAIN attempts : b # a => attempts'[b] = attempts[b]
    BY <1>0, <2>3, AttemptChange
  <2>5. /\ a = Len(attempts) /\ phase = "awaiting_terminal" /\ results = <<>> /\ queue = {}
        /\ \A b \in DOMAIN attempts : b # a =>
              attempts[b].step = "done" /\ attempts[b].card = "declined"
    BY <2>2, OpenAttempt DEF TerminalInv
  <2>6. CASE attempts[a].card = "declined"
    <3>1. phase' = "declined" /\ results' = <<>>
      BY <1>4, <2>5, <2>6 DEF initiatePayment
    <3>2. TerminalTypeOK'
      BY <1>0, <2>2, <2>4, <3>1 DEF TerminalTypeOK, Attempt
    <3> QED
      BY <1>0, <2>2, <2>3, <2>4, <2>5, <2>6, <3>1, <3>2 DEF TerminalInv, OneResult
  <2>7. CASE attempts[a].card = "approved"
    <3>1. phase' = "awaiting_terminal"
          /\ results' = <<[attempt |-> a, status |-> "captured"]>>
      BY <1>4, <2>5, <2>7 DEF initiatePayment, Report
    <3>2. TerminalTypeOK'
      BY <1>0, <2>2, <2>4, <3>1 DEF TerminalTypeOK, Attempt
    <3> QED
      BY <1>0, <2>2, <2>3, <2>4, <2>5, <2>7, <3>1, <3>2 DEF TerminalInv, OneResult
  <2> QED
    BY <2>2, <2>6, <2>7
<1>5. ASSUME NEW a \in DOMAIN attempts, bridgeError(a) \/ importDevSyncKey(a)
      PROVE  TerminalInv'
  <2>1. PICK step \in {"importKey", "enqueue", "threw"} :
           attempts' = [attempts EXCEPT ![a].step = step]
    BY <1>5 DEF bridgeError, importDevSyncKey
  <2> DEFINE x == [attempts[a] EXCEPT !.step = step]
  <2>2. /\ attempts[a] \in Attempt /\ attempts[a].step \in {"asking", "importKey"}
        /\ UNCHANGED <<queue, results>>
    BY <1>0, <1>5 DEF bridgeError, importDevSyncKey
  <2>3. /\ x \in Attempt /\ x.step = step /\ x.card = attempts[a].card
        /\ attempts' = [attempts EXCEPT ![a] = x]
    BY <1>0, <2>1, <2>2 DEF Attempt, Steps
  <2> HIDE DEF x
  <2>4. /\ attempts' \in Seq(Attempt) /\ DOMAIN attempts' = DOMAIN attempts
        /\ Len(attempts') = Len(attempts) /\ attempts'[a] = x
        /\ \A b \in DOMAIN attempts : b # a => attempts'[b] = attempts[b]
    BY <1>0, <2>3, AttemptChange
  <2>5. /\ a = Len(attempts) /\ results = <<>> /\ phase' = "queued_offline"
        /\ \A b \in DOMAIN attempts : b # a =>
              attempts[b].step = "done" /\ attempts[b].card = "declined"
    BY <1>5, <2>2, OpenAttempt DEF TerminalInv, bridgeError, importDevSyncKey
  <2>6. TerminalTypeOK'
    BY <1>0, <2>2, <2>4, <2>5 DEF TerminalTypeOK, Attempt
  <2> QED
    BY <1>0, <2>2, <2>3, <2>4, <2>5, <2>6 DEF TerminalInv, OneResult
<1>6. ASSUME NEW a \in DOMAIN attempts, enqueueToken(a)
      PROVE  TerminalInv'
  <2> DEFINE x == [attempts[a] EXCEPT !.step = "done"]
  <2>2. attempts[a] \in Attempt /\ attempts[a].step = "enqueue"
        /\ queue' \subseteq DOMAIN attempts /\ phase' = phase
    BY <1>0, <1>6 DEF enqueueToken
  <2>3. /\ x \in Attempt /\ x.step = "done" /\ x.card = attempts[a].card
        /\ attempts' = [attempts EXCEPT ![a] = x]
    BY <1>0, <1>6, <2>2 DEF Attempt, Steps, enqueueToken
  <2> HIDE DEF x
  <2>4. /\ attempts' \in Seq(Attempt) /\ DOMAIN attempts' = DOMAIN attempts
        /\ Len(attempts') = Len(attempts) /\ attempts'[a] = x
        /\ \A b \in DOMAIN attempts : b # a => attempts'[b] = attempts[b]
    BY <1>0, <2>3, AttemptChange
  <2>5. /\ a = Len(attempts) /\ phase = "queued_offline" /\ results = <<>>
        /\ \A b \in DOMAIN attempts : b # a =>
              attempts[b].step = "done" /\ attempts[b].card = "declined"
    BY <2>2, OpenAttempt DEF TerminalInv
  <2>6. results' = <<[attempt |-> a, status |-> "queued_offline"]>>
    BY <1>6, <2>5 DEF enqueueToken, Report
  <2>7. TerminalTypeOK'
    BY <1>0, <2>2, <2>4, <2>5, <2>6 DEF TerminalTypeOK, Attempt
  <2> QED
    BY <1>0, <2>2, <2>3, <2>4, <2>5, <2>6, <2>7 DEF TerminalInv, OneResult
<1> QED
  BY <1>1, <1>2, <1>3, <1>4, <1>5, <1>6 DEF TerminalNext, PaymentApp, AttemptStep, AnswerStep

\* The payment screen keeps its invariant, whatever the terminal, the bridge
\* and the daemon do.
THEOREM TerminalInvariant == TerminalSpec => []TerminalInv
<1>1. TerminalInit => TerminalInv
  BY DEF TerminalInit, TerminalInv, TerminalTypeOK, OneResult
<1>2. TerminalInv /\ [TerminalNext]_terminalVars => TerminalInv'
  <2>1. CASE UNCHANGED terminalVars
    BY <2>1 DEF terminalVars, TerminalInv, TerminalTypeOK, OneResult
  <2> QED
    BY <2>1, TerminalStep
<1> QED
  BY <1>1, <1>2, PTL DEF TerminalSpec

\* A customer who reads "declined" was charged for no attempt, however many
\* methods were tried before, and no token of theirs is queued.
THEOREM DeclinedCustomerNotCharged == TerminalSpec => []DeclinedIsNotCharged
<1>1. TerminalInv => DeclinedIsNotCharged
  BY DEF TerminalInv, DeclinedIsNotCharged
<1> QED
  BY <1>1, TerminalInvariant, PTL

\* The shell hears of at most one payment per sale, and of a captured one
\* only when the card was approved.
THEOREM OneResultPerSale == TerminalSpec => []OneResult
<1>1. TerminalInv => OneResult
  BY DEF TerminalInv
<1> QED
  BY <1>1, TerminalInvariant, PTL

\* A step of an attempt leaves it open, ends the sale, or throws for want of
\* a key.
LEMMA WaitingStep ==
    ASSUME TerminalInv, WaitingIsForSomething, TerminalNext
    PROVE  WaitingIsForSomething'
<1>0. /\ attempts \in Seq(Attempt) /\ Len(attempts) \in Nat
      /\ DOMAIN attempts = 1..Len(attempts) /\ TerminalTypeOK
      /\ results \in Seq([attempt : Nat, status : {"captured", "queued_offline"}])
  BY DEF TerminalInv, TerminalTypeOK, Attempt
<1>1. CASE handleSelectMethod
  <2> DEFINE x == [step |-> "asking", card |-> "waiting"]
  <2>1. x \in Attempt /\ x.step = "asking" /\ attempts' = Append(attempts, x)
    BY <1>1 DEF Attempt, Steps, handleSelectMethod
  <2> HIDE DEF x, Attempt
  <2>2. DOMAIN attempts' = 1..(Len(attempts) + 1) /\ attempts'[Len(attempts) + 1] = x
    BY <1>0, <2>1, AppendFacts
  <2>3. Len(attempts) + 1 \in DOMAIN attempts'
    BY <1>0, <2>2
  <2> QED
    BY <2>1, <2>2, <2>3 DEF WaitingIsForSomething
<1>2. CASE tryAnotherMethod
  BY <1>2 DEF tryAnotherMethod, WaitingIsForSomething
\* An attempt that moves on without an outcome.
<1>3. ASSUME NEW a \in DOMAIN attempts, NEW x \in Attempt, attempts' = [attempts EXCEPT ![a] = x],
             x.step \in {"asking", "importKey", "enqueue"} \/ (x.step = "threw" /\ ~EnvKey)
      PROVE  WaitingIsForSomething'
  <2>1. DOMAIN attempts' = DOMAIN attempts /\ attempts'[a] = x
    BY <1>0, <1>3, AttemptChange
  <2> QED
    BY <1>3, <2>1 DEF WaitingIsForSomething
<1>4. ASSUME NEW a \in DOMAIN attempts, terminalDecides(a)
      PROVE  WaitingIsForSomething'
  <2>1. PICK card \in {"approved", "declined"} :
           attempts' = [attempts EXCEPT ![a].card = card]
    BY <1>4 DEF terminalDecides
  <2> DEFINE x == [attempts[a] EXCEPT !.card = card]
  <2>2. attempts[a] \in Attempt /\ UNCHANGED <<phase, results>>
    BY <1>0, <1>4 DEF terminalDecides
  <2>3. x \in Attempt /\ x.step = attempts[a].step /\ attempts' = [attempts EXCEPT ![a] = x]
    BY <1>0, <2>1, <2>2 DEF Attempt
  <2> HIDE DEF x
  <2>4. /\ DOMAIN attempts' = DOMAIN attempts /\ attempts'[a] = x
        /\ \A b \in DOMAIN attempts : b # a => attempts'[b] = attempts[b]
    BY <1>0, <2>3, AttemptChange
  <2> QED
    BY <2>2, <2>3, <2>4 DEF WaitingIsForSomething
<1>5. ASSUME NEW a \in DOMAIN attempts, initiatePayment(a) \/ enqueueToken(a)
      PROVE  WaitingIsForSomething'
  <2>1. phase' = "declined" \/ \E r : results' = Append(results, r)
    BY <1>5 DEF initiatePayment, enqueueToken, Report
  <2>2. phase' = "declined" \/ results' # <<>>
    BY <1>0, <2>1
  <2> QED
    BY <2>2 DEF WaitingIsForSomething
<1>6. ASSUME NEW a \in DOMAIN attempts, bridgeError(a) \/ importDevSyncKey(a)
      PROVE  WaitingIsForSomething'
  <2>1. PICK step \in {"importKey", "enqueue", "threw"} :
           /\ attempts' = [attempts EXCEPT ![a].step = step]
           /\ step = "threw" => ~EnvKey
    BY <1>6 DEF bridgeError, importDevSyncKey, keyAvailable
  <2> DEFINE x == [attempts[a] EXCEPT !.step = step]
  <2>2. attempts[a] \in Attempt
    BY <1>0
  <2>3. x \in Attempt /\ x.step = step /\ attempts' = [attempts EXCEPT ![a] = x]
    BY <1>0, <2>1, <2>2 DEF Attempt, Steps
  <2> HIDE DEF x
  <2> QED
    BY <1>3, <2>1, <2>3
<1> QED
  BY <1>1, <1>2, <1>4, <1>5, <1>6 DEF TerminalNext, PaymentApp, AttemptStep, AnswerStep

\* A customer who is asked to wait waits for something: whatever the bridge
\* and the daemon answer, an attempt without an outcome is at work, unless a
\* build without a key has thrown.
THEOREM WaitingHasAnEnd == TerminalSpec => []WaitingIsForSomething
<1>1. TerminalInit => WaitingIsForSomething
  BY DEF TerminalInit, WaitingIsForSomething
<1>2. TerminalInv /\ WaitingIsForSomething /\ [TerminalNext]_terminalVars => WaitingIsForSomething'
  <2>1. CASE UNCHANGED terminalVars
    BY <2>1 DEF terminalVars, WaitingIsForSomething
  <2> QED
    BY <2>1, WaitingStep
<1> QED
  BY <1>1, <1>2, TerminalInvariant, PTL DEF TerminalSpec

-----------------------------------------------------------------------------
(* The self-updater *)

(***************************************************************************)
(* A check downloads only what it verified, pendingManifest and            *)
(* pendingBlob are written and cleared together, and applyWhenIdle copies  *)
(* the pair in one step: this is what keeps overlapping checks from mixing *)
(* the manifest of one with the bytes of another.                          *)
(***************************************************************************)
UpdaterInv ==
    /\ UpdaterTypeOK
    /\ \A c \in DOMAIN checks : checks[c].step = "download" => checks[c].manifest.signed
    /\ \/ pendingManifest = NoManifest /\ pendingBlob = NoBlob
       \/ /\ pendingManifest.signed /\ pendingBlob.intact
          /\ pendingBlob.version = pendingManifest.version
    /\ AppliedIsVerified

Blob == [version : Version, intact : BOOLEAN]

Check == [step : {"fetch", "verify", "download", "done"}, manifest : Manifest]

Apply == [step : {"applying", "applied", "failed"},
          previous : Version, manifest : Manifest, blob : Blob,
          timer : {"none", "armed", "probing", "fired", "cleared"},
          restored : BOOLEAN]

LEMMA UpdaterTypes ==
    ASSUME UpdaterTypeOK
    PROVE  /\ checks \in Seq(Check) /\ DOMAIN checks = 1..Len(checks) /\ Len(checks) \in Nat
           /\ applies \in Seq(Apply) /\ DOMAIN applies = 1..Len(applies)
           /\ Len(applies) \in Nat
           /\ pendingManifest \in Manifest /\ pendingBlob \in Blob /\ currentVersion \in Version
  BY DEF UpdaterTypeOK, Check, Apply, Blob

LEMMA NoUpdateType ==
    NoManifest \in Manifest /\ NoBlob \in Blob
  BY DEF NoManifest, NoBlob, Manifest, Blob, Version

\* Every step of a check rewrites its record.
LEMMA CheckChange ==
    ASSUME UpdaterInv, NEW c \in DOMAIN checks, NEW x \in Check,
           x.step = "download" => x.manifest.signed,
           checks' = [checks EXCEPT ![c] = x]
    PROVE  /\ checks' \in Seq(Check)
           /\ \A d \in DOMAIN checks' :
                 checks'[d].step = "download" => checks'[d].manifest.signed
<1>1. checks \in Seq(Check) /\ DOMAIN checks = 1..Len(checks)
  BY UpdaterTypes DEF UpdaterInv
<1>2. \A d \in DOMAIN checks : checks[d].step = "download" => checks[d].manifest.signed
  BY DEF UpdaterInv
<1> HIDE DEF Check
<1>3. /\ checks' \in Seq(Check) /\ DOMAIN checks' = 1..Len(checks) /\ checks'[c] = x
      /\ \A j \in 1..Len(checks) : j # c => checks'[j] = checks[j]
  BY <1>1, SeqExcept
<1> QED
  BY <1>1, <1>2, <1>3

\* Every step of an apply rewrites its record, and keeps what is installed.
LEMMA ApplyChange ==
    ASSUME UpdaterInv, NEW a \in DOMAIN applies, NEW x \in Apply,
           x.manifest = applies[a].manifest, x.blob = applies[a].blob,
           applies' = [applies EXCEPT ![a] = x]
    PROVE  applies' \in Seq(Apply) /\ Len(applies') = Len(applies) /\ AppliedIsVerified'
<1>1. applies \in Seq(Apply) /\ DOMAIN applies = 1..Len(applies)
  BY UpdaterTypes DEF UpdaterInv
<1> HIDE DEF Apply
<1>2. /\ applies' \in Seq(Apply) /\ DOMAIN applies' = 1..Len(applies) /\ applies'[a] = x
      /\ \A j \in 1..Len(applies) : j # a => applies'[j] = applies[j]
      /\ Len(applies') = Len(applies)
  BY <1>1, SeqExcept
<1> QED
  BY <1>1, <1>2 DEF UpdaterInv, AppliedIsVerified

LEMMA UpdaterStep ==
    ASSUME UpdaterInv, UpdaterNext
    PROVE  UpdaterInv'
<1>0. /\ UpdaterTypeOK
      /\ checks \in Seq(Check) /\ DOMAIN checks = 1..Len(checks) /\ Len(checks) \in Nat
      /\ applies \in Seq(Apply) /\ DOMAIN applies = 1..Len(applies)
      /\ Len(applies) \in Nat
      /\ pendingManifest \in Manifest /\ pendingBlob \in Blob /\ currentVersion \in Version
      /\ state \in UpdateState /\ polling \in BOOLEAN /\ rollbackTimer \in 0..Len(applies)
  BY UpdaterTypes DEF UpdaterInv, UpdaterTypeOK
\* What a check changes.
<1>1. ASSUME /\ checks' \in Seq(Check)
             /\ \A d \in DOMAIN checks' :
                   checks'[d].step = "download" => checks'[d].manifest.signed,
             state' \in UpdateState, polling' \in BOOLEAN,
             UNCHANGED <<pendingVars, rollbackTimer, applies>>
      PROVE  UpdaterInv'
  <2>1. UpdaterTypeOK'
    BY <1>0, <1>1 DEF UpdaterTypeOK, Check, Apply, Blob, pendingVars
  <2> QED
    BY <1>1, <2>1 DEF UpdaterInv, AppliedIsVerified, pendingVars
\* What an apply changes.
<1>2. ASSUME /\ applies' \in Seq(Apply) /\ Len(applies') = Len(applies) /\ AppliedIsVerified',
             state' \in UpdateState, polling' \in BOOLEAN,
             rollbackTimer' \in 0..Len(applies), UNCHANGED <<pendingVars, checks>>
      PROVE  UpdaterInv'
  <2>1. UpdaterTypeOK'
    BY <1>0, <1>2 DEF UpdaterTypeOK, Check, Apply, Blob, pendingVars
  <2> QED
    BY <1>2, <2>1 DEF UpdaterInv, pendingVars
<1>3. CASE start \/ check
  <2>1. /\ BeginCheck /\ polling' \in BOOLEAN
        /\ UNCHANGED <<pendingVars, rollbackTimer, applies>>
    BY <1>0, <1>3 DEF start, check
  <2>2. CASE UNCHANGED <<state, checks>>
    BY <1>0, <1>1, <2>1, <2>2 DEF UpdaterInv
  <2>3. CASE /\ state' = "checking"
             /\ checks' = Append(checks, [step |-> "fetch", manifest |-> NoManifest])
    <3> DEFINE x == [step |-> "fetch", manifest |-> NoManifest]
    <3>1. x \in Check /\ x.step = "fetch"
      BY NoUpdateType DEF Check
    <3> HIDE DEF x, Check
    <3>2. checks' = Append(checks, x)
      BY <2>3 DEF x
    <3>3. /\ checks' \in Seq(Check) /\ DOMAIN checks' = 1..(Len(checks) + 1)
          /\ checks'[Len(checks) + 1] = x
          /\ \A i \in 1..Len(checks) : checks'[i] = checks[i]
      BY <1>0, <3>1, <3>2, AppendFacts
    <3>4. \A d \in DOMAIN checks' :
             checks'[d].step = "download" => checks'[d].manifest.signed
      BY <1>0, <3>1, <3>3 DEF UpdaterInv
    <3> QED
      BY <1>1, <2>1, <2>3, <3>3, <3>4 DEF UpdateState
  <2> QED
    BY <2>1, <2>2, <2>3 DEF BeginCheck
<1>4. ASSUME NEW c \in DOMAIN checks, endCheck(c)
      PROVE  /\ checks' \in Seq(Check) /\ state' \in UpdateState
             /\ \A d \in DOMAIN checks' :
                   checks'[d].step = "download" => checks'[d].manifest.signed
  <2> DEFINE x == [checks[c] EXCEPT !.step = "done"]
  <2>1. checks[c] \in Check
    BY <1>0
  <2>2. x \in Check /\ x.step = "done" /\ checks' = [checks EXCEPT ![c] = x]
    BY <1>0, <1>4, <2>1 DEF endCheck, Check
  <2> HIDE DEF x
  <2> QED
    BY <1>4, <2>2, CheckChange DEF endCheck, UpdateState
<1>5. ASSUME NEW c \in DOMAIN checks, fetchManifest(c)
      PROVE  UpdaterInv'
  <2>1. PICK m \in Manifests :
           \/ endCheck(c)
           \/ /\ checks' = [checks EXCEPT ![c] = [step |-> "verify", manifest |-> m]]
              /\ UNCHANGED state
    BY <1>5 DEF fetchManifest
  <2>2. UNCHANGED <<pendingVars, polling, rollbackTimer, applies>>
    BY <1>5 DEF fetchManifest
  <2>3. CASE endCheck(c)
    BY <1>0, <1>1, <1>4, <2>2, <2>3
  <2>4. CASE /\ checks' = [checks EXCEPT ![c] = [step |-> "verify", manifest |-> m]]
             /\ UNCHANGED state
    <3> DEFINE x == [step |-> "verify", manifest |-> m]
    <3>1. x \in Check /\ x.step = "verify" /\ checks' = [checks EXCEPT ![c] = x]
      BY <2>4, UpdaterConstants DEF Check
    <3> HIDE DEF x
    <3>2. /\ checks' \in Seq(Check)
          /\ \A d \in DOMAIN checks' :
                checks'[d].step = "download" => checks'[d].manifest.signed
      BY <3>1, CheckChange
    <3> QED
      BY <1>0, <1>1, <2>2, <2>4, <3>2
  <2> QED
    BY <2>1, <2>3, <2>4
<1>6. ASSUME NEW c \in DOMAIN checks, verifyManifestSignature(c)
      PROVE  UpdaterInv'
  <2>1. UNCHANGED <<pendingVars, polling, rollbackTimer, applies>>
    BY <1>6 DEF verifyManifestSignature
  <2>2. CASE checks[c].manifest.signed
    <3> DEFINE x == [checks[c] EXCEPT !.step = "download"]
    <3>1. checks[c] \in Check
      BY <1>0
    <3>2. /\ x \in Check /\ x.manifest = checks[c].manifest
          /\ checks' = [checks EXCEPT ![c] = x] /\ state' = "downloading"
      BY <1>6, <2>2, <3>1 DEF verifyManifestSignature, Check
    <3> HIDE DEF x
    <3>3. /\ checks' \in Seq(Check)
          /\ \A d \in DOMAIN checks' :
                checks'[d].step = "download" => checks'[d].manifest.signed
      BY <2>2, <3>2, CheckChange
    <3> QED
      BY <1>0, <1>1, <2>1, <3>2, <3>3 DEF UpdateState
  <2>3. CASE ~checks[c].manifest.signed
    <3>1. endCheck(c)
      BY <1>6, <2>3 DEF verifyManifestSignature
    <3> QED
      BY <1>0, <1>1, <1>4, <2>1, <3>1
  <2> QED
    BY <2>2, <2>3
<1>7. ASSUME NEW c \in DOMAIN checks, requestFails(c)
      PROVE  UpdaterInv'
  BY <1>0, <1>1, <1>4, <1>7 DEF requestFails
<1>8. ASSUME NEW c \in DOMAIN checks, downloadAndVerifyArtifact(c)
      PROVE  UpdaterInv'
  <2>0. checks[c] \in Check /\ checks[c].step = "download"
        /\ UNCHANGED <<currentVersion, polling, rollbackTimer, applies>>
    BY <1>0, <1>8 DEF downloadAndVerifyArtifact
  <2>1. CASE endCheck(c) /\ UNCHANGED <<pendingManifest, pendingBlob>>
    BY <1>0, <1>1, <1>4, <2>0, <2>1 DEF pendingVars
  <2>2. CASE /\ pendingManifest' = checks[c].manifest
             /\ pendingBlob' = [version |-> checks[c].manifest.version, intact |-> TRUE]
             /\ state' = "pending"
             /\ checks' = [checks EXCEPT ![c].step = "done"]
    <3> DEFINE x == [checks[c] EXCEPT !.step = "done"]
    <3>1. /\ x \in Check /\ x.step = "done" /\ checks' = [checks EXCEPT ![c] = x]
          /\ checks[c].manifest \in Manifest
      BY <2>0, <2>2 DEF Check
    <3> HIDE DEF x
    <3>2. /\ checks' \in Seq(Check)
          /\ \A d \in DOMAIN checks' :
                checks'[d].step = "download" => checks'[d].manifest.signed
      BY <3>1, CheckChange
    <3>3. checks[c].manifest.signed /\ checks[c].manifest.version \in Version
      BY <2>0, <3>1 DEF UpdaterInv, Manifest
    <3>4. pendingBlob' \in Blob /\ pendingManifest' \in Manifest
      BY <2>2, <3>1, <3>3 DEF Blob
    <3>5. UpdaterTypeOK'
      BY <1>0, <2>0, <2>2, <3>2, <3>4 DEF UpdaterTypeOK, UpdateState, Check, Apply, Blob
    <3>6. AppliedIsVerified'
      BY <2>0 DEF UpdaterInv, AppliedIsVerified
    <3>7. /\ pendingManifest'.signed /\ pendingBlob'.intact
          /\ pendingBlob'.version = pendingManifest'.version
      BY <2>2, <3>3
    <3> QED
      BY <3>2, <3>5, <3>6, <3>7 DEF UpdaterInv
  <2> QED
    BY <1>8, <2>1, <2>2 DEF downloadAndVerifyArtifact
<1>9. CASE applyWhenIdle
  <2> DEFINE x == [step |-> "applying", previous |-> currentVersion,
                   manifest |-> pendingManifest, blob |-> pendingBlob,
                   timer |-> "none", restored |-> FALSE]
  <2>1. /\ x \in Apply /\ x.manifest = pendingManifest /\ x.blob = pendingBlob
        /\ applies' = Append(applies, x) /\ state' = "applying"
        /\ UNCHANGED <<pendingVars, polling, rollbackTimer, checks>>
    BY <1>0, <1>9 DEF applyWhenIdle, Apply
  <2>2. /\ pendingManifest.signed /\ pendingBlob.intact
        /\ pendingBlob.version = pendingManifest.version
    BY <1>9 DEF applyWhenIdle, UpdaterInv
  <2> HIDE DEF x, Apply
  <2>3. /\ applies' \in Seq(Apply) /\ DOMAIN applies' = 1..(Len(applies) + 1)
        /\ Len(applies') = Len(applies) + 1 /\ applies'[Len(applies) + 1] = x
        /\ \A i \in 1..Len(applies) : applies'[i] = applies[i]
    BY <1>0, <2>1, AppendFacts
  <2>4. AppliedIsVerified'
    BY <1>0, <2>1, <2>2, <2>3 DEF UpdaterInv, AppliedIsVerified
  <2>5. rollbackTimer' \in 0..Len(applies')
    BY <1>0, <2>1, <2>3
  <2>6. UpdaterTypeOK'
    BY <1>0, <2>1, <2>3, <2>5 DEF UpdaterTypeOK, UpdateState, Check, Apply, Blob, pendingVars
  <2> QED
    BY <2>1, <2>4, <2>6 DEF UpdaterInv, pendingVars
<1>10. ASSUME NEW a \in DOMAIN applies, applied(a)
       PROVE  UpdaterInv'
  <2> DEFINE x == [applies[a] EXCEPT !.step = "applied", !.timer = "armed"]
  <2>1. applies[a] \in Apply
    BY <1>0
  <2>2. /\ x \in Apply /\ x.manifest = applies[a].manifest /\ x.blob = applies[a].blob
        /\ applies' = [applies EXCEPT ![a] = x] /\ rollbackTimer' = a
        /\ applies[a].manifest \in Manifest
    BY <1>10, <2>1 DEF applied, scheduleRollbackCheck, Apply
  <2> HIDE DEF x
  <2>3. applies' \in Seq(Apply) /\ Len(applies') = Len(applies) /\ AppliedIsVerified'
    BY <2>2, ApplyChange
  <2>4. /\ currentVersion' \in Version /\ pendingManifest' = NoManifest
        /\ pendingBlob' = NoBlob /\ state' = "healthy" /\ UNCHANGED <<polling, checks>>
    BY <1>10, <2>2 DEF applied, Manifest
  <2>5. UpdaterTypeOK'
    BY <1>0, <2>2, <2>3, <2>4, NoUpdateType
       DEF UpdaterTypeOK, UpdateState, Check, Apply, Blob
  <2> QED
    BY <2>3, <2>4, <2>5 DEF UpdaterInv
<1>11. ASSUME NEW a \in DOMAIN applies,
              applyRejected(a) \/ rollbackTimerFires(a) \/ healthCheck(a)
       PROVE  UpdaterInv'
  <2>1. applies[a] \in Apply
    BY <1>0
  <2>2. /\ state' \in UpdateState
        /\ UNCHANGED <<pendingVars, polling, rollbackTimer, checks>>
    BY <1>0, <1>11 DEF applyRejected, rollbackTimerFires, healthCheck, UpdateState
  <2>3. \E x \in Apply :
           /\ x.manifest = applies[a].manifest /\ x.blob = applies[a].blob
           /\ applies' = [applies EXCEPT ![a] = x]
    <3>1. CASE applyRejected(a)
      <4> DEFINE x == [applies[a] EXCEPT !.step = "failed", !.restored = TRUE]
      <4>1. x \in Apply /\ x.manifest = applies[a].manifest /\ x.blob = applies[a].blob
        BY <2>1 DEF Apply
      <4>2. applies' = [applies EXCEPT ![a] = x]
        BY <3>1 DEF applyRejected
      <4> HIDE DEF x
      <4> QED
        BY <4>1, <4>2
    <3>2. CASE rollbackTimerFires(a)
      <4> DEFINE x == [applies[a] EXCEPT !.timer = IF HasHealthCheck THEN "probing" ELSE "fired"]
      <4>1. x \in Apply /\ x.manifest = applies[a].manifest /\ x.blob = applies[a].blob
        BY <2>1 DEF Apply
      <4>2. applies' = [applies EXCEPT ![a] = x]
        BY <3>2 DEF rollbackTimerFires
      <4> HIDE DEF x
      <4> QED
        BY <4>1, <4>2
    <3>3. CASE healthCheck(a)
      <4>0. PICK healthy \in BOOLEAN :
               applies' = [applies EXCEPT ![a].timer = "fired", ![a].restored = ~healthy]
        BY <3>3 DEF healthCheck
      <4> DEFINE x == [applies[a] EXCEPT !.timer = "fired", !.restored = ~healthy]
      <4>1. x \in Apply /\ x.manifest = applies[a].manifest /\ x.blob = applies[a].blob
        BY <2>1 DEF Apply
      <4>2. applies' = [applies EXCEPT ![a] = x]
        BY <4>0
      <4> HIDE DEF x
      <4> QED
        BY <4>1, <4>2
    <3> QED
      BY <1>11, <3>1, <3>2, <3>3
  <2>5. applies' \in Seq(Apply) /\ Len(applies') = Len(applies) /\ AppliedIsVerified'
    BY <2>3, ApplyChange
  <2> QED
    BY <1>0, <1>2, <2>2, <2>5
<1>13. ASSUME NEW a \in DOMAIN applies, appliedWithoutRollout(a)
       PROVE  UpdaterInv'
  <2> DEFINE x == [applies[a] EXCEPT !.step = "failed", !.restored = TRUE]
  <2>1. applies[a] \in Apply
    BY <1>0
  <2>2. /\ x \in Apply /\ x.manifest = applies[a].manifest /\ x.blob = applies[a].blob
        /\ applies' = [applies EXCEPT ![a] = x] /\ applies[a].manifest \in Manifest
    BY <1>13, <2>1 DEF appliedWithoutRollout, Apply
  <2> HIDE DEF x
  <2>3. applies' \in Seq(Apply) /\ Len(applies') = Len(applies) /\ AppliedIsVerified'
    BY <2>2, ApplyChange
  <2>4. /\ currentVersion' \in Version /\ state' = "rolled_back"
        /\ UNCHANGED <<pendingManifest, pendingBlob, polling, rollbackTimer, checks>>
    BY <1>13, <2>2 DEF appliedWithoutRollout, Manifest
  <2>5. UpdaterTypeOK'
    BY <1>0, <2>3, <2>4 DEF UpdaterTypeOK, UpdateState, Check, Apply, Blob
  <2> QED
    BY <2>3, <2>4, <2>5 DEF UpdaterInv
<1>12. CASE stop
  <2>1. /\ polling' = FALSE /\ rollbackTimer' = 0 /\ UNCHANGED <<state, pendingVars, checks>>
    BY <1>12 DEF stop
  <2>2. DOMAIN applies' = 1..Len(applies)
    BY <1>0, <1>12 DEF stop
  <2>3. ASSUME NEW a \in 1..Len(applies)
        PROVE  /\ applies'[a] \in Apply /\ applies'[a].manifest = applies[a].manifest
               /\ applies'[a].blob = applies[a].blob
    <3>1. applies[a] \in Apply
      BY <1>0
    <3>2. applies'[a] = applies[a] \/ applies'[a] = [applies[a] EXCEPT !.timer = "cleared"]
      BY <1>0, <1>12 DEF stop
    <3> QED
      BY <3>1, <3>2 DEF Apply
  <2>4. applies' = [a \in 1..Len(applies) |-> applies'[a]]
    BY <1>0, <1>12 DEF stop
  <2> HIDE DEF Apply
  <2>5. applies' \in Seq(Apply) /\ Len(applies') = Len(applies)
    BY <1>0, <2>2, <2>3, <2>4
  <2>6. AppliedIsVerified'
    BY <1>0, <2>2, <2>3 DEF UpdaterInv, AppliedIsVerified
  <2>7. rollbackTimer' \in 0..Len(applies)
    BY <1>0, <2>1
  <2>8. state' \in UpdateState /\ polling' \in BOOLEAN
    BY <1>0, <2>1, Zenon
  <2> QED
    BY <1>2, <2>1, <2>5, <2>6, <2>7, <2>8
<1> QED
  BY <1>3, <1>5, <1>6, <1>7, <1>8, <1>9, <1>10, <1>11, <1>12, <1>13
     DEF UpdaterNext, CheckStep, ApplyStep

\* The updater keeps its invariant under any overlap of its calls.
THEOREM UpdaterInvariant == UpdaterSpec => []UpdaterInv
<1>1. UpdaterInit => UpdaterInv
  <2> SUFFICES ASSUME UpdaterInit PROVE UpdaterInv
    OBVIOUS
  <2>1. /\ checks = <<>> /\ applies = <<>> /\ rollbackTimer = 0 /\ polling = FALSE
        /\ pendingManifest = NoManifest /\ pendingBlob = NoBlob
        /\ currentVersion = FirstVersion /\ state = "idle"
    BY DEF UpdaterInit
  <2>2. checks \in Seq(Check) /\ applies \in Seq(Apply) /\ rollbackTimer \in 0..Len(applies)
    BY <2>1
  <2>3. /\ state \in UpdateState /\ currentVersion \in Version /\ pendingManifest \in Manifest
        /\ pendingBlob \in Blob /\ polling \in BOOLEAN
    BY <2>1, UpdaterConstants, NoUpdateType DEF UpdateState
  <2>4. UpdaterTypeOK
    BY <2>2, <2>3 DEF UpdaterTypeOK, Check, Apply, Blob
  <2> QED
    BY <2>1, <2>4 DEF UpdaterInv, AppliedIsVerified
<1>2. UpdaterInv /\ [UpdaterNext]_updaterVars => UpdaterInv'
  <2>1. CASE UNCHANGED updaterVars
    BY <2>1 DEF updaterVars, UpdaterInv, UpdaterTypeOK, AppliedIsVerified
  <2> QED
    BY <2>1, UpdaterStep
<1> QED
  BY <1>1, <1>2, PTL DEF UpdaterSpec

\* What reaches onApply was signed, undamaged and of one and the same
\* version, for any number of overlapping checks and installs.
THEOREM InstalledUpdatesAreVerified == UpdaterSpec => []AppliedIsVerified
<1>1. UpdaterInv => AppliedIsVerified
  BY DEF UpdaterInv
<1> QED
  BY <1>1, UpdaterInvariant, PTL

-----------------------------------------------------------------------------
(* The remote modules *)

RemoteState ==
    [object : Nat, baseUrl : Nat, fallbackUrl : Nat, version : Nat,
     status : {"mounting", "mounted", "failed", "rolled_back"}]

Swap ==
    [todo : SUBSET Remotes, name : Remotes, step : {"next", "preflight", "mounting"},
     object : Nat, oldVersion : Nat, oldFallback : Nat]

(***************************************************************************)
(* A swap that waits for its mount holds the fallback it would restore, a  *)
(* URL of the past: it must be one that was healthy or registered, though  *)
(* the remote may have been swapped, rolled back or registered since.      *)
(***************************************************************************)
RemotesInv ==
    /\ remote \in [Remotes -> RemoteState]
    /\ swaps \in Seq(Swap)
    /\ \A k \in DOMAIN swaps :
          swaps[k].step = "mounting" => swaps[k].oldFallback \in answered \union defined
    /\ UrlWasHealthy

\* A step that changes the record of one swap.
LEMMA SwapChange ==
    ASSUME RemotesInv, NEW k \in DOMAIN swaps, NEW x \in Swap,
           swaps' = [swaps EXCEPT ![k] = x],
           answered \subseteq answered', defined \subseteq defined',
           x.step = "mounting" => x.oldFallback \in answered' \union defined'
    PROVE  /\ swaps' \in Seq(Swap)
           /\ \A j \in DOMAIN swaps' : swaps'[j].step = "mounting" =>
                 swaps'[j].oldFallback \in answered' \union defined'
<1>1. swaps \in Seq(Swap)
  BY DEF RemotesInv
<1> HIDE DEF Swap
<1>2. /\ swaps' \in Seq(Swap) /\ DOMAIN swaps' = 1..Len(swaps) /\ DOMAIN swaps = 1..Len(swaps)
      /\ swaps'[k] = x /\ \A j \in 1..Len(swaps) : j # k => swaps'[j] = swaps[j]
  BY <1>1, SeqExcept
<1> QED
  BY <1>2 DEF RemotesInv

\* A write of a swap, which may come too late to reach the map.
LEMMA WriteHealthy ==
    ASSUME RemotesInv, NEW k \in DOMAIN swaps, NEW r \in Remotes, NEW new \in RemoteState,
           Write(k, r, new), answered \subseteq answered', UNCHANGED defined,
           {new.baseUrl, new.fallbackUrl} \subseteq answered' \union defined
    PROVE  remote' \in [Remotes -> RemoteState] /\ UrlWasHealthy'
<1>1. remote \in [Remotes -> RemoteState]
  BY DEF RemotesInv
<1> HIDE DEF RemoteState
<1>2. remote' = remote \/ remote' = [remote EXCEPT ![r] = new]
  BY DEF Write
<1>3. CASE remote' = remote
  BY <1>1, <1>3 DEF RemotesInv, UrlWasHealthy
<1>4. CASE remote' = [remote EXCEPT ![r] = new]
  BY <1>1, <1>4 DEF RemotesInv, UrlWasHealthy
<1> QED
  BY <1>2, <1>3, <1>4

LEMMA FinishedSwap ==
    ASSUME NEW s \in Swap
    PROVE  Finished(s) \in Swap /\ Finished(s).step = "next"
  BY DEF Finished, Swap

LEMMA RemotesStep ==
    ASSUME RemotesInv, RemotesNext
    PROVE  RemotesInv'
<1>0. /\ remote \in [Remotes -> RemoteState] /\ swaps \in Seq(Swap)
      /\ Len(swaps) \in Nat /\ DOMAIN swaps = 1..Len(swaps)
  BY DEF RemotesInv
<1>1. ASSUME NEW r \in Remotes, register(r)
      PROVE  RemotesInv'
  <2> DEFINE o == remote[r].object + 1
             new == Definition(o)
  <2>0. remote[r] \in RemoteState
    BY <1>0
  <2>1. o \in Nat
    BY <2>0 DEF RemoteState
  <2>2. /\ remote' = [remote EXCEPT ![r] = new] /\ UNCHANGED <<swaps, answered>>
        /\ defined' = defined \union {RegisteredUrl(o), RegisteredFallback(o)}
    BY <1>1 DEF register
  <2> HIDE DEF o
  <2>3. /\ new \in RemoteState
        /\ new.baseUrl = RegisteredUrl(o) /\ new.fallbackUrl = RegisteredFallback(o)
    BY <2>1 DEF Definition, RemoteState, RegisteredUrl, RegisteredFallback
  <2> HIDE DEF new, RemoteState
  <2>4. remote' \in [Remotes -> RemoteState]
    BY <1>0, <2>2, <2>3
  <2>5. UrlWasHealthy'
    BY <1>0, <2>2, <2>3 DEF RemotesInv, UrlWasHealthy
  <2> QED
    BY <1>0, <2>2, <2>4, <2>5 DEF RemotesInv
<1>2. CASE applyManifest
  <2>1. PICK names \in (SUBSET Remotes) \ {{}} :
           swaps' = Append(swaps, [todo |-> names, name |-> CHOOSE r \in names : TRUE,
                                   step |-> "next", object |-> 0,
                                   oldVersion |-> 0, oldFallback |-> 0])
    BY <1>2 DEF applyManifest
  <2> DEFINE n == CHOOSE r \in names : TRUE
             x == [todo |-> names, name |-> n, step |-> "next", object |-> 0,
                   oldVersion |-> 0, oldFallback |-> 0]
  <2>2. n \in Remotes
    <3>1. names # {} /\ names \subseteq Remotes
      OBVIOUS
    <3>2. \E r : r \in names
      BY <3>1
    <3>3. n \in names
      BY <3>2
    <3> QED
      BY <3>1, <3>3
  <2>3. swaps' = Append(swaps, x)
    BY <2>1
  <2> HIDE DEF n
  <2>4. x \in Swap /\ x.step = "next"
    BY <2>2 DEF Swap
  <2> HIDE DEF x, Swap
  <2>5. /\ swaps' \in Seq(Swap) /\ DOMAIN swaps' = 1..(Len(swaps) + 1)
        /\ swaps'[Len(swaps) + 1] = x /\ \A i \in 1..Len(swaps) : swaps'[i] = swaps[i]
    BY <1>0, <2>3, <2>4, AppendFacts
  <2>6. UNCHANGED <<remote, answered, defined>>
    BY <1>2 DEF applyManifest
  <2> QED
    BY <1>0, <2>4, <2>5, <2>6 DEF RemotesInv, UrlWasHealthy
<1>3. ASSUME NEW k \in DOMAIN swaps, swapVersion(k)
      PROVE  RemotesInv'
  <2>0. swaps[k] \in Swap
    BY <1>0
  <2>1. PICK r \in swaps[k].todo :
          LET s == [swaps[k] EXCEPT !.name = r]
          IN  swaps' = [swaps EXCEPT ![k] =
                 IF remote[r].version = ManifestVersion(k)
                 THEN Finished(s)
                 ELSE [s EXCEPT !.step = "preflight", !.object = remote[r].object,
                                !.oldVersion = remote[r].version]]
    BY <1>3 DEF swapVersion
  <2> DEFINE s == [swaps[k] EXCEPT !.name = r]
             t == [s EXCEPT !.step = "preflight", !.object = remote[r].object,
                            !.oldVersion = remote[r].version]
  <2>2. r \in Remotes
    BY <2>0 DEF Swap
  <2>3. s \in Swap
    BY <2>0, <2>2 DEF Swap
  <2>4. remote[r] \in RemoteState
    BY <1>0, <2>2
  <2>5. remote[r].object \in Nat /\ remote[r].version \in Nat
    BY <2>4 DEF RemoteState
  <2> HIDE DEF s
  <2>6. t \in Swap /\ t.step = "preflight"
    BY <2>3, <2>5 DEF Swap
  <2>7. Finished(s) \in Swap /\ Finished(s).step = "next"
    BY <2>3, FinishedSwap
  <2> HIDE DEF t
  <2>8. \E x \in Swap : x.step # "mounting" /\ swaps' = [swaps EXCEPT ![k] = x]
    BY <2>1, <2>6, <2>7 DEF s, t
  <2>9. UNCHANGED <<remote, answered, defined>>
    BY <1>3 DEF swapVersion
  <2> QED
    BY <1>0, <2>8, <2>9, SwapChange DEF RemotesInv, UrlWasHealthy
<1>4. ASSUME NEW k \in DOMAIN swaps, preflight(k)
      PROVE  RemotesInv'
  <2> DEFINE r == swaps[k].name
             now == remote[r]
  <2>1. swaps[k] \in Swap
    BY <1>0
  <2>2. r \in Remotes
    BY <2>1 DEF Swap
  <2>3. now \in RemoteState
    BY <1>0, <2>2
  <2>4. {now.baseUrl, now.fallbackUrl} \subseteq answered \union defined
    BY <2>2 DEF RemotesInv, UrlWasHealthy
  <2>5. UNCHANGED defined /\ answered \subseteq answered'
    BY <1>4 DEF preflight
  <2>6. ManifestVersion(k) \in Nat
    BY <1>0 DEF ManifestVersion
  <2>7. CASE /\ answered' = answered \union {ManifestVersion(k)}
             /\ Write(k, r, [now EXCEPT !.fallbackUrl = now.baseUrl,
                                        !.baseUrl = ManifestVersion(k),
                                        !.version = ManifestVersion(k)])
             /\ swaps' = [swaps EXCEPT ![k].step = "mounting",
                                       ![k].oldFallback = now.fallbackUrl]
    <3> DEFINE new == [now EXCEPT !.fallbackUrl = now.baseUrl,
                                  !.baseUrl = ManifestVersion(k),
                                  !.version = ManifestVersion(k)]
               x == [swaps[k] EXCEPT !.step = "mounting", !.oldFallback = now.fallbackUrl]
    <3>1. new \in RemoteState /\ new.baseUrl = ManifestVersion(k)
          /\ new.fallbackUrl = now.baseUrl /\ now.fallbackUrl \in Nat
      BY <2>3, <2>6 DEF RemoteState
    <3>2. swaps' = [swaps EXCEPT ![k] = x] /\ Write(k, r, new)
      BY <2>7
    <3> HIDE DEF new
    <3>3. x \in Swap /\ x.oldFallback = now.fallbackUrl
      BY <2>1, <3>1 DEF Swap
    <3> HIDE DEF x, now, r
    <3>4. remote' \in [Remotes -> RemoteState] /\ UrlWasHealthy'
      BY <2>2, <2>4, <2>5, <2>7, <3>1, <3>2, WriteHealthy
    <3>5. /\ swaps' \in Seq(Swap)
          /\ \A j \in DOMAIN swaps' : swaps'[j].step = "mounting" =>
                swaps'[j].oldFallback \in answered' \union defined'
      BY <2>4, <2>5, <3>2, <3>3, SwapChange
    <3> QED
      BY <3>4, <3>5 DEF RemotesInv
  <2>8. CASE /\ answered' = answered
             /\ Write(k, r, [now EXCEPT !.status = "failed"])
             /\ swaps' = [swaps EXCEPT ![k] = Finished(@)]
    <3> DEFINE new == [now EXCEPT !.status = "failed"]
               x == Finished(swaps[k])
    <3>1. new \in RemoteState /\ new.baseUrl = now.baseUrl
          /\ new.fallbackUrl = now.fallbackUrl
      BY <2>3 DEF RemoteState
    <3>2. swaps' = [swaps EXCEPT ![k] = x] /\ Write(k, r, new)
      BY <2>8
    <3>3. x \in Swap /\ x.step = "next"
      BY <2>1, FinishedSwap
    <3> HIDE DEF new, x, now, r
    <3>4. remote' \in [Remotes -> RemoteState] /\ UrlWasHealthy'
      BY <2>2, <2>4, <2>5, <2>8, <3>1, <3>2, WriteHealthy
    <3>5. /\ swaps' \in Seq(Swap)
          /\ \A j \in DOMAIN swaps' : swaps'[j].step = "mounting" =>
                swaps'[j].oldFallback \in answered' \union defined'
      BY <2>4, <2>5, <3>2, <3>3, SwapChange
    <3> QED
      BY <3>4, <3>5 DEF RemotesInv
  <2> QED
    BY <1>4, <2>7, <2>8 DEF preflight, checkRemoteHealth
<1>5. ASSUME NEW k \in DOMAIN swaps, tryMount(k)
      PROVE  RemotesInv'
  <2> DEFINE r == swaps[k].name
             now == remote[r]
             x == Finished(swaps[k])
  <2>1. swaps[k] \in Swap /\ swaps[k].step = "mounting" /\ UNCHANGED <<answered, defined>>
    BY <1>0, <1>5 DEF tryMount
  <2>2. /\ r \in Remotes /\ swaps[k].oldFallback \in Nat /\ swaps[k].oldVersion \in Nat
    BY <2>1 DEF Swap
  <2>3. now \in RemoteState
    BY <1>0, <2>2
  <2>4. /\ {now.baseUrl, now.fallbackUrl} \subseteq answered \union defined
        /\ swaps[k].oldFallback \in answered \union defined
    BY <2>1, <2>2 DEF RemotesInv, UrlWasHealthy
  <2>5. x \in Swap /\ x.step = "next" /\ swaps' = [swaps EXCEPT ![k] = x]
    BY <1>5, <2>1, FinishedSwap DEF tryMount
  <2>6. \E new \in RemoteState :
           /\ Write(k, r, new)
           /\ {new.baseUrl, new.fallbackUrl} \subseteq answered \union defined
    <3> DEFINE up == [now EXCEPT !.status = "mounted"]
               back == [now EXCEPT !.baseUrl = now.fallbackUrl,
                                   !.fallbackUrl = swaps[k].oldFallback,
                                   !.version = swaps[k].oldVersion,
                                   !.status = "rolled_back"]
    <3>1. Write(k, r, up) \/ Write(k, r, back)
      BY <1>5 DEF tryMount
    <3>2. up \in RemoteState /\ up.baseUrl = now.baseUrl /\ up.fallbackUrl = now.fallbackUrl
      BY <2>3 DEF RemoteState
    <3>3. back \in RemoteState /\ back.baseUrl = now.fallbackUrl
          /\ back.fallbackUrl = swaps[k].oldFallback
      BY <2>2, <2>3 DEF RemoteState
    <3> HIDE DEF up, back, now, r
    <3> QED
      BY <2>4, <3>1, <3>2, <3>3
  <2> HIDE DEF x, now, r
  <2>7. remote' \in [Remotes -> RemoteState] /\ UrlWasHealthy'
    BY <2>1, <2>2, <2>6, WriteHealthy
  <2>8. /\ swaps' \in Seq(Swap)
        /\ \A j \in DOMAIN swaps' : swaps'[j].step = "mounting" =>
              swaps'[j].oldFallback \in answered' \union defined'
    BY <2>1, <2>5, SwapChange
  <2> QED
    BY <2>7, <2>8 DEF RemotesInv
<1>6. CASE rollbackAll
  <2>1. UNCHANGED <<swaps, answered, defined>>
    BY <1>6 DEF rollbackAll
  <2>2. ASSUME NEW r \in Remotes
        PROVE  /\ remote'[r] \in RemoteState
               /\ remote'[r].baseUrl \in {remote[r].baseUrl, remote[r].fallbackUrl}
               /\ remote'[r].fallbackUrl = remote[r].fallbackUrl
    <3>1. remote[r] \in RemoteState
      BY <1>0
    <3>2. remote'[r] \in {remote[r], [remote[r] EXCEPT !.baseUrl = remote[r].fallbackUrl,
                                                       !.status = "rolled_back"]}
      BY <1>6 DEF rollbackAll
    <3> QED
      BY <3>1, <3>2 DEF RemoteState
  <2>3. remote' = [r \in Remotes |-> remote'[r]]
    BY <1>6 DEF rollbackAll
  <2> HIDE DEF RemoteState
  <2>4. remote' \in [Remotes -> RemoteState]
    BY <2>2, <2>3
  <2>5. UrlWasHealthy'
    BY <2>1, <2>2 DEF RemotesInv, UrlWasHealthy
  <2> QED
    BY <1>0, <2>1, <2>4, <2>5 DEF RemotesInv
<1> QED
  BY <1>1, <1>2, <1>3, <1>4, <1>5, <1>6 DEF RemotesNext

\* The manager keeps its invariant under any overlap of swaps, rollbacks and
\* registrations.
THEOREM RemotesInvariant == RemotesSpec => []RemotesInv
<1>1. RemotesInit => RemotesInv
  <2> SUFFICES ASSUME RemotesInit PROVE RemotesInv
    OBVIOUS
  <2>1. /\ Definition(1) \in RemoteState
        /\ Definition(1).baseUrl = RegisteredUrl(1)
        /\ Definition(1).fallbackUrl = RegisteredFallback(1)
    BY DEF Definition, RemoteState, RegisteredUrl, RegisteredFallback
  <2>2. /\ remote = [r \in Remotes |-> Definition(1)] /\ swaps = <<>>
        /\ defined = {RegisteredUrl(1), RegisteredFallback(1)}
    BY DEF RemotesInit
  <2> HIDE DEF RemoteState, Definition
  <2>3. remote \in [Remotes -> RemoteState] /\ UrlWasHealthy
    BY <2>1, <2>2 DEF UrlWasHealthy
  <2> QED
    BY <2>2, <2>3 DEF RemotesInv
<1>2. RemotesInv /\ [RemotesNext]_remoteVars => RemotesInv'
  <2>1. CASE UNCHANGED remoteVars
    BY <2>1 DEF remoteVars, RemotesInv, UrlWasHealthy
  <2> QED
    BY <2>1, RemotesStep
<1> QED
  BY <1>1, <1>2, PTL DEF RemotesSpec

\* A remote is loaded, and would be rolled back to, only URLs that answered a
\* health check or were registered, for any number of remotes and manifests.
THEOREM RemoteUrlsWereHealthy == RemotesSpec => []UrlWasHealthy
<1>1. RemotesInv => UrlWasHealthy
  BY DEF RemotesInv
<1> QED
  BY <1>1, RemotesInvariant, PTL

-----------------------------------------------------------------------------
(* The menu *)

(***************************************************************************)
(* The timer of loadMoreItems holds a page number and a list of an earlier *)
(* render.  They are still the current ones when it fires, because nothing *)
(* that changes either is possible while isLoading is set, except a new    *)
(* visit, which drops the timer.                                           *)
(***************************************************************************)
MenuInv ==
    /\ page \in Nat \ {0}
    /\ isLoading \in BOOLEAN /\ fetching \in BOOLEAN
    /\ allItems \in {<<>>, MenuItems}
    /\ activeCategory \in Categories \union {"all"}
    /\ fetching => page = 1 /\ isLoading /\ timer = NoTimer
    /\ timer # NoTimer =>
          /\ isLoading
          /\ timer = [page |-> page, items |-> filteredMenuItems(allItems, activeCategory)]
    /\ DisplayedIsPrefix

\* The beginning of a list, as a function on its positions.
LEMMA FirstOfIs ==
    ASSUME NEW S, NEW s \in Seq(S), NEW n \in Nat,
           NEW m, m = IF n < Len(s) THEN n ELSE Len(s)
    PROVE  /\ m \in Nat /\ FirstOf(s, n) \in Seq(S) /\ Len(FirstOf(s, n)) = m
           /\ FirstOf(s, n) = [i \in 1..m |-> s[i]]
<1>1. m \in Nat /\ m <= Len(s) /\ FirstOf(s, n) = SubSeq(s, 1, m)
  BY DEF FirstOf
<1>2. /\ SubSeq(s, 1, m) \in Seq(S) /\ Len(SubSeq(s, 1, m)) = m
      /\ \A i \in 1..m : SubSeq(s, 1, m)[i] = s[i]
  BY <1>1
<1>3. SubSeq(s, 1, m) = [i \in 1..m |-> s[i]]
  BY <1>1, <1>2
<1> QED
  BY <1>1, <1>2, <1>3

\* A page continues the list where the pages before it ended, also when they
\* reached its end already.
LEMMA PageContinues ==
    ASSUME NEW S, NEW s \in Seq(S), NEW k \in Nat, NEW n \in Nat, k <= n
    PROVE  FirstOf(s, k) \o SubSeq(FirstOf(s, n), k + 1, Len(FirstOf(s, n)))
              = FirstOf(s, n)
<1> DEFINE a == FirstOf(s, k)
           f == FirstOf(s, n)
           i0 == IF k < Len(s) THEN k ELSE Len(s)
           m == IF n < Len(s) THEN n ELSE Len(s)
           b == SubSeq(f, k + 1, m)
<1>1. /\ i0 \in Nat /\ a \in Seq(S) /\ Len(a) = i0 /\ a = [i \in 1..i0 |-> s[i]]
      /\ m \in Nat /\ f \in Seq(S) /\ Len(f) = m /\ f = [i \in 1..m |-> s[i]]
  <2> HIDE DEF a, f
  <2> QED  BY FirstOfIs DEF a, f
<1>2. /\ i0 <= m /\ (k < Len(s) => i0 = k) /\ (~(k < Len(s)) => i0 = m)
      /\ k + 1 \in Nat /\ Len(s) \in Nat /\ m <= Len(s)
  OBVIOUS
<1> HIDE DEF a, f, i0, m
<1>3. b \in Seq(S) /\ Len(b) = m - i0
      /\ \A i \in 1..(m - i0) : b[i] = s[i0 + i]
  <2>1. CASE k + 1 <= m
    <3>1. k < Len(s) /\ i0 = k
      BY <1>1, <1>2, <2>1
    <3>2. b \in Seq(S) /\ Len(b) = m - k /\ \A i \in 1..(m - k) : b[i] = f[k + i]
      BY <1>1, <1>2, <2>1
    <3> QED
      BY <1>1, <1>2, <3>1, <3>2
  <2>2. CASE ~(k + 1 <= m)
    <3>1. m = i0
      BY <1>1, <1>2, <2>2
    <3>2. b = <<>>
      BY <1>1, <1>2, <2>2
    <3> HIDE DEF b
    <3>3. b \in Seq(S) /\ Len(b) = 0
      BY <3>2
    <3>4. m - i0 = 0
      BY <1>1, <3>1
    <3> QED
      BY <3>3, <3>4
  <2> QED
    BY <2>1, <2>2
<1> HIDE DEF b
<1>4. /\ a \o b \in Seq(S) /\ Len(a \o b) = m
      /\ \A i \in 1..m : (a \o b)[i] = s[i]
  <2>1. a \o b \in Seq(S) /\ Len(a \o b) = Len(a) + Len(b)
    BY <1>1, <1>3
  <2>2. ASSUME NEW i \in 1..m PROVE (a \o b)[i] = s[i]
    <3>1. CASE i <= i0
      <4>1. (a \o b)[i] = a[i] /\ i \in 1..i0
        BY <1>1, <1>2, <1>3, <3>1
      <4> QED
        BY <1>1, <4>1
    <3>2. CASE ~(i <= i0)
      <4>1. (a \o b)[i] = b[i - i0] /\ i - i0 \in 1..(m - i0) /\ i0 + (i - i0) = i
        BY <1>1, <1>2, <1>3, <3>2
      <4> QED
        BY <1>3, <4>1
    <3> QED
      BY <3>1, <3>2
  <2> QED
    BY <1>1, <1>2, <1>3, <2>1, <2>2
<1>5. a \o b = [i \in 1..m |-> s[i]]
  <2> DEFINE t == a \o b
  <2>1. t \in Seq(S) /\ Len(t) = m /\ \A i \in 1..m : t[i] = s[i]
    BY <1>4
  <2> HIDE DEF t
  <2>2. t = [i \in 1..m |-> t[i]]
    BY <2>1
  <2>3. t = [i \in 1..m |-> s[i]]
    BY <2>1, <2>2
  <2> QED
    BY <2>3 DEF t
<1> QED
  BY <1>1, <1>5 DEF a, b, f

\* The pages before page p, followed by page p.
LEMMA NextPage ==
    ASSUME NEW S, NEW s \in Seq(S), NEW p \in Nat \ {0}
    PROVE  /\ (p - 1) * ITEMS_PER_PAGE \in Nat /\ p * ITEMS_PER_PAGE \in Nat
           /\ FirstOf(s, (p - 1) * ITEMS_PER_PAGE) \o Slice(p, s)
                 = FirstOf(s, p * ITEMS_PER_PAGE)
           /\ p = 1 => Slice(p, s) = FirstOf(s, p * ITEMS_PER_PAGE)
<1> DEFINE k == (p - 1) * ITEMS_PER_PAGE
           n == p * ITEMS_PER_PAGE
<1>1. ITEMS_PER_PAGE \in Nat
  BY MenuConstants
<1>2. k \in Nat /\ n \in Nat /\ k <= n /\ (p = 1 => k = 0)
  <2>1. n = k + ITEMS_PER_PAGE /\ (p = 1 => k = 0)
    BY <1>1
  <2>2. k \in Nat
    BY <1>1
  <2> QED
    BY <1>1, <2>1, <2>2
<1>3. Slice(p, s) = SubSeq(FirstOf(s, n), k + 1, Len(FirstOf(s, n)))
  BY DEF Slice
<1> HIDE DEF k, n
<1>4. FirstOf(s, k) \o Slice(p, s) = FirstOf(s, n)
  BY <1>2, <1>3, PageContinues
<1>5. p = 1 => Slice(p, s) = FirstOf(s, n)
  <2> SUFFICES ASSUME k = 0 PROVE SubSeq(FirstOf(s, n), k + 1, Len(FirstOf(s, n))) = FirstOf(s, n)
    BY <1>2, <1>3
  <2>1. FirstOf(s, n) \in Seq(S)
    BY <1>2, FirstOfIs
  <2> HIDE DEF FirstOf
  <2>2. Len(FirstOf(s, n)) \in Nat /\ SubSeq(FirstOf(s, n), 1, Len(FirstOf(s, n))) = FirstOf(s, n)
    BY <2>1
  <2> QED
    BY <2>2
<1> QED
  BY <1>2, <1>4, <1>5 DEF k, n

LEMMA FirstOfNone ==
    ASSUME NEW S, NEW s \in Seq(S), NEW p, p = 1
    PROVE  FirstOf(s, (p - 1) * ITEMS_PER_PAGE) = <<>>
<1>1. (p - 1) * ITEMS_PER_PAGE = 0
  BY MenuConstants
<1>2. FirstOf(s, 0) = SubSeq(s, 1, 0)
  BY DEF FirstOf
<1> QED
  BY <1>1, <1>2

LEMMA MenuStep ==
    ASSUME MenuInv, MenuNext
    PROVE  MenuInv'
<1> DEFINE list == filteredMenuItems(allItems, activeCategory)
<1>0. list \in Seq(MenuItem) /\ page \in Nat \ {0}
  BY SelectionIsSequence DEF MenuInv
<1>t. ASSUME NEW all \in {<<>>, MenuItems}, NEW c \in Categories \union {"all"},
             NEW p \in Nat \ {0}
      PROVE  [page |-> p, items |-> filteredMenuItems(all, c)] # NoTimer
  BY DEF NoTimer
<1>e. ASSUME NEW all \in {<<>>, MenuItems}, NEW c \in Categories \union {"all"},
             NEW p, p = 1
      PROVE  FirstOf(filteredMenuItems(all, c), (p - 1) * ITEMS_PER_PAGE) = <<>>
  BY <1>e, FirstOfNone, SelectionIsSequence
<1>1. CASE menuFetched
  <2>1. /\ fetching' = FALSE /\ allItems' = MenuItems /\ isLoading' = TRUE
        /\ timer' = [page |-> page, items |-> filteredMenuItems(MenuItems, activeCategory)]
        /\ UNCHANGED <<displayedItems, page, activeCategory>> /\ page = 1
        /\ activeCategory \in Categories \union {"all"}
        /\ allItems \in {<<>>, MenuItems}
    BY <1>1 DEF menuFetched, loadMoreItems, MenuInv
  <2>2. displayedItems = <<>>
    BY <1>e, <2>1 DEF MenuInv, DisplayedIsPrefix
  <2>3. DisplayedIsPrefix'
    BY <1>e, <2>1, <2>2 DEF DisplayedIsPrefix
  <2> QED
    BY <1>0, <2>1, <2>3 DEF MenuInv
<1>2. CASE menuFetchFails
  BY <1>2 DEF menuFetchFails, MenuInv, DisplayedIsPrefix
<1>3. CASE pageArrives
  <2>1. /\ timer = [page |-> page, items |-> list] /\ page' = page + 1 /\ isLoading' = FALSE
        /\ timer' = NoTimer /\ UNCHANGED <<allItems, fetching, activeCategory>>
        /\ ~fetching
    BY <1>3 DEF pageArrives, MenuInv
  <2>2. displayedItems' = IF page = 1 THEN Slice(page, list)
                          ELSE displayedItems \o Slice(page, list)
    BY <1>3, <2>1 DEF pageArrives
  <2>3. displayedItems = FirstOf(list, (page - 1) * ITEMS_PER_PAGE)
    BY DEF MenuInv, DisplayedIsPrefix
  <2>4. displayedItems' = FirstOf(list, page * ITEMS_PER_PAGE)
    <3> HIDE DEF list
    <3>1. /\ FirstOf(list, (page - 1) * ITEMS_PER_PAGE) \o Slice(page, list)
                = FirstOf(list, page * ITEMS_PER_PAGE)
          /\ page = 1 => Slice(page, list) = FirstOf(list, page * ITEMS_PER_PAGE)
      BY <1>0, NextPage
    <3> QED
      BY <2>2, <2>3, <3>1
  <2>5. page' - 1 = page /\ page' \in Nat \ {0}
    BY <1>0, <2>1
  <2>6. DisplayedIsPrefix'
    BY <2>1, <2>4, <2>5 DEF DisplayedIsPrefix
  <2> QED
    BY <2>1, <2>5, <2>6 DEF MenuInv
<1>4. CASE handleScroll
  <2>1. /\ isLoading' = TRUE /\ timer' = [page |-> page, items |-> list]
        /\ UNCHANGED <<allItems, displayedItems, page, fetching, activeCategory>>
        /\ isLoading = FALSE
    BY <1>4 DEF handleScroll, loadMoreItems, MenuInv
  <2> QED
    BY <2>1 DEF MenuInv, DisplayedIsPrefix
<1>5. ASSUME NEW category \in Categories \union {"all"}, handleCategoryChange(category)
      PROVE  MenuInv'
  <2>1. /\ activeCategory' = category /\ displayedItems' = <<>> /\ page' = 1
        /\ UNCHANGED <<allItems, fetching>> /\ isLoading = FALSE
        /\ fetching = FALSE /\ timer = NoTimer /\ allItems \in {<<>>, MenuItems}
    BY <1>5 DEF handleCategoryChange, MenuInv
  <2>2. \/ /\ isLoading' = TRUE
           /\ timer' = [page |-> 1, items |-> filteredMenuItems(allItems, category)]
        \/ UNCHANGED <<isLoading, timer>>
    BY <1>5 DEF handleCategoryChange, loadMoreItems
  <2>3. DisplayedIsPrefix'
    BY <1>e, <2>1 DEF DisplayedIsPrefix
  <2>4. isLoading' \in BOOLEAN /\ page' \in Nat \ {0}
    <3>1. isLoading' = TRUE \/ isLoading' = FALSE
      BY <2>1, <2>2, Zenon
    <3>2. isLoading' \in BOOLEAN
      BY <3>1, Zenon
    <3>3. page' \in Nat \ {0}
      BY <2>1
    <3> QED
      BY <3>2, <3>3
  <2>5. timer' # NoTimer =>
          /\ isLoading'
          /\ timer' = [page |-> page', items |-> filteredMenuItems(allItems', activeCategory')]
    BY <2>1, <2>2
  <2> QED
    BY <2>1, <2>3, <2>4, <2>5 DEF MenuInv
<1>6. CASE remount
  <2>1. /\ allItems' = <<>> /\ displayedItems' = <<>> /\ page' = 1 /\ isLoading' = TRUE
        /\ fetching' = TRUE /\ timer' = NoTimer /\ activeCategory' = "all"
    BY <1>6 DEF remount
  <2>2. DisplayedIsPrefix'
    BY <1>e, <2>1 DEF DisplayedIsPrefix
  <2> QED
    BY <2>1, <2>2 DEF MenuInv
<1> QED
  BY <1>1, <1>2, <1>3, <1>4, <1>5, <1>6 DEF MenuNext, CategoryTabs

\* The menu screen keeps its invariant, for any catalogue and page size.
THEOREM MenuInvariant == MenuSpec => []MenuInv
<1>1. MenuInit => MenuInv
  <2> SUFFICES ASSUME MenuInit PROVE MenuInv
    OBVIOUS
  <2>1. /\ allItems = <<>> /\ displayedItems = <<>> /\ page = 1 /\ isLoading = TRUE
        /\ fetching = TRUE /\ timer = NoTimer /\ activeCategory = "all"
    BY DEF MenuInit
  <2>2. DisplayedIsPrefix
    BY <2>1, FirstOfNone, SelectionIsSequence DEF DisplayedIsPrefix
  <2> QED
    BY <2>1, <2>2 DEF MenuInv
<1>2. MenuInv /\ [MenuNext]_menuVars => MenuInv'
  <2>1. CASE UNCHANGED menuVars
    BY <2>1 DEF menuVars, MenuInv, DisplayedIsPrefix
  <2> QED
    BY <2>1, MenuStep
<1> QED
  BY <1>1, <1>2, PTL DEF MenuSpec

\* What is shown is a prefix of the active category, after any sequence of
\* page loads, category taps and visits.
THEOREM MenuShowsPrefix == MenuSpec => []DisplayedIsPrefix
<1>1. MenuInv => DisplayedIsPrefix
  BY DEF MenuInv
<1> QED
  BY <1>1, MenuInvariant, PTL

-----------------------------------------------------------------------------
(* The produce scanner *)

(***************************************************************************)
(* While the preview is shown, the start that showed it is still on its    *)
(* way or has left a stream and a loop.  Whatever an older start or loop   *)
(* does meanwhile either keeps that, or ends the preview.                  *)
(***************************************************************************)
ProduceInv ==
    /\ starts \in [Scans -> {"unused", "asking", "playing", "done"}]
    /\ loops \in [Scans -> {"none", "frame", "busy"}]
    /\ mounted /\ isScanning =>
          \E s \in Scans :
             \/ starts[s] = "asking"
             \/ starts[s] = "playing" /\ streamRef \in live
             \/ starts[s] = "done" /\ streamRef \in live /\ loops[s] # "none"

LEMMA ProduceStep ==
    ASSUME ProduceInv, ProduceNext
    PROVE  ProduceInv'
<1>0. /\ starts \in [Scans -> {"unused", "asking", "playing", "done"}]
      /\ loops \in [Scans -> {"none", "frame", "busy"}]
  BY DEF ProduceInv
<1> HIDE DEF Scans
<1>1. ASSUME NEW s \in Scans, startScanning(s)
      PROVE  ProduceInv'
  <2>1. starts' = [starts EXCEPT ![s] = "asking"] /\ loops' = loops
    BY <1>1 DEF startScanning
  <2> QED
    BY <1>0, <2>1 DEF ProduceInv
<1>2. ASSUME NEW s \in Scans, cameraGranted(s)
      PROVE  ProduceInv'
  <2>1. /\ starts[s] = "asking" /\ streamRef' \in live' /\ UNCHANGED <<mounted, isScanning>>
    BY <1>2 DEF cameraGranted
  <2>2. CASE mounted /\ isScanning
    <3>1. starts' = [starts EXCEPT ![s] = "playing"] /\ loops' = loops
      BY <1>2, <2>2 DEF cameraGranted, videoRef
    <3> QED
      BY <1>0, <2>1, <3>1 DEF ProduceInv
  <2>3. CASE ~(mounted /\ isScanning)
    <3>1. starts' = [starts EXCEPT ![s] = "done"] /\ loops' = [loops EXCEPT ![s] = "frame"]
      BY <1>2, <2>3 DEF cameraGranted, videoRef, requestFrame
    <3> QED
      BY <1>0, <2>1, <2>3, <3>1 DEF ProduceInv
  <2> QED
    BY <2>2, <2>3
<1>3. ASSUME NEW s \in Scans, videoPlays(s)
      PROVE  ProduceInv'
  <2>1. /\ starts[s] = "playing" /\ starts' = [starts EXCEPT ![s] = "done"]
        /\ loops' = [loops EXCEPT ![s] = "frame"]
        /\ UNCHANGED <<mounted, isScanning, streamRef, live>>
    BY <1>3 DEF videoPlays, requestFrame
  <2> QED
    BY <1>0, <2>1 DEF ProduceInv
<1>4. ASSUME NEW s \in Scans, startFails(s)
      PROVE  ProduceInv'
  <2>1. starts' = [starts EXCEPT ![s] = "done"] /\ loops' = loops /\ isScanning' = FALSE
    BY <1>4 DEF startFails
  <2> QED
    BY <1>0, <2>1 DEF ProduceInv
<1>5. CASE closeScanner \/ handlePluSubmit
  <2>1. isScanning' = FALSE /\ starts' = starts
    BY <1>5 DEF closeScanner, handlePluSubmit, stopScanning
  <2>2. loops' \in [Scans -> {"none", "frame", "busy"}]
    BY <1>0, <1>5 DEF closeScanner, handlePluSubmit, stopScanning
  <2> QED
    BY <1>0, <2>1, <2>2 DEF ProduceInv
<1>6. ASSUME NEW s \in Scans, captureAndRecognize(s) \/ recognized(s)
      PROVE  ProduceInv'
  <2>1. /\ UNCHANGED <<mounted, isScanning, starts, streamRef, live>>
        /\ \/ loops' = [loops EXCEPT ![s] = "frame"]
           \/ loops' = [loops EXCEPT ![s] = "busy"]
    BY <1>6 DEF captureAndRecognize, recognized, requestFrame
  <2> QED
    BY <1>0, <2>1 DEF ProduceInv
<1> QED
  BY <1>1, <1>2, <1>3, <1>4, <1>5, <1>6 DEF ProduceNext, ProduceScanner

\* The scanner keeps its invariant, for any number of starts and loops.
THEOREM ProduceInvariant == ProduceSpec => []ProduceInv
<1>1. ProduceInit => ProduceInv
  BY DEF ProduceInit, ProduceInv
<1>2. ProduceInv /\ [ProduceNext]_produceVars => ProduceInv'
  <2>1. CASE UNCHANGED produceVars
    BY <2>1 DEF produceVars, ProduceInv
  <2> QED
    BY <2>1, ProduceStep
<1> QED
  BY <1>1, <1>2, PTL DEF ProduceSpec

\* A preview no start is waiting for has a camera that is on and a loop that
\* looks at it, whatever stops, failures and late permissions came before.
THEOREM PreviewIsWatched == ProduceSpec => []ScanningIsWatched
<1>1. ProduceInv => ScanningIsWatched
  BY DEF ProduceInv, ScanningIsWatched
<1> QED
  BY <1>1, ProduceInvariant, PTL

-----------------------------------------------------------------------------
(* The session with the phone *)

(***************************************************************************)
(* Calls of send() are numbered, so what waits in the queue is newer than  *)
(* what the channel accepted, and nothing is newer than the last call.     *)
(***************************************************************************)
GhostInv ==
    /\ sends \in Nat /\ outboundQueue \in Seq(Nat) /\ wire \in Seq(Nat)
    /\ \A i \in DOMAIN wire : wire[i] <= sends
    /\ \A i \in DOMAIN outboundQueue : outboundQueue[i] <= sends
    /\ \A i \in DOMAIN wire, j \in DOMAIN outboundQueue : wire[i] < outboundQueue[j]
    /\ Increasing(outboundQueue)
    /\ MessagesKeepOrder

\* Appending a number above all others keeps a sequence increasing.
LEMMA IncreasingAppend ==
    ASSUME NEW s \in Seq(Nat), NEW n \in Nat, Increasing(s),
           \A i \in DOMAIN s : s[i] < n
    PROVE  /\ Append(s, n) \in Seq(Nat) /\ Increasing(Append(s, n))
           /\ \A i \in DOMAIN Append(s, n) : Append(s, n)[i] <= n
<1> DEFINE t == Append(s, n)
<1>1. /\ t \in Seq(Nat) /\ Len(s) \in Nat /\ DOMAIN t = 1..(Len(s) + 1)
      /\ DOMAIN s = 1..Len(s) /\ t[Len(s) + 1] = n
      /\ \A i \in 1..Len(s) : t[i] = s[i]
  BY AppendFacts
<1> HIDE DEF t
<1>2. \A i \in 1..Len(s) : s[i] \in Nat
  BY <1>1
<1>3. ASSUME NEW i \in DOMAIN t, NEW j \in DOMAIN t, i < j
      PROVE  t[i] < t[j]
  <2>1. i \in 1..Len(s) /\ t[i] = s[i]
    BY <1>1, <1>3
  <2>2. CASE j \in 1..Len(s)
    <3>1. s[i] < s[j]
      BY <1>1, <1>3, <2>1, <2>2 DEF Increasing
    <3> QED  BY <1>1, <2>1, <2>2, <3>1
  <2>3. CASE j = Len(s) + 1
    <3>1. s[i] < n
      BY <1>1, <2>1
    <3> QED  BY <1>1, <2>1, <2>3, <3>1
  <2> QED
    BY <1>1, <2>2, <2>3
<1>4. \A i \in DOMAIN t : t[i] <= n
  BY <1>1, <1>2
<1> QED
  BY <1>1, <1>3, <1>4 DEF t, Increasing

\* One increasing sequence after another whose elements are all larger.
LEMMA IncreasingConcat ==
    ASSUME NEW s \in Seq(Nat), NEW t \in Seq(Nat), Increasing(s), Increasing(t),
           \A i \in DOMAIN s, j \in DOMAIN t : s[i] < t[j]
    PROVE  /\ s \o t \in Seq(Nat) /\ Increasing(s \o t)
           /\ \A i \in DOMAIN (s \o t) :
                 \/ \E j \in DOMAIN s : (s \o t)[i] = s[j]
                 \/ \E j \in DOMAIN t : (s \o t)[i] = t[j]
<1> DEFINE u == s \o t
           m == Len(s)
           n == Len(t)
<1>1. /\ m \in Nat /\ n \in Nat /\ u \in Seq(Nat) /\ DOMAIN u = 1..(m + n)
      /\ DOMAIN s = 1..m /\ DOMAIN t = 1..n
  OBVIOUS
<1>2. \A i \in 1..m : u[i] = s[i]
  OBVIOUS
<1>3. \A i \in 1..(m + n) : i > m => u[i] = t[i - m] /\ i - m \in 1..n
  OBVIOUS
<1> HIDE DEF u, m, n
<1>4. ASSUME NEW i \in DOMAIN u, NEW j \in DOMAIN u, i < j
      PROVE  u[i] < u[j]
  <2>1. CASE j <= m
    BY <1>1, <1>2, <1>4, <2>1 DEF Increasing
  <2>2. CASE i <= m /\ j > m
    <3>1. i \in 1..m /\ u[i] = s[i]
      BY <1>1, <1>2, <1>4, <2>2
    <3>2. j - m \in 1..n /\ u[j] = t[j - m]
      BY <1>1, <1>3, <1>4, <2>2
    <3> QED
      BY <1>1, <3>1, <3>2
  <2>3. CASE i > m
    <3>0. i \in 1..(m + n) /\ j \in 1..(m + n) /\ j > m
      BY <1>1, <1>4, <2>3
    <3>1. i - m \in 1..n /\ j - m \in 1..n /\ i - m < j - m
      BY <1>1, <1>4, <2>3, <3>0, SMTT(30)
    <3>2. u[i] = t[i - m] /\ u[j] = t[j - m]
      BY <1>3, <2>3, <3>0
    <3> QED
      BY <1>1, <3>1, <3>2, SMTT(30) DEF Increasing
  <2> QED
    BY <1>1, <1>4, <2>1, <2>2, <2>3
<1>5. ASSUME NEW i \in DOMAIN u
      PROVE  (\E j \in DOMAIN s : u[i] = s[j]) \/ (\E j \in DOMAIN t : u[i] = t[j])
  <2>1. CASE i <= m
    BY <1>1, <1>2, <1>5, <2>1
  <2>2. CASE i > m
    BY <1>1, <1>3, <1>5, <2>2
  <2> QED
    BY <1>1, <1>5, <2>1, <2>2
<1> QED
  BY <1>1, <1>4, <1>5 DEF u, Increasing

\* What a flush hands to the channel is taken from the queue, in its order.
LEMMA FlushedInOrder ==
    ASSUME NEW q \in Seq(Nat), Increasing(q), NEW f \in flushQueue(q)
    PROVE  /\ f \in Seq(Nat) /\ Increasing(f)
           /\ \A i \in DOMAIN f : \E j \in DOMAIN q : f[i] = q[j]
<1>1. PICK n \in 0..Len(q) :
        \E kept \in {k \in [1..n -> DOMAIN q] : Increasing(k)} : f = [i \in 1..n |-> q[kept[i]]]
  BY DEF flushQueue
<1>2. PICK kept \in [1..n -> DOMAIN q] : Increasing(kept) /\ f = [i \in 1..n |-> q[kept[i]]]
  BY <1>1
<1>3. Len(q) \in Nat /\ DOMAIN q = 1..Len(q) /\ n \in Nat
  BY <1>1
<1>4. \A i \in 1..n : kept[i] \in 1..Len(q) /\ f[i] = q[kept[i]] /\ f[i] \in Nat
  BY <1>2, <1>3
<1>5. f \in Seq(Nat) /\ DOMAIN f = 1..n
  BY <1>2, <1>3, <1>4
<1>6. ASSUME NEW i \in DOMAIN f, NEW j \in DOMAIN f, i < j
      PROVE  f[i] < f[j]
  <2>1. kept[i] < kept[j]
    BY <1>2, <1>5, <1>6 DEF Increasing
  <2> QED
    BY <1>3, <1>4, <1>5, <2>1 DEF Increasing
<1> QED
  BY <1>3, <1>4, <1>5, <1>6 DEF Increasing

LEMMA GhostStep ==
    ASSUME GhostInv, GhostNext
    PROVE  GhostInv'
<1>0. /\ sends \in Nat /\ outboundQueue \in Seq(Nat) /\ wire \in Seq(Nat)
      /\ Len(wire) \in Nat /\ DOMAIN wire = 1..Len(wire) /\ DOMAIN outboundQueue = 1..Len(outboundQueue)
      /\ \A i \in DOMAIN wire : wire[i] \in Nat /\ wire[i] <= sends
      /\ \A i \in DOMAIN outboundQueue : outboundQueue[i] \in Nat /\ outboundQueue[i] <= sends
      /\ Increasing(wire) /\ Increasing(outboundQueue)
      /\ \A i \in DOMAIN wire, j \in DOMAIN outboundQueue : wire[i] < outboundQueue[j]
  BY DEF GhostInv, MessagesKeepOrder
\* Steps that send nothing and open no channel.
<1>1. ASSUME UNCHANGED traffic, channel' = "open" => channel = "open"
      PROVE  GhostInv'
  BY <1>1 DEF GhostInv, MessagesKeepOrder, traffic
<1>2. CASE channelOpens
  <2>1. PICK f \in flushQueue(outboundQueue) : wire' = wire \o f
    BY <1>2 DEF channelOpens
  <2>2. outboundQueue' = <<>> /\ sends' = sends
    BY <1>2 DEF channelOpens
  <2>3. /\ f \in Seq(Nat) /\ Increasing(f)
        /\ \A i \in DOMAIN f : \E j \in DOMAIN outboundQueue : f[i] = outboundQueue[j]
    BY <1>0, FlushedInOrder
  <2>4. /\ wire' \in Seq(Nat) /\ Increasing(wire')
        /\ \A i \in DOMAIN wire' :
              \/ \E j \in DOMAIN wire : wire'[i] = wire[j]
              \/ \E j \in DOMAIN f : wire'[i] = f[j]
    <3>1. \A i \in DOMAIN wire, j \in DOMAIN f : wire[i] < f[j]
      BY <1>0, <2>3
    <3> QED  BY <1>0, <2>1, <2>3, <3>1, IncreasingConcat, ZenonT(60)
  <2>5. \A i \in DOMAIN wire' : wire'[i] <= sends'
    <3>1. \A i \in DOMAIN f : f[i] <= sends
      BY <1>0, <2>3
    <3> QED  BY <1>0, <2>2, <2>4, <3>1
  <2>6. Increasing(outboundQueue') /\ DOMAIN outboundQueue' = {} /\ outboundQueue' \in Seq(Nat)
    BY <2>2 DEF Increasing
  <2> QED
    BY <1>0, <2>2, <2>4, <2>5, <2>6 DEF GhostInv, MessagesKeepOrder, Increasing
<1>3. CASE send
  <2>0. sends' = sends + 1 /\ UNCHANGED channel /\ sends' \in Nat
    BY <1>0, <1>3 DEF send
  <2>1. CASE channel = "open" /\ wire' = Append(wire, sends + 1) /\ outboundQueue' = outboundQueue
    <3>1. outboundQueue = <<>>
      BY <2>1 DEF GhostInv, MessagesKeepOrder
    <3>2. \A i \in DOMAIN wire : wire[i] < sends'
      BY <1>0, <2>0
    <3>3. /\ wire' \in Seq(Nat) /\ Increasing(wire')
          /\ \A i \in DOMAIN wire' : wire'[i] <= sends'
      BY <1>0, <2>0, <2>1, <3>2, IncreasingAppend
    <3> QED
      BY <1>0, <2>0, <2>1, <3>1, <3>3 DEF GhostInv, MessagesKeepOrder, Increasing
  <2>2. CASE /\ channel # "open" /\ outboundQueue' = Append(outboundQueue, sends + 1)
             /\ wire' = wire
    <3>1. \A i \in DOMAIN outboundQueue : outboundQueue[i] < sends'
      BY <1>0, <2>0
    <3>2. /\ outboundQueue' \in Seq(Nat) /\ Increasing(outboundQueue')
          /\ \A i \in DOMAIN outboundQueue' : outboundQueue'[i] <= sends'
      BY <1>0, <2>0, <2>2, <3>1, IncreasingAppend
    <3>3. \A i \in DOMAIN wire', j \in DOMAIN outboundQueue' : wire'[i] < outboundQueue'[j]
      <4>1. /\ DOMAIN outboundQueue' = 1..(Len(outboundQueue) + 1)
            /\ outboundQueue'[Len(outboundQueue) + 1] = sends'
            /\ \A i \in 1..Len(outboundQueue) : outboundQueue'[i] = outboundQueue[i]
            /\ Len(outboundQueue) \in Nat
        BY <1>0, <2>0, <2>2, AppendFacts
      <4> QED
        BY <1>0, <2>0, <2>2, <4>1
    <3>4. \A i \in DOMAIN wire' : wire'[i] <= sends'
      BY <1>0, <2>0, <2>2
    <3> QED
      BY <1>0, <2>0, <2>2, <3>2, <3>3, <3>4 DEF GhostInv, MessagesKeepOrder, Increasing
  <2>3. CASE UNCHANGED <<wire, outboundQueue>>
    <3>1. /\ \A i \in DOMAIN wire' : wire'[i] <= sends'
          /\ \A i \in DOMAIN outboundQueue' : outboundQueue'[i] <= sends'
      BY <1>0, <2>0, <2>3
    <3> QED
      BY <2>0, <2>3, <3>1 DEF GhostInv, MessagesKeepOrder, Increasing
  <2> QED
    BY <1>3, <2>1, <2>2, <2>3 DEF send
<1>4. CASE createOffer \/ waitForIceGathering \/ readNdefAnswer \/ nfcRejected
           \/ messageArrives \/ walksAway \/ channelCloses
  BY <1>1, <1>4 DEF createOffer, waitForIceGathering, readNdefAnswer, nfcRejected,
                    messageArrives, walksAway, channelCloses
<1>5. CASE parseQrPayload \/ onReading
  BY <1>1, <1>5 DEF parseQrPayload, onReading, acceptAnswer, onConnectionState
<1>6. CASE iceConnects \/ iceDisconnects \/ iceReconnects \/ iceFails
  BY <1>1, <1>6 DEF iceConnects, iceDisconnects, iceReconnects, iceFails,
                    onConnectionState, close
<1>7. CASE handshakeTimesOut \/ staleTick \/ userCloses
  BY <1>1, <1>7 DEF handshakeTimesOut, staleTick, userCloses, close
<1> QED
  BY <1>2, <1>3, <1>4, <1>5, <1>6, <1>7 DEF GhostNext

\* The session keeps its invariant, for any number of messages and flaps.
THEOREM GhostInvariant == GhostSpec => []GhostInv
<1>1. GhostInit => GhostInv
  BY DEF GhostInit, GhostInv, MessagesKeepOrder, Increasing
<1>2. GhostInv /\ [GhostNext]_ghostVars => GhostInv'
  <2>1. CASE UNCHANGED ghostVars
    BY <2>1 DEF ghostVars, GhostInv, MessagesKeepOrder, Increasing
  <2> QED
    BY <2>1, GhostStep
<1> QED
  BY <1>1, <1>2, PTL DEF GhostSpec

\* The phone gets messages in the order of the calls of send(), whether they
\* waited in the queue or not, and an open channel leaves none in the queue.
THEOREM MessagesInOrder == GhostSpec => []MessagesKeepOrder
<1>1. GhostInv => MessagesKeepOrder
  BY DEF GhostInv
<1> QED
  BY <1>1, GhostInvariant, PTL

\* The timers, the channel and the connection are taken down together, and
\* one of them is up for as long as the session is.
GhostWatch ==
    /\ closed \in BOOLEAN /\ handshakeTimer \in BOOLEAN /\ keepalive \in BOOLEAN
    /\ SessionIsWatched

LEMMA WatchStep ==
    ASSUME GhostWatch, GhostNext
    PROVE  GhostWatch'
<1>1. CASE createOffer \/ waitForIceGathering \/ readNdefAnswer \/ nfcRejected
           \/ messageArrives \/ walksAway \/ channelCloses \/ send
  BY <1>1 DEF createOffer, waitForIceGathering, readNdefAnswer, nfcRejected, messageArrives,
              walksAway, channelCloses, send, timers, GhostWatch, SessionIsWatched
<1>2. ASSUME close PROVE GhostWatch'
  BY <1>2 DEF close, clearTimers, GhostWatch, SessionIsWatched
<1>3. CASE handshakeTimesOut \/ userCloses
  BY <1>2, <1>3 DEF handshakeTimesOut, userCloses
<1>4. CASE staleTick
  BY <1>2, <1>4 DEF staleTick, timers, GhostWatch, SessionIsWatched
<1>5. CASE channelOpens
  BY <1>5 DEF channelOpens, GhostWatch, SessionIsWatched
<1>6. ASSUME NEW to \in {"connecting", "connected", "disconnected", "failed"},
             onConnectionState(to), pc # "closed",
             to = "connecting" => pc = "new",
             to = "disconnected" => pc \in {"connecting", "connected"}
      PROVE  GhostWatch'
  <2>1. CASE to = "failed"
    BY <1>2, <1>6, <2>1 DEF onConnectionState
  <2>2. CASE to # "failed"
    BY <1>6, <2>2 DEF onConnectionState, GhostWatch, SessionIsWatched
  <2> QED  BY <2>1, <2>2
<1>7. CASE parseQrPayload \/ onReading
  <2>1. PICK e : acceptAnswer(e)
    BY <1>7 DEF parseQrPayload, onReading
  <2>2. CASE pc = "new" /\ onConnectionState("connecting")
    BY <1>6, <2>2
  <2>3. CASE UNCHANGED <<pc, phone, channel, closed, timers>>
    BY <2>3 DEF timers, GhostWatch, SessionIsWatched
  <2> QED  BY <2>1, <2>2, <2>3 DEF acceptAnswer
<1>8. CASE iceConnects \/ iceReconnects
  BY <1>6, <1>8 DEF iceConnects, iceReconnects
<1>9. CASE iceDisconnects
  BY <1>6, <1>9 DEF iceDisconnects
<1>10. CASE iceFails
  BY <1>6, <1>10 DEF iceFails
<1> QED
  BY <1>1, <1>3, <1>4, <1>5, <1>7, <1>8, <1>9, <1>10 DEF GhostNext

\* A session with a phone never goes unwatched, in whatever order the
\* connection and the channel report, and one that was closed has let go of
\* everything.
THEOREM SessionsAreWatched == GhostSpec => []SessionIsWatched
<1>1. GhostInit => GhostWatch
  BY DEF GhostInit, GhostWatch, SessionIsWatched
<1>2. GhostWatch /\ [GhostNext]_ghostVars => GhostWatch'
  <2>1. CASE UNCHANGED ghostVars
    BY <2>1 DEF ghostVars, GhostWatch, SessionIsWatched
  <2> QED
    BY <2>1, WatchStep
<1>3. GhostWatch => SessionIsWatched
  BY DEF GhostWatch
<1> QED
  BY <1>1, <1>2, <1>3, PTL DEF GhostSpec

-----------------------------------------------------------------------------
(* Connectivity *)

NetworkInv ==
    /\ onLine \in BOOLEAN /\ isOfflineMode \in BOOLEAN
    /\ poll \in {"asking", "waiting"}
    /\ OfflineHasReason

LEMMA NetworkStep ==
    ASSUME NetworkInv, NetworkNext
    PROVE  NetworkInv'
<1>1. CASE apiChanges \/ daemonChanges \/ pollMeshHealth \/ bannerRenders \/ dismiss
  BY <1>1 DEF apiChanges, daemonChanges, pollMeshHealth, bannerRenders, dismiss,
              NetworkInv, OfflineHasReason
<1>2. CASE browserChanges
  BY <1>2 DEF browserChanges, NetworkInv, OfflineHasReason
<1>3. CASE checkStatus \/ pollAgain
  <2>1. poll' \in {"asking", "waiting"} /\ UNCHANGED <<onLine, reported, isOfflineMode>>
    BY <1>3 DEF checkStatus, pollAgain
  <2> QED
    BY <2>1 DEF NetworkInv, OfflineHasReason
<1>4. CASE reportStatus
  BY <1>4 DEF reportStatus, NetworkInv, OfflineHasReason
<1> QED
  BY <1>1, <1>2, <1>3, <1>4 DEF NetworkNext, HookStep

\* However often the links fail, and in whatever order events and answers
\* arrive, a kiosk in offline mode still has what takes it out again.
THEOREM OfflineModeHasReason == NetworkSpec => []OfflineHasReason
<1>1. NetworkInit => NetworkInv
  BY DEF NetworkInit, NetworkInv, OfflineHasReason
<1>2. NetworkInv /\ [NetworkNext]_networkVars => NetworkInv'
  <2>1. CASE UNCHANGED networkVars
    BY <2>1 DEF networkVars, NetworkInv, OfflineHasReason
  <2> QED
    BY <2>1, NetworkStep
<1>3. NetworkInv => OfflineHasReason
  BY DEF NetworkInv
<1> QED
  BY <1>1, <1>2, <1>3, PTL DEF NetworkSpec

-----------------------------------------------------------------------------
(* The sync of the cart *)

\* A flush that will try again has an attempt left.
AttemptsLeft ==
    \A f \in Flushes : flush[f].pc \in {"backoff", "recreate"} => flush[f].attempt < MAX_ATTEMPTS - 1

\* The cart on the server has what a flush has sent of it so far.
SentIsStored ==
    (~raced /\ server.exists) =>
      \A f \in Flushes : flush[f].pc = "add" =>
        \A i \in Items : i \notin flush[f].todo => flush[f].lines[i] <= server.lines[i]

\* A flush no change came after has every line there is now.
FreshIsComplete ==
    \A f \in busy : flush[f].fresh => \A i \in Items : local[i] <= flush[f].lines[i]

\* A timer is set, or the latest flush is under way and up to date.
Due == debounce \/ retry \/ (latest \in busy /\ flush[latest].fresh)

LatestIsFresh == (online /\ latest \in busy) => (flush[latest].fresh \/ debounce)

Stored == server.exists => \A i \in Items : local[i] <= server.lines[i]

\* What is not stored is still to be sent.
NothingForgotten == (~raced /\ online) => (Due \/ local = Empty \/ (server.read /\ Stored))

(***************************************************************************)
(* Several flushes may be under way, and the last to finish need not be    *)
(* the last that began; the invariant says who still owes the server what. *)
(***************************************************************************)
SyncInv ==
    /\ TypeOK /\ AttemptsLeft
    /\ SentIsStored /\ FreshIsComplete /\ LatestIsFresh /\ NothingForgotten

LEMMA SyncFields ==
    ASSUME TypeOK
    PROVE  /\ local \in Quantities /\ server \in ServerCart
           /\ server.exists \in BOOLEAN /\ server.read \in BOOLEAN
           /\ server.lines \in [Items -> 0..MaxQuantity + 1]
           /\ booting \in BOOLEAN /\ online \in BOOLEAN /\ debounce \in BOOLEAN
           /\ retry \in BOOLEAN /\ dirty \in BOOLEAN /\ raced \in BOOLEAN
           /\ latest \in Flushes \union {NoFlush} /\ DOMAIN flush = Flushes
           /\ \A f \in Flushes :
                /\ flush[f] \in FlushState /\ flush[f].lines \in Quantities
                /\ flush[f].todo \in SUBSET Items /\ flush[f].attempt \in 0..MAX_ATTEMPTS - 1
                /\ flush[f].fresh \in BOOLEAN
           /\ strays \in SUBSET [lines : Quantities, todo : SUBSET Items]
           /\ changes \in 0..MaxChanges /\ faults \in 0..MaxFaults
<1>1. server.exists \in BOOLEAN /\ server.read \in BOOLEAN /\ server.lines \in [Items -> 0..MaxQuantity + 1]
  BY DEF TypeOK, ServerCart
<1>2. /\ booting \in BOOLEAN /\ online \in BOOLEAN /\ debounce \in BOOLEAN
      /\ retry \in BOOLEAN /\ dirty \in BOOLEAN /\ raced \in BOOLEAN
  BY Zenon DEF TypeOK
<1>3. flush \in [Flushes -> FlushState]
  BY DEF TypeOK
<1>4. \A t \in FlushState : /\ t.lines \in Quantities /\ t.todo \in SUBSET Items
                            /\ t.attempt \in 0..MAX_ATTEMPTS - 1 /\ t.fresh \in BOOLEAN
  BY DEF FlushState
<1> QED  BY <1>1, <1>2, <1>3, <1>4 DEF TypeOK

LEMMA SyncTypes ==
    ASSUME local' \in Quantities, server' \in ServerCart, booting' \in BOOLEAN,
           online' \in BOOLEAN, debounce' \in BOOLEAN, retry' \in BOOLEAN, dirty' \in BOOLEAN,
           raced' \in BOOLEAN, latest' \in Flushes \union {NoFlush},
           flush' \in [Flushes -> FlushState],
           strays' \in SUBSET [lines : Quantities, todo : SUBSET Items],
           changes' \in 0..MaxChanges, faults' \in 0..MaxFaults
    PROVE  TypeOK'
<1>1. {booting, online, debounce, retry, dirty, raced}' \subseteq BOOLEAN
  BY Zenon
<1> QED  BY <1>1 DEF TypeOK

LEMMA FaultType ==
    ASSUME TypeOK, Fault \/ UNCHANGED faults
    PROVE  faults' \in 0..MaxFaults
BY SyncFields, CartSyncConstants DEF Fault

LEMMA EmptyFacts ==
    /\ Empty \in Quantities /\ NoCart \in ServerCart /\ Idle \in FlushState
    /\ Idle.pc = "idle" /\ Idle.fresh = FALSE /\ \A i \in Items : Empty[i] = 0
<1>1. 0 \in 0..MaxQuantity /\ 0 \in 0..MaxQuantity + 1 /\ 0 \in 0..MAX_ATTEMPTS - 1
  BY CartSyncConstants DEF MAX_ATTEMPTS
<1>2. Empty \in Quantities /\ Empty \in [Items -> 0..MaxQuantity + 1] /\ \A i \in Items : Empty[i] = 0
  BY <1>1 DEF Empty, Quantities
<1> HIDE DEF Empty
<1>3. NoCart \in ServerCart
  BY <1>2 DEF NoCart, ServerCart
<1>4. Idle \in FlushState /\ Idle.pc = "idle" /\ Idle.fresh = FALSE
  BY <1>1, <1>2 DEF Idle, FlushState
<1> QED  BY <1>2, <1>3, <1>4

\* addItemToCart only ever raises the quantities of a cart.
LEMMA AddedFacts ==
    ASSUME TypeOK, NEW i \in Items, NEW n \in 0..MaxQuantity
    PROVE  /\ Added(i, n) \in ServerCart
           /\ Added(i, n).exists = server.exists /\ Added(i, n).read = server.read
           /\ \A j \in Items : server.lines[j] <= Added(i, n).lines[j]
           /\ n <= Added(i, n).lines[i]
<1> DEFINE L == server.lines
           M == [L EXCEPT ![i] = Cap(L[i] + n)]
           a == [server EXCEPT !.lines = M]
<1>0. server \in ServerCart /\ L \in [Items -> 0..MaxQuantity + 1] /\ MaxQuantity \in Nat
  BY SyncFields, CartSyncConstants
<1>1. a = Added(i, n)
  BY <1>0 DEF Added, ServerCart
<1>2. \A y \in 0..MaxQuantity + 1, z \in 0..MaxQuantity :
         Cap(y + z) \in 0..MaxQuantity + 1 /\ y <= Cap(y + z) /\ z <= Cap(y + z)
  BY <1>0 DEF Cap
<1>3. L[i] \in 0..MaxQuantity + 1
  BY <1>0
<1>4. Cap(L[i] + n) \in 0..MaxQuantity + 1 /\ L[i] <= Cap(L[i] + n) /\ n <= Cap(L[i] + n)
  BY <1>2, <1>3, Zenon
<1>5. /\ M \in [Items -> 0..MaxQuantity + 1] /\ M[i] = Cap(L[i] + n)
      /\ \A j \in Items : j # i => M[j] = L[j]
  BY <1>0, <1>4
<1> HIDE DEF M
<1>6. a \in ServerCart /\ a.lines = M /\ a.exists = server.exists /\ a.read = server.read
  BY <1>0, <1>5 DEF ServerCart
<1>7. \A j \in Items : L[j] <= M[j]
  <2>1. \A j \in Items : L[j] \in 0..MaxQuantity + 1
    BY <1>0
  <2>2. \A y \in 0..MaxQuantity + 1 : y <= y
    BY <1>0
  <2> QED  BY <1>4, <1>5, <2>1, <2>2
<1> HIDE DEF a
<1>8. /\ a \in ServerCart /\ a.exists = server.exists /\ a.read = server.read
      /\ (\A j \in Items : server.lines[j] <= a.lines[j]) /\ n <= a.lines[i]
  BY <1>4, <1>5, <1>6, <1>7
<1> QED  BY <1>1, <1>8

\* A flush waits for its next attempt, or gives up.
GivesWay(f, x) ==
    /\ flush' = [flush EXCEPT ![f] = x]
    /\ \/ x = Idle /\ retry' = (retry \/ f = latest)
       \/ /\ x.pc \in {"backoff", "recreate"} /\ x.attempt < MAX_ATTEMPTS - 1
          /\ x.lines = flush[f].lines /\ x.fresh = flush[f].fresh /\ retry' = retry

LEMMA FailedFacts ==
    ASSUME TypeOK, NEW f \in Flushes, NEW r, failed(f, r) \/ missing(f)
    PROVE  \E x \in FlushState : GivesWay(f, x)
<1> DEFINE t == flush[f]
<1>0. t \in FlushState /\ DOMAIN flush = Flushes
  BY SyncFields
<1>m. ASSUME NEW p \in {"backoff", "recreate"}, flush' = [flush EXCEPT ![f].pc = p], retry' = retry,
             t.attempt < MAX_ATTEMPTS - 1
      PROVE  \E x \in FlushState : GivesWay(f, x)
  <2> DEFINE x == [t EXCEPT !.pc = p]
  <2>1. flush' = [flush EXCEPT ![f] = x]
    BY <1>0, <1>m
  <2>2. x \in FlushState /\ x.pc = p /\ x.attempt = t.attempt /\ x.lines = t.lines /\ x.fresh = t.fresh
    BY <1>0 DEF FlushState
  <2> HIDE DEF x
  <2> QED  BY <1>m, <2>1, <2>2 DEF GivesWay
<1>f. ASSUME NEW b, failed(f, b) PROVE \E x \in FlushState : GivesWay(f, x)
  <2>1. CASE b /\ t.attempt < MAX_ATTEMPTS - 1
    BY <1>f, <1>m, <2>1 DEF failed
  <2>2. CASE ~(b /\ t.attempt < MAX_ATTEMPTS - 1)
    <3>1. flush' = [flush EXCEPT ![f] = Idle] /\ retry' = (retry \/ f = latest)
      BY <1>f, <2>2 DEF failed
    <3> QED  BY <3>1, EmptyFacts DEF GivesWay
  <2> QED  BY <2>1, <2>2
<1>2. CASE missing(f)
  <2>1. CASE t.attempt < MAX_ATTEMPTS - 1
    BY <1>2, <1>m, <2>1 DEF missing
  <2>2. CASE ~(t.attempt < MAX_ATTEMPTS - 1)
    BY <1>2, <1>f, <2>2 DEF missing
  <2> QED  BY <2>1, <2>2
<1> QED  BY <1>f, <1>2

LEMMA AtMost ==
    ASSUME NEW a \in Nat, NEW b \in Nat, NEW c \in Nat, a <= b, b <= c
    PROVE  a <= c
  OBVIOUS

LEMMA QuantityTypes ==
    ASSUME TypeOK, NEW i \in Items
    PROVE  /\ local[i] \in Nat /\ server.lines[i] \in Nat
           /\ \A f \in Flushes : flush[f].lines[i] \in Nat /\ flush[f].lines[i] \in 0..MaxQuantity
<1>1. \A q \in Quantities : q[i] \in 0..MaxQuantity /\ q[i] \in Nat
  BY CartSyncConstants DEF Quantities
<1>2. \A q \in [Items -> 0..MaxQuantity + 1] : q[i] \in Nat
  BY CartSyncConstants
<1> QED  BY <1>1, <1>2, SyncFields

\* A step of one flush under way that leaves the local cart alone and takes
\* nothing from the server's.
LEMMA FlushMove ==
    ASSUME SyncInv, NEW f \in Flushes, NEW x \in FlushState, flush' = [flush EXCEPT ![f] = x],
           flush[f].pc # "idle",
           x.pc # "idle" => x.lines = flush[f].lines /\ x.fresh = flush[f].fresh,
           x.pc \in {"backoff", "recreate"} => x.attempt < MAX_ATTEMPTS - 1,
           server' \in ServerCart, server'.exists => server.exists, server.read => server'.read,
           \A j \in Items : server.lines[j] <= server'.lines[j],
           (~raced /\ server.exists /\ x.pc = "add") =>
              \A i \in Items : i \notin x.todo => x.lines[i] <= server'.lines[i],
           x.pc = "idle" =>
              \/ retry' \/ f # latest \/ ~flush[f].fresh
              \/ /\ server'.read
                 /\ (~raced /\ server'.exists) => \A i \in Items : flush[f].lines[i] <= server'.lines[i],
           retry' \in BOOLEAN, retry => retry', dirty' \in BOOLEAN,
           strays' \in SUBSET [lines : Quantities, todo : SUBSET Items],
           Fault \/ UNCHANGED faults,
           UNCHANGED <<local, booting, raced, online, debounce, latest, changes>>
    PROVE  SyncInv'
<1>0. TypeOK /\ AttemptsLeft /\ SentIsStored /\ FreshIsComplete /\ LatestIsFresh /\ NothingForgotten
  BY DEF SyncInv
<1>1. /\ DOMAIN flush = Flushes /\ flush'[f] = x /\ \A g \in Flushes : g # f => flush'[g] = flush[g]
      /\ flush' \in [Flushes -> FlushState]
  BY <1>0, SyncFields
<1>2. TypeOK'
  <2>1. faults' \in 0..MaxFaults
    BY <1>0, FaultType
  <2> QED  BY <1>0, <1>1, <2>1, SyncFields, SyncTypes
<1>3. AttemptsLeft'
  BY <1>0, <1>1 DEF AttemptsLeft
<1>q. \A i \in Items : /\ local[i] \in Nat /\ server.lines[i] \in Nat /\ server'.lines[i] \in Nat
                       /\ \A g \in Flushes : flush[g].lines[i] \in Nat
  <2>1. \A i \in Items : server'.lines[i] \in Nat
    BY CartSyncConstants DEF ServerCart
  <2> QED  BY <1>0, <2>1, QuantityTypes
<1>4. SentIsStored'
  <2> SUFFICES ASSUME ~raced, server'.exists, NEW g \in Flushes, flush'[g].pc = "add",
                      NEW i \in Items, i \notin flush'[g].todo
               PROVE  flush'[g].lines[i] <= server'.lines[i]
    BY DEF SentIsStored
  <2>1. CASE g = f
    BY <1>1, <2>1
  <2>2. CASE g # f
    <3>1. flush'[g] = flush[g] /\ flush[g].lines[i] <= server.lines[i]
      BY <1>0, <1>1, <2>2 DEF SentIsStored
    <3>2. server.lines[i] <= server'.lines[i]
      OBVIOUS
    <3> QED  BY <1>q, <3>1, <3>2, AtMost
  <2> QED  BY <2>1, <2>2
<1>5. busy' \subseteq busy /\ \A g \in busy' : flush'[g].lines = flush[g].lines /\ flush'[g].fresh = flush[g].fresh
  BY <1>1 DEF busy
<1>6. FreshIsComplete'
  BY <1>0, <1>5 DEF FreshIsComplete
<1>7. LatestIsFresh'
  BY <1>0, <1>5 DEF LatestIsFresh
<1>8. NothingForgotten'
  <2> SUFFICES ASSUME ~raced, online PROVE Due' \/ local = Empty \/ (server'.read /\ Stored')
    BY DEF NothingForgotten
  <2>1. CASE debounce \/ retry
    BY <2>1 DEF Due
  <2>2. CASE latest \in busy /\ flush[latest].fresh
    <3>1. CASE latest = f /\ x.pc = "idle"
      <4>1. CASE retry'
        BY <4>1 DEF Due
      <4>2. CASE ~retry'
        <5>1. /\ server'.read
              /\ server'.exists => \A i \in Items : flush[f].lines[i] <= server'.lines[i]
          BY <2>2, <3>1, <4>2
        <5>2. \A i \in Items : local[i] <= flush[f].lines[i]
          BY <1>0, <2>2, <3>1 DEF FreshIsComplete
        <5>3. server'.exists => \A i \in Items : local[i] <= server'.lines[i]
          BY <1>q, <5>1, <5>2, AtMost
        <5> QED  BY <5>1, <5>3 DEF Stored
      <4> QED  BY <4>1, <4>2
    <3>2. CASE latest # f \/ x.pc # "idle"
      <4>1. latest \in busy' /\ flush'[latest].fresh
        BY <1>1, <2>2, <3>2 DEF busy
      <4> QED  BY <4>1 DEF Due
    <3> QED  BY <3>1, <3>2
  <2>3. CASE server.read /\ Stored
    <3>1. server'.exists => \A i \in Items : local[i] <= server'.lines[i]
      BY <1>q, <2>3, AtMost DEF Stored
    <3> QED  BY <2>3, <3>1 DEF Stored
  <2> QED  BY <1>0, <2>1, <2>2, <2>3 DEF NothingForgotten, Due
<1> QED  BY <1>2, <1>3, <1>4, <1>6, <1>7, <1>8 DEF SyncInv

LEMMA SyncTyped == SyncInv => TypeOK /\ AttemptsLeft
  BY DEF SyncInv

LEMMA Reflexive ==
    ASSUME TypeOK
    PROVE  \A j \in Items : server.lines[j] <= server.lines[j]
<1>1. \A j \in Items : server.lines[j] \in Nat
  BY QuantityTypes
<1>2. \A a \in Nat : a <= a
  OBVIOUS
<1> QED  BY <1>1, <1>2

\* A request of f failed: nothing is lost of what it had to send.
LEMMA GiveWayStep ==
    ASSUME SyncInv, NEW f \in Flushes, flush[f].pc # "idle", NEW x \in FlushState, GivesWay(f, x),
           server' \in ServerCart, server'.exists = server.exists, server'.read = server.read,
           \A j \in Items : server.lines[j] <= server'.lines[j],
           strays' \in SUBSET [lines : Quantities, todo : SUBSET Items],
           Fault \/ UNCHANGED faults,
           UNCHANGED <<local, booting, raced, online, debounce, latest, changes, dirty>>
    PROVE  SyncInv'
<1>0. TypeOK /\ retry \in BOOLEAN /\ dirty \in BOOLEAN
  BY SyncTyped, SyncFields
<1>1. CASE x = Idle /\ retry' = (retry \/ f = latest)
  <2>1. x.pc = "idle"
    BY <1>1, EmptyFacts
  <2>2. retry' \in BOOLEAN /\ (retry => retry') /\ (retry' \/ f # latest)
    BY <1>0, <1>1
  <2>3. flush' = [flush EXCEPT ![f] = x] /\ dirty' \in BOOLEAN
    BY <1>0 DEF GivesWay
  <2> QED  BY <2>1, <2>2, <2>3, FlushMove
<1>2. CASE /\ x.pc \in {"backoff", "recreate"} /\ x.attempt < MAX_ATTEMPTS - 1
           /\ x.lines = flush[f].lines /\ x.fresh = flush[f].fresh /\ retry' = retry
  <2>1. flush' = [flush EXCEPT ![f] = x] /\ dirty' \in BOOLEAN /\ retry' \in BOOLEAN
    BY <1>0, <1>2 DEF GivesWay
  <2>2. x.pc # "idle" /\ x.pc # "add"
    BY <1>2
  <2> QED  BY <1>2, <2>1, <2>2, FlushMove
<1> QED  BY <1>1, <1>2 DEF GivesWay

LEMMA AddLineStep ==
    ASSUME SyncInv, NEW f \in Flushes, addLine(f)
    PROVE  SyncInv'
<1> DEFINE t == flush[f]
<1>0. /\ TypeOK /\ t \in FlushState /\ DOMAIN flush = Flushes /\ t.todo \in SUBSET Items
      /\ retry \in BOOLEAN /\ dirty \in BOOLEAN /\ server \in ServerCart
      /\ strays \in SUBSET [lines : Quantities, todo : SUBSET Items]
  BY SyncTyped, SyncFields
<1>1. /\ t.pc = "add" /\ UNCHANGED <<local, booting, raced, online, debounce, latest, strays, changes, dirty>>
  BY DEF addLine
<1>2. PICK i \in t.todo :
         IF server.exists
         THEN \/ /\ server' = Added(i, t.lines[i])
                 /\ flush' = [flush EXCEPT ![f].todo = @ \ {i}]
                 /\ UNCHANGED <<retry, faults>>
              \/ /\ Fault
                 /\ server' \in {server, Added(i, t.lines[i])}
                 /\ \E retryable \in BOOLEAN : failed(f, retryable)
         ELSE missing(f) /\ UNCHANGED <<server, faults>>
  BY DEF addLine
<1>3. i \in Items /\ t.lines[i] \in 0..MaxQuantity
  BY <1>0, QuantityTypes
<1> DEFINE a == Added(i, t.lines[i])
<1>4. /\ a \in ServerCart /\ a.exists = server.exists /\ a.read = server.read
      /\ (\A j \in Items : server.lines[j] <= a.lines[j]) /\ t.lines[i] <= a.lines[i]
  BY <1>0, <1>3, AddedFacts
<1>5. CASE server.exists /\ server' = a /\ flush' = [flush EXCEPT ![f].todo = @ \ {i}]
           /\ UNCHANGED <<retry, faults>>
  <2> DEFINE x == [t EXCEPT !.todo = t.todo \ {i}]
  <2>1. flush' = [flush EXCEPT ![f] = x]
    BY <1>0, <1>5
  <2>2. /\ x \in FlushState /\ x.pc = "add" /\ x.lines = t.lines /\ x.fresh = t.fresh
        /\ x.todo = t.todo \ {i}
    <3>1. t.todo \ {i} \in SUBSET Items
      BY <1>0
    <3> QED  BY <1>0, <1>1, <3>1 DEF FlushState
  <2> HIDE DEF x, a
  <2>3. ASSUME ~raced, NEW j \in Items, j \notin x.todo PROVE x.lines[j] <= server'.lines[j]
    <3>1. CASE j = i
      BY <1>4, <1>5, <2>2, <3>1
    <3>2. CASE j # i
      <4>1. t.lines[j] <= server.lines[j]
        BY <1>1, <1>5, <2>2, <2>3, <3>2 DEF SyncInv, SentIsStored
      <4>2. t.lines[j] \in Nat /\ server.lines[j] \in Nat /\ server.lines[j] <= a.lines[j]
        BY <1>0, <1>4, QuantityTypes
      <4>3. a.lines[j] \in Nat
        BY <1>4, CartSyncConstants DEF ServerCart
      <4> QED  BY <1>5, <2>2, <4>1, <4>2, <4>3, AtMost
    <3> QED  BY <3>1, <3>2
  <2>4. /\ server' \in ServerCart /\ server'.exists = server.exists /\ server'.read = server.read
        /\ \A j \in Items : server.lines[j] <= server'.lines[j]
    BY <1>4, <1>5
  <2>5. /\ retry' \in BOOLEAN /\ (retry => retry') /\ dirty' \in BOOLEAN /\ UNCHANGED faults
        /\ strays' \in SUBSET [lines : Quantities, todo : SUBSET Items]
    BY <1>0, <1>1, <1>5
  <2> QED  BY <1>1, <2>1, <2>2, <2>3, <2>4, <2>5, FlushMove
<1>6. CASE /\ Fault /\ server' \in {server, a} /\ \E retryable \in BOOLEAN : failed(f, retryable)
  <2>1. PICK x \in FlushState : GivesWay(f, x)
    BY <1>0, <1>6, FailedFacts
  <2>2. /\ server' \in ServerCart /\ server'.exists = server.exists /\ server'.read = server.read
        /\ \A j \in Items : server.lines[j] <= server'.lines[j]
    BY <1>0, <1>4, <1>6, Reflexive
  <2> QED  BY <1>0, <1>1, <1>6, <2>1, <2>2, GiveWayStep
<1>7. CASE missing(f) /\ UNCHANGED <<server, faults>>
  <2>1. PICK x \in FlushState : GivesWay(f, x)
    BY <1>0, <1>7, FailedFacts
  <2>2. /\ server' \in ServerCart /\ server'.exists = server.exists /\ server'.read = server.read
        /\ \A j \in Items : server.lines[j] <= server'.lines[j]
    BY <1>0, <1>7, Reflexive
  <2> QED  BY <1>0, <1>1, <1>7, <2>1, <2>2, GiveWayStep
<1> QED  BY <1>2, <1>5, <1>6, <1>7

LEMMA ReadBackStep ==
    ASSUME SyncInv, NEW f \in Flushes, readBack(f)
    PROVE  SyncInv'
<1> DEFINE t == flush[f]
<1>0. /\ TypeOK /\ t \in FlushState /\ DOMAIN flush = Flushes
      /\ retry \in BOOLEAN /\ dirty \in BOOLEAN /\ server \in ServerCart
      /\ strays \in SUBSET [lines : Quantities, todo : SUBSET Items]
  BY SyncTyped, SyncFields
<1>1. /\ t.pc = "add" /\ t.todo = {}
      /\ UNCHANGED <<local, booting, raced, online, debounce, latest, strays, changes>>
  BY DEF readBack
<1>2. CASE /\ server' = [server EXCEPT !.read = TRUE] /\ flush' = [flush EXCEPT ![f] = Idle]
           /\ dirty' = (dirty /\ ~t.fresh) /\ UNCHANGED <<retry, faults>>
  <2>1. /\ server' \in ServerCart /\ server'.exists = server.exists /\ server'.read = TRUE
        /\ server'.lines = server.lines
    BY <1>0, <1>2 DEF ServerCart
  <2>2. \A j \in Items : server.lines[j] <= server'.lines[j]
    BY <1>0, <2>1, Reflexive
  <2>3. (~raced /\ server'.exists) => \A i \in Items : t.lines[i] <= server'.lines[i]
    BY <1>1, <2>1 DEF SyncInv, SentIsStored
  <2>4. /\ retry' \in BOOLEAN /\ (retry => retry') /\ dirty' \in BOOLEAN /\ UNCHANGED faults
        /\ strays' \in SUBSET [lines : Quantities, todo : SUBSET Items]
    BY <1>0, <1>1, <1>2
  <2>5. Idle \in FlushState /\ Idle.pc = "idle"
    BY EmptyFacts
  <2> HIDE DEF Idle
  <2> QED  BY <1>1, <1>2, <2>1, <2>2, <2>3, <2>4, <2>5, FlushMove
<1>3. CASE /\ missing(f) \/ \E retryable \in BOOLEAN : failed(f, retryable)
           /\ Fault \/ UNCHANGED faults
           /\ UNCHANGED <<server, dirty>>
  <2>1. PICK x \in FlushState : GivesWay(f, x)
    BY <1>0, <1>3, FailedFacts
  <2>2. /\ server' \in ServerCart /\ server'.exists = server.exists /\ server'.read = server.read
        /\ \A j \in Items : server.lines[j] <= server'.lines[j]
    BY <1>0, <1>3, Reflexive
  <2> QED  BY <1>0, <1>1, <1>3, <2>1, <2>2, GiveWayStep
<1> QED  BY <1>2, <1>3 DEF readBack

LEMMA ConflictStep ==
    ASSUME SyncInv, NEW f \in Flushes, conflict(f) \/ attemptTimesOut(f)
    PROVE  SyncInv'
<1>0. /\ TypeOK /\ server \in ServerCart /\ flush[f].lines \in Quantities /\ flush[f].todo \in SUBSET Items
      /\ strays \in SUBSET [lines : Quantities, todo : SUBSET Items]
  BY SyncTyped, SyncFields
<1>1. /\ flush[f].pc = "add" /\ Fault
      /\ UNCHANGED <<local, booting, raced, server, online, debounce, latest, changes, dirty>>
  BY DEF conflict, attemptTimesOut, api
<1>2. strays' \in SUBSET [lines : Quantities, todo : SUBSET Items]
  <2>1. CASE conflict(f)
    BY <1>0, <2>1 DEF conflict
  <2>2. CASE attemptTimesOut(f)
    <3>1. strays' \subseteq strays \union {[lines |-> flush[f].lines, todo |-> flush[f].todo]}
      BY <2>2 DEF attemptTimesOut, Pending
    <3> QED  BY <1>0, <3>1
  <2> QED  BY <2>1, <2>2
<1>3. PICK x \in FlushState : GivesWay(f, x)
  <2>1. missing(f) \/ failed(f, TRUE)
    BY DEF conflict, attemptTimesOut
  <2> QED  BY <1>0, <2>1, FailedFacts
<1>4. /\ server' \in ServerCart /\ server'.exists = server.exists /\ server'.read = server.read
      /\ \A j \in Items : server.lines[j] <= server'.lines[j]
  BY <1>0, <1>1, Reflexive
<1> QED  BY <1>1, <1>2, <1>3, <1>4, GiveWayStep

\* The next attempt starts with all lines of the flush.
LEMMA NextAttemptFacts ==
    ASSUME TypeOK, AttemptsLeft, NEW f \in Flushes, flush[f].pc \in {"backoff", "recreate"}
    PROVE  /\ nextAttempt(f) \in FlushState /\ nextAttempt(f).pc = "add"
           /\ nextAttempt(f).lines = flush[f].lines /\ nextAttempt(f).fresh = flush[f].fresh
           /\ \A i \in Items : i \notin nextAttempt(f).todo => nextAttempt(f).lines[i] = 0
<1> DEFINE t == flush[f]
           T == {i \in Items : t.lines[i] > 0}
           x == [t EXCEPT !.pc = "add", !.attempt = t.attempt + 1, !.todo = T]
<1>0. t \in FlushState /\ t.attempt \in 0..MAX_ATTEMPTS - 1
  BY SyncFields
<1>1. x = nextAttempt(f)
  BY DEF nextAttempt
<1>2. t.attempt + 1 \in 0..MAX_ATTEMPTS - 1
  BY <1>0 DEF AttemptsLeft, MAX_ATTEMPTS
<1>3. T \in SUBSET Items /\ \A i \in Items : i \notin T => t.lines[i] = 0
  <2>1. \A i \in Items : t.lines[i] \in Nat
    BY QuantityTypes
  <2> QED  BY <2>1
<1> HIDE DEF T
<1>4. x \in FlushState /\ x.pc = "add" /\ x.lines = t.lines /\ x.fresh = t.fresh /\ x.todo = T
  BY <1>0, <1>2, <1>3 DEF FlushState
<1> HIDE DEF x
<1> QED  BY <1>1, <1>3, <1>4

LEMMA BackoffStep ==
    ASSUME SyncInv, NEW f \in Flushes, backoffElapsed(f)
    PROVE  SyncInv'
<1>0. /\ TypeOK /\ AttemptsLeft /\ server \in ServerCart /\ retry \in BOOLEAN /\ dirty \in BOOLEAN
      /\ strays \in SUBSET [lines : Quantities, todo : SUBSET Items]
  BY SyncTyped, SyncFields
<1>1. /\ flush[f].pc = "backoff" /\ flush' = [flush EXCEPT ![f] = nextAttempt(f)]
      /\ UNCHANGED <<local, booting, raced, server, online, debounce, retry, latest, strays,
                     changes, faults, dirty>>
  BY DEF backoffElapsed, api
<1>2. PICK x : x = nextAttempt(f)
  OBVIOUS
<1>3. /\ x \in FlushState /\ x.pc = "add" /\ x.lines = flush[f].lines /\ x.fresh = flush[f].fresh
      /\ \A i \in Items : i \notin x.todo => x.lines[i] = 0
  BY <1>0, <1>1, <1>2, NextAttemptFacts
<1>4. /\ server' \in ServerCart /\ server'.exists = server.exists /\ server'.read = server.read
      /\ server' = server /\ \A j \in Items : server.lines[j] <= server'.lines[j]
  BY <1>0, <1>1, Reflexive
<1>5. \A i \in Items : i \notin x.todo => x.lines[i] <= server'.lines[i]
  <2>1. \A i \in Items : server'.lines[i] \in Nat
    BY <1>0, <1>4, QuantityTypes
  <2>2. \A a \in Nat : 0 <= a
    OBVIOUS
  <2> QED  BY <1>3, <2>1, <2>2
<1>6. /\ retry' \in BOOLEAN /\ (retry => retry') /\ dirty' \in BOOLEAN /\ UNCHANGED faults
      /\ strays' \in SUBSET [lines : Quantities, todo : SUBSET Items]
  BY <1>0, <1>1
<1> QED  BY <1>1, <1>2, <1>3, <1>4, <1>5, <1>6, FlushMove

\* The cart is re-created: unless another flush loses by it, the latest one
\* sends all its lines anew.
LEMMA RecreateStep ==
    ASSUME SyncInv, NEW f \in Flushes, recreateCart(f)
    PROVE  SyncInv'
<1>0. TypeOK /\ AttemptsLeft /\ FreshIsComplete /\ LatestIsFresh /\ DOMAIN flush = Flushes
  BY SyncFields DEF SyncInv
<1>1. /\ flush[f].pc = "recreate" /\ createCart /\ flush' = [flush EXCEPT ![f] = nextAttempt(f)]
      /\ raced' = (raced \/ busy # {f} \/ f # latest)
      /\ UNCHANGED <<local, booting, online, debounce, retry, latest, strays, changes, dirty>>
  BY DEF recreateCart
<1>2. PICK x : x = nextAttempt(f)
  OBVIOUS
<1>3. /\ x \in FlushState /\ x.pc = "add" /\ x.lines = flush[f].lines /\ x.fresh = flush[f].fresh
      /\ \A i \in Items : i \notin x.todo => x.lines[i] = 0
  BY <1>0, <1>1, <1>2, NextAttemptFacts
<1>4. /\ flush'[f] = x /\ \A g \in Flushes : g # f => flush'[g] = flush[g]
      /\ flush' \in [Flushes -> FlushState]
  BY <1>0, <1>1, <1>2, <1>3, SyncFields
<1>5. server' \in ServerCart /\ (Fault \/ UNCHANGED faults)
  <2>1. CASE server' = [NoCart EXCEPT !.exists = TRUE] /\ UNCHANGED faults
    <3>1. NoCart \in ServerCart
      BY EmptyFacts
    <3> HIDE DEF NoCart
    <3> QED  BY <2>1, <3>1 DEF ServerCart
  <2>2. CASE Fault /\ UNCHANGED server
    BY <1>0, <2>2, SyncFields
  <2> QED  BY <1>1, <2>1, <2>2 DEF createCart
<1>6. TypeOK'
  <2>1. faults' \in 0..MaxFaults
    BY <1>0, <1>5, FaultType
  <2>2. raced' \in BOOLEAN
    BY <1>0, <1>1, SyncFields
  <2>3. /\ local' \in Quantities /\ booting' \in BOOLEAN /\ online' \in BOOLEAN /\ debounce' \in BOOLEAN
        /\ retry' \in BOOLEAN /\ dirty' \in BOOLEAN /\ latest' \in Flushes \union {NoFlush}
        /\ strays' \in SUBSET [lines : Quantities, todo : SUBSET Items] /\ changes' \in 0..MaxChanges
    BY <1>0, <1>1, SyncFields
  <2> QED  BY <1>4, <1>5, <2>1, <2>2, <2>3, SyncTypes
<1>7. AttemptsLeft'
  BY <1>0, <1>3, <1>4 DEF AttemptsLeft
<1>8. busy' = busy /\ f \in busy
  BY <1>1, <1>3, <1>4 DEF busy
<1>9. \A g \in busy : flush'[g].lines = flush[g].lines /\ flush'[g].fresh = flush[g].fresh
  BY <1>3, <1>4 DEF busy
<1>10. SentIsStored'
  <2> SUFFICES ASSUME ~raced', NEW g \in Flushes, flush'[g].pc = "add",
                      NEW i \in Items, i \notin flush'[g].todo
               PROVE  flush'[g].lines[i] <= server'.lines[i]
    BY DEF SentIsStored
  <2>1. g = f
    BY <1>1, <1>8 DEF busy
  <2>2. flush'[g].lines[i] = 0
    BY <1>3, <1>4, <2>1
  <2>3. server'.lines[i] \in Nat
    BY <1>5, CartSyncConstants DEF ServerCart
  <2>4. \A a \in Nat : 0 <= a
    OBVIOUS
  <2> QED  BY <2>2, <2>3, <2>4
<1>11. FreshIsComplete'
  BY <1>0, <1>1, <1>8, <1>9 DEF FreshIsComplete
<1>12. LatestIsFresh'
  BY <1>0, <1>1, <1>8, <1>9 DEF LatestIsFresh
<1>13. NothingForgotten'
  <2> SUFFICES ASSUME ~raced', online' PROVE Due'
    BY DEF NothingForgotten
  <2>1. latest = f
    BY <1>1
  <2>2. flush[f].fresh \/ debounce
    BY <1>0, <1>1, <1>8, <2>1 DEF LatestIsFresh
  <2> QED  BY <1>1, <1>8, <1>9, <2>1, <2>2 DEF Due
<1> QED  BY <1>6, <1>7, <1>10, <1>11, <1>12, <1>13 DEF SyncInv

\* flushSync: the new flush is the latest, and has every line.
LEMMA BeginStep ==
    ASSUME SyncInv, flushSync(TRUE), online' \in BOOLEAN, retry' \in BOOLEAN,
           UNCHANGED <<local, api, strays, changes, faults, dirty>>
    PROVE  SyncInv'
<1>0. TypeOK /\ AttemptsLeft /\ SentIsStored /\ FreshIsComplete /\ DOMAIN flush = Flushes
  BY SyncFields DEF SyncInv
<1> DEFINE T == {i \in Items : local[i] > 0}
           x == [pc |-> "add", lines |-> local, todo |-> T, attempt |-> 0, fresh |-> TRUE]
<1>1. PICK f \in Flushes : flush[f] = Idle /\ flush' = [flush EXCEPT ![f] = x] /\ latest' = f /\ debounce' = FALSE
  BY DEF flushSync
<1>2. T \in SUBSET Items /\ \A i \in Items : i \notin T => local[i] = 0
  <2>1. \A i \in Items : local[i] \in Nat
    BY <1>0, QuantityTypes
  <2> QED  BY <2>1
<1> HIDE DEF T
<1>3. x \in FlushState /\ x.pc = "add" /\ x.lines = local /\ x.fresh = TRUE /\ x.todo = T
  <2>1. local \in Quantities
    BY <1>0, SyncFields
  <2>2. 0 \in 0..MAX_ATTEMPTS - 1
    BY DEF MAX_ATTEMPTS
  <2> QED  BY <1>2, <2>1, <2>2 DEF FlushState
<1> HIDE DEF x
<1>4. /\ flush'[f] = x /\ \A g \in Flushes : g # f => flush'[g] = flush[g]
      /\ flush' \in [Flushes -> FlushState]
  BY <1>0, <1>1, <1>3, SyncFields
<1>u. UNCHANGED <<local, server, booting, raced, strays, changes, faults, dirty>>
  BY DEF api
<1>6. TypeOK'
  <2>1. /\ local' \in Quantities /\ server' \in ServerCart /\ booting' \in BOOLEAN /\ raced' \in BOOLEAN
        /\ dirty' \in BOOLEAN /\ changes' \in 0..MaxChanges /\ faults' \in 0..MaxFaults
        /\ strays' \in SUBSET [lines : Quantities, todo : SUBSET Items]
    BY <1>0, <1>u, SyncFields
  <2>2. latest' \in Flushes \union {NoFlush} /\ debounce' \in BOOLEAN
    BY <1>1
  <2> QED  BY <1>4, <2>1, <2>2, SyncTypes
<1>7. AttemptsLeft'
  BY <1>0, <1>3, <1>4 DEF AttemptsLeft
<1>8. f \in busy' /\ \A g \in busy' : g # f => g \in busy /\ flush'[g] = flush[g]
  BY <1>3, <1>4 DEF busy
<1>9. SentIsStored'
  <2> SUFFICES ASSUME ~raced, server.exists, NEW g \in Flushes, flush'[g].pc = "add",
                      NEW i \in Items, i \notin flush'[g].todo
               PROVE  flush'[g].lines[i] <= server.lines[i]
    BY <1>u DEF SentIsStored
  <2>1. CASE g = f
    <3>1. flush'[g].lines[i] = 0
      BY <1>2, <1>3, <1>4, <2>1
    <3>2. server.lines[i] \in Nat
      BY <1>0, QuantityTypes
    <3>3. \A a \in Nat : 0 <= a
      OBVIOUS
    <3> QED  BY <3>1, <3>2, <3>3
  <2>2. CASE g # f
    BY <1>0, <1>4, <2>2 DEF SentIsStored
  <2> QED  BY <2>1, <2>2
<1>10. FreshIsComplete'
  <2> SUFFICES ASSUME NEW g \in busy', flush'[g].fresh, NEW i \in Items
               PROVE  local[i] <= flush'[g].lines[i]
    BY <1>u DEF FreshIsComplete
  <2>1. CASE g = f
    <3>1. flush'[g].lines = local /\ local[i] \in Nat
      BY <1>0, <1>3, <1>4, <2>1, QuantityTypes
    <3>2. \A a \in Nat : a <= a
      OBVIOUS
    <3> QED  BY <3>1, <3>2
  <2>2. CASE g # f
    BY <1>0, <1>8, <2>2 DEF FreshIsComplete
  <2> QED  BY <2>1, <2>2
<1>11. LatestIsFresh' /\ Due'
  BY <1>1, <1>3, <1>4, <1>8 DEF LatestIsFresh, Due
<1> QED  BY <1>6, <1>7, <1>9, <1>10, <1>11 DEF SyncInv, NothingForgotten

\* Offline nothing is due.
LEMMA OfflineStep ==
    ASSUME SyncInv, online' = FALSE, debounce' \in BOOLEAN, retry' \in BOOLEAN, Fault \/ UNCHANGED faults,
           UNCHANGED <<local, api, latest, flush, strays, changes, dirty>>
    PROVE  SyncInv'
<1>0. TypeOK /\ AttemptsLeft /\ SentIsStored /\ FreshIsComplete
  BY DEF SyncInv
<1>u. UNCHANGED <<local, server, booting, raced, latest, flush, strays, changes, dirty>>
  BY DEF api
<1>1. TypeOK'
  <2>1. faults' \in 0..MaxFaults /\ flush' \in [Flushes -> FlushState]
    BY <1>0, <1>u, FaultType DEF TypeOK
  <2>2. /\ local' \in Quantities /\ server' \in ServerCart /\ booting' \in BOOLEAN /\ raced' \in BOOLEAN
        /\ dirty' \in BOOLEAN /\ changes' \in 0..MaxChanges /\ latest' \in Flushes \union {NoFlush}
        /\ strays' \in SUBSET [lines : Quantities, todo : SUBSET Items]
    BY <1>0, <1>u, SyncFields
  <2> QED  BY <2>1, <2>2, SyncTypes
<1>2. AttemptsLeft' /\ SentIsStored' /\ FreshIsComplete'
  BY <1>0, <1>u DEF AttemptsLeft, SentIsStored, FreshIsComplete, busy
<1> QED  BY <1>1, <1>2 DEF SyncInv, LatestIsFresh, NothingForgotten

\* The local cart is emptied, or the server's cart changes other than by a flush.
LEMMA CartsStep ==
    ASSUME SyncInv, local' = local \/ local' = Empty, server' \in ServerCart, booting' \in BOOLEAN,
           raced' \in BOOLEAN, raced => raced',
           ~raced' =>
             \/ /\ server'.exists => server.exists /\ \A j \in Items : server.lines[j] <= server'.lines[j]
                /\ server.read => server'.read
             \/ busy = {} /\ ~server.read,
           strays' \in SUBSET [lines : Quantities, todo : SUBSET Items], Fault \/ UNCHANGED faults,
           UNCHANGED <<online, debounce, retry, latest, flush, changes, dirty>>
    PROVE  SyncInv'
<1>0. TypeOK /\ AttemptsLeft /\ SentIsStored /\ FreshIsComplete /\ LatestIsFresh /\ NothingForgotten
  BY DEF SyncInv
<1>l. local' \in Quantities /\ \A i \in Items : local'[i] \in Nat /\ local[i] \in Nat /\ local'[i] <= local[i]
  <2>1. local' \in Quantities /\ local \in Quantities
    BY <1>0, SyncFields, EmptyFacts
  <2>2. \A q \in Quantities, i \in Items : q[i] \in Nat
    BY CartSyncConstants DEF Quantities
  <2>3. \A a \in Nat : 0 <= a /\ a <= a
    OBVIOUS
  <2>4. \A i \in Items : local'[i] \in Nat /\ local[i] \in Nat
    BY <2>1, <2>2
  <2>5. \A i \in Items : local'[i] = local[i] \/ local'[i] = 0
    BY EmptyFacts
  <2> QED  BY <2>1, <2>3, <2>4, <2>5
<1>q. \A i \in Items : /\ server.lines[i] \in Nat /\ server'.lines[i] \in Nat
                       /\ \A g \in Flushes : flush[g].lines[i] \in Nat
  <2>1. \A i \in Items : server'.lines[i] \in Nat
    BY CartSyncConstants DEF ServerCart
  <2> QED  BY <1>0, <2>1, QuantityTypes
<1>1. TypeOK'
  <2>1. faults' \in 0..MaxFaults /\ flush' \in [Flushes -> FlushState]
    BY <1>0, FaultType DEF TypeOK
  <2>2. /\ online' \in BOOLEAN /\ debounce' \in BOOLEAN /\ retry' \in BOOLEAN
        /\ dirty' \in BOOLEAN /\ changes' \in 0..MaxChanges /\ latest' \in Flushes \union {NoFlush}
    BY <1>0, SyncFields
  <2> QED  BY <1>l, <2>1, <2>2, SyncTypes
<1>2. AttemptsLeft' /\ LatestIsFresh' /\ busy' = busy
  BY <1>0 DEF AttemptsLeft, LatestIsFresh, busy
<1>3. SentIsStored'
  <2> SUFFICES ASSUME ~raced', server'.exists, NEW g \in Flushes, flush[g].pc = "add",
                      NEW i \in Items, i \notin flush[g].todo
               PROVE  flush[g].lines[i] <= server'.lines[i]
    BY DEF SentIsStored
  <2>1. g \in busy
    BY DEF busy
  <2>2. server.exists /\ server.lines[i] <= server'.lines[i]
    BY <2>1
  <2>3. flush[g].lines[i] <= server.lines[i]
    BY <1>0, <2>2 DEF SentIsStored
  <2> QED  BY <1>q, <2>2, <2>3, AtMost
<1>4. FreshIsComplete'
  <2> SUFFICES ASSUME NEW g \in busy, flush[g].fresh, NEW i \in Items
               PROVE  local'[i] <= flush[g].lines[i]
    BY <1>2 DEF FreshIsComplete
  <2>1. local[i] <= flush[g].lines[i] /\ g \in Flushes
    BY <1>0 DEF FreshIsComplete, busy
  <2> QED  BY <1>l, <1>q, <2>1, AtMost
<1>5. NothingForgotten'
  <2> SUFFICES ASSUME ~raced', online PROVE Due' \/ local' = Empty \/ (server'.read /\ Stored')
    BY DEF NothingForgotten
  <2>1. CASE Due
    BY <1>2, <2>1 DEF Due
  <2>2. CASE local = Empty
    BY <2>2
  <2>3. CASE server.read /\ Stored
    <3>1. server'.read
      BY <2>3
    <3>2. ASSUME server'.exists, NEW i \in Items PROVE local'[i] <= server'.lines[i]
      <4>1. server.exists /\ server.lines[i] <= server'.lines[i]
        BY <2>3, <3>2
      <4>2. local[i] <= server.lines[i]
        BY <2>3, <4>1 DEF Stored
      <4>3. local[i] <= server'.lines[i]
        BY <1>l, <1>q, <4>1, <4>2, AtMost
      <4> QED  BY <1>l, <1>q, <4>3, AtMost
    <3> QED  BY <3>1, <3>2 DEF Stored
  <2> QED  BY <1>0, <2>1, <2>2, <2>3 DEF NothingForgotten
<1> QED  BY <1>1, <1>2, <1>3, <1>4, <1>5 DEF SyncInv

\* A change of the local cart outdates the flushes under way and sets the timer.
LEMMA ChangeStep ==
    ASSUME SyncInv, changeCart
    PROVE  SyncInv'
<1>0. TypeOK /\ AttemptsLeft /\ SentIsStored /\ DOMAIN flush = Flushes
  BY SyncFields DEF SyncInv
<1>1. PICK i \in Items, n \in 0..MaxQuantity : local' = [local EXCEPT ![i] = n]
  BY DEF changeCart
<1>2. /\ changes < MaxChanges /\ changes' = changes + 1 /\ debounce' = TRUE /\ dirty' = TRUE
      /\ flush' = [f \in Flushes |-> IF f \in busy THEN [flush[f] EXCEPT !.fresh = FALSE] ELSE flush[f]]
      /\ UNCHANGED <<server, booting, raced, online, retry, latest, strays, faults>>
  BY DEF changeCart, api
<1>3. /\ flush' \in [Flushes -> FlushState]
      /\ \A f \in Flushes : /\ flush'[f].pc = flush[f].pc /\ flush'[f].lines = flush[f].lines
                            /\ flush'[f].todo = flush[f].todo /\ flush'[f].attempt = flush[f].attempt
                            /\ f \in busy => flush'[f].fresh = FALSE
  <2>1. \A t \in FlushState : /\ [t EXCEPT !.fresh = FALSE] \in FlushState
                              /\ [t EXCEPT !.fresh = FALSE].pc = t.pc
                              /\ [t EXCEPT !.fresh = FALSE].lines = t.lines
                              /\ [t EXCEPT !.fresh = FALSE].todo = t.todo
                              /\ [t EXCEPT !.fresh = FALSE].attempt = t.attempt
                              /\ [t EXCEPT !.fresh = FALSE].fresh = FALSE
    BY DEF FlushState
  <2>2. \A f \in Flushes : flush[f] \in FlushState
    BY <1>0, SyncFields
  <2>3. ASSUME NEW f \in Flushes
        PROVE  /\ flush'[f] \in FlushState
               /\ flush'[f].pc = flush[f].pc /\ flush'[f].lines = flush[f].lines
               /\ flush'[f].todo = flush[f].todo /\ flush'[f].attempt = flush[f].attempt
               /\ f \in busy => flush'[f].fresh = FALSE
    <3>1. CASE f \in busy
      <4>1. flush'[f] = [flush[f] EXCEPT !.fresh = FALSE]
        BY <1>2, <3>1
      <4> QED  BY <2>1, <2>2, <4>1
    <3>2. CASE f \notin busy
      <4>1. flush'[f] = flush[f]
        BY <1>2, <3>2
      <4> QED  BY <2>2, <3>2, <4>1
    <3> QED  BY <3>1, <3>2
  <2>4. DOMAIN flush' = Flushes /\ flush' = [f \in Flushes |-> flush'[f]]
    BY <1>2
  <2>5. flush' \in [Flushes -> FlushState]
    BY <2>3, <2>4
  <2> QED  BY <2>3, <2>5
<1>4. TypeOK'
  <2>1. local' \in Quantities
    BY <1>0, <1>1, SyncFields DEF Quantities
  <2>2. changes' \in 0..MaxChanges
    BY <1>0, <1>2, SyncFields, CartSyncConstants
  <2>3. /\ server' \in ServerCart /\ booting' \in BOOLEAN /\ online' \in BOOLEAN /\ debounce' \in BOOLEAN
        /\ retry' \in BOOLEAN /\ dirty' \in BOOLEAN /\ raced' \in BOOLEAN
        /\ latest' \in Flushes \union {NoFlush} /\ faults' \in 0..MaxFaults
        /\ strays' \in SUBSET [lines : Quantities, todo : SUBSET Items]
    BY <1>0, <1>2, SyncFields
  <2> QED  BY <1>3, <2>1, <2>2, <2>3, SyncTypes
<1>5. AttemptsLeft' /\ SentIsStored'
  BY <1>0, <1>2, <1>3 DEF AttemptsLeft, SentIsStored
<1>6. FreshIsComplete'
  BY <1>3 DEF FreshIsComplete, busy
<1>7. LatestIsFresh' /\ NothingForgotten'
  BY <1>2 DEF LatestIsFresh, NothingForgotten, Due
<1> QED  BY <1>4, <1>5, <1>6, <1>7 DEF SyncInv

LEMMA StepSyncInv ==
    ASSUME SyncInv, Next
    PROVE  SyncInv'
<1>0. /\ TypeOK /\ local \in Quantities /\ server \in ServerCart /\ online \in BOOLEAN /\ retry \in BOOLEAN
      /\ booting \in BOOLEAN /\ raced \in BOOLEAN
      /\ strays \in SUBSET [lines : Quantities, todo : SUBSET Items]
  BY SyncTyped, SyncFields
<1>r. \A j \in Items : server.lines[j] <= server.lines[j]
  BY <1>0, Reflexive
<1>n. NoCart \in ServerCart /\ NoCart.read = FALSE /\ NoCart.exists = FALSE
  BY EmptyFacts DEF NoCart
<1>1. CASE initializeCart
  <2>1. /\ booting' = FALSE /\ createCart /\ raced' = (raced \/ busy # {} \/ server # NoCart)
        /\ UNCHANGED <<local, online, debounce, retry, latest, flush, strays, dirty, changes>>
    BY <1>1 DEF initializeCart, service
  <2>2. server' \in ServerCart /\ (Fault \/ UNCHANGED faults)
    <3> HIDE DEF NoCart
    <3>1. [NoCart EXCEPT !.exists = TRUE] \in ServerCart
      BY <1>n DEF ServerCart
    <3> QED  BY <1>0, <2>1, <3>1 DEF createCart
  <2>3. raced' \in BOOLEAN /\ (raced => raced') /\ (~raced' => busy = {} /\ ~server.read)
    BY <1>0, <1>n, <2>1
  <2> QED  BY <1>0, <2>1, <2>2, <2>3, CartsStep
<1>2. CASE expireCart
  <2> HIDE DEF NoCart
  <2>1. /\ server' = [NoCart EXCEPT !.read = server.read] /\ Fault
        /\ UNCHANGED <<local, booting, raced, online, debounce, retry, latest, flush, strays, dirty, changes>>
    BY <1>2 DEF expireCart, service
  <2>2. server.read \in BOOLEAN
    BY <1>0, SyncFields
  <2>3. server' \in ServerCart /\ server'.read = server.read /\ server'.exists = FALSE
    BY <1>n, <2>1, <2>2 DEF ServerCart
  <2> QED  BY <1>0, <2>1, <2>3, CartsStep
<1>3. CASE resetCart
  <2>1. /\ local' = Empty
        /\ UNCHANGED <<server, booting, raced, online, debounce, retry, latest, flush, strays, dirty, changes, faults>>
    BY <1>3 DEF resetCart, service, api
  <2> QED  BY <1>0, <1>r, <2>1, CartsStep
<1>4. CASE \E s \in strays : strayAdds(s)
  <2>1. PICK s \in strays : strayAdds(s)
    BY <1>4
  <2>2. s.lines \in Quantities /\ s.todo \in SUBSET Items /\ s \in [lines : Quantities, todo : SUBSET Items]
    BY <1>0, <2>1
  <2>3. UNCHANGED <<local, booting, raced, online, debounce, retry, latest, flush, changes, faults, dirty>>
    BY <2>1 DEF strayAdds
  <2>4. CASE \E i \in s.todo :
                /\ server.exists /\ server' = Added(i, s.lines[i])
                /\ strays' = Pending((strays \ {s}) \union {[s EXCEPT !.todo = @ \ {i}]})
    <3>1. PICK i \in s.todo :
                /\ server.exists /\ server' = Added(i, s.lines[i])
                /\ strays' = Pending((strays \ {s}) \union {[s EXCEPT !.todo = @ \ {i}]})
      BY <2>4
    <3>2. i \in Items /\ s.lines[i] \in 0..MaxQuantity
      BY <2>2 DEF Quantities
    <3>3. /\ server' \in ServerCart /\ server'.exists = server.exists /\ server'.read = server.read
          /\ \A j \in Items : server.lines[j] <= server'.lines[j]
      BY <1>0, <3>1, <3>2, AddedFacts
    <3>4. [s EXCEPT !.todo = @ \ {i}] \in [lines : Quantities, todo : SUBSET Items]
      BY <2>2
    <3>5. strays' \in SUBSET [lines : Quantities, todo : SUBSET Items]
      BY <1>0, <3>1, <3>4 DEF Pending
    <3> QED  BY <1>0, <2>3, <3>3, <3>5, CartsStep
  <2>5. CASE strays' = strays \ {s} /\ UNCHANGED server
    <3>1. strays' \in SUBSET [lines : Quantities, todo : SUBSET Items]
      BY <1>0, <2>5
    <3> QED  BY <1>0, <1>r, <2>3, <2>5, <3>1, CartsStep
  <2> QED  BY <2>1, <2>4, <2>5 DEF strayAdds
<1>5. CASE debounceElapsed
  <2>1. CASE online
    <3>1. flushSync(TRUE) /\ online' = online /\ retry' = retry
      BY <1>5, <2>1 DEF debounceElapsed, flushSync
    <3> QED  BY <1>0, <1>5, <3>1, BeginStep DEF debounceElapsed
  <2>2. CASE ~online
    <3>1. online' = FALSE /\ debounce' \in BOOLEAN /\ retry' \in BOOLEAN
          /\ UNCHANGED <<local, api, latest, flush, strays, changes, dirty, faults>>
      BY <1>0, <1>5, <2>2, SyncFields DEF debounceElapsed, flushSync
    <3> QED  BY <3>1, OfflineStep
  <2> QED  BY <2>1, <2>2
<1>6. CASE retryElapsed
  <2>1. CASE online
    <3>1. flushSync(TRUE) /\ online' = online /\ retry' = FALSE
      BY <1>6, <2>1 DEF retryElapsed, flushSync
    <3> QED  BY <1>0, <1>6, <3>1, BeginStep DEF retryElapsed
  <2>2. CASE ~online
    <3>1. online' = FALSE /\ debounce' \in BOOLEAN /\ retry' \in BOOLEAN
          /\ UNCHANGED <<local, api, latest, flush, strays, changes, dirty, faults>>
      BY <1>0, <1>6, <2>2, SyncFields DEF retryElapsed, flushSync
    <3> QED  BY <3>1, OfflineStep
  <2> QED  BY <2>1, <2>2
<1>7. CASE handleOnline
  BY <1>0, <1>7, BeginStep DEF handleOnline
<1>8. CASE handleOffline
  <2>1. /\ online' = FALSE /\ debounce' = FALSE /\ retry' = FALSE /\ Fault
        /\ UNCHANGED <<local, api, latest, flush, strays, changes, dirty>>
    BY <1>8 DEF handleOffline
  <2> QED  BY <2>1, OfflineStep
<1>9. CASE changeCart
  BY <1>9, ChangeStep
<1>10. CASE \E f \in Flushes : FlushStep(f) \/ conflict(f) \/ attemptTimesOut(f)
  BY <1>10, AddLineStep, ReadBackStep, BackoffStep, RecreateStep, ConflictStep DEF FlushStep
<1> QED  BY <1>1, <1>2, <1>3, <1>4, <1>5, <1>6, <1>7, <1>8, <1>9, <1>10 DEF Next

LEMMA InitSyncInv == Init => SyncInv
<1> SUFFICES ASSUME Init PROVE SyncInv
  OBVIOUS
<1>0. /\ local = Empty /\ server = NoCart /\ booting = TRUE /\ online = TRUE /\ debounce = FALSE /\ retry = FALSE
      /\ latest = NoFlush /\ flush = [f \in Flushes |-> Idle] /\ strays = {} /\ changes = 0 /\ faults = 0
      /\ dirty = FALSE /\ raced = FALSE
  BY DEF Init
<1>1. flush \in [Flushes -> FlushState] /\ \A f \in Flushes : flush[f].pc = "idle"
  BY <1>0, EmptyFacts
<1>2. TypeOK
  <2>1. local \in Quantities /\ server \in ServerCart /\ strays \subseteq [lines : Quantities, todo : SUBSET Items]
        /\ latest \in Flushes \union {NoFlush}
    BY <1>0, EmptyFacts
  <2>2. changes \in 0..MaxChanges /\ faults \in 0..MaxFaults
    BY <1>0, CartSyncConstants
  <2>3. {booting, online, debounce, retry, dirty, raced} \subseteq BOOLEAN
    BY <1>0, Zenon
  <2> QED  BY <1>1, <2>1, <2>2, <2>3 DEF TypeOK
<1>3. AttemptsLeft /\ SentIsStored /\ busy = {}
  BY <1>1 DEF AttemptsLeft, SentIsStored, busy
<1>4. FreshIsComplete /\ LatestIsFresh /\ NothingForgotten
  BY <1>0, <1>3 DEF FreshIsComplete, LatestIsFresh, NothingForgotten
<1> QED  BY <1>2, <1>3, <1>4 DEF SyncInv

LEMMA StutterSyncInv == SyncInv /\ UNCHANGED vars => SyncInv'
<1> SUFFICES ASSUME SyncInv, UNCHANGED vars PROVE SyncInv'
  OBVIOUS
<1>1. /\ local' = local /\ UNCHANGED <<server, booting, raced, online, debounce, retry, latest, flush, strays,
                                      dirty, changes, faults>>
  BY DEF vars
<1>2. /\ TypeOK /\ server \in ServerCart /\ booting \in BOOLEAN /\ raced \in BOOLEAN
      /\ strays \in SUBSET [lines : Quantities, todo : SUBSET Items]
  BY SyncTyped, SyncFields
<1>3. \A j \in Items : server.lines[j] <= server.lines[j]
  BY <1>2, Reflexive
<1> QED  BY <1>1, <1>2, <1>3, CartsStep

(***************************************************************************)
(* The cart sync keeps its bookkeeping in every reachable state: whatever  *)
(* of the local cart is not on the server is owed by a timer or by the     *)
(* latest flush (CartService.flushSync, ApiCart.execute).                  *)
(***************************************************************************)
THEOREM SyncInvariant == Spec => []SyncInv
<1>1. SyncInv /\ [Next]_vars => SyncInv'
  BY StepSyncInv, StutterSyncInv
<1> QED  BY <1>1, InitSyncInv, PTL DEF Spec

(***************************************************************************)
(* For any number of items, flushes and faults: when no flush is under way *)
(* and no timer is set, the cart ApiCart is on holds every line of the     *)
(* local cart, unless it was re-created under another flush.               *)
(***************************************************************************)
THEOREM RestMeansSynced == Spec => []SyncedCartHasLines
<1>1. SyncInv => SyncedCartHasLines
  <2> SUFFICES ASSUME SyncInv, AtRest, ~raced, server.exists, NEW i \in Items
               PROVE  local[i] <= server.lines[i]
    BY DEF SyncedCartHasLines
  <2>1. ~Due
    BY DEF AtRest, Due
  <2>2. local = Empty \/ Stored
    BY <2>1 DEF AtRest, SyncInv, NothingForgotten
  <2>3. CASE local = Empty
    <3>1. local[i] = 0 /\ server.lines[i] \in Nat
      BY <2>3, EmptyFacts, SyncTyped, QuantityTypes
    <3>2. \A a \in Nat : 0 <= a
      OBVIOUS
    <3> QED  BY <3>1, <3>2
  <2> QED  BY <2>2, <2>3 DEF Stored
<1> QED  BY <1>1, SyncInvariant, PTL


\* A flush that fails is retried by itself, by the latest one, or by the timer.
LEMMA StrandedGivesWay ==
    ASSUME SyncInv, NoChangeIsStranded, NEW f \in Flushes, NEW r, failed(f, r) \/ missing(f),
           UNCHANGED <<online, debounce, latest, dirty>>
    PROVE  NoChangeIsStranded'
<1>0. TypeOK /\ DOMAIN flush = Flushes /\ retry \in BOOLEAN
  BY SyncTyped, SyncFields
<1>1. PICK x \in FlushState : GivesWay(f, x)
  BY <1>0, FailedFacts
<1>2. \A g \in Flushes : flush'[g] = IF g = f THEN x ELSE flush[g]
  BY <1>0, <1>1 DEF GivesWay
<1>3. CASE x = Idle /\ retry' = (retry \/ f = latest)
  BY <1>0, <1>2, <1>3 DEF NoChangeIsStranded, busy
<1>4. CASE x.pc \in {"backoff", "recreate"} /\ retry' = retry
  BY <1>0, <1>2, <1>4 DEF NoChangeIsStranded, busy
<1> QED  BY <1>1, <1>3, <1>4 DEF GivesWay

\* A flush that begins becomes the one the change depends on.
LEMMA StrandedBegins ==
    ASSUME SyncInv, flushSync(TRUE)
    PROVE  NoChangeIsStranded'
<1>0. DOMAIN flush = Flushes
  BY SyncTyped, SyncFields
<1>1. PICK f \in Flushes :
        /\ flush' = [flush EXCEPT ![f] =
              [pc |-> "add", lines |-> local, todo |-> {i \in Items : local[i] > 0},
               attempt |-> 0, fresh |-> TRUE]]
        /\ latest' = f
  BY DEF flushSync
<1>2. flush'[f].pc = "add"
  BY <1>0, <1>1
<1> QED  BY <1>1, <1>2 DEF NoChangeIsStranded, busy

\* The next attempt of a flush is under way.
LEMMA StrandedTriesAgain ==
    ASSUME SyncInv, NoChangeIsStranded, NEW f \in Flushes, NEW x, x.pc = "add",
           flush' = [flush EXCEPT ![f] = x],
           UNCHANGED <<online, debounce, retry, latest, dirty>>
    PROVE  NoChangeIsStranded'
<1>0. DOMAIN flush = Flushes
  BY SyncTyped, SyncFields
<1>1. \A g \in Flushes : flush'[g] = IF g = f THEN x ELSE flush[g]
  BY <1>0
<1> QED  BY <1>1 DEF NoChangeIsStranded, busy

LEMMA StrandedStep ==
    ASSUME SyncInv, NoChangeIsStranded, Next
    PROVE  NoChangeIsStranded'
<1>0. /\ TypeOK /\ DOMAIN flush = Flushes
      /\ \A f \in Flushes : flush[f] \in FlushState
  BY SyncTyped, SyncFields
<1>1. CASE initializeCart \/ expireCart \/ resetCart
  BY <1>1 DEF initializeCart, expireCart, resetCart, service, NoChangeIsStranded, busy
<1>2. CASE changeCart
  BY <1>2 DEF changeCart, NoChangeIsStranded
<1>3. CASE debounceElapsed \/ retryElapsed
  <2>1. CASE online
    BY <1>3, <2>1, StrandedBegins DEF debounceElapsed, retryElapsed
  <2>2. CASE ~online
    BY <1>3, <2>2 DEF debounceElapsed, retryElapsed, NoChangeIsStranded
  <2> QED  BY <2>1, <2>2
<1>4. CASE handleOnline
  BY <1>4, StrandedBegins DEF handleOnline
<1>5. CASE handleOffline
  BY <1>5 DEF handleOffline, NoChangeIsStranded
<1>6. ASSUME NEW f \in Flushes, addLine(f)
      PROVE  NoChangeIsStranded'
  <2>1. UNCHANGED <<online, debounce, latest, dirty>>
    BY <1>6 DEF addLine
  <2>2. CASE \E r \in BOOLEAN : failed(f, r)
    BY <2>1, <2>2, StrandedGivesWay
  <2>3. CASE missing(f)
    BY <2>1, <2>3, StrandedGivesWay
  <2>4. CASE \E i \in Items : flush' = [flush EXCEPT ![f].todo = @ \ {i}] /\ retry' = retry
    <3>1. PICK i \in Items : flush' = [flush EXCEPT ![f].todo = @ \ {i}]
      BY <2>4
    <3> DEFINE x == [flush[f] EXCEPT !.todo = @ \ {i}]
    <3>2. x.pc = "add" /\ flush' = [flush EXCEPT ![f] = x]
      BY <1>0, <1>6, <3>1 DEF addLine, FlushState
    <3> HIDE DEF x
    <3> QED  BY <2>1, <2>4, <3>2, StrandedTriesAgain
  <2>5. flush[f].todo \subseteq Items
    BY <1>0 DEF FlushState
  <2> QED  BY <1>6, <2>2, <2>3, <2>4, <2>5 DEF addLine
<1>7. ASSUME NEW f \in Flushes, readBack(f)
      PROVE  NoChangeIsStranded'
  <2>1. UNCHANGED <<online, debounce, latest>>
    BY <1>7 DEF readBack
  <2>2. CASE UNCHANGED dirty /\ (missing(f) \/ \E r \in BOOLEAN : failed(f, r))
    BY <2>1, <2>2, StrandedGivesWay
  <2>3. CASE flush' = [flush EXCEPT ![f] = Idle] /\ dirty' = (dirty /\ ~flush[f].fresh) /\ retry' = retry
    <3>1. \A g \in Flushes : g # f => flush'[g] = flush[g]
      BY <1>0, <2>3
    <3>2. flush[f].pc # "idle" /\ f \in busy
      BY <1>7 DEF readBack, busy
    <3>3. CASE latest = f
      BY <2>1, <2>3, <3>2, <3>3 DEF SyncInv, LatestIsFresh, NoChangeIsStranded
    <3>4. CASE latest # f
      BY <2>1, <2>3, <3>1, <3>4 DEF NoChangeIsStranded, busy
    <3> QED  BY <3>3, <3>4
  <2> QED  BY <1>7, <2>2, <2>3 DEF readBack
<1>8. ASSUME NEW f \in Flushes, backoffElapsed(f) \/ recreateCart(f)
      PROVE  NoChangeIsStranded'
  <2> DEFINE x == nextAttempt(f)
  <2>1. x.pc = "add"
    BY <1>0 DEF nextAttempt, FlushState
  <2>2. flush' = [flush EXCEPT ![f] = x] /\ UNCHANGED <<online, debounce, retry, latest, dirty>>
    BY <1>8 DEF backoffElapsed, recreateCart
  <2> HIDE DEF x
  <2> QED  BY <2>1, <2>2, StrandedTriesAgain
<1>9. ASSUME NEW f \in Flushes, conflict(f) \/ attemptTimesOut(f)
      PROVE  NoChangeIsStranded'
  BY <1>9, StrandedGivesWay DEF conflict, attemptTimesOut
<1>10. ASSUME NEW s \in strays, strayAdds(s)
       PROVE  NoChangeIsStranded'
  BY <1>10 DEF strayAdds, NoChangeIsStranded, busy
<1> QED
  BY <1>1, <1>2, <1>3, <1>4, <1>5, <1>6, <1>7, <1>8, <1>9, <1>10 DEF Next, FlushStep

\* For any number of items, flushes, changes and faults, a change made while
\* the kiosk is online is never left to nobody.
THEOREM ChangesAreNotStranded == Spec => []NoChangeIsStranded
<1>1. Init => NoChangeIsStranded
  BY DEF Init, NoChangeIsStranded
<1>2. SyncInv /\ NoChangeIsStranded /\ [Next]_vars => NoChangeIsStranded'
  <2>1. CASE UNCHANGED vars
    BY <2>1 DEF vars, NoChangeIsStranded, busy
  <2> QED
    BY <2>1, StrandedStep
<1> QED
  BY <1>1, <1>2, SyncInvariant, PTL DEF Spec
=============================================================================
