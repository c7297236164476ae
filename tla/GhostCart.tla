----------------------------- MODULE GhostCart ------------------------------
(***************************************************************************)
(* The ghost cart (apps/kiosk/src/ghost-cart): a WebRTC data channel to    *)
(* the customer's phone.  The offer and the answer travel by QR code or    *)
(* NFC tag; the session guards itself with a handshake timer, and once the *)
(* channel is open with a ping and a staleness interval of equal period.   *)
(*                                                                         *)
(* The peer connection, the channel and the phone are external: their      *)
(* events are actions, and the listener the session installed runs in the  *)
(* same step.  close() fires no event.  Messages are numbered by send().   *)
(***************************************************************************)
EXTENDS Naturals, Sequences

CONSTANTS
    MAX_QUEUED_MESSAGES,
    StaleTicks,   \* STALE_TIMEOUT_MS in units of PING_INTERVAL_MS
    MaxSends,     \* bound on calls of send()
    MaxFlaps      \* bound on connections lost and found again

ASSUME GhostConstants ==
    /\ MAX_QUEUED_MESSAGES \in Nat /\ StaleTicks \in Nat
    /\ MaxSends \in Nat /\ MaxFlaps \in Nat

VARIABLES
    offer,          \* createOffer: "none", "gathering" or "shown"
    nfc,            \* readNdefAnswer: "idle", "scanning" or "settled"
    phone,          \* "absent", "present" or "gone"
    pc,             \* pc.connectionState
    channel,        \* channel.readyState
    closed,
    handshakeTimer, \* it is set
    keepalive,      \* pingTimer and staleTimer are set
    silence,        \* intervals since lastSeen
    outboundQueue,
    sends,          \* calls of send() so far
    wire,           \* messages the channel accepted
    flaps

ghostVars == <<offer, nfc, phone, pc, channel, closed, handshakeTimer,
               keepalive, silence, outboundQueue, sends, wire, flaps>>

signaling == <<offer, nfc>>
traffic == <<outboundQueue, sends, wire>>
timers == <<handshakeTimer, keepalive>>

\* A payload read from a QR code or a tag.
Envelopes == {"offer", "answer", "malformed"}

GhostTypeOK ==
    /\ offer \in {"none", "gathering", "shown"}
    /\ nfc \in {"idle", "scanning", "settled"}
    /\ phone \in {"absent", "present", "gone"}
    /\ pc \in {"new", "connecting", "connected", "disconnected", "closed"}
    /\ channel \in {"connecting", "open", "closed"}
    /\ closed \in BOOLEAN /\ handshakeTimer \in BOOLEAN /\ keepalive \in BOOLEAN
    /\ silence \in 0..StaleTicks
    /\ outboundQueue \in Seq(1..MaxSends) /\ wire \in Seq(1..MaxSends)
    /\ sends \in 0..MaxSends /\ flaps \in 0..MaxFlaps

\* createGhostCartSession: the handshake is bounded from the start.
GhostInit ==
    /\ offer = "none" /\ nfc = "idle" /\ phone = "absent"
    /\ pc = "new" /\ channel = "connecting" /\ closed = FALSE
    /\ handshakeTimer = TRUE /\ keepalive = FALSE
    /\ silence = 0
    /\ outboundQueue = <<>> /\ sends = 0 /\ wire = <<>>
    /\ flaps = 0

-----------------------------------------------------------------------------
(* Closing *)

clearTimers == handshakeTimer' = FALSE /\ keepalive' = FALSE

close ==
    /\ closed' = TRUE
    /\ clearTimers
    /\ channel' = "closed"
    /\ pc' = "closed"

userCloses ==
    /\ ~closed
    /\ close
    /\ UNCHANGED <<signaling, phone, silence, traffic, flaps>>

\* Mutant: a connection that never began has nothing to close.
handshakeTimesOutConnecting ==
    /\ handshakeTimer
    /\ pc # "new"
    /\ close
    /\ UNCHANGED <<signaling, phone, silence, traffic, flaps>>

handshakeTimesOut ==
    /\ handshakeTimer
    /\ ~closed
    /\ close
    /\ UNCHANGED <<signaling, phone, silence, traffic, flaps>>

-----------------------------------------------------------------------------
(* Signaling *)

\* The listener of connectionstatechange.
onConnectionState(state) ==
    IF state = "failed" THEN close
    ELSE /\ pc' = state
         /\ handshakeTimer' = (handshakeTimer /\ state # "connected")
         /\ UNCHANGED <<closed, channel, keepalive>>

createOffer ==
    /\ offer = "none"
    /\ offer' = "gathering"
    /\ UNCHANGED <<nfc, phone, pc, channel, closed, timers, silence, traffic, flaps>>

\* waitForIceGathering: gathering completes, or its timer elapses first.
waitForIceGathering ==
    /\ offer = "gathering"
    /\ offer' = "shown"
    /\ UNCHANGED <<nfc, phone, pc, channel, closed, timers, silence, traffic, flaps>>

isEnvelope(e) == e \in {"offer", "answer"}

\* setRemoteDescription takes an answer to a local offer, once.
acceptAnswer(e) ==
    IF isEnvelope(e) /\ e = "answer" /\ pc = "new" /\ offer # "none"
    THEN onConnectionState("connecting") /\ phone' = "present"
    ELSE UNCHANGED <<pc, phone, channel, closed, timers>>

\* The customer holds the phone's code to the scanner.
parseQrPayload ==
    /\ offer = "shown" /\ phone # "gone" /\ pc = "new"
    /\ \E e \in Envelopes : acceptAnswer(e)
    /\ UNCHANGED <<signaling, silence, traffic, flaps>>

readNdefAnswer ==
    /\ offer = "shown" /\ nfc = "idle"
    /\ nfc' = "scanning"
    /\ UNCHANGED <<offer, phone, pc, channel, closed, timers, silence, traffic, flaps>>

\* A tag of ours settles the promise whether or not its content is valid.
onReading ==
    /\ nfc = "scanning" /\ phone # "gone"
    /\ nfc' = "settled"
    /\ \E e \in Envelopes : acceptAnswer(e)
    /\ UNCHANGED <<offer, silence, traffic, flaps>>

\* An error event, an abort, or a scan that cannot start.
nfcRejected ==
    /\ nfc = "scanning"
    /\ nfc' = "settled"
    /\ UNCHANGED <<offer, phone, pc, channel, closed, timers, silence, traffic, flaps>>

-----------------------------------------------------------------------------
(* Events of the peer connection and the channel *)

iceConnects ==
    /\ pc = "connecting" /\ phone = "present"
    /\ onConnectionState("connected")
    /\ UNCHANGED <<signaling, phone, silence, traffic, flaps>>

iceDisconnects ==
    /\ pc \in {"connecting", "connected"}
    /\ phone = "gone" \/ flaps < MaxFlaps
    /\ flaps' = IF phone = "gone" THEN flaps ELSE flaps + 1
    /\ onConnectionState("disconnected")
    /\ UNCHANGED <<signaling, phone, silence, traffic>>

iceReconnects ==
    /\ pc = "disconnected" /\ phone = "present"
    /\ onConnectionState("connected")
    /\ UNCHANGED <<signaling, phone, silence, traffic, flaps>>

iceFails ==
    /\ pc \in {"connecting", "disconnected"}
    /\ onConnectionState("failed")
    /\ UNCHANGED <<signaling, phone, silence, traffic, flaps>>

\* Mutant: the queue is emptied from its end.
flushQueueBackwards(q) == {[i \in DOMAIN q |-> q[Len(q) + 1 - i]]}

Increasing(s) == \A i, j \in DOMAIN s : i < j => s[i] < s[j]

\* What the channel may get of the queue: a send that throws loses its
\* message, and the others keep their order.
flushQueue(q) ==
    UNION {{[i \in 1..n |-> q[kept[i]]] :
              kept \in {k \in [1..n -> DOMAIN q] : Increasing(k)}} : n \in 0..Len(q)}

channelOpens ==
    /\ channel = "connecting" /\ pc = "connected" /\ phone = "present"
    /\ channel' = "open"
    /\ silence' = 0
    /\ handshakeTimer' = FALSE
    /\ \E flushed \in flushQueue(outboundQueue) : wire' = wire \o flushed
    /\ outboundQueue' = <<>>
    /\ keepalive' = TRUE
    /\ UNCHANGED <<signaling, phone, pc, closed, sends, flaps>>

\* A message of the phone: a ping, the pong to ours, or a cart.
messageArrives ==
    /\ channel = "open" /\ phone = "present" /\ pc = "connected"
    /\ silence # 0
    /\ silence' = 0
    /\ UNCHANGED <<signaling, phone, pc, channel, closed, timers, traffic, flaps>>

\* The phone closes the channel: the session installed no listener for it.
channelCloses ==
    /\ channel = "open" /\ phone = "present"
    /\ channel' = "closed"
    /\ phone' = "gone"
    /\ UNCHANGED <<signaling, pc, closed, timers, silence, traffic, flaps>>

\* One period of the ping and the staleness interval.
staleTick ==
    /\ keepalive
    /\ IF silence = StaleTicks
       THEN close /\ UNCHANGED silence
       ELSE /\ silence' = silence + 1
            /\ UNCHANGED <<pc, channel, closed, timers>>
    /\ UNCHANGED <<signaling, phone, traffic, flaps>>

send ==
    /\ sends < MaxSends
    /\ sends' = sends + 1
    /\ CASE channel = "open" ->
              /\ wire' \in {wire, Append(wire, sends + 1)}   \* it may throw
              /\ UNCHANGED outboundQueue
         [] channel # "open" /\ ~closed /\ Len(outboundQueue) < MAX_QUEUED_MESSAGES ->
              /\ outboundQueue' = Append(outboundQueue, sends + 1)
              /\ UNCHANGED wire
         [] OTHER -> UNCHANGED <<wire, outboundQueue>>
    /\ UNCHANGED <<signaling, phone, pc, channel, closed, timers, silence, flaps>>

walksAway ==
    /\ phone # "gone"
    /\ phone' = "gone"
    /\ UNCHANGED <<signaling, pc, channel, closed, timers, silence, traffic, flaps>>

-----------------------------------------------------------------------------

\* What the browser does by itself: its timers fire, and ICE notices a peer
\* that stopped answering.
GhostAmbient ==
    \/ handshakeTimesOut
    \/ staleTick
    \/ phone = "gone" /\ (iceDisconnects \/ iceFails)

GhostNext ==
    \/ createOffer \/ waitForIceGathering
    \/ parseQrPayload \/ readNdefAnswer \/ onReading \/ nfcRejected
    \/ iceConnects \/ iceDisconnects \/ iceReconnects \/ iceFails
    \/ channelOpens \/ channelCloses \/ messageArrives \/ send
    \/ handshakeTimesOut \/ staleTick
    \/ userCloses \/ walksAway

GhostSpec == GhostInit /\ [][GhostNext]_ghostVars

-----------------------------------------------------------------------------
(* Properties *)

\* What was queued before the channel opened is sent before anything sent
\* afterwards, in the order of the calls, and none of it stays behind.
MessagesKeepOrder ==
    /\ Increasing(wire)
    /\ channel = "open" => outboundQueue = <<>>

\* Whatever the order of the connection's and the channel's events, a session
\* that is not closed has a timer that would close it, or a connection whose
\* loss the browser reports; a closed one leaves no timer and no connection.
SessionIsWatched ==
    IF closed THEN pc = "closed" /\ ~handshakeTimer /\ ~keepalive
    ELSE handshakeTimer \/ keepalive \/ pc \in {"connected", "disconnected"}

\* "The kiosk never hangs on a phone that walked away."
AbandonedSessionCloses == (phone = "gone") ~> closed
=============================================================================
