------------------------------ MODULE EventLog ------------------------------
(***************************************************************************)
(* What the transactional outbox promises to the rest of Astra-Service:    *)
(* an event whose domain write committed is eventually on the event        *)
(* stream, and nothing is on the stream whose domain write did not commit. *)
(* Duplicates are allowed (the promise is at-least-once), so the stream is *)
(* a set here.                                                             *)
(***************************************************************************)
CONSTANT Events

VARIABLES
    committed,   \* events whose domain write committed
    streamed     \* events the broker has acknowledged at least once

vars == <<committed, streamed>>

Init == committed = {} /\ streamed = {}

Commit(e) ==
    /\ e \notin committed
    /\ committed' = committed \union {e}
    /\ UNCHANGED streamed

Stream(e) ==
    /\ e \in committed
    /\ streamed' = streamed \union {e}
    /\ UNCHANGED committed

Next == \E e \in Events : Commit(e) \/ Stream(e)

SafeSpec == Init /\ [][Next]_vars

\* Every committed event reaches the stream.
Spec == SafeSpec /\ \A e \in Events : WF_vars(Stream(e))
=============================================================================
