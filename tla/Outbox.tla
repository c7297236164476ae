------------------------------- MODULE Outbox -------------------------------
(***************************************************************************)
(* The transactional outbox of packages/go-common/outbox and its relays.   *)
(*                                                                         *)
(* Every service writes a row of outbox_events in the transaction of the   *)
(* domain change; a relay goroutine per service replica polls unpublished  *)
(* rows, publishes each one to JetStream, and marks it published after the *)
(* broker's ack.  The deployment gives all services one database, hence    *)
(* one table, and each relay resolves the subject with its own service's   *)
(* resolver.                                                               *)
(*                                                                         *)
(* The batch query runs outside a transaction, so the row locks of its     *)
(* FOR UPDATE SKIP LOCKED are gone when it returns: selecting a batch is   *)
(* one atomic step and holds nothing afterwards.                           *)
(***************************************************************************)
EXTENDS Naturals, Sequences, SequencesExt, FiniteSets

CONSTANTS
    Services,     \* services that write to the outbox
    Events,       \* event ids (fresh UUIDs in the code)
    Owner,        \* [Events -> Services]: the service that writes the event
    Relays,       \* relay goroutines, over all replicas of all services
    RelayOf,      \* [Relays -> Services]: whose subject resolver it uses
    Fallback,     \* [Services -> {"unknown", "nostream"}]: see Resolve
    BatchSize,    \* LIMIT of the batch query (100 in the code)
    MaxTime,      \* bound on occurred_at_ms
    MaxFaults     \* bound on failed calls and crashes

ASSUME OutboxConstants ==
    /\ Owner \in [Events -> Services]
    /\ IsFiniteSet(Relays)
    /\ RelayOf \in [Relays -> Services]
    /\ Fallback \in [Services -> {"unknown", "nostream"}]
    /\ BatchSize \in Nat \ {0}
    /\ MaxTime \in Nat \ {0}
    /\ MaxFaults \in Nat

VARIABLES
    rows,        \* [Events -> {"absent", "unpublished", "published"}]
    occurredAt,  \* [Events -> 0..MaxTime]: occurred_at_ms of a present row
    pc,          \* [Relays -> {"poll", "publish", "mark"}]
    batch,       \* [Relays -> Seq(Events)]: rows still to handle, in order
    stream,      \* the broker's log: sequence of [event, subject]
    faults       \* failures so far

vars == <<rows, occurredAt, pc, batch, stream, faults>>

RowState == {"absent", "unpublished", "published"}
Subjects == Services \union {"unknown"}
Message == [event : Events, subject : Subjects]

TypeOK ==
    /\ rows \in [Events -> RowState]
    /\ occurredAt \in [Events -> 0..MaxTime]
    /\ pc \in [Relays -> {"poll", "publish", "mark"}]
    /\ batch \in [Relays -> Seq(Events)]
    /\ \A r \in Relays : pc[r] # "poll" => batch[r] # <<>>
    /\ stream \in Seq(Message)
    /\ faults \in 0..MaxFaults

Init ==
    /\ rows = [e \in Events |-> "absent"]
    /\ occurredAt = [e \in Events |-> 0]
    /\ pc = [r \in Relays |-> "poll"]
    /\ batch = [r \in Relays |-> <<>>]
    /\ stream = <<>>
    /\ faults = 0

-----------------------------------------------------------------------------
Streamed == {stream[i].event : i \in DOMAIN stream}

Copies(e) == Cardinality({i \in DOMAIN stream : stream[i].event = e})

(***************************************************************************)
(* A domain transaction commits with its outbox row.  occurred_at_ms was   *)
(* read from the writer's clock before the commit, and writers run on      *)
(* several hosts: commits are not ordered by it.                           *)
(***************************************************************************)
InsertWithinTx(e) ==
    /\ rows[e] = "absent"
    /\ rows' = [rows EXCEPT ![e] = "unpublished"]
    /\ \E t \in 1..MaxTime : occurredAt' = [occurredAt EXCEPT ![e] = t]
    /\ UNCHANGED <<pc, batch, stream, faults>>

(***************************************************************************)
(* The subject a relay publishes an event on.  Its own service's event     *)
(* types have their subject; any other type falls through to the           *)
(* resolver's default: a subject inside the service's own stream, or (the  *)
(* order-service) the bare event type, which no stream accepts.            *)
(***************************************************************************)
Resolve(r, e) ==
    IF Owner[e] = RelayOf[r] THEN Owner[e] ELSE Fallback[RelayOf[r]]

Unpublished == {e \in Events : rows[e] = "unpublished"}

(***************************************************************************)
(* s is a result of the batch query: unpublished rows in order of          *)
(* occurred_at_ms, the oldest BatchSize of them.                           *)
(***************************************************************************)
IsBatch(s) ==
    LET picked == ToSet(s) IN
    /\ picked \subseteq Unpublished
    /\ IsInjective(s)
    /\ \/ Len(s) = BatchSize
       \/ Len(s) < BatchSize /\ picked = Unpublished
    /\ \A i, j \in DOMAIN s : i < j => occurredAt[s[i]] <= occurredAt[s[j]]
    /\ \A e \in picked, f \in Unpublished \ picked : occurredAt[e] <= occurredAt[f]

\* relayBatch: the batch query, then the loop over its rows begins.
SelectBatch(r) ==
    /\ pc[r] = "poll"
    /\ Unpublished # {}
    /\ \E s \in SeqOf(Unpublished, BatchSize) :
          /\ IsBatch(s)
          /\ batch' = [batch EXCEPT ![r] = s]
    /\ pc' = [pc EXCEPT ![r] = "publish"]
    /\ UNCHANGED <<rows, occurredAt, stream, faults>>

\* Seeded fault: a failed publish is treated as an acknowledged one.
PublishUnacked(r) ==
    /\ pc[r] = "publish"
    /\ Resolve(r, Head(batch[r])) # "nostream"
    /\ \/ UNCHANGED stream
       \/ stream' = Append(stream, [event |-> Head(batch[r]),
                                    subject |-> Resolve(r, Head(batch[r]))])
    /\ pc' = [pc EXCEPT ![r] = "mark"]
    /\ UNCHANGED <<rows, occurredAt, batch, faults>>

\* Publish the next row and wait for the broker's ack.
Publish(r) ==
    /\ pc[r] = "publish"
    /\ Resolve(r, Head(batch[r])) # "nostream"
    /\ stream' = Append(stream, [event |-> Head(batch[r]),
                                 subject |-> Resolve(r, Head(batch[r]))])
    /\ pc' = [pc EXCEPT ![r] = "mark"]
    /\ UNCHANGED <<rows, occurredAt, batch, faults>>

\* The relay gives up the rest of its batch; the next tick polls again.
AbandonBatch(r) ==
    /\ pc' = [pc EXCEPT ![r] = "poll"]
    /\ batch' = [batch EXCEPT ![r] = <<>>]

\* No stream accepts the subject: the publish fails and the batch ends there.
PublishRejected(r) ==
    /\ pc[r] = "publish"
    /\ Resolve(r, Head(batch[r])) = "nostream"
    /\ AbandonBatch(r)
    /\ UNCHANGED <<rows, occurredAt, stream, faults>>

(***************************************************************************)
(* The publish returns an error.  The message may have reached the broker  *)
(* all the same (the ack was lost).                                        *)
(***************************************************************************)
PublishError(r) ==
    /\ pc[r] = "publish"
    /\ Resolve(r, Head(batch[r])) # "nostream"
    /\ faults < MaxFaults
    /\ faults' = faults + 1
    /\ \/ UNCHANGED stream
       \/ stream' = Append(stream, [event |-> Head(batch[r]),
                                    subject |-> Resolve(r, Head(batch[r]))])
    /\ AbandonBatch(r)
    /\ UNCHANGED <<rows, occurredAt>>

\* Seeded fault: the row marked is the last of the batch, not the one published.
MarkLast(r) ==
    /\ pc[r] = "mark"
    /\ rows' = [rows EXCEPT ![Last(batch[r])] = "published"]
    /\ batch' = [batch EXCEPT ![r] = Tail(batch[r])]
    /\ pc' = [pc EXCEPT ![r] = IF Tail(batch[r]) = <<>> THEN "poll" ELSE "publish"]
    /\ UNCHANGED <<occurredAt, stream, faults>>

\* Mark the published row, then go on with the rest of the batch.
MarkPublished(r) ==
    /\ pc[r] = "mark"
    /\ rows' = [rows EXCEPT ![Head(batch[r])] = "published"]
    /\ batch' = [batch EXCEPT ![r] = Tail(batch[r])]
    /\ pc' = [pc EXCEPT ![r] = IF Tail(batch[r]) = <<>> THEN "poll" ELSE "publish"]
    /\ UNCHANGED <<occurredAt, stream, faults>>

\* The UPDATE fails, or the process crashes anywhere in its batch.
MarkErrorOrCrash(r) ==
    /\ pc[r] # "poll"
    /\ faults < MaxFaults
    /\ faults' = faults + 1
    /\ AbandonBatch(r)
    /\ UNCHANGED <<rows, occurredAt, stream>>

RelayStep(r) ==
    \/ SelectBatch(r)
    \/ Publish(r)
    \/ PublishRejected(r)
    \/ MarkPublished(r)

Next ==
    \/ \E e \in Events : InsertWithinTx(e)
    \/ \E r \in Relays : RelayStep(r) \/ PublishError(r) \/ MarkErrorOrCrash(r)

Spec == Init /\ [][Next]_vars

(***************************************************************************)
(* Relay.Run ticks every 500 ms for as long as the process lives, so an    *)
(* enabled relay step is eventually taken; MaxFaults bounds the failures,  *)
(* that is, they are transient.                                            *)
(***************************************************************************)
FairSpec == Spec /\ \A r \in Relays : WF_vars(RelayStep(r))

-----------------------------------------------------------------------------
(***************************************************************************)
(* No event is lost between the table and the broker: a row is marked      *)
(* published only once the broker holds its event, whatever errors and     *)
(* crashes interrupt a batch ("marking them published only after a broker  *)
(* ack", outbox.go).                                                       *)
(***************************************************************************)
PublishedWasAcked == \A e \in Events : rows[e] = "published" => e \in Streamed

(***************************************************************************)
(* Nothing reaches the broker without a committed domain write, and a      *)
(* relay only ever holds rows that were committed.                         *)
(***************************************************************************)
OnlyCommittedEvents ==
    /\ \A e \in Streamed : rows[e] # "absent"
    /\ \A r \in Relays : \A i \in DOMAIN batch[r] : rows[batch[r][i]] # "absent"
    /\ \A r \in Relays : pc[r] = "mark" => Head(batch[r]) \in Streamed

(***************************************************************************)
(* Racing relays and failures duplicate an event only boundedly: at most   *)
(* one copy per relay, plus one per failed call or crash.                  *)
(***************************************************************************)
DuplicatesBounded == \A e \in Events : Copies(e) <= Cardinality(Relays) + faults

(***************************************************************************)
(* The comment on the batch query (outbox.go, relayBatch): relays race     *)
(* over the table "without double-publishing".                             *)
(***************************************************************************)
NoDoublePublish == \A e \in Events : Copies(e) <= 1

(***************************************************************************)
(* The outbox implements the abstract event log: committed events are the  *)
(* rows of the table, streamed events those in the broker's log.           *)
(***************************************************************************)
Committed == {e \in Events : rows[e] # "absent"}

Log == INSTANCE EventLog WITH committed <- Committed, streamed <- Streamed

\* Every event whose domain write committed is eventually on the stream, and
\* only such events are: the outbox with fair relays refines EventLog.
ImplementsEventLog == Log!Spec
=============================================================================
