---------------------------- MODULE OutboxProofs ----------------------------
(***************************************************************************)
(* Proofs about the outbox, for any number of services, events and relays  *)
(* and any number of faults.                                               *)
(***************************************************************************)
EXTENDS Outbox, FiniteSetTheorems, TLAPS

-----------------------------------------------------------------------------
(* The log and the batches *)

\* A batch that the query returns is a nonempty sequence of committed rows:
\* the LIMIT is positive and there was something to select.
LEMMA BatchIsNonempty ==
    ASSUME TypeOK, Unpublished # {},
           NEW s \in SeqOf(Unpublished, BatchSize), IsBatch(s)
    PROVE  /\ s \in Seq(Events)
           /\ s # <<>>
           /\ \A i \in DOMAIN s : rows[s[i]] = "unpublished"
<1>1. PICK m \in 0..BatchSize : s \in [1..m -> Unpublished]
  BY DEF SeqOf
<1>2. Unpublished \subseteq Events
  BY DEF Unpublished
<1>3. s \in Seq(Unpublished) /\ Len(s) = m /\ DOMAIN s = 1..m
  BY <1>1, OutboxConstants
<1>4. s \in Seq(Events)
  BY <1>1, <1>2, OutboxConstants
<1>5. s # <<>>
  <2>1. CASE Len(s) = BatchSize
    BY <2>1, <1>3, OutboxConstants
  <2>2. CASE ToSet(s) = Unpublished
    <3>1. DOMAIN s # {}
      BY <2>2 DEF ToSet
    <3> QED  BY <3>1
  <2> QED  BY <2>1, <2>2 DEF IsBatch
<1>6. \A i \in DOMAIN s : rows[s[i]] = "unpublished"
  BY <1>1 DEF Unpublished
<1> QED  BY <1>4, <1>5, <1>6

\* Appending to the broker's log adds one event to the streamed ones.
LEMMA AppendStreams ==
    ASSUME stream \in Seq(Message), NEW m \in Message,
           stream' = Append(stream, m)
    PROVE  /\ stream' \in Seq(Message)
           /\ Streamed' = Streamed \union {m.event}
<1>1. /\ stream' \in Seq(Message)
      /\ DOMAIN stream' = 1..(Len(stream) + 1)
      /\ \A i \in DOMAIN stream : i \in DOMAIN stream' /\ stream'[i] = stream[i]
      /\ stream'[Len(stream) + 1] = m
      /\ \A i \in DOMAIN stream' : i \in DOMAIN stream \/ i = Len(stream) + 1
      /\ Len(stream) + 1 \in DOMAIN stream'
  OBVIOUS
<1> QED  BY <1>1, Zenon DEF Streamed

\* What a relay publishes is a well-formed message.
LEMMA ResolvedMessage ==
    ASSUME NEW r \in Relays, NEW e \in Events, Resolve(r, e) # "nostream"
    PROVE  [event |-> e, subject |-> Resolve(r, e)] \in Message
<1>1. Resolve(r, e) \in Subjects
  BY OutboxConstants DEF Resolve, Subjects
<1> QED  BY <1>1 DEF Message

-----------------------------------------------------------------------------
(* Type correctness *)

LEMMA InitTypeOK == Init => TypeOK
BY OutboxConstants DEF Init, TypeOK, RowState

\* The relay drops its batch: its program counter and batch stay well typed.
LEMMA AbandonTypes ==
    ASSUME TypeOK, NEW r \in Relays, AbandonBatch(r)
    PROVE  /\ pc' \in [Relays -> {"poll", "publish", "mark"}]
           /\ batch' \in [Relays -> Seq(Events)]
           /\ \A q \in Relays : pc'[q] # "poll" => batch'[q] # <<>>
<1>1. <<>> \in Seq(Events)
  OBVIOUS
<1> QED  BY <1>1 DEF TypeOK, AbandonBatch

\* The row a relay works on is a committed event of the model.
LEMMA HeadIsEvent ==
    ASSUME TypeOK, NEW r \in Relays, pc[r] # "poll"
    PROVE  /\ Head(batch[r]) \in Events
           /\ Tail(batch[r]) \in Seq(Events)
           /\ 1 \in DOMAIN batch[r] /\ Head(batch[r]) = batch[r][1]
<1>1. batch[r] \in Seq(Events) /\ batch[r] # <<>>
  BY DEF TypeOK
<1> QED  BY <1>1

LEMMA NextTypeOK == TypeOK /\ [Next]_vars => TypeOK'
<1> SUFFICES ASSUME TypeOK, [Next]_vars PROVE TypeOK'
  OBVIOUS
<1>1. ASSUME NEW e \in Events, InsertWithinTx(e) PROVE TypeOK'
  BY <1>1, OutboxConstants DEF TypeOK, InsertWithinTx, RowState
<1>2. ASSUME NEW r \in Relays, SelectBatch(r) PROVE TypeOK'
  <2>1. PICK s \in SeqOf(Unpublished, BatchSize) :
            IsBatch(s) /\ batch' = [batch EXCEPT ![r] = s]
    BY <1>2 DEF SelectBatch
  <2>2. s \in Seq(Events) /\ s # <<>>
    BY <1>2, <2>1, BatchIsNonempty DEF SelectBatch
  <2> QED  BY <1>2, <2>1, <2>2 DEF TypeOK, SelectBatch
<1>3. ASSUME NEW r \in Relays, Publish(r) PROVE TypeOK'
  <2>1. [event |-> Head(batch[r]), subject |-> Resolve(r, Head(batch[r]))] \in Message
    BY <1>3, HeadIsEvent, ResolvedMessage DEF Publish
  <2>2. stream' \in Seq(Message)
    BY <1>3, <2>1, AppendStreams DEF TypeOK, Publish
  <2> QED  BY <1>3, <2>2 DEF TypeOK, Publish
<1>4. ASSUME NEW r \in Relays, PublishRejected(r) PROVE TypeOK'
  BY <1>4, AbandonTypes DEF TypeOK, PublishRejected
<1>5. ASSUME NEW r \in Relays, MarkPublished(r) PROVE TypeOK'
  <2>1. Head(batch[r]) \in Events /\ Tail(batch[r]) \in Seq(Events)
    BY <1>5, HeadIsEvent DEF MarkPublished
  <2>2. rows' \in [Events -> RowState]
    BY <1>5, <2>1 DEF TypeOK, MarkPublished, RowState
  <2>3. batch' \in [Relays -> Seq(Events)] /\ pc' \in [Relays -> {"poll", "publish", "mark"}]
    BY <1>5, <2>1 DEF TypeOK, MarkPublished
  <2>4. \A q \in Relays : pc'[q] # "poll" => batch'[q] # <<>>
    BY <1>5, <2>1 DEF TypeOK, MarkPublished
  <2> QED  BY <1>5, <2>2, <2>3, <2>4 DEF TypeOK, MarkPublished
<1>6. ASSUME NEW r \in Relays, PublishError(r) PROVE TypeOK'
  <2>1. [event |-> Head(batch[r]), subject |-> Resolve(r, Head(batch[r]))] \in Message
    BY <1>6, HeadIsEvent, ResolvedMessage DEF PublishError
  <2>2. stream' \in Seq(Message)
    BY <1>6, <2>1, AppendStreams DEF TypeOK, PublishError
  <2>3. faults' \in 0..MaxFaults
    BY <1>6, OutboxConstants DEF TypeOK, PublishError
  <2> QED  BY <1>6, <2>2, <2>3, AbandonTypes DEF TypeOK, PublishError
<1>7. ASSUME NEW r \in Relays, MarkErrorOrCrash(r) PROVE TypeOK'
  <2>1. faults' \in 0..MaxFaults
    BY <1>7, OutboxConstants DEF TypeOK, MarkErrorOrCrash
  <2> QED  BY <1>7, <2>1, AbandonTypes DEF TypeOK, MarkErrorOrCrash
<1>8. CASE UNCHANGED vars
  BY <1>8 DEF TypeOK, vars
<1> QED  BY <1>1, <1>2, <1>3, <1>4, <1>5, <1>6, <1>7, <1>8 DEF Next, RelayStep

\* Type correctness: in particular a relay that publishes or marks always has a
\* row to do it to.
THEOREM TypeCorrect == Spec => []TypeOK
BY InitTypeOK, NextTypeOK, PTL DEF Spec

-----------------------------------------------------------------------------
(* Nothing is lost, and nothing is published that was not committed *)

(***************************************************************************)
(* PublishedWasAcked is not inductive: marking a row is safe because the   *)
(* relay published that very row a step before, which is what the third    *)
(* conjunct of OnlyCommittedEvents remembers.                              *)
(***************************************************************************)
OutboxInv == TypeOK /\ OnlyCommittedEvents /\ PublishedWasAcked

LEMMA InitOutboxInv == Init => OutboxInv
<1> SUFFICES ASSUME Init PROVE OutboxInv
  OBVIOUS
<1>1. Streamed = {}
  BY DEF Init, Streamed
<1>2. \A r \in Relays : DOMAIN batch[r] = {} /\ pc[r] = "poll"
  BY DEF Init
<1>3. \A e \in Events : rows[e] = "absent"
  BY DEF Init
<1> QED  BY <1>1, <1>2, <1>3, InitTypeOK DEF OutboxInv, OnlyCommittedEvents, PublishedWasAcked

\* A step that leaves rows and the log alone, and only empties batches.
LEMMA AbandonKeepsInv ==
    ASSUME OutboxInv, TypeOK', NEW r \in Relays, AbandonBatch(r), UNCHANGED rows,
           \/ UNCHANGED stream
           \/ Streamed' = Streamed \union {Head(batch[r])} /\ pc[r] # "poll"
    PROVE  OutboxInv'
<1>1. Streamed \subseteq Streamed'
  BY DEF Streamed
<1>2. \A e \in Streamed' : rows'[e] # "absent"
  BY HeadIsEvent DEF OutboxInv, OnlyCommittedEvents, Streamed
<1>3. \A q \in Relays : IF q = r THEN DOMAIN batch'[q] = {} /\ pc'[q] = "poll"
                                 ELSE batch'[q] = batch[q] /\ pc'[q] = pc[q]
  BY DEF OutboxInv, TypeOK, AbandonBatch
<1>4. OnlyCommittedEvents'
  BY <1>1, <1>2, <1>3 DEF OutboxInv, OnlyCommittedEvents
<1>5. PublishedWasAcked'
  BY <1>1 DEF OutboxInv, PublishedWasAcked
<1> QED  BY <1>4, <1>5 DEF OutboxInv

\* The step lemma: one case per action.
LEMMA NextOutboxInv == OutboxInv /\ [Next]_vars => OutboxInv'
<1> SUFFICES ASSUME OutboxInv, [Next]_vars PROVE OutboxInv'
  OBVIOUS
<1>0. TypeOK /\ TypeOK'
  BY NextTypeOK DEF OutboxInv
<1>1. ASSUME NEW e \in Events, InsertWithinTx(e) PROVE OutboxInv'
  <2>1. Streamed' = Streamed /\ batch' = batch /\ pc' = pc
    BY <1>1 DEF InsertWithinTx, Streamed
  <2>2. rows' = [rows EXCEPT ![e] = "unpublished"]
    BY <1>1 DEF InsertWithinTx
  <2>3. OnlyCommittedEvents'
    BY <1>0, <2>1, <2>2 DEF OutboxInv, OnlyCommittedEvents, TypeOK
  <2>4. PublishedWasAcked'
    BY <1>0, <2>1, <2>2 DEF OutboxInv, PublishedWasAcked, TypeOK
  <2> QED  BY <1>0, <2>3, <2>4 DEF OutboxInv
<1>2. ASSUME NEW r \in Relays, SelectBatch(r) PROVE OutboxInv'
  <2>1. PICK s \in SeqOf(Unpublished, BatchSize) :
            IsBatch(s) /\ batch' = [batch EXCEPT ![r] = s]
    BY <1>2 DEF SelectBatch
  <2>2. \A i \in DOMAIN s : rows[s[i]] # "absent"
    BY <1>0, <1>2, <2>1, BatchIsNonempty DEF SelectBatch
  <2>3. Streamed' = Streamed /\ rows' = rows /\ pc' = [pc EXCEPT ![r] = "publish"]
    BY <1>2 DEF SelectBatch, Streamed
  <2>4. \A q \in Relays : batch'[q] = (IF q = r THEN s ELSE batch[q])
    BY <1>0, <2>1 DEF TypeOK
  <2>5. \A q \in Relays : pc'[q] = "mark" => q # r /\ pc[q] = "mark"
    BY <1>0, <2>3 DEF TypeOK
  <2>6. \A e \in Streamed' : rows'[e] # "absent"
    BY <2>3 DEF OutboxInv, OnlyCommittedEvents
  <2>7. \A q \in Relays : \A i \in DOMAIN batch'[q] : rows'[batch'[q][i]] # "absent"
    BY <2>2, <2>3, <2>4 DEF OutboxInv, OnlyCommittedEvents
  <2>8. \A q \in Relays : pc'[q] = "mark" => Head(batch'[q]) \in Streamed'
    BY <2>3, <2>4, <2>5 DEF OutboxInv, OnlyCommittedEvents
  <2>9. PublishedWasAcked'
    BY <2>3 DEF OutboxInv, PublishedWasAcked
  <2> QED  BY <1>0, <2>6, <2>7, <2>8, <2>9 DEF OutboxInv, OnlyCommittedEvents
<1>3. ASSUME NEW r \in Relays, Publish(r) PROVE OutboxInv'
  <2> DEFINE m == [event |-> Head(batch[r]), subject |-> Resolve(r, Head(batch[r]))]
  <2>1. m \in Message
    BY <1>0, <1>3, HeadIsEvent, ResolvedMessage DEF Publish
  <2>2. Streamed' = Streamed \union {Head(batch[r])}
    BY <1>0, <1>3, <2>1, AppendStreams DEF TypeOK, Publish
  <2>3. rows[Head(batch[r])] # "absent"
    BY <1>0, <1>3, HeadIsEvent DEF OutboxInv, OnlyCommittedEvents, Publish
  <2>4. rows' = rows /\ batch' = batch /\ pc' = [pc EXCEPT ![r] = "mark"]
    BY <1>3 DEF Publish
  <2>5. OnlyCommittedEvents'
    BY <1>0, <2>2, <2>3, <2>4 DEF OutboxInv, OnlyCommittedEvents, TypeOK
  <2>6. PublishedWasAcked'
    BY <2>2, <2>4 DEF OutboxInv, PublishedWasAcked
  <2> QED  BY <1>0, <2>5, <2>6 DEF OutboxInv
<1>4. ASSUME NEW r \in Relays, PublishRejected(r) PROVE OutboxInv'
  BY <1>0, <1>4, AbandonKeepsInv DEF PublishRejected
<1>5. ASSUME NEW r \in Relays, MarkPublished(r) PROVE OutboxInv'
  <2>1. /\ Head(batch[r]) \in Events
        /\ Head(batch[r]) \in Streamed
        /\ rows' = [rows EXCEPT ![Head(batch[r])] = "published"]
        /\ Streamed' = Streamed
    BY <1>0, <1>5, HeadIsEvent DEF OutboxInv, OnlyCommittedEvents, MarkPublished, Streamed
  <2>2. \A q \in Relays : \A i \in DOMAIN batch'[q] :
            \E j \in DOMAIN batch[q] : batch'[q][i] = batch[q][j]
    <3> SUFFICES ASSUME NEW q \in Relays, NEW i \in DOMAIN batch'[q]
                 PROVE  \E j \in DOMAIN batch[q] : batch'[q][i] = batch[q][j]
      OBVIOUS
    <3>1. CASE q = r
      <4>1. batch[r] \in Seq(Events) /\ batch[r] # <<>> /\ batch'[r] = Tail(batch[r])
        BY <1>0, <1>5 DEF TypeOK, MarkPublished
      <4>2. i + 1 \in DOMAIN batch[r] /\ batch'[r][i] = batch[r][i + 1]
        BY <3>1, <4>1
      <4> QED  BY <3>1, <4>2
    <3>2. CASE q # r
      BY <1>0, <1>5, <3>2 DEF TypeOK, MarkPublished
    <3> QED  BY <3>1, <3>2
  <2>3. \A e \in Events : rows[e] # "absent" => rows'[e] # "absent"
    BY <1>0, <2>1 DEF TypeOK
  <2>4. \A q \in Relays : pc'[q] = "mark" => batch'[q] = batch[q] /\ pc[q] = "mark"
    BY <1>0, <1>5 DEF TypeOK, MarkPublished
  <2>5. \A q \in Relays : \A j \in DOMAIN batch[q] : batch[q][j] \in Events
    BY <1>0 DEF TypeOK
  <2>6. Streamed \subseteq Events
    <3>1. \A i \in DOMAIN stream : stream[i] \in Message
      BY <1>0 DEF TypeOK
    <3>2. \A i \in DOMAIN stream : stream[i].event \in Events
      BY <3>1 DEF Message
    <3> QED  BY <3>2 DEF Streamed
  <2>7. OnlyCommittedEvents'
    BY <2>1, <2>2, <2>3, <2>4, <2>5, <2>6 DEF OutboxInv, OnlyCommittedEvents
  <2>8. PublishedWasAcked'
    BY <1>0, <2>1 DEF OutboxInv, PublishedWasAcked, TypeOK
  <2> QED  BY <1>0, <2>7, <2>8 DEF OutboxInv
<1>6. ASSUME NEW r \in Relays, PublishError(r) PROVE OutboxInv'
  <2>1. [event |-> Head(batch[r]), subject |-> Resolve(r, Head(batch[r]))] \in Message
    BY <1>0, <1>6, HeadIsEvent, ResolvedMessage DEF PublishError
  <2>2. UNCHANGED stream \/ Streamed' = Streamed \union {Head(batch[r])}
    BY <1>0, <1>6, <2>1, AppendStreams DEF TypeOK, PublishError
  <2> QED  BY <1>0, <1>6, <2>2, AbandonKeepsInv DEF PublishError
<1>7. ASSUME NEW r \in Relays, MarkErrorOrCrash(r) PROVE OutboxInv'
  BY <1>0, <1>7, AbandonKeepsInv DEF MarkErrorOrCrash
<1>8. CASE UNCHANGED vars
  <2>1. rows' = rows /\ pc' = pc /\ batch' = batch /\ Streamed' = Streamed
    BY <1>8 DEF vars, Streamed
  <2> QED  BY <1>0, <2>1 DEF OutboxInv, OnlyCommittedEvents, PublishedWasAcked
<1> QED  BY <1>1, <1>2, <1>3, <1>4, <1>5, <1>6, <1>7, <1>8 DEF Next, RelayStep

LEMMA OutboxInvariant == Spec => []OutboxInv
BY InitOutboxInv, NextOutboxInv, PTL DEF Spec

\* No event is lost between table and broker: relays mark a row published only
\* after the broker acknowledged it, for any number of relays, faults and rows.
THEOREM NoEventLost == Spec => []PublishedWasAcked
BY OutboxInvariant, PTL DEF OutboxInv

\* Relays publish and hold committed rows only.
THEOREM NoPhantomEvent == Spec => []OnlyCommittedEvents
BY OutboxInvariant, PTL DEF OutboxInv

-----------------------------------------------------------------------------
(* Refinement *)

LEMMA InitRefines == Init => Log!Init
BY DEF Init, Log!Init, Committed, Streamed

\* Every step of the outbox commits an event, streams a committed one, or
\* changes nothing the abstract log can see.
LEMMA NextRefines == OutboxInv /\ [Next]_vars => [Log!Next]_(Log!vars)
<1> SUFFICES ASSUME OutboxInv, [Next]_vars
             PROVE  \/ \E e \in Events : Log!Commit(e) \/ Log!Stream(e)
                    \/ Committed' = Committed /\ Streamed' = Streamed
  BY DEF Log!Next, Log!vars
<1>0. TypeOK
  BY DEF OutboxInv
<1>1. ASSUME NEW e \in Events, InsertWithinTx(e) PROVE Log!Commit(e)
  <2>1. Streamed' = Streamed
    BY <1>1 DEF InsertWithinTx, Streamed
  <2>2. e \notin Committed /\ Committed' = Committed \union {e}
    BY <1>0, <1>1 DEF InsertWithinTx, Committed, TypeOK
  <2> QED  BY <2>1, <2>2 DEF Log!Commit
<1>2. ASSUME NEW r \in Relays, NEW e \in Committed, rows' = rows,
             Streamed' = Streamed \union {e}
      PROVE  Log!Stream(e)
  BY <1>2 DEF Log!Stream, Committed
<1>3. ASSUME NEW r \in Relays, pc[r] # "poll" PROVE Head(batch[r]) \in Committed
  BY <1>0, <1>3, HeadIsEvent DEF OutboxInv, OnlyCommittedEvents, Committed
<1>4. ASSUME NEW r \in Relays, Publish(r) PROVE \E e \in Events : Log!Stream(e)
  <2>1. [event |-> Head(batch[r]), subject |-> Resolve(r, Head(batch[r]))] \in Message
    BY <1>0, <1>4, HeadIsEvent, ResolvedMessage DEF Publish
  <2>2. Streamed' = Streamed \union {Head(batch[r])}
    BY <1>0, <1>4, <2>1, AppendStreams DEF TypeOK, Publish
  <2>3. Log!Stream(Head(batch[r]))
    BY <1>2, <1>3, <1>4, <2>2 DEF Publish
  <2> QED  BY <1>0, <1>4, <2>3, HeadIsEvent DEF Publish
<1>5. ASSUME NEW r \in Relays, PublishError(r)
      PROVE  (\E e \in Events : Log!Stream(e)) \/ (Committed' = Committed /\ Streamed' = Streamed)
  <2>1. [event |-> Head(batch[r]), subject |-> Resolve(r, Head(batch[r]))] \in Message
    BY <1>0, <1>5, HeadIsEvent, ResolvedMessage DEF PublishError
  <2>2. CASE UNCHANGED stream
    BY <1>5, <2>2 DEF PublishError, Committed, Streamed
  <2>3. CASE stream' = Append(stream, [event |-> Head(batch[r]),
                                       subject |-> Resolve(r, Head(batch[r]))])
    <3>1. Streamed' = Streamed \union {Head(batch[r])}
      BY <1>0, <2>1, <2>3, AppendStreams DEF TypeOK
    <3>2. Log!Stream(Head(batch[r]))
      BY <1>2, <1>3, <1>5, <3>1 DEF PublishError
    <3> QED  BY <1>0, <1>5, <3>2, HeadIsEvent DEF PublishError
  <2> QED  BY <1>5, <2>2, <2>3 DEF PublishError
<1>6. ASSUME NEW r \in Relays, MarkPublished(r)
      PROVE  Committed' = Committed /\ Streamed' = Streamed
  <2>1. rows' = [rows EXCEPT ![Head(batch[r])] = "published"] /\ Streamed' = Streamed
    BY <1>6 DEF MarkPublished, Streamed
  <2>2. Head(batch[r]) \in Committed
    BY <1>3, <1>6 DEF MarkPublished
  <2> QED  BY <1>0, <2>1, <2>2 DEF Committed, TypeOK
<1>7. ASSUME UNCHANGED <<rows, stream>>
      PROVE  Committed' = Committed /\ Streamed' = Streamed
  BY <1>7 DEF Committed, Streamed
<1>8. ASSUME NEW r \in Relays,
             SelectBatch(r) \/ PublishRejected(r) \/ MarkErrorOrCrash(r)
      PROVE  Committed' = Committed /\ Streamed' = Streamed
  BY <1>7, <1>8 DEF SelectBatch, PublishRejected, MarkErrorOrCrash
<1>9. CASE UNCHANGED vars
  BY <1>7, <1>9 DEF vars
<1> QED  BY <1>1, <1>4, <1>5, <1>6, <1>8, <1>9 DEF Next, RelayStep

(***************************************************************************)
(* The outbox implements the safety part of the abstract event log for     *)
(* every instance; that fair relays also deliver is checked by TLC.        *)
(***************************************************************************)
THEOREM OutboxRefinesLog == Spec => Log!SafeSpec
<1>1. Init => Log!Init
  BY InitRefines
<1>2. OutboxInv /\ [Next]_vars => [Log!Next]_(Log!vars)
  BY NextRefines
<1> QED  BY <1>1, <1>2, OutboxInvariant, PTL DEF Spec, Log!SafeSpec

-----------------------------------------------------------------------------
(* Duplicates are bounded *)

\* Relays between the ack of event e and its mark.
Marking(e) == {r \in Relays : pc[r] = "mark" /\ Head(batch[r]) = e}

\* Relays whose batch still has event e to publish.
Holding(e) ==
    {r \in Relays : \E i \in DOMAIN batch[r] : batch[r][i] = e} \ Marking(e)

(***************************************************************************)
(* Until a row is marked, every copy of its event is a relay's that is     *)
(* about to mark it or was lost to a fault.  Once it is marked no batch    *)
(* selects it again, so the copies still to come are those of the relays   *)
(* that hold it.  A batch has no row twice.                                *)
(***************************************************************************)
CopiesInv ==
    /\ \A r \in Relays : IsInjective(batch[r])
    /\ \A e \in Events : rows[e] # "published" =>
          Copies(e) <= faults + Cardinality(Marking(e))
    /\ \A e \in Events : rows[e] = "published" =>
          Copies(e) + Cardinality(Holding(e)) <= faults + Cardinality(Relays)

LEMMA RelaySets ==
    ASSUME NEW A, A \subseteq Relays
    PROVE  /\ IsFiniteSet(A) /\ Cardinality(A) \in Nat
           /\ Cardinality(A) <= Cardinality(Relays) /\ Cardinality(Relays) \in Nat
           /\ \A B \in SUBSET A : Cardinality(B) <= Cardinality(A) /\ Cardinality(B) \in Nat
           /\ \A r \in A : Cardinality(A \ {r}) = Cardinality(A) - 1
           /\ \A r \in Relays \ A : Cardinality(A \union {r}) = Cardinality(A) + 1
<1>1. IsFiniteSet(Relays) /\ IsFiniteSet(A)
  BY OutboxConstants, FS_Subset
<1>2. \A B \in SUBSET A : IsFiniteSet(B) /\ Cardinality(B) <= Cardinality(A)
  BY <1>1, FS_Subset
<1>3. \A B \in SUBSET A : Cardinality(B) \in Nat
  BY <1>2, FS_CardinalityType
<1> QED
  BY <1>1, <1>2, <1>3, FS_Subset, FS_CardinalityType, FS_RemoveElement, FS_AddElement

LEMMA DisjointRelays ==
    ASSUME NEW A, A \subseteq Relays, NEW B, B \subseteq Relays, A \cap B = {}
    PROVE  Cardinality(A) + Cardinality(B) <= Cardinality(Relays)
<1>1. IsFiniteSet(A) /\ IsFiniteSet(B) /\ Cardinality(A) \in Nat /\ Cardinality(B) \in Nat
  BY RelaySets
<1>2. Cardinality(A \union B) = Cardinality(A) + Cardinality(B) - Cardinality(A \cap B)
  BY <1>1, FS_Union
<1>3. Cardinality(A \cap B) = 0
  BY FS_EmptySet
<1>4. Cardinality(A \union B) <= Cardinality(Relays)
  BY RelaySets
<1> QED
  BY <1>1, <1>2, <1>3, <1>4

\* One more message in the log is one more copy of its event.
LEMMA AppendCopies ==
    ASSUME stream \in Seq(Message), NEW m \in Message, stream' = Append(stream, m),
           NEW e \in Events
    PROVE  /\ Copies(e) \in Nat
           /\ Copies(e)' = Copies(e) + (IF m.event = e THEN 1 ELSE 0)
<1> DEFINE n == Len(stream) + 1
           A == {i \in DOMAIN stream : stream[i].event = e}
           B == {i \in DOMAIN stream' : stream'[i].event = e}
<1>1. /\ Len(stream) \in Nat /\ DOMAIN stream = 1..Len(stream) /\ DOMAIN stream' = 1..n
      /\ stream'[n] = m /\ \A i \in 1..Len(stream) : stream'[i] = stream[i]
  OBVIOUS
<1>2. IsFiniteSet(A) /\ Cardinality(A) \in Nat
  <2>1. IsFiniteSet(1..Len(stream))
    BY <1>1, FS_Interval
  <2>2. A \subseteq 1..Len(stream)
    BY <1>1
  <2> HIDE DEF A
  <2>3. IsFiniteSet(A)
    BY <2>1, <2>2, FS_Subset
  <2> QED
    BY <2>3, FS_CardinalityType
<1>3. n \notin A
  BY <1>1
<1>4. B = IF m.event = e THEN A \union {n} ELSE A
  BY <1>1
<1>5. Copies(e) = Cardinality(A) /\ Copies(e)' = Cardinality(B)
  BY DEF Copies
<1> HIDE DEF A, B, n
<1>6. Cardinality(A \union {n}) = Cardinality(A) + 1
  BY <1>2, <1>3, FS_AddElement
<1>7. CASE m.event = e
  BY <1>2, <1>4, <1>5, <1>6, <1>7
<1>8. CASE m.event # e
  BY <1>2, <1>4, <1>5, <1>8
<1> QED
  BY <1>7, <1>8

LEMMA CopiesType ==
    ASSUME NEW s \in Seq(Message), NEW e
    PROVE  Cardinality({i \in DOMAIN s : s[i].event = e}) \in Nat
<1> DEFINE A == {i \in DOMAIN s : s[i].event = e}
<1>1. Len(s) \in Nat /\ A \subseteq 1..Len(s)
  OBVIOUS
<1> HIDE DEF A
<1>2. IsFiniteSet(1..Len(s))
  BY <1>1, FS_Interval
<1>3. IsFiniteSet(A)
  BY <1>1, <1>2, FS_Subset
<1>4. Cardinality(A) \in Nat
  BY <1>3, FS_CardinalityType
<1> QED
  BY <1>4 DEF A

\* Arithmetic on the bounds.
LEMMA AddBounds ==
    ASSUME NEW c \in Nat, NEW d \in Nat, NEW f \in Nat, NEW g \in Nat,
           NEW i \in Nat, NEW h \in Nat, d - c <= g - f, i <= h
    PROVE  d - c + i <= g - f + h
OBVIOUS

LEMMA AddStrictBounds ==
    ASSUME NEW c \in Nat, NEW d \in Nat, NEW f \in Nat, NEW g \in Nat,
           NEW i \in Nat, NEW h, d - c < g - f, h = i - 1
    PROVE  d - c <= g - f /\ d - c + i <= g - f + h
OBVIOUS

LEMMA NextCopiesInv ==
    ASSUME OutboxInv, CopiesInv, [Next]_vars
    PROVE  CopiesInv'
<1>0. TypeOK /\ TypeOK' /\ stream \in Seq(Message) /\ faults \in Nat
  BY NextTypeOK, OutboxConstants DEF OutboxInv, TypeOK
<1>c. \A e \in Events : Copies(e) \in Nat /\ Copies(e)' \in Nat
  BY <1>0, CopiesType DEF Copies, TypeOK
<1>m. \A e \in Events : Marking(e) \subseteq Relays /\ Holding(e) \subseteq Relays
                        /\ Marking(e)' \subseteq Relays /\ Holding(e)' \subseteq Relays
  BY DEF Marking, Holding
\* What must hold of each event.
<1>s. ASSUME \A r \in Relays : IsInjective(batch'[r]),
             \A e \in Events :
                \/ /\ rows[e] # "published" /\ rows'[e] # "published"
                   /\ Copies(e)' - Copies(e) + Cardinality(Marking(e))
                        <= faults' - faults + Cardinality(Marking(e)')
                \/ /\ rows[e] = "published" /\ rows'[e] = "published"
                   /\ Copies(e)' - Copies(e) + Cardinality(Holding(e)')
                        <= faults' - faults + Cardinality(Holding(e))
                \/ /\ rows[e] # "published" /\ rows'[e] = "published"
                   /\ Copies(e)' = Copies(e) /\ faults' = faults
                   /\ Marking(e) \cap Holding(e)' = {},
             faults' \in Nat
      PROVE  CopiesInv'
  <2>1. ASSUME NEW e \in Events
        PROVE  /\ rows'[e] # "published" => Copies(e)' <= faults' + Cardinality(Marking(e)')
               /\ rows'[e] = "published" =>
                     Copies(e)' + Cardinality(Holding(e)') <= faults' + Cardinality(Relays)
    <3> DEFINE c == Copies(e)
               d == Copies(e)'
               m == Cardinality(Marking(e))
               n == Cardinality(Marking(e)')
               h == Cardinality(Holding(e))
               i == Cardinality(Holding(e)')
    <3>1. m \in Nat /\ n \in Nat /\ h \in Nat /\ i \in Nat /\ Cardinality(Relays) \in Nat
      BY <1>m, RelaySets
    <3>2. c \in Nat /\ d \in Nat
      BY <1>c
    <3>3. /\ rows[e] # "published" => c <= faults + m
          /\ rows[e] = "published" => c + h <= faults + Cardinality(Relays)
      BY DEF CopiesInv
    <3>4. Marking(e) \cap Holding(e)' = {} => m + i <= Cardinality(Relays)
      BY <1>m, DisjointRelays
    <3> HIDE DEF m, n, h, i, c, d
    <3>5. \/ rows[e] # "published" /\ rows'[e] # "published" /\ d - c + m <= faults' - faults + n
          \/ rows[e] = "published" /\ rows'[e] = "published" /\ d - c + i <= faults' - faults + h
          \/ rows[e] # "published" /\ rows'[e] = "published" /\ d = c /\ faults' = faults
             /\ Marking(e) \cap Holding(e)' = {}
      BY <1>s DEF m, n, h, i, c, d
    <3>n. faults \in Nat /\ faults' \in Nat
      BY <1>0, <1>s
    <3>6. (rows'[e] # "published" => d <= faults' + n)
          /\ (rows'[e] = "published" => d + i <= faults' + Cardinality(Relays))
      <4>1. CASE rows[e] # "published" /\ rows'[e] # "published" /\ d - c + m <= faults' - faults + n
        BY <3>n, <3>1, <3>2, <3>3, <4>1
      <4>2. CASE rows[e] = "published" /\ rows'[e] = "published" /\ d - c + i <= faults' - faults + h
        <5>1. c + h <= faults + Cardinality(Relays)
          BY <3>3, <4>2
        <5>2. d + i <= faults' + Cardinality(Relays)
          <6>1. d - c + i <= faults' - faults + h
            BY <4>2
          <6>2. /\ c \in Nat /\ d \in Nat /\ faults \in Nat /\ faults' \in Nat
                /\ h \in Nat /\ i \in Nat /\ Cardinality(Relays) \in Nat
            BY <3>n, <3>1, <3>2
          <6>3. \A C, H, F, K \in Nat : C + H <= F + K =>
                   \A D, I, G \in Nat : D - C + I <= G - F + H => D + I <= G + K
            OBVIOUS
          <6>4. \A F, K \in Nat : c + h <= F + K =>
                   \A D, I, G \in Nat : D - c + I <= G - F + h => D + I <= G + K
            BY <6>2, <6>3, Zenon
          <6>5. \A D, I, G \in Nat : D - c + I <= G - faults + h => D + I <= G + Cardinality(Relays)
            BY <5>1, <6>2, <6>4, Zenon
          <6> QED  BY <6>1, <6>2, <6>5, Zenon
        <5> QED  BY <4>2, <5>2
      <4>3. CASE rows[e] # "published" /\ rows'[e] = "published" /\ d = c /\ faults' = faults
                 /\ Marking(e) \cap Holding(e)' = {}
        BY <3>n, <3>1, <3>2, <3>3, <3>4, <4>3
      <4> QED  BY <3>5, <4>1, <4>2, <4>3
    <3> QED
      BY <3>6 DEF d, n, i
  <2> QED
    BY <1>s, <2>1 DEF CopiesInv
<1>1. ASSUME NEW e0 \in Events, InsertWithinTx(e0) PROVE CopiesInv'
  <2>1. /\ pc' = pc /\ batch' = batch /\ stream' = stream /\ faults' = faults
        /\ rows[e0] = "absent" /\ rows' = [rows EXCEPT ![e0] = "unpublished"]
    BY <1>1 DEF InsertWithinTx
  <2>2. \A e \in Events : rows'[e] = "published" <=> rows[e] = "published"
    BY <1>0, <2>1 DEF TypeOK
  <2> QED
    BY <2>1, <2>2 DEF CopiesInv, Copies, Marking, Holding
<1>2. ASSUME NEW r \in Relays, SelectBatch(r) PROVE CopiesInv'
  <2>1. PICK s \in SeqOf(Unpublished, BatchSize) :
            IsBatch(s) /\ batch' = [batch EXCEPT ![r] = s]
    BY <1>2 DEF SelectBatch
  <2>2. \A i \in DOMAIN s : rows[s[i]] = "unpublished"
    BY <1>0, <1>2, <2>1, BatchIsNonempty DEF SelectBatch
  <2>3. /\ pc[r] = "poll" /\ rows' = rows /\ stream' = stream /\ faults' = faults
    BY <1>2 DEF SelectBatch
  <2>4. /\ \A q \in Relays : batch'[q] = (IF q = r THEN s ELSE batch[q])
        /\ \A q \in Relays : pc'[q] = (IF q = r THEN "publish" ELSE pc[q])
    BY <1>0, <1>2, <2>1 DEF TypeOK, SelectBatch
  <2>5. \A q \in Relays : IsInjective(batch'[q])
    BY <2>1, <2>4 DEF CopiesInv, IsBatch
  <2>6. ASSUME NEW e \in Events
        PROVE  /\ Copies(e)' = Copies(e) /\ Marking(e)' = Marking(e)
               /\ rows[e] = "published" => Holding(e)' \subseteq Holding(e)
    <3>1. Copies(e)' = Copies(e)
      BY <2>3 DEF Copies
    <3>2. Marking(e)' = Marking(e)
      BY <2>3, <2>4 DEF Marking
    <3>3. rows[e] = "published" => Holding(e)' \subseteq Holding(e)
      BY <2>2, <2>4, <3>2 DEF Holding
    <3> QED  BY <3>1, <3>2, <3>3
  <2>7. ASSUME NEW e \in Events, rows[e] = "published"
        PROVE  /\ Cardinality(Holding(e)') <= Cardinality(Holding(e))
               /\ Cardinality(Holding(e)') \in Nat /\ Cardinality(Holding(e)) \in Nat
    BY <1>m, <2>6, <2>7, RelaySets
  <2>8. \A e \in Events : Cardinality(Marking(e)) \in Nat
    BY <1>m, RelaySets
  <2> QED
    BY <1>0, <1>c, <1>s, <2>3, <2>5, <2>6, <2>7, <2>8
<1>3. ASSUME NEW r \in Relays, Publish(r) PROVE CopiesInv'
  <2> DEFINE h == Head(batch[r])
             x == [event |-> h, subject |-> Resolve(r, h)]
  <2>1. /\ x \in Message /\ x.event = h /\ h \in Events /\ 1 \in DOMAIN batch[r] /\ h = batch[r][1]
    BY <1>0, <1>3, HeadIsEvent, ResolvedMessage DEF Publish
  <2>2. /\ stream' = Append(stream, x) /\ rows' = rows /\ batch' = batch /\ faults' = faults
        /\ pc[r] = "publish"
    BY <1>3 DEF Publish
  <2>3. \A q \in Relays : pc'[q] = (IF q = r THEN "mark" ELSE pc[q])
    BY <1>0, <1>3 DEF TypeOK, Publish
  <2> HIDE DEF x, h
  <2>4. \A e \in Events : Copies(e)' = Copies(e) + (IF h = e THEN 1 ELSE 0)
    BY <1>0, <2>1, <2>2, AppendCopies
  <2>5. ASSUME NEW e \in Events, e # h
        PROVE  Marking(e)' = Marking(e) /\ Holding(e)' = Holding(e)
    <3>1. Marking(e)' = Marking(e)
      BY <2>2, <2>3, <2>5 DEF Marking, h
    <3> QED  BY <2>2, <3>1 DEF Holding
  <2>6. ASSUME NEW e \in Events, e = h
        PROVE  Marking(e)' = Marking(e) \union {r} /\ r \in Relays \ Marking(e)
    <3>1. r \notin Marking(e)
      BY <2>2 DEF Marking
    <3>2. \A q \in Relays : q \in Marking(e)' <=> q \in Marking(e) \/ q = r
      BY <2>2, <2>3, <2>6 DEF Marking, h
    <3> QED  BY <1>m, <3>1, <3>2
  <2>7. ASSUME NEW e \in Events, e = h
        PROVE  Holding(e)' = Holding(e) \ {r} /\ r \in Holding(e)
    <3>1. r \in {q \in Relays : \E i \in DOMAIN batch[q] : batch[q][i] = e}
      BY <2>1, <2>7
    <3> QED  BY <2>2, <2>6, <2>7, <3>1 DEF Holding
  <2>8. ASSUME NEW e \in Events
        PROVE  /\ Cardinality(Marking(e)) \in Nat /\ Cardinality(Holding(e)) \in Nat
               /\ e # h => /\ Cardinality(Marking(e)') = Cardinality(Marking(e))
                           /\ Cardinality(Holding(e)') = Cardinality(Holding(e))
               /\ e = h => /\ Cardinality(Marking(e)') = Cardinality(Marking(e)) + 1
                           /\ Cardinality(Holding(e)') = Cardinality(Holding(e)) - 1
    <3>1. Marking(e) \subseteq Relays /\ Holding(e) \subseteq Relays
      BY <1>m
    <3>2. CASE e # h
      BY <2>5, <3>1, <3>2, RelaySets
    <3>3. CASE e = h
      <4>1. Marking(e)' = Marking(e) \union {r} /\ r \in Relays \ Marking(e)
        BY <2>6, <3>3
      <4>2. Holding(e)' = Holding(e) \ {r} /\ r \in Holding(e)
        BY <2>7, <3>3
      <4> QED  BY <3>1, <3>3, <4>1, <4>2, RelaySets
    <3> QED  BY <3>2, <3>3
  <2>9. \A q \in Relays : IsInjective(batch'[q])
    BY <2>2 DEF CopiesInv
  <2> QED
    BY <1>0, <1>c, <1>s, <2>2, <2>4, <2>8, <2>9
\* A relay gives up its batch; a copy may have reached the broker.
<1>4. ASSUME NEW r \in Relays, AbandonBatch(r), rows' = rows, faults' \in Nat,
             \A e \in Events :
                /\ Copies(e)' \in Nat /\ Copies(e)' - Copies(e) <= faults' - faults
                /\ r \in Marking(e) => Copies(e)' - Copies(e) < faults' - faults
      PROVE  CopiesInv'
  <2>1. /\ \A q \in Relays : batch'[q] = (IF q = r THEN <<>> ELSE batch[q])
        /\ \A q \in Relays : pc'[q] = (IF q = r THEN "poll" ELSE pc[q])
    BY <1>0, <1>4 DEF TypeOK, AbandonBatch
  <2>2. \A q \in Relays : IsInjective(batch'[q])
    BY <2>1 DEF CopiesInv, IsInjective
  <2>3. ASSUME NEW e \in Events
        PROVE  Marking(e)' = Marking(e) \ {r} /\ Holding(e)' \subseteq Holding(e)
    <3>1. \A q \in Relays : q \in Marking(e)' <=> q \in Marking(e) /\ q # r
      BY <2>1 DEF Marking
    <3>2. Marking(e)' = Marking(e) \ {r}
      BY <1>m, <3>1
    <3>3. \A q \in Relays : q \in Holding(e)' => q \in Holding(e)
      <4> SUFFICES ASSUME NEW q \in Relays, q \in Holding(e)' PROVE q \in Holding(e)
        OBVIOUS
      <4>1. q # r
        BY <2>1 DEF Holding
      <4> QED  BY <2>1, <3>1, <4>1 DEF Holding
    <3> QED  BY <1>m, <3>2, <3>3
  <2>4. ASSUME NEW e \in Events
        PROVE  /\ Cardinality(Holding(e)') <= Cardinality(Holding(e))
               /\ Cardinality(Holding(e)') \in Nat /\ Cardinality(Holding(e)) \in Nat
               /\ Cardinality(Marking(e)) \in Nat
               /\ r \in Marking(e) => Cardinality(Marking(e)') = Cardinality(Marking(e)) - 1
               /\ r \notin Marking(e) => Cardinality(Marking(e)') = Cardinality(Marking(e))
    <3>1. Marking(e) \subseteq Relays /\ Holding(e) \subseteq Relays
      BY <1>m
    <3>2. r \notin Marking(e) => Marking(e)' = Marking(e)
      BY <2>3
    <3>3. r \in Marking(e) => Cardinality(Marking(e)') = Cardinality(Marking(e)) - 1
      BY <2>3, <3>1, RelaySets
    <3>4. /\ Cardinality(Holding(e)') <= Cardinality(Holding(e))
          /\ Cardinality(Holding(e)') \in Nat /\ Cardinality(Holding(e)) \in Nat
      BY <2>3, <3>1, RelaySets
    <3>5. Cardinality(Marking(e)) \in Nat
      BY <3>1, RelaySets
    <3> QED  BY <3>2, <3>3, <3>4, <3>5
  <2>5. faults \in Nat /\ faults' \in Nat /\ rows' = rows
    BY <1>0, <1>4
  <2>6. ASSUME NEW e \in Events
        PROVE  /\ Copies(e)' - Copies(e) + Cardinality(Marking(e)) <= faults' - faults + Cardinality(Marking(e)')
               /\ Copies(e)' - Copies(e) + Cardinality(Holding(e)') <= faults' - faults + Cardinality(Holding(e))
    <3> DEFINE c == Copies(e)
               d == Copies(e)'
               m == Cardinality(Marking(e))
               n == Cardinality(Marking(e)')
               j == Cardinality(Holding(e))
               k == Cardinality(Holding(e)')
    <3>1. c \in Nat /\ d \in Nat /\ m \in Nat /\ j \in Nat /\ k \in Nat
      BY <1>c, <2>4
    <3>2. /\ d - c <= faults' - faults /\ (r \in Marking(e) => d - c < faults' - faults)
          /\ k <= j /\ (r \in Marking(e) => n = m - 1) /\ (r \notin Marking(e) => n = m)
      BY <1>4, <2>4
    <3> HIDE DEF c, d, m, n, j, k
    <3>3. d - c + m <= faults' - faults + n /\ d - c + k <= faults' - faults + j
      <4>1. CASE r \in Marking(e)
        <5>1. n = m - 1 /\ d - c < faults' - faults /\ d - c <= faults' - faults /\ k <= j
          BY <3>2, <4>1
        <5> QED  BY <2>5, <3>1, <5>1, AddBounds, AddStrictBounds, Zenon
      <4>2. CASE r \notin Marking(e)
        <5>1. n = m /\ m <= m /\ d - c <= faults' - faults /\ k <= j
          BY <3>1, <3>2, <4>2
        <5>2. d - c + m <= faults' - faults + m
          BY <2>5, <3>1, <5>1, AddBounds, Zenon
        <5>3. d - c + k <= faults' - faults + j
          BY <2>5, <3>1, <5>1, AddBounds, Zenon
        <5> QED  BY <5>1, <5>2, <5>3, Zenon
      <4> QED  BY <4>1, <4>2
    <3> QED  BY <3>3 DEF c, d, m, n, j, k
  <2> QED
    BY <1>s, <2>2, <2>5, <2>6
<1>5. ASSUME NEW r \in Relays, PublishRejected(r) PROVE CopiesInv'
  <2>1. /\ AbandonBatch(r) /\ rows' = rows /\ stream' = stream /\ faults' = faults
        /\ pc[r] = "publish"
    BY <1>5 DEF PublishRejected
  <2>2. \A e \in Events : Copies(e)' = Copies(e) /\ r \notin Marking(e)
    BY <2>1 DEF Copies, Marking
  <2> QED
    BY <1>0, <1>c, <1>4, <2>1, <2>2
<1>6. ASSUME NEW r \in Relays, PublishError(r) PROVE CopiesInv'
  <2> DEFINE h == Head(batch[r])
             x == [event |-> h, subject |-> Resolve(r, h)]
  <2>1. x \in Message
    BY <1>0, <1>6, HeadIsEvent, ResolvedMessage DEF PublishError
  <2>2. /\ AbandonBatch(r) /\ rows' = rows /\ faults' = faults + 1 /\ pc[r] = "publish"
        /\ stream' = stream \/ stream' = Append(stream, x)
    BY <1>6 DEF PublishError
  <2> HIDE DEF x
  <2>3. \A e \in Events : r \notin Marking(e)
    BY <2>2 DEF Marking
  <2>4. \A e \in Events : Copies(e)' \in Nat /\ Copies(e)' <= Copies(e) + 1
    <3>1. CASE stream' = stream
      BY <1>c, <3>1 DEF Copies
    <3>2. CASE stream' = Append(stream, x)
      BY <1>0, <1>c, <2>1, <3>2, AppendCopies
    <3> QED  BY <2>2, <3>1, <3>2
  <2> QED
    BY <1>0, <1>c, <1>4, <2>2, <2>3, <2>4
<1>7. ASSUME NEW r \in Relays, MarkErrorOrCrash(r) PROVE CopiesInv'
  <2>1. /\ AbandonBatch(r) /\ rows' = rows /\ stream' = stream /\ faults' = faults + 1
    BY <1>7 DEF MarkErrorOrCrash
  <2>2. \A e \in Events : Copies(e)' = Copies(e)
    BY <2>1 DEF Copies
  <2> QED
    BY <1>0, <1>c, <1>4, <2>1, <2>2
<1>8. ASSUME NEW r \in Relays, MarkPublished(r) PROVE CopiesInv'
  <2> DEFINE h == Head(batch[r])
             b == batch[r]
             t == Tail(batch[r])
  <2>1. /\ h \in Events /\ rows' = [rows EXCEPT ![h] = "published"]
        /\ stream' = stream /\ faults' = faults /\ pc[r] = "mark"
    BY <1>0, <1>8, HeadIsEvent DEF MarkPublished
  <2>2. /\ \A q \in Relays : batch'[q] = (IF q = r THEN t ELSE batch[q])
        /\ \A q \in Relays : q # r => pc'[q] = pc[q]
        /\ pc'[r] # "mark"
    BY <1>0, <1>8 DEF TypeOK, MarkPublished
  <2>3. /\ \A i \in DOMAIN t : i + 1 \in DOMAIN b /\ t[i] = b[i + 1] /\ i \in Nat \ {0}
        /\ 1 \in DOMAIN b /\ h = b[1]
    <3>1. b \in Seq(Events) /\ b # <<>>
      BY <1>0, <2>1 DEF TypeOK
    <3> HIDE DEF b
    <3>2. /\ \A i \in DOMAIN Tail(b) : i + 1 \in DOMAIN b /\ Tail(b)[i] = b[i + 1] /\ i \in Nat \ {0}
          /\ 1 \in DOMAIN b /\ Head(b) = b[1]
      BY <3>1
    <3> QED  BY <3>2 DEF b
  <2>4. IsInjective(b)
    BY DEF CopiesInv
  <2> HIDE DEF b, t, h
  <2>5. IsInjective(t) /\ \A i \in DOMAIN t : t[i] # h
    BY <2>3, <2>4 DEF IsInjective
  <2>6. \A q \in Relays : IsInjective(batch'[q])
    BY <2>2, <2>5 DEF CopiesInv
  <2>7. ASSUME NEW e \in Events
        PROVE  /\ Copies(e)' = Copies(e)
               /\ e # h => Marking(e)' = Marking(e)
               /\ Holding(e)' \subseteq Holding(e)
    <3>1. Copies(e)' = Copies(e)
      BY <2>1 DEF Copies
    <3>2. \A q \in Relays : q # r => (q \in Marking(e)' <=> q \in Marking(e))
      BY <2>2 DEF Marking
    <3>3. r \notin Marking(e)' /\ (e # h => r \notin Marking(e))
      BY <2>2 DEF Marking, h
    <3>4. ASSUME NEW q \in Relays, q \in Holding(e)' PROVE q \in Holding(e)
      <4>1. CASE q # r
        BY <2>2, <3>2, <3>4, <4>1 DEF Holding
      <4>2. CASE q = r
        <5>1. PICK i \in DOMAIN t : t[i] = e
          BY <2>2, <3>4, <4>2 DEF Holding
        <5>2. e # h /\ i + 1 \in DOMAIN b /\ b[i + 1] = e
          BY <2>3, <2>5, <5>1
        <5> QED  BY <3>3, <4>2, <5>2 DEF Holding, b
      <4> QED  BY <4>1, <4>2
    <3> QED  BY <1>m, <3>1, <3>2, <3>3, <3>4
  <2>8. ASSUME NEW e \in Events
        PROVE  /\ Cardinality(Holding(e)') <= Cardinality(Holding(e))
               /\ Cardinality(Holding(e)') \in Nat /\ Cardinality(Holding(e)) \in Nat
               /\ Cardinality(Marking(e)) \in Nat
               /\ Marking(e) \cap Holding(e)' = {}
    <3>1. Marking(e) \cap Holding(e) = {}
      BY DEF Holding
    <3> QED  BY <1>m, <2>7, <3>1, RelaySets
  <2>9. \A e \in Events : rows'[e] = (IF e = h THEN "published" ELSE rows[e])
    BY <1>0, <2>1 DEF TypeOK
  <2> QED
    BY <1>0, <1>c, <1>s, <2>1, <2>6, <2>7, <2>8, <2>9
<1>9. CASE UNCHANGED vars
  BY <1>9 DEF vars, CopiesInv, Copies, Marking, Holding
<1> QED
  BY <1>1, <1>2, <1>3, <1>5, <1>6, <1>7, <1>8, <1>9 DEF Next, RelayStep

\* Racing relays and faults duplicate an event at most once per relay and once
\* per fault, for any number of either.
THEOREM BoundedDuplicates == Spec => []DuplicatesBounded
<1>1. Init => CopiesInv
  <2> SUFFICES ASSUME Init PROVE CopiesInv
    OBVIOUS
  <2>1. \A e \in Events : rows[e] = "absent" /\ Copies(e) = 0
    BY FS_EmptySet DEF Init, Copies
  <2>2. \A r \in Relays : IsInjective(batch[r])
    BY DEF Init, IsInjective
  <2>3. \A e \in Events : Cardinality(Marking(e)) \in Nat
    BY RelaySets DEF Marking
  <2>4. faults = 0
    BY DEF Init
  <2> QED
    BY <2>1, <2>2, <2>3, <2>4 DEF CopiesInv
<1>2. OutboxInv /\ CopiesInv /\ [Next]_vars => CopiesInv'
  BY NextCopiesInv
<1>3. OutboxInv /\ CopiesInv => DuplicatesBounded
  <2> SUFFICES ASSUME OutboxInv, CopiesInv, NEW e \in Events
               PROVE  Copies(e) <= Cardinality(Relays) + faults
    BY DEF DuplicatesBounded
  <2>1. /\ Cardinality(Marking(e)) \in Nat /\ Cardinality(Marking(e)) <= Cardinality(Relays)
        /\ Cardinality(Holding(e)) \in Nat /\ Cardinality(Relays) \in Nat
    BY RelaySets DEF Marking, Holding
  <2>2. Copies(e) \in Nat /\ faults \in Nat
    <3>1. stream \in Seq(Message) /\ faults \in Nat
      BY OutboxConstants DEF OutboxInv, TypeOK
    <3>2. Copies(e) \in Nat
      BY <3>1, CopiesType DEF Copies
    <3> QED  BY <3>1, <3>2
  <2>3. \/ Copies(e) <= faults + Cardinality(Marking(e))
        \/ Copies(e) + Cardinality(Holding(e)) <= faults + Cardinality(Relays)
    BY DEF CopiesInv
  <2> QED
    BY <2>1, <2>2, <2>3
<1> QED
  BY <1>1, <1>2, <1>3, OutboxInvariant, PTL DEF Spec

=============================================================================
