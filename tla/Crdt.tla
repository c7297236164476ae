-------------------------------- MODULE Crdt --------------------------------
(***************************************************************************)
(* The replicated types of packages/shared-types: hybrid logical clocks    *)
(* (hlc.ts) and the last-writer-wins set (crdt.ts).  The multi-value       *)
(* register, which nothing uses, is left out.                              *)
(* The functions are pure; a replica here is their caller: it              *)
(* takes the clock of its last operation from what the operation returned, *)
(* and merges its clock with that of every state it receives.              *)
(*                                                                         *)
(* Wall clocks are not synchronised and may step back.  Replicas publish   *)
(* their state now and then; a published state arrives any number of       *)
(* times, in any order with those of other replicas, or never.             *)
(***************************************************************************)
EXTENDS Integers, FiniteSets

CONSTANTS
    Nodes,     \* replicas; a node id is a number, so that ids are ordered
    Elements,  \* ids of set elements
    MaxOps,    \* bound on operations of all replicas
    MaxTime,   \* bound on what Date.now() returns
    MaxCount,  \* bound on a logical counter
    None       \* absent from a map

Hlc == [physicalTimeMs : 0..MaxTime, logicalCounter : Nat, nodeId : Nodes]

\* An entry of `adds`; one of `removes` is a clock.
AddEntry == [value : Nat, hlc : Hlc]

ASSUME CrdtConstants ==
    /\ Nodes \subseteq Nat /\ {MaxOps, MaxTime, MaxCount} \subseteq Nat
    /\ None \notin Hlc /\ None \notin AddEntry

VARIABLES
    hlc,        \* clock of each replica
    sets,       \* [adds, removes] of each replica
    seen,       \* operations each replica's state includes
    published,  \* the last state each replica published
    ops         \* operations so far; also the value an operation adds

crdtVars == <<hlc, sets, seen, published, ops>>

-----------------------------------------------------------------------------
(* hlc.ts *)

Order(x, y) == IF x < y THEN -1 ELSE 1

\* Mutant: clocks of two nodes that agree in time are taken for equal.
compareHlcWithoutNode(a, b) ==
    IF a.physicalTimeMs # b.physicalTimeMs THEN Order(a.physicalTimeMs, b.physicalTimeMs)
    ELSE IF a.logicalCounter # b.logicalCounter THEN Order(a.logicalCounter, b.logicalCounter)
    ELSE 0

compareHlc(a, b) ==
    IF a.physicalTimeMs # b.physicalTimeMs THEN Order(a.physicalTimeMs, b.physicalTimeMs)
    ELSE IF a.logicalCounter # b.logicalCounter THEN Order(a.logicalCounter, b.logicalCounter)
    ELSE IF a.nodeId # b.nodeId THEN Order(a.nodeId, b.nodeId)
    ELSE 0

\* Mutant: the clock of the remote is ignored.
mergeHlcLocal(local, remote) ==
    [local EXCEPT !.logicalCounter = @ + 1]

mergeHlc(local, remote) ==
    LET base == IF compareHlc(local, remote) >= 0 THEN local ELSE remote IN
    [base EXCEPT !.logicalCounter = @ + 1, !.nodeId = local.nodeId]

incrementHlc(h, now) ==
    IF now > h.physicalTimeMs
    THEN [h EXCEPT !.physicalTimeMs = now, !.logicalCounter = 0]
    ELSE [h EXCEPT !.logicalCounter = @ + 1]

-----------------------------------------------------------------------------
(* crdt.ts: the set *)

lookupLwwElement(set, id) ==
    IF \/ set.adds[id] = None
       \/ set.removes[id] # None /\ compareHlc(set.removes[id], set.adds[id].hlc) >= 0
    THEN None
    ELSE set.adds[id].value

addLwwElement(set, id, value, nextHlc) ==
    [set EXCEPT !.adds[id] = [value |-> value, hlc |-> nextHlc]]

removeLwwElement(set, id, nextHlc) == [set EXCEPT !.removes[id] = nextHlc]

\* b's entry replaces a's when a has none or an older one.
mergeLwwElementSet(a, b) ==
    [adds |-> [id \in Elements |->
        IF b.adds[id] # None /\ (a.adds[id] = None
              \/ compareHlc(b.adds[id].hlc, a.adds[id].hlc) > 0)
        THEN b.adds[id] ELSE a.adds[id]],
     removes |-> [id \in Elements |->
        IF b.removes[id] # None /\ (a.removes[id] = None
              \/ compareHlc(b.removes[id], a.removes[id]) > 0)
        THEN b.removes[id] ELSE a.removes[id]]]

-----------------------------------------------------------------------------
(* The replicas *)

Empty == [adds |-> [id \in Elements |-> None], removes |-> [id \in Elements |-> None]]

CrdtInit ==
    /\ hlc = [n \in Nodes |-> [physicalTimeMs |-> 0, logicalCounter |-> 0, nodeId |-> n]]
    /\ sets = [n \in Nodes |-> Empty]
    /\ seen = [n \in Nodes |-> {}]
    /\ published = [n \in Nodes |-> [set |-> Empty, hlc |-> hlc[n], seen |-> {}]]
    /\ ops = 0

\* An operation of replica n at the time Date.now() gives.
Operate(n, set, nextHlc) ==
    /\ ops < MaxOps
    /\ nextHlc.logicalCounter <= MaxCount
    /\ ops' = ops + 1
    /\ hlc' = [hlc EXCEPT ![n] = nextHlc]
    /\ sets' = [sets EXCEPT ![n] = set]
    /\ seen' = [seen EXCEPT ![n] = @ \union {ops + 1}]
    /\ UNCHANGED published

add(n, id) ==
    \E now \in 1..MaxTime :
       LET next == incrementHlc(hlc[n], now) IN
       Operate(n, addLwwElement(sets[n], id, ops + 1, next), next)

remove(n, id) ==
    \E now \in 1..MaxTime :
       LET next == incrementHlc(hlc[n], now) IN
       Operate(n, removeLwwElement(sets[n], id, next), next)

publish(n) ==
    /\ published[n].seen # seen[n]
    /\ published' = [published EXCEPT ![n] = [set |-> sets[n], hlc |-> hlc[n], seen |-> seen[n]]]
    /\ UNCHANGED <<hlc, sets, seen, ops>>

receive(n, m) ==
    LET message == published[m]
        next == mergeHlc(hlc[n], message.hlc) IN
    /\ n # m
    /\ next.logicalCounter <= MaxCount
    /\ sets' = [sets EXCEPT ![n] = mergeLwwElementSet(@, message.set)]
    /\ seen' = [seen EXCEPT ![n] = @ \union message.seen]
    /\ hlc' = [hlc EXCEPT ![n] = next]
    /\ UNCHANGED <<published, ops>>

CrdtNext ==
    \E n \in Nodes :
       \/ \E id \in Elements : add(n, id) \/ remove(n, id)
       \/ publish(n)
       \/ \E m \in Nodes : receive(n, m)

CrdtSpec == CrdtInit /\ [][CrdtNext]_crdtVars

-----------------------------------------------------------------------------
(* Properties *)

\* Replicas that have seen the same operations hold the same state, however
\* often and in whatever order the states that carried them arrived, and
\* whatever the wall clocks said.
Converged ==
    \A n, m \in Nodes : seen[n] = seen[m] => sets[n] = sets[m]

\* What a replica adds it can look up, and what it removes is gone from it,
\* although it merged operations of replicas whose clocks run ahead.
OwnWriteWins ==
    [][ \A n \in Nodes, id \in Elements :
          /\ ops' > ops /\ sets'[n].adds[id] # sets[n].adds[id]
                => lookupLwwElement(sets'[n], id) = ops'
          /\ ops' > ops /\ sets'[n].removes[id] # sets[n].removes[id]
                => lookupLwwElement(sets'[n], id) = None
      ]_crdtVars
=============================================================================
