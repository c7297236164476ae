----------------------------- MODULE DataProofs -----------------------------
(***************************************************************************)
(* Proofs about the replicated set of shared-types, for any number of      *)
(* replicas, elements and operations; the foreign keys of the database     *)
(* schema, for any choice of its tables and any number of rows; the        *)
(* descriptions of a row, table by table; the prices of the item sheet and *)
(* the totals of the cart, for any item, options and lines; and the pages  *)
(* of the catalogue, for any catalogue and page size.                      *)
(***************************************************************************)
EXTENDS Crdt, Schema, Rows, Catalogue, Pricing, NaturalsInduction, WellFoundedInduction, TLAPS

-----------------------------------------------------------------------------
(* Hybrid logical clocks are totally ordered *)

After(a, b) == compareHlc(a, b) > 0

LEMMA ClockFields ==
    ASSUME NEW a \in Hlc
    PROVE  /\ a.physicalTimeMs \in 0..MaxTime /\ a.physicalTimeMs \in Nat
           /\ a.logicalCounter \in Nat /\ a.nodeId \in Nodes /\ a.nodeId \in Nat
<1>1. MaxTime \in Nat /\ Nodes \subseteq Nat
  BY CrdtConstants
<1>2. a.physicalTimeMs \in 0..MaxTime /\ a.logicalCounter \in Nat /\ a.nodeId \in Nodes
  BY DEF Hlc
<1>3. \A x \in 0..MaxTime : x \in Nat
  BY <1>1
<1> QED  BY <1>1, <1>2, <1>3, Zenon

LEMMA ClockEquality ==
    ASSUME NEW a \in Hlc, NEW b \in Hlc, a.physicalTimeMs = b.physicalTimeMs,
           a.logicalCounter = b.logicalCounter, a.nodeId = b.nodeId
    PROVE  a = b
BY DEF Hlc

\* compareHlc is the lexicographic order of time, counter and node.
LEMMA AfterIsLexicographic ==
    ASSUME NEW a \in Hlc, NEW b \in Hlc
    PROVE  After(a, b) <=>
             \/ a.physicalTimeMs > b.physicalTimeMs
             \/ /\ a.physicalTimeMs = b.physicalTimeMs
                /\ \/ a.logicalCounter > b.logicalCounter
                   \/ a.logicalCounter = b.logicalCounter /\ a.nodeId > b.nodeId
<1>1. /\ a.physicalTimeMs \in Nat /\ a.logicalCounter \in Nat /\ a.nodeId \in Nat
      /\ b.physicalTimeMs \in Nat /\ b.logicalCounter \in Nat /\ b.nodeId \in Nat
  BY ClockFields
<1> QED  BY <1>1 DEF After, compareHlc, Order

LEMMA CompareIsTotal ==
    ASSUME NEW a \in Hlc, NEW b \in Hlc
    PROVE  /\ a = b \/ After(a, b) \/ After(b, a)
           /\ ~(After(a, b) /\ After(b, a)) /\ ~After(a, a)
           /\ compareHlc(a, b) >= 0 <=> ~After(b, a)
<1>1. a = b \/ After(a, b) \/ After(b, a)
  BY ClockFields, ClockEquality, AfterIsLexicographic
<1>2. ~(After(a, b) /\ After(b, a)) /\ ~After(a, a)
  BY ClockFields, AfterIsLexicographic
<1>3. compareHlc(a, b) >= 0 <=> ~After(b, a)
  BY ClockFields DEF After, compareHlc, Order
<1> QED  BY <1>1, <1>2, <1>3

LEMMA AfterIsTransitive ==
    ASSUME NEW a \in Hlc, NEW b \in Hlc, NEW c \in Hlc, ~After(b, a), ~After(c, b)
    PROVE  ~After(c, a) /\ (After(a, b) \/ After(b, c) => After(a, c))
BY ClockFields, AfterIsLexicographic

LEMMA IncrementIsLater ==
    ASSUME NEW a \in Hlc, NEW now \in 1..MaxTime
    PROVE  /\ incrementHlc(a, now) \in Hlc /\ After(incrementHlc(a, now), a)
           /\ incrementHlc(a, now).nodeId = a.nodeId
<1> DEFINE b == incrementHlc(a, now)
<1>0. MaxTime \in Nat /\ now \in 0..MaxTime /\ now \in Nat
  BY CrdtConstants
<1>1. CASE now > a.physicalTimeMs
  <2>1. b = [a EXCEPT !.physicalTimeMs = now, !.logicalCounter = 0]
    BY <1>1 DEF incrementHlc
  <2> HIDE DEF b
  <2>2. b \in Hlc
    BY <1>0, <2>1 DEF Hlc
  <2>3. b.nodeId = a.nodeId /\ b.physicalTimeMs = now
    BY <2>1 DEF Hlc
  <2> QED  BY <1>1, <2>2, <2>3, AfterIsLexicographic DEF b
<1>2. CASE ~(now > a.physicalTimeMs)
  <2>1. b = [a EXCEPT !.logicalCounter = @ + 1]
    BY <1>2 DEF incrementHlc
  <2> HIDE DEF b
  <2>2. b \in Hlc
    <3>1. a.logicalCounter + 1 \in Nat
      BY ClockFields
    <3> QED  BY <2>1, <3>1 DEF Hlc
  <2>3. /\ b.nodeId = a.nodeId /\ b.physicalTimeMs = a.physicalTimeMs
        /\ b.logicalCounter = a.logicalCounter + 1
    BY <2>1 DEF Hlc
  <2>4. b.logicalCounter > a.logicalCounter
    BY <2>3, ClockFields
  <2> QED  BY <2>2, <2>3, <2>4, AfterIsLexicographic DEF b
<1> QED  BY <1>1, <1>2

LEMMA MergeIsLater ==
    ASSUME NEW a \in Hlc, NEW b \in Hlc
    PROVE  /\ mergeHlc(a, b) \in Hlc /\ mergeHlc(a, b).nodeId = a.nodeId
           /\ After(mergeHlc(a, b), a) /\ After(mergeHlc(a, b), b)
<1> DEFINE base == IF compareHlc(a, b) >= 0 THEN a ELSE b
           m == mergeHlc(a, b)
<1>1. base \in Hlc /\ ~After(a, base) /\ ~After(b, base)
  BY CompareIsTotal
<1>2. m = [base EXCEPT !.logicalCounter = @ + 1, !.nodeId = a.nodeId]
  BY DEF mergeHlc
<1> HIDE DEF base, m
<1>3. /\ m \in Hlc /\ m.nodeId = a.nodeId /\ m.physicalTimeMs = base.physicalTimeMs
      /\ m.logicalCounter = base.logicalCounter + 1
  <2>1. a.nodeId \in Nodes /\ base.logicalCounter + 1 \in Nat
    BY <1>1, ClockFields
  <2> QED  BY <1>1, <1>2, <2>1 DEF Hlc
<1>4. After(m, base)
  BY <1>1, <1>3, ClockFields, AfterIsLexicographic
<1>5. ~After(base, m)
  BY <1>1, <1>3, <1>4, CompareIsTotal
<1> QED  BY <1>1, <1>3, <1>4, <1>5, AfterIsTransitive DEF m

-----------------------------------------------------------------------------
(* The inductive invariant.  A log of all operations, which no replica     *)
(* keeps, says what each number in `seen` stands for.                      *)

Operation == [kind : {"add", "remove"}, id : Elements, hlc : Hlc]

\* The clocks of two operations differ.
IsLog(log, N) ==
    /\ log \in [1..N -> Operation]
    /\ \A j, k \in 1..N : log[j].hlc = log[k].hlc => j = k

\* Of the operations S of one kind on an element, k has the latest clock.
Latest(log, S, kind, id, k) ==
    /\ k \in S /\ log[k].kind = kind /\ log[k].id = id
    /\ \A j \in S : log[j].kind = kind /\ log[j].id = id /\ j # k => After(log[k].hlc, log[j].hlc)

HasNone(log, S, kind, id) == \A j \in S : ~(log[j].kind = kind /\ log[j].id = id)

IsSet(set) == set \in [adds : [Elements -> AddEntry \union {None}],
                       removes : [Elements -> Hlc \union {None}]]

\* The entry of an element is that of the latest operation on it, of those in S.
AddReflects(entry, S, log, id) ==
    /\ entry = None => HasNone(log, S, "add", id)
    /\ entry # None => /\ Latest(log, S, "add", id, entry.value)
                       /\ entry.hlc = log[entry.value].hlc

RemoveReflects(entry, S, log, id) ==
    /\ entry = None => HasNone(log, S, "remove", id)
    /\ entry # None => \E k \in S : Latest(log, S, "remove", id, k) /\ entry = log[k].hlc

\* So a state is determined by the operations it includes.
Reflects(set, S, log) ==
    /\ IsSet(set)
    /\ \A id \in Elements : /\ AddReflects(set.adds[id], S, log, id)
                            /\ RemoveReflects(set.removes[id], S, log, id)

\* A clock is not behind the operations it came with.
Covers(clock, S, log) == clock \in Hlc /\ \A k \in S : ~After(log[k].hlc, clock)

\* A replica has seen its own operations.
SawOwn(log) == \A k \in 1..ops : log[k].hlc.nodeId \in Nodes => k \in seen[log[k].hlc.nodeId]

Replicated(log) ==
    /\ ops \in Nat /\ IsLog(log, ops) /\ SawOwn(log)
    /\ DOMAIN hlc = Nodes /\ DOMAIN sets = Nodes /\ DOMAIN seen = Nodes /\ DOMAIN published = Nodes
    /\ \A n \in Nodes : /\ hlc[n].nodeId = n /\ seen[n] \subseteq 1..ops
                        /\ Covers(hlc[n], seen[n], log) /\ Reflects(sets[n], seen[n], log)
    /\ \A n \in Nodes : /\ published[n].seen \subseteq 1..ops
                        /\ Covers(published[n].hlc, published[n].seen, log)
                        /\ Reflects(published[n].set, published[n].seen, log)

CrdtInv == \E log : Replicated(log)

-----------------------------------------------------------------------------
(* What the operations on a set do to the operations it reflects *)

LEMMA LogFields ==
    ASSUME NEW N, NEW log, IsLog(log, N), NEW k \in 1..N
    PROVE  log[k] \in Operation /\ log[k].hlc \in Hlc
BY DEF IsLog, Operation

LEMMA SetFields ==
    ASSUME NEW set, IsSet(set)
    PROVE  /\ DOMAIN set.adds = Elements /\ DOMAIN set.removes = Elements
           /\ set = [adds |-> set.adds, removes |-> set.removes]
           /\ set.adds \in [Elements -> AddEntry \union {None}]
           /\ set.removes \in [Elements -> Hlc \union {None}]
           /\ \A id \in Elements : /\ set.adds[id] \in AddEntry \union {None}
                                   /\ set.removes[id] \in Hlc \union {None}
BY DEF IsSet

LEMMA MakeSet ==
    ASSUME NEW A \in [Elements -> AddEntry \union {None}],
           NEW R \in [Elements -> Hlc \union {None}]
    PROVE  IsSet([adds |-> A, removes |-> R])
BY DEF IsSet

\* Of two operations the one with the later clock stays.
LEMMA LatestOfTwo ==
    ASSUME NEW N, NEW log, IsLog(log, N), NEW S \in SUBSET (1..N), NEW T \in SUBSET (1..N),
           NEW kind, NEW id, NEW j, NEW k, Latest(log, S, kind, id, j), Latest(log, T, kind, id, k)
    PROVE  IF After(log[k].hlc, log[j].hlc) THEN Latest(log, S \union T, kind, id, k)
                                            ELSE Latest(log, S \union T, kind, id, j)
<1>1. j \in 1..N /\ k \in 1..N /\ j \in S /\ k \in T
  BY DEF Latest
<1>2. \A i \in S \union T : i \in 1..N /\ log[i].hlc \in Hlc
  BY LogFields
<1>3. CASE After(log[k].hlc, log[j].hlc)
  <2>1. ASSUME NEW i \in S, log[i].kind = kind, log[i].id = id
        PROVE  After(log[k].hlc, log[i].hlc)
    <3>1. i = j \/ After(log[j].hlc, log[i].hlc)
      BY <2>1 DEF Latest
    <3>2. ~After(log[i].hlc, log[j].hlc) /\ ~After(log[j].hlc, log[k].hlc)
      BY <1>1, <1>2, <1>3, <3>1, CompareIsTotal
    <3> QED  BY <1>1, <1>2, <1>3, <3>2, AfterIsTransitive
  <2> QED  BY <1>1, <1>3, <2>1 DEF Latest
<1>4. CASE ~After(log[k].hlc, log[j].hlc)
  <2>1. k = j \/ After(log[j].hlc, log[k].hlc)
    <3>1. log[k].hlc = log[j].hlc \/ After(log[j].hlc, log[k].hlc)
      BY <1>1, <1>2, <1>4, CompareIsTotal
    <3> QED  BY <1>1, <3>1 DEF IsLog
  <2>2. ASSUME NEW i \in T, log[i].kind = kind, log[i].id = id, i # j
        PROVE  After(log[j].hlc, log[i].hlc)
    <3>1. i = k \/ After(log[k].hlc, log[i].hlc)
      BY <2>2 DEF Latest
    <3>2. ~After(log[i].hlc, log[k].hlc)
      BY <1>1, <1>2, <3>1, CompareIsTotal
    <3>3. After(log[k].hlc, log[i].hlc) \/ After(log[j].hlc, log[k].hlc)
      BY <2>1, <2>2, <3>1
    <3> QED  BY <1>1, <1>2, <1>4, <3>2, <3>3, AfterIsTransitive
  <2> QED  BY <1>1, <1>4, <2>2 DEF Latest
<1> QED  BY <1>3, <1>4

LEMMA LatestWithNone ==
    ASSUME NEW log, NEW S, NEW T, NEW kind, NEW id, NEW k,
           Latest(log, S, kind, id, k), HasNone(log, T, kind, id)
    PROVE  Latest(log, S \union T, kind, id, k) /\ Latest(log, T \union S, kind, id, k)
BY DEF Latest, HasNone

LEMMA AddsMerge ==
    ASSUME NEW N, NEW log, IsLog(log, N), NEW S \in SUBSET (1..N), NEW T \in SUBSET (1..N), NEW id,
           NEW e \in AddEntry \union {None}, AddReflects(e, S, log, id),
           NEW f \in AddEntry \union {None}, AddReflects(f, T, log, id)
    PROVE  AddReflects(IF f # None /\ (e = None \/ compareHlc(f.hlc, e.hlc) > 0) THEN f ELSE e,
                       S \union T, log, id)
<1>1. CASE f = None
  <2>1. CASE e = None
    BY <1>1, <2>1 DEF AddReflects, HasNone
  <2>2. CASE e # None
    BY <1>1, <2>2, LatestWithNone DEF AddReflects
  <2> QED  BY <2>1, <2>2
<1>2. CASE f # None /\ e = None
  BY <1>2, LatestWithNone DEF AddReflects
<1>3. CASE f # None /\ e # None
  <2>1. /\ Latest(log, S, "add", id, e.value) /\ Latest(log, T, "add", id, f.value)
        /\ e.hlc = log[e.value].hlc /\ f.hlc = log[f.value].hlc
    BY <1>3 DEF AddReflects
  <2>2. IF After(f.hlc, e.hlc) THEN Latest(log, S \union T, "add", id, f.value)
                               ELSE Latest(log, S \union T, "add", id, e.value)
    BY <2>1, LatestOfTwo
  <2> QED  BY <1>3, <2>1, <2>2 DEF AddReflects, After
<1> QED  BY <1>1, <1>2, <1>3

LEMMA RemovesMerge ==
    ASSUME NEW N, NEW log, IsLog(log, N), NEW S \in SUBSET (1..N), NEW T \in SUBSET (1..N), NEW id,
           NEW e \in Hlc \union {None}, RemoveReflects(e, S, log, id),
           NEW f \in Hlc \union {None}, RemoveReflects(f, T, log, id)
    PROVE  RemoveReflects(IF f # None /\ (e = None \/ compareHlc(f, e) > 0) THEN f ELSE e,
                          S \union T, log, id)
<1>1. CASE f = None
  <2>1. CASE e = None
    BY <1>1, <2>1 DEF RemoveReflects, HasNone
  <2>2. CASE e # None
    BY <1>1, <2>2, LatestWithNone DEF RemoveReflects
  <2> QED  BY <2>1, <2>2
<1>2. CASE f # None /\ e = None
  BY <1>2, LatestWithNone DEF RemoveReflects
<1>3. CASE f # None /\ e # None
  <2>1. PICK j \in S : Latest(log, S, "remove", id, j) /\ e = log[j].hlc
    BY <1>3 DEF RemoveReflects
  <2>2. PICK k \in T : Latest(log, T, "remove", id, k) /\ f = log[k].hlc
    BY <1>3 DEF RemoveReflects
  <2>3. IF After(f, e) THEN Latest(log, S \union T, "remove", id, k)
                       ELSE Latest(log, S \union T, "remove", id, j)
    BY <2>1, <2>2, LatestOfTwo
  <2> QED  BY <1>3, <2>1, <2>2, <2>3 DEF RemoveReflects, After
<1> QED  BY <1>1, <1>2, <1>3

\* The merge of two states reflects the operations of both.
LEMMA MergeReflects ==
    ASSUME NEW N, NEW log, IsLog(log, N), NEW S \in SUBSET (1..N), NEW T \in SUBSET (1..N),
           NEW a, Reflects(a, S, log), NEW b, Reflects(b, T, log)
    PROVE  Reflects(mergeLwwElementSet(a, b), S \union T, log)
<1> DEFINE A == [id \in Elements |->
                    IF b.adds[id] # None /\ (a.adds[id] = None
                          \/ compareHlc(b.adds[id].hlc, a.adds[id].hlc) > 0)
                    THEN b.adds[id] ELSE a.adds[id]]
           R == [id \in Elements |->
                    IF b.removes[id] # None /\ (a.removes[id] = None
                          \/ compareHlc(b.removes[id], a.removes[id]) > 0)
                    THEN b.removes[id] ELSE a.removes[id]]
           m == [adds |-> A, removes |-> R]
<1>1. m = mergeLwwElementSet(a, b)
  BY DEF mergeLwwElementSet
<1>2. \A id \in Elements : /\ a.adds[id] \in AddEntry \union {None} /\ b.adds[id] \in AddEntry \union {None}
                           /\ a.removes[id] \in Hlc \union {None} /\ b.removes[id] \in Hlc \union {None}
  BY SetFields DEF Reflects
<1>3. A \in [Elements -> AddEntry \union {None}] /\ R \in [Elements -> Hlc \union {None}]
  BY <1>2
<1>4. ASSUME NEW id \in Elements PROVE AddReflects(A[id], S \union T, log, id)
  <2>1. AddReflects(a.adds[id], S, log, id) /\ AddReflects(b.adds[id], T, log, id)
    BY DEF Reflects
  <2>2. PICK e, f : e = a.adds[id] /\ f = b.adds[id]
    OBVIOUS
  <2>3. A[id] = IF f # None /\ (e = None \/ compareHlc(f.hlc, e.hlc) > 0) THEN f ELSE e
    BY <2>2
  <2> HIDE DEF A
  <2> QED  BY <1>2, <2>1, <2>2, <2>3, AddsMerge, ZenonT(60)
<1>5. ASSUME NEW id \in Elements PROVE RemoveReflects(R[id], S \union T, log, id)
  <2>1. RemoveReflects(a.removes[id], S, log, id) /\ RemoveReflects(b.removes[id], T, log, id)
    BY DEF Reflects
  <2>2. PICK e, f : e = a.removes[id] /\ f = b.removes[id]
    OBVIOUS
  <2>3. R[id] = IF f # None /\ (e = None \/ compareHlc(f, e) > 0) THEN f ELSE e
    BY <2>2
  <2> HIDE DEF R
  <2> QED  BY <1>2, <2>1, <2>2, <2>3, RemovesMerge, ZenonT(60)
<1>6. m.adds = A /\ m.removes = R
  OBVIOUS
<1> HIDE DEF A, R
<1>7. IsSet(m)
  BY <1>3, MakeSet
<1> HIDE DEF m
<1>8. Reflects(m, S \union T, log)
  BY <1>4, <1>5, <1>6, <1>7 DEF Reflects
<1> QED  BY <1>1, <1>8

\* A log that goes on says the same about the operations before.
LEMMA LongerLog ==
    ASSUME NEW log, NEW longer, NEW S, \A k \in S : longer[k] = log[k]
    PROVE  /\ \A set : Reflects(set, S, log) => Reflects(set, S, longer)
           /\ \A clock : Covers(clock, S, log) => Covers(clock, S, longer)
<1>1. \A kind, id, k : Latest(log, S, kind, id, k) => Latest(longer, S, kind, id, k)
  BY DEF Latest
<1>2. \A kind, id : HasNone(log, S, kind, id) => HasNone(longer, S, kind, id)
  BY DEF HasNone
<1>3. \A e, id : AddReflects(e, S, log, id) => AddReflects(e, S, longer, id)
  BY <1>1, <1>2 DEF AddReflects, Latest
<1>4. \A e, id : RemoveReflects(e, S, log, id) => RemoveReflects(e, S, longer, id)
  BY <1>1, <1>2 DEF RemoveReflects
<1>5. \A set : Reflects(set, S, log) => Reflects(set, S, longer)
  BY <1>3, <1>4 DEF Reflects
<1>6. \A clock : Covers(clock, S, log) => Covers(clock, S, longer)
  BY DEF Covers
<1> QED  BY <1>5, <1>6

\* An operation later than all others of a state becomes the entry of its element.
LEMMA NewAddReflects ==
    ASSUME NEW log, NEW S, NEW o \in Nat, o \notin S, NEW i \in Elements, NEW x \in Hlc,
           log[o].kind = "add", log[o].id = i, log[o].hlc = x,
           \A k \in S : After(x, log[k].hlc),
           NEW set, Reflects(set, S, log)
    PROVE  Reflects(addLwwElement(set, i, o, x), S \union {o}, log)
<1> DEFINE e == [value |-> o, hlc |-> x]
           A == [set.adds EXCEPT ![i] = e]
           m == [adds |-> A, removes |-> set.removes]
<1>0. IsSet(set)
  BY DEF Reflects
<1>1. e \in AddEntry /\ e # None /\ e.value = o /\ e.hlc = x
  BY CrdtConstants DEF AddEntry
<1>2. m = addLwwElement(set, i, o, x)
  <2>1. set = [adds |-> set.adds, removes |-> set.removes]
    BY <1>0, SetFields
  <2> QED  BY <2>1 DEF addLwwElement
<1> HIDE DEF e
<1>3. /\ A \in [Elements -> AddEntry \union {None}] /\ A[i] = e
      /\ \A id \in Elements : id # i => A[id] = set.adds[id]
  BY <1>0, <1>1, SetFields
<1>4. m.adds = A /\ m.removes = set.removes
  OBVIOUS
<1> HIDE DEF A
<1>5. IsSet(m)
  BY <1>0, <1>3, SetFields, MakeSet
<1> HIDE DEF m
<1>6. ASSUME NEW id \in Elements PROVE AddReflects(m.adds[id], S \union {o}, log, id)
  <2>0. AddReflects(set.adds[id], S, log, id)
    BY DEF Reflects
  <2>1. CASE id = i
    <3>1. Latest(log, S \union {o}, "add", id, o)
      BY <2>1 DEF Latest
    <3> QED  BY <1>1, <1>3, <1>4, <2>1, <3>1 DEF AddReflects
  <2>2. CASE id # i
    <3>1. HasNone(log, {o}, "add", id)
      BY <2>2 DEF HasNone
    <3>2. CASE set.adds[id] = None
      BY <1>3, <1>4, <2>0, <2>2, <3>1, <3>2 DEF AddReflects, HasNone
    <3>3. CASE set.adds[id] # None
      BY <1>3, <1>4, <2>0, <2>2, <3>1, <3>3, LatestWithNone DEF AddReflects
    <3> QED  BY <3>2, <3>3
  <2> QED  BY <2>1, <2>2
<1>7. ASSUME NEW id \in Elements PROVE RemoveReflects(m.removes[id], S \union {o}, log, id)
  <2>0. RemoveReflects(set.removes[id], S, log, id) /\ HasNone(log, {o}, "remove", id)
    BY DEF Reflects, HasNone
  <2>1. CASE set.removes[id] = None
    BY <1>4, <2>0, <2>1 DEF RemoveReflects, HasNone
  <2>2. CASE set.removes[id] # None
    BY <1>4, <2>0, <2>2, LatestWithNone DEF RemoveReflects
  <2> QED  BY <2>1, <2>2
<1> QED  BY <1>2, <1>5, <1>6, <1>7 DEF Reflects

LEMMA NewRemoveReflects ==
    ASSUME NEW log, NEW S, NEW o \in Nat, o \notin S, NEW i \in Elements, NEW x \in Hlc,
           log[o].kind = "remove", log[o].id = i, log[o].hlc = x,
           \A k \in S : After(x, log[k].hlc),
           NEW set, Reflects(set, S, log)
    PROVE  Reflects(removeLwwElement(set, i, x), S \union {o}, log)
<1> DEFINE R == [set.removes EXCEPT ![i] = x]
           m == [adds |-> set.adds, removes |-> R]
<1>0. IsSet(set)
  BY DEF Reflects
<1>1. x # None
  BY CrdtConstants
<1>2. m = removeLwwElement(set, i, x)
  <2>1. set = [adds |-> set.adds, removes |-> set.removes]
    BY <1>0, SetFields
  <2> QED  BY <2>1 DEF removeLwwElement
<1>3. /\ R \in [Elements -> Hlc \union {None}] /\ R[i] = x
      /\ \A id \in Elements : id # i => R[id] = set.removes[id]
  BY <1>0, <1>1, SetFields
<1>4. m.adds = set.adds /\ m.removes = R
  OBVIOUS
<1> HIDE DEF R
<1>5. IsSet(m)
  BY <1>0, <1>3, SetFields, MakeSet
<1> HIDE DEF m
<1>6. ASSUME NEW id \in Elements PROVE RemoveReflects(m.removes[id], S \union {o}, log, id)
  <2>0. RemoveReflects(set.removes[id], S, log, id)
    BY DEF Reflects
  <2>1. CASE id = i
    <3>1. Latest(log, S \union {o}, "remove", id, o)
      BY <2>1 DEF Latest
    <3> QED  BY <1>1, <1>3, <1>4, <2>1, <3>1 DEF RemoveReflects
  <2>2. CASE id # i
    <3>1. HasNone(log, {o}, "remove", id)
      BY <2>2 DEF HasNone
    <3>2. CASE set.removes[id] = None
      BY <1>3, <1>4, <2>0, <2>2, <3>1, <3>2 DEF RemoveReflects, HasNone
    <3>3. CASE set.removes[id] # None
      BY <1>3, <1>4, <2>0, <2>2, <3>1, <3>3, LatestWithNone DEF RemoveReflects
    <3> QED  BY <3>2, <3>3
  <2> QED  BY <2>1, <2>2
<1>7. ASSUME NEW id \in Elements PROVE AddReflects(m.adds[id], S \union {o}, log, id)
  <2>0. AddReflects(set.adds[id], S, log, id) /\ HasNone(log, {o}, "add", id)
    BY DEF Reflects, HasNone
  <2>1. CASE set.adds[id] = None
    BY <1>4, <2>0, <2>1 DEF AddReflects, HasNone
  <2>2. CASE set.adds[id] # None
    BY <1>4, <2>0, <2>2, LatestWithNone DEF AddReflects
  <2> QED  BY <2>1, <2>2
<1> QED  BY <1>2, <1>5, <1>6, <1>7 DEF Reflects

-----------------------------------------------------------------------------
(* Steps *)

LEMMA InitCrdtInv == CrdtInit => CrdtInv
<1> SUFFICES ASSUME CrdtInit PROVE CrdtInv
  OBVIOUS
<1> DEFINE log == [k \in 1..0 |-> 0]
<1>1. Reflects(Empty, {}, log)
  <2>1. IsSet(Empty)
    BY DEF IsSet, Empty
  <2>2. \A id \in Elements : Empty.adds[id] = None /\ Empty.removes[id] = None
    BY DEF Empty
  <2> QED  BY <2>1, <2>2 DEF Reflects, AddReflects, RemoveReflects, HasNone
<1> DEFINE clock(n) == [physicalTimeMs |-> 0, logicalCounter |-> 0, nodeId |-> n]
<1>2. \A n \in Nodes : clock(n).nodeId = n /\ Covers(clock(n), {}, log)
  <2>1. MaxTime \in Nat
    BY CrdtConstants
  <2> QED  BY <2>1 DEF Covers, Hlc
<1>3. /\ DOMAIN hlc = Nodes /\ DOMAIN sets = Nodes /\ DOMAIN seen = Nodes /\ DOMAIN published = Nodes
      /\ \A n \in Nodes : hlc[n] = clock(n) /\ sets[n] = Empty /\ seen[n] = {}
  BY DEF CrdtInit
<1>4. \A n \in Nodes : /\ published[n].set = Empty /\ published[n].seen = {}
                       /\ published[n].hlc = clock(n)
  BY <1>3 DEF CrdtInit
<1>5. ops = 0 /\ 1..ops = {}
  BY DEF CrdtInit
<1>6. IsLog(log, 0)
  BY DEF IsLog
<1>7. SawOwn(log)
  BY <1>5 DEF SawOwn
<1> HIDE DEF log, clock
<1>8. Replicated(log)
  BY <1>1, <1>2, <1>3, <1>4, <1>5, <1>6, <1>7 DEF Replicated
<1> QED  BY <1>8 DEF CrdtInv

\* set is the state of replica n with a new operation on id, of clock x.
Records(set, n, kind, id, x) ==
    \A longer : /\ longer[ops + 1].kind = kind /\ longer[ops + 1].id = id
                /\ longer[ops + 1].hlc = x
                /\ \A k \in seen[n] : After(x, longer[k].hlc)
                /\ Reflects(sets[n], seen[n], longer)
                => Reflects(set, seen[n] \union {ops + 1}, longer)

\* An operation of replica n: add and remove differ in what they do to the set.
LEMMA OperateStep ==
    ASSUME NEW log, Replicated(log), NEW n \in Nodes, NEW x, x \in Hlc, After(x, hlc[n]),
           x.nodeId = n, NEW kind \in {"add", "remove"}, NEW id \in Elements, NEW set,
           Operate(n, set, x), Records(set, n, kind, id, x)
    PROVE  CrdtInv'
<1> DEFINE o == ops + 1
<1>l. PICK longer :
         longer = [k \in 1..o |-> IF k = o THEN [kind |-> kind, id |-> id, hlc |-> x] ELSE log[k]]
  OBVIOUS
<1>0. /\ ops \in Nat /\ IsLog(log, ops) /\ SawOwn(log) /\ o \in Nat
      /\ DOMAIN hlc = Nodes /\ DOMAIN sets = Nodes /\ DOMAIN seen = Nodes /\ DOMAIN published = Nodes
      /\ \A m \in Nodes : /\ hlc[m].nodeId = m /\ seen[m] \subseteq 1..ops
                          /\ Covers(hlc[m], seen[m], log) /\ Reflects(sets[m], seen[m], log)
      /\ \A m \in Nodes : /\ published[m].seen \subseteq 1..ops
                          /\ Covers(published[m].hlc, published[m].seen, log)
                          /\ Reflects(published[m].set, published[m].seen, log)
  BY DEF Replicated
<1>1. /\ longer[o].kind = kind /\ longer[o].id = id /\ longer[o].hlc = x /\ longer[o] \in Operation
      /\ \A k \in 1..ops : longer[k] = log[k]
      /\ longer \in [1..o -> Operation]
  <2>1. \A k \in 1..o : k = o \/ k \in 1..ops
    BY <1>0
  <2>2. o \in 1..o /\ \A k \in 1..ops : k \in 1..o /\ k # o
    BY <1>0
  <2>3. [kind |-> kind, id |-> id, hlc |-> x] \in Operation
    BY DEF Operation
  <2>4. \A k \in 1..ops : log[k] \in Operation
    BY <1>0, LogFields
  <2> QED  BY <1>l, <2>1, <2>2, <2>3, <2>4
<1>2. /\ ops' = o /\ published' = published
      /\ hlc' = [hlc EXCEPT ![n] = x] /\ sets' = [sets EXCEPT ![n] = set]
      /\ seen' = [seen EXCEPT ![n] = seen[n] \union {o}]
  BY DEF Operate
<1>3. /\ \A k \in 1..ops : log[k].hlc \in Hlc /\ k \in 1..o
      /\ \A k \in 1..o : k = o \/ k \in 1..ops
      /\ o \notin 1..ops
  BY <1>0, LogFields
<1>4. ASSUME NEW k \in seen[n] PROVE After(x, longer[k].hlc)
  <2>1. k \in 1..ops /\ ~After(log[k].hlc, hlc[n]) /\ hlc[n] \in Hlc /\ longer[k] = log[k]
    BY <1>0, <1>1 DEF Covers
  <2>2. ~After(hlc[n], x)
    BY <2>1, CompareIsTotal
  <2> QED  BY <1>3, <2>1, <2>2, AfterIsTransitive
<1>5. IsLog(longer, o)
  <2>1. ASSUME NEW k \in 1..ops PROVE longer[k].hlc # x
    <3>1. CASE k \in seen[n]
      BY <1>4, <3>1, CompareIsTotal
    <3>2. CASE k \notin seen[n]
      <4>1. log[k].hlc.nodeId \in Nodes
        BY <1>3, ClockFields
      <4>2. log[k].hlc.nodeId # n
        BY <1>0, <3>2, <4>1 DEF SawOwn
      <4> QED  BY <1>1, <4>2
    <3> QED  BY <3>1, <3>2
  <2>2. ASSUME NEW j \in 1..o, NEW k \in 1..o, longer[j].hlc = longer[k].hlc PROVE j = k
    <3>1. CASE j \in 1..ops /\ k \in 1..ops
      BY <1>0, <1>1, <2>2, <3>1 DEF IsLog
    <3> QED  BY <1>1, <1>3, <2>1, <2>2, <3>1
  <2> QED  BY <1>1, <2>2 DEF IsLog
<1>6. /\ DOMAIN hlc' = Nodes /\ DOMAIN sets' = Nodes /\ DOMAIN seen' = Nodes /\ DOMAIN published' = Nodes
      /\ hlc'[n] = x /\ sets'[n] = set /\ seen'[n] = seen[n] \union {o}
      /\ \A m \in Nodes : m # n => hlc'[m] = hlc[m] /\ sets'[m] = sets[m] /\ seen'[m] = seen[m]
  BY <1>0, <1>2
<1>7. \A m \in Nodes : /\ Covers(hlc[m], seen[m], longer) /\ Reflects(sets[m], seen[m], longer)
                       /\ Covers(published[m].hlc, published[m].seen, longer)
                       /\ Reflects(published[m].set, published[m].seen, longer)
  <2>1. \A m \in Nodes : /\ \A k \in seen[m] : longer[k] = log[k]
                         /\ \A k \in published[m].seen : longer[k] = log[k]
    BY <1>0, <1>1
  <2> QED  BY <1>0, <2>1, LongerLog, ZenonT(60)
<1>8. Reflects(set, seen'[n], longer)
  <2>1. /\ longer[o].kind = kind /\ longer[o].id = id /\ longer[o].hlc = x
        /\ \A k \in seen[n] : After(x, longer[k].hlc)
    BY <1>1, <1>4
  <2>2. Reflects(sets[n], seen[n], longer)
    BY <1>7
  <2>3. Reflects(set, seen[n] \union {o}, longer)
    BY <2>1, <2>2 DEF Records
  <2> QED  BY <1>6, <2>3
<1>9. Covers(x, seen'[n], longer)
  <2>1. ASSUME NEW k \in seen[n] PROVE ~After(longer[k].hlc, x)
    <3>1. PICK y : y = longer[k].hlc
      OBVIOUS
    <3>2. y \in Hlc
      <4>1. k \in 1..ops
        BY <1>0
      <4> QED  BY <1>1, <1>3, <3>1, <4>1
    <3>3. After(x, y)
      BY <1>4, <3>1
    <3> QED  BY <3>1, <3>2, <3>3, CompareIsTotal
  <2>2. ~After(x, x)
    BY CompareIsTotal
  <2> QED  BY <1>1, <1>6, <2>1, <2>2 DEF Covers
<1>10. SawOwn(longer)'
  <2> SUFFICES ASSUME NEW k \in 1..o, longer[k].hlc.nodeId \in Nodes
               PROVE  k \in seen'[longer[k].hlc.nodeId]
    BY <1>2 DEF SawOwn
  <2>1. CASE k = o
    BY <1>1, <1>6, <2>1
  <2>2. CASE k \in 1..ops
    <3>1. k \in seen[log[k].hlc.nodeId] /\ longer[k] = log[k] /\ log[k].hlc.nodeId \in Nodes
      BY <1>0, <1>1, <2>2 DEF SawOwn
    <3> QED  BY <1>6, <3>1
  <2> QED  BY <1>3, <2>1, <2>2
<1>11. /\ \A m \in Nodes : seen'[m] \subseteq 1..o
       /\ \A m \in Nodes : published'[m].seen \subseteq 1..o
  BY <1>0, <1>2, <1>3, <1>6
<1>12. \A m \in Nodes : /\ hlc'[m].nodeId = m /\ Covers(hlc'[m], seen'[m], longer)
                        /\ Reflects(sets'[m], seen'[m], longer)
  <2> SUFFICES ASSUME NEW m \in Nodes
               PROVE  /\ hlc'[m].nodeId = m /\ Covers(hlc'[m], seen'[m], longer)
                      /\ Reflects(sets'[m], seen'[m], longer)
    OBVIOUS
  <2>1. CASE m = n
    BY <1>6, <1>8, <1>9, <2>1
  <2>2. CASE m # n
    BY <1>0, <1>6, <1>7, <2>2
  <2> QED  BY <2>1, <2>2
<1>13. Replicated(longer)'
  BY <1>0, <1>2, <1>5, <1>6, <1>7, <1>10, <1>11, <1>12 DEF Replicated
<1> QED  BY <1>13 DEF CrdtInv

LEMMA AddStep ==
    ASSUME CrdtInv, NEW n \in Nodes, NEW id \in Elements, add(n, id)
    PROVE  CrdtInv'
<1>1. PICK log : Replicated(log)
  BY DEF CrdtInv
<1>2. PICK now \in 1..MaxTime :
         LET next == incrementHlc(hlc[n], now) IN
         Operate(n, addLwwElement(sets[n], id, ops + 1, next), next)
  BY DEF add
<1>3. PICK x : x = incrementHlc(hlc[n], now)
  OBVIOUS
<1>4. PICK set : set = addLwwElement(sets[n], id, ops + 1, x)
  OBVIOUS
<1>5. hlc[n] \in Hlc /\ hlc[n].nodeId = n /\ ops \in Nat /\ seen[n] \subseteq 1..ops
  BY <1>1 DEF Replicated, Covers
<1>6. x \in Hlc /\ After(x, hlc[n]) /\ x.nodeId = n
  BY <1>3, <1>5, IncrementIsLater
<1>7. Operate(n, set, x)
  BY <1>2, <1>3, <1>4
<1>8. ASSUME NEW longer, longer[ops + 1].kind = "add", longer[ops + 1].id = id,
             longer[ops + 1].hlc = x, \A k \in seen[n] : After(x, longer[k].hlc),
             Reflects(sets[n], seen[n], longer)
      PROVE  Reflects(set, seen[n] \union {ops + 1}, longer)
  <2>1. ops + 1 \in Nat /\ ops + 1 \notin seen[n]
    BY <1>5
  <2> QED  BY <1>4, <1>6, <1>8, <2>1, NewAddReflects
<1>9. Records(set, n, "add", id, x)
  BY <1>8 DEF Records
<1> QED  BY <1>1, <1>6, <1>7, <1>9, OperateStep

LEMMA RemoveStep ==
    ASSUME CrdtInv, NEW n \in Nodes, NEW id \in Elements, remove(n, id)
    PROVE  CrdtInv'
<1>1. PICK log : Replicated(log)
  BY DEF CrdtInv
<1>2. PICK now \in 1..MaxTime :
         LET next == incrementHlc(hlc[n], now) IN
         Operate(n, removeLwwElement(sets[n], id, next), next)
  BY DEF remove
<1>3. PICK x : x = incrementHlc(hlc[n], now)
  OBVIOUS
<1>4. PICK set : set = removeLwwElement(sets[n], id, x)
  OBVIOUS
<1>5. hlc[n] \in Hlc /\ hlc[n].nodeId = n /\ ops \in Nat /\ seen[n] \subseteq 1..ops
  BY <1>1 DEF Replicated, Covers
<1>6. x \in Hlc /\ After(x, hlc[n]) /\ x.nodeId = n
  BY <1>3, <1>5, IncrementIsLater
<1>7. Operate(n, set, x)
  BY <1>2, <1>3, <1>4
<1>8. ASSUME NEW longer, longer[ops + 1].kind = "remove", longer[ops + 1].id = id,
             longer[ops + 1].hlc = x, \A k \in seen[n] : After(x, longer[k].hlc),
             Reflects(sets[n], seen[n], longer)
      PROVE  Reflects(set, seen[n] \union {ops + 1}, longer)
  <2>1. ops + 1 \in Nat /\ ops + 1 \notin seen[n]
    BY <1>5
  <2> QED  BY <1>4, <1>6, <1>8, <2>1, NewRemoveReflects
<1>9. Records(set, n, "remove", id, x)
  BY <1>8 DEF Records
<1> QED  BY <1>1, <1>6, <1>7, <1>9, OperateStep

LEMMA PublishStep ==
    ASSUME CrdtInv, NEW n \in Nodes, publish(n)
    PROVE  CrdtInv'
<1>1. PICK log : Replicated(log)
  BY DEF CrdtInv
<1>2. /\ published' = [published EXCEPT ![n] = [set |-> sets[n], hlc |-> hlc[n], seen |-> seen[n]]]
      /\ hlc' = hlc /\ sets' = sets /\ seen' = seen /\ ops' = ops
  BY DEF publish
<1>3. /\ DOMAIN published' = Nodes /\ published'[n].set = sets[n] /\ published'[n].hlc = hlc[n]
      /\ published'[n].seen = seen[n]
      /\ \A m \in Nodes : m # n => published'[m] = published[m]
  BY <1>1, <1>2 DEF Replicated
<1>4. \A m \in Nodes : /\ published'[m].seen \subseteq 1..ops
                       /\ Covers(published'[m].hlc, published'[m].seen, log)
                       /\ Reflects(published'[m].set, published'[m].seen, log)
  BY <1>1, <1>3 DEF Replicated
<1>5. SawOwn(log)'
  BY <1>1, <1>2 DEF Replicated, SawOwn
<1>6. Replicated(log)'
  BY <1>1, <1>2, <1>3, <1>4, <1>5 DEF Replicated
<1> QED  BY <1>6 DEF CrdtInv

LEMMA ReceiveStep ==
    ASSUME CrdtInv, NEW n \in Nodes, NEW m \in Nodes, receive(n, m)
    PROVE  CrdtInv'
<1>1. PICK log : Replicated(log)
  BY DEF CrdtInv
<1>2. PICK x : x = mergeHlc(hlc[n], published[m].hlc)
  OBVIOUS
<1>3. PICK set : set = mergeLwwElementSet(sets[n], published[m].set)
  OBVIOUS
<1>4. PICK S : S = seen[n] \union published[m].seen
  OBVIOUS
<1>5. /\ hlc' = [hlc EXCEPT ![n] = x] /\ sets' = [sets EXCEPT ![n] = set]
      /\ seen' = [seen EXCEPT ![n] = S] /\ published' = published /\ ops' = ops
  BY <1>2, <1>3, <1>4 DEF receive
<1>6. /\ IsLog(log, ops) /\ seen[n] \subseteq 1..ops /\ published[m].seen \subseteq 1..ops
      /\ Reflects(sets[n], seen[n], log) /\ Reflects(published[m].set, published[m].seen, log)
      /\ Covers(hlc[n], seen[n], log) /\ Covers(published[m].hlc, published[m].seen, log)
      /\ hlc[n].nodeId = n
  BY <1>1 DEF Replicated
<1>7. Reflects(set, S, log)
  BY <1>3, <1>4, <1>6, MergeReflects
<1>8. x \in Hlc /\ x.nodeId = n /\ After(x, hlc[n]) /\ After(x, published[m].hlc)
  BY <1>2, <1>6, MergeIsLater DEF Covers
<1>9. Covers(x, S, log)
  <2>1. ASSUME NEW clock, clock \in Hlc, After(x, clock), NEW k \in 1..ops,
               ~After(log[k].hlc, clock)
        PROVE  ~After(log[k].hlc, x)
    <3>1. log[k].hlc \in Hlc
      BY <1>6, LogFields
    <3>2. ~After(clock, x)
      BY <1>8, <2>1, CompareIsTotal
    <3> QED  BY <1>8, <2>1, <3>1, <3>2, AfterIsTransitive
  <2> QED  BY <1>4, <1>6, <1>8, <2>1 DEF Covers
<1>10. /\ DOMAIN hlc' = Nodes /\ DOMAIN sets' = Nodes /\ DOMAIN seen' = Nodes
       /\ hlc'[n] = x /\ sets'[n] = set /\ seen'[n] = S
       /\ \A i \in Nodes : i # n => hlc'[i] = hlc[i] /\ sets'[i] = sets[i] /\ seen'[i] = seen[i]
  BY <1>1, <1>5 DEF Replicated
<1>11. ASSUME NEW i \in Nodes
       PROVE  /\ hlc'[i].nodeId = i /\ seen'[i] \subseteq 1..ops
              /\ Covers(hlc'[i], seen'[i], log) /\ Reflects(sets'[i], seen'[i], log)
  <2>1. CASE i = n
    BY <1>4, <1>6, <1>7, <1>8, <1>9, <1>10, <2>1
  <2>2. CASE i # n
    BY <1>1, <1>10, <2>2 DEF Replicated
  <2> QED  BY <2>1, <2>2
<1>12. SawOwn(log)'
  <2>1. \A i \in Nodes : seen[i] \subseteq seen'[i]
    BY <1>4, <1>10
  <2> QED  BY <1>1, <1>5, <2>1 DEF Replicated, SawOwn
<1>13. Replicated(log)'
  BY <1>1, <1>5, <1>10, <1>11, <1>12 DEF Replicated
<1> QED  BY <1>13 DEF CrdtInv

LEMMA NextCrdtInv == CrdtInv /\ [CrdtNext]_crdtVars => CrdtInv'
<1> SUFFICES ASSUME CrdtInv, [CrdtNext]_crdtVars PROVE CrdtInv'
  OBVIOUS
<1>1. CASE UNCHANGED crdtVars
  BY <1>1 DEF crdtVars, CrdtInv, Replicated, SawOwn
<1>2. CASE CrdtNext
  BY <1>2, AddStep, RemoveStep, PublishStep, ReceiveStep DEF CrdtNext
<1> QED  BY <1>1, <1>2

(***************************************************************************)
(* There is a log of the operations, with a clock of its own for each, of  *)
(* which every state of a replica, and every state it published, is the    *)
(* image: each entry is the latest of the operations the state has seen.   *)
(***************************************************************************)
THEOREM CrdtInvariant == CrdtSpec => []CrdtInv
  BY InitCrdtInv, NextCrdtInv, PTL DEF CrdtSpec

LEMMA SameOperationsSameState ==
    ASSUME NEW N, NEW log, IsLog(log, N), NEW S \in SUBSET (1..N),
           NEW a, Reflects(a, S, log), NEW b, Reflects(b, S, log)
    PROVE  a = b
<1>0. ASSUME NEW kind, NEW id, NEW j, NEW k, Latest(log, S, kind, id, j), Latest(log, S, kind, id, k)
      PROVE  j = k
  <2>1. log[j].hlc \in Hlc /\ log[k].hlc \in Hlc
    BY <1>0, LogFields DEF Latest
  <2> QED  BY <1>0, <2>1, CompareIsTotal DEF Latest
<1>t. IsSet(a) /\ IsSet(b)
  BY DEF Reflects
<1>1. ASSUME NEW id \in Elements PROVE a.adds[id] = b.adds[id]
  <2>1. AddReflects(a.adds[id], S, log, id) /\ AddReflects(b.adds[id], S, log, id)
    BY DEF Reflects
  <2>2. a.adds[id] = None <=> b.adds[id] = None
    BY <2>1 DEF AddReflects, HasNone, Latest
  <2>3. CASE a.adds[id] # None
    <3>1. a.adds[id] \in AddEntry /\ b.adds[id] \in AddEntry
      BY <1>t, <2>2, <2>3, SetFields
    <3>2. a.adds[id].value = b.adds[id].value /\ a.adds[id].hlc = b.adds[id].hlc
      BY <1>0, <2>1, <2>2, <2>3 DEF AddReflects
    <3> QED  BY <3>1, <3>2 DEF AddEntry
  <2> QED  BY <2>2, <2>3
<1>2. ASSUME NEW id \in Elements PROVE a.removes[id] = b.removes[id]
  <2>1. RemoveReflects(a.removes[id], S, log, id) /\ RemoveReflects(b.removes[id], S, log, id)
    BY DEF Reflects
  <2>2. a.removes[id] = None <=> b.removes[id] = None
    BY <2>1 DEF RemoveReflects, HasNone, Latest
  <2>3. CASE a.removes[id] # None
    BY <1>0, <2>1, <2>2, <2>3 DEF RemoveReflects
  <2> QED  BY <2>2, <2>3
<1>3. a.adds = b.adds /\ a.removes = b.removes
  BY <1>t, <1>1, <1>2, SetFields
<1> QED  BY <1>t, <1>3, SetFields

(***************************************************************************)
(* Strong convergence of the last-writer-wins set: whatever the clocks     *)
(* show, however often and in whatever order states arrive, two replicas   *)
(* that have seen the same operations hold the same state.                 *)
(***************************************************************************)
THEOREM ReplicasConverge == CrdtSpec => []Converged
<1>1. CrdtInv => Converged
  BY SameOperationsSameState DEF CrdtInv, Replicated, Converged
<1> QED  BY <1>1, CrdtInvariant, PTL

OwnWriteStep ==
    \A n \in Nodes, id \in Elements :
        /\ ops' > ops /\ sets'[n].adds[id] # sets[n].adds[id]
              => lookupLwwElement(sets'[n], id) = ops'
        /\ ops' > ops /\ sets'[n].removes[id] # sets[n].removes[id]
              => lookupLwwElement(sets'[n], id) = None

\* The entries a replica holds are not ahead of its clock.
LEMMA EntriesAreCovered ==
    ASSUME CrdtInv, NEW n \in Nodes, NEW id \in Elements
    PROVE  /\ IsSet(sets[n]) /\ hlc[n] \in Hlc /\ ops \in Nat
           /\ sets[n].adds[id] # None =>
                sets[n].adds[id] \in AddEntry /\ ~After(sets[n].adds[id].hlc, hlc[n])
           /\ sets[n].removes[id] # None =>
                sets[n].removes[id] \in Hlc /\ ~After(sets[n].removes[id], hlc[n])
<1>1. PICK log : Replicated(log)
  BY DEF CrdtInv
<1>2. /\ Covers(hlc[n], seen[n], log) /\ Reflects(sets[n], seen[n], log) /\ ops \in Nat
      /\ AddReflects(sets[n].adds[id], seen[n], log, id)
      /\ RemoveReflects(sets[n].removes[id], seen[n], log, id)
      /\ IsSet(sets[n])
  BY <1>1 DEF Replicated, Reflects
<1>3. sets[n].adds[id] \in AddEntry \union {None} /\ sets[n].removes[id] \in Hlc \union {None}
  BY <1>2, SetFields
<1>4. sets[n].adds[id] # None => ~After(sets[n].adds[id].hlc, hlc[n])
  BY <1>2 DEF AddReflects, Latest, Covers
<1>5. sets[n].removes[id] # None => ~After(sets[n].removes[id], hlc[n])
  BY <1>2 DEF RemoveReflects, Covers
<1> QED  BY <1>2, <1>3, <1>4, <1>5 DEF Covers

LEMMA OwnAddWins ==
    ASSUME CrdtInv, NEW n \in Nodes, NEW i \in Elements, add(n, i)
    PROVE  OwnWriteStep
<1>1. PICK now \in 1..MaxTime :
         LET next == incrementHlc(hlc[n], now) IN
         Operate(n, addLwwElement(sets[n], i, ops + 1, next), next)
  BY DEF add
<1>2. PICK x : x = incrementHlc(hlc[n], now)
  OBVIOUS
<1>3. PICK set : set = addLwwElement(sets[n], i, ops + 1, x)
  OBVIOUS
<1>4. ops' = ops + 1 /\ sets' = [sets EXCEPT ![n] = set]
  BY <1>1, <1>2, <1>3 DEF Operate
<1>5. DOMAIN sets = Nodes
  BY DEF CrdtInv, Replicated
<1>6. sets'[n] = set /\ \A m \in Nodes : m # n => sets'[m] = sets[m]
  BY <1>4, <1>5
<1>7. IsSet(sets[n]) /\ hlc[n] \in Hlc /\ ops \in Nat
  BY EntriesAreCovered
<1>8. x \in Hlc /\ After(x, hlc[n])
  BY <1>2, <1>7, IncrementIsLater
<1>9. /\ set.removes = sets[n].removes /\ set.adds[i].value = ops + 1 /\ set.adds[i].hlc = x
      /\ set.adds[i] # None
      /\ \A id \in Elements : id # i => set.adds[id] = sets[n].adds[id]
  <2> DEFINE e == [value |-> ops + 1, hlc |-> x]
  <2>1. e \in AddEntry /\ e # None /\ e.value = ops + 1 /\ e.hlc = x
    BY <1>7, <1>8, CrdtConstants DEF AddEntry
  <2>2. sets[n] = [adds |-> sets[n].adds, removes |-> sets[n].removes] /\ DOMAIN sets[n].adds = Elements
    BY <1>7, SetFields
  <2>3. set = [adds |-> [sets[n].adds EXCEPT ![i] = e], removes |-> sets[n].removes]
    BY <1>3, <2>2 DEF addLwwElement
  <2> HIDE DEF e
  <2>4. set.removes = sets[n].removes /\ set.adds = [sets[n].adds EXCEPT ![i] = e]
    BY <2>3
  <2> QED  BY <2>1, <2>2, <2>4
<1>10. lookupLwwElement(set, i) = ops + 1
  <2>1. CASE set.removes[i] = None
    BY <1>9, <2>1 DEF lookupLwwElement
  <2>2. CASE set.removes[i] # None
    <3>1. set.removes[i] \in Hlc /\ ~After(set.removes[i], hlc[n])
      BY <1>9, <2>2, EntriesAreCovered
    <3>2. ~After(hlc[n], x)
      BY <1>7, <1>8, CompareIsTotal
    <3>3. After(x, set.removes[i])
      BY <1>7, <1>8, <3>1, <3>2, AfterIsTransitive
    <3>4. ~(compareHlc(set.removes[i], set.adds[i].hlc) >= 0)
      BY <1>8, <1>9, <3>1, <3>3, CompareIsTotal
    <3> QED  BY <1>9, <3>4 DEF lookupLwwElement
  <2> QED  BY <2>1, <2>2
<1> QED  BY <1>4, <1>6, <1>9, <1>10 DEF OwnWriteStep

LEMMA OwnRemoveWins ==
    ASSUME CrdtInv, NEW n \in Nodes, NEW i \in Elements, remove(n, i)
    PROVE  OwnWriteStep
<1>1. PICK now \in 1..MaxTime :
         LET next == incrementHlc(hlc[n], now) IN
         Operate(n, removeLwwElement(sets[n], i, next), next)
  BY DEF remove
<1>2. PICK x : x = incrementHlc(hlc[n], now)
  OBVIOUS
<1>3. PICK set : set = removeLwwElement(sets[n], i, x)
  OBVIOUS
<1>4. sets' = [sets EXCEPT ![n] = set]
  BY <1>1, <1>2, <1>3 DEF Operate
<1>5. DOMAIN sets = Nodes
  BY DEF CrdtInv, Replicated
<1>6. sets'[n] = set /\ \A m \in Nodes : m # n => sets'[m] = sets[m]
  BY <1>4, <1>5
<1>7. IsSet(sets[n]) /\ hlc[n] \in Hlc
  BY EntriesAreCovered
<1>8. x \in Hlc /\ After(x, hlc[n]) /\ x # None
  BY <1>2, <1>7, IncrementIsLater, CrdtConstants
<1>9. /\ set.adds = sets[n].adds /\ set.removes[i] = x
      /\ \A id \in Elements : id # i => set.removes[id] = sets[n].removes[id]
  <2>2. sets[n] = [adds |-> sets[n].adds, removes |-> sets[n].removes] /\ DOMAIN sets[n].removes = Elements
    BY <1>7, SetFields
  <2>3. set = [adds |-> sets[n].adds, removes |-> [sets[n].removes EXCEPT ![i] = x]]
    BY <1>3, <2>2 DEF removeLwwElement
  <2>4. set.adds = sets[n].adds /\ set.removes = [sets[n].removes EXCEPT ![i] = x]
    BY <2>3
  <2> QED  BY <2>2, <2>4
<1>10. lookupLwwElement(set, i) = None
  <2>1. CASE set.adds[i] = None
    BY <2>1 DEF lookupLwwElement
  <2>2. CASE set.adds[i] # None
    <3>1. set.adds[i].hlc \in Hlc /\ ~After(set.adds[i].hlc, hlc[n])
      BY <1>9, <2>2, EntriesAreCovered DEF AddEntry
    <3>2. ~After(hlc[n], x)
      BY <1>7, <1>8, CompareIsTotal
    <3>3. ~After(set.adds[i].hlc, x)
      BY <1>7, <1>8, <3>1, <3>2, AfterIsTransitive
    <3>4. compareHlc(set.removes[i], set.adds[i].hlc) >= 0
      BY <1>8, <1>9, <3>1, <3>3, CompareIsTotal
    <3> QED  BY <1>8, <1>9, <3>4 DEF lookupLwwElement
  <2> QED  BY <2>1, <2>2
<1> QED  BY <1>6, <1>9, <1>10 DEF OwnWriteStep

(***************************************************************************)
(* What a replica adds it reads back, and what it removes is gone from it, *)
(* even when its wall clock is behind those of the replicas whose          *)
(* operations it has merged.                                               *)
(***************************************************************************)
THEOREM OwnWritesWin == CrdtSpec => OwnWriteWins
<1>1. ASSUME CrdtInv, CrdtNext PROVE OwnWriteStep
  <2>1. ASSUME NEW n \in Nodes, NEW id \in Elements, add(n, id) \/ remove(n, id) PROVE OwnWriteStep
    BY <1>1, <2>1, OwnAddWins, OwnRemoveWins
  <2>2. ASSUME NEW n \in Nodes, publish(n) \/ \E m \in Nodes : receive(n, m) PROVE OwnWriteStep
    <3>1. ops' = ops /\ ops \in Nat
      BY <1>1, <2>2 DEF publish, receive, CrdtInv, Replicated
    <3>2. ~(ops' > ops)
      BY <3>1
    <3> QED  BY <3>2 DEF OwnWriteStep
  <2> QED  BY <1>1, <2>1, <2>2 DEF CrdtNext
<1>2. CrdtInv /\ [CrdtNext]_crdtVars => [OwnWriteStep]_crdtVars
  BY <1>1
<1>3. [OwnWriteStep]_crdtVars <=>
      [ \A n \in Nodes, id \in Elements :
          /\ ops' > ops /\ sets'[n].adds[id] # sets[n].adds[id]
                => lookupLwwElement(sets'[n], id) = ops'
          /\ ops' > ops /\ sets'[n].removes[id] # sets[n].removes[id]
                => lookupLwwElement(sets'[n], id) = None
      ]_crdtVars
  BY DEF OwnWriteStep
<1> QED  BY <1>2, <1>3, CrdtInvariant, PTL DEF CrdtSpec, OwnWriteWins

-----------------------------------------------------------------------------
(* The schema: what a delete takes with it *)

\* The tables whose rows go with another row, and those of that other row.
Children == {"cartLines", "rolePermissions"}

Parents == {"carts", "roles", "permissions"}

LEMMA CascadingKeys ==
    ASSUME NEW k \in Keys, k[4] = "cascade"
    PROVE  \/ k[1] = "cartLines" /\ k[2] = "cartId"
           \/ k[1] = "rolePermissions" /\ k[2] = "roleId"
           \/ k[1] = "rolePermissions" /\ k[2] = "permissionId"
<1>1. k \in AllKeys
  BY DEF Keys
<1>2. k \notin StoreKeys
  BY DEF StoreKeys
<1>3. k \notin MenuKeys
  BY DEF MenuKeys
<1>4. k \notin StockKeys
  BY DEF StockKeys
<1>5. k \notin OrderKeys
  BY DEF OrderKeys
<1>6. k \notin PaymentKeys
  BY DEF PaymentKeys
<1>7. k \notin LogKeys
  BY DEF LogKeys
<1>8. CASE k \in CartKeys
  BY <1>8 DEF CartKeys
<1>9. CASE k \in PeopleKeys
  BY <1>9 DEF PeopleKeys
<1> QED  BY <1>1, <1>2, <1>3, <1>4, <1>5, <1>6, <1>7, <1>8, <1>9 DEF AllKeys

LEMMA CascadingRelations ==
    ASSUME NEW r \in Relations,
           \/ r[1] = "cartLines" /\ r[2] = "cartId"
           \/ r[1] = "rolePermissions" /\ r[2] = "roleId"
           \/ r[1] = "rolePermissions" /\ r[2] = "permissionId"
    PROVE  r[3] \in Parents
<1>1. r \notin StoreRelations
  BY DEF StoreRelations
<1>2. CASE r \in SaleRelations
  BY <1>2 DEF SaleRelations, Parents
<1>3. CASE r \in PeopleRelations
  BY <1>3 DEF PeopleRelations, Parents
<1> QED  BY <1>1, <1>2, <1>3 DEF Relations

Follows(e) == \E k \in KeyOf(e) : k[4] = "cascade"

\* A reference whose row goes with the row it refers to is one of a child to
\* its parent: the relation that queries use and the key agree.
SchemaInv == \A e \in refs : Follows(e) => e[3][1] \in Parents

LEMMA FollowingTables ==
    ASSUME NEW e, Follows(e)
    PROVE  e[1][1] \in Children
BY CascadingKeys DEF Follows, KeyOf, Children

LEMMA NatSetInduction ==
    ASSUME NEW S \in SUBSET Nat, 0 \in S, \A n \in S : n + 1 \in S
    PROVE  S = Nat
<1> SUFFICES ASSUME Nat \ S # {} PROVE FALSE
  OBVIOUS
<1>1. IsWellFoundedOn(OpToRel(<, Nat), Nat)
  BY NatLessThanWellFounded
<1>2. PICK x \in Nat \ S : \A y \in Nat \ S : ~(<<y, x>> \in OpToRel(<, Nat))
  BY <1>1, WFMin
<1>3. \A y \in Nat \ S : ~(y < x)
  BY <1>2 DEF OpToRel
<1>4. x # 0 /\ x - 1 \in Nat /\ x - 1 < x /\ x - 1 + 1 = x
  OBVIOUS
<1> QED  BY <1>3, <1>4

More(gone) == gone \union { e[1] : e \in { x \in refs : x[3] \in gone /\ Follows(x) } }

IsClosure(f, root, N) == f = [n \in 0..N |-> IF n = 0 THEN {root} ELSE More(f[n - 1])]

LEMMA CascadeUnfold ==
    ASSUME NEW root
    PROVE  Cascade(root) = (CHOOSE f : IsClosure(f, root, MaxRows))[MaxRows]
BY DEF Cascade, IsClosure, More, Follows

LEMMA ClosureExists ==
    ASSUME NEW root, NEW M \in Nat
    PROVE  \E f : IsClosure(f, root, M)
<1> DEFINE P == {N \in Nat : \E f : IsClosure(f, root, N)}
<1>1. 0 \in P
  <2> DEFINE f == [n \in 0..0 |-> {root}]
  <2>1. \A n \in 0..0 : n = 0
    OBVIOUS
  <2>2. IsClosure(f, root, 0)
    BY <2>1 DEF IsClosure
  <2> QED  BY <2>2
<1>2. ASSUME NEW N \in P PROVE N + 1 \in P
  <2>1. PICK f : IsClosure(f, root, N)
    OBVIOUS
  <2> DEFINE g == [n \in 0..(N + 1) |-> IF n <= N THEN f[n] ELSE More(f[N])]
  <2>2. N \in Nat /\ N + 1 \in Nat /\ N + 1 - 1 = N /\ ~(N + 1 <= N) /\ N + 1 # 0
    OBVIOUS
  <2>3. \A n \in 0..N : g[n] = f[n] /\ n \in 0..(N + 1)
    OBVIOUS
  <2>4. g[N + 1] = More(f[N])
    BY <2>2
  <2>5. ASSUME NEW n \in 0..(N + 1)
        PROVE  g[n] = IF n = 0 THEN {root} ELSE More(g[n - 1])
    <3>1. CASE n = N + 1
      <4>1. N \in 0..N /\ n - 1 = N /\ n # 0
        BY <2>2, <3>1
      <4> QED  BY <2>3, <2>4, <3>1, <4>1
    <3>2. CASE n # N + 1
      <4>1. n \in 0..N /\ (n # 0 => n - 1 \in 0..N)
        BY <2>2, <3>2
      <4>2. f[n] = IF n = 0 THEN {root} ELSE More(f[n - 1])
        BY <2>1, <4>1 DEF IsClosure
      <4> QED  BY <2>3, <4>1, <4>2
    <3> QED  BY <3>1, <3>2
  <2>6. g = [n \in 0..(N + 1) |-> g[n]]
    OBVIOUS
  <2> HIDE DEF g
  <2>7. IsClosure(g, root, N + 1)
    BY <2>5, <2>6 DEF IsClosure
  <2> QED  BY <2>2, <2>7
<1> HIDE DEF P
<1>3. P = Nat
  <2>1. P \subseteq Nat
    BY DEF P
  <2> QED  BY <1>1, <1>2, <2>1, NatSetInduction
<1> QED  BY <1>3 DEF P

\* A delete takes nothing but what is reachable by cascading references.
LEMMA CascadeWithin ==
    ASSUME NEW root, NEW U, root \in U, \A e \in refs : e[3] \in U /\ Follows(e) => e[1] \in U
    PROVE  Cascade(root) \subseteq U /\ root \in Cascade(root)
<1>1. MaxRows \in Nat
  BY SchemaConstants
<1> DEFINE f == CHOOSE g : IsClosure(g, root, MaxRows)
<1>2. IsClosure(f, root, MaxRows)
  BY <1>1, ClosureExists
<1>3. Cascade(root) = f[MaxRows]
  BY CascadeUnfold
<1> HIDE DEF f
<1>4. \A n \in 0..MaxRows : f[n] = IF n = 0 THEN {root} ELSE More(f[n - 1])
  BY <1>2 DEF IsClosure
<1> DEFINE P == {n \in Nat : n <= MaxRows => f[n] \subseteq U /\ root \in f[n]}
<1>5. 0 \in P
  BY <1>1, <1>4
<1>6. ASSUME NEW n \in P PROVE n + 1 \in P
  <2>1. n \in Nat /\ n + 1 \in Nat /\ n + 1 # 0 /\ n + 1 - 1 = n
    OBVIOUS
  <2>2. CASE n + 1 <= MaxRows
    <3>1. n <= MaxRows /\ n + 1 \in 0..MaxRows
      BY <1>1, <2>1, <2>2
    <3>2. f[n + 1] = More(f[n])
      BY <1>4, <2>1, <3>1
    <3>3. f[n] \subseteq U /\ root \in f[n]
      BY <3>1
    <3>4. More(f[n]) \subseteq U /\ root \in More(f[n])
      BY <3>3 DEF More
    <3> QED  BY <2>1, <3>2, <3>4
  <2> QED  BY <2>1, <2>2
<1> HIDE DEF P
<1>7. P = Nat
  <2>1. P \subseteq Nat
    BY DEF P
  <2> QED  BY <1>5, <1>6, <2>1, NatSetInduction
<1> QED  BY <1>1, <1>3, <1>7 DEF P

LEMMA NextSchemaInv == SchemaInv /\ [SchemaNext]_schemaVars => SchemaInv'
<1> SUFFICES ASSUME SchemaInv, [SchemaNext]_schemaVars PROVE SchemaInv'
  OBVIOUS
<1>0. \A e : Follows(e)' <=> Follows(e)
  BY DEF Follows, KeyOf
<1>1. ASSUME NEW t \in Tables, insert(t) PROVE SchemaInv'
  <2> DEFINE fresh == <<t, CHOOSE i \in 1..MaxEach : <<t, i>> \notin rows>>
  <2>1. PICK nulls \in SUBSET { c \in Columns(t) : Nullable(c) } :
        \E value \in [Columns(t) \ nulls -> rows] :
           /\ \A c \in DOMAIN value : value[c][1] = c[3]
           /\ refs' = refs \union { <<fresh, c[2], value[c]>> : c \in DOMAIN value }
    BY <1>1 DEF insert
  <2>2. PICK value \in [Columns(t) \ nulls -> rows] :
           /\ \A c \in DOMAIN value : value[c][1] = c[3]
           /\ refs' = refs \union { <<fresh, c[2], value[c]>> : c \in DOMAIN value }
    BY <2>1
  <2>3. fresh[1] = t
    OBVIOUS
  <2> HIDE DEF fresh
  <2>4. ASSUME NEW c \in DOMAIN value, Follows(<<fresh, c[2], value[c]>>)
        PROVE  value[c][1] \in Parents
    <3>1. c \in Relations /\ c[1] = t /\ value[c][1] = c[3]
      BY <2>2 DEF Columns
    <3>2. PICK k \in Keys : k[1] = t /\ k[2] = c[2] /\ k[4] = "cascade"
      BY <2>3, <2>4 DEF Follows, KeyOf
    <3> QED  BY <3>1, <3>2, CascadingKeys, CascadingRelations
  <2>5. ASSUME NEW e \in refs', Follows(e) PROVE e[3][1] \in Parents
    <3>1. CASE e \in refs
      BY <2>5, <3>1 DEF SchemaInv
    <3>2. CASE e \notin refs
      <4>1. PICK c \in DOMAIN value : e = <<fresh, c[2], value[c]>>
        BY <2>2, <3>2
      <4> QED  BY <2>4, <2>5, <4>1
    <3> QED  BY <3>1, <3>2
  <2> QED  BY <1>0, <2>5 DEF SchemaInv
<1>2. ASSUME refs' \subseteq refs PROVE SchemaInv'
  BY <1>0, <1>2 DEF SchemaInv
<1>3. ASSUME NEW root \in rows, deleteRow(root) PROVE refs' \subseteq refs
  BY <1>3 DEF deleteRow
<1> QED  BY <1>1, <1>2, <1>3 DEF SchemaNext, schemaVars

(***************************************************************************)
(* Cascading references lead from cart lines to carts and from the         *)
(* permissions of a role to roles and permissions, and nowhere else.       *)
(***************************************************************************)
THEOREM SchemaInvariant == SchemaSpec => []SchemaInv
<1>1. SchemaInit => SchemaInv
  BY DEF SchemaInit, SchemaInv
<1> QED  BY <1>1, NextSchemaInv, PTL DEF SchemaSpec

LedgerStep == \A r \in rows \ rows' : r[1] \in Ledger => rows \ rows' = {r}

LEMMA DeleteKeepsLedger ==
    ASSUME SchemaInv, NEW root \in rows, deleteRow(root)
    PROVE  LedgerStep
<1> SUFFICES ASSUME NEW r \in rows \ rows', r[1] \in Ledger PROVE rows \ rows' = {r}
  BY DEF LedgerStep
<1>0. rows' = rows \ Cascade(root)
  BY DEF deleteRow
<1>1. r[1] \notin Children /\ r[1] \notin Parents
  BY DEF Ledger, Children, Parents
<1>2. r = root
  <2> DEFINE U == {root} \union {e[1] : e \in {x \in refs : Follows(x)}}
  <2>0. root \in U /\ \A e \in refs : e[3] \in U /\ Follows(e) => e[1] \in U
    OBVIOUS
  <2>1. Cascade(root) \subseteq U
    <3> HIDE DEF U
    <3> QED  BY <2>0, CascadeWithin
  <2>2. r \in U
    BY <1>0, <2>1
  <2>3. \A e \in refs : Follows(e) => e[1] # r
    BY <1>1, FollowingTables
  <2> QED  BY <2>2, <2>3
<1>3. Cascade(root) = {root}
  <2>1. \A e \in refs : Follows(e) => e[3] # root
    BY <1>1, <1>2 DEF SchemaInv
  <2>2. Cascade(root) \subseteq {root} /\ root \in Cascade(root)
    <3> DEFINE U == {root}
    <3>1. root \in U /\ \A e \in refs : e[3] \in U /\ Follows(e) => e[1] \in U
      BY <2>1
    <3> HIDE DEF U
    <3>2. Cascade(root) \subseteq U /\ root \in Cascade(root)
      BY <3>1, CascadeWithin
    <3> QED  BY <3>2 DEF U
  <2> QED  BY <2>2
<1> QED  BY <1>0, <1>2, <1>3

(***************************************************************************)
(* Whatever rows there are, a delete removes an order, an order line, a    *)
(* payment, a refund, an audit entry or a stock movement only when it      *)
(* names that row, and then nothing goes with it.                          *)
(***************************************************************************)
THEOREM LedgerIsKept == SchemaSpec => LedgerSurvives
<1>1. ASSUME SchemaInv, SchemaNext PROVE LedgerStep
  <2>1. ASSUME NEW t \in Tables, insert(t) PROVE LedgerStep
    <3>1. rows \subseteq rows'
      BY <2>1 DEF insert
    <3> QED  BY <3>1 DEF LedgerStep
  <2> QED  BY <1>1, <2>1, DeleteKeepsLedger DEF SchemaNext
<1>2. SchemaInv /\ [SchemaNext]_schemaVars => [LedgerStep]_schemaVars
  BY <1>1
<1>3. [LedgerStep]_schemaVars <=>
      [ \A r \in rows \ rows' : r[1] \in Ledger => rows \ rows' = {r} ]_schemaVars
  BY DEF LedgerStep
<1> QED  BY <1>2, <1>3, SchemaInvariant, PTL DEF SchemaSpec, LedgerSurvives

-----------------------------------------------------------------------------
(* Sums and concatenations of sequences *)

Prefix(s, k) == [i \in 1..k |-> s[i]]

LEMMA MaxOfPrefix ==
    ASSUME NEW n \in Nat, NEW T \in SUBSET (1..(n + 1)), n + 1 \in T
    PROVE  Max(T) = n + 1
<1>1. \A y \in T : n + 1 >= y
  OBVIOUS
<1>2. \A x \in T : (\A y \in T : x >= y) => x = n + 1
  OBVIOUS
<1> QED  BY <1>1, <1>2 DEF Max

\* The function a fold from the left computes.
IsSum(g, s, n) ==
    g = [T \in SUBSET (1..n) |-> IF T = {} THEN 0 ELSE g[T \ {Max(T)}] + s[Max(T)]]

LEMMA SumUnfold ==
    ASSUME NEW s, NEW n, DOMAIN s = 1..n
    PROVE  Sum(s) = (CHOOSE g : IsSum(g, s, n))[1..n]
BY DEF Sum, FoldLeft, MapThenFoldSet, IsSum

LEMMA SumExists ==
    ASSUME NEW s, NEW n \in Nat
    PROVE  \E g : IsSum(g, s, n)
<1> DEFINE P == {k \in Nat : \E g : IsSum(g, s, k)}
<1>1. 0 \in P
  <2> DEFINE g == [T \in SUBSET (1..0) |-> 0]
  <2>1. \A T \in SUBSET (1..0) : T = {}
    OBVIOUS
  <2>2. IsSum(g, s, 0)
    BY <2>1 DEF IsSum
  <2> QED  BY <2>2
<1>2. ASSUME NEW k \in P PROVE k + 1 \in P
  <2>1. k \in Nat /\ k + 1 \in Nat
    OBVIOUS
  <2>2. PICK g : IsSum(g, s, k)
    OBVIOUS
  <2> HIDE DEF P
  <2>3. PICK o : o = k + 1
    OBVIOUS
  <2> DEFINE h == [T \in SUBSET (1..o) |-> IF o \in T THEN g[T \ {o}] + s[o] ELSE g[T]]
  <2>4. \A T \in SUBSET (1..o) : /\ T \ {o} \in SUBSET (1..k) /\ T \ {o} \in SUBSET (1..o)
                                 /\ o \in T => Max(T) = o
    <3>1. \A i \in 1..o : i # o => i \in 1..k
      BY <2>1, <2>3
    <3>2. \A T \in SUBSET (1..o) : o \in T => Max(T) = o
      BY <2>1, <2>3, MaxOfPrefix
    <3> QED  BY <3>1, <3>2
  <2>5. \A T \in SUBSET (1..k) :
          g[T] = IF T = {} THEN 0 ELSE g[T \ {Max(T)}] + s[Max(T)]
    BY <2>2 DEF IsSum
  <2>6. ASSUME NEW T \in SUBSET (1..o)
        PROVE  h[T] = IF T = {} THEN 0 ELSE h[T \ {Max(T)}] + s[Max(T)]
    <3>1. CASE o \in T
      <4>1. h[T] = g[T \ {o}] + s[o] /\ T # {} /\ Max(T) = o
        BY <2>4, <3>1
      <4>2. h[T \ {o}] = g[T \ {o}]
        BY <2>4
      <4> QED  BY <4>1, <4>2
    <3>2. CASE o \notin T
      <4>1. T \in SUBSET (1..k) /\ h[T] = g[T]
        BY <2>4, <3>2
      <4>2. o \notin T \ {Max(T)} /\ T \ {Max(T)} \in SUBSET (1..o)
        BY <3>2
      <4>3. h[T \ {Max(T)}] = g[T \ {Max(T)}]
        BY <4>2
      <4> QED  BY <2>5, <4>1, <4>3
    <3> QED  BY <3>1, <3>2
  <2>7. h = [T \in SUBSET (1..o) |-> h[T]]
    OBVIOUS
  <2> HIDE DEF h
  <2>8. h = [T \in SUBSET (1..o) |-> IF T = {} THEN 0 ELSE h[T \ {Max(T)}] + s[Max(T)]]
    BY <2>6, <2>7, Zenon
  <2> QED  BY <2>1, <2>3, <2>8 DEF P, IsSum
<1>3. P \in SUBSET Nat
  OBVIOUS
<1> HIDE DEF P
<1>4. P = Nat
  BY <1>1, <1>2, <1>3, NatSetInduction
<1> QED  BY <1>4 DEF P

\* What a sum is along the prefixes of its sequence.
LEMMA SumAlong ==
    ASSUME NEW s, NEW n \in Nat, NEW g, IsSum(g, s, n)
    PROVE  g[1..0] = 0 /\ \A k \in Nat : k + 1 <= n => g[1..(k + 1)] = g[1..k] + s[k + 1]
<1>1. \A T \in SUBSET (1..n) : g[T] = IF T = {} THEN 0 ELSE g[T \ {Max(T)}] + s[Max(T)]
  BY DEF IsSum
<1>2. g[1..0] = 0
  <2>1. 1..0 = {} /\ {} \in SUBSET (1..n)
    OBVIOUS
  <2> QED  BY <1>1, <2>1
<1>3. ASSUME NEW k \in Nat, k + 1 <= n PROVE g[1..(k + 1)] = g[1..k] + s[k + 1]
  <2>1. /\ 1..(k + 1) \in SUBSET (1..n) /\ (1..(k + 1)) \ {k + 1} = 1..k
        /\ k + 1 \in 1..(k + 1)
    BY <1>3
  <2>2. Max(1..(k + 1)) = k + 1
    BY <2>1, MaxOfPrefix
  <2>3. 1..(k + 1) # {}
    BY <2>1
  <2> QED  BY <1>1, <2>1, <2>2, <2>3
<1> QED  BY <1>2, <1>3

LEMMA SumEmpty ==
    ASSUME NEW s, DOMAIN s = 1..0
    PROVE  Sum(s) = 0
<1>1. PICK g : g = (CHOOSE h : IsSum(h, s, 0))
  OBVIOUS
<1>2. IsSum(g, s, 0)
  BY <1>1, SumExists
<1> QED  BY <1>1, <1>2, SumAlong, SumUnfold

LEMMA SumStep ==
    ASSUME NEW n \in Nat, NEW s, DOMAIN s = 1..(n + 1)
    PROVE  Sum(s) = Sum(Prefix(s, n)) + s[n + 1]
<1>0. n + 1 \in Nat
  OBVIOUS
<1>1. PICK t : t = Prefix(s, n)
  OBVIOUS
<1>2. DOMAIN t = 1..n /\ \A i \in 1..n : t[i] = s[i]
  BY <1>1 DEF Prefix
<1>3. PICK g : g = (CHOOSE h : IsSum(h, s, n + 1))
  OBVIOUS
<1>4. PICK f : f = (CHOOSE h : IsSum(h, t, n))
  OBVIOUS
<1>5. IsSum(g, s, n + 1) /\ IsSum(f, t, n)
  BY <1>0, <1>3, <1>4, SumExists
<1>6. Sum(s) = g[1..(n + 1)] /\ Sum(t) = f[1..n]
  BY <1>2, <1>3, <1>4, SumUnfold
<1>7. /\ g[1..0] = 0 /\ f[1..0] = 0
      /\ \A k \in Nat : k + 1 <= n + 1 => g[1..(k + 1)] = g[1..k] + s[k + 1]
      /\ \A k \in Nat : k + 1 <= n => f[1..(k + 1)] = f[1..k] + t[k + 1]
  BY <1>0, <1>5, SumAlong
<1> DEFINE P == {k \in Nat : k <= n => g[1..k] = f[1..k]}
<1>8. 0 \in P
  BY <1>7
<1>9. ASSUME NEW k \in P PROVE k + 1 \in P
  <2> SUFFICES ASSUME k + 1 <= n PROVE g[1..(k + 1)] = f[1..(k + 1)]
    OBVIOUS
  <2>1. k \in Nat /\ k <= n /\ k + 1 <= n + 1 /\ k + 1 \in 1..n
    OBVIOUS
  <2>2. g[1..k] = f[1..k]
    BY <2>1
  <2> QED  BY <1>2, <1>7, <2>1, <2>2
<1>10. P \in SUBSET Nat
  OBVIOUS
<1> HIDE DEF P
<1>11. n \in P
  BY <1>8, <1>9, <1>10, NatSetInduction
<1>12. g[1..n] = f[1..n]
  BY <1>11 DEF P
<1>13. g[1..(n + 1)] = g[1..n] + s[n + 1]
  BY <1>0, <1>7
<1> QED  BY <1>1, <1>6, <1>12, <1>13

LEMMA SumType ==
    ASSUME NEW n \in Nat, NEW s \in [1..n -> Int]
    PROVE  Sum(s) \in Int
<1> DEFINE P == {k \in Nat : \A t \in [1..k -> Int] : Sum(t) \in Int}
<1>1. 0 \in P
  BY SumEmpty
<1>2. ASSUME NEW k \in P PROVE k + 1 \in P
  <2> SUFFICES ASSUME NEW t \in [1..(k + 1) -> Int] PROVE Sum(t) \in Int
    OBVIOUS
  <2>1. k \in Nat /\ k + 1 \in 1..(k + 1) /\ Prefix(t, k) \in [1..k -> Int]
    BY DEF Prefix
  <2>2. Sum(Prefix(t, k)) \in Int
    BY <2>1
  <2>3. t[k + 1] \in Int /\ DOMAIN t = 1..(k + 1)
    BY <2>1
  <2>4. Sum(t) = Sum(Prefix(t, k)) + t[k + 1]
    BY <2>1, <2>3, SumStep
  <2> QED  BY <2>2, <2>3, <2>4
<1>3. P \in SUBSET Nat
  OBVIOUS
<1> HIDE DEF P
<1>4. n \in P
  BY <1>1, <1>2, <1>3, NatSetInduction
<1> QED  BY <1>4 DEF P

\* A sum whose sequence changes in one place.
LEMMA SumChange ==
    ASSUME NEW n \in Nat, NEW s \in [1..n -> Int], NEW t \in [1..n -> Int], NEW i \in 1..n,
           \A j \in 1..n : j # i => t[j] = s[j]
    PROVE  Sum(t) = Sum(s) + (t[i] - s[i])
<1> DEFINE P == {k \in Nat : k <= n =>
                   Sum(Prefix(t, k)) = Sum(Prefix(s, k)) + (IF i <= k THEN t[i] - s[i] ELSE 0)}
<1>0. \A k \in Nat : k <= n => /\ Prefix(s, k) \in [1..k -> Int] /\ Prefix(t, k) \in [1..k -> Int]
                               /\ Sum(Prefix(s, k)) \in Int /\ Sum(Prefix(t, k)) \in Int
  <2>1. \A k \in Nat : k <= n => Prefix(s, k) \in [1..k -> Int] /\ Prefix(t, k) \in [1..k -> Int]
    BY DEF Prefix
  <2> QED  BY <2>1, SumType
<1>1. 0 \in P
  <2>1. DOMAIN Prefix(t, 0) = 1..0 /\ DOMAIN Prefix(s, 0) = 1..0
    BY DEF Prefix
  <2>2. Sum(Prefix(t, 0)) = 0 /\ Sum(Prefix(s, 0)) = 0
    BY <2>1, SumEmpty
  <2> QED  BY <2>2
<1>2. ASSUME NEW k \in P PROVE k + 1 \in P
  <2> SUFFICES ASSUME k + 1 <= n
               PROVE  Sum(Prefix(t, k + 1)) = Sum(Prefix(s, k + 1))
                                              + (IF i <= k + 1 THEN t[i] - s[i] ELSE 0)
    OBVIOUS
  <2>1. k \in Nat /\ k <= n /\ k + 1 \in 1..n
    OBVIOUS
  <2>2. Sum(Prefix(t, k)) = Sum(Prefix(s, k)) + (IF i <= k THEN t[i] - s[i] ELSE 0)
    BY <2>1
  <2> HIDE DEF P
  <2>3. \A q : /\ DOMAIN Prefix(q, k + 1) = 1..(k + 1) /\ Prefix(q, k + 1)[k + 1] = q[k + 1]
               /\ Prefix(Prefix(q, k + 1), k) = Prefix(q, k)
    <3>1. \A q : DOMAIN Prefix(q, k + 1) = 1..(k + 1) /\ Prefix(q, k + 1)[k + 1] = q[k + 1]
      BY <2>1 DEF Prefix
    <3>2. \A j \in 1..k : j \in 1..(k + 1)
      BY <2>1
    <3>3. \A q : Prefix(Prefix(q, k + 1), k) = Prefix(q, k)
      BY <3>2 DEF Prefix
    <3> QED  BY <3>1, <3>3
  <2>4. /\ Sum(Prefix(t, k + 1)) = Sum(Prefix(t, k)) + t[k + 1]
        /\ Sum(Prefix(s, k + 1)) = Sum(Prefix(s, k)) + s[k + 1]
    BY <2>1, <2>3, SumStep
  <2>5. t[k + 1] \in Int /\ s[k + 1] \in Int /\ t[i] \in Int /\ s[i] \in Int
    BY <2>1
  <2>6. Sum(Prefix(s, k)) \in Int /\ Sum(Prefix(t, k)) \in Int
    BY <1>0, <2>1
  <2>7. CASE i = k + 1
    BY <2>1, <2>2, <2>4, <2>5, <2>6, <2>7
  <2>8. CASE i # k + 1
    <3>1. t[k + 1] = s[k + 1] /\ (i <= k + 1 <=> i <= k)
      BY <2>1, <2>8
    <3> QED  BY <2>1, <2>2, <2>4, <2>5, <2>6, <3>1
  <2> QED  BY <2>7, <2>8
<1>3. P \in SUBSET Nat
  OBVIOUS
<1> HIDE DEF P
<1>4. n \in P
  BY <1>1, <1>2, <1>3, NatSetInduction
<1>5. Prefix(s, n) = s /\ Prefix(t, n) = t
  BY DEF Prefix
<1>6. i <= n
  OBVIOUS
<1> QED  BY <1>4, <1>5, <1>6 DEF P

LEMMA ConcatAt ==
    ASSUME NEW S, NEW s \in Seq(S), NEW t \in Seq(S)
    PROVE  /\ s \o t \in Seq(S) /\ Len(s \o t) = Len(s) + Len(t)
           /\ DOMAIN (s \o t) = 1..(Len(s) + Len(t))
           /\ s \o t = [j \in 1..(Len(s) + Len(t)) |-> (s \o t)[j]]
           /\ \A j \in 1..Len(s) : (s \o t)[j] = s[j]
           /\ \A j \in 1..(Len(s) + Len(t)) :
                 j > Len(s) => (s \o t)[j] = t[j - Len(s)] /\ j - Len(s) \in 1..Len(t)
<1>1. s \o t \in Seq(S) /\ Len(s \o t) = Len(s) + Len(t)
  OBVIOUS
<1>2. DOMAIN (s \o t) = 1..(Len(s) + Len(t)) /\ s \o t = [j \in 1..(Len(s) + Len(t)) |-> (s \o t)[j]]
  <2>1. PICK u : u = s \o t
    OBVIOUS
  <2>2. u \in Seq(S) /\ Len(u) = Len(s) + Len(t)
    BY <1>1, <2>1
  <2>3. DOMAIN u = 1..Len(u) /\ u = [j \in 1..Len(u) |-> u[j]]
    BY <2>2
  <2> QED  BY <2>1, <2>2, <2>3
<1>3. \A j \in 1..Len(s) : (s \o t)[j] = s[j]
  OBVIOUS
<1>4. \A j \in 1..(Len(s) + Len(t)) :
        j > Len(s) => (s \o t)[j] = t[j - Len(s)] /\ j - Len(s) \in 1..Len(t)
  OBVIOUS
<1> QED  BY <1>1, <1>2, <1>3, <1>4

\* The last element of the second sequence is that of the concatenation.
LEMMA ConcatPrefix ==
    ASSUME NEW S, NEW s \in Seq(S), NEW k \in Nat, NEW q \in [1..(k + 1) -> S]
    PROVE  /\ DOMAIN (s \o q) = 1..((Len(s) + k) + 1) /\ (s \o q)[(Len(s) + k) + 1] = q[k + 1]
           /\ Prefix(s \o q, Len(s) + k) = s \o Prefix(q, k)
<1>1. PICK m : m = Len(s)
  OBVIOUS
<1>2. m \in Nat /\ Prefix(q, k) \in [1..k -> S]
  BY <1>1 DEF Prefix
<1>3. /\ q \in Seq(S) /\ Len(q) = k + 1
      /\ Prefix(q, k) \in Seq(S) /\ Len(Prefix(q, k)) = k
  BY <1>2
<1>4. PICK u, v : u = s \o q /\ v = s \o Prefix(q, k)
  OBVIOUS
<1>5. m + (k + 1) = (m + k) + 1
  BY <1>2
<1>6. /\ DOMAIN u = 1..((m + k) + 1)
      /\ \A j \in 1..m : u[j] = s[j]
      /\ \A j \in 1..((m + k) + 1) : j > m => u[j] = q[j - m]
  BY <1>1, <1>3, <1>4, <1>5, ConcatAt
<1>7. /\ v = [j \in 1..(m + k) |-> v[j]]
      /\ \A j \in 1..m : v[j] = s[j]
      /\ \A j \in 1..(m + k) : j > m => v[j] = Prefix(q, k)[j - m] /\ j - m \in 1..k
  BY <1>1, <1>3, <1>4, ConcatAt
<1>8. \A j \in 1..(m + k) : u[j] = v[j]
  <2>1. \A i \in 1..k : Prefix(q, k)[i] = q[i]
    BY DEF Prefix
  <2>2. \A j \in 1..(m + k) : j \in 1..((m + k) + 1) /\ (j > m \/ j \in 1..m)
    BY <1>2
  <2> QED  BY <1>6, <1>7, <2>1, <2>2
<1>9. Prefix(u, m + k) = v
  BY <1>7, <1>8 DEF Prefix
<1>10. u[(m + k) + 1] = q[k + 1]
  <2>1. (m + k) + 1 \in 1..((m + k) + 1) /\ (m + k) + 1 > m /\ ((m + k) + 1) - m = k + 1
    BY <1>2
  <2> QED  BY <1>6, <2>1
<1> QED  BY <1>1, <1>4, <1>6, <1>9, <1>10

LEMMA SumConcat ==
    ASSUME NEW s \in Seq(Int), NEW t \in Seq(Int)
    PROVE  Sum(s \o t) = Sum(s) + Sum(t)
<1> DEFINE P == {k \in Nat : \A q \in [1..k -> Int] : Sum(s \o q) = Sum(s) + Sum(q)}
<1>0. Len(s) \in Nat /\ s \in [1..Len(s) -> Int] /\ Sum(s) \in Int
  BY SumType
<1>1. 0 \in P
  <2> SUFFICES ASSUME NEW q \in [1..0 -> Int] PROVE Sum(s \o q) = Sum(s) + Sum(q)
    OBVIOUS
  <2>1. q = <<>> /\ s \o <<>> = s
    OBVIOUS
  <2>2. Sum(q) = 0
    BY SumEmpty
  <2> QED  BY <1>0, <2>1, <2>2
<1>2. ASSUME NEW k \in P PROVE k + 1 \in P
  <2> SUFFICES ASSUME NEW q \in [1..(k + 1) -> Int] PROVE Sum(s \o q) = Sum(s) + Sum(q)
    OBVIOUS
  <2>1. k \in Nat /\ k + 1 \in 1..(k + 1) /\ Prefix(q, k) \in [1..k -> Int] /\ q[k + 1] \in Int
    BY DEF Prefix
  <2>2. Sum(s \o Prefix(q, k)) = Sum(s) + Sum(Prefix(q, k))
    BY <2>1
  <2> HIDE DEF P
  <2>3. Sum(q) = Sum(Prefix(q, k)) + q[k + 1] /\ Sum(Prefix(q, k)) \in Int
    BY <2>1, SumStep, SumType
  <2>4. /\ DOMAIN (s \o q) = 1..((Len(s) + k) + 1) /\ (s \o q)[(Len(s) + k) + 1] = q[k + 1]
        /\ Prefix(s \o q, Len(s) + k) = s \o Prefix(q, k)
    <3>1. PICK S : S = Int
      OBVIOUS
    <3>2. s \in Seq(S) /\ k \in Nat /\ q \in [1..(k + 1) -> S]
      BY <2>1, <3>1
    <3> QED  BY <3>2, ConcatPrefix, SMT
  <2>5. Sum(s \o q) = Sum(s \o Prefix(q, k)) + q[k + 1]
    <3>1. Len(s) + k \in Nat
      BY <1>0, <2>1
    <3> QED  BY <2>4, <3>1, SumStep
  <2> QED  BY <1>0, <2>1, <2>2, <2>3, <2>5
<1>3. P \in SUBSET Nat
  OBVIOUS
<1> HIDE DEF P
<1>4. P = Nat
  BY <1>1, <1>2, <1>3, NatSetInduction
<1>5. Len(t) \in Nat /\ t \in [1..Len(t) -> Int]
  OBVIOUS
<1> QED  BY <1>4, <1>5 DEF P

\* The function that concatenates a sequence of sequences.
IsFlat(g, s, n) == g = [i \in 1..n |-> IF i = 1 THEN s[i] ELSE g[i - 1] \o s[i]]

LEMMA FlattenUnfold ==
    ASSUME NEW s, NEW n, Len(s) = n, n # 0
    PROVE  FlattenSeq(s) = (CHOOSE g : IsFlat(g, s, n))[n]
BY DEF FlattenSeq, IsFlat

LEMMA FlatExists ==
    ASSUME NEW s, NEW n \in Nat
    PROVE  \E g : IsFlat(g, s, n)
<1> DEFINE P == {k \in Nat : \E g : IsFlat(g, s, k)}
<1>1. 0 \in P
  <2> DEFINE g == [i \in 1..0 |-> s[i]]
  <2>1. \A i \in 1..0 : FALSE
    OBVIOUS
  <2>2. IsFlat(g, s, 0)
    BY <2>1 DEF IsFlat
  <2> QED  BY <2>2
<1>2. ASSUME NEW k \in P PROVE k + 1 \in P
  <2>1. k \in Nat /\ k + 1 \in Nat
    OBVIOUS
  <2>2. PICK g : IsFlat(g, s, k)
    OBVIOUS
  <2> HIDE DEF P
  <2>3. PICK o : o = k + 1
    OBVIOUS
  <2> DEFINE h == [i \in 1..o |-> IF i = o THEN (IF o = 1 THEN s[o] ELSE g[k] \o s[o]) ELSE g[i]]
  <2>4. /\ \A i \in 1..o : i # o => i \in 1..k
        /\ \A i \in 1..o : i # 1 => i - 1 \in 1..o /\ i - 1 # o
        /\ o \in 1..o /\ o - 1 = k
    BY <2>1, <2>3
  <2>5. \A i \in 1..k : g[i] = IF i = 1 THEN s[i] ELSE g[i - 1] \o s[i]
    BY <2>2 DEF IsFlat
  <2>6. ASSUME NEW i \in 1..o
        PROVE  h[i] = IF i = 1 THEN s[i] ELSE h[i - 1] \o s[i]
    <3>1. i # 1 => h[i - 1] = g[i - 1]
      BY <2>4
    <3>2. CASE i = o
      <4>1. h[i] = IF o = 1 THEN s[o] ELSE g[k] \o s[o]
        BY <3>2
      <4> QED  BY <2>4, <3>1, <3>2, <4>1
    <3>3. CASE i # o
      <4>1. h[i] = g[i] /\ i \in 1..k
        BY <2>4, <3>3
      <4> QED  BY <2>5, <3>1, <4>1
    <3> QED  BY <3>2, <3>3
  <2>7. h = [i \in 1..o |-> h[i]]
    OBVIOUS
  <2> HIDE DEF h
  <2>8. h = [i \in 1..o |-> IF i = 1 THEN s[i] ELSE h[i - 1] \o s[i]]
    BY <2>6, <2>7
  <2> QED  BY <2>1, <2>3, <2>8 DEF P, IsFlat
<1>3. P \in SUBSET Nat
  OBVIOUS
<1> HIDE DEF P
<1>4. P = Nat
  BY <1>1, <1>2, <1>3, NatSetInduction
<1> QED  BY <1>4 DEF P

LEMMA FlattenEmpty ==
    ASSUME NEW S, NEW s \in [1..0 -> S]
    PROVE  FlattenSeq(s) = <<>>
<1>1. s = <<>> /\ Len(s) = 0
  OBVIOUS
<1> QED  BY <1>1 DEF FlattenSeq

LEMMA FlattenStep ==
    ASSUME NEW S, NEW n \in Nat, NEW s \in [1..(n + 1) -> Seq(S)]
    PROVE  FlattenSeq(s) = FlattenSeq(Prefix(s, n)) \o s[n + 1]
<1>0. n + 1 \in Nat /\ n + 1 # 0 /\ Len(s) = n + 1 /\ n + 1 \in 1..(n + 1) /\ s[n + 1] \in Seq(S)
  OBVIOUS
<1>1. PICK t : t = Prefix(s, n)
  OBVIOUS
<1>2. t \in [1..n -> Seq(S)] /\ \A i \in 1..n : t[i] = s[i]
  BY <1>1 DEF Prefix
<1>3. PICK g : g = (CHOOSE h : IsFlat(h, s, n + 1))
  OBVIOUS
<1>4. PICK f : f = (CHOOSE h : IsFlat(h, t, n))
  OBVIOUS
<1>5. IsFlat(g, s, n + 1) /\ IsFlat(f, t, n)
  BY <1>0, <1>3, <1>4, FlatExists
<1>6. FlattenSeq(s) = g[n + 1]
  BY <1>0, <1>3, FlattenUnfold
<1>7. /\ \A i \in 1..(n + 1) : g[i] = IF i = 1 THEN s[i] ELSE g[i - 1] \o s[i]
      /\ \A i \in 1..n : f[i] = IF i = 1 THEN t[i] ELSE f[i - 1] \o t[i]
  BY <1>5 DEF IsFlat
<1>8. CASE n = 0
  <2>1. g[n + 1] = s[n + 1]
    BY <1>0, <1>7, <1>8
  <2>2. FlattenSeq(t) = <<>>
    BY <1>2, <1>8, FlattenEmpty
  <2>3. <<>> \o s[n + 1] = s[n + 1]
    BY <1>0
  <2> QED  BY <1>1, <1>6, <2>1, <2>2, <2>3
<1>9. CASE n # 0
  <2>1. Len(t) = n
    BY <1>2
  <2>2. FlattenSeq(t) = f[n]
    BY <1>4, <1>9, <2>1, FlattenUnfold
  <2> DEFINE P == {k \in Nat : k + 1 <= n => g[k + 1] = f[k + 1]}
  <2>3. 0 \in P
    <3> SUFFICES ASSUME 0 + 1 <= n PROVE g[0 + 1] = f[0 + 1]
      OBVIOUS
    <3>1. 1 \in 1..n /\ 1 \in 1..(n + 1) /\ 0 + 1 = 1
      OBVIOUS
    <3> QED  BY <1>2, <1>7, <3>1
  <2>4. ASSUME NEW k \in P PROVE k + 1 \in P
    <3> SUFFICES ASSUME (k + 1) + 1 <= n PROVE g[(k + 1) + 1] = f[(k + 1) + 1]
      OBVIOUS
    <3>1. /\ k \in Nat /\ k + 1 <= n
          /\ (k + 1) + 1 \in 1..n /\ (k + 1) + 1 \in 1..(n + 1)
          /\ (k + 1) + 1 # 1 /\ ((k + 1) + 1) - 1 = k + 1
      OBVIOUS
    <3>2. g[k + 1] = f[k + 1]
      BY <3>1
    <3> HIDE DEF P
    <3>3. /\ g[(k + 1) + 1] = g[k + 1] \o s[(k + 1) + 1]
          /\ f[(k + 1) + 1] = f[k + 1] \o t[(k + 1) + 1]
      BY <1>7, <3>1
    <3> QED  BY <1>2, <3>1, <3>2, <3>3
  <2>5. P \in SUBSET Nat
    OBVIOUS
  <2> HIDE DEF P
  <2>6. P = Nat
    BY <2>3, <2>4, <2>5, NatSetInduction
  <2>7. n - 1 \in Nat /\ (n - 1) + 1 = n /\ n <= n
    BY <1>9
  <2>8. g[n] = f[n]
    BY <2>6, <2>7 DEF P
  <2>9. g[n + 1] = g[n] \o s[n + 1]
    <3>1. n + 1 # 1 /\ (n + 1) - 1 = n
      BY <1>9
    <3> QED  BY <1>0, <1>7, <3>1
  <2> QED  BY <1>1, <1>6, <2>2, <2>8, <2>9
<1> QED  BY <1>8, <1>9

LEMMA FlattenType ==
    ASSUME NEW S, NEW n \in Nat, NEW s \in [1..n -> Seq(S)]
    PROVE  FlattenSeq(s) \in Seq(S)
<1> DEFINE P == {k \in Nat : \A t \in [1..k -> Seq(S)] : FlattenSeq(t) \in Seq(S)}
<1>1. 0 \in P
  <2> SUFFICES ASSUME NEW t \in [1..0 -> Seq(S)] PROVE FlattenSeq(t) \in Seq(S)
    OBVIOUS
  <2>1. FlattenSeq(t) = <<>>
    BY FlattenEmpty
  <2> QED  BY <2>1
<1>2. ASSUME NEW k \in P PROVE k + 1 \in P
  <2> SUFFICES ASSUME NEW t \in [1..(k + 1) -> Seq(S)] PROVE FlattenSeq(t) \in Seq(S)
    OBVIOUS
  <2>1. k \in Nat /\ Prefix(t, k) \in [1..k -> Seq(S)] /\ t[k + 1] \in Seq(S)
    BY DEF Prefix
  <2>2. FlattenSeq(Prefix(t, k)) \in Seq(S)
    BY <2>1
  <2> HIDE DEF P
  <2>3. FlattenSeq(t) = FlattenSeq(Prefix(t, k)) \o t[k + 1]
    BY <2>1, FlattenStep
  <2> QED  BY <2>1, <2>2, <2>3
<1>3. P \in SUBSET Nat
  OBVIOUS
<1> HIDE DEF P
<1>4. n \in P
  BY <1>1, <1>2, <1>3, NatSetInduction
<1> QED  BY <1>4 DEF P

LEMMA SumFlatten ==
    ASSUME NEW n \in Nat, NEW s \in [1..n -> Seq(Int)]
    PROVE  Sum(FlattenSeq(s)) = Sum([i \in 1..n |-> Sum(s[i])])
<1> DEFINE Sums(t, k) == [i \in 1..k |-> Sum(t[i])]
           P == {k \in Nat : \A t \in [1..k -> Seq(Int)] : Sum(FlattenSeq(t)) = Sum(Sums(t, k))}
<1>0. \A t \in Seq(Int) : Sum(t) \in Int
  <2>1. \A t \in Seq(Int) : Len(t) \in Nat /\ t \in [1..Len(t) -> Int]
    OBVIOUS
  <2> QED  BY <2>1, SumType
<1>1. 0 \in P
  <2> SUFFICES ASSUME NEW t \in [1..0 -> Seq(Int)] PROVE Sum(FlattenSeq(t)) = Sum(Sums(t, 0))
    OBVIOUS
  <2>1. FlattenSeq(t) = <<>>
    BY FlattenEmpty
  <2>2. DOMAIN <<>> = 1..0 /\ DOMAIN Sums(t, 0) = 1..0
    OBVIOUS
  <2> QED  BY <2>1, <2>2, SumEmpty
<1>2. ASSUME NEW k \in P PROVE k + 1 \in P
  <2> SUFFICES ASSUME NEW t \in [1..(k + 1) -> Seq(Int)]
               PROVE  Sum(FlattenSeq(t)) = Sum(Sums(t, k + 1))
    OBVIOUS
  <2>1. k \in Nat /\ Prefix(t, k) \in [1..k -> Seq(Int)] /\ t[k + 1] \in Seq(Int)
    BY DEF Prefix
  <2>2. Sum(FlattenSeq(Prefix(t, k))) = Sum(Sums(Prefix(t, k), k))
    BY <2>1
  <2> HIDE DEF P
  <2>3. FlattenSeq(t) = FlattenSeq(Prefix(t, k)) \o t[k + 1]
    BY <2>1, FlattenStep
  <2>4. FlattenSeq(Prefix(t, k)) \in Seq(Int)
    BY <2>1, FlattenType
  <2>5. Sum(FlattenSeq(t)) = Sum(FlattenSeq(Prefix(t, k))) + Sum(t[k + 1])
    BY <2>1, <2>3, <2>4, SumConcat
  <2>6. /\ DOMAIN Sums(t, k + 1) = 1..(k + 1)
        /\ Sums(t, k + 1)[k + 1] = Sum(t[k + 1])
    BY <2>1
  <2>7. Prefix(Sums(t, k + 1), k) = Sums(Prefix(t, k), k)
    <3>1. \A i \in 1..k : i \in 1..(k + 1)
      BY <2>1
    <3> QED  BY <3>1 DEF Prefix
  <2>8. Sum(Sums(t, k + 1)) = Sum(Prefix(Sums(t, k + 1), k)) + Sums(t, k + 1)[k + 1]
    BY <2>1, <2>6, SumStep
  <2> QED  BY <2>2, <2>5, <2>6, <2>7, <2>8
<1>3. P \in SUBSET Nat
  OBVIOUS
<1> HIDE DEF P
<1>4. n \in P
  BY <1>1, <1>2, <1>3, NatSetInduction
<1> QED  BY <1>4 DEF P

LEMMA NatMinimum ==
    ASSUME NEW T \in SUBSET Nat, T # {}
    PROVE  \E x \in T : \A y \in T : x <= y
<1>1. IsWellFoundedOn(OpToRel(<, Nat), Nat)
  BY NatLessThanWellFounded
<1>2. PICK x \in T : \A y \in T : ~(<<y, x>> \in OpToRel(<, Nat))
  BY <1>1, WFMin
<1>3. \A y \in T : ~(y < x)
  BY <1>2 DEF OpToRel
<1> QED  BY <1>3

-----------------------------------------------------------------------------
(* Prices *)

LEMMA SumZero ==
    ASSUME NEW n \in Nat, NEW s, DOMAIN s = 1..n, \A i \in 1..n : s[i] = 0
    PROVE  Sum(s) = 0
<1> DEFINE P == {k \in Nat : \A t : DOMAIN t = 1..k /\ (\A i \in 1..k : t[i] = 0) => Sum(t) = 0}
<1>1. 0 \in P
  BY SumEmpty
<1>2. ASSUME NEW k \in P PROVE k + 1 \in P
  <2> SUFFICES ASSUME NEW t, DOMAIN t = 1..(k + 1), \A i \in 1..(k + 1) : t[i] = 0
               PROVE  Sum(t) = 0
    OBVIOUS
  <2>1. k \in Nat /\ k + 1 \in 1..(k + 1) /\ \A i \in 1..k : i \in 1..(k + 1)
    OBVIOUS
  <2>2. DOMAIN Prefix(t, k) = 1..k /\ \A i \in 1..k : Prefix(t, k)[i] = 0
    BY <2>1 DEF Prefix
  <2>3. Sum(Prefix(t, k)) = 0
    BY <2>2
  <2>4. Sum(t) = Sum(Prefix(t, k)) + t[k + 1]
    BY <2>1, SumStep
  <2> QED  BY <2>1, <2>3, <2>4
<1>3. P \in SUBSET Nat
  OBVIOUS
<1> HIDE DEF P
<1>4. n \in P
  BY <1>1, <1>2, <1>3, NatSetInduction
<1> QED  BY <1>4 DEF P

Distinct(s) == \A i, j \in DOMAIN s : s[i] = s[j] => i = j

\* The ids chosen in a group are some of its options, none of them twice.
IsChoice(sel, opts) ==
    /\ sel \in Seq(OptionIds) /\ Distinct(sel)
    /\ \A k \in DOMAIN sel : \E i \in DOMAIN opts : opts[i].id = sel[k]

Find(opts, id) == CHOOSE i \in DOMAIN opts : opts[i].id = id

\* The two ways to add up a group: over its options and over the choice.
LEMMA ChoiceSum ==
    ASSUME NEW opts \in Seq(ModifierOption),
           \A i, j \in DOMAIN opts : opts[i].id = opts[j].id => i = j,
           NEW sel, IsChoice(sel, opts)
    PROVE  Sum([i \in DOMAIN opts |-> IF Contains(sel, opts[i].id)
                                      THEN opts[i].priceDeltaCents ELSE 0])
             = Sum([k \in DOMAIN sel |-> opts[Find(opts, sel[k])].priceDeltaCents])
<1>1. PICK n, m : n = Len(opts) /\ m = Len(sel)
  OBVIOUS
<1>2. /\ n \in Nat /\ m \in Nat /\ DOMAIN opts = 1..n /\ DOMAIN sel = 1..m
      /\ \A i \in 1..n : opts[i].priceDeltaCents \in Int
  <2>1. sel \in Seq(OptionIds)
    BY DEF IsChoice
  <2>2. n \in Nat /\ m \in Nat /\ DOMAIN opts = 1..n /\ DOMAIN sel = 1..m
    BY <1>1, <2>1
  <2>3. \A i \in 1..n : opts[i] \in ModifierOption
    BY <1>1
  <2> QED  BY <2>2, <2>3 DEF ModifierOption
<1>3. \A k \in 1..m : Find(opts, sel[k]) \in 1..n /\ opts[Find(opts, sel[k])].id = sel[k]
  BY <1>2 DEF IsChoice, Find
<1> DEFINE Ind(k) == [i \in 1..n |-> IF \E j \in 1..k : sel[j] = opts[i].id
                                     THEN opts[i].priceDeltaCents ELSE 0]
           Del(k) == [j \in 1..k |-> opts[Find(opts, sel[j])].priceDeltaCents]
           P == {k \in Nat : k <= m => Sum(Ind(k)) = Sum(Del(k))}
<1>4. 0 \in P
  <2>1. DOMAIN Ind(0) = 1..n /\ \A i \in 1..n : Ind(0)[i] = 0
    OBVIOUS
  <2>2. Sum(Ind(0)) = 0
    BY <1>2, <2>1, SumZero
  <2>3. Sum(Del(0)) = 0
    BY SumEmpty
  <2> QED  BY <2>2, <2>3
<1>5. ASSUME NEW k \in P PROVE k + 1 \in P
  <2> SUFFICES ASSUME k + 1 <= m PROVE Sum(Ind(k + 1)) = Sum(Del(k + 1))
    OBVIOUS
  <2>1. /\ k \in Nat /\ k <= m /\ k + 1 \in 1..m /\ \A j \in 1..k : j \in 1..m /\ j # k + 1
        /\ \A j \in 1..k : j \in 1..(k + 1)
        /\ \A j \in 1..(k + 1) : j \in 1..k \/ j = k + 1
        /\ k + 1 \in 1..(k + 1)
    BY <1>2
  <2>2. Sum(Ind(k)) = Sum(Del(k))
    BY <2>1
  <2> HIDE DEF P
  <2>3. PICK i : i = Find(opts, sel[k + 1])
    OBVIOUS
  <2>4. i \in 1..n /\ opts[i].id = sel[k + 1] /\ opts[i].priceDeltaCents \in Int
    BY <1>2, <1>3, <2>1, <2>3
  <2>5. Ind(k) \in [1..n -> Int] /\ Ind(k + 1) \in [1..n -> Int]
    BY <1>2
  <2>6. Ind(k)[i] = 0
    <3>1. \A j \in 1..k : sel[j] # sel[k + 1]
      BY <1>2, <2>1 DEF IsChoice, Distinct
    <3> QED  BY <2>4, <3>1
  <2>7. Ind(k + 1)[i] = opts[i].priceDeltaCents
    BY <2>1, <2>4
  <2>8. ASSUME NEW h \in 1..n, h # i PROVE Ind(k + 1)[h] = Ind(k)[h]
    <3>1. opts[h].id # sel[k + 1]
      BY <1>2, <2>4, <2>8
    <3>2. (\E j \in 1..(k + 1) : sel[j] = opts[h].id) <=> (\E j \in 1..k : sel[j] = opts[h].id)
      BY <2>1, <3>1
    <3> QED  BY <3>2
  <2>9. /\ DOMAIN Del(k + 1) = 1..(k + 1) /\ Del(k + 1)[k + 1] = opts[i].priceDeltaCents
        /\ Prefix(Del(k + 1), k) = Del(k) /\ Del(k) \in [1..k -> Int]
    <3>1. Del(k + 1)[k + 1] = opts[i].priceDeltaCents
      BY <2>1, <2>3
    <3>2. Prefix(Del(k + 1), k) = Del(k)
      BY <2>1 DEF Prefix
    <3>3. Del(k) \in [1..k -> Int]
      BY <1>2, <1>3, <2>1
    <3> QED  BY <3>1, <3>2, <3>3
  <2> HIDE DEF Ind, Del
  <2>10. Sum(Ind(k + 1)) = Sum(Ind(k)) + (Ind(k + 1)[i] - Ind(k)[i])
    <3>1. PICK a, b : a = Ind(k) /\ b = Ind(k + 1)
      OBVIOUS
    <3>2. a \in [1..n -> Int] /\ b \in [1..n -> Int] /\ \A h \in 1..n : h # i => b[h] = a[h]
      BY <2>5, <2>8, <3>1
    <3>3. Sum(b) = Sum(a) + (b[i] - a[i])
      <4>1. n \in Nat /\ i \in 1..n
        BY <1>2, <2>4
      <4> QED  BY <3>2, <4>1, SumChange, ZenonT(30)
    <3> QED  BY <3>1, <3>3
  <2>11. Sum(Del(k + 1)) = Sum(Del(k)) + opts[i].priceDeltaCents
    BY <2>1, <2>9, SumStep
  <2>12. Sum(Del(k)) \in Int
    BY <2>1, <2>9, SumType
  <2> QED  BY <2>2, <2>4, <2>6, <2>7, <2>10, <2>11, <2>12
<1>6. P \in SUBSET Nat
  OBVIOUS
<1>7. [i \in DOMAIN opts |-> IF Contains(sel, opts[i].id)
                             THEN opts[i].priceDeltaCents ELSE 0] = Ind(m)
  BY <1>1, <1>2 DEF Contains
<1>8. [k \in DOMAIN sel |-> opts[Find(opts, sel[k])].priceDeltaCents] = Del(m)
  BY <1>2
<1>9. P = Nat
  <2> HIDE DEF P
  <2> QED  BY <1>4, <1>5, <1>6, NatSetInduction
<1> HIDE DEF Ind, Del
<1>10. Sum(Ind(m)) = Sum(Del(m))
  <2>1. m \in P /\ m <= m
    BY <1>2, <1>9
  <2> QED  BY <2>1
<1> QED  BY <1>7, <1>8, <1>10

LEMMA ChoiceAppend ==
    ASSUME NEW opts, NEW sel, IsChoice(sel, opts), NEW i \in DOMAIN opts,
           opts[i].id \in OptionIds, \A k \in DOMAIN sel : sel[k] # opts[i].id
    PROVE  IsChoice(Append(sel, opts[i].id), opts)
<1>1. PICK n, id, t : n = Len(sel) /\ id = opts[i].id /\ t = Append(sel, id)
  OBVIOUS
<1>2. n \in Nat /\ sel \in Seq(OptionIds) /\ DOMAIN sel = 1..n
  BY <1>1 DEF IsChoice
<1>3. /\ t \in Seq(OptionIds) /\ DOMAIN t = 1..(n + 1) /\ t[n + 1] = id
      /\ \A k \in 1..n : t[k] = sel[k]
  BY <1>1, <1>2
<1>4. \A k \in 1..(n + 1) : k \in 1..n \/ k = n + 1
  BY <1>2
<1>5. Distinct(t)
  BY <1>1, <1>2, <1>3, <1>4 DEF IsChoice, Distinct
<1>6. \A k \in DOMAIN t : \E j \in DOMAIN opts : opts[j].id = t[k]
  BY <1>1, <1>2, <1>3, <1>4 DEF IsChoice
<1> QED  BY <1>1, <1>3, <1>5, <1>6 DEF IsChoice

\* Some elements of a choice, each once, are a choice.
LEMMA ChoicePart ==
    ASSUME NEW opts, NEW sel, IsChoice(sel, opts), NEW m \in Nat, NEW f \in [1..m -> DOMAIN sel],
           \A i, j \in 1..m : f[i] = f[j] => i = j,
           NEW t \in Seq(OptionIds), DOMAIN t = 1..m, \A i \in 1..m : t[i] = sel[f[i]]
    PROVE  IsChoice(t, opts)
<1>1. Distinct(t)
  BY DEF IsChoice, Distinct
<1>2. \A k \in DOMAIN t : \E j \in DOMAIN opts : opts[j].id = t[k]
  BY DEF IsChoice
<1> QED  BY <1>1, <1>2 DEF IsChoice

LEMMA ChoicePrefix ==
    ASSUME NEW opts, NEW sel, IsChoice(sel, opts), NEW m \in Nat, m <= Len(sel)
    PROVE  IsChoice(SubSeq(sel, 1, m), opts)
<1>1. sel \in Seq(OptionIds)
  BY DEF IsChoice
<1>2. PICK t : t = SubSeq(sel, 1, m)
  OBVIOUS
<1>3. t \in Seq(OptionIds) /\ DOMAIN t = 1..m /\ \A i \in 1..m : t[i] = sel[i]
  BY <1>1, <1>2
<1> DEFINE f == [i \in 1..m |-> i]
<1>4. f \in [1..m -> DOMAIN sel] /\ \A i \in 1..m : f[i] = i
  BY <1>1
<1> HIDE DEF f
<1>5. IsChoice(t, opts)
  BY <1>3, <1>4, ChoicePart
<1> QED  BY <1>2, <1>5

LEMMA RemoveAtFields ==
    ASSUME NEW S, NEW s \in Seq(S), NEW i \in 1..Len(s)
    PROVE  /\ RemoveAt(s, i) \in Seq(S) /\ Len(RemoveAt(s, i)) = Len(s) - 1
           /\ DOMAIN RemoveAt(s, i) = 1..(Len(s) - 1)
           /\ \A j \in 1..(Len(s) - 1) : RemoveAt(s, i)[j] = s[IF j < i THEN j ELSE j + 1]
<1>1. PICK n, a, b : n = Len(s) /\ a = SubSeq(s, 1, i - 1) /\ b = SubSeq(s, i + 1, n)
  OBVIOUS
<1>2. n \in Nat /\ i \in 1..n /\ i \in Nat
  BY <1>1
<1>3. a \in Seq(S) /\ Len(a) = i - 1 /\ \A j \in 1..(i - 1) : a[j] = s[j]
  BY <1>1, <1>2
<1>4. b \in Seq(S) /\ Len(b) = n - i /\ \A j \in 1..(n - i) : b[j] = s[j + i]
  <2>1. SubSeq(s, i + 1, n) = [j \in 1..((n - (i + 1)) + 1) |-> s[((i + 1) + j) - 1]]
    BY <1>1, <1>2
  <2>2. (n - (i + 1)) + 1 = n - i /\ \A j \in 1..(n - i) : ((i + 1) + j) - 1 = j + i /\ j + i \in 1..n
    BY <1>2
  <2>3. b = [j \in 1..(n - i) |-> s[j + i]]
    BY <1>1, <2>1, <2>2
  <2>4. \A j \in 1..(n - i) : s[j + i] \in S
    BY <1>1, <2>2
  <2>5. n - i \in Nat
    BY <1>2
  <2> QED  BY <2>3, <2>4, <2>5
<1>5. PICK t : t = a \o b
  OBVIOUS
<1>6. RemoveAt(s, i) = t
  BY <1>1, <1>5 DEF RemoveAt
<1>7. Len(a) + Len(b) = n - 1
  BY <1>2, <1>3, <1>4
<1>8. /\ t \in Seq(S) /\ Len(t) = n - 1 /\ DOMAIN t = 1..(n - 1)
      /\ \A j \in 1..(i - 1) : t[j] = a[j]
      /\ \A j \in 1..(n - 1) : j > i - 1 => t[j] = b[j - (i - 1)] /\ j - (i - 1) \in 1..(n - i)
  <2>1. /\ t \in Seq(S) /\ Len(t) = Len(a) + Len(b) /\ DOMAIN t = 1..(Len(a) + Len(b))
        /\ \A j \in 1..Len(a) : t[j] = a[j]
        /\ \A j \in 1..(Len(a) + Len(b)) :
              j > Len(a) => t[j] = b[j - Len(a)] /\ j - Len(a) \in 1..Len(b)
    BY <1>3, <1>4, <1>5, ConcatAt
  <2> QED  BY <1>3, <1>4, <1>7, <2>1
<1>9. ASSUME NEW j \in 1..(n - 1) PROVE t[j] = s[IF j < i THEN j ELSE j + 1]
  <2>1. CASE j < i
    <3>1. j \in 1..(i - 1)
      BY <1>2, <2>1
    <3> QED  BY <1>3, <1>8, <2>1, <3>1
  <2>2. CASE ~(j < i)
    <3>1. j > i - 1 /\ (j - (i - 1)) + i = j + 1
      BY <1>2, <2>2
    <3>2. t[j] = b[j - (i - 1)] /\ j - (i - 1) \in 1..(n - i)
      BY <1>8, <3>1
    <3>3. b[j - (i - 1)] = s[(j - (i - 1)) + i]
      BY <1>4, <3>2
    <3> QED  BY <2>2, <3>1, <3>2, <3>3
  <2> QED  BY <2>1, <2>2
<1> QED  BY <1>1, <1>6, <1>8, <1>9

LEMMA ChoiceRemove ==
    ASSUME NEW opts, NEW sel, IsChoice(sel, opts), NEW id, Contains(sel, id)
    PROVE  IsChoice(RemoveFirst(sel, id), opts)
<1>1. sel \in Seq(OptionIds) /\ Len(sel) \in Nat /\ DOMAIN sel = 1..Len(sel)
  BY DEF IsChoice
<1> DEFINE I == {i \in 1..Len(sel) : sel[i] = id}
<1>2. PICK i \in I : \A j \in I : i <= j
  <2>1. I \in SUBSET Nat /\ I # {}
    BY <1>1 DEF Contains
  <2> QED  BY <2>1, NatMinimum
<1>3. Min(I) = i
  <2>1. \A x \in I : x \in Nat
    BY <1>1
  <2>2. \A x \in I : (\A y \in I : x <= y) => x = i
    BY <1>2, <2>1
  <2> HIDE DEF I
  <2> QED  BY <1>2, <2>2 DEF Min
<1>4. RemoveFirst(sel, id) = RemoveAt(sel, i)
  BY <1>2, <1>3 DEF RemoveFirst, SelectInSeq
<1>5. PICK n, t : n = Len(sel) /\ t = RemoveAt(sel, i)
  OBVIOUS
<1>6. i \in 1..n /\ n \in Nat /\ n - 1 \in Nat
  BY <1>1, <1>2, <1>5
<1>7. /\ t \in Seq(OptionIds) /\ DOMAIN t = 1..(n - 1)
      /\ \A j \in 1..(n - 1) : t[j] = sel[IF j < i THEN j ELSE j + 1]
  BY <1>1, <1>5, <1>6, RemoveAtFields
<1> HIDE DEF I
<1> DEFINE f == [j \in 1..(n - 1) |-> IF j < i THEN j ELSE j + 1]
<1>8. /\ f \in [1..(n - 1) -> 1..n]
      /\ \A j, k \in 1..(n - 1) : f[j] = f[k] => j = k
      /\ \A j \in 1..(n - 1) : t[j] = sel[f[j]]
  <2>1. \A j \in 1..(n - 1) : (IF j < i THEN j ELSE j + 1) \in 1..n
    BY <1>6
  <2>2. \A j, k \in 1..(n - 1) : (IF j < i THEN j ELSE j + 1) = (IF k < i THEN k ELSE k + 1) => j = k
    BY <1>6
  <2> QED  BY <1>7, <2>1, <2>2
<1> HIDE DEF f
<1>9. IsChoice(t, opts)
  <2>1. f \in [1..(n - 1) -> DOMAIN sel]
    BY <1>1, <1>5, <1>8
  <2> QED  BY <1>6, <1>7, <1>8, <2>1, ChoicePart
<1> QED  BY <1>4, <1>5, <1>9

\* The options that are chosen when the sheet opens.
LEMMA DefaultsAreChoice ==
    ASSUME NEW opts \in Seq(ModifierOption),
           \A i, j \in DOMAIN opts : opts[i].id = opts[j].id => i = j
    PROVE  IsChoice(FlattenSeq([i \in DOMAIN opts |->
                                  IF opts[i].isDefault THEN <<opts[i].id>> ELSE <<>>]), opts)
<1>1. PICK n : n = Len(opts)
  OBVIOUS
<1>2. n \in Nat /\ DOMAIN opts = 1..n /\ \A i \in 1..n : opts[i].id \in OptionIds
  <2>1. n \in Nat /\ DOMAIN opts = 1..n /\ \A i \in 1..n : opts[i] \in ModifierOption
    BY <1>1
  <2> QED  BY <2>1 DEF ModifierOption
<1>3. PICK d : d = [i \in 1..n |-> IF opts[i].isDefault THEN <<opts[i].id>> ELSE <<>>]
  OBVIOUS
<1>4. /\ d \in [1..n -> Seq(OptionIds)]
      /\ \A i \in 1..n : d[i] = <<opts[i].id>> \/ d[i] = <<>>
  BY <1>2, <1>3
<1> DEFINE Out(k) == FlattenSeq(Prefix(d, k))
           P == {k \in Nat : k <= n =>
                   /\ IsChoice(Out(k), opts)
                   /\ \A j \in DOMAIN Out(k) : \E i \in 1..k : opts[i].id = Out(k)[j]}
<1>5. 0 \in P
  <2>1. Prefix(d, 0) \in [1..0 -> Seq(OptionIds)]
    BY DEF Prefix
  <2>2. Out(0) = <<>>
    BY <2>1, FlattenEmpty
  <2>3. IsChoice(<<>>, opts) /\ \A j \in DOMAIN <<>> : FALSE
    BY DEF IsChoice, Distinct
  <2> QED  BY <2>2, <2>3
<1>6. ASSUME NEW k \in P PROVE k + 1 \in P
  <2> SUFFICES ASSUME k + 1 <= n
               PROVE  /\ IsChoice(Out(k + 1), opts)
                      /\ \A j \in DOMAIN Out(k + 1) :
                            \E i \in 1..(k + 1) : opts[i].id = Out(k + 1)[j]
    OBVIOUS
  <2>1. /\ k \in Nat /\ k <= n /\ k + 1 \in 1..n /\ k + 1 \in 1..(k + 1)
        /\ \A i \in 1..k : i \in 1..(k + 1) /\ i # k + 1 /\ i \in 1..n
        /\ \A i \in 1..(k + 1) : i \in 1..n
    BY <1>2
  <2>2. IsChoice(Out(k), opts) /\ \A j \in DOMAIN Out(k) : \E i \in 1..k : opts[i].id = Out(k)[j]
    BY <2>1
  <2> HIDE DEF P
  <2>3. /\ Prefix(d, k + 1) \in [1..(k + 1) -> Seq(OptionIds)]
        /\ Prefix(d, k + 1)[k + 1] = d[k + 1]
        /\ Prefix(Prefix(d, k + 1), k) = Prefix(d, k)
    BY <1>4, <2>1 DEF Prefix
  <2>4. Out(k + 1) = Out(k) \o d[k + 1]
    BY <2>1, <2>3, FlattenStep
  <2>5. PICK sel : sel = Out(k)
    OBVIOUS
  <2>6. /\ IsChoice(sel, opts) /\ sel \in Seq(OptionIds)
        /\ \A j \in DOMAIN sel : \E i \in 1..k : opts[i].id = sel[j]
    BY <2>2, <2>5 DEF IsChoice
  <2> HIDE DEF Out
  <2>7. CASE d[k + 1] = <<>>
    <3>1. sel \o <<>> = sel
      BY <2>6
    <3> QED  BY <2>1, <2>4, <2>5, <2>6, <2>7, <3>1
  <2>8. CASE d[k + 1] = <<opts[k + 1].id>>
    <3>1. PICK id : id = opts[k + 1].id
      OBVIOUS
    <3>2. id \in OptionIds /\ \A j \in DOMAIN sel : sel[j] # id
      BY <1>2, <2>1, <2>6, <3>1
    <3>3. sel \o <<id>> = Append(sel, id)
      BY <2>6, <3>2
    <3>4. IsChoice(Append(sel, id), opts)
      BY <1>2, <2>1, <2>6, <3>1, <3>2, ChoiceAppend
    <3>5. ASSUME NEW j \in DOMAIN Append(sel, id)
          PROVE  \E i \in 1..(k + 1) : opts[i].id = Append(sel, id)[j]
      <4>1. Append(sel, id)[j] = id \/ (j \in DOMAIN sel /\ Append(sel, id)[j] = sel[j])
        BY <2>6, <3>2
      <4> QED  BY <2>1, <2>6, <3>1, <4>1
    <3>6. Out(k + 1) = Append(sel, id)
      BY <2>4, <2>5, <2>8, <3>1, <3>3
    <3> QED  BY <3>4, <3>5, <3>6
  <2> QED  BY <1>4, <2>1, <2>7, <2>8
<1>7. P \in SUBSET Nat
  OBVIOUS
<1>8. P = Nat
  <2> HIDE DEF P
  <2> QED  BY <1>5, <1>6, <1>7, NatSetInduction
<1>9. IsChoice(Out(n), opts)
  <2>1. n \in P /\ n <= n
    BY <1>2, <1>8
  <2> QED  BY <2>1
<1>10. Prefix(d, n) = d
  BY <1>4 DEF Prefix
<1> QED  BY <1>2, <1>3, <1>9, <1>10

\* In the sheet: each group has a choice of its options.
SheetInv ==
    /\ quantity \in Int
    /\ DOMAIN selections = DOMAIN Groups
    /\ \A g \in DOMAIN Groups : IsChoice(selections[g], Groups[g].options)

LEMMA GroupFields ==
    ASSUME NEW g \in DOMAIN Groups
    PROVE  /\ Groups[g].options \in Seq(ModifierOption) /\ Groups[g].maxSelect \in Nat
           /\ \A i, j \in DOMAIN Groups[g].options :
                 Groups[g].options[i].id = Groups[g].options[j].id => i = j
           /\ \A i \in DOMAIN Groups[g].options : Groups[g].options[i].id \in OptionIds
<1>1. Groups[g] \in ModifierGroup
  BY PricingConstants
<1>2. Groups[g].options \in Seq(ModifierOption) /\ Groups[g].maxSelect \in Nat
  BY <1>1 DEF ModifierGroup
<1>3. \A i, j \in DOMAIN Groups[g].options :
         Groups[g].options[i].id = Groups[g].options[j].id => i = j
  BY PricingConstants
<1>4. \A i \in DOMAIN Groups[g].options : Groups[g].options[i] \in ModifierOption
  BY <1>2
<1>5. \A i \in DOMAIN Groups[g].options : Groups[g].options[i].id \in OptionIds
  BY <1>4 DEF ModifierOption
<1> QED  BY <1>2, <1>3, <1>5

LEMMA InitialSelections ==
    /\ DOMAIN initializeSelections = DOMAIN Groups
    /\ \A g \in DOMAIN Groups : IsChoice(initializeSelections[g], Groups[g].options)
<1>1. DOMAIN initializeSelections = DOMAIN Groups
  BY DEF initializeSelections
<1>2. ASSUME NEW g \in DOMAIN Groups PROVE IsChoice(initializeSelections[g], Groups[g].options)
  <2>1. PICK opts, ids, m :
          /\ opts = Groups[g].options
          /\ ids = FlattenSeq([i \in DOMAIN opts |->
                                 IF opts[i].isDefault THEN <<opts[i].id>> ELSE <<>>])
          /\ m = IF Len(ids) < Groups[g].maxSelect THEN Len(ids) ELSE Groups[g].maxSelect
    OBVIOUS
  <2>2. initializeSelections[g] = SubSeq(ids, 1, m)
    BY <2>1 DEF initializeSelections
  <2>3. IsChoice(ids, opts)
    BY <2>1, GroupFields, DefaultsAreChoice
  <2>4. Len(ids) \in Nat
    BY <2>3 DEF IsChoice
  <2>5. m \in Nat /\ m <= Len(ids)
    BY <2>1, <2>4, GroupFields
  <2> QED  BY <2>1, <2>2, <2>3, <2>5, ChoicePrefix
<1> QED  BY <1>1, <1>2

LEMMA ToggledChoice ==
    ASSUME SheetInv, NEW g \in DOMAIN Groups, NEW i \in DOMAIN Groups[g].options
    PROVE  IsChoice(toggleOption(g, Groups[g].options[i].id), Groups[g].options)
<1>1. PICK opts, sel, id : opts = Groups[g].options /\ sel = selections[g] /\ id = opts[i].id
  OBVIOUS
<1>2. IsChoice(sel, opts) /\ i \in DOMAIN opts /\ id \in OptionIds
  BY <1>1, GroupFields DEF SheetInv
<1>3. toggleOption(g, id) = IF Contains(sel, id) THEN RemoveFirst(sel, id)
                            ELSE IF Len(sel) < Groups[g].maxSelect THEN Append(sel, id) ELSE sel
  BY <1>1 DEF toggleOption
<1>4. CASE Contains(sel, id)
  <2>1. IsChoice(RemoveFirst(sel, id), opts)
    BY <1>2, <1>4, ChoiceRemove
  <2> QED  BY <1>1, <1>3, <1>4, <2>1
<1>5. CASE ~Contains(sel, id)
  <2>1. \A k \in DOMAIN sel : sel[k] # id
    BY <1>2, <1>5 DEF Contains, IsChoice
  <2>2. IsChoice(Append(sel, id), opts)
    BY <1>1, <1>2, <2>1, ChoiceAppend
  <2> QED  BY <1>1, <1>2, <1>3, <1>5, <2>2
<1> QED  BY <1>4, <1>5

LEMMA SheetStep == SheetInv /\ [PricingNext]_pricingVars => SheetInv'
<1> SUFFICES ASSUME SheetInv, [PricingNext]_pricingVars PROVE SheetInv'
  OBVIOUS
<1>1. ASSUME UNCHANGED selections, quantity' \in Int PROVE SheetInv'
  BY <1>1 DEF SheetInv
<1>2. ASSUME unmount PROVE SheetInv'
  BY <1>2, InitialSelections DEF unmount, SheetInv
<1>3. ASSUME NEW g \in DOMAIN Groups, NEW i \in DOMAIN Groups[g].options, tapOption(g, i)
      PROVE  SheetInv'
  <2>1. PICK t : t = toggleOption(g, Groups[g].options[i].id)
    OBVIOUS
  <2>2. IsChoice(t, Groups[g].options)
    BY <2>1, ToggledChoice
  <2>3. quantity' = quantity /\ selections' = [selections EXCEPT ![g] = t]
    BY <1>3, <2>1 DEF tapOption
  <2>4. /\ DOMAIN selections' = DOMAIN Groups
        /\ \A h \in DOMAIN Groups : selections'[h] = IF h = g THEN t ELSE selections[h]
    BY <2>3 DEF SheetInv
  <2> QED  BY <2>2, <2>3, <2>4 DEF SheetInv
<1>4. CASE setQuantity
  <2>1. quantity' \in Int
    <3>1. quantity \in Int
      BY DEF SheetInv
    <3> QED  BY <1>4, <3>1 DEF setQuantity
  <2> QED  BY <1>1, <1>4, <2>1 DEF setQuantity
<1>5. CASE UNCHANGED <<selections, quantity>>
  BY <1>1, <1>5 DEF SheetInv
<1> QED  BY <1>2, <1>3, <1>4, <1>5
          DEF PricingNext, pricingVars, totalsVars, open, handleAdd, handleClose, CartApp,
              updateLineQuantity, render, workerAnswers

\* The lines of the cart: what useCartTotals reads of them.
Line == [unit : Int, quantity : Int, modifiers : Nat, deltas : Int]

LEMMA ModifiersType ==
    ASSUME SheetInv
    PROVE  /\ buildModifierSelections \in Seq(Int)
           /\ Len(buildModifierSelections) \in Nat /\ Sum(buildModifierSelections) \in Int
           /\ totalCents = (PriceCents + Sum(buildModifierSelections)) * quantity
<1>1. PICK n : n = Len(Groups)
  OBVIOUS
<1>2. n \in Nat /\ DOMAIN Groups = 1..n
  BY <1>1, PricingConstants
<1> DEFINE D(g) == [k \in DOMAIN selections[g] |->
                      Groups[g].options[Find(Groups[g].options, selections[g][k])].priceDeltaCents]
           T(g) == Sum([i \in DOMAIN Groups[g].options |->
                          IF Contains(selections[g], Groups[g].options[i].id)
                          THEN Groups[g].options[i].priceDeltaCents ELSE 0])
<1>3. buildModifierSelections = FlattenSeq([g \in 1..n |-> D(g)])
  BY <1>2 DEF buildModifierSelections, Find
<1>4. totalCents = (PriceCents + Sum([g \in 1..n |-> T(g)])) * quantity
  BY <1>2 DEF totalCents
<1>5. ASSUME NEW g \in 1..n PROVE T(g) = Sum(D(g)) /\ D(g) \in Seq(Int)
  <2>1. PICK opts, sel : opts = Groups[g].options /\ sel = selections[g]
    OBVIOUS
  <2>2. /\ opts \in Seq(ModifierOption) /\ IsChoice(sel, opts)
        /\ \A i, j \in DOMAIN opts : opts[i].id = opts[j].id => i = j
    BY <1>2, <2>1, GroupFields DEF SheetInv
  <2>3. Sum([i \in DOMAIN opts |-> IF Contains(sel, opts[i].id)
                                   THEN opts[i].priceDeltaCents ELSE 0])
          = Sum([k \in DOMAIN sel |-> opts[Find(opts, sel[k])].priceDeltaCents])
    BY <2>2, ChoiceSum
  <2>4. sel \in Seq(OptionIds) /\ Len(sel) \in Nat /\ DOMAIN sel = 1..Len(sel)
    BY <2>2 DEF IsChoice
  <2>5. \A k \in DOMAIN sel : Find(opts, sel[k]) \in DOMAIN opts
    BY <2>2 DEF IsChoice, Find
  <2>6. \A i \in DOMAIN opts : opts[i].priceDeltaCents \in Int
    <3>1. \A i \in DOMAIN opts : opts[i] \in ModifierOption
      BY <2>2
    <3> QED  BY <3>1 DEF ModifierOption
  <2>7. [k \in DOMAIN sel |-> opts[Find(opts, sel[k])].priceDeltaCents] \in [1..Len(sel) -> Int]
    BY <2>4, <2>5, <2>6
  <2>8. [k \in DOMAIN sel |-> opts[Find(opts, sel[k])].priceDeltaCents] \in Seq(Int)
    BY <2>4, <2>7
  <2> QED  BY <2>1, <2>3, <2>8
<1> HIDE DEF D, T
<1>6. PICK s : s = [g \in 1..n |-> D(g)]
  OBVIOUS
<1>7. s \in [1..n -> Seq(Int)] /\ \A g \in 1..n : s[g] = D(g)
  BY <1>5, <1>6
<1>8. Sum(FlattenSeq(s)) = Sum([i \in 1..n |-> Sum(s[i])])
  BY <1>2, <1>7, SumFlatten
<1>9. [i \in 1..n |-> Sum(s[i])] = [g \in 1..n |-> T(g)]
  BY <1>5, <1>7
<1>10. FlattenSeq(s) \in Seq(Int)
  BY <1>2, <1>7, FlattenType
<1>11. PICK f : f = FlattenSeq(s)
  OBVIOUS
<1>12. Len(f) \in Nat /\ f \in [1..Len(f) -> Int]
  BY <1>10, <1>11
<1>13. Sum(f) \in Int
  BY <1>12, SumType
<1> QED  BY <1>3, <1>4, <1>6, <1>8, <1>9, <1>10, <1>11, <1>12, <1>13

LinesInv == lines \in Seq(Line)

LEMMA LinesStep == SheetInv /\ LinesInv /\ [PricingNext]_pricingVars => LinesInv'
<1> SUFFICES ASSUME SheetInv, LinesInv, [PricingNext]_pricingVars PROVE LinesInv'
  OBVIOUS
<1>1. CASE handleAdd
  <2>1. PICK l : l = [unit |-> PriceCents, quantity |-> quantity,
                      modifiers |-> Len(buildModifierSelections),
                      deltas |-> Sum(buildModifierSelections)]
    OBVIOUS
  <2>2. PriceCents \in Int /\ quantity \in Int
    BY PricingConstants DEF SheetInv
  <2>3. l \in Line
    BY <2>1, <2>2, ModifiersType DEF Line
  <2>4. lines' = Append(lines, l)
    BY <1>1, <2>1 DEF handleAdd
  <2> QED  BY <2>3, <2>4 DEF LinesInv
<1>2. CASE CartApp
  <2>1. PICK i \in DOMAIN lines :
          \E q \in {lines[i].quantity - 1, lines[i].quantity + 1, 0} : updateLineQuantity(i, q)
    BY <1>2 DEF CartApp
  <2>2. PICK q \in {lines[i].quantity - 1, lines[i].quantity + 1, 0} : updateLineQuantity(i, q)
    BY <2>1
  <2>3. PICK l : l = lines[i]
    OBVIOUS
  <2>4. l \in Line /\ i \in 1..Len(lines)
    BY <2>3 DEF LinesInv
  <2>5. l.quantity \in Int
    BY <2>4 DEF Line
  <2>6. q \in Int
    BY <2>2, <2>3, <2>5
  <2>7. CASE q <= 0
    <3>1. lines' = RemoveAt(lines, i)
      BY <2>2, <2>7 DEF updateLineQuantity
    <3> QED  BY <2>4, <3>1, RemoveAtFields DEF LinesInv
  <2>8. CASE ~(q <= 0)
    <3>1. PICK m : m = [l EXCEPT !.quantity = q]
      OBVIOUS
    <3>2. m \in Line
      BY <2>4, <2>6, <3>1 DEF Line
    <3>3. lines' = [lines EXCEPT ![i] = m]
      BY <2>2, <2>3, <2>8, <3>1 DEF updateLineQuantity
    <3> QED  BY <3>2, <3>3 DEF LinesInv
  <2> QED  BY <2>7, <2>8
<1>3. CASE UNCHANGED lines
  BY <1>3 DEF LinesInv
<1> QED  BY <1>1, <1>2, <1>3
          DEF PricingNext, pricingVars, totalsVars, open, handleClose, setQuantity, tapOption,
              render, workerAnswers

LEMMA QuoteStep ==
    SheetInv /\ LinesInv /\ [PricingNext]_pricingVars
      => (Len(lines') > Len(lines) => LineCents(Last(lines')) = totalCents)
<1> SUFFICES ASSUME SheetInv, LinesInv, [PricingNext]_pricingVars, Len(lines') > Len(lines)
             PROVE  LineCents(Last(lines')) = totalCents
  OBVIOUS
<1>1. CASE handleAdd
  <2>1. PICK d, l : /\ d = Sum(buildModifierSelections)
                    /\ l = [unit |-> PriceCents, quantity |-> quantity,
                            modifiers |-> Len(buildModifierSelections), deltas |-> d]
    OBVIOUS
  <2>2. lines' = Append(lines, l)
    BY <1>1, <2>1 DEF handleAdd
  <2>3. Last(lines') = l
    BY <2>2 DEF Last, LinesInv
  <2>4. LineCents(l) = quantity * (PriceCents + d)
    BY <2>1 DEF LineCents
  <2>5. totalCents = (PriceCents + d) * quantity
    BY <2>1, ModifiersType
  <2>6. d \in Int /\ PriceCents \in Int /\ quantity \in Int
    BY <2>1, ModifiersType, PricingConstants DEF SheetInv
  <2>7. PICK x, y \in Int : x = quantity /\ y = PriceCents + d
    BY <2>6
  <2>8. x * y = y * x
    OBVIOUS
  <2> QED  BY <2>3, <2>4, <2>5, <2>7, <2>8
<1>2. CASE CartApp
  <2>1. PICK i \in DOMAIN lines :
          \E q \in {lines[i].quantity - 1, lines[i].quantity + 1, 0} : updateLineQuantity(i, q)
    BY <1>2 DEF CartApp
  <2>2. lines' = RemoveAt(lines, i) \/ \E q : lines' = [lines EXCEPT ![i].quantity = q]
    BY <2>1 DEF updateLineQuantity
  <2>3. PICK n : n = Len(lines)
    OBVIOUS
  <2>4. n \in Nat /\ i \in 1..n
    BY <2>3 DEF LinesInv
  <2>5. Len(RemoveAt(lines, i)) = n - 1
    BY <2>3, <2>4, RemoveAtFields DEF LinesInv
  <2>6. \A q : Len([lines EXCEPT ![i].quantity = q]) = n
    BY <2>3 DEF LinesInv
  <2> QED  BY <2>2, <2>3, <2>4, <2>5, <2>6
<1>3. CASE UNCHANGED lines
  <2>1. PICK n : n = Len(lines)
    OBVIOUS
  <2>2. n \in Nat
    BY <2>1 DEF LinesInv
  <2> QED  BY <1>3, <2>1, <2>2
<1> QED  BY <1>1, <1>2, <1>3
          DEF PricingNext, pricingVars, totalsVars, open, handleClose, setQuantity, tapOption,
              render, workerAnswers

LEMMA SheetInit == PricingInit => SheetInv /\ LinesInv
BY InitialSelections DEF PricingInit, SheetInv, LinesInv

\* What the add button of the item sheet shows is what the line it adds to
\* the cart costs: totalCents goes over the options of every group,
\* buildModifierSelections over the chosen ids, and however options are
\* tapped on and off the two come to the same, for every menu item.
THEOREM SheetQuoteIsCharged == PricingSpec => QuoteIsCharged
<1>1. PricingInit => SheetInv /\ LinesInv
  BY SheetInit
<1>2. SheetInv /\ LinesInv /\ [PricingNext]_pricingVars => (SheetInv /\ LinesInv)'
  BY SheetStep, LinesStep
<1>3. SheetInv /\ LinesInv /\ [PricingNext]_pricingVars
        => [Len(lines') > Len(lines) => LineCents(Last(lines')) = totalCents]_pricingVars
  BY QuoteStep
<1> QED  BY <1>1, <1>2, <1>3, PTL DEF PricingSpec, QuoteIsCharged

\* A request of useCartTotals to the worker.
Request == [id : Nat, lines : Seq(Line)]

\* No request carries the number of a cart that is not rendered yet, and of
\* a large cart the request that the hook listens for is for the lines on
\* the screen: under way, or answered.
TotalsInv ==
    /\ edits \in Nat /\ listener \in Nat /\ posted \in Seq(Request)
    /\ listener <= edits /\ \A i \in DOMAIN posted : posted[i].id <= edits
    /\ rendered # lines => /\ listener < edits
                           /\ \A i \in DOMAIN posted : posted[i].id < edits
    /\ complexity(rendered) > Threshold =>
         /\ \A i \in DOMAIN posted : posted[i].id = listener => posted[i].lines = rendered
         /\ \/ \E i \in DOMAIN posted : posted[i].id = listener
            \/ workerTotals = computeCartTotals(rendered, FALSE)

LEMMA RequestFields ==
    ASSUME posted \in Seq(Request)
    PROVE  \A i \in DOMAIN posted : posted[i].id \in Nat
<1>1. \A i \in DOMAIN posted : posted[i] \in Request
  OBVIOUS
<1> QED  BY <1>1 DEF Request

LEMMA TotalsStep == LinesInv /\ TotalsInv /\ [PricingNext]_pricingVars => TotalsInv'
<1> SUFFICES ASSUME LinesInv, TotalsInv, [PricingNext]_pricingVars PROVE TotalsInv'
  OBVIOUS
<1>1. ASSUME UNCHANGED <<lines, edits, rendered, listener, posted, workerTotals>> PROVE TotalsInv'
  BY <1>1 DEF TotalsInv, complexity, computeCartTotals, LineCents, percent
<1>2. ASSUME edits' = edits + 1, UNCHANGED totalsVars PROVE TotalsInv'
  <2>1. PICK big, c : /\ big = (complexity(rendered) > Threshold)
                      /\ c = computeCartTotals(rendered, FALSE)
    OBVIOUS
  <2>2. (complexity(rendered) > Threshold)' = big /\ computeCartTotals(rendered, FALSE)' = c
    BY <1>2, <2>1 DEF totalsVars, complexity, computeCartTotals, LineCents, percent
  <2>3. /\ edits \in Nat /\ listener \in Nat /\ \A i \in DOMAIN posted : posted[i].id \in Nat
        /\ listener <= edits /\ \A i \in DOMAIN posted : posted[i].id <= edits
    BY RequestFields DEF TotalsInv
  <2>4. /\ edits' \in Nat /\ listener < edits'
        /\ \A i \in DOMAIN posted : posted[i].id < edits' /\ posted[i].id <= edits'
        /\ listener <= edits'
    BY <1>2, <2>3
  <2> QED  BY <1>2, <2>1, <2>2, <2>4 DEF TotalsInv, totalsVars
<1>3. CASE render
  <2>1. /\ edits \in Nat /\ listener \in Nat /\ posted \in Seq(Request)
        /\ \A i \in DOMAIN posted : posted[i].id \in Nat
        /\ listener < edits /\ \A i \in DOMAIN posted : posted[i].id < edits
        /\ rendered' = lines /\ lines' = lines /\ edits' = edits
    BY <1>3, RequestFields DEF TotalsInv, render
  <2>2. \A i \in DOMAIN posted : posted[i].id <= edits
    BY <2>1
  <2>3. (complexity(rendered) > Threshold)' <=> complexity(lines) > Threshold
    BY <2>1 DEF complexity
  <2>4. CASE complexity(lines) > Threshold
    <3>1. PICK r : r = [id |-> edits, lines |-> lines]
      OBVIOUS
    <3>2. listener' = edits /\ posted' = Append(posted, r)
      BY <1>3, <2>4, <3>1 DEF render
    <3>3. r \in Request /\ r.id = edits /\ r.lines = lines
      BY <2>1, <3>1 DEF Request, LinesInv
    <3>4. PICK n : n = Len(posted)
      OBVIOUS
    <3>5. n \in Nat /\ DOMAIN posted = 1..n
      BY <2>1, <3>4
    <3>6. /\ posted' \in Seq(Request) /\ DOMAIN posted' = 1..(n + 1)
          /\ posted'[n + 1] = r /\ \A i \in 1..n : posted'[i] = posted[i]
      BY <2>1, <3>2, <3>3, <3>4
    <3>7. n + 1 \in 1..(n + 1) /\ \A i \in 1..(n + 1) : i \in 1..n \/ i = n + 1
      BY <3>5
    <3>8. \A i \in DOMAIN posted' : posted'[i].id <= edits
      BY <2>1, <2>2, <3>3, <3>5, <3>6, <3>7
    <3>9. \A i \in DOMAIN posted' : posted'[i].id = edits => posted'[i].lines = lines
      <4>1. \A i \in 1..n : posted'[i].id # edits
        BY <2>1, <3>5, <3>6
      <4> QED  BY <3>3, <3>6, <3>7, <4>1
    <3>10. \E i \in DOMAIN posted' : posted'[i].id = edits
      BY <3>3, <3>6, <3>7
    <3>11. edits <= edits
      BY <2>1
    <3> QED  BY <2>1, <3>2, <3>6, <3>8, <3>9, <3>10, <3>11 DEF TotalsInv
  <2>5. CASE ~(complexity(lines) > Threshold)
    <3>1. listener' = 0 /\ posted' = posted
      BY <1>3, <2>5 DEF render
    <3>2. 0 <= edits
      BY <2>1
    <3> QED  BY <2>1, <2>2, <2>3, <2>5, <3>1, <3>2 DEF TotalsInv
  <2> QED  BY <2>4, <2>5
<1>4. CASE workerAnswers
  <2>1. PICK big, c : big = (complexity(rendered) > Threshold) /\ c = computeCartTotals(rendered, FALSE)
    OBVIOUS
  <2>2. UNCHANGED <<lines, edits, rendered, listener>>
    BY <1>4 DEF workerAnswers
  <2>3. (complexity(rendered) > Threshold)' = big /\ computeCartTotals(rendered, FALSE)' = c
    BY <2>1, <2>2 DEF complexity, computeCartTotals, LineCents, percent
  <2>4. PICK n, h : n = Len(posted) /\ h = posted[1]
    OBVIOUS
  <2>5. posted \in Seq(Request) /\ posted # <<>> /\ posted' = Tail(posted) /\ Head(posted) = h
    BY <1>4, <2>4 DEF TotalsInv, workerAnswers
  <2>6. n \in Nat /\ n # 0 /\ DOMAIN posted = 1..n /\ 1 \in DOMAIN posted
    BY <2>4, <2>5
  <2>7. /\ posted' \in Seq(Request) /\ DOMAIN posted' = 1..(n - 1)
        /\ \A i \in 1..(n - 1) : posted'[i] = posted[i + 1]
    BY <2>4, <2>5, <2>6
  <2>8. /\ \A i \in 1..(n - 1) : i + 1 \in 1..n
        /\ \A i \in 1..n : i = 1 \/ (i - 1 \in 1..(n - 1) /\ (i - 1) + 1 = i)
    BY <2>6
  <2>9. \A i \in DOMAIN posted' : \E j \in DOMAIN posted : posted'[i] = posted[j]
    BY <2>6, <2>7, <2>8
  <2>10. \A j \in DOMAIN posted : j = 1 \/ \E i \in DOMAIN posted' : posted'[i] = posted[j]
    BY <2>6, <2>7, <2>8
  <2>11. ASSUME big
         PROVE  \/ \E i \in DOMAIN posted' : posted'[i].id = listener
                \/ workerTotals' = c
    <3>1. CASE h.id = listener
      <4>1. h.lines = rendered
        BY <2>1, <2>4, <2>6, <2>11, <3>1 DEF TotalsInv
      <4>2. workerTotals' = computeCartTotals(h.lines, FALSE)
        BY <1>4, <2>5, <3>1 DEF workerAnswers
      <4> QED  BY <2>1, <4>1, <4>2
    <3>2. CASE h.id # listener
      <4>1. workerTotals' = workerTotals
        BY <1>4, <2>5, <3>2 DEF workerAnswers
      <4>2. (\E i \in DOMAIN posted : posted[i].id = listener) \/ workerTotals = c
        BY <2>1, <2>11 DEF TotalsInv
      <4> QED  BY <2>4, <2>10, <3>2, <4>1, <4>2
    <3> QED  BY <3>1, <3>2
  <2>12. /\ \A i \in DOMAIN posted' : posted'[i].id <= edits
         /\ rendered # lines => \A i \in DOMAIN posted' : posted'[i].id < edits
         /\ big => \A i \in DOMAIN posted' : posted'[i].id = listener => posted'[i].lines = rendered
    BY <2>1, <2>9 DEF TotalsInv
  <2>13. /\ edits \in Nat /\ listener \in Nat /\ listener <= edits
         /\ rendered # lines => listener < edits
    BY DEF TotalsInv
  <2> QED  BY <2>2, <2>3, <2>7, <2>11, <2>12, <2>13 DEF TotalsInv
<1> QED  BY <1>1, <1>2, <1>3, <1>4
          DEF PricingNext, pricingVars, totalsVars, open, handleAdd, handleClose, setQuantity,
              tapOption, CartApp, updateLineQuantity

LEMMA TotalsShown == TotalsInv => TotalIsCurrentOrAwaited
BY DEF TotalsInv, TotalIsCurrentOrAwaited, shownTotal

LEMMA TotalsInit == PricingInit => TotalsInv
<1> SUFFICES ASSUME PricingInit PROVE TotalsInv
  OBVIOUS
<1>1. /\ edits = 0 /\ listener = 0 /\ posted = <<>> /\ rendered = lines /\ rendered = <<>>
  BY DEF PricingInit
<1>2. complexity(rendered) = 0
  <2>1. PICK s : s = [i \in DOMAIN rendered |-> 1 + rendered[i].modifiers]
    OBVIOUS
  <2>2. DOMAIN s = 1..0
    BY <1>1, <2>1
  <2>3. Sum(s) = 0
    BY <2>2, SumEmpty
  <2> QED  BY <2>1, <2>3 DEF complexity
<1>3. ~(complexity(rendered) > Threshold)
  BY <1>2, PricingConstants
<1>4. posted \in Seq(Request) /\ DOMAIN posted = {}
  BY <1>1
<1>5. edits \in Nat /\ listener \in Nat /\ listener <= edits
  BY <1>1
<1> QED  BY <1>1, <1>3, <1>4, <1>5 DEF TotalsInv

\* useCartTotals never shows the total of an earlier cart for good: what it
\* shows is the total of the lines on the screen, or the worker still owes
\* the answer to the request the hook listens for, and that request is for
\* these lines. It holds for any number of requests under way.
THEOREM TotalsFollowTheCart == PricingSpec => []TotalIsCurrentOrAwaited
<1> DEFINE I == SheetInv /\ LinesInv /\ TotalsInv
<1>1. PricingInit => I
  BY SheetInit, TotalsInit
<1>2. I /\ [PricingNext]_pricingVars => I'
  BY SheetStep, LinesStep, TotalsStep
<1>3. I => TotalIsCurrentOrAwaited
  BY TotalsShown
<1> QED  BY <1>1, <1>2, <1>3, PTL DEF PricingSpec

-----------------------------------------------------------------------------
(* The catalogue *)

LEMMA ConcatParts ==
    ASSUME NEW S, NEW c \in Seq(S), NEW a \in Nat, NEW b \in Nat, a <= b, b <= Len(c)
    PROVE  SubSeq(c, 1, a) \o SubSeq(c, a + 1, b) = SubSeq(c, 1, b)
<1>1. PICK x, y, z : x = SubSeq(c, 1, a) /\ y = SubSeq(c, a + 1, b) /\ z = SubSeq(c, 1, b)
  OBVIOUS
<1>2. x \in Seq(S) /\ Len(x) = a /\ \A j \in 1..a : x[j] = c[j]
  BY <1>1
<1>3. z \in Seq(S) /\ Len(z) = b /\ DOMAIN z = 1..b /\ \A j \in 1..b : z[j] = c[j]
  BY <1>1
<1>4. y \in Seq(S) /\ Len(y) = b - a /\ \A j \in 1..(b - a) : y[j] = c[j + a]
  <2>1. SubSeq(c, a + 1, b) = [j \in 1..((b - (a + 1)) + 1) |-> c[((a + 1) + j) - 1]]
    OBVIOUS
  <2>2. /\ (b - (a + 1)) + 1 = b - a /\ b - a \in Nat
        /\ \A j \in 1..(b - a) : ((a + 1) + j) - 1 = j + a /\ j + a \in 1..Len(c)
    OBVIOUS
  <2>3. y = [j \in 1..(b - a) |-> c[j + a]]
    BY <1>1, <2>1, <2>2
  <2>4. \A j \in 1..(b - a) : c[j + a] \in S
    BY <2>2
  <2> QED  BY <2>2, <2>3, <2>4
<1>5. PICK t : t = x \o y
  OBVIOUS
<1>6. Len(x) + Len(y) = b
  BY <1>2, <1>4
<1>7. /\ t \in Seq(S) /\ DOMAIN t = 1..b
      /\ \A j \in 1..a : t[j] = x[j]
      /\ \A j \in 1..b : j > a => t[j] = y[j - a] /\ j - a \in 1..(b - a)
  <2>1. /\ t \in Seq(S) /\ DOMAIN t = 1..(Len(x) + Len(y))
        /\ \A j \in 1..Len(x) : t[j] = x[j]
        /\ \A j \in 1..(Len(x) + Len(y)) :
              j > Len(x) => t[j] = y[j - Len(x)] /\ j - Len(x) \in 1..Len(y)
    <3>1. x \in Seq(S) /\ y \in Seq(S)
      BY <1>2, <1>4
    <3> QED  BY <1>5, <3>1, ConcatAt
  <2> QED  BY <1>2, <1>4, <1>6, <2>1
<1>8. ASSUME NEW j \in 1..b PROVE t[j] = z[j]
  <2>1. CASE j <= a
    <3>1. j \in 1..a
      BY <2>1
    <3> QED  BY <1>2, <1>3, <1>7, <3>1
  <2>2. CASE j > a
    <3>1. t[j] = y[j - a] /\ j - a \in 1..(b - a) /\ (j - a) + a = j
      BY <1>7, <2>2
    <3> QED  BY <1>3, <1>4, <3>1
  <2> QED  BY <2>1, <2>2
<1>9. t = z
  BY <1>3, <1>7, <1>8
<1> QED  BY <1>1, <1>5, <1>9

LEMMA PageCount ==
    ASSUME NEW n \in Nat, NEW size \in Nat \ {0}
    PROVE  LET last == (n + size - 1) \div size
           IN  last \in Nat /\ n <= last * size /\ last * size < n + size
<1>1. PICK x : x = n + size - 1
  OBVIOUS
<1>2. x \in Nat /\ size \in Int /\ size > 0
  BY <1>1
<1>3. PICK last : last = x \div size
  OBVIOUS
<1>4. last \in Int /\ x = size * last + (x % size) /\ x % size \in 0..(size - 1)
  BY <1>2, <1>3
<1>5. PICK r, m \in Int : r = x % size /\ m = size * last
  BY <1>2, <1>4
<1>6. m = last * size /\ x = m + r /\ 0 <= r /\ r <= size - 1
  BY <1>2, <1>4, <1>5
<1>7. n <= m /\ m < n + size
  BY <1>1, <1>2, <1>6
<1>8. last \in Nat
  <2>1. last >= 0 \/ last * size <= 0 - size
    BY <1>2, <1>4
  <2>2. last >= 0
    BY <1>2, <1>4, <1>6, <1>7, <2>1
  <2> QED  BY <1>4, <2>2
<1> QED  BY <1>1, <1>3, <1>6, <1>7, <1>8

\* The pages, one after the other, are the catalogue.
LEMMA PagesMakeCatalogue ==
    ASSUME NEW S, NEW c \in Seq(S), NEW size \in Nat \ {0},
           NEW last \in Nat, Len(c) <= last * size, last * size < Len(c) + size,
           NEW pg \in [1..last -> Seq(S)],
           \A p \in 1..last : pg[p] = SubSeq(c, (p - 1) * size + 1,
                                             IF p * size < Len(c) THEN p * size ELSE Len(c))
    PROVE  FlattenSeq(pg) = c
<1>1. PICK n : n = Len(c)
  OBVIOUS
<1>2. n \in Nat /\ size \in Nat /\ size > 0
  BY <1>1
<1> DEFINE cut(k) == IF k * size < n THEN k * size ELSE n
           P == {k \in Nat : k <= last => FlattenSeq(Prefix(pg, k)) = SubSeq(c, 1, cut(k))}
<1>3. 0 \in P
  <2>1. Prefix(pg, 0) \in [1..0 -> Seq(S)]
    BY DEF Prefix
  <2>2. FlattenSeq(Prefix(pg, 0)) = <<>>
    BY <2>1, FlattenEmpty
  <2>3. cut(0) = 0
    BY <1>2
  <2>4. SubSeq(c, 1, 0) = <<>>
    OBVIOUS
  <2> QED  BY <2>2, <2>3, <2>4
<1>4. ASSUME NEW k \in P PROVE k + 1 \in P
  <2> SUFFICES ASSUME k + 1 <= last
               PROVE  FlattenSeq(Prefix(pg, k + 1)) = SubSeq(c, 1, cut(k + 1))
    OBVIOUS
  <2>1. /\ k \in Nat /\ k <= last /\ k + 1 \in 1..last /\ (k + 1) - 1 = k
        /\ \A i \in 1..k : i \in 1..(k + 1) /\ i \in 1..last
        /\ \A i \in 1..(k + 1) : i \in 1..last
        /\ k + 1 \in 1..(k + 1)
    OBVIOUS
  <2>2. FlattenSeq(Prefix(pg, k)) = SubSeq(c, 1, cut(k))
    BY <2>1
  <2> HIDE DEF P
  <2>3. PICK a \in Nat : a = k * size
    BY <1>2, <2>1
  <2>4. (k + 1) * size = a + size
    BY <1>2, <2>1, <2>3
  <2>5. a < n
    <3>1. PICK d \in Nat : last = (k + 1) + d
      <4>1. last - (k + 1) \in Nat /\ last = (k + 1) + (last - (k + 1))
        BY <2>1
      <4> QED  BY <4>1
    <3>2. last * size = (k + 1) * size + d * size /\ d * size >= 0 /\ d * size \in Nat
      BY <1>2, <2>1, <3>1
    <3>3. PICK e \in Nat : e = d * size
      BY <3>2
    <3>4. (a + size) + e < n + size
      BY <1>1, <2>4, <3>2, <3>3
    <3> QED  BY <1>2, <3>4
  <2>6. PICK b : b = cut(k + 1)
    OBVIOUS
  <2>7. b \in Nat /\ a <= b /\ b <= n
    BY <1>2, <2>4, <2>5, <2>6
  <2>8. cut(k) = a
    BY <2>3, <2>5
  <2>9. pg[k + 1] = SubSeq(c, a + 1, b)
    BY <1>1, <2>1, <2>3, <2>6
  <2> HIDE DEF cut
  <2>10. /\ Prefix(pg, k + 1) \in [1..(k + 1) -> Seq(S)]
         /\ Prefix(pg, k + 1)[k + 1] = pg[k + 1]
         /\ Prefix(Prefix(pg, k + 1), k) = Prefix(pg, k)
    BY <2>1 DEF Prefix
  <2>11. FlattenSeq(Prefix(pg, k + 1)) = FlattenSeq(Prefix(pg, k)) \o pg[k + 1]
    BY <2>1, <2>10, FlattenStep
  <2>12. SubSeq(c, 1, a) \o SubSeq(c, a + 1, b) = SubSeq(c, 1, b)
    BY <1>1, <2>7, ConcatParts
  <2> QED  BY <2>2, <2>6, <2>8, <2>9, <2>11, <2>12
<1>5. P \in SUBSET Nat
  OBVIOUS
<1>6. P = Nat
  <2> HIDE DEF P
  <2> QED  BY <1>3, <1>4, <1>5, NatSetInduction
<1>7. FlattenSeq(Prefix(pg, last)) = SubSeq(c, 1, cut(last))
  <2>1. last <= last
    OBVIOUS
  <2>2. last \in P
    <3> HIDE DEF P
    <3> QED  BY <1>6
  <2> QED  BY <2>1, <2>2
<1>8. cut(last) = n
  <2>1. PICK m \in Nat : m = last * size
    BY <1>2
  <2> QED  BY <1>1, <1>2, <2>1
<1>9. SubSeq(c, 1, n) = c
  BY <1>1
<1>10. Prefix(pg, last) = pg
  BY DEF Prefix
<1> QED  BY <1>7, <1>8, <1>9, <1>10

LastOf(c) == (Len(c) + PageSize - 1) \div PageSize

PageOf(c, p) == SubSeq(c, (p - 1) * PageSize + 1,
                       IF p * PageSize < Len(c) THEN p * PageSize ELSE Len(c))

RequestDomain == {"route", "step", "pages", "whole", "since", "answer"}

\* A request that has missed no change holds pages of the catalogue c, each
\* in its place.
ReadOf(q, c, n) ==
    /\ DOMAIN q = RequestDomain
    /\ q.since \in Nat /\ q.since <= n
    /\ q.step = "pages" /\ q.whole /\ q.since = n =>
         /\ q.pages = [p \in 1..LastOf(c) |-> q.pages[p]]
         /\ \A p \in 1..LastOf(c) : q.pages[p] \in {Waiting, PageOf(c, p)}

CatalogueInv ==
    /\ catalogue \in Catalogues /\ changes \in Nat
    /\ \E S : requests \in Seq(S)
    /\ \A r \in DOMAIN requests : ReadOf(requests[r], catalogue, changes)

LEMMA RequestChange ==
    ASSUME CatalogueInv, UNCHANGED <<catalogue, changes>>, NEW r \in DOMAIN requests, NEW q,
           requests' = [requests EXCEPT ![r] = q], ReadOf(q, catalogue, changes)
    PROVE  CatalogueInv'
<1>1. PICK S : requests \in Seq(S)
  BY DEF CatalogueInv
<1>2. requests \in Seq(S \union {q}) /\ q \in S \union {q}
  BY <1>1
<1>3. requests' \in Seq(S \union {q}) /\ DOMAIN requests' = DOMAIN requests
  BY <1>2
<1>4. \A s \in DOMAIN requests : requests'[s] = IF s = r THEN q ELSE requests[s]
  BY <1>1
<1>5. \A s \in DOMAIN requests' : ReadOf(requests'[s], catalogue, changes)
  BY <1>3, <1>4 DEF CatalogueInv
<1> QED  BY <1>3, <1>5 DEF CatalogueInv

LEMMA AnswerChange ==
    ASSUME CatalogueInv, UNCHANGED <<catalogue, changes>>, NEW r \in DOMAIN requests, NEW reply,
           Answer(r, reply)
    PROVE  CatalogueInv' /\ requests'[r].answer = <<reply>>
<1>1. PICK q, m : q = requests[r] /\ m = [q EXCEPT !.step = "done", !.answer = <<reply>>]
  OBVIOUS
<1>2. requests' = [requests EXCEPT ![r] = m]
  BY <1>1 DEF Answer
<1>3. ReadOf(q, catalogue, changes)
  BY <1>1 DEF CatalogueInv
<1>4. DOMAIN q = RequestDomain
  BY <1>3 DEF ReadOf
<1>5. DOMAIN m = RequestDomain /\ m.step = "done" /\ m.answer = <<reply>> /\ m.since = q.since
  BY <1>1, <1>4 DEF RequestDomain
<1>6. ReadOf(m, catalogue, changes)
  BY <1>3, <1>5 DEF ReadOf
<1>7. CatalogueInv'
  BY <1>2, <1>6, RequestChange
<1> QED  BY <1>2, <1>5, <1>7

LEMMA PagesNow == lastPage = LastOf(catalogue) /\ \A p : Page(p) = PageOf(catalogue, p)
BY DEF lastPage, LastOf, Page, PageOf

LEMMA CatalogueStep == CatalogueInv /\ [CatalogueNext]_catalogueVars => CatalogueInv'
<1> SUFFICES ASSUME CatalogueInv, [CatalogueNext]_catalogueVars PROVE CatalogueInv'
  OBVIOUS
<1>1. CASE UNCHANGED <<catalogue, changes, requests>>
  BY <1>1 DEF CatalogueInv
<1>2. CASE change
  <2>1. catalogue' \in Catalogues /\ changes' = changes + 1 /\ requests' = requests
    BY <1>2 DEF change
  <2>2. changes \in Nat /\ changes' \in Nat
    BY <2>1 DEF CatalogueInv
  <2>3. ASSUME NEW r \in DOMAIN requests PROVE ReadOf(requests[r], catalogue', changes')
    <3>1. PICK q : q = requests[r]
      OBVIOUS
    <3>2. DOMAIN q = RequestDomain /\ q.since \in Nat /\ q.since <= changes
      BY <3>1 DEF CatalogueInv, ReadOf
    <3>3. q.since <= changes' /\ q.since # changes'
      BY <2>1, <2>2, <3>2
    <3> QED  BY <3>1, <3>2, <3>3 DEF ReadOf
  <2> QED  BY <2>1, <2>2, <2>3 DEF CatalogueInv
<1>3. ASSUME NEW route \in Routes, request(route) PROVE CatalogueInv'
  <2>1. PICK q : q = [route |-> route, step |-> "cache", pages |-> <<>>, whole |-> TRUE,
                      since |-> changes, answer |-> <<>>]
    OBVIOUS
  <2>2. requests' = Append(requests, q) /\ UNCHANGED <<catalogue, changes>>
    BY <1>3, <2>1 DEF request
  <2>3. PICK S : requests \in Seq(S)
    BY DEF CatalogueInv
  <2>4. changes \in Nat /\ changes <= changes
    BY DEF CatalogueInv
  <2>5. DOMAIN q = RequestDomain /\ q.since = changes /\ q.step = "cache"
    BY <2>1 DEF RequestDomain
  <2>6. ReadOf(q, catalogue, changes)
    BY <2>4, <2>5 DEF ReadOf
  <2>7. requests \in Seq(S \union {q}) /\ q \in S \union {q}
    BY <2>3
  <2>8. requests' \in Seq(S \union {q})
    BY <2>2, <2>7
  <2>9. \A s \in DOMAIN requests' : requests'[s] = q \/ (s \in DOMAIN requests /\ requests'[s] = requests[s])
    BY <2>2, <2>7
  <2>10. \A s \in DOMAIN requests' : ReadOf(requests'[s], catalogue, changes)
    BY <2>6, <2>9 DEF CatalogueInv
  <2> QED  BY <2>2, <2>4, <2>8, <2>10 DEF CatalogueInv
<1>4. ASSUME NEW r \in DOMAIN requests,
             \/ lookup(r) \/ firstPage(r) \/ doFetchAllProducts(r)
             \/ \E p \in 2..Len(requests[r].pages) : nextPage(r, p)
      PROVE  CatalogueInv'
  <2>1. UNCHANGED <<catalogue, changes>>
    BY <1>4 DEF lookup, firstPage, doFetchAllProducts, nextPage
  <2>2. CASE \E reply : Answer(r, reply)
    BY <2>1, <2>2, AnswerChange
  <2>3. PICK q : q = requests[r]
    OBVIOUS
  <2>4. ReadOf(q, catalogue, changes) /\ DOMAIN q = RequestDomain /\ q.since \in Nat
    BY <2>3 DEF CatalogueInv, ReadOf
  <2>5. CASE requests' = [requests EXCEPT ![r].step = "first", ![r].since = changes]
    <3>1. PICK m : m = [q EXCEPT !.step = "first", !.since = changes]
      OBVIOUS
    <3>2. requests' = [requests EXCEPT ![r] = m]
      BY <2>3, <2>5, <3>1
    <3>3. DOMAIN m = RequestDomain /\ m.step = "first" /\ m.since = changes
      BY <2>4, <3>1 DEF RequestDomain
    <3>4. changes \in Nat /\ changes <= changes
      BY DEF CatalogueInv
    <3>5. ReadOf(m, catalogue, changes)
      BY <3>3, <3>4 DEF ReadOf
    <3> QED  BY <2>1, <3>2, <3>5, RequestChange
  <2>6. CASE /\ firstPage(r) /\ ~\E reply : Answer(r, reply)
             /\ requests' # [requests EXCEPT ![r].step = "pages", ![r].pages = <<<<>>>>,
                                            ![r].whole = FALSE]
    <3>1. PICK pg : pg = [p \in 1..LastOf(catalogue) |-> IF p = 1 THEN PageOf(catalogue, 1) ELSE Waiting]
      OBVIOUS
    <3>2. PICK m : m = [q EXCEPT !.step = "pages", !.pages = pg]
      OBVIOUS
    <3>3. [p \in 1..lastPage |-> IF p = 1 THEN Page(1) ELSE Waiting] = pg
      BY <3>1, PagesNow
    <3>4. requests' = [requests EXCEPT ![r] = m]
      BY <2>3, <2>6, <3>2, <3>3 DEF firstPage
    <3>5. DOMAIN m = RequestDomain /\ m.since = q.since /\ m.pages = pg
      BY <2>4, <3>2 DEF RequestDomain
    <3>6. /\ pg = [p \in 1..LastOf(catalogue) |-> pg[p]]
          /\ \A p \in 1..LastOf(catalogue) : pg[p] \in {Waiting, PageOf(catalogue, p)}
      BY <3>1
    <3>7. ReadOf(m, catalogue, changes)
      BY <2>4, <3>5, <3>6 DEF ReadOf
    <3> QED  BY <2>1, <3>4, <3>7, RequestChange
  <2>10. CASE requests' = [requests EXCEPT ![r].step = "pages", ![r].pages = <<<<>>>>,
                                           ![r].whole = FALSE]
    <3>1. PICK m : m = [q EXCEPT !.step = "pages", !.pages = <<<<>>>>, !.whole = FALSE]
      OBVIOUS
    <3>2. requests' = [requests EXCEPT ![r] = m]
      BY <2>3, <2>10, <3>1
    <3>3. DOMAIN m = RequestDomain /\ m.since = q.since /\ m.whole = FALSE
      BY <2>4, <3>1 DEF RequestDomain
    <3>4. ReadOf(m, catalogue, changes)
      BY <2>4, <3>3 DEF ReadOf
    <3> QED  BY <2>1, <3>2, <3>4, RequestChange
  <2>7. ASSUME NEW p \in 2..Len(requests[r].pages), nextPage(r, p), ~\E reply : Answer(r, reply)
        PROVE  CatalogueInv'
    <3>1. CASE requests' = [requests EXCEPT ![r].pages[p] = Page(p)]
      <4>1. PICK pg, m : /\ pg = [q.pages EXCEPT ![p] = PageOf(catalogue, p)]
                         /\ m = [q EXCEPT !.pages = pg]
        OBVIOUS
      <4>2. requests' = [requests EXCEPT ![r] = m]
        BY <2>3, <3>1, <4>1, PagesNow
      <4>3. /\ DOMAIN m = RequestDomain /\ m.since = q.since /\ m.pages = pg
            /\ m.step = q.step /\ m.whole = q.whole
        BY <2>4, <4>1 DEF RequestDomain
      <4>4. ASSUME q.pages = [x \in 1..LastOf(catalogue) |-> q.pages[x]],
                   \A x \in 1..LastOf(catalogue) : q.pages[x] \in {Waiting, PageOf(catalogue, x)}
            PROVE  /\ pg = [x \in 1..LastOf(catalogue) |-> pg[x]]
                   /\ \A x \in 1..LastOf(catalogue) : pg[x] \in {Waiting, PageOf(catalogue, x)}
        <5>1. PICK L, old : L = LastOf(catalogue) /\ old = q.pages
          OBVIOUS
        <5>2. DOMAIN old = 1..L
          BY <4>4, <5>1
        <5>3. /\ pg = [x \in 1..L |-> pg[x]]
              /\ \A x \in 1..L : pg[x] = IF x = p THEN PageOf(catalogue, p) ELSE old[x]
          BY <4>1, <5>1, <5>2
        <5> QED  BY <4>4, <5>1, <5>3
      <4>5. ReadOf(m, catalogue, changes)
        BY <2>4, <4>3, <4>4 DEF ReadOf
      <4> QED  BY <2>1, <4>2, <4>5, RequestChange
    <3>2. CASE requests' = [requests EXCEPT ![r].pages[p] = <<>>, ![r].whole = FALSE]
      <4>1. PICK pg, m : /\ pg = [q.pages EXCEPT ![p] = <<>>]
                         /\ m = [q EXCEPT !.pages = pg, !.whole = FALSE]
        OBVIOUS
      <4>2. requests' = [requests EXCEPT ![r] = m]
        BY <2>3, <3>2, <4>1
      <4>3. DOMAIN m = RequestDomain /\ m.since = q.since /\ m.whole = FALSE
        BY <2>4, <4>1 DEF RequestDomain
      <4>4. ReadOf(m, catalogue, changes)
        BY <2>4, <4>3 DEF ReadOf
      <4> QED  BY <2>1, <4>2, <4>4, RequestChange
    <3> QED  BY <2>7, <3>1, <3>2 DEF nextPage
  <2>8. CASE lookup(r)
    <3>1. (\E reply : Answer(r, reply))
            \/ requests' = [requests EXCEPT ![r].step = "first", ![r].since = changes]
      BY <2>8 DEF lookup
    <3> QED  BY <2>2, <2>5, <3>1
  <2>9. CASE doFetchAllProducts(r)
    BY <2>2, <2>9 DEF doFetchAllProducts
  <2> QED  BY <1>4, <2>2, <2>6, <2>7, <2>8, <2>9, <2>10
<1> QED  BY <1>1, <1>2, <1>3, <1>4
          DEF CatalogueNext, catalogueVars, expire, profile, RequestStep

LEMMA QuietStep ==
    CatalogueInv /\ [CatalogueNext]_catalogueVars =>
      \A r \in DOMAIN requests :
        /\ requests[r].step = "pages" /\ requests'[r].step = "done"
        /\ requests[r].whole /\ requests[r].since = changes
        /\ requests'[r].answer # <<Failed>>
        => requests'[r].answer[1] = Reply(r, catalogue)
<1> SUFFICES ASSUME CatalogueInv, [CatalogueNext]_catalogueVars, NEW r \in DOMAIN requests,
                    requests[r].step = "pages", requests'[r].step = "done",
                    requests[r].whole, requests[r].since = changes,
                    requests'[r].answer # <<Failed>>
             PROVE  requests'[r].answer[1] = Reply(r, catalogue)
  OBVIOUS
<1>1. PICK S : requests \in Seq(S)
  BY DEF CatalogueInv
<1>2. CASE doFetchAllProducts(r)
  <2>1. PICK q, all : q = requests[r] /\ all = FlattenSeq(requests[r].pages)
    OBVIOUS
  <2>2. /\ UNCHANGED <<catalogue, changes>> /\ Answer(r, Reply(r, all))
        /\ \A p \in DOMAIN q.pages : q.pages[p] # Waiting
    BY <1>2, <2>1 DEF doFetchAllProducts
  <2>3. requests'[r].answer = <<Reply(r, all)>>
    BY <2>2, AnswerChange
  <2>4. PICK c, L : c = catalogue /\ L = LastOf(c)
    OBVIOUS
  <2>5. /\ q.pages = [p \in 1..L |-> q.pages[p]]
        /\ \A p \in 1..L : q.pages[p] \in {Waiting, PageOf(c, p)}
    BY <2>1, <2>4 DEF CatalogueInv, ReadOf
  <2>6. PICK pg : pg = q.pages
    OBVIOUS
  <2>7. DOMAIN pg = 1..L /\ \A p \in 1..L : pg[p] = PageOf(c, p)
    BY <2>2, <2>5, <2>6
  <2>8. c \in Seq(AndinoProduct) /\ PageSize \in Nat \ {0} /\ Len(c) \in Nat
    BY <2>4, CatalogueConstants DEF CatalogueInv
  <2>9. L \in Nat /\ Len(c) <= L * PageSize /\ L * PageSize < Len(c) + PageSize
    BY <2>4, <2>8, PageCount DEF LastOf
  <2>10. ASSUME NEW p \in 1..L PROVE PageOf(c, p) \in Seq(AndinoProduct)
    <3>1. PICK a, b : /\ a = (p - 1) * PageSize + 1
                      /\ b = IF p * PageSize < Len(c) THEN p * PageSize ELSE Len(c)
      OBVIOUS
    <3>2. (p - 1) * PageSize \in Nat /\ p * PageSize \in Nat
      BY <2>8, <2>9
    <3>3. a \in Nat /\ a >= 1 /\ b \in Nat /\ b <= Len(c)
      BY <2>8, <3>1, <3>2
    <3>4. SubSeq(c, a, b) \in Seq(AndinoProduct)
      BY <2>8, <3>3
    <3> QED  BY <3>1, <3>4 DEF PageOf
  <2>11. pg \in [1..L -> Seq(AndinoProduct)]
    BY <2>5, <2>6, <2>7, <2>10
  <2>12. FlattenSeq(pg) = c
    <3>1. \A p \in 1..L : pg[p] = SubSeq(c, (p - 1) * PageSize + 1,
                                 IF p * PageSize < Len(c) THEN p * PageSize ELSE Len(c))
      BY <2>7 DEF PageOf
    <3> QED  BY <2>8, <2>9, <2>11, <3>1, PagesMakeCatalogue
  <2> QED  BY <2>1, <2>3, <2>4, <2>6, <2>12
<1>3. CASE \E p \in 2..Len(requests[r].pages) : nextPage(r, p)
  <2>1. PICK p \in 2..Len(requests[r].pages) : nextPage(r, p)
    BY <1>3
  <2>2. PICK q : q = requests[r]
    OBVIOUS
  <2>3. DOMAIN q = RequestDomain /\ q.step = "pages"
    BY <2>2 DEF CatalogueInv, ReadOf
  <2>4. requests' # [requests EXCEPT ![r].pages[p] = Page(p)]
    <3> SUFFICES ASSUME requests' = [requests EXCEPT ![r].pages[p] = Page(p)] PROVE FALSE
      OBVIOUS
    <3>1. PICK m : m = [q EXCEPT !.pages[p] = Page(p)]
      OBVIOUS
    <3>2. requests'[r] = m
      BY <1>1, <2>2, <3>1
    <3>3. m.step = "pages"
      BY <2>3, <3>1
    <3> QED  BY <3>2, <3>3
  <2>5. requests' # [requests EXCEPT ![r].pages[p] = <<>>, ![r].whole = FALSE]
    <3> SUFFICES ASSUME requests' = [requests EXCEPT ![r].pages[p] = <<>>, ![r].whole = FALSE]
                 PROVE FALSE
      OBVIOUS
    <3>1. PICK m : m = [q EXCEPT !.pages[p] = <<>>, !.whole = FALSE]
      OBVIOUS
    <3>2. requests'[r] = m
      BY <1>1, <2>2, <3>1
    <3>3. m.step = "pages"
      BY <2>3, <3>1
    <3> QED  BY <3>2, <3>3
  <2>6. Answer(r, Failed) /\ UNCHANGED <<catalogue, changes>>
    BY <2>1, <2>4, <2>5 DEF nextPage
  <2> QED  BY <2>6, AnswerChange
<1>4. CASE UNCHANGED requests
  BY <1>4
<1>5. ASSUME NEW route \in Routes, request(route) PROVE FALSE
  <2>1. PICK q : requests' = Append(requests, q)
    BY <1>5 DEF request
  <2>2. requests \in Seq(S \union {q}) /\ q \in S \union {q}
    BY <1>1
  <2>3. requests'[r] = requests[r]
    BY <2>1, <2>2
  <2> QED  BY <2>3
<1>6. ASSUME NEW s \in DOMAIN requests, s # r,
             \/ lookup(s) \/ firstPage(s) \/ doFetchAllProducts(s)
             \/ \E p \in 2..Len(requests[s].pages) : nextPage(s, p)
      PROVE  FALSE
  <2>1. \E q : requests' = [requests EXCEPT ![s] = q]
    BY <1>6 DEF lookup, firstPage, doFetchAllProducts, nextPage, Answer
  <2>2. requests'[r] = requests[r]
    BY <1>1, <1>6, <2>1
  <2> QED  BY <2>2
<1>7. ~lookup(r) /\ ~firstPage(r)
  BY DEF lookup, firstPage
<1> QED  BY <1>2, <1>3, <1>4, <1>5, <1>6, <1>7
          DEF CatalogueNext, catalogueVars, change, expire, profile, RequestStep

\* fetchAllProducts reads the whole catalogue: a request that saw no page
\* fail and no change of the catalogue while it read ends with exactly the
\* products of the catalogue, in their order, for every catalogue, page size
\* and number of requests at once.
THEOREM CatalogueReadIsComplete == CatalogueSpec => QuietReadIsComplete
<1>1. CatalogueInit => CatalogueInv
  <2> SUFFICES ASSUME CatalogueInit PROVE CatalogueInv
    OBVIOUS
  <2>1. catalogue \in Catalogues /\ changes = 0 /\ requests = <<>>
    BY DEF CatalogueInit
  <2>2. requests \in Seq({}) /\ DOMAIN requests = {}
    BY <2>1
  <2> QED  BY <2>1, <2>2 DEF CatalogueInv
<1>2. CatalogueInv /\ [CatalogueNext]_catalogueVars => CatalogueInv'
  BY CatalogueStep
<1>3. CatalogueInv /\ [CatalogueNext]_catalogueVars =>
        [\A r \in DOMAIN requests :
           /\ requests[r].step = "pages" /\ requests'[r].step = "done"
           /\ requests[r].whole /\ requests[r].since = changes
           /\ requests'[r].answer # <<Failed>>
           => requests'[r].answer[1] = Reply(r, catalogue)]_catalogueVars
  BY QuietStep
<1> QED  BY <1>1, <1>2, <1>3, PTL DEF CatalogueSpec, QuietReadIsComplete

-----------------------------------------------------------------------------
(* Rows *)

LEMMA TogetherAt ==
    ASSUME NEW parts, NEW f \in parts, NEW t \in DOMAIN f,
           \A g \in parts : t \in DOMAIN g => g = f
    PROVE  t \in DOMAIN Together(parts) /\ Together(parts)[t] = f[t]
<1>1. t \in UNION {DOMAIN g : g \in parts}
  OBVIOUS
<1>2. (CHOOSE g \in parts : t \in DOMAIN g) = f
  OBVIOUS
<1> QED  BY <1>1, <1>2 DEF Together

LEMMA TogetherDomain ==
    ASSUME NEW parts
    PROVE  \A t : t \in DOMAIN Together(parts) <=> \E f \in parts : t \in DOMAIN f
BY DEF Together

LEMMA ZodParts ==
    /\ DOMAIN zodStoreRows = { "tenants", "locations", "lanes", "stores", "kiosks" }
    /\ DOMAIN zodMenuRows = { "categories", "items", "modifierGroups", "modifierOptions",
                                    "itemModifierGroups" }
    /\ DOMAIN zodStockRows = { "inventory", "inventoryTransactions", "inventoryReservations" }
    /\ DOMAIN zodCartRows = { "carts", "cartLines" }
    /\ DOMAIN zodOrderRows = { "orders", "orderItems" }
    /\ DOMAIN zodPaymentRows = { "payments", "refunds", "offlineTokens" }
    /\ DOMAIN zodPeopleRows = { "employees", "roles", "permissions", "rolePermissions",
                                      "users" }
    /\ DOMAIN zodLogRows = { "auditLogs", "eventStore", "outboxEvents", "syncEvents",
                                   "analyticsEvents" }
BY DEF zodStoreRows, zodMenuRows, zodStockRows, zodCartRows, zodOrderRows, zodPaymentRows,
       zodPeopleRows, zodLogRows

LEMMA DomainParts ==
    /\ DOMAIN domainStoreRows = { "tenants", "locations", "lanes", "stores", "kiosks" }
    /\ DOMAIN domainMenuRows = { "categories", "items", "modifierGroups", "modifierOptions",
                                       "itemModifierGroups" }
    /\ DOMAIN domainStockRows = { "inventory", "inventoryTransactions",
                                        "inventoryReservations" }
    /\ DOMAIN domainCartRows = { "carts", "cartLines" }
    /\ DOMAIN domainOrderRows = { "orders", "orderItems" }
    /\ DOMAIN domainPaymentRows = { "payments", "refunds", "offlineTokens" }
    /\ DOMAIN domainPeopleRows = { "employees", "roles", "permissions", "rolePermissions",
                                         "users" }
    /\ DOMAIN domainLogRows = { "auditLogs", "eventStore", "outboxEvents", "syncEvents",
                                      "analyticsEvents" }
BY DEF domainStoreRows, domainMenuRows, domainStockRows, domainCartRows, domainOrderRows, domainPaymentRows,
       domainPeopleRows, domainLogRows

LEMMA TablesAreListed ==
    DOMAIN pgNullable =
      { "tenants", "locations", "lanes", "stores", "kiosks", "categories",
        "items", "modifierGroups", "modifierOptions", "itemModifierGroups",
        "inventory", "inventoryTransactions", "inventoryReservations", "carts",
        "cartLines", "orders", "orderItems", "payments", "refunds",
        "offlineTokens", "employees", "roles", "permissions", "rolePermissions",
        "users", "auditLogs", "eventStore", "outboxEvents", "syncEvents",
        "analyticsEvents" }
BY DEF pgNullable

LEMMA SameTables == DOMAIN zodNullable = DOMAIN pgNullable /\ DOMAIN domainNullable = DOMAIN pgNullable
<1>1. \A t : t \in DOMAIN zodNullable <=> t \in DOMAIN pgNullable
  BY TogetherDomain, ZodParts, TablesAreListed DEF zodNullable
<1>2. \A t : t \in DOMAIN domainNullable <=> t \in DOMAIN pgNullable
  BY TogetherDomain, DomainParts, TablesAreListed DEF domainNullable
<1> QED  BY <1>1, <1>2

\* A zod schema and its table have the same nullable columns.
LEMMA SameNullable == ASSUME NEW t \in DOMAIN pgNullable PROVE zodNullable[t] = pgNullable[t]
<1>1. CASE t \in DOMAIN zodStoreRows
  <2>1. zodNullable[t] = zodStoreRows[t]
    BY <1>1, TogetherAt, ZodParts DEF zodNullable
  <2>2. zodStoreRows[t] = pgNullable[t]
    <3>1. /\ zodStoreRows["tenants"] = pgNullable["tenants"]
          /\ zodStoreRows["locations"] = pgNullable["locations"]
          /\ zodStoreRows["lanes"] = pgNullable["lanes"]
          /\ zodStoreRows["stores"] = pgNullable["stores"]
          /\ zodStoreRows["kiosks"] = pgNullable["kiosks"]
      BY DEF zodStoreRows, pgNullable
    <3> QED  BY <1>1, <3>1, ZodParts
  <2> QED  BY <2>1, <2>2
<1>2. CASE t \in DOMAIN zodMenuRows
  <2>1. zodNullable[t] = zodMenuRows[t]
    BY <1>2, TogetherAt, ZodParts DEF zodNullable
  <2>2. zodMenuRows[t] = pgNullable[t]
    <3>1. /\ zodMenuRows["categories"] = pgNullable["categories"]
          /\ zodMenuRows["items"] = pgNullable["items"]
          /\ zodMenuRows["modifierGroups"] = pgNullable["modifierGroups"]
          /\ zodMenuRows["modifierOptions"] = pgNullable["modifierOptions"]
          /\ zodMenuRows["itemModifierGroups"] = pgNullable["itemModifierGroups"]
      BY DEF zodMenuRows, pgNullable
    <3> QED  BY <1>2, <3>1, ZodParts
  <2> QED  BY <2>1, <2>2
<1>3. CASE t \in DOMAIN zodStockRows
  <2>1. zodNullable[t] = zodStockRows[t]
    BY <1>3, TogetherAt, ZodParts DEF zodNullable
  <2>2. zodStockRows[t] = pgNullable[t]
    <3>1. /\ zodStockRows["inventory"] = pgNullable["inventory"]
          /\ zodStockRows["inventoryTransactions"] = pgNullable["inventoryTransactions"]
          /\ zodStockRows["inventoryReservations"] = pgNullable["inventoryReservations"]
      BY DEF zodStockRows, pgNullable
    <3> QED  BY <1>3, <3>1, ZodParts
  <2> QED  BY <2>1, <2>2
<1>4. CASE t \in DOMAIN zodCartRows
  <2>1. zodNullable[t] = zodCartRows[t]
    BY <1>4, TogetherAt, ZodParts DEF zodNullable
  <2>2. zodCartRows[t] = pgNullable[t]
    <3>1. /\ zodCartRows["carts"] = pgNullable["carts"]
          /\ zodCartRows["cartLines"] = pgNullable["cartLines"]
      BY DEF zodCartRows, pgNullable
    <3> QED  BY <1>4, <3>1, ZodParts
  <2> QED  BY <2>1, <2>2
<1>5. CASE t \in DOMAIN zodOrderRows
  <2>1. zodNullable[t] = zodOrderRows[t]
    BY <1>5, TogetherAt, ZodParts DEF zodNullable
  <2>2. zodOrderRows[t] = pgNullable[t]
    <3>1. /\ zodOrderRows["orders"] = pgNullable["orders"]
          /\ zodOrderRows["orderItems"] = pgNullable["orderItems"]
      BY DEF zodOrderRows, pgNullable
    <3> QED  BY <1>5, <3>1, ZodParts
  <2> QED  BY <2>1, <2>2
<1>6. CASE t \in DOMAIN zodPaymentRows
  <2>1. zodNullable[t] = zodPaymentRows[t]
    BY <1>6, TogetherAt, ZodParts DEF zodNullable
  <2>2. zodPaymentRows[t] = pgNullable[t]
    <3>1. /\ zodPaymentRows["payments"] = pgNullable["payments"]
          /\ zodPaymentRows["refunds"] = pgNullable["refunds"]
          /\ zodPaymentRows["offlineTokens"] = pgNullable["offlineTokens"]
      BY DEF zodPaymentRows, pgNullable
    <3> QED  BY <1>6, <3>1, ZodParts
  <2> QED  BY <2>1, <2>2
<1>7. CASE t \in DOMAIN zodPeopleRows
  <2>1. zodNullable[t] = zodPeopleRows[t]
    BY <1>7, TogetherAt, ZodParts DEF zodNullable
  <2>2. zodPeopleRows[t] = pgNullable[t]
    <3>1. /\ zodPeopleRows["employees"] = pgNullable["employees"]
          /\ zodPeopleRows["roles"] = pgNullable["roles"]
          /\ zodPeopleRows["permissions"] = pgNullable["permissions"]
          /\ zodPeopleRows["rolePermissions"] = pgNullable["rolePermissions"]
          /\ zodPeopleRows["users"] = pgNullable["users"]
      BY DEF zodPeopleRows, pgNullable
    <3> QED  BY <1>7, <3>1, ZodParts
  <2> QED  BY <2>1, <2>2
<1>8. CASE t \in DOMAIN zodLogRows
  <2>1. zodNullable[t] = zodLogRows[t]
    BY <1>8, TogetherAt, ZodParts DEF zodNullable
  <2>2. zodLogRows[t] = pgNullable[t]
    <3>1. /\ zodLogRows["auditLogs"] = pgNullable["auditLogs"]
          /\ zodLogRows["eventStore"] = pgNullable["eventStore"]
          /\ zodLogRows["outboxEvents"] = pgNullable["outboxEvents"]
          /\ zodLogRows["syncEvents"] = pgNullable["syncEvents"]
          /\ zodLogRows["analyticsEvents"] = pgNullable["analyticsEvents"]
      BY DEF zodLogRows, pgNullable
    <3> QED  BY <1>8, <3>1, ZodParts
  <2> QED  BY <2>1, <2>2
<1> QED  BY <1>1, <1>2, <1>3, <1>4, <1>5, <1>6, <1>7, <1>8, ZodParts, TablesAreListed

LEMMA SameEnums == zodEnum = pgEnum
BY DEF zodEnum, pgEnum

RowDomain == {"at", "table", "null", "enum", "value", "broken", "held", "issues"}

\* A table has no complaint about what the database held, nor a zod schema
\* about what it let through.
RowInv ==
    /\ DOMAIN row = RowDomain
    /\ row.at = "nowhere" => ~row.held
    /\ row.at # "nowhere" => row.table \in DOMAIN pgNullable
    /\ row.held => Complaints(pgNullable, pgEnum, row) = {}
    /\ row.at = "parsed" => Complaints(zodNullable, zodEnum, row) = {}
    /\ NullsAndEnumsAgree

\* The table and the zod schema complain about the same nulls and enums.
LEMMA ComplaintsAlike ==
    ASSUME NEW r, r.table \in DOMAIN pgNullable
    PROVE  Complaints(zodNullable, zodEnum, r) = Complaints(pgNullable, pgEnum, r)
BY SameNullable, SameEnums DEF Complaints

LEMMA SomeRowFields ==
    ASSUME NEW nullable, NEW enums, NEW at, DOMAIN nullable = DOMAIN pgNullable,
           SomeRow(nullable, enums, at)
    PROVE  /\ DOMAIN row' = RowDomain /\ row'.at = at /\ row'.held = (at = "stored")
           /\ row'.table \in DOMAIN pgNullable
           /\ Complaints(nullable, enums, row') = {}
<1>1. PICK t \in DOMAIN nullable :
        \E c \in nullable[t] \union {NoColumn}, broken \in BOOLEAN :
          \/ row' = Row(t, c, NoColumn, NoColumn, broken, at)
          \/ \E e \in EnumsOf(t) : \E v \in enums[e] : row' = Row(t, c, e, v, broken, at)
  BY DEF SomeRow
<1>2. PICK c, broken, e, v :
        /\ c \in nullable[t] \union {NoColumn}
        /\ row' = Row(t, c, e, v, broken, at)
        /\ (e = NoColumn \/ v \in enums[e])
  BY <1>1
<1>3. /\ DOMAIN row' = RowDomain /\ row'.at = at /\ row'.held = (at = "stored")
      /\ row'.table = t /\ row'.null = c /\ row'.enum = e /\ row'.value = v
  BY <1>2 DEF Row, RowDomain
<1> QED  BY <1>1, <1>2, <1>3 DEF Complaints

LEMMA RowStep == RowInv /\ [RowsNext]_row => RowInv'
<1> SUFFICES ASSUME RowInv, [RowsNext]_row PROVE RowInv'
  OBVIOUS
<1>1. CASE build
  <2>1. SomeRow(domainNullable, domainEnum, "typed")
    BY <1>1 DEF build
  <2>2. /\ DOMAIN row' = RowDomain /\ row'.at = "typed" /\ ~row'.held
        /\ row'.table \in DOMAIN pgNullable
    <3>1. DOMAIN domainNullable = DOMAIN pgNullable
      BY SameTables
    <3>2. /\ DOMAIN row' = RowDomain /\ row'.at = "typed"
          /\ row'.held = ("typed" = "stored") /\ row'.table \in DOMAIN pgNullable
      BY <2>1, <3>1, SomeRowFields
    <3> QED  BY <3>2
  <2> QED  BY <2>2 DEF RowInv, NullsAndEnumsAgree
<1>2. CASE write
  <2>1. SomeRow(pgNullable, pgEnum, "stored")
    BY <1>2 DEF write
  <2>2. /\ DOMAIN row' = RowDomain /\ row'.at = "stored"
        /\ row'.table \in DOMAIN pgNullable /\ Complaints(pgNullable, pgEnum, row') = {}
    BY <2>1, SomeRowFields
  <2> QED  BY <2>2 DEF RowInv, NullsAndEnumsAgree
<1>3. ASSUME NEW at, NEW held, NEW issues, row.at # "nowhere",
             row' = [row EXCEPT !.at = at, !.held = held, !.issues = issues]
      PROVE  /\ DOMAIN row' = RowDomain /\ row'.at = at /\ row'.table \in DOMAIN pgNullable
             /\ row'.held = held /\ row'.issues = issues
             /\ \A nullable, enums :
                  Complaints(nullable, enums, row') = Complaints(nullable, enums, row)
  <2>1. /\ DOMAIN row' = RowDomain /\ row'.at = at /\ row'.table = row.table
        /\ row'.null = row.null /\ row'.enum = row.enum /\ row'.value = row.value
        /\ row'.held = held /\ row'.issues = issues
    BY <1>3 DEF RowInv, RowDomain
  <2>2. \A nullable, enums :
          Complaints(nullable, enums, row') = Complaints(nullable, enums, row)
    BY <2>1 DEF Complaints
  <2> QED  BY <1>3, <2>1, <2>2 DEF RowInv
<1>4. CASE parse
  <2> DEFINE other == (IF row.broken THEN {"rule"} ELSE {})
                      \union (IF row.at = "loaded" /\ row.table \notin Unconverted
                              THEN {"type"} ELSE {})
             found == Complaints(zodNullable, zodEnum, row) \union other
             at == IF found = {} THEN "parsed" ELSE "rejected"
  <2>1. row.at \in {"typed", "loaded"} /\ row.at # "nowhere" /\ row.table \in DOMAIN pgNullable
    BY <1>4 DEF parse, RowInv
  <2>2. row' = [row EXCEPT !.at = at, !.held = row.held, !.issues = found]
    BY <1>4 DEF parse, RowInv, RowDomain
  <2>3. /\ DOMAIN row' = RowDomain /\ row'.at = at /\ row'.table \in DOMAIN pgNullable
        /\ row'.held = row.held /\ row'.issues = found
        /\ Complaints(pgNullable, pgEnum, row') = Complaints(pgNullable, pgEnum, row)
        /\ Complaints(zodNullable, zodEnum, row') = Complaints(zodNullable, zodEnum, row)
    BY <1>3, <2>1, <2>2
  <2>4. row.held => found \subseteq {"rule", "type"}
    BY <2>1, ComplaintsAlike DEF RowInv
  <2>5. at \in {"parsed", "rejected"} /\ (at = "parsed" => found = {})
    OBVIOUS
  <2>6. at = "parsed" => Complaints(zodNullable, zodEnum, row) = {}
    BY <2>5
  <2> HIDE DEF found, at
  <2> QED  BY <2>3, <2>4, <2>5, <2>6 DEF RowInv, NullsAndEnumsAgree
<1>5. CASE store
  <2>1. row.at = "parsed" /\ row.table \in DOMAIN pgNullable
    BY <1>5 DEF store, RowInv
  <2>2. Complaints(pgNullable, pgEnum, row) = {}
    BY <2>1, ComplaintsAlike DEF RowInv
  <2>3. PICK unfit \in SUBSET {"value"} :
          row' = IF unfit = {} THEN [row EXCEPT !.at = "stored", !.held = TRUE]
                 ELSE [row EXCEPT !.at = "refused", !.issues = unfit]
    BY <1>5, <2>2 DEF store
  <2>4. CASE unfit = {}
    <3>1. row' = [row EXCEPT !.at = "stored", !.held = TRUE, !.issues = row.issues]
      BY <2>3, <2>4 DEF RowInv, RowDomain
    <3>2. /\ DOMAIN row' = RowDomain /\ row'.at = "stored" /\ row'.table \in DOMAIN pgNullable
          /\ Complaints(pgNullable, pgEnum, row') = Complaints(pgNullable, pgEnum, row)
      BY <1>3, <2>1, <3>1
    <3> QED  BY <2>2, <3>2 DEF RowInv, NullsAndEnumsAgree
  <2>5. CASE unfit = {"value"}
    <3>1. row' = [row EXCEPT !.at = "refused", !.held = row.held, !.issues = unfit]
      BY <2>3, <2>5 DEF RowInv, RowDomain
    <3>2. /\ DOMAIN row' = RowDomain /\ row'.at = "refused" /\ row'.table \in DOMAIN pgNullable
          /\ row'.issues = {"value"}
          /\ Complaints(pgNullable, pgEnum, row') = Complaints(pgNullable, pgEnum, row)
      BY <1>3, <2>1, <2>5, <3>1
    <3> QED  BY <2>2, <3>2 DEF RowInv, NullsAndEnumsAgree
  <2> QED  BY <2>4, <2>5
<1>6. CASE load
  <2>1. row.at = "stored" /\ row' = [row EXCEPT !.at = "loaded"]
    BY <1>6 DEF load
  <2>2. row' = [row EXCEPT !.at = "loaded", !.held = row.held, !.issues = row.issues]
    BY <2>1 DEF RowInv, RowDomain
  <2>3. PICK held, issues : held = row.held /\ issues = row.issues
    OBVIOUS
  <2>4. row.at # "nowhere" /\ row' = [row EXCEPT !.at = "loaded", !.held = held, !.issues = issues]
    BY <2>1, <2>2, <2>3
  <2>5. /\ DOMAIN row' = RowDomain /\ row'.at = "loaded" /\ row'.table \in DOMAIN pgNullable
        /\ row'.held = held
        /\ Complaints(pgNullable, pgEnum, row') = Complaints(pgNullable, pgEnum, row)
    BY <1>3, <2>4
  <2> QED  BY <2>3, <2>5 DEF RowInv, NullsAndEnumsAgree
<1>7. CASE UNCHANGED row
  BY <1>7 DEF RowInv, NullsAndEnumsAgree, Complaints
<1> QED  BY <1>1, <1>2, <1>4, <1>5, <1>6, <1>7 DEF RowsNext

\* The tables and the zod schemas agree on nulls and enum values, for all
\* thirty tables: a row that was in the database is rejected on the way back
\* only for a rule of its schema or for a column drizzle converts, and a row
\* its schema let through is refused only for its values or keys.
THEOREM RowDescriptionsAgree == RowsSpec => []NullsAndEnumsAgree
<1>1. RowsInit => RowInv
  BY DEF RowsInit, NoRow, RowInv, RowDomain, NullsAndEnumsAgree
<1>2. RowInv /\ [RowsNext]_row => RowInv'
  BY RowStep
<1>3. RowInv => NullsAndEnumsAgree
  BY DEF RowInv
<1> QED  BY <1>1, <1>2, <1>3, PTL DEF RowsSpec
=============================================================================
