----------------------------- MODULE CartProofs -----------------------------
(***************************************************************************)
(* Proofs about the cart-service, for any number of handlers, carts, items *)
(* and lines.                                                              *)
(***************************************************************************)
EXTENDS Cart, SequenceTheorems, NaturalsInduction, WellFoundedInduction, TLAPS

-----------------------------------------------------------------------------
(* Totals and merged lines *)

LEMMA EmptyTotal == Total({}) = 0
<1> DEFINE IsSum(g) == g = [s \in SUBSET {} |-> IF s = {} THEN 0
                              ELSE (CHOOSE x \in s : TRUE).qty + g[s \ {CHOOSE x \in s : TRUE}]]
<1>1. Total({}) = (CHOOSE g : IsSum(g))[{}]
  BY DEF Total, MapThenSumSet, MapThenFoldSet
<1>2. IsSum([s \in SUBSET {} |-> 0])
  OBVIOUS
<1>3. \E g : IsSum(g)
  BY <1>2
<1>4. PICK g : g = (CHOOSE k : IsSum(k))
  OBVIOUS
<1> HIDE DEF IsSum
<1>5. IsSum(g)
  BY <1>3, <1>4
<1>6. g[{}] = 0
  BY <1>5 DEF IsSum
<1> QED  BY <1>1, <1>4, <1>6

LEMMA NatMinimum ==
    ASSUME NEW T \in SUBSET Nat, T # {}
    PROVE  \E x \in T : \A y \in T : x <= y
<1>1. IsWellFoundedOn(OpToRel(<, Nat), Nat)
  BY NatLessThanWellFounded
<1>2. PICK x \in T : \A y \in T : ~(<<y, x>> \in OpToRel(<, Nat))
  BY <1>1, WFMin
<1>3. \A y \in T : ~(y < x)
  BY <1>2 DEF OpToRel
<1> QED  BY <1>3

\* A line as a record, with the bounds of line ids; what its quantity is does
\* not matter here.
IsLine(l) ==
    /\ DOMAIN l = {"id", "at", "item", "qty"}
    /\ l.id \in 1..MaxLine /\ l.at \in 1..MaxLine

AreLines(S) == \A l \in S : IsLine(l)

\* A nonempty set of bounded naturals has a maximum.
LEMMA BoundedMax ==
    ASSUME NEW S, S # {}, S \subseteq 1..MaxLine
    PROVE  \E x \in S : \A y \in S : x >= y
<1> DEFINE T == {MaxLine - y : y \in S}
<1>0. MaxLine \in Nat
  BY CartConstants
<1>a. \A y \in S : y \in 1..MaxLine /\ MaxLine - y \in Nat
  BY <1>0
<1>1. T \in SUBSET Nat /\ T # {}
  BY <1>a
<1>2. PICK x \in T : \A y \in T : x <= y
  BY <1>1, NatMinimum
<1>3. PICK z \in S : x = MaxLine - z
  OBVIOUS
<1>4. \A y \in S : MaxLine - z <= MaxLine - y
  BY <1>2, <1>3
<1>b. \A a \in Nat, b \in Nat : MaxLine - a <= MaxLine - b => a >= b
  BY <1>0
<1>5. \A y \in S : z >= y
  <2>1. z \in Nat /\ \A y \in S : y \in Nat
    BY <1>0
  <2> QED  BY <1>4, <1>b, <2>1
<1> QED  BY <1>5

LEMMA BoundedMin ==
    ASSUME NEW S, S # {}, S \subseteq 1..MaxLine
    PROVE  \E x \in S : \A y \in S : x <= y
<1>1. S \in SUBSET Nat
  BY CartConstants
<1> QED  BY <1>1, NatMinimum

\* Among lines there is a last one and a first one.
LEMMA LastLine ==
    ASSUME NEW S, S # {}, AreLines(S)
    PROVE  \E l \in S : \A k \in S : Before(k, l)
<1> DEFINE A == {l.at : l \in S}
<1>1. A # {} /\ A \subseteq 1..MaxLine
  BY DEF AreLines, IsLine
<1>2. PICK a \in A : \A b \in A : a >= b
  BY <1>1, BoundedMax
<1> DEFINE I == {l.id : l \in {k \in S : k.at = a}}
<1>3. I # {} /\ I \subseteq 1..MaxLine
  BY DEF AreLines, IsLine
<1>4. PICK i \in I : \A j \in I : i >= j
  BY <1>3, BoundedMax
<1>5. PICK l \in S : l.at = a /\ l.id = i
  OBVIOUS
<1>6. ASSUME NEW k \in S PROVE Before(k, l)
  <2>1. k.at \in Nat /\ l.at \in Nat /\ k.id \in Nat /\ l.id \in Nat
    BY CartConstants DEF AreLines, IsLine
  <2>2. k.at <= l.at
    BY <1>2, <1>5, <2>1
  <2>3. k.at = l.at => k.id <= l.id
    BY <1>4, <1>5, <2>1
  <2> QED  BY <2>1, <2>2, <2>3 DEF Before
<1> QED  BY <1>6

LEMMA FirstLine ==
    ASSUME NEW S, S # {}, AreLines(S)
    PROVE  \E l \in S : \A k \in S : Before(l, k)
<1> DEFINE A == {l.at : l \in S}
<1>1. A # {} /\ A \subseteq 1..MaxLine
  BY DEF AreLines, IsLine
<1>2. PICK a \in A : \A b \in A : a <= b
  BY <1>1, BoundedMin
<1> DEFINE I == {l.id : l \in {k \in S : k.at = a}}
<1>3. I # {} /\ I \subseteq 1..MaxLine
  BY DEF AreLines, IsLine
<1>4. PICK i \in I : \A j \in I : i <= j
  BY <1>3, BoundedMin
<1>5. PICK l \in S : l.at = a /\ l.id = i
  OBVIOUS
<1>6. ASSUME NEW k \in S PROVE Before(l, k)
  <2>1. k.at \in Nat /\ l.at \in Nat /\ k.id \in Nat /\ l.id \in Nat
    BY CartConstants DEF AreLines, IsLine
  <2>2. l.at <= k.at
    BY <1>2, <1>5, <2>1
  <2>3. k.at = l.at => l.id <= k.id
    BY <1>4, <1>5, <2>1
  <2> QED  BY <2>1, <2>2, <2>3 DEF Before
<1> QED  BY <1>6

\* A merge yields lines, each with the id of one of those merged.
LEMMA MergedLines ==
    ASSUME NEW target, AreLines(target), NEW ghost, AreLines(ghost)
    PROVE  AreLines(MergeCarts(target, ghost))
<1> SUFFICES ASSUME NEW i, \E l \in target \union ghost : l.item = i
             PROVE  IsLine(MergedLine(target, ghost, i))
  BY DEF MergeCarts, AreLines
<1> DEFINE b == Base(target, ghost, i)
<1>1. b \in target \union ghost
  <2>1. AreLines(OfItem(target, i)) /\ AreLines(OfItem(ghost, i))
    BY DEF AreLines, OfItem
  <2>2. CASE OfItem(target, i) # {}
    <3>1. \E l \in OfItem(target, i) : \A k \in OfItem(target, i) : Before(k, l)
      BY <2>1, <2>2, LastLine
    <3>2. b \in OfItem(target, i)
      BY <2>2, <3>1 DEF Base
    <3> QED  BY <3>2 DEF OfItem
  <2>3. CASE OfItem(target, i) = {}
    <3>0. OfItem(ghost, i) # {}
      BY <2>3 DEF OfItem
    <3>1. \E l \in OfItem(ghost, i) : \A k \in OfItem(ghost, i) : Before(l, k)
      BY <2>1, <3>0, FirstLine
    <3>2. b \in OfItem(ghost, i)
      BY <2>3, <3>1 DEF Base
    <3> QED  BY <3>2 DEF OfItem
  <2> QED  BY <2>2, <2>3
<1>2. IsLine(b)
  BY <1>1 DEF AreLines
<1> DEFINE A == {b.at} \union {l.at : l \in OfItem(ghost, i)}
           m == Max(A)
<1>3. m \in 1..MaxLine
  <2>1. A # {} /\ A \subseteq 1..MaxLine
    BY <1>2 DEF AreLines, IsLine, OfItem
  <2> HIDE DEF A
  <2>2. \E x \in A : \A y \in A : x >= y
    BY <2>1, BoundedMax
  <2>3. m \in A
    BY <2>2 DEF Max
  <2> QED  BY <2>1, <2>3
<1> DEFINE q == IF OfItem(target, i) # {} THEN b.qty + Total(OfItem(ghost, i))
                                         ELSE Total(OfItem(ghost, i))
<1>4. MergedLine(target, ghost, i) = [b EXCEPT !.at = m, !.qty = q]
  BY DEF MergedLine
<1> HIDE DEF b, m, q
<1>5. DOMAIN b = {"id", "at", "item", "qty"} /\ b.id \in 1..MaxLine
  BY <1>2 DEF IsLine
<1> DEFINE r == [b EXCEPT !.at = m, !.qty = q]
<1>6. DOMAIN r = DOMAIN b /\ r.id = b.id /\ r.at = m
  BY <1>5
<1> HIDE DEF r
<1>7. IsLine(r)
  BY <1>3, <1>5, <1>6 DEF IsLine
<1> QED  BY <1>4, <1>7 DEF r

-----------------------------------------------------------------------------
(* The inductive invariant *)

HandlerFields == {"pc", "op", "cart", "ghost", "item", "line", "qty",
                  "version", "state", "total", "view"}

\* The tables and the handlers' local states are records with their fields.
Shape ==
    /\ DOMAIN carts = Carts
    /\ \A c \in Carts : DOMAIN carts[c] = {"state", "version", "total"} /\ carts[c].version \in Nat
    /\ DOMAIN lines = Carts
    /\ \A c \in Carts : AreLines(lines[c])
    /\ DOMAIN finalized = Carts
    /\ nextLine \in 1..(MaxLine + 1)
    /\ DOMAIN handler = Handlers
    /\ \A h \in Handlers : DOMAIN handler[h] = HandlerFields /\ AreLines(handler[h].view)

\* Nobody saved the cart since a handler with local state t read its row.
Fresh(t) == Exists(t.cart) /\ carts[t.cart].version = t.version

OneLineApart(S, T) ==
    \E id \in 1..MaxLine : {l \in S : l.id # id} = {l \in T : l.id # id}

\* A handler's private copy is the cart's with its own change, as long as the
\* version it read is still that of the row.
Good(t) == t.pc # "idle" =>
    /\ t.cart \in Carts /\ carts[t.cart].state # "absent"
    /\ t.version \in Nat /\ t.version <= carts[t.cart].version
    /\ t.op \in Ops /\ t.state \in {"active", "finalized"}
    /\ t.pc \in {"ghost", "ghostLines", "delete"} => t.op = "merge"
    /\ t.pc = "reserve" => t.op = "add"
    /\ t.op = "merge" => t.ghost \in Carts
    /\ t.op \in {"update", "remove"} => t.line \in 1..MaxLine
    /\ t.pc \in {"reserve", "save"} /\ t.op # "merge" => t.state # "finalized"
    /\ Fresh(t) => t.state = carts[t.cart].state /\ t.total = carts[t.cart].total
    /\ Fresh(t) /\ t.pc = "save" /\ t.op = "finalize" => t.view = lines[t.cart]
    /\ Fresh(t) /\ t.pc \in {"reserve", "save"} /\ t.op \in {"add", "update", "remove"} =>
          OneLineApart(lines[t.cart], t.view)

\* A cart that is not there yet has no lines.
AbsentIsEmpty ==
    \A c \in Carts : carts[c].state = "absent" => carts[c].total = 0 /\ lines[c] = {}

CartInv ==
    /\ Shape
    /\ \A h \in Handlers : Good(handler[h])
    /\ AbsentIsEmpty
    /\ CartIsConsistent

-----------------------------------------------------------------------------
(* Steps *)

\* What a step may do to the row and the lines of a cart that exists: nothing,
\* a save, which raises the version, or the deletion.
LEMMA OthersStayGood ==
    ASSUME Shape, NEW g \in Handlers, Good(handler[g]), handler'[g] = handler[g],
           \A c \in Carts :
              \/ carts[c].state = "absent"
              \/ carts'[c] = carts[c] /\ lines'[c] = lines[c]
              \/ carts'[c].state = "deleted" /\ carts'[c].version = carts[c].version
              \/ /\ carts'[c].state # "absent" /\ carts'[c].version \in Nat
                 /\ carts'[c].version > carts[c].version
    PROVE  Good(handler[g])'
<1> DEFINE t == handler[g]
           c == t.cart
<1>1. CASE t.pc = "idle"
  BY <1>1 DEF Good
<1>2. CASE t.pc # "idle"
  <2>1. /\ c \in Carts /\ carts[c].state # "absent" /\ t.version \in Nat
        /\ t.version <= carts[c].version /\ carts[c].version \in Nat
    BY <1>2 DEF Good, Shape
  <2>2. CASE carts'[c] = carts[c] /\ lines'[c] = lines[c]
    BY <1>2, <2>2 DEF Good, Fresh, Exists
  <2>3. CASE carts'[c].state = "deleted" /\ carts'[c].version = carts[c].version
    <3>1. ~Fresh(t)'
      BY <2>3 DEF Fresh, Exists
    <3> QED  BY <1>2, <2>1, <2>3, <3>1 DEF Good
  <2>4. CASE /\ carts'[c].state # "absent" /\ carts'[c].version \in Nat
             /\ carts'[c].version > carts[c].version
    <3>1. ~Fresh(t)' /\ t.version <= carts'[c].version
      BY <2>1, <2>4 DEF Fresh
    <3> QED  BY <1>2, <2>1, <2>4, <3>1 DEF Good
  <2> QED  BY <2>1, <2>2, <2>3, <2>4
<1> QED  BY <1>1, <1>2

\* A step that only changes the local state of h.
LEMMA LocalStep ==
    ASSUME CartInv, NEW h \in Handlers, NEW x, DOMAIN x = HandlerFields, AreLines(x.view),
           handler' = [handler EXCEPT ![h] = x], Good(x),
           UNCHANGED <<carts, lines, finalized>>, nextLine' \in 1..(MaxLine + 1)
    PROVE  CartInv'
<1>0. Shape /\ AbsentIsEmpty /\ CartIsConsistent /\ \A g \in Handlers : Good(handler[g])
  BY DEF CartInv
<1>1. DOMAIN handler' = Handlers /\ handler'[h] = x
      /\ \A g \in Handlers : g # h => handler'[g] = handler[g]
  BY <1>0 DEF Shape
<1>2. Shape'
  BY <1>0, <1>1 DEF Shape
<1>3. Good(handler[h])'
  BY <1>1 DEF Good, Fresh, Exists
<1>4. \A g \in Handlers : Good(handler[g])'
  BY <1>0, <1>1, <1>3, OthersStayGood
<1>5. AbsentIsEmpty'
  BY <1>0 DEF AbsentIsEmpty
<1>6. TotalMatchesLines' /\ LinesInOneCart' /\ FinalizedOnce'
  BY <1>0 DEF CartIsConsistent, TotalMatchesLines, LinesInOneCart, FinalizedOnce, Exists
<1> QED  BY <1>2, <1>4, <1>5, <1>6 DEF CartInv, CartIsConsistent

LEMMA ReturnStep ==
    ASSUME CartInv, NEW h \in Handlers, Return(h),
           UNCHANGED <<carts, lines, finalized>>, nextLine' \in 1..(MaxLine + 1)
    PROVE  CartInv'
<1>1. DOMAIN Idle = HandlerFields /\ AreLines(Idle.view) /\ Good(Idle)
  BY DEF Idle, HandlerFields, AreLines, Good
<1>2. handler' = [handler EXCEPT ![h] = Idle]
  BY DEF Return
<1> HIDE DEF Idle
<1> QED  BY <1>1, <1>2, LocalStep

\* A request reads the cart's row.
LEMMA LoadStep ==
    ASSUME CartInv, NEW h \in Handlers, NEW q, DOMAIN q = HandlerFields, q.view = {},
           q.cart \in Carts, q.op \in Ops, q.op = "merge" => q.ghost \in Carts,
           q.op \in {"update", "remove"} => q.line \in 1..MaxLine,
           LoadCart(h, q)
    PROVE  CartInv'
<1> DEFINE c == q.cart
           x == [q EXCEPT !.pc = "lines", !.version = carts[c].version,
                          !.state = carts[c].state, !.total = carts[c].total]
<1>0. Shape
  BY DEF CartInv
<1>1. /\ handler' = [handler EXCEPT ![h] = x] /\ Exists(c)
      /\ UNCHANGED <<carts, lines, nextLine, finalized>>
  BY DEF LoadCart, tables
<1>2. /\ DOMAIN x = HandlerFields /\ x.pc = "lines" /\ x.version = carts[c].version
      /\ x.state = carts[c].state /\ x.total = carts[c].total /\ x.view = {} /\ x.cart = q.cart
      /\ x.op = q.op /\ x.ghost = q.ghost /\ x.line = q.line
  BY DEF HandlerFields
<1> HIDE DEF x
<1>3. carts[c].version \in Nat /\ carts[c].version <= carts[c].version
      /\ carts[c].state \in {"active", "finalized"} /\ nextLine \in 1..(MaxLine + 1)
  BY <1>0, <1>1 DEF Shape, Exists
<1>4. Good(x)
  BY <1>2, <1>3 DEF Good
<1>5. AreLines(x.view)
  BY <1>2 DEF AreLines
<1> QED  BY <1>1, <1>2, <1>3, <1>4, <1>5, LocalStep

LEMMA RequestStep ==
    ASSUME CartInv, NEW h \in Handlers, Request(h)
    PROVE  CartInv'
<1>0. DOMAIN Idle = HandlerFields /\ Idle.view = {}
  BY DEF Idle, HandlerFields
<1>n. nextLine \in 1..(MaxLine + 1) /\ MaxLine \in Nat
  BY CartConstants DEF CartInv, Shape
<1> HIDE DEF Idle
<1>1. ASSUME NEW c \in Carts, AddItem(h, c) PROVE CartInv'
  <2>1. PICK i \in Items, q \in 1..MaxQuantity :
           LoadCart(h, [Idle EXCEPT !.op = "add", !.cart = c, !.item = i, !.qty = q])
    BY <1>1 DEF AddItem
  <2> DEFINE r == [Idle EXCEPT !.op = "add", !.cart = c, !.item = i, !.qty = q]
  <2>2. DOMAIN r = HandlerFields /\ r.view = {} /\ r.cart = c /\ r.op = "add"
    BY <1>0 DEF HandlerFields
  <2> HIDE DEF r
  <2>3. LoadCart(h, r)
    BY <2>1 DEF r
  <2> QED  BY <2>2, <2>3, LoadStep DEF Ops
<1>2. ASSUME NEW c \in Carts, UpdateItem(h, c) PROVE CartInv'
  <2>1. PICK l \in 1..(nextLine - 1), q \in 0..MaxQuantity, i \in Items :
           LoadCart(h, [Idle EXCEPT !.op = "update", !.cart = c, !.line = l, !.qty = q,
                                    !.item = IF q = 0 THEN NoItem ELSE i])
    BY <1>2 DEF UpdateItem
  <2> DEFINE r == [Idle EXCEPT !.op = "update", !.cart = c, !.line = l, !.qty = q,
                               !.item = IF q = 0 THEN NoItem ELSE i]
  <2>2. DOMAIN r = HandlerFields /\ r.view = {} /\ r.cart = c /\ r.op = "update" /\ r.line = l
    BY <1>0 DEF HandlerFields
  <2> HIDE DEF r
  <2>3. LoadCart(h, r)
    BY <2>1 DEF r
  <2>4. l \in 1..MaxLine
    BY <1>n
  <2> QED  BY <2>2, <2>3, <2>4, LoadStep DEF Ops
<1>3. ASSUME NEW c \in Carts, RemoveItem(h, c) PROVE CartInv'
  <2>1. PICK l \in 1..(nextLine - 1) :
           LoadCart(h, [Idle EXCEPT !.op = "remove", !.cart = c, !.line = l])
    BY <1>3 DEF RemoveItem
  <2> DEFINE r == [Idle EXCEPT !.op = "remove", !.cart = c, !.line = l]
  <2>2. DOMAIN r = HandlerFields /\ r.view = {} /\ r.cart = c /\ r.op = "remove" /\ r.line = l
    BY <1>0 DEF HandlerFields
  <2> HIDE DEF r
  <2>3. LoadCart(h, r)
    BY <2>1 DEF r
  <2>4. l \in 1..MaxLine
    BY <1>n
  <2> QED  BY <2>2, <2>3, <2>4, LoadStep DEF Ops
<1>4. ASSUME NEW c \in Carts, FinalizeCart(h, c) PROVE CartInv'
  <2> DEFINE r == [Idle EXCEPT !.op = "finalize", !.cart = c]
  <2>2. DOMAIN r = HandlerFields /\ r.view = {} /\ r.cart = c /\ r.op = "finalize"
    BY <1>0 DEF HandlerFields
  <2>3. LoadCart(h, r)
    BY <1>4 DEF FinalizeCart
  <2> HIDE DEF r
  <2> QED  BY <2>2, <2>3, LoadStep DEF Ops
<1>5. ASSUME NEW c \in Carts, MergeGhostCart(h, c) PROVE CartInv'
  <2>1. PICK g \in Carts : LoadCart(h, [Idle EXCEPT !.op = "merge", !.cart = c, !.ghost = g])
    BY <1>5 DEF MergeGhostCart
  <2> DEFINE r == [Idle EXCEPT !.op = "merge", !.cart = c, !.ghost = g]
  <2>2. DOMAIN r = HandlerFields /\ r.view = {} /\ r.cart = c /\ r.op = "merge" /\ r.ghost = g
    BY <1>0 DEF HandlerFields
  <2> HIDE DEF r
  <2>3. LoadCart(h, r)
    BY <2>1 DEF r
  <2> QED  BY <2>2, <2>3, LoadStep DEF Ops
<1> QED  BY <1>1, <1>2, <1>3, <1>4, <1>5 DEF Request

\* The second read and the change to the private copy.
LEMMA ViewStep ==
    ASSUME CartInv, NEW h \in Handlers, NEW v, AreLines(v), NEW p \in {"reserve", "save", "ghost"},
           handler[h].pc # "idle", SetView(h, v, p),
           p # "ghost" /\ handler[h].op # "merge" => handler[h].state # "finalized",
           p = "ghost" => handler[h].op = "merge",
           p = "reserve" => handler[h].op = "add",
           handler[h].op = "finalize" => v = lines[handler[h].cart],
           handler[h].op \in {"add", "update", "remove"} => OneLineApart(lines[handler[h].cart], v),
           UNCHANGED <<carts, lines, finalized>>, nextLine' \in 1..(MaxLine + 1)
    PROVE  CartInv'
<1> DEFINE t == handler[h]
           x == [t EXCEPT !.view = v, !.pc = p]
<1>0. Shape /\ Good(t)
  BY DEF CartInv
<1>1. handler' = [handler EXCEPT ![h] = x]
  BY <1>0 DEF SetView, Shape
<1>2. /\ DOMAIN x = HandlerFields /\ x.pc = p /\ x.view = v /\ x.cart = t.cart /\ x.op = t.op
      /\ x.ghost = t.ghost /\ x.line = t.line /\ x.version = t.version /\ x.state = t.state
      /\ x.total = t.total
  <2>1. DOMAIN t = HandlerFields
    BY <1>0 DEF Shape
  <2> QED  BY <2>1 DEF HandlerFields
<1> HIDE DEF x
<1>3. Fresh(x) <=> Fresh(t)
  BY <1>2 DEF Fresh
<1>4. Good(x)
  BY <1>0, <1>2, <1>3 DEF Good
<1> QED  BY <1>1, <1>2, <1>4, LocalStep

LEMMA ViewSteps ==
    ASSUME CartInv, NEW h \in Handlers,
           AddLine(h) \/ UpdateLine(h) \/ RemoveLine(h) \/ Finalize(h) \/ ReadTarget(h) \/ Merge(h)
    PROVE  CartInv'
<1> DEFINE t == handler[h]
           c == t.cart
<1>0. Shape /\ Good(t) /\ nextLine \in 1..(MaxLine + 1) /\ MaxLine \in Nat
  BY CartConstants DEF CartInv, Shape
<1>c. ASSUME t.pc # "idle" PROVE c \in Carts /\ AreLines(lines[c])
  BY <1>0, <1>c DEF Good, Shape
<1>1. CASE AddLine(h)
  <2> DEFINE n == [id |-> nextLine, at |-> nextLine, item |-> t.item, qty |-> t.qty]
             v == lines[c] \union {n}
  <2>1. /\ SetView(h, v, "reserve") /\ nextLine <= MaxLine /\ nextLine' = nextLine + 1
        /\ t.pc = "lines" /\ t.op = "add" /\ t.state # "finalized"
        /\ UNCHANGED <<carts, lines, finalized>>
    BY <1>1 DEF AddLine, ReadOpen
  <2>2. nextLine \in 1..MaxLine /\ nextLine' \in 1..(MaxLine + 1)
    BY <1>0, <2>1
  <2>3. n.id = nextLine /\ IsLine(n)
    BY <2>2 DEF IsLine
  <2> HIDE DEF n
  <2>4. AreLines(v)
    BY <1>c, <2>1, <2>3 DEF AreLines
  <2>5. {l \in lines[c] : l.id # nextLine} = {l \in v : l.id # nextLine}
    BY <2>3
  <2>6. OneLineApart(lines[c], v)
    BY <2>2, <2>5 DEF OneLineApart
  <2> HIDE DEF v
  <2> QED  BY <2>1, <2>2, <2>4, <2>6, ViewStep
<1>2. CASE UpdateLine(h)
  <2>1. PICK l \in lines[c] :
           /\ l.id = t.line
           /\ SetView(h, (lines[c] \ {l}) \union {[l EXCEPT !.qty = t.qty, !.item = t.item]}, "save")
    BY <1>2 DEF UpdateLine
  <2>2. /\ t.pc = "lines" /\ t.op = "update" /\ t.state # "finalized"
        /\ UNCHANGED <<carts, lines, nextLine, finalized>>
    BY <1>2 DEF UpdateLine, ReadOpen, tables
  <2> DEFINE n == [l EXCEPT !.qty = t.qty, !.item = t.item]
             v == (lines[c] \ {l}) \union {n}
  <2>3. IsLine(l) /\ l.id \in 1..MaxLine
    BY <1>c, <2>2 DEF AreLines, IsLine
  <2>4. DOMAIN n = DOMAIN l /\ n.id = l.id /\ n.at = l.at
    BY <2>3 DEF IsLine
  <2>v. SetView(h, v, "save")
    BY <2>1
  <2> HIDE DEF n
  <2>5. IsLine(n)
    BY <2>3, <2>4 DEF IsLine
  <2>6. AreLines(v)
    BY <1>c, <2>2, <2>5 DEF AreLines
  <2>7. {k \in lines[c] : k.id # l.id} = {k \in v : k.id # l.id}
    BY <2>4
  <2>8. OneLineApart(lines[c], v)
    BY <2>3, <2>7 DEF OneLineApart
  <2> HIDE DEF v
  <2> QED  BY <1>0, <2>v, <2>2, <2>6, <2>8, ViewStep
<1>3. CASE RemoveLine(h)
  <2>1. PICK l \in lines[c] : l.id = t.line /\ SetView(h, lines[c] \ {l}, "save")
    BY <1>3 DEF RemoveLine
  <2>2. /\ t.pc = "lines" /\ t.op \in {"update", "remove"} /\ t.state # "finalized"
        /\ UNCHANGED <<carts, lines, nextLine, finalized>>
    BY <1>3 DEF RemoveLine, ReadOpen, tables
  <2> DEFINE v == lines[c] \ {l}
  <2>3. l.id \in 1..MaxLine /\ AreLines(v)
    BY <1>c, <2>2 DEF AreLines, IsLine
  <2>7. {k \in lines[c] : k.id # l.id} = {k \in v : k.id # l.id}
    OBVIOUS
  <2>8. OneLineApart(lines[c], v)
    BY <2>3, <2>7 DEF OneLineApart
  <2>v. SetView(h, v, "save")
    BY <2>1
  <2> HIDE DEF v
  <2> QED  BY <1>0, <2>v, <2>2, <2>3, <2>8, ViewStep
<1>4. CASE Finalize(h)
  <2>1. /\ SetView(h, lines[c], "save") /\ t.pc = "lines" /\ t.op = "finalize"
        /\ t.state # "finalized" /\ UNCHANGED <<carts, lines, nextLine, finalized>>
    BY <1>4 DEF Finalize, ReadOpen, tables
  <2> QED  BY <1>0, <1>c, <2>1, ViewStep
<1>5. CASE ReadTarget(h)
  <2>1. /\ SetView(h, lines[c], "ghost") /\ t.pc = "lines" /\ t.op = "merge"
        /\ UNCHANGED <<carts, lines, nextLine, finalized>>
    BY <1>5 DEF ReadTarget, tables
  <2> QED  BY <1>0, <1>c, <2>1, ViewStep
<1>6. CASE Merge(h)
  <2> DEFINE v == MergeCarts(t.view, lines[t.ghost])
  <2>1. /\ SetView(h, v, "save") /\ t.pc = "ghostLines"
        /\ UNCHANGED <<carts, lines, nextLine, finalized>>
    BY <1>6 DEF Merge, tables
  <2>2. t.op = "merge" /\ t.ghost \in Carts
    BY <1>0, <2>1 DEF Good
  <2>3. AreLines(t.view) /\ AreLines(lines[t.ghost])
    BY <1>0, <2>2 DEF Shape
  <2>4. AreLines(v)
    BY <2>3, MergedLines
  <2> HIDE DEF v
  <2> QED  BY <1>0, <2>1, <2>2, <2>4, ViewStep
<1> QED  BY <1>1, <1>2, <1>3, <1>4, <1>5, <1>6

\* A step of h to another point with nothing else changed.
LEMMA MoveStep ==
    ASSUME CartInv, NEW h \in Handlers, NEW p \in {"ghostLines", "save"},
           handler' = [handler EXCEPT ![h].pc = p],
           \/ handler[h].pc = "ghost" /\ p = "ghostLines"
           \/ handler[h].pc = "reserve" /\ p = "save",
           UNCHANGED <<carts, lines, nextLine, finalized>>
    PROVE  CartInv'
<1> DEFINE t == handler[h]
           x == [t EXCEPT !.pc = p]
<1>0. Shape /\ Good(t) /\ nextLine \in 1..(MaxLine + 1)
  BY DEF CartInv, Shape
<1>1. handler' = [handler EXCEPT ![h] = x]
  BY <1>0 DEF Shape
<1>2. /\ DOMAIN x = HandlerFields /\ x.pc = p /\ x.view = t.view /\ x.cart = t.cart /\ x.op = t.op
      /\ x.ghost = t.ghost /\ x.line = t.line /\ x.version = t.version /\ x.state = t.state
      /\ x.total = t.total
  <2>1. DOMAIN t = HandlerFields
    BY <1>0 DEF Shape
  <2> QED  BY <2>1 DEF HandlerFields
<1> HIDE DEF x
<1>3. Fresh(x) <=> Fresh(t)
  BY <1>2 DEF Fresh
<1>4. Good(x)
  BY <1>0, <1>2, <1>3 DEF Good
<1>5. AreLines(x.view)
  BY <1>0, <1>2 DEF Shape
<1> QED  BY <1>0, <1>1, <1>2, <1>4, <1>5, LocalStep

LEMMA SingletonLength ==
    ASSUME NEW x
    PROVE  Len(Append(<<>>, x)) = 1
<1>1. <<>> \in Seq({x}) /\ x \in {x}
  OBVIOUS
<1>2. Len(Append(<<>>, x)) = Len(<<>>) + 1
  BY <1>1, AppendProperties
<1> QED  BY <1>2

\* SaveCart, by the version that h read.
LEMMA SaveStep ==
    ASSUME CartInv, NEW h \in Handlers, SaveCart(h)
    PROVE  CartInv'
<1> DEFINE t == handler[h]
           c == t.cart
           r == [state |-> IF t.op = "finalize" THEN "finalized" ELSE t.state,
                 version |-> t.version + 1, total |-> NewTotal(h)]
<1>0. /\ Shape /\ Good(t) /\ AbsentIsEmpty /\ CartIsConsistent
      /\ \A g \in Handlers : Good(handler[g])
  BY DEF CartInv
<1>1. /\ t.pc = "save" /\ carts' = [carts EXCEPT ![c] = r]
      /\ lines' = [lines EXCEPT ![c] = t.view] /\ nextLine' = nextLine
      /\ finalized' = IF t.op = "finalize" THEN [finalized EXCEPT ![c] = Append(@, t.total)]
                      ELSE finalized
      /\ IF t.op = "merge" THEN handler' = [handler EXCEPT ![h].pc = "delete"] ELSE Return(h)
      /\ Exists(c) /\ carts[c].version = t.version /\ KeysFree(c, t.view)
  BY DEF SaveCart, CanSave
<1>2. /\ c \in Carts /\ t.version \in Nat /\ Fresh(t) /\ t.state = carts[c].state
      /\ t.total = carts[c].total /\ t.op \in Ops /\ t.state \in {"active", "finalized"}
      /\ (t.op # "merge" => t.state = "active")
      /\ (t.op = "finalize" => t.view = lines[c]) /\ (t.op = "merge" => t.ghost \in Carts)
      /\ (t.op \in {"update", "remove"} => t.line \in 1..MaxLine)
  BY <1>0, <1>1 DEF Good, Fresh
<1>3. /\ DOMAIN r = {"state", "version", "total"} /\ r.version = t.version + 1
      /\ r.state = (IF t.op = "finalize" THEN "finalized" ELSE t.state) /\ r.total = NewTotal(h)
  OBVIOUS
<1>r. r.version \in Nat /\ r.version > carts[c].version /\ r.state \in {"active", "finalized"}
  BY <1>1, <1>2, <1>3
<1> HIDE DEF r
<1>4. /\ DOMAIN carts' = Carts /\ carts'[c] = r /\ \A d \in Carts \ {c} : carts'[d] = carts[d]
      /\ DOMAIN lines' = Carts /\ lines'[c] = t.view /\ \A d \in Carts \ {c} : lines'[d] = lines[d]
  BY <1>0, <1>1, <1>2 DEF Shape
<1>5. /\ DOMAIN finalized' = Carts /\ \A d \in Carts \ {c} : finalized'[d] = finalized[d]
      /\ (t.op = "finalize" => finalized'[c] = Append(finalized[c], t.total))
      /\ (t.op # "finalize" => finalized'[c] = finalized[c])
  BY <1>0, <1>1, <1>2 DEF Shape
<1>6. /\ DOMAIN handler' = Handlers /\ \A g \in Handlers : g # h => handler'[g] = handler[g]
      /\ DOMAIN handler'[h] = HandlerFields /\ AreLines(handler'[h].view) /\ Good(handler[h])'
  <2>1. CASE t.op # "merge"
    <3>1. DOMAIN Idle = HandlerFields /\ AreLines(Idle.view) /\ Idle.pc = "idle"
      BY DEF Idle, HandlerFields, AreLines
    <3>2. handler' = [handler EXCEPT ![h] = Idle]
      BY <1>1, <2>1 DEF Return
    <3> HIDE DEF Idle
    <3>3. /\ DOMAIN handler' = Handlers /\ handler'[h] = Idle
          /\ \A g \in Handlers : g # h => handler'[g] = handler[g]
      BY <1>0, <3>2 DEF Shape
    <3>4. Good(handler[h])'
      BY <3>1, <3>3 DEF Good
    <3> QED  BY <3>1, <3>3, <3>4
  <2>2. CASE t.op = "merge"
    <3> DEFINE x == [t EXCEPT !.pc = "delete"]
    <3>1. handler' = [handler EXCEPT ![h] = x]
      BY <1>0, <1>1, <2>2 DEF Shape
    <3>2. /\ DOMAIN x = HandlerFields /\ x.pc = "delete" /\ x.view = t.view /\ x.cart = t.cart
          /\ x.op = t.op /\ x.ghost = t.ghost /\ x.version = t.version /\ x.state = t.state
      <4>1. DOMAIN t = HandlerFields
        BY <1>0 DEF Shape
      <4> QED  BY <4>1 DEF HandlerFields
    <3> HIDE DEF x
    <3>3. /\ DOMAIN handler' = Handlers /\ handler'[h] = x
          /\ \A g \in Handlers : g # h => handler'[g] = handler[g]
      BY <1>0, <3>1 DEF Shape
    <3>4. ~Fresh(handler[h])'
      <4>1. carts'[handler'[h].cart].version = t.version + 1 /\ handler'[h].version = t.version
        BY <1>3, <1>4, <3>2, <3>3
      <4>2. t.version + 1 # t.version
        BY <1>2
      <4> QED  BY <4>1, <4>2 DEF Fresh
    <3>5. Good(handler[h])'
      <4>1. carts'[c].state # "absent" /\ t.version <= carts'[c].version
        BY <1>2, <1>3, <1>4, <1>r
      <4> QED  BY <1>2, <2>2, <3>2, <3>3, <3>4, <4>1 DEF Good
    <3>6. AreLines(t.view)
      BY <1>0 DEF Shape
    <3> QED  BY <3>2, <3>3, <3>5, <3>6
  <2> QED  BY <2>1, <2>2
<1>7. Shape'
  <2>1. \A d \in Carts : /\ DOMAIN carts'[d] = {"state", "version", "total"}
                         /\ carts'[d].version \in Nat /\ AreLines(lines'[d])
    BY <1>0, <1>3, <1>4, <1>r DEF Shape
  <2> QED  BY <1>0, <1>1, <1>4, <1>5, <1>6, <2>1 DEF Shape
<1>8. \A g \in Handlers : Good(handler[g])'
  <2>1. \A d \in Carts :
           \/ carts'[d] = carts[d] /\ lines'[d] = lines[d]
           \/ /\ carts'[d].state # "absent" /\ carts'[d].version \in Nat
              /\ carts'[d].version > carts[d].version
    BY <1>4, <1>r
  <2> QED  BY <1>0, <1>6, <2>1, OthersStayGood
<1>9. AbsentIsEmpty'
  BY <1>0, <1>4, <1>r DEF AbsentIsEmpty
<1>10. TotalMatchesLines'
  <2>1. r.total = Total(t.view)
    <3>1. CASE t.op = "finalize"
      BY <1>0, <1>1, <1>2, <1>3, <3>1 DEF NewTotal, CartIsConsistent, TotalMatchesLines
    <3>2. CASE t.op # "finalize"
      BY <1>3, <3>2 DEF NewTotal
    <3> QED  BY <3>1, <3>2
  <2> QED  BY <1>0, <1>4, <2>1 DEF CartIsConsistent, TotalMatchesLines, Exists
<1>11. LinesInOneCart'
  BY <1>0, <1>1, <1>4 DEF CartIsConsistent, LinesInOneCart, KeysFree
<1>12. FinalizedOnce'
  <2>1. CASE t.op = "finalize"
    <3>1. finalized[c] = <<>>
      BY <1>0, <1>2, <2>1 DEF CartIsConsistent, FinalizedOnce
    <3>2. Len(finalized'[c]) = 1
      BY <1>5, <2>1, <3>1, SingletonLength
    <3> QED  BY <1>0, <1>2, <1>3, <1>4, <1>5, <2>1, <3>2 DEF CartIsConsistent, FinalizedOnce
  <2>2. CASE t.op # "finalize"
    <3>1. r.state = carts[c].state /\ finalized'[c] = finalized[c]
      BY <1>2, <1>3, <1>5, <2>2
    <3> QED  BY <1>0, <1>4, <1>5, <3>1 DEF CartIsConsistent, FinalizedOnce
  <2> QED  BY <2>1, <2>2
<1> QED  BY <1>7, <1>8, <1>9, <1>10, <1>11, <1>12 DEF CartInv, CartIsConsistent

\* A merge's last statement: the ghost's row and lines go, or stay as they are.
LEMMA DeleteStep ==
    ASSUME CartInv, NEW h \in Handlers, DeleteGhost(h)
    PROVE  CartInv'
<1> DEFINE t == handler[h]
           g == t.ghost
<1>0. /\ Shape /\ Good(t) /\ AbsentIsEmpty /\ CartIsConsistent
      /\ nextLine \in 1..(MaxLine + 1) /\ \A k \in Handlers : Good(handler[k])
  BY DEF CartInv, Shape
<1>1. t.pc = "delete" /\ Return(h) /\ UNCHANGED <<nextLine, reserved, finalized>>
  BY DEF DeleteGhost
<1>2. g \in Carts
  BY <1>0, <1>1 DEF Good
<1>3. CASE UNCHANGED <<carts, lines>>
  BY <1>0, <1>1, <1>3, ReturnStep
<1>4. CASE /\ carts' = [carts EXCEPT ![g].state = "deleted"]
           /\ lines' = [lines EXCEPT ![g] = {}]
  <2>1. /\ DOMAIN carts' = Carts /\ DOMAIN carts'[g] = {"state", "version", "total"}
        /\ carts'[g].state = "deleted" /\ carts'[g].version = carts[g].version
        /\ \A d \in Carts : d # g => carts'[d] = carts[d]
    BY <1>0, <1>2, <1>4 DEF Shape
  <2>2. DOMAIN lines' = Carts /\ lines'[g] = {} /\ \A d \in Carts : d # g => lines'[d] = lines[d]
    BY <1>0, <1>2, <1>4 DEF Shape
  <2>3. DOMAIN Idle = HandlerFields /\ AreLines(Idle.view) /\ Idle.pc = "idle"
    BY DEF Idle, HandlerFields, AreLines
  <2> HIDE DEF Idle
  <2>4. /\ DOMAIN handler' = Handlers /\ handler'[h] = Idle
        /\ \A k \in Handlers : k # h => handler'[k] = handler[k]
    BY <1>0, <1>1 DEF Shape, Return
  <2>5. Good(handler[h])'
    BY <2>3, <2>4 DEF Good
  <2>6. Shape'
    <3>1. \A d \in Carts : /\ DOMAIN carts'[d] = {"state", "version", "total"}
                           /\ carts'[d].version \in Nat /\ AreLines(lines'[d])
      BY <1>0, <2>1, <2>2 DEF Shape, AreLines
    <3>2. \A k \in Handlers : DOMAIN handler'[k] = HandlerFields /\ AreLines(handler'[k].view)
      BY <1>0, <2>3, <2>4 DEF Shape
    <3> QED  BY <1>0, <1>1, <2>1, <2>2, <2>4, <3>1, <3>2 DEF Shape
  <2>7. \A k \in Handlers : Good(handler[k])'
    <3>1. \A d \in Carts :
             \/ carts'[d] = carts[d] /\ lines'[d] = lines[d]
             \/ carts'[d].state = "deleted" /\ carts'[d].version = carts[d].version
      BY <2>1, <2>2
    <3> QED  BY <1>0, <2>4, <2>5, <3>1, OthersStayGood
  <2>8. AbsentIsEmpty'
    BY <1>0, <2>1, <2>2 DEF AbsentIsEmpty
  <2>9. TotalMatchesLines'
    BY <1>0, <2>1, <2>2 DEF CartIsConsistent, TotalMatchesLines, Exists
  <2>10. LinesInOneCart'
    BY <1>0, <2>2 DEF CartIsConsistent, LinesInOneCart
  <2>11. FinalizedOnce'
    BY <1>0, <1>1, <2>1 DEF CartIsConsistent, FinalizedOnce
  <2> QED  BY <2>6, <2>7, <2>8, <2>9, <2>10, <2>11 DEF CartInv, CartIsConsistent
<1> QED  BY <1>3, <1>4 DEF DeleteGhost

LEMMA CreateStep ==
    ASSUME CartInv, NEW c \in Carts, CreateCart(c)
    PROVE  CartInv'
<1>0. /\ Shape /\ AbsentIsEmpty /\ CartIsConsistent /\ \A k \in Handlers : Good(handler[k])
  BY DEF CartInv
<1>1. /\ carts[c].state = "absent" /\ carts' = [carts EXCEPT ![c].state = "active"]
      /\ UNCHANGED <<lines, nextLine, reserved, finalized, handler>>
  BY DEF CreateCart
<1>2. /\ DOMAIN carts' = Carts /\ DOMAIN carts'[c] = {"state", "version", "total"}
      /\ carts'[c].state = "active" /\ carts'[c].version = carts[c].version
      /\ carts'[c].total = carts[c].total
      /\ \A d \in Carts : d # c => carts'[d] = carts[d]
  BY <1>0, <1>1 DEF Shape
<1>3. carts[c].total = 0 /\ lines[c] = {} /\ finalized[c] = <<>>
  BY <1>0, <1>1 DEF AbsentIsEmpty, CartIsConsistent, FinalizedOnce
<1>4. Shape'
  <2>1. \A d \in Carts : DOMAIN carts'[d] = {"state", "version", "total"} /\ carts'[d].version \in Nat
    BY <1>0, <1>2 DEF Shape
  <2> QED  BY <1>0, <1>1, <1>2, <2>1 DEF Shape
<1>5. \A k \in Handlers : Good(handler[k])'
  <2>1. \A d \in Carts : carts[d].state = "absent" \/ (carts'[d] = carts[d] /\ lines'[d] = lines[d])
    BY <1>1, <1>2
  <2> QED  BY <1>0, <1>1, <2>1, OthersStayGood
<1>6. AbsentIsEmpty'
  BY <1>0, <1>1, <1>2 DEF AbsentIsEmpty
<1>7. TotalMatchesLines'
  <2> SUFFICES ASSUME NEW d \in Carts, Exists(d)' PROVE carts'[d].total = Total(lines[d])
    BY <1>1 DEF TotalMatchesLines
  <2>1. CASE d = c
    BY <1>2, <1>3, <2>1, EmptyTotal
  <2>2. CASE d # c
    BY <1>0, <1>2, <2>2 DEF CartIsConsistent, TotalMatchesLines, Exists
  <2> QED  BY <2>1, <2>2
<1>8. LinesInOneCart'
  BY <1>0, <1>1 DEF CartIsConsistent, LinesInOneCart
<1>9. FinalizedOnce'
  BY <1>0, <1>1, <1>2, <1>3 DEF CartIsConsistent, FinalizedOnce
<1> QED  BY <1>4, <1>5, <1>6, <1>7, <1>8, <1>9 DEF CartInv, CartIsConsistent

-----------------------------------------------------------------------------
LEMMA InitCartInv == Init => CartInv
<1> SUFFICES ASSUME Init PROVE CartInv
  OBVIOUS
<1>1. /\ DOMAIN carts = Carts
      /\ \A c \in Carts : /\ DOMAIN carts[c] = {"state", "version", "total"}
                          /\ carts[c].state = "absent" /\ carts[c].version = 0
                          /\ carts[c].total = 0
  BY DEF Init
<1>2. DOMAIN lines = Carts /\ DOMAIN finalized = Carts
      /\ \A c \in Carts : lines[c] = {} /\ finalized[c] = <<>>
  BY DEF Init
<1>3. DOMAIN Idle = HandlerFields /\ AreLines(Idle.view) /\ Idle.pc = "idle"
  BY DEF Idle, HandlerFields, AreLines
<1> HIDE DEF Idle
<1>4. DOMAIN handler = Handlers /\ \A h \in Handlers : handler[h] = Idle
  BY DEF Init
<1>5. nextLine \in 1..(MaxLine + 1)
  BY CartConstants DEF Init
<1>6. Shape
  <2>1. \A c \in Carts : AreLines(lines[c])
    BY <1>2 DEF AreLines
  <2> QED  BY <1>1, <1>2, <1>3, <1>4, <1>5, <2>1 DEF Shape
<1>7. \A h \in Handlers : Good(handler[h])
  BY <1>3, <1>4 DEF Good
<1>8. AbsentIsEmpty /\ TotalMatchesLines /\ LinesInOneCart /\ FinalizedOnce
  BY <1>1, <1>2 DEF AbsentIsEmpty, TotalMatchesLines, LinesInOneCart, FinalizedOnce, Exists
<1> QED  BY <1>6, <1>7, <1>8 DEF CartInv, CartIsConsistent

LEMMA NextCartInv == CartInv /\ [Next]_vars => CartInv'
<1> SUFFICES ASSUME CartInv, [Next]_vars PROVE CartInv'
  OBVIOUS
<1>0. nextLine \in 1..(MaxLine + 1)
  BY DEF CartInv, Shape
<1>u. ASSUME UNCHANGED <<carts, lines, nextLine, finalized, handler>> PROVE CartInv'
  BY <1>u DEF CartInv, Shape, Good, Fresh, Exists, AbsentIsEmpty, CartIsConsistent,
              TotalMatchesLines, LinesInOneCart, FinalizedOnce
<1>1. ASSUME NEW c \in Carts, CreateCart(c) PROVE CartInv'
  BY <1>1, CreateStep
<1>2. ASSUME NEW c \in Carts, ReservationsReleased(c) PROVE CartInv'
  BY <1>2, <1>u DEF ReservationsReleased
<1>3. ASSUME NEW h \in Handlers, Request(h) PROVE CartInv'
  BY <1>3, RequestStep
<1>4. ASSUME NEW h \in Handlers, Step(h) PROVE CartInv'
  <2>1. CASE AddLine(h) \/ UpdateLine(h) \/ RemoveLine(h) \/ Finalize(h) \/ ReadTarget(h) \/ Merge(h)
    BY <2>1, ViewSteps
  <2>2. CASE Refused(h) \/ SaveConflict(h) \/ Crash(h)
    <3>1. Return(h) /\ UNCHANGED <<carts, lines, finalized>> /\ nextLine' = nextLine
      BY <2>2 DEF Refused, SaveConflict, Crash, tables
    <3> QED  BY <1>0, <3>1, ReturnStep
  <2>3. CASE ReadGhost(h)
    <3>1. handler[h].pc = "ghost" /\ UNCHANGED <<carts, lines, nextLine, finalized>>
      BY <2>3 DEF ReadGhost, tables
    <3>2. handler' = [handler EXCEPT ![h].pc = "ghostLines"] \/ Return(h)
      BY <2>3 DEF ReadGhost
    <3> QED  BY <1>0, <3>1, <3>2, MoveStep, ReturnStep
  <2>4. CASE Reserve(h)
    <3>1. handler[h].pc = "reserve" /\ UNCHANGED <<carts, lines, nextLine, finalized>>
      BY <2>4 DEF Reserve
    <3>2. handler' = [handler EXCEPT ![h].pc = "save"] \/ Return(h)
      BY <2>4 DEF Reserve
    <3> QED  BY <1>0, <3>1, <3>2, MoveStep, ReturnStep
  <2>5. CASE DeleteGhost(h)
    BY <2>5, DeleteStep
  <2>6. CASE SaveCart(h)
    BY <2>6, SaveStep
  <2> QED  BY <1>4, <2>1, <2>2, <2>3, <2>4, <2>5, <2>6 DEF Step
<1>5. CASE UNCHANGED vars
  BY <1>5, <1>u DEF vars
<1> QED  BY <1>1, <1>2, <1>3, <1>4, <1>5 DEF Next

(***************************************************************************)
(* The invariant of the cart-service: a handler that would still pass the  *)
(* version test holds the row and the lines as they are stored now, up to  *)
(* the one line that its own request touches.                              *)
(***************************************************************************)
THEOREM CartInvariant == Spec => []CartInv
  BY InitCartInv, NextCartInv, PTL DEF Spec

(***************************************************************************)
(* However the two-statement reads and the saves of any number of handlers *)
(* interleave, a stored total is that of the stored lines, no line is in   *)
(* two carts, and a finalized cart is announced exactly once.              *)
(***************************************************************************)
THEOREM CartsAreConsistent == Spec => []CartIsConsistent
<1>1. CartInv => CartIsConsistent
  BY DEF CartInv
<1> QED  BY <1>1, CartInvariant, PTL

\* What one step may do to a cart that no merge is working on.
IsolatedStep ==
    \A c \in Carts : ~Merging(c) =>
        /\ lines'[c] # lines[c] => \E id \in 1..MaxLine :
              {l \in lines[c] : l.id # id} = {l \in lines'[c] : l.id # id}
        /\ carts[c].state = "finalized" => carts'[c] = carts[c] /\ lines'[c] = lines[c]

LEMMA SaveIsIsolated ==
    ASSUME CartInv, NEW h \in Handlers, SaveCart(h)
    PROVE  IsolatedStep
<1> DEFINE t == handler[h]
           c == t.cart
<1>0. Shape /\ Good(t)
  BY DEF CartInv
<1>1. /\ t.pc = "save" /\ Fresh(t) /\ \E r : carts' = [carts EXCEPT ![c] = r]
      /\ lines' = [lines EXCEPT ![c] = t.view]
  BY DEF SaveCart, CanSave, Fresh
<1>2. /\ c \in Carts /\ t.state = carts[c].state /\ t.op \in Ops
      /\ (t.op # "merge" => t.state # "finalized")
      /\ (t.op = "finalize" => t.view = lines[c])
      /\ (t.op \in {"add", "update", "remove"} => OneLineApart(lines[c], t.view))
  BY <1>0, <1>1 DEF Good
<1>3. lines'[c] = t.view /\ \A d \in Carts : d # c => carts'[d] = carts[d] /\ lines'[d] = lines[d]
  BY <1>0, <1>1, <1>2 DEF Shape
<1>4. ASSUME ~Merging(c) PROVE t.op # "merge"
  BY <1>4 DEF Merging
<1>5. ASSUME ~Merging(c), lines'[c] # lines[c]
      PROVE  \E id \in 1..MaxLine : {l \in lines[c] : l.id # id} = {l \in lines'[c] : l.id # id}
  BY <1>2, <1>3, <1>4, <1>5 DEF OneLineApart, Ops
<1>6. ASSUME ~Merging(c) PROVE carts[c].state # "finalized"
  BY <1>2, <1>4, <1>6
<1> SUFFICES ASSUME NEW d \in Carts, ~Merging(d)
             PROVE  /\ lines'[d] # lines[d] => \E id \in 1..MaxLine :
                          {l \in lines[d] : l.id # id} = {l \in lines'[d] : l.id # id}
                    /\ carts[d].state = "finalized" => carts'[d] = carts[d] /\ lines'[d] = lines[d]
  BY DEF IsolatedStep
<1>7. CASE d # c
  BY <1>3, <1>7
<1>8. CASE d = c
  BY <1>5, <1>6, <1>8
<1> QED  BY <1>7, <1>8

LEMMA NextIsIsolated == CartInv /\ [Next]_vars => [IsolatedStep]_vars
<1> SUFFICES ASSUME CartInv, Next PROVE IsolatedStep
  OBVIOUS
<1>0. Shape /\ \A h \in Handlers : Good(handler[h])
  BY DEF CartInv
<1>u. ASSUME UNCHANGED <<carts, lines>> PROVE IsolatedStep
  BY <1>u DEF IsolatedStep
<1>1. ASSUME NEW c \in Carts, CreateCart(c) PROVE IsolatedStep
  <2>1. /\ carts[c].state = "absent" /\ lines' = lines
        /\ \A d \in Carts : d # c => carts'[d] = carts[d]
    BY <1>0, <1>1 DEF CreateCart, Shape
  <2> QED  BY <2>1 DEF IsolatedStep
<1>2. ASSUME NEW c \in Carts, ReservationsReleased(c) PROVE IsolatedStep
  BY <1>2, <1>u DEF ReservationsReleased
<1>3. ASSUME NEW h \in Handlers, Request(h) PROVE IsolatedStep
  <2>1. \E q : LoadCart(h, q)
    BY <1>3, Zenon DEF Request, AddItem, UpdateItem, RemoveItem, FinalizeCart, MergeGhostCart
  <2> QED  BY <2>1, <1>u DEF LoadCart, tables
<1>4. ASSUME NEW h \in Handlers, Step(h) PROVE IsolatedStep
  <2>1. CASE SaveCart(h)
    BY <2>1, SaveIsIsolated
  <2>2. CASE DeleteGhost(h)
    <3> DEFINE g == handler[h].ghost
    <3>1. g \in Carts /\ handler[h].op = "merge"
      BY <1>0, <2>2 DEF Good, DeleteGhost
    <3>2. Merging(g)
      BY <3>1 DEF Merging
    <3>3. \A d \in Carts : d # g => carts'[d] = carts[d] /\ lines'[d] = lines[d]
      BY <1>0, <2>2, <3>1 DEF DeleteGhost, Shape
    <3> QED  BY <3>2, <3>3 DEF IsolatedStep
  <2>3. CASE ~SaveCart(h) /\ ~DeleteGhost(h)
    <3>1. UNCHANGED <<carts, lines>>
      BY <1>4, <2>3 DEF Step, AddLine, UpdateLine, RemoveLine, Finalize, Refused, ReadTarget,
           ReadGhost, Merge, Reserve, SaveConflict, Crash, tables
    <3> QED  BY <3>1, <1>u
  <2> QED  BY <2>1, <2>2, <2>3
<1> QED  BY <1>1, <1>2, <1>3, <1>4 DEF Next

(***************************************************************************)
(* No save, of any number of handlers, takes back what another one saved:  *)
(* outside merges it changes at most one line of the cart as it is stored  *)
(* then, and a finalized cart is not changed at all.                       *)
(***************************************************************************)
THEOREM SavesIsolated == Spec => SavesAreIsolated
<1>1. CartInv /\ [Next]_vars => [IsolatedStep]_vars
  BY NextIsIsolated
<1>2. [IsolatedStep]_vars <=>
      [\A c \in Carts : ~Merging(c) =>
          /\ lines'[c] # lines[c] => \E id \in 1..MaxLine :
                {l \in lines[c] : l.id # id} = {l \in lines'[c] : l.id # id}
          /\ carts[c].state = "finalized" => carts'[c] = carts[c] /\ lines'[c] = lines[c]
      ]_vars
  BY DEF IsolatedStep
<1> QED  BY <1>1, <1>2, CartInvariant, PTL DEF Spec, SavesAreIsolated

=============================================================================
