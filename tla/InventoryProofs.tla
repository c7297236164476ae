--------------------------- MODULE InventoryProofs --------------------------
(***************************************************************************)
(* Proofs about the inventory-service, for any number of concurrent        *)
(* transactions, carts and adjustments.                                    *)
(***************************************************************************)
EXTENDS Inventory, FiniteSetTheorems, NaturalsInduction, WellFoundedInduction, TLAPS

-----------------------------------------------------------------------------
(* Sums over finite sets *)

LEMMA NatMinimum ==
    ASSUME NEW T \in SUBSET Nat, T # {}
    PROVE  \E x \in T : \A y \in T : x <= y
<1>1. IsWellFoundedOn(OpToRel(<, Nat), Nat)
  BY NatLessThanWellFounded
<1>2. PICK x \in T : \A y \in T : ~(<<y, x>> \in OpToRel(<, Nat))
  BY <1>1, WFMin
<1>3. \A y \in T : ~(y < x)
  BY <1>2 DEF OpToRel
<1> QED  BY <1>3

\* Induction over the naturals, for a set of them.
LEMMA NatSetInduction ==
    ASSUME NEW S \in SUBSET Nat, 0 \in S, \A n \in S : n + 1 \in S
    PROVE  S = Nat
<1> SUFFICES ASSUME Nat \ S # {} PROVE FALSE
  OBVIOUS
<1>1. PICK x \in Nat \ S : \A y \in Nat \ S : x <= y
  BY NatMinimum
<1>2. x # 0 /\ x - 1 \in Nat /\ ~(x <= x - 1) /\ x - 1 + 1 = x
  OBVIOUS
<1> QED  BY <1>1, <1>2

\* The element a fold takes first, and the function it computes.
First(s) == CHOOSE x \in s : TRUE

IsSum(g, f, D) ==
    g = [s \in D |-> IF s = {} THEN 0 ELSE f[First(s)] + g[s \ {First(s)}]]

LEMMA SumUnfold ==
    ASSUME NEW f, NEW S
    PROVE  SumFunctionOnSet(f, S) = (CHOOSE g : IsSum(g, f, SUBSET S))[S]
BY DEF SumFunctionOnSet, FoldFunctionOnSet, MapThenFoldSet, IsSum, First

LEMMA Smaller ==
    ASSUME NEW s, IsFiniteSet(s), s # {}
    PROVE  /\ First(s) \in s /\ IsFiniteSet(s \ {First(s)}) 
           /\ Cardinality(s \ {First(s)}) = Cardinality(s) - 1 
           /\ Cardinality(s) \in Nat /\ Cardinality(s \ {First(s)}) \in Nat
<1>1. First(s) \in s
  BY DEF First
<1> QED BY <1>1, FS_RemoveElement, FS_CardinalityType

LEMMA SumExists ==
    ASSUME NEW f, NEW S, IsFiniteSet(S)
    PROVE  \E g : IsSum(g, f, SUBSET S)
<1> DEFINE Sub(n) == {s \in SUBSET S : Cardinality(s) <= n}
           P == {n \in Nat : \E g : IsSum(g, f, Sub(n))}
<1>f. \A s \in SUBSET S : IsFiniteSet(s) /\ Cardinality(s) \in Nat /\ Cardinality(s) <= Cardinality(S)
  BY FS_Subset, FS_CardinalityType
<1>1. 0 \in P
  <2> DEFINE g == [s \in Sub(0) |-> 0]
  <2>1. \A s \in Sub(0) : s = {}
    BY <1>f, FS_EmptySet
  <2>2. IsSum(g, f, Sub(0))
    BY <2>1 DEF IsSum
  <2> QED  BY <2>2
<1>2. ASSUME NEW n \in P PROVE n + 1 \in P
  <2>1. n \in Nat /\ n + 1 \in Nat
    OBVIOUS
  <2>2. PICK g : IsSum(g, f, Sub(n))
    OBVIOUS
  <2> DEFINE k == [s \in Sub(n + 1) |-> IF s = {} THEN 0 ELSE f[First(s)] + g[s \ {First(s)}]]
  <2>3. \A s \in Sub(n) : s \in Sub(n + 1) /\ k[s] = g[s]
    <3> TAKE s \in Sub(n)
    <3>1. s \in Sub(n + 1)
      BY <1>f, <2>1
    <3> HIDE DEF Sub
    <3>2. k[s] = IF s = {} THEN 0 ELSE f[First(s)] + g[s \ {First(s)}]
      BY <3>1
    <3> HIDE DEF k
    <3>3. g[s] = IF s = {} THEN 0 ELSE f[First(s)] + g[s \ {First(s)}]
      BY <2>2 DEF IsSum
    <3> QED  BY <3>1, <3>2, <3>3
  <2>4. \A s \in Sub(n + 1) : s # {} => s \ {First(s)} \in Sub(n)
    BY <1>f, <2>1, Smaller
  <2> HIDE DEF Sub, P
  <2>5. \A s \in Sub(n + 1) : s # {} => k[s \ {First(s)}] = g[s \ {First(s)}]
    BY <2>3, <2>4
  <2>6. IsSum(k, f, Sub(n + 1))
    BY <2>5 DEF IsSum
  <2> HIDE DEF k
  <2> QED  BY <2>1, <2>6 DEF P
<1> HIDE DEF P
<1>3. P = Nat
  <2>1. P \in SUBSET Nat
    BY DEF P
  <2> QED  BY <1>1, <1>2, <2>1, NatSetInduction
<1>4. PICK g : IsSum(g, f, Sub(Cardinality(S)))
  BY <1>3, <1>f, FS_CardinalityType DEF P
<1>5. Sub(Cardinality(S)) = SUBSET S
  BY <1>f
<1> QED  BY <1>4, <1>5

\* The sum of a set is that of any larger one's function at it.
LEMMA SumUnique ==
    ASSUME NEW f, NEW S, IsFiniteSet(S), NEW g, IsSum(g, f, SUBSET S),
           NEW T \in SUBSET S
    PROVE  g[T] = SumFunctionOnSet(f, T)
<1>f. \A s \in SUBSET T : IsFiniteSet(s) /\ Cardinality(s) \in Nat
  BY FS_Subset, FS_CardinalityType
<1>1. IsFiniteSet(T) /\ T \in SUBSET T /\ SUBSET T \subseteq SUBSET S
  BY FS_Subset
<1>2. PICK k : k = (CHOOSE j : IsSum(j, f, SUBSET T))
  OBVIOUS
<1>3. IsSum(k, f, SUBSET T)
  BY <1>1, <1>2, SumExists
<1> DEFINE P == {n \in Nat : \A s \in SUBSET T : Cardinality(s) = n => g[s] = k[s]}
<1>4. 0 \in P
  BY <1>1, <1>3, <1>f, FS_EmptySet DEF IsSum
<1>5. ASSUME NEW n \in P PROVE n + 1 \in P
  <2> SUFFICES ASSUME NEW s \in SUBSET T, Cardinality(s) = n + 1 PROVE g[s] = k[s]
    OBVIOUS
  <2>1. s # {}
    <3>1. n \in Nat /\ n + 1 # 0
      OBVIOUS
    <3> HIDE DEF P
    <3> QED  BY <3>1, FS_EmptySet
  <2>2. /\ s \ {First(s)} \in SUBSET T /\ Cardinality(s \ {First(s)}) = n
    BY <1>f, <2>1, Smaller
  <2>3. g[s \ {First(s)}] = k[s \ {First(s)}]
    BY <2>2
  <2>4. g[s] = f[First(s)] + g[s \ {First(s)}]
    BY <1>1, <2>1 DEF IsSum
  <2>5. k[s] = f[First(s)] + k[s \ {First(s)}]
    BY <1>3, <2>1 DEF IsSum
  <2> QED  BY <2>3, <2>4, <2>5
<1> HIDE DEF P
<1>6. P = Nat
  <2>1. P \in SUBSET Nat
    BY DEF P
  <2> QED  BY <1>4, <1>5, <2>1, NatSetInduction
<1>7. g[T] = k[T]
  BY <1>1, <1>6, <1>f DEF P
<1> QED  BY <1>2, <1>7, SumUnfold

LEMMA SumEmpty ==
    ASSUME NEW f
    PROVE  SumFunctionOnSet(f, {}) = 0
<1>1. IsFiniteSet({})
  BY FS_EmptySet
<1>2. PICK g : IsSum(g, f, SUBSET {})
  BY <1>1, SumExists
<1>3. g[{}] = 0
  BY <1>2 DEF IsSum
<1> QED  BY <1>1, <1>2, <1>3, SumUnique

LEMMA SumFirst ==
    ASSUME NEW f, NEW S, IsFiniteSet(S), S # {}
    PROVE  SumFunctionOnSet(f, S) = f[First(S)] + SumFunctionOnSet(f, S \ {First(S)})
<1>1. PICK g : IsSum(g, f, SUBSET S)
  BY SumExists
<1>2. g[S] = f[First(S)] + g[S \ {First(S)}]
  BY <1>1 DEF IsSum
<1>3. g[S] = SumFunctionOnSet(f, S)
  <2>1. S \in SUBSET S
    OBVIOUS
  <2> QED  BY <1>1, <2>1, SumUnique, ZenonT(30)
<1>4. g[S \ {First(S)}] = SumFunctionOnSet(f, S \ {First(S)})
  <2>1. PICK T : T = S \ {First(S)}
    OBVIOUS
  <2>2. T \in SUBSET S
    BY <2>1
  <2>3. g[T] = SumFunctionOnSet(f, T)
    BY <1>1, <2>2, SumUnique, ZenonT(30)
  <2> QED  BY <2>1, <2>3, Zenon
<1> QED  BY <1>2, <1>3, <1>4, Zenon

LEMMA SumType ==
    ASSUME NEW f, NEW S, IsFiniteSet(S), \A x \in S : f[x] \in Int
    PROVE  SumFunctionOnSet(f, S) \in Int
<1> DEFINE P == {n \in Nat : \A s \in SUBSET S : Cardinality(s) = n => SumFunctionOnSet(f, s) \in Int}
<1>f. \A s \in SUBSET S : IsFiniteSet(s) /\ Cardinality(s) \in Nat
  BY FS_Subset, FS_CardinalityType
<1>1. 0 \in P
  <2>1. SumFunctionOnSet(f, {}) \in Int
    BY SumEmpty
  <2>2. \A s \in SUBSET S : Cardinality(s) = 0 => s = {}
    BY <1>f, FS_EmptySet
  <2> QED  BY <2>1, <2>2
<1>2. ASSUME NEW n \in P PROVE n + 1 \in P
  <2> SUFFICES ASSUME NEW s \in SUBSET S, Cardinality(s) = n + 1 PROVE SumFunctionOnSet(f, s) \in Int
    OBVIOUS
  <2>1. s # {}
    <3>1. n \in Nat /\ n + 1 # 0
      OBVIOUS
    <3> HIDE DEF P
    <3> QED  BY <3>1, FS_EmptySet
  <2>2. s \ {First(s)} \in SUBSET S /\ Cardinality(s \ {First(s)}) = n /\ First(s) \in S
    BY <1>f, <2>1, Smaller
  <2>3. SumFunctionOnSet(f, s \ {First(s)}) \in Int
    BY <2>2
  <2>4. SumFunctionOnSet(f, s) = f[First(s)] + SumFunctionOnSet(f, s \ {First(s)})
    BY <1>f, <2>1, SumFirst
  <2>5. f[First(s)] \in Int
    BY <2>2
  <2> QED  BY <2>3, <2>4, <2>5
<1> HIDE DEF P
<1>3. P = Nat
  <2>1. P \in SUBSET Nat
    BY DEF P
  <2> QED  BY <1>1, <1>2, <2>1, NatSetInduction
<1> QED  BY <1>3, <1>f DEF P

\* Any element may be taken out first.
LEMMA SumRemove ==
    ASSUME NEW f, NEW S, IsFiniteSet(S), \A x \in S : f[x] \in Int, NEW y \in S
    PROVE  SumFunctionOnSet(f, S) = f[y] + SumFunctionOnSet(f, S \ {y})
<1> DEFINE P == {n \in Nat : \A s \in SUBSET S : Cardinality(s) = n =>
                   \A x \in s : SumFunctionOnSet(f, s) = f[x] + SumFunctionOnSet(f, s \ {x})}
<1>f. \A s \in SUBSET S : IsFiniteSet(s) /\ Cardinality(s) \in Nat
  BY FS_Subset, FS_CardinalityType
<1>t. \A s \in SUBSET S : SumFunctionOnSet(f, s) \in Int
  BY <1>f, SumType
<1>1. 0 \in P
  BY <1>f, FS_EmptySet
<1>2. ASSUME NEW n \in P PROVE n + 1 \in P
  <2> SUFFICES ASSUME NEW s \in SUBSET S, Cardinality(s) = n + 1, NEW x \in s
               PROVE  SumFunctionOnSet(f, s) = f[x] + SumFunctionOnSet(f, s \ {x})
    OBVIOUS
  <2> DEFINE z == First(s)
  <2>1. s # {}
    OBVIOUS
  <2>2. /\ s \ {z} \in SUBSET S /\ Cardinality(s \ {z}) = n /\ z \in s
        /\ s \ {x} \in SUBSET S /\ Cardinality(s \ {x}) = n
    <3>1. s \ {z} \in SUBSET S /\ Cardinality(s \ {z}) = n /\ z \in s
      BY <1>f, <2>1, Smaller
    <3>2. Cardinality(s \ {x}) = Cardinality(s) - 1
      BY <1>f, FS_RemoveElement
    <3>3. n \in Nat
      OBVIOUS
    <3> QED  BY <3>1, <3>2, <3>3
  <2>3. SumFunctionOnSet(f, s) = f[z] + SumFunctionOnSet(f, s \ {z})
    BY <1>f, <2>1, SumFirst
  <2> HIDE DEF z
  <2>4. CASE x = z
    BY <2>3, <2>4
  <2>5. CASE x # z
    <3>1. SumFunctionOnSet(f, s \ {z}) = f[x] + SumFunctionOnSet(f, (s \ {z}) \ {x})
      BY <2>2, <2>5
    <3>2. SumFunctionOnSet(f, s \ {x}) = f[z] + SumFunctionOnSet(f, (s \ {x}) \ {z})
      BY <2>2, <2>5
    <3>3. (s \ {z}) \ {x} = (s \ {x}) \ {z} /\ (s \ {z}) \ {x} \in SUBSET S
      OBVIOUS
    <3>4. f[x] \in Int /\ f[z] \in Int /\ SumFunctionOnSet(f, (s \ {z}) \ {x}) \in Int
      BY <1>t, <2>2, <3>3
    <3>5. \A a, b, c \in Int : a + (b + c) = b + (a + c)
      OBVIOUS
    <3>6. /\ SumFunctionOnSet(f, s) = f[z] + (f[x] + SumFunctionOnSet(f, (s \ {z}) \ {x}))
          /\ SumFunctionOnSet(f, s \ {x}) = f[z] + SumFunctionOnSet(f, (s \ {z}) \ {x})
      BY <2>3, <3>1, <3>2, <3>3
    <3>7. f[z] + (f[x] + SumFunctionOnSet(f, (s \ {z}) \ {x}))
            = f[x] + (f[z] + SumFunctionOnSet(f, (s \ {z}) \ {x}))
      BY <3>4, <3>5, Zenon
    <3> QED  BY <3>6, <3>7
  <2> QED  BY <2>4, <2>5
<1> HIDE DEF P
<1>3. P = Nat
  <2>1. P \in SUBSET Nat
    BY DEF P
  <2> QED  BY <1>1, <1>2, <2>1, NatSetInduction
<1> QED  BY <1>3, <1>f DEF P

\* Only the values on the set matter.
LEMMA SumSame ==
    ASSUME NEW f, NEW g, NEW S, IsFiniteSet(S), \A x \in S : f[x] = g[x]
    PROVE  SumFunctionOnSet(f, S) = SumFunctionOnSet(g, S)
<1> DEFINE P == {n \in Nat : \A s \in SUBSET S : Cardinality(s) = n =>
                   SumFunctionOnSet(f, s) = SumFunctionOnSet(g, s)}
<1>f. \A s \in SUBSET S : IsFiniteSet(s) /\ Cardinality(s) \in Nat
  BY FS_Subset, FS_CardinalityType
<1>1. 0 \in P
  BY <1>f, FS_EmptySet, SumEmpty
<1>2. ASSUME NEW n \in P PROVE n + 1 \in P
  <2> SUFFICES ASSUME NEW s \in SUBSET S, Cardinality(s) = n + 1
               PROVE  SumFunctionOnSet(f, s) = SumFunctionOnSet(g, s)
    OBVIOUS
  <2>1. s # {}
    <3>1. n \in Nat /\ n + 1 # 0
      OBVIOUS
    <3> HIDE DEF P
    <3> QED  BY <3>1, FS_EmptySet
  <2>2. s \ {First(s)} \in SUBSET S /\ Cardinality(s \ {First(s)}) = n /\ First(s) \in S
    BY <1>f, <2>1, Smaller
  <2>3. SumFunctionOnSet(f, s \ {First(s)}) = SumFunctionOnSet(g, s \ {First(s)})
    BY <2>2
  <2> HIDE DEF P
  <2>4. /\ SumFunctionOnSet(f, s) = f[First(s)] + SumFunctionOnSet(f, s \ {First(s)})
        /\ SumFunctionOnSet(g, s) = g[First(s)] + SumFunctionOnSet(g, s \ {First(s)})
    BY <1>f, <2>1, SumFirst
  <2>5. f[First(s)] = g[First(s)]
    BY <2>2
  <2> QED  BY <2>3, <2>4, <2>5
<1> HIDE DEF P
<1>3. P = Nat
  <2>1. P \in SUBSET Nat
    BY DEF P
  <2> QED  BY <1>1, <1>2, <2>1, NatSetInduction
<1> QED  BY <1>3, <1>f DEF P
-----------------------------------------------------------------------------

(* The ledger's sums *)

\* One more ledger row adds its delta.
LEMMA SumOfAdd ==
    ASSUME NEW S \in SUBSET LedgerRow, IsFiniteSet(S), NEW r \in LedgerRow, r \notin S
    PROVE  SumOf(S \union {r}) = SumOf(S) + r.delta /\ SumOf(S) \in Int
<1> DEFINE f == [q \in S \union {r} |-> q.delta]
           g == [q \in S |-> q.delta]
<1>1. \A q \in S \union {r} : f[q] \in Int /\ f[q] = q.delta
  BY DEF LedgerRow
<1>2. \A q \in S : g[q] = f[q] /\ g[q] \in Int
  BY <1>1
<1>3. IsFiniteSet(S \union {r}) /\ (S \union {r}) \ {r} = S
  BY FS_AddElement
<1>4. SumOf(S \union {r}) = SumFunctionOnSet(f, S \union {r}) /\ SumOf(S) = SumFunctionOnSet(g, S)
  BY DEF SumOf
<1> HIDE DEF f, g
<1>5. SumFunctionOnSet(f, S \union {r}) = f[r] + SumFunctionOnSet(f, (S \union {r}) \ {r})
  BY <1>1, <1>3, SumRemove
<1>6. SumFunctionOnSet(f, S) = SumFunctionOnSet(g, S)
  BY <1>2, SumSame
<1>7. SumFunctionOnSet(g, S) \in Int
  BY <1>2, SumType
<1>8. f[r] = r.delta /\ r.delta \in Int
  BY <1>1
<1>9. \A x, y \in Int : x + y = y + x
  OBVIOUS
<1>10. SumOf(S \union {r}) = r.delta + SumOf(S) /\ SumOf(S) \in Int
  BY <1>3, <1>4, <1>5, <1>6, <1>7, <1>8
<1> QED  BY <1>8, <1>9, <1>10, Zenon

\* A change to what one cart holds changes the total by as much.
LEMMA HeldChange ==
    ASSUME NEW a, NEW b, \A d \in Carts : a[d] \in Int /\ b[d] \in Int, NEW c \in Carts,
           \A d \in Carts \ {c} : b[d] = a[d]
    PROVE  /\ SumFunctionOnSet(a, Carts) \in Int
           /\ SumFunctionOnSet(b, Carts) = SumFunctionOnSet(a, Carts) + b[c] - a[c]
<1>1. IsFiniteSet(Carts) /\ IsFiniteSet(Carts \ {c})
  BY InventoryConstants, FS_Subset
<1>2. /\ SumFunctionOnSet(a, Carts) = a[c] + SumFunctionOnSet(a, Carts \ {c})
      /\ SumFunctionOnSet(b, Carts) = b[c] + SumFunctionOnSet(b, Carts \ {c})
  BY <1>1, SumRemove
<1>3. SumFunctionOnSet(a, Carts \ {c}) = SumFunctionOnSet(b, Carts \ {c})
  BY <1>1, SumSame
<1>4. SumFunctionOnSet(a, Carts \ {c}) \in Int
  BY <1>1, SumType
<1>5. SumFunctionOnSet(a, Carts) \in Int
  BY <1>1, SumType
<1>6. a[c] \in Int /\ b[c] \in Int
  OBVIOUS
<1>7. \A x, y, z \in Int : x + z = (y + z) + x - y
  OBVIOUS
<1>8. b[c] + SumFunctionOnSet(a, Carts \ {c}) = (a[c] + SumFunctionOnSet(a, Carts \ {c})) + b[c] - a[c]
  BY <1>4, <1>6, <1>7, Zenon
<1> QED  BY <1>2, <1>3, <1>5, <1>8

\* A nonempty ledger has a latest row.
LEMMA LastRow ==
    ASSUME rows \subseteq LedgerRow, rows # {}
    PROVE  \E r \in rows : \A q \in rows : q.stamp <= r.stamp
<1> DEFINE T == {MaxTx - r.stamp : r \in rows}
<1>1. \A r \in rows : r.stamp \in 1..MaxTx /\ MaxTx - r.stamp \in Nat
  BY InventoryConstants DEF LedgerRow
<1>2. T \in SUBSET Nat /\ T # {}
  BY <1>1
<1>3. PICK x \in T : \A y \in T : x <= y
  BY <1>2, NatMinimum
<1>4. PICK r \in rows : x = MaxTx - r.stamp
  OBVIOUS
<1>5. \A q \in rows : MaxTx - r.stamp <= MaxTx - q.stamp
  BY <1>3, <1>4
<1>6. \A q \in rows : q.stamp <= r.stamp
  BY <1>1, <1>5, InventoryConstants
<1> QED  BY <1>6

LEMMA LastBalanceType ==
    ASSUME rows \subseteq LedgerRow
    PROVE  LastBalance \in Nat
<1>1. CASE rows = {}
  BY <1>1 DEF LastBalance
<1>2. CASE rows # {}
  <2> DEFINE l == CHOOSE r \in rows : \A q \in rows : q.stamp <= r.stamp
  <2>1. l \in rows
    BY <1>2, LastRow
  <2>2. LastBalance = l.balance
    BY <1>2 DEF LastBalance
  <2> HIDE DEF l
  <2> QED  BY <2>1, <2>2 DEF LedgerRow
<1> QED  BY <1>1, <1>2

-----------------------------------------------------------------------------
(* The inductive invariant *)

\* The statements of a transaction that writes the ledger.
Working == {"balance", "check", "hold", "delete", "previous", "commit"}

\* now() tells transactions apart, and a transaction that is open from those
\* whose row is in the ledger.
StampsDiffer ==
    /\ \A r \in rows : r.stamp <= clock
    /\ \A h \in Handlers : handler[h].pc \in Working =>
          /\ handler[h].stamp \in 1..clock
          /\ \A r \in rows : r.stamp # handler[h].stamp
          /\ \A g \in Handlers \ {h} :
                handler[g].pc \in Working => handler[g].stamp # handler[h].stamp

\* What a transaction has read and locked by the time it writes the ledger row:
\* a release gives back what the locked reservation held.
GoodHandler(h) ==
    LET t == handler[h] IN
    /\ t.pc \in {"balance", "check", "hold"} => t.op = "reserve"
    /\ t.pc = "delete" => t.op = "release"
    /\ t.pc \in {"previous", "commit"} => t.op \in {"reserve", "release", "adjust"}
    /\ t.op = "reserve" => t.cart \in Carts /\ t.delta < 0
    /\ t.op = "release" => t.cart \in Carts
    /\ t.op = "adjust" => t.cart = NoCart
    /\ t.pc \in {"previous", "commit"} /\ t.op \in {"reserve", "release"} => lock[t.cart] = h
    /\ t.pc \in {"previous", "commit"} /\ t.op = "release" => t.delta = held[t.cart]
    /\ t.pc = "commit" => t.read + t.delta >= 0

\* Stock received or written off is what the ledger sums to and carts hold.
StockIsAccounted == SumOf(rows) + TotalHeld = OnHand

\* While transactions are serial the open one is the only one, it is younger than
\* every row, and the balance it read is still the latest.
SerialInv == ~overlapped =>
    /\ \A g, h \in Handlers : Open(g) /\ Open(h) => g = h
    /\ LastBalance = SumOf(rows)
    /\ \A h \in Handlers : handler[h].pc \in Working => \A r \in rows : r.stamp < handler[h].stamp
    /\ \A h \in Handlers : handler[h].pc = "commit" => handler[h].read = LastBalance

InventoryInv ==
    /\ TypeOK
    /\ IsFiniteSet(rows)
    /\ StampsDiffer
    /\ \A h \in Handlers : GoodHandler(h)
    /\ ReservationsMatchLedger
    /\ StockIsAccounted
    /\ SerialInv

-----------------------------------------------------------------------------
(* Steps *)

\* The type invariant for a step that rewrites one handler's local state.
LEMMA HandlerStep ==
    ASSUME TypeOK, NEW h \in Handlers, NEW x \in HandlerState,
           handler' = [handler EXCEPT ![h] = x]
    PROVE  /\ handler' \in [Handlers -> HandlerState]
           /\ handler'[h] = x
           /\ \A g \in Handlers \ {h} : handler'[g] = handler[g]
<1>1. handler \in [Handlers -> HandlerState]
  BY DEF TypeOK
<1> HIDE DEF HandlerState
<1> QED  BY <1>1

\* Other transactions keep what they hold when h leaves their locks alone.
LEMMA OtherHandlers ==
    ASSUME InventoryInv, NEW h \in Handlers,
           \A g \in Handlers \ {h} : handler'[g] = handler[g],
           \A c \in Carts, g \in Handlers \ {h} :
              lock[c] = g => lock'[c] = g /\ held'[c] = held[c],
           GoodHandler(h)'
    PROVE  \A g \in Handlers : GoodHandler(g)'
<1> SUFFICES ASSUME NEW g \in Handlers, g # h PROVE GoodHandler(g)'
  OBVIOUS
<1>1. GoodHandler(g) /\ handler'[g] = handler[g] /\ g \in Handlers \ {h}
  BY DEF InventoryInv
<1>2. ASSUME handler[g].pc \in {"previous", "commit"}, handler[g].op \in {"reserve", "release"}
      PROVE  lock'[handler[g].cart] = g /\ held'[handler[g].cart] = held[handler[g].cart]
  <2>1. handler[g].cart \in Carts /\ lock[handler[g].cart] = g
    BY <1>1, <1>2 DEF GoodHandler
  <2> QED  BY <1>1, <2>1
<1> QED  BY <1>1, <1>2 DEF GoodHandler

\* A step of h that commits nothing.
LEMMA QuietStep ==
    ASSUME InventoryInv, NEW h \in Handlers, TypeOK',
           rows' = rows, held' = held, clock <= clock',
           \A g \in Handlers \ {h} : handler'[g] = handler[g],
           \A c \in Carts, g \in Handlers \ {h} : lock[c] = g => lock'[c] = g,
           GoodHandler(h)',
           handler'[h].pc \in Working =>
              \/ handler[h].pc \in Working /\ handler'[h].stamp = handler[h].stamp
              \/ clock' = clock + 1 /\ handler'[h].stamp = clock',
           ~overlapped' => ~overlapped,
           ~overlapped' /\ handler'[h].pc # "idle" /\ ~Open(h) => \A g \in Handlers : ~Open(g),
           ~overlapped' /\ handler'[h].pc = "commit" => handler'[h].read = LastBalance
    PROVE  InventoryInv'
<1>1. \A g \in Handlers : GoodHandler(g)'
  BY OtherHandlers
<1>2. clock \in Nat /\ clock' \in Nat
  BY InventoryConstants DEF InventoryInv, TypeOK
<1>3. \A r \in rows : r.stamp \in Nat /\ r.stamp <= clock
  BY DEF InventoryInv, TypeOK, StampsDiffer, LedgerRow
<1>4. \A g \in Handlers : handler[g].stamp \in Nat /\ handler'[g].stamp \in Nat
  <2>1. handler[h] \in HandlerState /\ handler'[h] \in HandlerState
        /\ \A g \in Handlers : handler[g] \in HandlerState /\ handler'[g] \in HandlerState
    BY DEF InventoryInv, TypeOK
  <2> QED  BY <2>1, InventoryConstants DEF HandlerState
<1>5. StampsDiffer'
  <2>1. \A r \in rows' : r.stamp <= clock'
    BY <1>2, <1>3
  <2>2. ASSUME NEW g \in Handlers, handler'[g].pc \in Working
        PROVE  /\ handler'[g].stamp \in 1..clock'
               /\ \A r \in rows : r.stamp # handler'[g].stamp
    <3>1. CASE handler[g].pc \in Working /\ handler'[g].stamp = handler[g].stamp
      BY <1>2, <3>1 DEF InventoryInv, StampsDiffer
    <3>2. CASE clock' = clock + 1 /\ handler'[g].stamp = clock'
      BY <1>2, <1>3, <3>2
    <3> QED  BY <2>2, <3>1, <3>2
  <2>3. ASSUME NEW f \in Handlers, NEW g \in Handlers, f # g,
               handler'[f].pc \in Working, handler'[g].pc \in Working
        PROVE  handler'[f].stamp # handler'[g].stamp
    <3>1. ASSUME NEW k \in Handlers \ {h}, handler'[k].pc \in Working, handler'[h].pc \in Working
          PROVE  handler'[k].stamp # handler'[h].stamp
      <4>1. handler[k].pc \in Working /\ handler'[k].stamp = handler[k].stamp
            /\ handler[k].stamp \in 1..clock
        BY <3>1 DEF InventoryInv, StampsDiffer
      <4>2. CASE handler[h].pc \in Working /\ handler'[h].stamp = handler[h].stamp
        BY <4>1, <4>2 DEF InventoryInv, StampsDiffer
      <4>3. CASE clock' = clock + 1 /\ handler'[h].stamp = clock'
        BY <1>2, <4>1, <4>3
      <4> QED  BY <3>1, <4>2, <4>3
    <3>2. CASE f # h /\ g # h
      BY <2>3, <3>2 DEF InventoryInv, StampsDiffer
    <3> QED  BY <2>3, <3>1, <3>2
  <2> QED  BY <2>1, <2>2, <2>3 DEF StampsDiffer
<1>6. IsFiniteSet(rows)' /\ ReservationsMatchLedger' /\ StockIsAccounted'
  BY DEF InventoryInv, ReservationsMatchLedger, StockIsAccounted, SumOf, TotalHeld, OnHand
<1>7. SerialInv'
  <2> SUFFICES ASSUME ~overlapped'
               PROVE  /\ \A f, g \in Handlers : Open(f)' /\ Open(g)' => f = g
                      /\ LastBalance' = SumOf(rows)'
                      /\ \A g \in Handlers : handler'[g].pc \in Working =>
                            \A r \in rows' : r.stamp < handler'[g].stamp
                      /\ \A g \in Handlers : handler'[g].pc = "commit" => handler'[g].read = LastBalance'
    BY DEF SerialInv
  <2>1. ~overlapped /\ SerialInv
    BY DEF InventoryInv
  <2>2. LastBalance' = LastBalance /\ SumOf(rows)' = SumOf(rows)
    BY DEF LastBalance, SumOf
  <2>3. ASSUME NEW f \in Handlers, NEW g \in Handlers, Open(f)', Open(g)' PROVE f = g
    <3>1. \A k \in Handlers \ {h} : Open(k)' => Open(k)
      BY DEF Open
    <3>2. Open(h)' => Open(h) \/ \A k \in Handlers : ~Open(k)
      BY DEF Open
    <3> QED  BY <2>1, <2>3, <3>1, <3>2 DEF SerialInv
  <2>4. ASSUME NEW g \in Handlers, handler'[g].pc \in Working, NEW r \in rows
        PROVE  r.stamp < handler'[g].stamp
    <3>1. CASE handler[g].pc \in Working /\ handler'[g].stamp = handler[g].stamp
      BY <2>1, <3>1 DEF SerialInv
    <3>2. CASE clock' = clock + 1 /\ handler'[g].stamp = clock'
      BY <1>2, <1>3, <3>2
    <3> QED  BY <2>4, <3>1, <3>2
  <2>5. \A g \in Handlers : handler'[g].pc = "commit" => handler'[g].read = LastBalance
    BY <2>1 DEF SerialInv
  <2> QED  BY <2>1, <2>2, <2>3, <2>4, <2>5 DEF SerialInv
<1> QED  BY <1>1, <1>5, <1>6, <1>7 DEF InventoryInv

\* A request that begins a transaction.
LEMMA BeginStep ==
    ASSUME InventoryInv, NEW h \in Handlers, NEW q \in HandlerState, Begin(h, q),
           \/ q.pc = "balance" /\ q.op = "reserve" /\ q.cart \in Carts /\ q.delta < 0
           \/ q.pc = "delete" /\ q.op = "release" /\ q.cart \in Carts
           \/ q.pc = "previous" /\ q.op = "adjust" /\ q.cart = NoCart
    PROVE  InventoryInv'
<1> DEFINE x == [q EXCEPT !.stamp = clock + 1]
<1>1. /\ handler[h].pc = "idle" /\ clock' = clock + 1 /\ clock < MaxTx
      /\ handler' = [handler EXCEPT ![h] = x]
      /\ rows' = rows /\ held' = held /\ expired' = expired /\ lock' = lock
  BY DEF Begin, Open
<1>2. clock \in 0..MaxTx /\ TypeOK /\ MaxTx \in Nat
  BY InventoryConstants DEF InventoryInv, TypeOK
<1>3. x \in HandlerState /\ x.pc = q.pc /\ x.op = q.op /\ x.cart = q.cart /\ x.delta = q.delta
      /\ x.stamp = clock + 1
  BY <1>1, <1>2 DEF HandlerState
<1> HIDE DEF x
<1>4. /\ handler' \in [Handlers -> HandlerState] /\ handler'[h] = x
      /\ \A g \in Handlers \ {h} : handler'[g] = handler[g]
  BY <1>1, <1>2, <1>3, HandlerStep
<1>5. overlapped' \in BOOLEAN /\ (~overlapped' => ~overlapped /\ \A g \in Handlers : ~Open(g))
  BY DEF Begin
<1>6. clock' \in 0..MaxTx /\ clock <= clock'
  BY <1>1, <1>2
<1>7. TypeOK'
  <2>1. rows' \subseteq LedgerRow /\ held' \in [Carts -> Nat] /\ expired' \subseteq Carts
        /\ lock' \in [Carts -> Handlers \union {NoHandler}]
    BY <1>1, <1>2 DEF TypeOK
  <2> QED  BY <1>4, <1>5, <1>6, <2>1 DEF TypeOK
<1>8. GoodHandler(h)'
  <2>1. x.pc \notin {"hold", "check", "commit"} /\ (x.pc = "previous" => x.op = "adjust")
    BY <1>3
  <2> QED  BY <1>3, <1>4, <2>1, InventoryConstants DEF GoodHandler
<1>9. handler'[h].pc # "commit" /\ handler'[h].stamp = clock'
  BY <1>1, <1>3, <1>4
<1> QED  BY <1>1, <1>4, <1>5, <1>6, <1>7, <1>8, <1>9, QuietStep

\* A transaction ends without a commit.
LEMMA RollbackStep ==
    ASSUME InventoryInv, NEW h \in Handlers, Rollback(h)
    PROVE  InventoryInv'
<1>1. /\ handler' = [handler EXCEPT ![h] = Idle]
      /\ rows' = rows /\ held' = held /\ expired' = expired
      /\ clock' = clock /\ overlapped' = overlapped
  BY DEF Rollback
<1>2. lock' = [c \in Carts |-> IF lock[c] = h THEN NoHandler ELSE lock[c]]
  BY DEF Rollback
<1>3. TypeOK /\ clock \in Nat
  BY InventoryConstants DEF InventoryInv, TypeOK
<1>4. Idle \in HandlerState /\ Idle.pc = "idle" /\ Idle.op = "none"
  BY InventoryConstants DEF Idle, HandlerState
<1>5. /\ handler' \in [Handlers -> HandlerState] /\ handler'[h] = Idle
      /\ \A g \in Handlers \ {h} : handler'[g] = handler[g]
  BY <1>1, <1>3, <1>4, HandlerStep
<1>6. lock' \in [Carts -> Handlers \union {NoHandler}]
      /\ \A c \in Carts, g \in Handlers \ {h} : lock[c] = g => lock'[c] = g
  BY <1>2, <1>3 DEF TypeOK
<1>7. TypeOK'
  BY <1>1, <1>3, <1>5, <1>6 DEF TypeOK
<1>8. GoodHandler(h)' /\ handler'[h].pc = "idle" /\ handler'[h].pc \notin Working
  BY <1>4, <1>5 DEF GoodHandler, Working
<1>9. clock <= clock'
  BY <1>1, <1>3
<1> QED  BY <1>1, <1>5, <1>6, <1>7, <1>8, <1>9, QuietStep

\* A statement of an open transaction that writes no ledger row: h gets local
\* state x and perhaps the lock of a free reservation.
LEMMA StatementStep ==
    ASSUME InventoryInv, NEW h \in Handlers, NEW x \in HandlerState,
           handler[h].pc \in Working, x.stamp = handler[h].stamp,
           handler' = [handler EXCEPT ![h] = x],
           UNCHANGED <<rows, held, expired, clock, overlapped>>,
           lock' = lock \/ \E c \in Carts : lock[c] = NoHandler /\ lock' = [lock EXCEPT ![c] = h],
           GoodHandler(h)',
           x.pc = "commit" => x.read = LastBalance
    PROVE  InventoryInv'
<1>1. TypeOK /\ clock \in Nat
  BY InventoryConstants DEF InventoryInv, TypeOK
<1>2. /\ handler' \in [Handlers -> HandlerState] /\ handler'[h] = x
      /\ \A g \in Handlers \ {h} : handler'[g] = handler[g]
  BY <1>1, HandlerStep
<1>3. lock' \in [Carts -> Handlers \union {NoHandler}]
      /\ \A c \in Carts, g \in Handlers \ {h} : lock[c] = g => lock'[c] = g
  BY <1>1, InventoryConstants DEF TypeOK
<1>4. TypeOK'
  BY <1>1, <1>2, <1>3 DEF TypeOK
<1>5. Open(h) /\ clock <= clock'
  BY <1>1 DEF Open, Working
<1> QED  BY <1>2, <1>3, <1>4, <1>5, QuietStep

LEMMA RequestStep ==
    ASSUME InventoryInv, NEW h \in Handlers, Request(h)
    PROVE  InventoryInv'
<1>0. TypeOK /\ MaxTx \in Nat /\ MaxQuantity \in Nat /\ Deltas \subseteq Int
  BY InventoryConstants DEF InventoryInv
<1>i. Idle \in HandlerState /\ Idle.cart = NoCart
  BY <1>0 DEF Idle, HandlerState
<1>1. CASE ReserveStock(h)
  <2>1. PICK c \in Carts, q \in 1..MaxQuantity :
           Begin(h, [Idle EXCEPT !.pc = "balance", !.op = "reserve", !.cart = c, !.delta = -q])
    BY <1>1 DEF ReserveStock
  <2> DEFINE r == [Idle EXCEPT !.pc = "balance", !.op = "reserve", !.cart = c, !.delta = -q]
  <2>2. -q \in Int /\ -q < 0
    BY <1>0
  <2>3. r \in HandlerState /\ r.pc = "balance" /\ r.op = "reserve" /\ r.cart \in Carts /\ r.delta = -q
    BY <1>i, <2>2 DEF HandlerState
  <2> HIDE DEF r
  <2>4. Begin(h, r)
    BY <2>1 DEF r
  <2> QED  BY <2>2, <2>3, <2>4, BeginStep
<1>2. CASE ReleaseStock(h)
  <2>1. PICK c \in Carts : Begin(h, [Idle EXCEPT !.pc = "delete", !.op = "release", !.cart = c])
    BY <1>2 DEF ReleaseStock
  <2> DEFINE r == [Idle EXCEPT !.pc = "delete", !.op = "release", !.cart = c]
  <2>3. r \in HandlerState /\ r.pc = "delete" /\ r.op = "release" /\ r.cart \in Carts
    BY <1>i DEF HandlerState
  <2> HIDE DEF r
  <2>4. Begin(h, r)
    BY <2>1 DEF r
  <2> QED  BY <2>3, <2>4, BeginStep
<1>3. CASE AdjustStock(h)
  <2>1. PICK d \in Deltas : Begin(h, [Idle EXCEPT !.pc = "previous", !.op = "adjust", !.delta = d])
    BY <1>3 DEF AdjustStock
  <2> DEFINE r == [Idle EXCEPT !.pc = "previous", !.op = "adjust", !.delta = d]
  <2>2. d \in Int
    BY <1>0
  <2>3. r \in HandlerState /\ r.pc = "previous" /\ r.op = "adjust" /\ r.cart = NoCart
    BY <1>i, <2>2 DEF HandlerState
  <2> HIDE DEF r
  <2>4. Begin(h, r)
    BY <2>1 DEF r
  <2> QED  BY <2>3, <2>4, BeginStep
<1>4. CASE Sweep(h)
  <2> DEFINE x == [Idle EXCEPT !.pc = "sweep", !.op = "sweep"]
  <2>1. x \in HandlerState /\ x.pc = "sweep" /\ x.op = "sweep"
    BY <1>i DEF HandlerState
  <2>2. /\ handler' = [handler EXCEPT ![h] = x] /\ rows' = rows /\ held' = held
        /\ expired' = expired /\ clock' = clock /\ \A c \in expired : lock[c] = NoHandler
        /\ lock' = [c \in Carts |-> IF c \in expired THEN h ELSE lock[c]]
    BY <1>4 DEF Sweep
  <2> HIDE DEF x
  <2>3. /\ handler' \in [Handlers -> HandlerState] /\ handler'[h] = x
        /\ \A g \in Handlers \ {h} : handler'[g] = handler[g]
    BY <1>0, <2>1, <2>2, HandlerStep
  <2>4. /\ lock' \in [Carts -> Handlers \union {NoHandler}]
        /\ \A c \in Carts, g \in Handlers \ {h} : lock[c] = g => lock'[c] = g
    BY <1>0, <2>2, InventoryConstants DEF TypeOK
  <2>5. overlapped' \in BOOLEAN /\ (~overlapped' => ~overlapped /\ \A g \in Handlers : ~Open(g))
    BY <1>4 DEF Sweep
  <2>6. TypeOK' /\ clock <= clock'
    BY <1>0, <2>2, <2>3, <2>4, <2>5 DEF TypeOK
  <2>7. GoodHandler(h)' /\ handler'[h].pc \notin Working /\ handler'[h].pc # "commit"
    BY <2>1, <2>3 DEF GoodHandler, Working
  <2> QED  BY <2>2, <2>3, <2>4, <2>5, <2>6, <2>7, QuietStep
<1> QED  BY <1>1, <1>2, <1>3, <1>4 DEF Request

LEMMA StatementsStep ==
    ASSUME InventoryInv, NEW h \in Handlers, Statement(h) \/ Abort(h), ~Commit(h)
    PROVE  InventoryInv'
<1> DEFINE t == handler[h]
<1>0. /\ TypeOK /\ rows \subseteq LedgerRow /\ t \in HandlerState /\ GoodHandler(h)
      /\ held \in [Carts -> Nat] /\ handler \in [Handlers -> HandlerState]
  BY DEF InventoryInv, TypeOK
<1>1. LastBalance \in Int
  BY <1>0, LastBalanceType
<1>2. CASE Rollback(h)
  BY <1>2, RollbackStep
<1>3. CASE ReadBalance(h)
  <2> DEFINE x == [t EXCEPT !.pc = "check", !.read = LastBalance]
  <2>1. x \in HandlerState /\ x.stamp = t.stamp /\ x.pc = "check" /\ x.op = t.op
        /\ x.cart = t.cart /\ x.delta = t.delta
    BY <1>0, <1>1 DEF HandlerState
  <2>2. handler' = [handler EXCEPT ![h] = x] /\ lock' = lock /\ t.pc \in Working /\ t.pc = "balance"
        /\ UNCHANGED <<rows, held, expired, clock, overlapped>>
    BY <1>3 DEF ReadBalance, Working
  <2> HIDE DEF x
  <2>3. handler'[h] = x
    BY <1>0, <2>1, <2>2, HandlerStep
  <2>4. GoodHandler(h)'
    BY <1>0, <2>1, <2>2, <2>3 DEF GoodHandler
  <2> QED  BY <2>1, <2>2, <2>4, StatementStep
<1>4. CASE CheckStock(h) /\ ~Rollback(h)
  <2> DEFINE x == [t EXCEPT !.pc = "hold"]
  <2>1. x \in HandlerState /\ x.stamp = t.stamp /\ x.pc = "hold" /\ x.op = t.op
        /\ x.cart = t.cart /\ x.delta = t.delta
    BY <1>0 DEF HandlerState
  <2>2. handler' = [handler EXCEPT ![h] = x] /\ lock' = lock /\ t.pc \in Working /\ t.pc = "check"
        /\ UNCHANGED <<rows, held, expired, clock, overlapped>>
    BY <1>4 DEF CheckStock, Working
  <2> HIDE DEF x
  <2>3. handler'[h] = x
    BY <1>0, <2>1, <2>2, HandlerStep
  <2>4. GoodHandler(h)'
    BY <1>0, <2>1, <2>2, <2>3 DEF GoodHandler
  <2> QED  BY <2>1, <2>2, <2>4, StatementStep
<1>5. CASE Hold(h)
  <2> DEFINE x == [t EXCEPT !.pc = "previous"]
  <2>1. x \in HandlerState /\ x.stamp = t.stamp /\ x.pc = "previous" /\ x.op = t.op
        /\ x.cart = t.cart /\ x.delta = t.delta
    BY <1>0 DEF HandlerState
  <2>2. /\ handler' = [handler EXCEPT ![h] = x] /\ t.pc \in Working /\ t.pc = "hold"
        /\ lock[t.cart] = NoHandler /\ lock' = [lock EXCEPT ![t.cart] = h]
        /\ UNCHANGED <<rows, held, expired, clock, overlapped>>
    BY <1>5 DEF Hold, Working
  <2> HIDE DEF x
  <2>3. handler'[h] = x
    BY <1>0, <2>1, <2>2, HandlerStep
  <2>4. t.op = "reserve" /\ t.cart \in Carts /\ t.delta < 0
    BY <1>0, <2>2 DEF GoodHandler
  <2>5. lock'[t.cart] = h
    BY <1>0, <2>2, <2>4 DEF TypeOK
  <2>6. GoodHandler(h)'
    BY <2>1, <2>3, <2>4, <2>5 DEF GoodHandler
  <2> QED  BY <2>1, <2>2, <2>4, <2>6, StatementStep
<1>6. CASE Delete(h)
  <2> DEFINE x == [t EXCEPT !.pc = "previous", !.delta = held[t.cart]]
  <2>1. t.pc = "delete" /\ t.op = "release" /\ t.cart \in Carts /\ t.pc \in Working
    BY <1>0, <1>6 DEF GoodHandler, Delete, Working
  <2>2. held[t.cart] \in Int
    BY <1>0, <2>1
  <2>3. x \in HandlerState /\ x.stamp = t.stamp /\ x.pc = "previous" /\ x.op = t.op
        /\ x.cart = t.cart /\ x.delta = held[t.cart]
    BY <1>0, <2>2 DEF HandlerState
  <2>4. /\ handler' = [handler EXCEPT ![h] = x]
        /\ lock[t.cart] = NoHandler /\ lock' = [lock EXCEPT ![t.cart] = h]
        /\ UNCHANGED <<rows, held, expired, clock, overlapped>>
    BY <1>6 DEF Delete
  <2> HIDE DEF x
  <2>5. handler'[h] = x
    BY <1>0, <2>3, <2>4, HandlerStep
  <2>6. lock'[t.cart] = h
    BY <1>0, <2>1, <2>4 DEF TypeOK
  <2>7. GoodHandler(h)'
    BY <2>1, <2>3, <2>4, <2>5, <2>6 DEF GoodHandler
  <2> QED  BY <2>1, <2>3, <2>4, <2>7, StatementStep
<1>7. CASE ReadPrevious(h) /\ ~Rollback(h)
  <2> DEFINE x == [t EXCEPT !.pc = "commit", !.read = LastBalance]
  <2>1. x \in HandlerState /\ x.stamp = t.stamp /\ x.pc = "commit" /\ x.op = t.op
        /\ x.cart = t.cart /\ x.delta = t.delta /\ x.read = LastBalance
    BY <1>0, <1>1 DEF HandlerState
  <2>2. /\ handler' = [handler EXCEPT ![h] = x] /\ lock' = lock /\ t.pc \in Working
        /\ t.pc = "previous" /\ LastBalance + t.delta >= 0
        /\ UNCHANGED <<rows, held, expired, clock, overlapped>>
    BY <1>7 DEF ReadPrevious, Working, ApplyDelta
  <2> HIDE DEF x
  <2>3. handler'[h] = x
    BY <1>0, <2>1, <2>2, HandlerStep
  <2>4. GoodHandler(h)'
    BY <1>0, <2>1, <2>2, <2>3 DEF GoodHandler
  <2> QED  BY <2>1, <2>2, <2>4, StatementStep
<1> QED
  BY <1>2, <1>3, <1>4, <1>5, <1>6, <1>7 DEF Statement, Abort, SweepFails, DeleteMissed

\* The ledger row and the change to the reservation become visible.
LEMMA CommitStep ==
    ASSUME InventoryInv, NEW h \in Handlers, Commit(h)
    PROVE  InventoryInv'
<1> DEFINE t == handler[h]
           n == [stamp |-> t.stamp, cart |-> t.cart, delta |-> t.delta, balance |-> t.read + t.delta]
<1>0. /\ TypeOK /\ rows \subseteq LedgerRow /\ t \in HandlerState /\ GoodHandler(h)
      /\ held \in [Carts -> Nat] /\ handler \in [Handlers -> HandlerState]
      /\ lock \in [Carts -> Handlers \union {NoHandler}]
      /\ IsFiniteSet(rows) /\ StampsDiffer /\ clock \in 0..MaxTx /\ MaxTx \in Nat
  BY InventoryConstants DEF InventoryInv, TypeOK
<1>1. /\ t.pc = "commit" /\ rows' = rows \union {n}
      /\ held' = [c \in Carts |-> CASE c # t.cart -> held[c]
                                    [] c = t.cart /\ t.op = "reserve" -> held[c] - t.delta
                                    [] OTHER -> 0]
      /\ expired' = expired \ {t.cart}
      /\ handler' = [handler EXCEPT ![h] = Idle] /\ clock' = clock /\ overlapped' = overlapped
      /\ lock' = [c \in Carts |-> IF lock[c] = h THEN NoHandler ELSE lock[c]]
  BY DEF Commit
<1>2. /\ t.op \in {"reserve", "release", "adjust"} /\ t.read + t.delta >= 0
      /\ (t.op = "reserve" => t.cart \in Carts /\ t.delta < 0)
      /\ (t.op = "release" => t.cart \in Carts /\ t.delta = held[t.cart])
      /\ (t.op = "adjust" => t.cart = NoCart)
      /\ (t.op # "adjust" => lock[t.cart] = h)
  BY <1>0, <1>1 DEF GoodHandler
<1>3. t.stamp \in 1..clock /\ \A r \in rows : r.stamp # t.stamp
  BY <1>0, <1>1 DEF StampsDiffer, Working
<1>t. /\ t.delta \in Int /\ t.read \in Int /\ t.cart \in Carts \union {NoCart}
      /\ t.stamp \in 1..MaxTx /\ t.read + t.delta \in Nat
  BY <1>0, <1>2, <1>3 DEF HandlerState
<1>4. n \in LedgerRow /\ n \notin rows /\ n.stamp = t.stamp /\ n.cart = t.cart /\ n.delta = t.delta
      /\ n.balance = t.read + t.delta
  BY <1>t, <1>3 DEF LedgerRow
<1> HIDE DEF n
<1>5. \A c \in Carts : /\ c # t.cart => held'[c] = held[c]
                       /\ c = t.cart => held'[c] = held[c] - t.delta
  <2> SUFFICES ASSUME NEW c \in Carts
               PROVE  (c # t.cart => held'[c] = held[c]) /\ (c = t.cart => held'[c] = held[c] - t.delta)
    OBVIOUS
  <2>1. held[c] \in Nat
    BY <1>0
  <2>2. CASE c # t.cart
    BY <1>1, <2>2
  <2>3. CASE c = t.cart /\ t.op = "reserve"
    BY <1>1, <2>3
  <2>4. CASE c = t.cart /\ t.op # "reserve"
    <3>1. t.op = "release" /\ t.delta = held[c]
      BY <1>2, <2>4, InventoryConstants
    <3>2. held'[c] = 0
      BY <1>1, <2>4
    <3> QED  BY <2>1, <2>4, <3>1, <3>2
  <2> QED  BY <2>2, <2>3, <2>4
<1>6. held' \in [Carts -> Nat]
  <2>1. ASSUME NEW c \in Carts PROVE held'[c] \in Nat
    <3>1. held[c] \in Nat
      BY <1>0
    <3>2. CASE c # t.cart
      BY <1>5, <3>1, <3>2
    <3>3. CASE c = t.cart /\ t.op = "reserve"
      BY <1>2, <1>5, <1>t, <3>1, <3>3
    <3>4. CASE c = t.cart /\ t.op # "reserve"
      BY <1>1, <3>4
    <3> QED  BY <3>2, <3>3, <3>4
  <2>2. DOMAIN held' = Carts /\ held' = [c \in Carts |-> held'[c]]
    BY <1>1
  <2> QED  BY <2>1, <2>2
<1>7. Idle \in HandlerState /\ Idle.pc = "idle" /\ Idle.op = "none"
  BY <1>0 DEF Idle, HandlerState
<1>8. /\ handler' \in [Handlers -> HandlerState] /\ handler'[h] = Idle
      /\ \A g \in Handlers \ {h} : handler'[g] = handler[g]
  BY <1>0, <1>1, <1>7, HandlerStep
<1>9. TypeOK'
  <2>1. rows' \subseteq LedgerRow
    BY <1>0, <1>1, <1>4
  <2>2. lock' \in [Carts -> Handlers \union {NoHandler}]
    BY <1>0, <1>1
  <2>3. expired' \subseteq Carts /\ clock' \in 0..MaxTx /\ overlapped' \in BOOLEAN
    BY <1>0, <1>1 DEF TypeOK
  <2> QED  BY <1>6, <1>8, <2>1, <2>2, <2>3 DEF TypeOK
<1>10. \A g \in Handlers : GoodHandler(g)'
  <2>1. \A c \in Carts, g \in Handlers \ {h} : lock[c] = g => lock'[c] = g /\ held'[c] = held[c]
    <3> SUFFICES ASSUME NEW c \in Carts, NEW g \in Handlers \ {h}, lock[c] = g
                 PROVE  lock'[c] = g /\ held'[c] = held[c]
      OBVIOUS
    <3>1. c # t.cart
      BY <1>2, InventoryConstants
    <3> QED  BY <1>1, <1>5, <3>1
  <2>2. GoodHandler(h)'
    BY <1>7, <1>8 DEF GoodHandler
  <2> QED  BY <1>8, <2>1, <2>2, OtherHandlers
<1>11. IsFiniteSet(rows')
  BY <1>0, <1>1, FS_AddElement
<1>12. StampsDiffer'
  <2>1. \A r \in rows' : r.stamp <= clock'
    BY <1>0, <1>1, <1>3, <1>4 DEF StampsDiffer
  <2>2. ASSUME NEW g \in Handlers, handler'[g].pc \in Working
        PROVE  g # h /\ handler[g].pc \in Working /\ handler'[g] = handler[g]
    BY <1>7, <1>8, <2>2 DEF Working
  <2>3. h \in Handlers /\ handler[h].pc \in Working
    BY <1>1 DEF Working
  <2>4. ASSUME NEW g \in Handlers, handler'[g].pc \in Working
        PROVE  /\ handler'[g].stamp \in 1..clock'
               /\ \A r \in rows' : r.stamp # handler'[g].stamp
               /\ \A f \in Handlers \ {g} : handler'[f].pc \in Working => handler'[f].stamp # handler'[g].stamp
    <3>1. g # h /\ handler[g].pc \in Working /\ handler'[g] = handler[g]
      BY <2>2, <2>4
    <3>2. /\ handler[g].stamp \in 1..clock /\ handler[g].stamp # t.stamp
          /\ \A r \in rows : r.stamp # handler[g].stamp
          /\ \A f \in Handlers \ {g} : handler[f].pc \in Working => handler[f].stamp # handler[g].stamp
      BY <1>0, <2>3, <3>1 DEF StampsDiffer
    <3>3. \A r \in rows' : r.stamp # handler[g].stamp
      BY <1>1, <1>4, <3>2
    <3> QED  BY <1>1, <2>2, <3>1, <3>2, <3>3
  <2> QED  BY <2>1, <2>4 DEF StampsDiffer
\* The sums.
<1> DEFINE Of(c) == {r \in rows : r.cart = c}
<1>13. ASSUME NEW c
       PROVE  /\ SumOf(Of(c)) \in Int
              /\ SumOf({r \in rows' : r.cart = c}) = SumOf(Of(c)) + (IF c = t.cart THEN t.delta ELSE 0)
  <2>1. Of(c) \in SUBSET LedgerRow /\ IsFiniteSet(Of(c)) /\ n \notin Of(c)
    <3>1. Of(c) \subseteq rows
      OBVIOUS
    <3> QED  BY <1>0, <1>4, <3>1, FS_Subset
  <2>2. SumOf(Of(c) \union {n}) = SumOf(Of(c)) + t.delta /\ SumOf(Of(c)) \in Int
    <3> HIDE DEF Of
    <3> QED  BY <1>4, <2>1, SumOfAdd
  <2>3. CASE c = t.cart
    <3>1. {r \in rows' : r.cart = c} = Of(c) \union {n}
      BY <1>1, <1>4, <2>3
    <3> QED  BY <2>2, <2>3, <3>1
  <2>4. CASE c # t.cart
    <3>1. {r \in rows' : r.cart = c} = Of(c)
      BY <1>1, <1>4, <2>4
    <3>2. SumOf(Of(c)) = SumOf(Of(c)) + 0
      <4> HIDE DEF Of
      <4> QED  BY <2>2
    <3> QED  BY <2>2, <2>4, <3>1, <3>2, Zenon
  <2> QED  BY <2>3, <2>4
<1>14. ReservationsMatchLedger'
  <2> SUFFICES ASSUME NEW c \in Carts PROVE held'[c] + SumOf({r \in rows' : r.cart = c}) = 0
    BY DEF ReservationsMatchLedger
  <2>1. held[c] + SumOf(Of(c)) = 0 /\ held[c] \in Int
    BY <1>0 DEF InventoryInv, ReservationsMatchLedger
  <2> HIDE DEF Of
  <2>2. CASE c # t.cart
    BY <1>5, <1>13, <2>1, <2>2
  <2>3. CASE c = t.cart
    BY <1>5, <1>13, <1>t, <2>1, <2>3
  <2> QED  BY <2>2, <2>3
<1>15. SumOf(rows') = SumOf(rows) + t.delta /\ SumOf(rows) \in Int
  BY <1>0, <1>1, <1>4, SumOfAdd
<1>16. StockIsAccounted'
  <2>1. SumOf(rows) + TotalHeld = SumOf(Of(NoCart))
    BY DEF InventoryInv, StockIsAccounted, OnHand
  <2>2. SumOf(rows') + TotalHeld' = SumOf({r \in rows' : r.cart = NoCart}) => StockIsAccounted'
    BY DEF StockIsAccounted, OnHand
  <2>3. \A d \in Carts : held[d] \in Int /\ held'[d] \in Int
    BY <1>0, <1>6
  <2> HIDE DEF Of
  <2>4. CASE t.cart \in Carts
    <3>1. TotalHeld \in Int /\ TotalHeld' = TotalHeld + held'[t.cart] - held[t.cart]
      BY <1>5, <2>3, <2>4, HeldChange DEF TotalHeld
    <3>2. held'[t.cart] = held[t.cart] - t.delta /\ held[t.cart] \in Int
      BY <1>5, <2>3, <2>4
    <3>3. TotalHeld' = TotalHeld - t.delta
      BY <1>t, <3>1, <3>2
    <3>4. SumOf({r \in rows' : r.cart = NoCart}) = SumOf(Of(NoCart))
      BY <1>13, <2>4, InventoryConstants
    <3> QED  BY <1>15, <1>t, <2>1, <2>2, <3>1, <3>3, <3>4
  <2>5. CASE t.cart = NoCart
    <3>1. \A c \in Carts : held'[c] = held[c]
      BY <1>5, <2>5, InventoryConstants
    <3>2. TotalHeld' = TotalHeld /\ TotalHeld \in Int
      BY <2>3, <3>1, SumSame, SumType, InventoryConstants DEF TotalHeld
    <3>3. SumOf({r \in rows' : r.cart = NoCart}) = SumOf(Of(NoCart)) + t.delta
      BY <1>13, <2>5
    <3>4. SumOf(Of(NoCart)) \in Int
      BY <1>13
    <3> QED  BY <1>15, <1>t, <2>1, <2>2, <3>2, <3>3, <3>4
  <2> QED  BY <1>t, <2>4, <2>5
<1>17. SerialInv'
  <2> SUFFICES ASSUME ~overlapped'
               PROVE  /\ \A f, g \in Handlers : Open(f)' /\ Open(g)' => f = g
                      /\ LastBalance' = SumOf(rows)'
                      /\ \A g \in Handlers : handler'[g].pc \in Working =>
                            \A r \in rows' : r.stamp < handler'[g].stamp
                      /\ \A g \in Handlers : handler'[g].pc = "commit" => handler'[g].read = LastBalance'
    BY DEF SerialInv
  <2>1. ~overlapped /\ SerialInv
    BY <1>1 DEF InventoryInv
  <2>2. \A g \in Handlers : ~Open(g)' /\ handler'[g].pc = "idle"
    <3>1. Open(h)
      BY <1>1 DEF Open
    <3> QED  BY <1>7, <1>8, <2>1, <3>1 DEF SerialInv, Open
  <2>3. t.read = LastBalance /\ LastBalance = SumOf(rows) /\ \A r \in rows : r.stamp < t.stamp
    BY <1>1, <2>1 DEF SerialInv, Working
  <2>4. LastBalance' = n.balance
    <3> DEFINE l == CHOOSE r \in rows' : \A q \in rows' : q.stamp <= r.stamp
    <3>1. rows' # {} /\ n \in rows' /\ \A r \in rows' : r # n => r \in rows
      BY <1>1
    <3>2. LastBalance' = l.balance
      BY <3>1 DEF LastBalance
    <3>3. t.stamp \in Nat /\ \A r \in rows : r.stamp \in Nat
      BY <1>0, <1>t DEF LedgerRow
    <3>4. \A q \in rows' : q.stamp <= n.stamp
      BY <1>4, <2>3, <3>1, <3>3
    <3>5. l \in rows' /\ n.stamp <= l.stamp
      BY <3>1, <3>4
    <3> HIDE DEF l
    <3>6. l = n
      BY <1>4, <2>3, <3>1, <3>3, <3>5
    <3> QED  BY <3>2, <3>6
  <2>5. LastBalance' = SumOf(rows)'
    BY <1>4, <1>15, <2>3, <2>4
  <2> QED  BY <2>2, <2>5 DEF Working
<1> QED  BY <1>9, <1>10, <1>11, <1>12, <1>14, <1>16, <1>17 DEF InventoryInv

LEMMA NextInventoryInv ==
    ASSUME InventoryInv, [Next]_vars
    PROVE  InventoryInv'
<1>1. ASSUME NEW h \in Handlers, Request(h) PROVE InventoryInv'
  BY <1>1, RequestStep
<1>2. ASSUME NEW h \in Handlers, Statement(h) \/ Abort(h) PROVE InventoryInv'
  BY <1>2, CommitStep, StatementsStep
<1>3. ASSUME NEW c \in Carts, TTLPasses(c) PROVE InventoryInv'
  <2>1. expired' = expired \union {c} /\ UNCHANGED <<rows, held, lock, clock, overlapped, handler>>
    BY <1>3 DEF TTLPasses
  <2>2. TypeOK'
    BY <2>1 DEF InventoryInv, TypeOK
  <2>3. StampsDiffer' /\ \A h \in Handlers : GoodHandler(h)'
    BY <2>1 DEF InventoryInv, StampsDiffer, GoodHandler
  <2>4. ReservationsMatchLedger' /\ StockIsAccounted' /\ IsFiniteSet(rows)'
    BY <2>1 DEF InventoryInv, ReservationsMatchLedger, StockIsAccounted, SumOf, TotalHeld, OnHand
  <2>5. SerialInv'
    BY <2>1 DEF InventoryInv, SerialInv, LastBalance, SumOf, Open
  <2> QED  BY <2>2, <2>3, <2>4, <2>5 DEF InventoryInv
<1>4. CASE UNCHANGED vars
  <2>1. UNCHANGED <<rows, held, expired, lock, clock, overlapped, handler>>
    BY <1>4 DEF vars
  <2>2. TypeOK'
    BY <2>1 DEF InventoryInv, TypeOK
  <2>3. StampsDiffer' /\ \A h \in Handlers : GoodHandler(h)'
    BY <2>1 DEF InventoryInv, StampsDiffer, GoodHandler
  <2>4. ReservationsMatchLedger' /\ StockIsAccounted' /\ IsFiniteSet(rows)'
    BY <2>1 DEF InventoryInv, ReservationsMatchLedger, StockIsAccounted, SumOf, TotalHeld, OnHand
  <2>5. SerialInv'
    BY <2>1 DEF InventoryInv, SerialInv, LastBalance, SumOf, Open
  <2> QED  BY <2>2, <2>3, <2>4, <2>5 DEF InventoryInv
<1> QED  BY <1>1, <1>2, <1>3, <1>4 DEF Next

LEMMA InitInventoryInv == Init => InventoryInv
<1> SUFFICES ASSUME Init PROVE InventoryInv
  OBVIOUS
<1>1. /\ rows = {} /\ held = [c \in Carts |-> 0] /\ expired = {} /\ clock = 0 /\ overlapped = FALSE
      /\ lock = [c \in Carts |-> NoHandler] /\ handler = [h \in Handlers |-> Idle]
  BY DEF Init
<1>2. Idle \in HandlerState /\ Idle.pc = "idle" /\ Idle.op = "none"
  BY InventoryConstants DEF Idle, HandlerState
<1>3. TypeOK
  <2>1. handler \in [Handlers -> HandlerState]
    BY <1>1, <1>2
  <2>2. clock \in 0..MaxTx
    BY <1>1, InventoryConstants
  <2>3. overlapped \in BOOLEAN
    BY <1>1
  <2>4. rows \subseteq LedgerRow /\ held \in [Carts -> Nat] /\ expired \subseteq Carts
        /\ lock \in [Carts -> Handlers \union {NoHandler}]
    BY <1>1
  <2> QED  BY <2>1, <2>2, <2>3, <2>4 DEF TypeOK
<1>4. \A h \in Handlers : handler[h].pc = "idle" /\ handler[h].op = "none"
  BY <1>1, <1>2
<1>5. StampsDiffer /\ \A h \in Handlers : GoodHandler(h)
  BY <1>1, <1>4 DEF StampsDiffer, GoodHandler, Working
<1>6. SumOf({}) = 0
  BY SumEmpty DEF SumOf
<1>7. \A c : {r \in rows : r.cart = c} = {}
  BY <1>1
<1>8. ReservationsMatchLedger
  BY <1>1, <1>6, <1>7 DEF ReservationsMatchLedger
<1>9. TotalHeld = 0
  <2> DEFINE P == {n \in Nat : \A S \in SUBSET Carts : Cardinality(S) = n => SumFunctionOnSet(held, S) = 0}
  <2>f. \A S \in SUBSET Carts : IsFiniteSet(S) /\ Cardinality(S) \in Nat
    BY InventoryConstants, FS_Subset, FS_CardinalityType
  <2>1. 0 \in P
    BY <2>f, FS_EmptySet, SumEmpty
  <2>2. ASSUME NEW n \in P PROVE n + 1 \in P
    <3> SUFFICES ASSUME NEW S \in SUBSET Carts, Cardinality(S) = n + 1
                 PROVE  SumFunctionOnSet(held, S) = 0
      OBVIOUS
    <3>1. S # {}
      <4>1. n \in Nat /\ n + 1 # 0
        OBVIOUS
      <4> HIDE DEF P
      <4> QED  BY <4>1, FS_EmptySet
    <3>2. S \ {First(S)} \in SUBSET Carts /\ Cardinality(S \ {First(S)}) = n /\ First(S) \in Carts
      BY <2>f, <3>1, Smaller
    <3>3. SumFunctionOnSet(held, S \ {First(S)}) = 0
      BY <3>2
    <3>4. SumFunctionOnSet(held, S) = held[First(S)] + SumFunctionOnSet(held, S \ {First(S)})
      BY <2>f, <3>1, SumFirst
    <3>5. held[First(S)] = 0
      BY <1>1, <3>2
    <3> QED  BY <3>3, <3>4, <3>5
  <2> HIDE DEF P
  <2>3. P = Nat
    <3>1. P \in SUBSET Nat
      BY DEF P
    <3> QED  BY <2>1, <2>2, <3>1, NatSetInduction
  <2> QED  BY <2>3, <2>f DEF P, TotalHeld
<1>10. StockIsAccounted
  BY <1>1, <1>6, <1>7, <1>9 DEF StockIsAccounted, OnHand
<1>11. SerialInv
  BY <1>1, <1>4, <1>6 DEF SerialInv, Open, LastBalance, Working
<1>12. IsFiniteSet(rows)
  BY <1>1, FS_EmptySet
<1> QED  BY <1>3, <1>5, <1>8, <1>10, <1>11, <1>12 DEF InventoryInv

(***************************************************************************)
(* The inductive invariant of the inventory-service.                       *)
(***************************************************************************)
THEOREM InventoryInvariant == Spec => []InventoryInv
<1>1. InventoryInv /\ [Next]_vars => InventoryInv'
  BY NextInventoryInv
<1> QED  BY <1>1, InitInventoryInv, PTL DEF Spec

\* Balances, quantities and local states keep their types: in particular no
\* ledger row ever has a negative balance.
THEOREM InventoryTypeCorrect == Spec => []TypeOK
<1>1. InventoryInv => TypeOK
  BY DEF InventoryInv
<1> QED  BY <1>1, InventoryInvariant, PTL

\* A cart holds what the ledger says was taken for it and not given back, for
\* any number of handlers, carts and transactions.
THEOREM LedgerMatchesReservations == Spec => []ReservationsMatchLedger
<1>1. InventoryInv => ReservationsMatchLedger
  BY DEF InventoryInv
<1> QED  BY <1>1, InventoryInvariant, PTL

\* As long as transactions do not overlap the running balance is the sum of the
\* deltas and carts hold no more than is in stock.
THEOREM SerialStockIsExact == Spec => []SerialLedgerExact
<1>1. InventoryInv => SerialLedgerExact
  <2> SUFFICES ASSUME InventoryInv, ~overlapped
               PROVE  LastBalance = SumOf(rows) /\ TotalHeld <= OnHand
    BY DEF SerialLedgerExact
  <2>1. LastBalance = SumOf(rows) /\ SumOf(rows) + TotalHeld = OnHand
    BY DEF InventoryInv, SerialInv, StockIsAccounted
  <2>2. LastBalance \in Nat
    BY LastBalanceType DEF InventoryInv, TypeOK
  <2>3. TotalHeld \in Int
    BY SumType, InventoryConstants DEF TotalHeld, InventoryInv, TypeOK
  <2>4. \A x \in Nat, y \in Int : y <= x + y
    OBVIOUS
  <2>5. TotalHeld <= SumOf(rows) + TotalHeld
    BY <2>1, <2>2, <2>3, <2>4
  <2> QED  BY <2>1, <2>5
<1> QED  BY <1>1, InventoryInvariant, PTL

-----------------------------------------------------------------------------
(* Locks *)

Moving == {"previous", "commit", "sweep"}

\* A step of handler h leaves the locks of the others alone, and h has a lock
\* after it only to move on.
LEMMA LockStep ==
    ASSUME TypeOK, LockHoldersDoNotWait, NEW h \in Handlers, NEW x,
           handler' = [handler EXCEPT ![h] = x],
           \A c \in Carts : \/ lock'[c] = NoHandler
                            \/ lock'[c] = lock[c] /\ lock[c] # h
                            \/ lock'[c] = h /\ x.pc \in Moving
    PROVE  LockHoldersDoNotWait'
<1> SUFFICES ASSUME NEW c \in Carts, lock'[c] # NoHandler
             PROVE  handler'[lock'[c]].pc \in Moving
  BY DEF LockHoldersDoNotWait, Moving
<1>1. handler \in [Handlers -> HandlerState] /\ lock[c] \in Handlers \union {NoHandler}
  BY DEF TypeOK
<1>2. CASE lock'[c] = lock[c] /\ lock[c] # h
  <2>1. handler[lock[c]].pc \in Moving
    BY <1>2 DEF LockHoldersDoNotWait, Moving
  <2>2. handler'[lock[c]] = handler[lock[c]]
    BY <1>1, <1>2
  <2> QED  BY <1>2, <2>1, <2>2
<1>3. CASE lock'[c] = h /\ x.pc \in Moving
  <2>1. handler'[h] = x
    BY <1>1
  <2> QED  BY <1>3, <2>1
<1> QED  BY <1>2, <1>3

\* Who does not move on has no lock.
LEMMA WaiterHasNoLock ==
    ASSUME LockHoldersDoNotWait, NEW h \in Handlers, handler[h].pc \notin Moving
    PROVE  \A c \in Carts : lock[c] # h
<1>1. h # NoHandler
  BY InventoryConstants
<1> QED  BY <1>1 DEF LockHoldersDoNotWait, Moving

\* A handler that starts, or reads before it has a lock.
LEMMA LocklessStep ==
    ASSUME TypeOK, LockHoldersDoNotWait, NEW h \in Handlers, NEW x,
           handler' = [handler EXCEPT ![h] = x], lock' = lock, handler[h].pc \notin Moving
    PROVE  LockHoldersDoNotWait'
BY WaiterHasNoLock, LockStep

\* A handler that takes the lock of a cart.
LEMMA TakeLockStep ==
    ASSUME TypeOK, LockHoldersDoNotWait, NEW h \in Handlers, NEW x,
           handler' = [handler EXCEPT ![h] = x], NEW k, lock' = [lock EXCEPT ![k] = h],
           handler[h].pc \notin Moving, x.pc = "previous"
    PROVE  LockHoldersDoNotWait'
<1>1. \A c \in Carts : lock[c] # h
  BY WaiterHasNoLock
<1>2. lock \in [Carts -> Handlers \union {NoHandler}] /\ x.pc \in Moving
  BY DEF TypeOK, Moving
<1>3. \A c \in Carts : lock'[c] = h \/ lock'[c] = lock[c]
  BY <1>2
<1> QED  BY <1>1, <1>2, <1>3, LockStep

LEMMA FreeLocksStep ==
    ASSUME TypeOK, LockHoldersDoNotWait, NEW h \in Handlers, NEW x,
           handler' = [handler EXCEPT ![h] = x],
           lock' = [c \in Carts |-> IF lock[c] = h THEN NoHandler ELSE lock[c]]
    PROVE  LockHoldersDoNotWait'
<1>1. \A c \in Carts : lock'[c] = NoHandler \/ (lock'[c] = lock[c] /\ lock[c] # h)
  OBVIOUS
<1> QED  BY <1>1, LockStep

LEMMA LockRequest ==
    ASSUME TypeOK, LockHoldersDoNotWait, NEW h \in Handlers, Request(h)
    PROVE  LockHoldersDoNotWait'
<1>1. ASSUME NEW q, Begin(h, q) PROVE LockHoldersDoNotWait'
  <2>1. /\ handler' = [handler EXCEPT ![h] = [q EXCEPT !.stamp = clock + 1]]
        /\ lock' = lock /\ handler[h].pc \notin Moving
    BY <1>1 DEF Begin, Open, Moving
  <2> QED  BY <2>1, LocklessStep
<1>2. CASE Sweep(h)
  <2>1. PICK x : x = [Idle EXCEPT !.pc = "sweep", !.op = "sweep"]
    OBVIOUS
  <2>2. x.pc \in Moving
    BY <2>1 DEF Idle, Moving
  <2>3. /\ handler' = [handler EXCEPT ![h] = x] /\ handler[h].pc \notin Moving
        /\ lock' = [c \in Carts |-> IF c \in expired THEN h ELSE lock[c]]
    BY <1>2, <2>1 DEF Sweep, Open, Moving
  <2>4. \A c \in Carts : lock[c] # h
    BY <2>3, WaiterHasNoLock
  <2>5. \A c \in Carts : lock'[c] = h \/ (lock'[c] = lock[c] /\ lock[c] # h)
    BY <2>3, <2>4
  <2> QED  BY <2>2, <2>3, <2>5, LockStep
<1> QED  BY <1>1, <1>2 DEF Request, ReserveStock, ReleaseStock, AdjustStock

LEMMA LockStatement ==
    ASSUME TypeOK, LockHoldersDoNotWait, NEW h \in Handlers, Statement(h) \/ Abort(h)
    PROVE  LockHoldersDoNotWait'
<1>1. PICK t : t = handler[h]
  OBVIOUS
<1>2. t \in HandlerState
  BY <1>1 DEF TypeOK
<1>3. CASE Rollback(h)
  BY <1>3, FreeLocksStep DEF Rollback
<1>4. CASE ReadBalance(h)
  <2>1. /\ handler' = [handler EXCEPT ![h] = [t EXCEPT !.pc = "check", !.read = LastBalance]]
        /\ lock' = lock /\ handler[h].pc \notin Moving
    BY <1>1, <1>4 DEF ReadBalance, Moving
  <2> QED  BY <2>1, LocklessStep
<1>5. CASE CheckStock(h) /\ ~Rollback(h)
  <2>1. /\ handler' = [handler EXCEPT ![h] = [t EXCEPT !.pc = "hold"]]
        /\ lock' = lock /\ handler[h].pc \notin Moving
    BY <1>1, <1>5 DEF CheckStock, Moving
  <2> QED  BY <2>1, LocklessStep
<1>6. CASE Hold(h)
  <2>1. PICK x : x = [t EXCEPT !.pc = "previous"]
    OBVIOUS
  <2>2. /\ handler' = [handler EXCEPT ![h] = x] /\ lock' = [lock EXCEPT ![t.cart] = h]
        /\ handler[h].pc \notin Moving
    BY <1>1, <1>6, <2>1 DEF Hold, Moving
  <2>3. x.pc = "previous"
    BY <1>2, <2>1 DEF HandlerState
  <2> QED  BY <2>2, <2>3, TakeLockStep
<1>7. CASE Delete(h)
  <2>1. PICK x : x = [t EXCEPT !.pc = "previous", !.delta = held[t.cart]]
    OBVIOUS
  <2>2. /\ handler' = [handler EXCEPT ![h] = x] /\ lock' = [lock EXCEPT ![t.cart] = h]
        /\ handler[h].pc \notin Moving
    BY <1>1, <1>7, <2>1 DEF Delete, Moving
  <2>3. x.pc = "previous"
    BY <1>2, <2>1 DEF HandlerState
  <2> QED  BY <2>2, <2>3, TakeLockStep
<1>8. CASE ReadPrevious(h) /\ ~Rollback(h)
  <2>1. PICK x : x = [t EXCEPT !.pc = "commit", !.read = LastBalance]
    OBVIOUS
  <2>2. handler' = [handler EXCEPT ![h] = x] /\ lock' = lock
    BY <1>1, <1>8, <2>1 DEF ReadPrevious
  <2>3. x.pc \in Moving
    BY <1>2, <2>1 DEF HandlerState, Moving
  <2> QED  BY <2>2, <2>3, LockStep
<1>9. CASE Commit(h)
  BY <1>9, FreeLocksStep DEF Commit
<1> QED  BY <1>3, <1>4, <1>5, <1>6, <1>7, <1>8, <1>9
          DEF Statement, Abort, DeleteMissed, SweepFails

\* A lock of a reservation is held by a transaction that is open and waits for
\* no lock, for any number of handlers and carts: what a handler waits for is
\* never something that waits in turn, and no way out of a handler leaves a
\* lock behind.
THEOREM NoCircleOfWaiters == Spec => []LockHoldersDoNotWait
<1>1. Init => LockHoldersDoNotWait
  BY DEF Init, LockHoldersDoNotWait
<1>2. TypeOK /\ LockHoldersDoNotWait /\ [Next]_vars => LockHoldersDoNotWait'
  <2> SUFFICES ASSUME TypeOK, LockHoldersDoNotWait, [Next]_vars PROVE LockHoldersDoNotWait'
    OBVIOUS
  <2>1. CASE UNCHANGED <<lock, handler>>
    BY <2>1 DEF LockHoldersDoNotWait
  <2> QED  BY <2>1, LockRequest, LockStatement DEF Next, TTLPasses, vars
<1> QED  BY <1>1, <1>2, InventoryTypeCorrect, PTL DEF Spec

=============================================================================
