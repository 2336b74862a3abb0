-------------------------- MODULE Counting_proofs --------------------------
(***************************************************************************)
(* Theorems about what is counted and added up: SettlementLedger and       *)
(* SettlementReport over it, for any number of ledgers, receipts and       *)
(* events, any length of a batch, any page size and any width of an        *)
(* integer; and RateLimit, for any limit, any window, any number of        *)
(* requests under way and any delay of theirs up to a window.  They share  *)
(* the lemmas on sums over finite sets.                                    *)
(***************************************************************************)
EXTENDS SettlementReport, RateLimit, FiniteSetTheorems, WellFoundedInduction, TLAPS

(***************************************************************************)
(* Sums over finite sets.                                                  *)
(***************************************************************************)
(* Every set of naturals has a least element: induction for the data of    *)
(* this module.                                                            *)
LEMMA Least ==
  ASSUME NEW T \in SUBSET Nat, T # {}
  PROVE  \E n \in T : \A m \in T : n <= m
<1> DEFINE R == OpToRel(<, Nat)
<1>1. IsWellFoundedOn(R, Nat)
  BY NatLessThanWellFounded
<1>2. \A m, n \in Nat : m < n => <<m, n>> \in R
  <2> SUFFICES ASSUME NEW m \in Nat, NEW n \in Nat, m < n
               PROVE  <<m, n>> \in {p \in Nat \X Nat : p[1] < p[2]}
    BY DEF OpToRel
  <2> QED
    OBVIOUS
<1> HIDE DEF R
<1>3. PICK n \in T : \A m \in T : <<m, n>> \notin R
  BY <1>1, WFMin
<1>4. ASSUME NEW m \in T PROVE n <= m
  <2>1. m \in Nat /\ n \in Nat
    OBVIOUS
  <2>2. ~(m < n)
    BY <1>2, <1>3, <2>1, Zenon
  <2> QED
    BY <2>1, <2>2
<1> QED
  BY <1>4

Units(f, S) == UNION {{x} \X (1..f[x]) : x \in S}

LEMMA UnitsOne ==
  ASSUME NEW x, NEW n \in Nat
  PROVE  IsFiniteSet({x} \X (1..n)) /\ Cardinality({x} \X (1..n)) = n
<1>1. IsFiniteSet({x}) /\ Cardinality({x}) = 1
  BY FS_Singleton
<1>2. IsFiniteSet(1..n) /\ Cardinality(1..n) = n
  BY FS_Interval
<1>3. Cardinality({x} \X (1..n)) = 1 * n
  BY <1>1, <1>2, FS_Product
<1> QED
  BY <1>1, <1>2, <1>3, FS_Product

LEMMA UnitsRemove ==
  ASSUME NEW S, NEW f, NEW x \in S, f[x] \in Nat, IsFiniteSet(Units(f, S \ {x}))
  PROVE  /\ IsFiniteSet(Units(f, S))
         /\ Cardinality(Units(f, S)) = f[x] + Cardinality(Units(f, S \ {x}))
<1> DEFINE A == {x} \X (1..f[x])
           B == Units(f, S \ {x})
<1>1. Units(f, S) = A \cup B
  BY DEF Units
<1>2. A \cap B = {}
  BY DEF Units
<1>3. IsFiniteSet(A) /\ Cardinality(A) = f[x]
  BY UnitsOne
<1> HIDE DEF A, B
<1>4. IsFiniteSet(B)
  BY DEF B
<1>5. /\ IsFiniteSet(A \cup B)
      /\ Cardinality(A \cup B) = Cardinality(A) + Cardinality(B) - Cardinality(A \cap B)
  BY <1>3, <1>4, FS_Union
<1>7. Cardinality(A \cap B) = 0
  BY <1>2, FS_EmptySet
<1>6. Cardinality(A) \in Nat /\ Cardinality(B) \in Nat
  BY <1>3, <1>4, FS_CardinalityType
<1> QED
  BY <1>1, <1>3, <1>5, <1>6, <1>7 DEF B

(* The parts of a finite set, smallest first: a smallest part that lacks   *)
(* what removing an element keeps cannot be.                               *)
LEMMA SmallestPart ==
  ASSUME NEW S, IsFiniteSet(S), NEW Bad \in SUBSET (SUBSET S), Bad # {}
  PROVE  \E s \in Bad : \A x \in s : s \ {x} \notin Bad
<1> DEFINE T == {Cardinality(s) : s \in Bad}
<1>1. \A s \in SUBSET S : IsFiniteSet(s) /\ Cardinality(s) \in Nat
  BY FS_Subset, FS_CardinalityType
<1>2. T \in SUBSET Nat /\ T # {}
  BY <1>1
<1>3. PICK n \in T : \A m \in T : n <= m
  BY <1>2, Least
<1>4. PICK s \in Bad : Cardinality(s) = n
  BY <1>3
<1>5. ASSUME NEW x \in s, s \ {x} \in Bad PROVE FALSE
  <2>1. Cardinality(s \ {x}) = Cardinality(s) - 1
    BY <1>1, FS_RemoveElement
  <2>2. n <= Cardinality(s \ {x})
    BY <1>3, <1>5
  <2> QED
    BY <1>1, <1>2, <1>4, <2>1, <2>2
<1> QED
  BY <1>5

LEMMA UnitsFinite ==
  ASSUME NEW S, IsFiniteSet(S), NEW f, \A x \in S : f[x] \in Nat
  PROVE  IsFiniteSet(Units(f, S))
<1> DEFINE Bad == {s \in SUBSET S : ~IsFiniteSet(Units(f, s))}
<1>1. SUFFICES ASSUME Bad # {} PROVE FALSE
  OBVIOUS
<1>2. PICK s \in Bad : \A x \in s : s \ {x} \notin Bad
  BY <1>1, SmallestPart
<1>3. CASE s = {}
  BY <1>2, <1>3, FS_EmptySet DEF Units
<1>4. CASE s # {}
  <2>1. PICK x \in s : TRUE
    BY <1>4
  <2>2. IsFiniteSet(Units(f, s \ {x})) /\ f[x] \in Nat
    BY <1>2, <2>1
  <2> QED
    BY <1>2, <2>1, <2>2, UnitsRemove
<1> QED
  BY <1>3, <1>4

SumStep(f, g, S) ==
  g = [s \in SUBSET S |-> IF s = {} THEN 0 ELSE LET x == CHOOSE x \in s : TRUE IN f[x] + g[s \ {x}]]

LEMMA SumDef ==
  ASSUME NEW S, NEW f
  PROVE  SumFunctionOnSet(f, S) = (CHOOSE g : SumStep(f, g, S))[S]
BY DEF SumFunctionOnSet, FoldFunctionOnSet, MapThenFoldSet, SumStep

LEMMA SumExists ==
  ASSUME NEW S, IsFiniteSet(S), NEW f, \A x \in S : f[x] \in Nat
  PROVE  SumStep(f, [s \in SUBSET S |-> Cardinality(Units(f, s))], S)
<1> DEFINE g == [s \in SUBSET S |-> Cardinality(Units(f, s))]
<1>1. Cardinality(Units(f, {})) = 0
  BY FS_EmptySet DEF Units
<1>2. ASSUME NEW s \in SUBSET S, s # {}
      PROVE  g[s] = LET x == CHOOSE x \in s : TRUE IN f[x] + g[s \ {x}]
  <2> DEFINE x == CHOOSE x \in s : TRUE
  <2>1. x \in s /\ f[x] \in Nat
    BY <1>2
  <2> HIDE DEF x
  <2>3. IsFiniteSet(s \ {x})
    BY FS_Subset
  <2>4. IsFiniteSet(Units(f, s \ {x}))
    BY <2>3, UnitsFinite
  <2>2. Cardinality(Units(f, s)) = f[x] + Cardinality(Units(f, s \ {x}))
    BY <2>1, <2>4, UnitsRemove
  <2> QED
    BY <2>1, <2>2 DEF x
<1> QED
  BY <1>1, <1>2 DEF SumStep

(* A sum counts the units of its terms, in whatever order they are added.  *)
LEMMA SumIsCount ==
  ASSUME NEW S, IsFiniteSet(S), NEW f, \A x \in S : f[x] \in Nat
  PROVE  /\ SumFunctionOnSet(f, S) = Cardinality(Units(f, S))
         /\ SumFunctionOnSet(f, S) \in Nat
<1> DEFINE g == CHOOSE g : SumStep(f, g, S)
           Bad == {s \in SUBSET S : g[s] # Cardinality(Units(f, s))}
<1>1. SumStep(f, g, S)
  BY SumExists
<1> HIDE DEF g
<1>2. Cardinality(Units(f, {})) = 0
  BY FS_EmptySet DEF Units
<1>3. ASSUME NEW s \in Bad, \A x \in s : s \ {x} \notin Bad PROVE FALSE
  <2>1. CASE s = {}
    BY <1>1, <1>2, <2>1 DEF SumStep
  <2>2. CASE s # {}
    <3> DEFINE x == CHOOSE x \in s : TRUE
    <3>1. x \in s /\ f[x] \in Nat
      BY <2>2
    <3>2. g[s] = f[x] + g[s \ {x}]
      BY <1>1, <2>2 DEF SumStep
    <3> HIDE DEF x
    <3>3. g[s \ {x}] = Cardinality(Units(f, s \ {x}))
      BY <1>3, <3>1
    <3>4. IsFiniteSet(s \ {x})
      BY FS_Subset
    <3>5. IsFiniteSet(Units(f, s \ {x}))
      BY <3>4, UnitsFinite
    <3> QED
      BY <3>1, <3>2, <3>3, <3>5, UnitsRemove
  <2> QED
    BY <2>1, <2>2
<1>4. Bad = {}
  BY <1>3, SmallestPart
<1>5. g[S] = Cardinality(Units(f, S))
  BY <1>4
<1>6. SumFunctionOnSet(f, S) = g[S]
  BY SumDef DEF g
<1>7. IsFiniteSet(Units(f, S))
  BY UnitsFinite
<1> QED
  BY <1>5, <1>6, <1>7, FS_CardinalityType

LEMMA SumOfNone ==
  ASSUME NEW S, IsFiniteSet(S), NEW f, \A x \in S : f[x] = 0
  PROVE  SumFunctionOnSet(f, S) = 0
<1>1. Units(f, S) = {}
  BY DEF Units
<1> QED
  BY <1>1, SumIsCount, FS_EmptySet

(* A term of a sum can be taken out. *)
LEMMA SumRemove ==
  ASSUME NEW S, IsFiniteSet(S), NEW f, \A x \in S : f[x] \in Nat, NEW y \in S
  PROVE  /\ SumFunctionOnSet(f, S) = f[y] + SumFunctionOnSet(f, S \ {y})
         /\ SumFunctionOnSet(f, S \ {y}) \in Nat
<1>1. IsFiniteSet(S \ {y})
  BY FS_Subset
<1>2. IsFiniteSet(Units(f, S \ {y}))
  BY <1>1, UnitsFinite
<1>3. Cardinality(Units(f, S)) = f[y] + Cardinality(Units(f, S \ {y}))
  BY <1>2, UnitsRemove
<1>4. SumFunctionOnSet(f, S) = Cardinality(Units(f, S))
  BY SumIsCount
<1>5. /\ SumFunctionOnSet(f, S \ {y}) = Cardinality(Units(f, S \ {y}))
      /\ SumFunctionOnSet(f, S \ {y}) \in Nat
  BY <1>1, SumIsCount
<1> QED
  BY <1>3, <1>4, <1>5

LEMMA SumSame ==
  ASSUME NEW S, IsFiniteSet(S), NEW f, NEW g, \A x \in S : f[x] \in Nat /\ g[x] = f[x]
  PROVE  SumFunctionOnSet(g, S) = SumFunctionOnSet(f, S)
<1>1. Units(g, S) = Units(f, S)
  BY DEF Units
<1>2. SumFunctionOnSet(f, S) = Cardinality(Units(f, S))
  BY SumIsCount
<1>3. SumFunctionOnSet(g, S) = Cardinality(Units(g, S))
  BY SumIsCount
<1> QED
  BY <1>1, <1>2, <1>3

(* A sum follows the one term that changes. *)
LEMMA SumChange ==
  ASSUME NEW S, IsFiniteSet(S), NEW f, NEW g, NEW y \in S,
         \A x \in S : f[x] \in Nat /\ g[x] \in Nat,
         \A x \in S \ {y} : g[x] = f[x]
  PROVE  SumFunctionOnSet(g, S) - g[y] = SumFunctionOnSet(f, S) - f[y]
<1>1. IsFiniteSet(S \ {y})
  BY FS_Subset
<1>2. SumFunctionOnSet(g, S \ {y}) = SumFunctionOnSet(f, S \ {y})
  BY <1>1, SumSame
<1>3. /\ SumFunctionOnSet(f, S) = f[y] + SumFunctionOnSet(f, S \ {y})
      /\ SumFunctionOnSet(f, S \ {y}) \in Nat
  BY SumRemove
<1>4. SumFunctionOnSet(g, S) = g[y] + SumFunctionOnSet(g, S \ {y})
  BY SumRemove
<1> QED
  BY <1>2, <1>3, <1>4

(* A sum over part of a set, and over two sets together. *)
LEMMA SumPart ==
  ASSUME NEW S, IsFiniteSet(S), NEW f, \A x \in S : f[x] \in Nat, NEW T \in SUBSET S
  PROVE  SumFunctionOnSet(f, T) <= SumFunctionOnSet(f, S)
<1>1. IsFiniteSet(T) /\ \A x \in T : f[x] \in Nat
  BY FS_Subset
<1>2. Units(f, T) \in SUBSET Units(f, S)
  BY DEF Units
<1>3. IsFiniteSet(Units(f, S))
  BY UnitsFinite
<1>4. Cardinality(Units(f, T)) <= Cardinality(Units(f, S))
  BY <1>2, <1>3, FS_Subset
<1>5. SumFunctionOnSet(f, T) = Cardinality(Units(f, T))
  BY <1>1, SumIsCount
<1>6. SumFunctionOnSet(f, S) = Cardinality(Units(f, S))
  BY SumIsCount
<1> QED
  BY <1>4, <1>5, <1>6, Zenon

LEMMA SumTogether ==
  ASSUME NEW S, IsFiniteSet(S), NEW T, IsFiniteSet(T),
         NEW f, \A x \in S \cup T : f[x] \in Nat
  PROVE  SumFunctionOnSet(f, S \cup T) <= SumFunctionOnSet(f, S) + SumFunctionOnSet(f, T)
<1> DEFINE A == Units(f, S)
           B == Units(f, T)
<1>1. IsFiniteSet(S \cup T)
  BY FS_Union
<1>2. Units(f, S \cup T) = A \cup B
  BY DEF Units
<1>3. /\ IsFiniteSet(A) /\ SumFunctionOnSet(f, S) = Cardinality(A)
      /\ IsFiniteSet(B) /\ SumFunctionOnSet(f, T) = Cardinality(B)
      /\ SumFunctionOnSet(f, S \cup T) = Cardinality(Units(f, S \cup T))
  BY <1>1, UnitsFinite, SumIsCount
<1> HIDE DEF A, B
<1>4. Cardinality(A \cup B) = Cardinality(A) + Cardinality(B) - Cardinality(A \cap B)
  BY <1>3, FS_Union
<1>5. IsFiniteSet(A \cap B)
  BY <1>3, FS_Intersection
<1>6. Cardinality(A) \in Nat /\ Cardinality(B) \in Nat /\ Cardinality(A \cap B) \in Nat
  BY <1>3, <1>5, FS_CardinalityType
<1>7. SumFunctionOnSet(f, S \cup T)
        = SumFunctionOnSet(f, S) + SumFunctionOnSet(f, T) - Cardinality(A \cap B)
  BY <1>2, <1>3, <1>4, Zenon
<1>8. \A s, t, u \in Nat : s + t - u <= s + t
  OBVIOUS
<1>9. SumFunctionOnSet(f, S) \in Nat /\ SumFunctionOnSet(f, T) \in Nat
  BY <1>3, <1>6, Zenon
<1> QED
  BY <1>6, <1>7, <1>8, <1>9

(***************************************************************************)
(* The loop of settle_batch.                                               *)
(***************************************************************************)
Events ==
  [ledger : Ledgers, settles : ReceiptIds \cup {NoId}, claim : SUBSET Claims,
   amount : Nat, receipts : Nat]

LedgerTyped ==
  /\ table \in [Ledgers -> SUBSET Receipts]
  /\ count \in [Ledgers -> Nat]
  /\ total \in [Ledgers -> Nat]
  /\ events \in Seq(Events)
  /\ \A l \in Ledgers : IsFiniteSet(table[l]) /\ \A r \in table[l] : r.id # NoId

SumUpTo(batch, n) == SumFunctionOnSet([k \in 1..n |-> batch[k].amount], 1..n)

(* The receipts of a batch up to one of them: none is settled yet, and no  *)
(* two have the same id.                                                   *)
Fresh(l, batch, n) ==
  \A k \in 1..n :
    /\ batch[k].id # NoId
    /\ \A r \in table[l] : r.id # batch[k].id
    /\ \A j \in 1..n : j # k => batch[j].id # batch[k].id

TableAfter(l, batch, n) == table[l] \cup {batch[k] : k \in 1..n}

(* The ledger after so many receipts, if no assert failed. *)
StateAfter(l, batch, n) ==
  [aborted |-> FALSE,
   table |-> TableAfter(l, batch, n),
   count |-> Cardinality(TableAfter(l, batch, n)),
   total |-> SumOf(TableAfter(l, batch, n)),
   sum |-> SumUpTo(batch, n),
   events |-> [k \in 1..n |-> ReceiptSettled(l, batch[k])]]

Sound(l, batch, n) ==
  /\ Fresh(l, batch, n)
  /\ IsFiniteSet(TableAfter(l, batch, n))
  /\ SumOf(TableAfter(l, batch, n)) <= MaxU64

LEMMA SumOfNat ==
  ASSUME NEW S \in SUBSET Receipts, IsFiniteSet(S)
  PROVE  SumOf(S) \in Nat
<1>1. \A r \in S : [q \in S |-> q.amount][r] \in Nat
  BY LedgerAssumption DEF Receipts
<1> QED
  BY <1>1, SumIsCount DEF SumOf

(* A receipt that is added adds its amount. *)
LEMMA SumOfAdd ==
  ASSUME NEW S \in SUBSET Receipts, IsFiniteSet(S), NEW r \in Receipts, r \notin S
  PROVE  SumOf(S \cup {r}) = SumOf(S) + r.amount
<1> DEFINE T == S \cup {r}
           f == [q \in T |-> q.amount]
           g == [q \in S |-> q.amount]
<1>1. IsFiniteSet(T) /\ r \in T /\ T \ {r} = S
  BY FS_AddElement
<1>2. \A q \in T : f[q] \in Nat
  BY LedgerAssumption DEF Receipts
<1>3. \A q \in S : f[q] \in Nat /\ g[q] = f[q]
  BY <1>2
<1>4. f[r] = r.amount /\ f[r] \in Nat
  BY <1>1, <1>2
<1> HIDE DEF f, g, T
<1>5. SumFunctionOnSet(f, T) = f[r] + SumFunctionOnSet(f, S)
  BY <1>1, <1>2, SumRemove
<1>6. SumFunctionOnSet(g, S) = SumFunctionOnSet(f, S) /\ SumFunctionOnSet(f, S) \in Nat
  BY <1>3, SumSame, SumIsCount
<1> QED
  BY <1>4, <1>5, <1>6 DEF SumOf, f, g, T

LEMMA SumUpToNext ==
  ASSUME NEW batch \in Seq(Receipts), NEW n \in 1..Len(batch)
  PROVE  /\ SumUpTo(batch, n) = SumUpTo(batch, n - 1) + batch[n].amount
         /\ SumUpTo(batch, n) \in Nat
<1> DEFINE f == [k \in 1..n |-> batch[k].amount]
           g == [k \in 1..(n - 1) |-> batch[k].amount]
<1>1. IsFiniteSet(1..n) /\ IsFiniteSet(1..(n - 1)) /\ (1..n) \ {n} = 1..(n - 1) /\ n \in 1..n
  <2>1. n \in Nat /\ n - 1 \in Nat
    OBVIOUS
  <2>2. IsFiniteSet(1..n) /\ IsFiniteSet(1..(n - 1))
    BY <2>1, FS_Interval
  <2> QED
    BY <2>1, <2>2
<1>2. \A k \in 1..n : f[k] \in Nat
  <2>1. \A k \in 1..n : batch[k] \in Receipts
    OBVIOUS
  <2> QED
    BY <2>1, LedgerAssumption DEF Receipts
<1>3. \A k \in 1..(n - 1) : f[k] \in Nat /\ g[k] = f[k]
  BY <1>2
<1>4. f[n] = batch[n].amount /\ f[n] \in Nat
  BY <1>1, <1>2
<1> HIDE DEF f, g
<1>5. SumFunctionOnSet(f, 1..n) = f[n] + SumFunctionOnSet(f, 1..(n - 1))
  BY <1>1, <1>2, SumRemove
<1>6. /\ SumFunctionOnSet(g, 1..(n - 1)) = SumFunctionOnSet(f, 1..(n - 1))
      /\ SumFunctionOnSet(f, 1..(n - 1)) \in Nat
  BY <1>1, <1>3, SumSame, SumIsCount
<1> QED
  BY <1>4, <1>5, <1>6 DEF SumUpTo, f, g

(* One receipt more, unless an assert fails. *)
LEMMA SettleOneStep ==
  ASSUME LedgerTyped, NEW l \in Ledgers, NEW batch \in Seq(Receipts), NEW n \in 1..Len(batch),
         Sound(l, batch, n - 1)
  PROVE  LET tx == SettleOne(l, StateAfter(l, batch, n - 1), batch[n]) IN
         \/ tx.aborted = TRUE /\ "aborted" \in DOMAIN tx
         \/ tx = StateAfter(l, batch, n) /\ Sound(l, batch, n)
<1> DEFINE T == TableAfter(l, batch, n - 1)
           U == TableAfter(l, batch, n)
           r == batch[n]
           s == StateAfter(l, batch, n - 1)
<1>1. r \in Receipts /\ r.amount \in Nat /\ n \in Nat /\ 1..n = 1..(n - 1) \cup {n}
  <2>1. r \in Receipts /\ n \in Nat /\ 1..n = 1..(n - 1) \cup {n}
    OBVIOUS
  <2> QED
    BY <2>1, LedgerAssumption DEF Receipts
<1>2. U = T \cup {r} /\ T \in SUBSET Receipts
  BY <1>1 DEF TableAfter, LedgerTyped
<1>3. /\ s.aborted = FALSE /\ s.table = T /\ s.total = SumOf(T) /\ s.count = Cardinality(T)
      /\ s.sum = SumUpTo(batch, n - 1)
      /\ s.events = [k \in 1..(n - 1) |-> ReceiptSettled(l, batch[k])]
  BY DEF StateAfter
<1>4. CASE r.id = NoId \/ r.amount = 0 \/ (\E q \in T : q.id = r.id) \/ SumOf(T) + r.amount > MaxU64
  BY <1>3, <1>4 DEF SettleOne, StateAfter
<1>5. CASE ~(r.id = NoId \/ r.amount = 0 \/ (\E q \in T : q.id = r.id) \/ SumOf(T) + r.amount > MaxU64)
  <2>1. /\ r \notin T /\ IsFiniteSet(T) /\ Fresh(l, batch, n - 1)
        /\ SumOf(T) \in Nat
    BY <1>2, <1>5, SumOfNat DEF Sound
  <2>2. IsFiniteSet(U) /\ Cardinality(U) = Cardinality(T) + 1
    <3> HIDE DEF T, U
    <3> QED
      BY <1>2, <2>1, FS_AddElement
  <2>3. SumOf(U) = SumOf(T) + r.amount
    BY <1>1, <1>2, <2>1, SumOfAdd
  <2>4. SumUpTo(batch, n) = SumUpTo(batch, n - 1) + r.amount
    BY SumUpToNext
  <2>5. Fresh(l, batch, n)
    <3>1. \A k \in 1..(n - 1) : batch[k].id # r.id
      BY <1>5 DEF TableAfter
    <3>2. \A q \in table[l] : q.id # r.id
      BY <1>5 DEF TableAfter
    <3> QED
      BY <1>1, <1>5, <2>1, <3>1, <3>2 DEF Fresh
  <2>6. SumOf(U) <= MaxU64
    BY <1>1, <1>5, <2>1, <2>3, LedgerAssumption
  <2>7. Append(s.events, ReceiptSettled(l, r)) = [k \in 1..n |-> ReceiptSettled(l, batch[k])]
    <3> DEFINE e(k) == ReceiptSettled(l, batch[k])
    <3> HIDE DEF e
    <3>1. Append([k \in 1..(n - 1) |-> e(k)], e(n)) = [k \in 1..n |-> e(k)]
      BY <1>1
    <3> QED
      BY <1>3, <3>1 DEF e
  <2>8. SettleOne(l, s, r) =
          [s EXCEPT !.table = T \cup {r}, !.count = Cardinality(T) + 1, !.total = SumOf(T) + r.amount,
                    !.sum = SumUpTo(batch, n - 1) + r.amount,
                    !.events = Append(s.events, ReceiptSettled(l, r))]
    BY <1>3, <1>5 DEF SettleOne
  <2>9. SettleOne(l, s, r) = StateAfter(l, batch, n)
    BY <1>2, <2>2, <2>3, <2>4, <2>7, <2>8 DEF StateAfter
  <2> QED
    BY <2>2, <2>5, <2>6, <2>9 DEF Sound
<1> QED
  BY <1>4, <1>5

IsLoop(g, l, batch, n) ==
  g = [i \in 0..n |-> IF i = 0 THEN Begin(l) ELSE SettleOne(l, g[i - 1], batch[i])]

LEMMA LoopExists ==
  ASSUME NEW l, NEW batch, NEW n \in Nat
  PROVE  \E g : IsLoop(g, l, batch, n)
<1> DEFINE Bad == {m \in Nat : ~\E g : IsLoop(g, l, batch, m)}
<1>1. SUFFICES ASSUME Bad # {} PROVE FALSE
  OBVIOUS
<1>2. PICK m \in Bad : \A k \in Bad : m <= k
  BY <1>1, Least
<1>3. CASE m = 0
  <2>1. IsLoop([i \in 0..0 |-> Begin(l)], l, batch, 0)
    BY DEF IsLoop
  <2> QED
    BY <1>2, <1>3, <2>1
<1>4. CASE m # 0
  <2>1. m \in Nat /\ m - 1 \in Nat /\ m - 1 \notin Bad
    BY <1>2, <1>4
  <2>2. PICK g : IsLoop(g, l, batch, m - 1)
    BY <2>1
  <2> DEFINE next == SettleOne(l, g[m - 1], batch[m])
             h == [i \in 0..m |-> IF i = m THEN next ELSE g[i]]
  <2>3. \A i \in 0..m :
          h[i] = IF i = 0 THEN Begin(l) ELSE SettleOne(l, h[i - 1], batch[i])
    <3> SUFFICES ASSUME NEW i \in 0..m
                 PROVE  h[i] = IF i = 0 THEN Begin(l) ELSE SettleOne(l, h[i - 1], batch[i])
      OBVIOUS
    <3>1. CASE i = m
      <4>1. h[i] = next /\ h[i - 1] = g[m - 1]
        BY <1>4, <2>1, <3>1
      <4> QED
        BY <1>4, <3>1, <4>1
    <3>2. CASE i # m
      <4>1. i \in 0..(m - 1) /\ h[i] = g[i]
        BY <2>1, <3>2
      <4>2. i # 0 => h[i - 1] = g[i - 1]
        BY <2>1, <4>1
      <4>3. g[i] = IF i = 0 THEN Begin(l) ELSE SettleOne(l, g[i - 1], batch[i])
        BY <2>2, <4>1 DEF IsLoop
      <4> QED
        BY <4>1, <4>2, <4>3
    <3> QED
      BY <3>1, <3>2
  <2>4. h = [i \in 0..m |-> h[i]]
    OBVIOUS
  <2> HIDE DEF h
  <2>5. IsLoop(h, l, batch, m)
    BY <2>3, <2>4 DEF IsLoop
  <2> QED
    BY <1>2, <2>5
<1> QED
  BY <1>3, <1>4

(* What settle_batch leaves behind: an aborted transaction, or all of the  *)
(* receipts on the ledger.                                                 *)
LEMMA SettleAllResult ==
  ASSUME LedgerTyped, NEW l \in Ledgers, NEW batch \in Seq(Receipts), Sound(l, batch, 0),
         Begin(l) = StateAfter(l, batch, 0)
  PROVE  \/ SettleAll(l, batch).aborted = TRUE
         \/ /\ SettleAll(l, batch) = StateAfter(l, batch, Len(batch))
            /\ Sound(l, batch, Len(batch))
<1> DEFINE n == Len(batch)
           g == CHOOSE g : IsLoop(g, l, batch, n)
           Good(i) == \/ g[i].aborted = TRUE /\ "aborted" \in DOMAIN g[i]
                      \/ g[i] = StateAfter(l, batch, i) /\ Sound(l, batch, i)
           Bad == {i \in 0..n : ~Good(i)}
<1>1. n \in Nat
  OBVIOUS
<1>2. IsLoop(g, l, batch, n) /\ SettleAll(l, batch) = g[n]
  <2>1. IsLoop(g, l, batch, n)
    BY <1>1, LoopExists
  <2>2. SettleAll(l, batch) = g[n]
    BY DEF SettleAll, IsLoop
  <2> QED
    BY <2>1, <2>2
<1> HIDE DEF g
<1>3. g[0] = Begin(l) /\ \A i \in 1..n : g[i] = SettleOne(l, g[i - 1], batch[i])
  BY <1>1, <1>2 DEF IsLoop
<1>4. ASSUME Bad # {} PROVE FALSE
  <2>1. PICK i \in Bad : \A k \in Bad : i <= k
    <3>1. Bad \in SUBSET Nat
      BY <1>1
    <3> HIDE DEF Bad
    <3> QED
      BY <1>4, <3>1, Least
  <2>2. i # 0
    BY <1>3, <2>1
  <2>3. i \in 1..n /\ i - 1 \in 0..n /\ i - 1 \notin Bad
    BY <1>1, <2>1, <2>2
  <2>4. Good(i - 1)
    BY <2>3
  <2>5. CASE g[i - 1].aborted = TRUE /\ "aborted" \in DOMAIN g[i - 1]
    <3>1. g[i] = [g[i - 1] EXCEPT !.aborted = TRUE]
      BY <1>3, <2>3, <2>5 DEF SettleOne
    <3>2. Good(i)
      BY <2>5, <3>1
    <3> QED
      BY <2>1, <3>2
  <2>6. CASE g[i - 1] = StateAfter(l, batch, i - 1) /\ Sound(l, batch, i - 1)
    <3>1. Good(i)
      BY <1>3, <2>3, <2>6, SettleOneStep
    <3> QED
      BY <2>1, <3>1
  <2> QED
    BY <2>4, <2>5, <2>6
<1>5. Good(n)
  <2>1. n \in 0..n
    BY <1>1
  <2>2. n \notin Bad
    <3> HIDE DEF Bad
    <3> QED
      BY <1>4
  <2> QED
    BY <2>1, <2>2
<1> QED
  BY <1>2, <1>5

(***************************************************************************)
(* The ledgers.                                                            *)
(***************************************************************************)
LedgerInv == LedgerTyped /\ TotalsMatchTable /\ EventsTellTheTable

LEMMA BeginSound ==
  ASSUME LedgerInv, NEW l \in Ledgers, NEW batch \in Seq(Receipts)
  PROVE  Sound(l, batch, 0) /\ Begin(l) = StateAfter(l, batch, 0)
<1>1. 1..0 = {}
  OBVIOUS
<1>2. TableAfter(l, batch, 0) = table[l] /\ Fresh(l, batch, 0)
  BY <1>1 DEF TableAfter, Fresh
<1>3. SumUpTo(batch, 0) = 0
  BY <1>1, FS_EmptySet, SumOfNone DEF SumUpTo
<1>4. /\ IsFiniteSet(table[l]) /\ count[l] = Cardinality(table[l])
      /\ total[l] = SumOf(table[l]) /\ SumOf(table[l]) <= MaxU64
  BY DEF LedgerInv, LedgerTyped, TotalsMatchTable
<1>5. [k \in 1..0 |-> ReceiptSettled(l, batch[k])] = <<>>
  BY <1>1
<1> QED
  BY <1>2, <1>3, <1>4, <1>5 DEF Sound, Begin, StateAfter

(* What a transaction that is not aborted does: the receipts of a batch    *)
(* come into the table, their events to the end, and then the BatchSettled *)
(* that closes them, if there is one.                                      *)
Settles(l, batch, closing) ==
  LET m == Len(events)
      n == Len(batch)
      after == TableAfter(l, batch, n)
  IN
  /\ Sound(l, batch, n)
  /\ table' = [table EXCEPT ![l] = after]
  /\ count' = [count EXCEPT ![l] = Cardinality(after)]
  /\ total' = [total EXCEPT ![l] = SumOf(after)]
  /\ events' \in Seq(Events)
  /\ Len(events') = m + n + closing
  /\ \A i \in 1..m : events'[i] = events[i]
  /\ \A k \in 1..n : events'[m + k] = ReceiptSettled(l, batch[k])
  /\ closing = 1 => events'[m + n + 1] = BatchSettled(l, batch, SumUpTo(batch, n))

LEMMA EventsTyped ==
  ASSUME NEW l \in Ledgers
  PROVE  /\ \A r \in Receipts : ReceiptSettled(l, r) \in Events
         /\ \A batch \in Seq(Receipts), sum \in Nat : BatchSettled(l, batch, sum) \in Events
<1>1. \A r \in Receipts : ReceiptSettled(l, r) \in Events
  BY LedgerAssumption DEF ReceiptSettled, Events, Receipts
<1>2. \A batch \in Seq(Receipts), sum \in Nat : BatchSettled(l, batch, sum) \in Events
  BY DEF BatchSettled, Events
<1> QED
  BY <1>1, <1>2

LEMMA Concatenated ==
  ASSUME NEW a \in Seq(Events), NEW b \in Seq(Events)
  PROVE  /\ a \o b \in Seq(Events) /\ Len(a \o b) = Len(a) + Len(b)
         /\ \A i \in 1..Len(a) : (a \o b)[i] = a[i]
         /\ \A k \in 1..Len(b) : (a \o b)[Len(a) + k] = b[k]
<1>1. Len(a) \in Nat /\ Len(b) \in Nat
  OBVIOUS
<1>2. ASSUME NEW i \in 1..Len(a) PROVE (a \o b)[i] = a[i]
  BY <1>1, <1>2
<1>3. ASSUME NEW k \in 1..Len(b) PROVE (a \o b)[Len(a) + k] = b[k]
  BY <1>1, <1>3
<1> QED
  BY <1>2, <1>3

LEMMA CommitSettles ==
  ASSUME LedgerInv, NEW l \in Ledgers, NEW batch \in Seq(Receipts),
         Sound(l, batch, Len(batch)), Commit(l, StateAfter(l, batch, Len(batch)))
  PROVE  LET told == [k \in 1..Len(batch) |-> ReceiptSettled(l, batch[k])]
             closed == Append(told, BatchSettled(l, batch, SumUpTo(batch, Len(batch))))
         IN
         /\ events' = events \o told => Settles(l, batch, 0)
         /\ events' = events \o closed /\ batch # <<>> => Settles(l, batch, 1)
<1> DEFINE n == Len(batch)
           told == [k \in 1..n |-> ReceiptSettled(l, batch[k])]
           last == BatchSettled(l, batch, SumUpTo(batch, n))
<1>1. /\ table' = [table EXCEPT ![l] = TableAfter(l, batch, n)]
      /\ count' = [count EXCEPT ![l] = Cardinality(TableAfter(l, batch, n))]
      /\ total' = [total EXCEPT ![l] = SumOf(TableAfter(l, batch, n))]
  BY DEF Commit, StateAfter
<1>2. n \in Nat /\ \A k \in 1..n : batch[k] \in Receipts
  OBVIOUS
<1>3. told \in Seq(Events) /\ Len(told) = n /\ \A k \in 1..n : told[k] = ReceiptSettled(l, batch[k])
  BY <1>2, EventsTyped
<1>4. batch # <<>> => last \in Events
  <2> SUFFICES ASSUME batch # <<>> PROVE last \in Events
    OBVIOUS
  <2>1. n \in 1..n
    BY <1>2
  <2> QED
    BY <2>1, SumUpToNext, EventsTyped
<1>5. events \in Seq(Events)
  BY DEF LedgerInv, LedgerTyped
<1> HIDE DEF told, last, n
<1>6. ASSUME events' = events \o told PROVE Settles(l, batch, 0)
  <2>1. /\ events' \in Seq(Events) /\ Len(events') = Len(events) + n
        /\ \A i \in 1..Len(events) : events'[i] = events[i]
        /\ \A k \in 1..n : events'[Len(events) + k] = told[k]
    <3>1. told \in Seq(Events) /\ Len(told) = n
      BY <1>3
    <3>2. /\ events \o told \in Seq(Events) /\ Len(events \o told) = Len(events) + Len(told)
          /\ \A i \in 1..Len(events) : (events \o told)[i] = events[i]
          /\ \A k \in 1..Len(told) : (events \o told)[Len(events) + k] = told[k]
      BY <1>5, <3>1, Concatenated
    <3> QED
      BY <1>6, <3>1, <3>2
  <2> QED
    BY <1>1, <1>2, <1>3, <1>5, <2>1 DEF Settles, n
<1>7. ASSUME events' = events \o Append(told, last), batch # <<>> PROVE Settles(l, batch, 1)
  <2>1. /\ Append(told, last) \in Seq(Events) /\ Len(Append(told, last)) = n + 1
        /\ \A k \in 1..n : Append(told, last)[k] = told[k]
        /\ Append(told, last)[n + 1] = last
    BY <1>2, <1>3, <1>4, <1>7
  <2>2. /\ events' \in Seq(Events) /\ Len(events') = Len(events) + n + 1
        /\ \A i \in 1..Len(events) : events'[i] = events[i]
        /\ \A k \in 1..n + 1 : events'[Len(events) + k] = Append(told, last)[k]
    <3>1. Len(events) + (n + 1) = Len(events) + n + 1
      BY <1>2, <1>5
    <3> QED
      BY <1>5, <1>7, <2>1, <3>1, Concatenated
  <2>3. /\ \A k \in 1..n : events'[Len(events) + k] = told[k]
        /\ events'[Len(events) + n + 1] = last
    <3>1. /\ n + 1 \in 1..n + 1 /\ \A k \in 1..n : k \in 1..n + 1
          /\ Len(events) + (n + 1) = Len(events) + n + 1
      BY <1>2, <1>5
    <3> QED
      BY <2>1, <2>2, <3>1
  <2> QED
    BY <1>1, <1>2, <1>3, <1>5, <2>2, <2>3 DEF Settles, n, last
<1> QED
  BY <1>6, <1>7 DEF told, last, n

LEMMA ReceiptSettles ==
  ASSUME LedgerInv, NEW l \in Ledgers, NEW r \in Receipts, SettleReceipt(l, r)
  PROVE  Settles(l, <<r>>, 0)
<1> DEFINE batch == <<r>>
           tx == SettleOne(l, Begin(l), r)
<1>1. batch \in Seq(Receipts) /\ Len(batch) = 1 /\ batch[1] = r /\ 1 \in 1..Len(batch)
  OBVIOUS
<1>2. Commit(l, tx) /\ ~tx.aborted /\ events' = events \o tx.events
  BY DEF SettleReceipt, Commit
<1> HIDE DEF batch
<1>3. Sound(l, batch, 0) /\ Begin(l) = StateAfter(l, batch, 0)
  BY <1>1, BeginSound
<1>4. LedgerTyped /\ 1 - 1 = 0
  BY DEF LedgerInv
<1> HIDE DEF tx
<1>5. \/ tx.aborted = TRUE
      \/ tx = StateAfter(l, batch, 1) /\ Sound(l, batch, 1)
  BY <1>1, <1>3, <1>4, SettleOneStep DEF tx
<1>6. tx = StateAfter(l, batch, Len(batch)) /\ Sound(l, batch, Len(batch))
  BY <1>1, <1>2, <1>5
<1>7. tx.events = [k \in 1..Len(batch) |-> ReceiptSettled(l, batch[k])]
  BY <1>6 DEF StateAfter
<1> QED
  BY <1>1, <1>2, <1>6, <1>7, CommitSettles DEF batch

LEMMA BatchSettles ==
  ASSUME LedgerInv, NEW l \in Ledgers, NEW batch \in Seq(Receipts), SettleBatch(l, batch)
  PROVE  Settles(l, batch, 1) /\ batch # <<>>
<1> DEFINE tx == SettleAll(l, batch)
<1>1. /\ Commit(l, tx) /\ ~tx.aborted /\ batch # <<>>
      /\ events' = events \o Append(tx.events, BatchSettled(l, batch, tx.sum))
  BY DEF SettleBatch, Commit
<1>2. Sound(l, batch, 0) /\ Begin(l) = StateAfter(l, batch, 0) /\ LedgerTyped
  BY BeginSound DEF LedgerInv
<1>3. \/ tx.aborted = TRUE
      \/ tx = StateAfter(l, batch, Len(batch)) /\ Sound(l, batch, Len(batch))
  BY <1>2, SettleAllResult
<1> HIDE DEF tx
<1>4. tx = StateAfter(l, batch, Len(batch)) /\ Sound(l, batch, Len(batch))
  BY <1>1, <1>3
<1>5. /\ tx.events = [k \in 1..Len(batch) |-> ReceiptSettled(l, batch[k])]
      /\ tx.sum = SumUpTo(batch, Len(batch))
  BY <1>4 DEF StateAfter
<1> QED
  BY <1>1, <1>4, <1>5, CommitSettles

(* The sum of a batch is that of the events it closes, wherever they are.  *)
LEMMA SumMoves ==
  ASSUME NEW batch \in Seq(Receipts), NEW m \in Nat, NEW f,
         \A k \in 1..Len(batch) : f[m + k] = batch[k].amount
  PROVE  SumFunctionOnSet(f, (m + 1)..(m + Len(batch))) = SumUpTo(batch, Len(batch))
<1> DEFINE n == Len(batch)
           Bad == {i \in 0..n : SumFunctionOnSet(f, (m + 1)..(m + i)) # SumUpTo(batch, i)}
<1>1. n \in Nat
  OBVIOUS
<1>2. \A k \in 1..n : batch[k].amount \in Nat
  <2>1. \A k \in 1..n : batch[k] \in Receipts
    OBVIOUS
  <2> QED
    BY <2>1, LedgerAssumption DEF Receipts
<1>3. ASSUME Bad # {} PROVE FALSE
  <2>1. PICK i \in Bad : \A k \in Bad : i <= k
    <3>1. Bad \in SUBSET Nat
      BY <1>1
    <3> HIDE DEF Bad
    <3> QED
      BY <1>3, <3>1, Least
  <2>2. i \in 0..n /\ SumFunctionOnSet(f, (m + 1)..(m + i)) # SumUpTo(batch, i)
    BY <2>1
  <2>3. CASE i = 0
    <3>1. 1..0 = {} /\ (m + 1)..(m + i) = {}
      BY <2>3
    <3> QED
      BY <2>2, <2>3, <3>1, FS_EmptySet, SumOfNone DEF SumUpTo
  <2>4. CASE i # 0
    <3> DEFINE S == (m + 1)..(m + i)
    <3>1. i \in 1..n /\ i - 1 \in 0..n /\ i - 1 < i
      BY <1>1, <2>2, <2>4
    <3>2. i - 1 \notin Bad
      <4> HIDE DEF Bad
      <4> QED
        BY <2>1, <3>1
    <3>3. SumFunctionOnSet(f, (m + 1)..(m + (i - 1))) = SumUpTo(batch, i - 1)
      BY <3>1, <3>2
    <3>4. IsFiniteSet(S) /\ m + i \in S /\ S \ {m + i} = (m + 1)..(m + (i - 1))
      <4>1. IsFiniteSet(S)
        <5>1. m + 1 \in Int /\ m + i \in Int
          BY <3>1
        <5>2. \A p, q \in Int : IsFiniteSet(p..q)
          BY FS_Interval
        <5> QED
          BY <5>1, <5>2
      <4>2. m \in Nat /\ i \in Nat /\ i >= 1
        BY <1>1, <3>1
      <4>3. m + i \in S
        BY <4>2
      <4>4. \A x \in S : x # m + i => x \in (m + 1)..(m + (i - 1))
        BY <4>2
      <4>5. \A x \in (m + 1)..(m + (i - 1)) : x \in S /\ x # m + i
        BY <4>2
      <4> HIDE DEF S
      <4> QED
        BY <4>1, <4>3, <4>4, <4>5
    <3>5. \A x \in S : f[x] \in Nat
      <4> SUFFICES ASSUME NEW x \in S PROVE f[x] \in Nat
        OBVIOUS
      <4>1. x - m \in 1..n /\ m + (x - m) = x
        BY <1>1, <3>1
      <4> QED
        BY <1>2, <4>1
    <3>6. f[m + i] = batch[i].amount
      BY <3>1
    <3> HIDE DEF S
    <3>7. SumFunctionOnSet(f, S) = f[m + i] + SumFunctionOnSet(f, S \ {m + i})
      BY <3>4, <3>5, SumRemove
    <3>8. SumUpTo(batch, i) = SumUpTo(batch, i - 1) + batch[i].amount
      BY <3>1, SumUpToNext
    <3>9. SumUpTo(batch, i - 1) \in Nat /\ batch[i].amount \in Nat
      <4>1. batch[i].amount \in Nat
        BY <1>2, <3>1
      <4>2. SumFunctionOnSet(f, S \ {m + i}) \in Nat
        BY <3>4, <3>5, SumRemove
      <4> QED
        BY <3>3, <3>4, <4>1, <4>2
    <3>10. SumFunctionOnSet(f, S) = batch[i].amount + SumUpTo(batch, i - 1)
      BY <3>3, <3>4, <3>6, <3>7
    <3>11. SumFunctionOnSet(f, S) = SumUpTo(batch, i)
      BY <3>8, <3>9, <3>10
    <3> QED
      BY <2>2, <3>11 DEF S
  <2> QED
    BY <2>3, <2>4
<1>4. n \notin Bad
  <2> HIDE DEF Bad
  <2> QED
    BY <1>3
<1> QED
  BY <1>1, <1>4

(* The two parts of EventsTellTheTable. *)
ToldOnce ==
  \A l \in Ledgers :
    /\ \A i, j \in Told(l) : events[i].settles = events[j].settles => i = j
    /\ {events[i] : i \in Told(l)} = {ReceiptSettled(l, r) : r \in table[l]}

BatchClosed(i) ==
  /\ events[i].receipts \in 1..(i - 1)
  /\ \A k \in Closes(i) : events[k].ledger = events[i].ledger /\ ~IsBatch(events[k])
  /\ events[i].amount = SumFunctionOnSet([k \in Closes(i) |-> events[k].amount], Closes(i))

LEMMA TwoParts ==
  EventsTellTheTable <=> ToldOnce /\ \A i \in DOMAIN events : IsBatch(events[i]) => BatchClosed(i)
BY DEF EventsTellTheTable, ToldOnce, BatchClosed

LEMMA ToldOnceStep ==
  ASSUME LedgerInv, NEW l \in Ledgers, NEW batch \in Seq(Receipts), NEW closing \in 0..1,
         Settles(l, batch, closing)
  PROVE  ToldOnce'
<1> DEFINE m == Len(events)
           n == Len(batch)
           New == {m + k : k \in 1..n}
<1>1. m \in Nat /\ n \in Nat /\ events \in Seq(Events) /\ LedgerTyped
  BY DEF LedgerInv, LedgerTyped
<1>2. /\ Len(events') = m + n + closing /\ events' \in Seq(Events)
      /\ \A i \in 1..m : events'[i] = events[i]
      /\ \A k \in 1..n : events'[m + k] = ReceiptSettled(l, batch[k])
      /\ closing = 1 => events'[m + n + 1].settles = NoId
      /\ Fresh(l, batch, n)
      /\ table' = [table EXCEPT ![l] = TableAfter(l, batch, n)]
  BY DEF Settles, BatchSettled, Sound
<1>3. /\ DOMAIN events = 1..m /\ DOMAIN events' = 1..(m + n + closing)
      /\ \A i \in DOMAIN events' : i \in 1..m \/ i \in New \/ (closing = 1 /\ i = m + n + 1)
  <2>1. DOMAIN events = 1..m /\ DOMAIN events' = 1..(m + n + closing)
    BY <1>1, <1>2
  <2>2. ASSUME NEW i \in 1..(m + n + closing), i \notin 1..m, i # m + n + 1 PROVE i \in New
    <3>1. i - m \in 1..n /\ i = m + (i - m)
      BY <1>1, <2>2
    <3> QED
      BY <3>1
  <2>3. closing = 0 => m + n + 1 \notin 1..(m + n + closing)
    BY <1>1
  <2> QED
    BY <2>1, <2>2, <2>3
<1>4. New \subseteq 1..(m + n + closing) /\ New \cap 1..m = {} /\ 1..m \subseteq 1..(m + n + closing)
  BY <1>1
<1>5. \A k \in 1..n :
        /\ events'[m + k].ledger = l /\ events'[m + k].settles = batch[k].id
        /\ ~IsBatch(events'[m + k])
  <2> SUFFICES ASSUME NEW k \in 1..n
               PROVE  /\ events'[m + k].ledger = l /\ events'[m + k].settles = batch[k].id
                      /\ ~IsBatch(events'[m + k])
    OBVIOUS
  <2>1. events'[m + k] = ReceiptSettled(l, batch[k]) /\ batch[k].id # NoId
    BY <1>2 DEF Fresh
  <2> QED
    BY <2>1 DEF ReceiptSettled, IsBatch
<1>6. ASSUME NEW x \in Ledgers PROVE Told(x)' = Told(x) \cup (IF x = l THEN New ELSE {})
  <2>1. ASSUME NEW i \in 1..m PROVE i \in Told(x)' <=> i \in Told(x)
    BY <1>2, <1>3, <1>4 DEF Told
  <2>2. ASSUME NEW i \in New PROVE i \in Told(x)' <=> x = l
    BY <1>3, <1>4, <1>5 DEF Told
  <2>3. closing = 1 => m + n + 1 \notin Told(x)'
    BY <1>2 DEF Told, IsBatch
  <2>4. Told(x)' \subseteq DOMAIN events' /\ Told(x) \subseteq 1..m
    BY <1>3 DEF Told
  <2> QED
    BY <1>3, <1>4, <2>1, <2>2, <2>3, <2>4
<1>7. ASSUME NEW x \in Ledgers, x # l
      PROVE  /\ \A i, j \in Told(x)' : events'[i].settles = events'[j].settles => i = j
             /\ {events'[i] : i \in Told(x)'} = {ReceiptSettled(x, r) : r \in table'[x]}
  <2>1. Told(x)' = Told(x) /\ table'[x] = table[x] /\ \A i \in Told(x) : events'[i] = events[i]
    BY <1>1, <1>2, <1>3, <1>6, <1>7 DEF Told, LedgerTyped
  <2> QED
    BY <1>7, <2>1, TwoParts DEF LedgerInv, ToldOnce
<1>8. \A i \in Told(l) : \E r \in table[l] : events[i] = ReceiptSettled(l, r)
  <2> SUFFICES ASSUME NEW i \in Told(l)
               PROVE  \E r \in table[l] : events[i] = ReceiptSettled(l, r)
    OBVIOUS
  <2>1. {events[j] : j \in Told(l)} = {ReceiptSettled(l, r) : r \in table[l]}
    BY TwoParts DEF LedgerInv, ToldOnce
  <2>2. events[i] \in {events[j] : j \in Told(l)}
    OBVIOUS
  <2>3. events[i] \in {ReceiptSettled(l, r) : r \in table[l]}
    BY <2>1, <2>2
  <2> QED
    BY <2>3
<1>12. Told(l)' = Told(l) \cup New
  BY <1>6
<1>9. \A i, j \in Told(l)' : events'[i].settles = events'[j].settles => i = j
  <2>1. ASSUME NEW i \in Told(l), NEW k \in 1..n PROVE events'[i].settles # events'[m + k].settles
    <3>1. PICK r \in table[l] : events[i] = ReceiptSettled(l, r)
      BY <1>8
    <3>2. events'[i].settles = r.id
      BY <1>2, <1>3, <3>1 DEF Told, ReceiptSettled
    <3> QED
      BY <1>2, <1>5, <3>2 DEF Fresh
  <2>2. ASSUME NEW k \in 1..n, NEW j \in 1..n, events'[m + k].settles = events'[m + j].settles
        PROVE  k = j
    BY <1>2, <1>5, <2>2 DEF Fresh
  <2>3. ASSUME NEW i \in Told(l), NEW j \in Told(l), events'[i].settles = events'[j].settles
        PROVE  i = j
    <3>1. events'[i] = events[i] /\ events'[j] = events[j]
      BY <1>2, <1>3 DEF Told
    <3> QED
      BY <2>3, <3>1, TwoParts DEF LedgerInv, ToldOnce
  <2> QED
    BY <1>12, <2>1, <2>2, <2>3
<1>10. {events'[i] : i \in Told(l)'} = {ReceiptSettled(l, r) : r \in table'[l]}
  <2>1. table'[l] = table[l] \cup {batch[k] : k \in 1..n}
    BY <1>1, <1>2 DEF LedgerTyped, TableAfter
  <2>2. {events'[i] : i \in Told(l)} = {ReceiptSettled(l, r) : r \in table[l]}
    <3>1. \A i \in Told(l) : i \in 1..m
      BY <1>3 DEF Told
    <3>2. \A i \in Told(l) : events'[i] = events[i]
      BY <1>2, <3>1
    <3>3. {events'[i] : i \in Told(l)} = {events[i] : i \in Told(l)}
      BY <3>2
    <3>4. ToldOnce
      BY TwoParts DEF LedgerInv
    <3>5. {events[i] : i \in Told(l)} = {ReceiptSettled(l, r) : r \in table[l]}
      BY <3>4 DEF ToldOnce
    <3> QED
      BY <3>3, <3>5
  <2>3. {events'[i] : i \in New} = {ReceiptSettled(l, batch[k]) : k \in 1..n}
    <3>1. \A k \in 1..n : events'[m + k] = ReceiptSettled(l, batch[k])
      BY <1>2
    <3>2. {events'[i] : i \in New} = {events'[m + k] : k \in 1..n}
      OBVIOUS
    <3> QED
      BY <3>1, <3>2
  <2>4. {events'[i] : i \in Told(l)'} = {events'[i] : i \in Told(l)} \cup {events'[i] : i \in New}
    <3> HIDE DEF New
    <3> QED
      BY <1>12
  <2>5. {ReceiptSettled(l, r) : r \in table'[l]}
          = {ReceiptSettled(l, r) : r \in table[l]} \cup {ReceiptSettled(l, batch[k]) : k \in 1..n}
    BY <2>1
  <2> HIDE DEF New
  <2> QED
    BY <2>2, <2>3, <2>4, <2>5
<1>11. ASSUME NEW x \in Ledgers
      PROVE  /\ \A i, j \in Told(x)' : events'[i].settles = events'[j].settles => i = j
             /\ {events'[i] : i \in Told(x)'} = {ReceiptSettled(x, r) : r \in table'[x]}
  <2>1. CASE x = l
    BY <1>9, <1>10, <2>1
  <2>2. CASE x # l
    BY <1>7, <2>2
  <2> QED
    BY <2>1, <2>2
<1> QED
  BY <1>11 DEF ToldOnce

(* The closing event of a batch counts and adds up the receipts before it. *)
LEMMA BatchClosedStep ==
  ASSUME LedgerInv, NEW l \in Ledgers, NEW batch \in Seq(Receipts), NEW closing \in 0..1,
         Settles(l, batch, closing), closing = 1 => batch # <<>>
  PROVE  \A i \in DOMAIN events' : IsBatch(events'[i]) => BatchClosed(i)'
<1>m. PICK m : m = Len(events)
  OBVIOUS
<1> DEFINE n == Len(batch)
<1>1. m \in Nat /\ n \in Nat /\ events \in Seq(Events) /\ DOMAIN events = 1..m
  BY <1>m DEF LedgerInv, LedgerTyped
<1>2. /\ Len(events') = m + n + closing /\ events' \in Seq(Events)
      /\ \A i \in 1..m : events'[i] = events[i]
      /\ \A k \in 1..n : events'[m + k] = ReceiptSettled(l, batch[k])
      /\ closing = 1 => events'[m + n + 1] = BatchSettled(l, batch, SumUpTo(batch, n))
      /\ Fresh(l, batch, n)
  BY <1>m DEF Settles, Sound
<1> HIDE DEF n
<1>3. DOMAIN events' = 1..(m + n + closing)
  BY <1>2
<1>4. ASSUME NEW k \in 1..n
      PROVE  /\ events'[m + k].ledger = l /\ events'[m + k].amount = batch[k].amount
             /\ ~IsBatch(events'[m + k])
  <2>1. events'[m + k] = ReceiptSettled(l, batch[k]) /\ batch[k].id # NoId
    BY <1>2 DEF Fresh
  <2> QED
    BY <2>1 DEF ReceiptSettled, IsBatch
<1>5. ASSUME NEW i \in 1..m, IsBatch(events'[i]) PROVE BatchClosed(i)'
  <2>1. events'[i] = events[i]
    BY <1>2
  <2>2. BatchClosed(i)
    BY <1>1, <1>5, <2>1, TwoParts DEF LedgerInv
  <2>3. /\ events[i].receipts \in 1..(i - 1)
        /\ \A k \in Closes(i) : events[k].ledger = events[i].ledger /\ ~IsBatch(events[k])
        /\ events[i].amount = SumFunctionOnSet([k \in Closes(i) |-> events[k].amount], Closes(i))
    BY <2>2 DEF BatchClosed
  <2>4. Closes(i)' = Closes(i)
    BY <2>1 DEF Closes
  <2>5. \A k \in Closes(i) : k \in 1..m
    BY <1>1, <2>3 DEF Closes
  <2>6. \A k \in Closes(i) : events'[k] = events[k]
    BY <1>2, <2>5
  <2>7. [k \in Closes(i) |-> events'[k].amount] = [k \in Closes(i) |-> events[k].amount]
    BY <2>6
  <2> QED
    BY <2>1, <2>3, <2>4, <2>6, <2>7 DEF BatchClosed
<1>6. ASSUME NEW i \in (m + 1)..(m + n) PROVE ~IsBatch(events'[i])
  <2>1. i - m \in 1..n /\ m + (i - m) = i
    BY <1>1
  <2> QED
    BY <1>4, <2>1
<1>7. ASSUME closing = 1 PROVE BatchClosed(m + n + 1)'
  <2>0. PICK i : i = m + n + 1
    OBVIOUS
  <2> DEFINE e == events'[i]
             f == [k \in (m + 1)..(m + n) |-> events'[k].amount]
  <2>1. e.receipts = n /\ e.amount = SumUpTo(batch, n) /\ e.ledger = l
    BY <1>2, <1>7, <2>0 DEF BatchSettled, n
  <2>2. n >= 1
    BY <1>1, <1>7 DEF n
  <2>3. Closes(i)' = (m + 1)..(m + n)
    <3>1. i - n = m + 1 /\ i - 1 = m + n
      BY <1>1, <2>0
    <3> QED
      BY <2>1, <3>1 DEF Closes
  <2>4. \A k \in (m + 1)..(m + n) : events'[k].ledger = l /\ ~IsBatch(events'[k])
    <3> SUFFICES ASSUME NEW k \in (m + 1)..(m + n)
                 PROVE  events'[k].ledger = l /\ ~IsBatch(events'[k])
      OBVIOUS
    <3>1. k - m \in 1..n /\ m + (k - m) = k
      BY <1>1
    <3> QED
      BY <1>4, <3>1
  <2>5. \A k \in 1..n : f[m + k] = batch[k].amount
    <3> SUFFICES ASSUME NEW k \in 1..n PROVE f[m + k] = batch[k].amount
      OBVIOUS
    <3>1. m + k \in (m + 1)..(m + n)
      BY <1>1
    <3> QED
      BY <1>4, <3>1
  <2>6. e.receipts \in 1..(i - 1)
    BY <1>1, <2>0, <2>1, <2>2
  <2> HIDE DEF f
  <2>7. SumFunctionOnSet(f, (m + 1)..(m + n)) = SumUpTo(batch, n)
    BY <1>1, <2>5, SumMoves DEF n
  <2>8. BatchClosed(i)'
    BY <2>1, <2>3, <2>4, <2>6, <2>7 DEF BatchClosed, f
  <2> QED
    BY <2>0, <2>8
<1> QED
  <2> SUFFICES ASSUME NEW i \in DOMAIN events', IsBatch(events'[i]) PROVE BatchClosed(i)'
    OBVIOUS
  <2>1. i \in 1..m \/ i \in (m + 1)..(m + n) \/ (closing = 1 /\ i = m + n + 1)
    BY <1>1, <1>3
  <2> QED
    BY <1>5, <1>6, <1>7, <2>1

LEMMA TotalsStep ==
  ASSUME LedgerInv, NEW l \in Ledgers, NEW batch \in Seq(Receipts), NEW closing \in 0..1,
         Settles(l, batch, closing)
  PROVE  TotalsMatchTable' /\ LedgerTyped'
<1> DEFINE n == Len(batch)
           T == TableAfter(l, batch, n)
<1>1. /\ table \in [Ledgers -> SUBSET Receipts] /\ count \in [Ledgers -> Nat]
      /\ total \in [Ledgers -> Nat]
      /\ \A x \in Ledgers : IsFiniteSet(table[x]) /\ \A r \in table[x] : r.id # NoId
  BY DEF LedgerInv, LedgerTyped
<1>2. /\ table' = [table EXCEPT ![l] = T]
      /\ count' = [count EXCEPT ![l] = Cardinality(T)]
      /\ total' = [total EXCEPT ![l] = SumOf(T)]
      /\ events' \in Seq(Events)
      /\ Fresh(l, batch, n) /\ IsFiniteSet(T) /\ SumOf(T) <= MaxU64
  BY DEF Settles, Sound
<1>3. \A k \in 1..n : batch[k] \in Receipts
  OBVIOUS
<1>4. T \in SUBSET Receipts
  BY <1>1, <1>3 DEF TableAfter
<1>5. \A r \in T : r.id # NoId
  BY <1>1, <1>2 DEF TableAfter, Fresh
<1>6. \A r, q \in T : r.id = q.id => r = q
  <2>1. \A r, q \in table[l] : r.id = q.id => r = q
    BY DEF LedgerInv, TotalsMatchTable
  <2>2. \A k, j \in 1..n : batch[k].id = batch[j].id => k = j
    BY <1>2 DEF Fresh
  <2>3. \A k \in 1..n, q \in table[l] : q.id # batch[k].id
    BY <1>2 DEF Fresh
  <2> QED
    BY <2>1, <2>2, <2>3 DEF TableAfter
<1>7. Cardinality(T) \in Nat
  BY <1>2, FS_CardinalityType
<1>8. SumOf(T) \in Nat
  BY <1>2, <1>4, SumOfNat
<1> HIDE DEF T
<1>9. /\ table'[l] = T /\ count'[l] = Cardinality(T) /\ total'[l] = SumOf(T)
      /\ \A x \in Ledgers : x # l =>
           table'[x] = table[x] /\ count'[x] = count[x] /\ total'[x] = total[x]
  BY <1>1, <1>2
<1>10. TotalsMatchTable'
  <2> SUFFICES ASSUME NEW x \in Ledgers
               PROVE  /\ \A r, q \in table'[x] : r.id = q.id => r = q
                      /\ count'[x] = Cardinality(table'[x])
                      /\ total'[x] = SumOf(table'[x]) /\ total'[x] <= MaxU64
    BY DEF TotalsMatchTable
  <2>1. CASE x = l
    BY <1>2, <1>6, <1>9, <2>1
  <2>2. CASE x # l
    BY <1>9, <2>2 DEF LedgerInv, TotalsMatchTable
  <2> QED
    BY <2>1, <2>2
<1>11. LedgerTyped'
  <2>1. /\ table' \in [Ledgers -> SUBSET Receipts] /\ count' \in [Ledgers -> Nat]
        /\ total' \in [Ledgers -> Nat]
    BY <1>1, <1>2, <1>4, <1>7, <1>8
  <2>2. ASSUME NEW x \in Ledgers PROVE IsFiniteSet(table'[x]) /\ \A r \in table'[x] : r.id # NoId
    <3>1. CASE x = l
      BY <1>2, <1>5, <1>9, <3>1
    <3>2. CASE x # l
      BY <1>1, <1>9, <3>2
    <3> QED
      BY <3>1, <3>2
  <2> QED
    BY <1>2, <2>1, <2>2 DEF LedgerTyped
<1> QED
  BY <1>10, <1>11

LEMMA LedgerStart == Init => LedgerInv
<1> SUFFICES ASSUME Init PROVE LedgerInv
  OBVIOUS
<1>1. /\ table = [l \in Ledgers |-> {}] /\ count = [l \in Ledgers |-> 0]
      /\ total = [l \in Ledgers |-> 0] /\ events = <<>>
  BY DEF Init
<1>2. IsFiniteSet({}) /\ Cardinality({}) = 0
  BY FS_EmptySet
<1>3. SumOf({}) = 0
  BY <1>2, SumOfNone DEF SumOf
<1>4. LedgerTyped
  BY <1>1, <1>2 DEF LedgerTyped
<1>5. TotalsMatchTable
  BY <1>1, <1>2, <1>3, LedgerAssumption DEF TotalsMatchTable
<1>6. DOMAIN events = {}
  BY <1>1
<1>7. EventsTellTheTable
  BY <1>1, <1>6 DEF EventsTellTheTable, Told
<1> QED
  BY <1>4, <1>5, <1>7 DEF LedgerInv

LEMMA BatchesAreSequences == BoundedSeq(Receipts, MaxBatch) \subseteq Seq(Receipts)
BY DEF BoundedSeq, SeqOf

LEMMA LedgerStep == LedgerInv /\ [Next]_vars => LedgerInv'
<1> SUFFICES ASSUME LedgerInv, [Next]_vars PROVE LedgerInv'
  OBVIOUS
<1>1. ASSUME NEW l \in Ledgers, NEW batch \in Seq(Receipts), NEW closing \in 0..1,
             Settles(l, batch, closing), closing = 1 => batch # <<>>
      PROVE  LedgerInv'
  <2>1. TotalsMatchTable' /\ LedgerTyped'
    BY <1>1, TotalsStep
  <2>2. ToldOnce'
    BY <1>1, ToldOnceStep
  <2>3. \A i \in DOMAIN events' : IsBatch(events'[i]) => BatchClosed(i)'
    BY <1>1, BatchClosedStep
  <2>4. EventsTellTheTable'
    BY <2>2, <2>3 DEF EventsTellTheTable, ToldOnce, BatchClosed
  <2> QED
    BY <2>1, <2>4 DEF LedgerInv
<1>2. ASSUME UNCHANGED <<table, count, total, events>> PROVE LedgerInv'
  <2>1. /\ \A l \in Ledgers : Told(l)' = Told(l)
        /\ \A i : Closes(i)' = Closes(i)
    BY <1>2 DEF Told, Closes, IsBatch
  <2>2. LedgerTyped'
    BY <1>2 DEF LedgerInv, LedgerTyped
  <2>3. TotalsMatchTable'
    BY <1>2 DEF LedgerInv, TotalsMatchTable
  <2>4. EventsTellTheTable'
    <3>1. /\ \A l \in Ledgers : {events'[i] : i \in Told(l)'} = {events[i] : i \in Told(l)}
          /\ \A l \in Ledgers : {ReceiptSettled(l, r) : r \in table'[l]}
                              = {ReceiptSettled(l, r) : r \in table[l]}
      BY <1>2, <2>1
    <3>2. \A i : [k \in Closes(i)' |-> events'[k].amount] = [k \in Closes(i) |-> events[k].amount]
      BY <1>2, <2>1
    <3>3. ToldOnce'
      BY <1>2, <2>1, <3>1, TwoParts DEF LedgerInv, ToldOnce
    <3>4. \A i \in DOMAIN events : IsBatch(events[i]) => BatchClosed(i)
      BY TwoParts DEF LedgerInv
    <3>5. \A i \in DOMAIN events' : IsBatch(events'[i]) => BatchClosed(i)'
      BY <1>2, <2>1, <3>2, <3>4 DEF BatchClosed, IsBatch
    <3> QED
      BY <3>3, <3>5 DEF EventsTellTheTable, ToldOnce, BatchClosed
  <2> QED
    BY <2>2, <2>3, <2>4 DEF LedgerInv
<1>3. ASSUME NEW l \in Ledgers, CreateLedger(l) PROVE LedgerInv'
  BY <1>2, <1>3 DEF CreateLedger
<1>4. ASSUME NEW l \in Ledgers, NEW r \in Receipts, SettleReceipt(l, r) PROVE LedgerInv'
  <2>1. Settles(l, <<r>>, 0) /\ <<r>> \in Seq(Receipts) /\ 0 \in 0..1
    BY <1>4, ReceiptSettles
  <2> QED
    BY <1>1, <2>1
<1>5. ASSUME NEW l \in Ledgers, NEW batch \in BoundedSeq(Receipts, MaxBatch), SettleBatch(l, batch)
      PROVE  LedgerInv'
  <2>1. batch \in Seq(Receipts) /\ 1 \in 0..1
    BY BatchesAreSequences
  <2>2. Settles(l, batch, 1) /\ batch # <<>>
    BY <1>5, <2>1, BatchSettles
  <2> QED
    BY <1>1, <2>1, <2>2
<1>6. CASE UNCHANGED vars
  BY <1>2, <1>6 DEF vars
<1> QED
  BY <1>3, <1>4, <1>5, <1>6 DEF Next

(* A ledger holds an id once, its two totals are those of its table and    *)
(* fit a u64, and its events tell the table and close every batch, however *)
(* receipts and batches are settled, on whatever ledgers.                  *)
THEOREM Accounting == Spec => []TotalsMatchTable /\ []EventsTellTheTable
<1>1. LedgerInv => TotalsMatchTable /\ EventsTellTheTable
  BY DEF LedgerInv
<1> QED
  BY <1>1, LedgerStart, LedgerStep, PTL DEF Spec

(***************************************************************************)
(* The pipeline: what the indexer has read stays where it was read.        *)
(***************************************************************************)
(* Events are only ever added behind the others, and neither the kind nor  *)
(* the record id of an event changes then: a new BatchSettled closes none  *)
(* of the events there were.                                               *)
EventsKept ==
  /\ Len(events) <= Len(events')
  /\ \A i \in DOMAIN events :
       /\ i \in DOMAIN events'
       /\ events'[i] = events[i]
       /\ KindOf(i)' = KindOf(i)
       /\ RecordId(i)' = RecordId(i)

LEMMA SettlesKeeps ==
  ASSUME LedgerInv, NEW l \in Ledgers, NEW batch \in Seq(Receipts), NEW closing \in 0..1,
         Settles(l, batch, closing)
  PROVE  EventsKept
<1>m. PICK m : m = Len(events)
  OBVIOUS
<1>n. PICK n : n = Len(batch)
  OBVIOUS
<1>1. m \in Nat /\ n \in Nat /\ DOMAIN events = 1..m
  BY <1>m, <1>n DEF LedgerInv, LedgerTyped
<1>2. /\ Len(events') = m + n + closing /\ events' \in Seq(Events)
      /\ \A i \in 1..m : events'[i] = events[i]
      /\ \A k \in 1..n : events'[m + k] = ReceiptSettled(l, batch[k])
      /\ closing = 1 => events'[m + n + 1] = BatchSettled(l, batch, SumUpTo(batch, n))
      /\ Fresh(l, batch, n)
  BY <1>m, <1>n DEF Settles, Sound
<1>3. m <= Len(events') /\ DOMAIN events' = 1..(m + n + closing) /\ 1..m \subseteq DOMAIN events'
  BY <1>1, <1>2
<1>4. ASSUME NEW j \in (m + 1)..(m + n) PROVE ~IsBatch(events'[j])
  <2>1. j - m \in 1..n /\ m + (j - m) = j
    BY <1>1
  <2>2. events'[j] = ReceiptSettled(l, batch[j - m]) /\ batch[j - m].id # NoId
    BY <1>2, <2>1 DEF Fresh
  <2> QED
    BY <2>2 DEF ReceiptSettled, IsBatch
<1>5. ASSUME NEW j \in (m + 1)..(m + n + closing), IsBatch(events'[j])
      PROVE  j - events'[j].receipts = m + 1
  <2>1. j = m + n + 1 /\ closing = 1
    BY <1>1, <1>4, <1>5
  <2>2. events'[j].receipts = n
    BY <1>n, <1>2, <2>1 DEF BatchSettled
  <2> QED
    BY <1>1, <2>1, <2>2
<1>6. ASSUME NEW i \in 1..m
      PROVE  {j \in i..Len(events') : IsBatch(events'[j]) /\ j - events'[j].receipts <= i}
               = {j \in i..m : IsBatch(events[j]) /\ j - events[j].receipts <= i}
  <2>1. ASSUME NEW j \in i..m
        PROVE  j \in 1..m /\ j \in i..Len(events') /\ events'[j] = events[j]
    BY <1>1, <1>2
  <2>2. ASSUME NEW j \in i..Len(events'), j \notin i..m, IsBatch(events'[j])
        PROVE  ~(j - events'[j].receipts <= i)
    <3>1. j \in (m + 1)..(m + n + closing)
      BY <1>1, <1>2, <2>2
    <3> QED
      BY <1>1, <1>5, <2>2, <3>1
  <2> QED
    BY <2>1, <2>2
<1>7. ASSUME NEW i \in 1..m PROVE Tx(i)' = Tx(i)
  BY <1>m, <1>6 DEF Tx
<1>8. ASSUME NEW i \in 1..m PROVE KindOf(i)' = KindOf(i) /\ RecordId(i)' = RecordId(i)
  BY <1>2, <1>7 DEF KindOf, RecordId
<1> QED
  BY <1>m, <1>1, <1>2, <1>3, <1>8 DEF EventsKept

LEMMA SameEventsKept == ASSUME LedgerInv, events' = events PROVE EventsKept
<1>1. Len(events) \in Nat
  BY DEF LedgerInv, LedgerTyped
<1>2. ASSUME NEW i PROVE KindOf(i)' = KindOf(i)
  BY DEF KindOf, IsBatch
<1>3. ASSUME NEW i PROVE Tx(i)' = Tx(i)
  BY DEF Tx, IsBatch
<1> QED
  BY <1>1, <1>2, <1>3 DEF EventsKept, RecordId

LEMMA StepKeepsEvents == ASSUME LedgerInv, [Next]_vars PROVE EventsKept
<1>1. ASSUME NEW l \in Ledgers, CreateLedger(l) PROVE EventsKept
  BY <1>1, SameEventsKept DEF CreateLedger
<1>2. ASSUME NEW l \in Ledgers, NEW r \in Receipts, SettleReceipt(l, r) PROVE EventsKept
  <2>1. Settles(l, <<r>>, 0) /\ <<r>> \in Seq(Receipts) /\ 0 \in 0..1
    BY <1>2, ReceiptSettles
  <2> QED
    BY <2>1, SettlesKeeps
<1>3. ASSUME NEW l \in Ledgers, NEW batch \in BoundedSeq(Receipts, MaxBatch), SettleBatch(l, batch)
      PROVE  EventsKept
  <2>1. batch \in Seq(Receipts) /\ 1 \in 0..1
    BY BatchesAreSequences
  <2> QED
    BY <1>3, <2>1, BatchSettles, SettlesKeeps
<1>4. CASE UNCHANGED vars
  BY <1>4, SameEventsKept DEF vars
<1> QED
  BY <1>1, <1>2, <1>3, <1>4 DEF Next

(* The first and the last of finitely many positions. *)
LEMMA MinOf ==
  ASSUME NEW S \in SUBSET Nat, S # {}
  PROVE  Min(S) \in S
<1>1. \E x \in S : \A y \in S : x <= y
  BY Least
<1> QED
  BY <1>1 DEF Min

LEMMA MaxOf ==
  ASSUME NEW n \in Nat, NEW S \in SUBSET (1..n), S # {}
  PROVE  Max(S) \in S /\ \A y \in S : y <= Max(S)
<1> DEFINE T == {n - x : x \in S}
<1>0. \A x \in S : x \in Nat /\ n - x \in Nat
  <2>1. \A x \in 1..n : x \in Nat /\ n - x \in Nat
    OBVIOUS
  <2> QED
    BY <2>1
<1>1. T \in SUBSET Nat /\ T # {}
  BY <1>0
<1>2. PICK t \in T : \A u \in T : t <= u
  <2> HIDE DEF T
  <2> QED
    BY <1>1, Least
<1>3. PICK x \in S : t = n - x
  BY <1>2
<1>4. ASSUME NEW y \in S PROVE x >= y
  <2>1. n - y \in T
    OBVIOUS
  <2>2. n - x <= n - y /\ x \in 1..n /\ y \in 1..n
    BY <1>2, <1>3, <2>1
  <2> QED
    BY <1>0, <2>2
<1>5. \A y \in S : x >= y
  BY <1>4
<1>6. Max(S) \in S /\ \A y \in S : Max(S) >= y
  BY <1>5 DEF Max
<1> QED
  BY <1>0, <1>6

(* What the run of the indexer stands on: in front of its cursor of a kind *)
(* an event of that kind is in the index or on the page.                   *)
Cursors == [Kinds -> 0..Len(events)]

Covered ==
  \A i \in DOMAIN events : i <= cursor[KindOf(i)] => Indexed(i) \/ i \in page[KindOf(i)]

RunInv ==
  /\ cursor \in Cursors
  /\ saved \in Cursors
  /\ page \in [Kinds -> SUBSET DOMAIN events]
  /\ \A kind \in Kinds : \A i \in page[kind] : KindOf(i) = kind
  /\ pc \in {"receipt", "save"} => page = NoEvents
  /\ pc = "batch" => page["batch"] = {}

SyncInv ==
  /\ RunInv
  /\ pc # "idle" => Covered
  /\ NoEventSkipped

LEMMA KindTyped == \A i : KindOf(i) \in Kinds
BY DEF KindOf, Kinds

(* The page that is fetched leaves no event of its kind out. *)
LEMMA PageIsFirst ==
  ASSUME LedgerInv, RunInv, NEW kind \in Kinds
  PROVE  LET next == NextPage(kind) IN
         /\ next \subseteq Behind(kind, cursor[kind])
         /\ next # {} =>
              /\ Max(next) \in 1..Len(events)
              /\ \A i \in Behind(kind, cursor[kind]) : i <= Max(next) => i \in next
<1> DEFINE behind == Behind(kind, cursor[kind])
           next == NextPage(kind)
           m == Len(events)
<1>1. m \in Nat /\ DOMAIN events = 1..m
  BY DEF LedgerInv, LedgerTyped
<1>2. behind \subseteq 1..m /\ next \subseteq behind
  BY <1>1 DEF Behind, NextPage
<1>3. IsFiniteSet(1..m)
  BY <1>1, FS_Interval
<1>4. \A i \in next : Cardinality({j \in behind : j < i}) < PerKind
  BY DEF NextPage
<1>5. \A i \in behind : Cardinality({j \in behind : j < i}) < PerKind => i \in next
  BY DEF NextPage
<1>6. PerKind \in Nat
  BY ReportAssumption DEF PerKind
<1> HIDE DEF behind, next, m
<1>7. ASSUME next # {} PROVE Max(next) \in 1..m /\ \A i \in behind : i <= Max(next) => i \in next
  <2>1. Max(next) \in next /\ Max(next) \in 1..m
    BY <1>1, <1>2, <1>7, MaxOf
  <2>2. ASSUME NEW i \in behind, i <= Max(next) PROVE i \in next
    <3> DEFINE A == {j \in behind : j < i}
               B == {j \in behind : j < Max(next)}
    <3>1. A \in SUBSET B
      <4>1. \A j \in 1..m : j \in Nat
        BY <1>1
      <4>2. i \in Nat /\ Max(next) \in Nat /\ \A j \in behind : j \in Nat
        BY <1>2, <2>1, <4>1
      <4>3. \A j \in behind : j < i => j < Max(next)
        BY <2>2, <4>2
      <4> QED
        BY <4>3
    <3>2. B \in SUBSET (1..m)
      BY <1>2
    <3>3. Cardinality(B) < PerKind
      BY <1>4, <2>1
    <3>4. (Cardinality(A) < PerKind) => i \in next
      BY <1>5
    <3> HIDE DEF A, B
    <3>5. IsFiniteSet(B)
      BY <1>3, <3>2, FS_Subset
    <3>6. IsFiniteSet(A) /\ Cardinality(A) <= Cardinality(B)
      BY <3>1, <3>5, FS_Subset
    <3>7. Cardinality(A) \in Nat /\ Cardinality(B) \in Nat
      BY <3>5, <3>6, FS_CardinalityType
    <3> QED
      BY <1>6, <3>3, <3>4, <3>6, <3>7
  <2> QED
    BY <2>1, <2>2
<1> QED
  BY <1>2, <1>7 DEF behind, next, m

LEMMA LedgersSync ==
  ASSUME LedgerInv, SyncInv, EventsKept, LedgerInv', UNCHANGED pipeline
  PROVE  SyncInv'
<1>1. /\ Len(events) \in Nat /\ Len(events') \in Nat /\ DOMAIN events = 1..Len(events)
      /\ DOMAIN events' = 1..Len(events')
  BY DEF LedgerInv, LedgerTyped
<1>2. /\ payments' = payments /\ index' = index /\ saved' = saved /\ cursor' = cursor
      /\ page' = page /\ pc' = pc
  BY DEF pipeline, run
<1>3. /\ Len(events) <= Len(events')
      /\ \A i \in DOMAIN events :
           /\ i \in DOMAIN events' /\ events'[i] = events[i]
           /\ KindOf(i)' = KindOf(i) /\ RecordId(i)' = RecordId(i)
  BY DEF EventsKept
<1>4. \A i \in DOMAIN events : Indexed(i) => Indexed(i)'
  BY <1>2, <1>3 DEF Indexed
<1>5. \A i : KindOf(i)' \in Kinds
  BY DEF KindOf, Kinds
<1>6. RunInv'
  <2>1. 0..Len(events) \subseteq 0..Len(events')
    BY <1>1, <1>3
  <2>2. cursor' \in [Kinds -> 0..Len(events')] /\ saved' \in [Kinds -> 0..Len(events')]
    BY <1>2, <2>1 DEF SyncInv, RunInv, Cursors
  <2>3. page' \in [Kinds -> SUBSET DOMAIN events']
    BY <1>2, <1>3 DEF SyncInv, RunInv
  <2>4. \A kind \in Kinds : \A i \in page'[kind] : KindOf(i)' = kind
    BY <1>2, <1>3 DEF SyncInv, RunInv
  <2> QED
    BY <1>2, <2>2, <2>3, <2>4 DEF SyncInv, RunInv, Cursors, NoEvents
<1>7. ASSUME NEW c \in Cursors, NEW i \in DOMAIN events', i <= c[KindOf(i)']
      PROVE  i \in DOMAIN events
  <2>1. c[KindOf(i)'] \in 0..Len(events)
    BY <1>5 DEF Cursors
  <2> QED
    BY <1>1, <1>7, <2>1
<1>8. pc' # "idle" => Covered'
  <2> SUFFICES ASSUME pc # "idle", NEW i \in DOMAIN events', i <= cursor[KindOf(i)']
               PROVE  Indexed(i)' \/ i \in page[KindOf(i)']
    BY <1>2 DEF Covered
  <2>1. i \in DOMAIN events /\ KindOf(i)' = KindOf(i)
    BY <1>3, <1>7 DEF SyncInv, RunInv
  <2> QED
    BY <1>4, <2>1 DEF SyncInv, Covered
<1>9. NoEventSkipped'
  <2> SUFFICES ASSUME NEW i \in DOMAIN events', i <= saved[KindOf(i)'] PROVE Indexed(i)'
    BY <1>2 DEF NoEventSkipped
  <2>1. i \in DOMAIN events /\ KindOf(i)' = KindOf(i)
    BY <1>3, <1>7 DEF SyncInv, RunInv
  <2> QED
    BY <1>4, <2>1 DEF SyncInv, NoEventSkipped
<1> QED
  BY <1>6, <1>8, <1>9 DEF SyncInv

(* The steps of the indexer leave the events alone. *)
LEMMA SameEvents ==
  ASSUME LedgerInv, events' = events
  PROVE  /\ \A i \in DOMAIN events : KindOf(i)' = KindOf(i) /\ RecordId(i)' = RecordId(i)
         /\ Cursors' = Cursors
         /\ index' = index => \A i \in DOMAIN events : Indexed(i)' = Indexed(i)
<1>1. \A i \in DOMAIN events : KindOf(i)' = KindOf(i) /\ RecordId(i)' = RecordId(i)
  BY SameEventsKept DEF EventsKept
<1> QED
  BY <1>1 DEF Cursors, Indexed

LEMMA FetchSync ==
  ASSUME LedgerInv, SyncInv, NEW kind \in Kinds, FetchKind(kind)
  PROVE  SyncInv'
<1> DEFINE next == NextPage(kind)
           behind == Behind(kind, cursor[kind])
<1>1. /\ pc = kind /\ page' = [page EXCEPT ![kind] = next]
      /\ cursor' = [cursor EXCEPT ![kind] = IF next = {} THEN 0 ELSE Max(next)]
      /\ pc' = IF kind = "receipt" THEN "batch" ELSE "upsert"
      /\ events' = events /\ index' = index /\ saved' = saved
  BY DEF FetchKind, vars
<1>2. /\ next \subseteq behind
      /\ next # {} =>
           /\ Max(next) \in 1..Len(events)
           /\ \A i \in behind : i <= Max(next) => i \in next
  BY PageIsFirst DEF SyncInv
<1>3. /\ cursor \in [Kinds -> 0..Len(events)] /\ page \in [Kinds -> SUBSET DOMAIN events]
      /\ page[kind] = {}
  BY <1>1 DEF SyncInv, RunInv, Cursors, NoEvents, Kinds
<1>4. Len(events) \in Nat /\ DOMAIN events = 1..Len(events)
  BY DEF LedgerInv, LedgerTyped
<1>5. /\ \A i \in DOMAIN events : KindOf(i)' = KindOf(i) /\ Indexed(i)' = Indexed(i)
      /\ Cursors' = Cursors
  BY <1>1, SameEvents
<1>6. \A i : i \in behind <=> i \in DOMAIN events /\ i > cursor[kind] /\ KindOf(i) = kind
  BY DEF Behind
<1> HIDE DEF next, behind
<1>7. RunInv'
  <2>1. cursor' \in Cursors'
    BY <1>1, <1>2, <1>3, <1>4, <1>5 DEF Cursors
  <2>2. saved' \in Cursors'
    BY <1>1, <1>5 DEF SyncInv, RunInv
  <2>3. page' \in [Kinds -> SUBSET DOMAIN events']
    BY <1>1, <1>2, <1>3, <1>6
  <2>4. \A k \in Kinds : \A i \in page'[k] : KindOf(i)' = k
    <3> SUFFICES ASSUME NEW k \in Kinds, NEW i \in page'[k] PROVE KindOf(i)' = k
      OBVIOUS
    <3>1. CASE k = kind
      BY <1>1, <1>2, <1>3, <1>5, <1>6, <3>1
    <3>2. CASE k # kind
      <4>1. i \in page[k] /\ i \in DOMAIN events
        BY <1>1, <1>3, <3>2
      <4> QED
        BY <1>5, <4>1 DEF SyncInv, RunInv
    <3> QED
      BY <3>1, <3>2
  <2>5. pc' = "batch" => page'["batch"] = {}
    BY <1>1, <1>3 DEF SyncInv, RunInv, NoEvents, Kinds
  <2>6. pc' \notin {"receipt", "save"}
    BY <1>1
  <2> QED
    BY <2>1, <2>2, <2>3, <2>4, <2>5, <2>6 DEF RunInv
<1>8. Covered'
  <2> SUFFICES ASSUME NEW i \in DOMAIN events, i <= cursor'[KindOf(i)]
               PROVE  Indexed(i) \/ i \in page'[KindOf(i)]
    BY <1>1, <1>5 DEF Covered
  <2>0. pc # "idle" /\ KindOf(i) \in Kinds
    BY <1>1, KindTyped DEF Kinds
  <2>1. CASE KindOf(i) = kind
    <3>1. next # {}
      BY <1>1, <1>3, <1>4, <2>1
    <3>2. i <= Max(next)
      BY <1>1, <1>3, <2>1, <3>1
    <3>3. CASE i <= cursor[kind]
      BY <1>3, <2>0, <2>1, <3>3 DEF SyncInv, Covered
    <3>4. CASE ~(i <= cursor[kind])
      <4>1. i > cursor[kind]
        BY <1>3, <1>4, <3>4
      <4>2. i \in next
        BY <1>2, <1>6, <2>1, <3>1, <3>2, <4>1
      <4> QED
        BY <1>1, <1>3, <2>1, <4>2
    <3> QED
      BY <3>3, <3>4
  <2>2. CASE KindOf(i) # kind
    <3>1. cursor'[KindOf(i)] = cursor[KindOf(i)] /\ page'[KindOf(i)] = page[KindOf(i)]
      BY <1>1, <1>3, <2>0, <2>2
    <3> QED
      BY <2>0, <3>1 DEF SyncInv, Covered
  <2> QED
    BY <2>1, <2>2
<1>9. NoEventSkipped'
  BY <1>1, <1>5 DEF SyncInv, NoEventSkipped
<1> QED
  BY <1>7, <1>8, <1>9 DEF SyncInv

(* An upsert replaces the record of its own event only. *)
LEMMA UpsertIndexes ==
  ASSUME LedgerInv, RunInv, NEW kind \in Kinds, Upsert(kind), NEW i, i = Min(page[kind])
  PROVE  /\ i \in page[kind] /\ i \in DOMAIN events
         /\ Indexed(i)'
         /\ \A j \in DOMAIN events : Indexed(j) => Indexed(j)'
<1>1. /\ page[kind] # {} /\ events' = events
      /\ index' = {record \in index : record.id # RecordId(i)}
                    \cup {[id |-> RecordId(i), event |-> events[i]]}
  BY DEF Upsert, vars
<1>2. page[kind] \in SUBSET DOMAIN events /\ DOMAIN events = 1..Len(events) /\ Len(events) \in Nat
  BY DEF LedgerInv, LedgerTyped, RunInv
<1>3. i \in page[kind] /\ i \in DOMAIN events
  <2>1. page[kind] \in SUBSET Nat
    BY <1>2
  <2> QED
    BY <1>1, <1>2, <2>1, MinOf
<1>4. \A j \in DOMAIN events : RecordId(j)' = RecordId(j)
  BY <1>1, SameEvents
<1>5. Indexed(i)'
  <2>1. [id |-> RecordId(i), event |-> events[i]] \in index'
    BY <1>1
  <2> QED
    BY <1>1, <1>3, <1>4, <2>1 DEF Indexed
<1>6. ASSUME NEW j \in DOMAIN events, Indexed(j), j # i PROVE Indexed(j)'
  <2>1. PICK record \in index : record.id = RecordId(j) /\ record.event = events[j]
    BY <1>6 DEF Indexed
  <2>2. record.id # RecordId(i)
    BY <1>6, <2>1 DEF RecordId
  <2> QED
    BY <1>1, <1>4, <2>1, <2>2 DEF Indexed
<1> QED
  BY <1>3, <1>5, <1>6

LEMMA UpsertSync ==
  ASSUME LedgerInv, SyncInv, NEW kind \in Kinds, Upsert(kind)
  PROVE  SyncInv'
<1>i. PICK i : i = Min(page[kind])
  OBVIOUS
<1>1. /\ pc = "upsert" /\ pc' = pc /\ events' = events /\ saved' = saved /\ cursor' = cursor
      /\ page' = [page EXCEPT ![kind] = @ \ {i}]
  BY <1>i DEF Upsert, vars
<1>2. /\ i \in page[kind] /\ Indexed(i)'
      /\ \A j \in DOMAIN events : Indexed(j) => Indexed(j)'
  BY <1>i, UpsertIndexes DEF SyncInv
<1>3. page \in [Kinds -> SUBSET DOMAIN events]
  BY DEF SyncInv, RunInv
<1>4. (\A j \in DOMAIN events : KindOf(j)' = KindOf(j)) /\ Cursors' = Cursors
  BY <1>1, SameEvents
<1>5. \A k \in Kinds : page'[k] = page[k] \/ (k = kind /\ page'[k] = page[k] \ {i})
  BY <1>1, <1>3
<1>6. RunInv'
  <2>1. page' \in [Kinds -> SUBSET DOMAIN events']
    BY <1>1, <1>3
  <2>2. \A k \in Kinds : \A j \in page'[k] : j \in page[k] /\ j \in DOMAIN events
    BY <1>3, <1>5
  <2>3. \A k \in Kinds : \A j \in page'[k] : KindOf(j)' = k
    BY <1>4, <2>2 DEF SyncInv, RunInv
  <2> QED
    BY <1>1, <1>4, <2>1, <2>3 DEF SyncInv, RunInv
<1>7. Covered'
  <2> SUFFICES ASSUME NEW j \in DOMAIN events, j <= cursor[KindOf(j)]
               PROVE  Indexed(j)' \/ j \in page'[KindOf(j)]
    BY <1>1, <1>4 DEF Covered
  <2>1. Indexed(j) \/ j \in page[KindOf(j)]
    BY <1>1 DEF SyncInv, Covered
  <2> QED
    BY <1>2, <1>5, <2>1, KindTyped
<1>8. NoEventSkipped'
  BY <1>1, <1>2, <1>4 DEF SyncInv, NoEventSkipped
<1> QED
  BY <1>6, <1>7, <1>8 DEF SyncInv

LEMMA SyncStart == PipelineInit => SyncInv
<1> SUFFICES ASSUME PipelineInit PROVE SyncInv
  OBVIOUS
<1>1. /\ events = <<>> /\ saved = NoCursor /\ pc = "idle" /\ cursor = NoCursor /\ page = NoEvents
  BY DEF PipelineInit, Init, IdlePipeline
<1>2. DOMAIN events = {} /\ Len(events) = 0
  BY <1>1
<1>3. NoCursor \in Cursors
  BY <1>2 DEF NoCursor, Cursors
<1>4. NoEvents \in [Kinds -> SUBSET DOMAIN events] /\ \A kind \in Kinds : NoEvents[kind] = {}
  BY DEF NoEvents
<1> QED
  BY <1>1, <1>2, <1>3, <1>4 DEF SyncInv, RunInv, NoEventSkipped

LEMMA SyncStep == ASSUME LedgerInv, SyncInv, [PipelineNext]_pipelineVars PROVE SyncInv'
<1>1. ASSUME UNCHANGED <<events, index, saved, cursor, page, pc>> PROVE SyncInv'
  <2>1. /\ \A i \in DOMAIN events : KindOf(i)' = KindOf(i) /\ Indexed(i)' = Indexed(i)
        /\ Cursors' = Cursors
    BY <1>1, SameEvents
  <2>2. page \in [Kinds -> SUBSET DOMAIN events]
    BY DEF SyncInv, RunInv
  <2>3. RunInv'
    BY <1>1, <2>1, <2>2 DEF SyncInv, RunInv, NoEvents
  <2> QED
    BY <1>1, <2>1, <2>3 DEF SyncInv, Covered, NoEventSkipped
<1>2. CASE Settle
  <2>1. Next /\ UNCHANGED pipeline
    BY <1>2 DEF Settle
  <2>2. EventsKept /\ LedgerInv'
    BY <2>1, StepKeepsEvents, LedgerStep
  <2> QED
    BY <2>1, <2>2, LedgersSync
<1>3. ASSUME NEW r \in Receipts, RecordPayment(r) PROVE SyncInv'
  BY <1>1, <1>3 DEF RecordPayment, vars, run
<1>4. CASE Resume
  <2>1. /\ events' = events /\ index' = index /\ saved' = saved /\ cursor' = saved
        /\ page' = NoEvents /\ pc' = "receipt"
    BY <1>4 DEF Resume, vars
  <2>2. /\ \A i \in DOMAIN events : KindOf(i)' = KindOf(i) /\ Indexed(i)' = Indexed(i)
        /\ Cursors' = Cursors
    BY <2>1, SameEvents
  <2>3. RunInv'
    BY <2>1, <2>2 DEF SyncInv, RunInv, NoEvents
  <2> QED
    BY <2>1, <2>2, <2>3 DEF SyncInv, Covered, NoEventSkipped
<1>5. ASSUME NEW kind \in Kinds, FetchKind(kind) \/ Upsert(kind) PROVE SyncInv'
  BY <1>5, FetchSync, UpsertSync
<1>6. CASE EndPage
  <2>1. /\ events' = events /\ index' = index /\ saved' = saved /\ cursor' = cursor
        /\ page' = page /\ page = NoEvents /\ pc = "upsert" /\ pc' \in {"receipt", "save"}
    BY <1>6 DEF EndPage, vars
  <2>2. /\ \A i \in DOMAIN events : KindOf(i)' = KindOf(i) /\ Indexed(i)' = Indexed(i)
        /\ Cursors' = Cursors
    BY <2>1, SameEvents
  <2>3. page \in [Kinds -> SUBSET DOMAIN events] /\ NoEvents' = NoEvents
    BY DEF SyncInv, RunInv, NoEvents
  <2>4. RunInv'
    BY <2>1, <2>2, <2>3 DEF SyncInv, RunInv
  <2> QED
    BY <2>1, <2>2, <2>4 DEF SyncInv, Covered, NoEventSkipped
<1>7. CASE Save
  <2>1. /\ events' = events /\ index' = index /\ cursor' = cursor /\ page' = page /\ pc = "save"
        /\ pc' = "idle" /\ (saved' = saved \/ saved' = cursor) /\ page = NoEvents
    BY <1>7 DEF Save, vars, SyncInv, RunInv
  <2>2. /\ \A i \in DOMAIN events : KindOf(i)' = KindOf(i) /\ Indexed(i)' = Indexed(i)
        /\ Cursors' = Cursors
    BY <2>1, SameEvents
  <2>3. RunInv'
    BY <2>1, <2>2 DEF SyncInv, RunInv, NoEvents
  <2>4. \A i \in DOMAIN events : i <= cursor[KindOf(i)] => Indexed(i)
    BY <2>1, KindTyped DEF SyncInv, Covered, NoEvents
  <2> QED
    BY <2>1, <2>2, <2>3, <2>4 DEF SyncInv, NoEventSkipped
<1>8. CASE Fail
  <2>1. /\ UNCHANGED <<events, index, saved, cursor, page>> /\ pc' = "idle"
    BY <1>8 DEF Fail, vars
  <2>2. /\ \A i \in DOMAIN events : KindOf(i)' = KindOf(i) /\ Indexed(i)' = Indexed(i)
        /\ Cursors' = Cursors
    BY <2>1, SameEvents
  <2>3. RunInv'
    BY <2>1, <2>2 DEF SyncInv, RunInv
  <2> QED
    BY <2>1, <2>2, <2>3 DEF SyncInv, NoEventSkipped
<1>9. CASE UNCHANGED pipelineVars
  BY <1>1, <1>9 DEF pipelineVars, pipeline, run, vars
<1> QED
  BY <1>2, <1>3, <1>4, <1>5, <1>6, <1>7, <1>8, <1>9 DEF PipelineNext, Sync

LEMMA PipelineKeepsLedgers == PipelineNext \/ UNCHANGED pipelineVars => [Next]_vars
BY DEF PipelineNext, pipelineVars, Settle, RecordPayment, Sync, Resume, FetchKind, Upsert,
       EndPage, Save, Fail

(* The indexer leaves no event out, however the kinds are paged, whenever  *)
(* its runs fail and whatever the ledgers do in between: what lies in      *)
(* front of the saved cursor of a kind was upserted.                       *)
THEOREM NothingSkipped == PipelineSpec => []NoEventSkipped
<1>1. PipelineInit => LedgerInv /\ SyncInv
  BY LedgerStart, SyncStart DEF PipelineInit
<1>2. LedgerInv /\ SyncInv /\ [PipelineNext]_pipelineVars => LedgerInv' /\ SyncInv'
  <2> SUFFICES ASSUME LedgerInv, SyncInv, [PipelineNext]_pipelineVars
               PROVE  LedgerInv' /\ SyncInv'
    OBVIOUS
  <2> QED
    BY PipelineKeepsLedgers, LedgerStep, SyncStep
<1>3. SyncInv => NoEventSkipped
  BY DEF SyncInv
<1> QED
  BY <1>1, <1>2, <1>3, PTL DEF PipelineSpec

(***************************************************************************)
(* The report: what it says of a receipt is so on the ledgers.             *)
(***************************************************************************)
(* Every record was made of the event it tells of, and payments are        *)
(* recorded with an id.                                                    *)
IndexInv ==
  /\ IsFiniteSet(index)
  /\ \A record \in index :
       \E i \in DOMAIN events : record = [id |-> RecordId(i), event |-> events[i]]

PaymentsTyped ==
  /\ payments \in Seq(Receipts)
  /\ \A i \in DOMAIN payments : payments[i].id # NoId

LEMMA IndexStep ==
  ASSUME LedgerInv, SyncInv, IndexInv, [PipelineNext]_pipelineVars
  PROVE  IndexInv'
<1>1. ASSUME EventsKept, index' = index PROVE IndexInv'
  BY <1>1 DEF IndexInv, EventsKept
<1>2. ASSUME UNCHANGED <<events, index>> PROVE IndexInv'
  BY <1>1, <1>2, SameEventsKept
<1>3. CASE Settle
  <2>1. Next /\ index' = index
    BY <1>3 DEF Settle, pipeline
  <2> QED
    BY <1>1, <2>1, StepKeepsEvents
<1>4. ASSUME NEW kind \in Kinds, Upsert(kind) PROVE IndexInv'
  <2>i. PICK i : i = Min(page[kind])
    OBVIOUS
  <2> DEFINE kept == {record \in index : record.id # RecordId(i)}
             new == [id |-> RecordId(i), event |-> events[i]]
  <2>1. index' = kept \cup {new} /\ events' = events
    BY <1>4, <2>i DEF Upsert, vars
  <2>2. i \in DOMAIN events
    BY <1>4, <2>i, UpsertIndexes DEF SyncInv
  <2>3. \A j \in DOMAIN events : RecordId(j)' = RecordId(j)
    BY <2>1, SameEvents
  <2>4. IsFiniteSet(index')
    <3>1. kept \in SUBSET index /\ IsFiniteSet(index)
      BY DEF IndexInv
    <3> HIDE DEF kept, new
    <3>2. IsFiniteSet(kept)
      BY <3>1, FS_Subset
    <3>3. IsFiniteSet(kept \cup {new})
      BY <3>2, FS_AddElement
    <3> QED
      BY <2>1, <3>3
  <2>5. ASSUME NEW record \in index'
        PROVE  \E j \in DOMAIN events' : record = [id |-> RecordId(j)', event |-> events'[j]]
    <3>1. CASE record = new
      BY <2>1, <2>2, <2>3, <3>1
    <3>2. CASE record \in index
      <4>1. PICK j \in DOMAIN events : record = [id |-> RecordId(j), event |-> events[j]]
        BY <3>2 DEF IndexInv
      <4> QED
        BY <2>1, <2>3, <4>1
    <3> QED
      BY <2>1, <3>1, <3>2
  <2> QED
    BY <2>4, <2>5 DEF IndexInv
<1>5. ASSUME NEW r \in Receipts, RecordPayment(r) PROVE IndexInv'
  BY <1>2, <1>5 DEF RecordPayment, vars
<1>6. ASSUME NEW kind \in Kinds, FetchKind(kind) PROVE IndexInv'
  BY <1>2, <1>6 DEF FetchKind, vars
<1>7. CASE Resume \/ EndPage \/ Save \/ Fail
  BY <1>2, <1>7 DEF Resume, EndPage, Save, Fail, vars
<1>8. CASE UNCHANGED pipelineVars
  BY <1>2, <1>8 DEF pipelineVars, pipeline, vars
<1> QED
  BY <1>3, <1>4, <1>5, <1>6, <1>7, <1>8 DEF PipelineNext, Sync

LEMMA PaymentsStep ==
  ASSUME PaymentsTyped, [PipelineNext]_pipelineVars
  PROVE  PaymentsTyped'
<1>1. ASSUME NEW r \in Receipts, RecordPayment(r) PROVE PaymentsTyped'
  <2>1. payments' = Append(payments, r) /\ r.id # NoId
    BY <1>1 DEF RecordPayment
  <2>2. payments \in Seq(Receipts) /\ \A i \in DOMAIN payments : payments[i].id # NoId
    BY DEF PaymentsTyped
  <2> QED
    BY <2>1, <2>2 DEF PaymentsTyped
<1>2. CASE payments' = payments
  BY <1>2 DEF PaymentsTyped
<1> QED
  BY <1>1, <1>2
     DEF PipelineNext, pipelineVars, pipeline, Settle, Sync, Resume, FetchKind, Upsert,
         EndPage, Save, Fail

LEMMA MoreThanOne ==
  ASSUME NEW S, IsFiniteSet(S)
  PROVE  Cardinality(S) > 1 <=> \E x, y \in S : x # y
<1>1. Cardinality(S) \in Nat
  BY FS_CardinalityType
<1>2. ASSUME Cardinality(S) > 1 PROVE \E x, y \in S : x # y
  <2>1. Cardinality({}) = 0
    BY FS_EmptySet
  <2>2. PICK x \in S : TRUE
    BY <1>2, <2>1
  <2>3. Cardinality(S \ {x}) = Cardinality(S) - 1
    BY FS_RemoveElement
  <2>4. S \ {x} # {}
    BY <1>1, <1>2, <2>1, <2>3
  <2> QED
    BY <2>4
<1>3. ASSUME NEW x \in S, NEW y \in S, x # y PROVE Cardinality(S) > 1
  <2>1. Cardinality(S \ {x}) = Cardinality(S) - 1 /\ IsFiniteSet(S \ {x})
    BY FS_RemoveElement
  <2>2. y \in S \ {x}
    BY <1>3
  <2>3. Cardinality(S \ {x}) # 0
    BY <2>1, <2>2, FS_EmptySet
  <2>4. Cardinality(S \ {x}) \in Nat
    BY <2>1, FS_CardinalityType
  <2> QED
    BY <1>1, <2>1, <2>3, <2>4
<1> QED
  BY <1>2, <1>3

(* An event that tells a receipt id tells a receipt that is on its ledger. *)
LEMMA EventTells ==
  ASSUME LedgerInv, NEW i \in DOMAIN events, events[i].settles # NoId
  PROVE  /\ events[i].ledger \in Ledgers /\ i \in Told(events[i].ledger)
         /\ \E q \in table[events[i].ledger] : events[i] = ReceiptSettled(events[i].ledger, q)
<1> DEFINE l == events[i].ledger
<1>1. events[i] \in Events
  BY DEF LedgerInv, LedgerTyped
<1>2. l \in Ledgers /\ i \in Told(l)
  BY <1>1 DEF Events, Told, IsBatch
<1>3. {events[j] : j \in Told(l)} = {ReceiptSettled(l, q) : q \in table[l]}
  BY <1>2 DEF LedgerInv, EventsTellTheTable
<1>4. events[i] \in {events[j] : j \in Told(l)}
  BY <1>2
<1>5. events[i] \in {ReceiptSettled(l, q) : q \in table[l]}
  BY <1>3, <1>4
<1> QED
  BY <1>2, <1>5

(* A receipt on a ledger is told there. *)
LEMMA ReceiptIsTold ==
  ASSUME LedgerInv, NEW l \in Ledgers, NEW q \in table[l]
  PROVE  \E i \in Told(l) : events[i] = ReceiptSettled(l, q)
<1>1. {events[j] : j \in Told(l)} = {ReceiptSettled(l, r) : r \in table[l]}
  BY DEF LedgerInv, EventsTellTheTable
<1>2. ReceiptSettled(l, q) \in {events[j] : j \in Told(l)}
  BY <1>1
<1> QED
  BY <1>2

(* What the report finds of a receipt id: a record for a receipt with that *)
(* id on a ledger, told at a position of its own.                          *)
LEMMA RecordTells ==
  ASSUME LedgerInv, IndexInv, NEW listed \in Listings, NEW r, r.id # NoId,
         NEW record \in EventsOf(r.id, listed)
  PROVE  \E i \in DOMAIN events :
           /\ record = [id |-> RecordId(i), event |-> events[i]]
           /\ events[i].settles = r.id
           /\ events[i].ledger \in Ledgers /\ i \in Told(events[i].ledger)
           /\ \E q \in table[events[i].ledger] :
                q.id = r.id /\ events[i] = ReceiptSettled(events[i].ledger, q)
<1>1. record \in index /\ record.event.settles = r.id
  BY DEF EventsOf, Listings
<1>2. PICK i \in DOMAIN events : record = [id |-> RecordId(i), event |-> events[i]]
  BY <1>1 DEF IndexInv
<1>3. events[i].settles = r.id
  BY <1>1, <1>2
<1>4. /\ events[i].ledger \in Ledgers /\ i \in Told(events[i].ledger)
      /\ \E q \in table[events[i].ledger] : events[i] = ReceiptSettled(events[i].ledger, q)
  BY <1>3, EventTells
<1>5. PICK q \in table[events[i].ledger] : events[i] = ReceiptSettled(events[i].ledger, q)
  BY <1>4
<1>6. q.id = r.id
  BY <1>3, <1>5 DEF ReceiptSettled
<1> QED
  BY <1>2, <1>3, <1>4, <1>5, <1>6

LEMMA ReceiptMatches ==
  ASSUME NEW l, NEW r \in Receipts, NEW q \in Receipts, q.id = r.id
  PROVE  Matches(r, ReceiptSettled(l, q)) <=> r = q
<1>1. r = [id |-> r.id, claim |-> r.claim, amount |-> r.amount]
  BY DEF Receipts
<1>2. q = [id |-> q.id, claim |-> q.claim, amount |-> q.amount]
  BY DEF Receipts
<1>3. Matches(r, ReceiptSettled(l, q)) <=> {q.claim} = {r.claim} /\ q.amount = r.amount
  BY DEF Matches, ReceiptSettled
<1> QED
  BY <1>1, <1>2, <1>3

LEMMA ReportedTyped ==
  ASSUME PaymentsTyped, NEW r \in Reported
  PROVE  r \in Receipts /\ r.id # NoId
BY DEF PaymentsTyped, Reported

(* One receipt of the report at a time. *)
LEMMA StatusIsTruthful ==
  ASSUME LedgerInv, IndexInv, NEW listed \in Listings, NEW r \in Receipts, r.id # NoId
  PROVE  /\ Status(r, listed) = "settled" => \E l \in Ledgers : r \in table[l]
         /\ Status(r, listed) = "mismatched" => \E l \in Holders(r) : r \notin table[l]
         /\ Status(r, listed) = "duplicate" => Cardinality(Holders(r)) > 1
<1>1. IsFiniteSet(EventsOf(r.id, listed))
  <2>1. IsFiniteSet(index) /\ EventsOf(r.id, listed) \in SUBSET index
    BY DEF IndexInv, EventsOf, Listings
  <2> QED
    BY <2>1, FS_Subset
<1>2. IsFiniteSet(Holders(r))
  <2>1. IsFiniteSet(Ledgers) /\ Holders(r) \in SUBSET Ledgers
    BY LedgerAssumption DEF Holders
  <2> QED
    BY <2>1, FS_Subset
<1>3. \A l \in Ledgers : table[l] \in SUBSET Receipts /\ \A p, q \in table[l] : p.id = q.id => p = q
  BY DEF LedgerInv, LedgerTyped, TotalsMatchTable
<1>4. ASSUME Status(r, listed) = "settled" PROVE \E l \in Ledgers : r \in table[l]
  <2>1. EventsOf(r.id, listed) # {} /\ \A record \in EventsOf(r.id, listed) : Matches(r, record.event)
    BY <1>4 DEF Status
  <2>2. PICK record \in EventsOf(r.id, listed) : Matches(r, record.event)
    BY <2>1
  <2>3. PICK i \in DOMAIN events :
           /\ record = [id |-> RecordId(i), event |-> events[i]]
           /\ events[i].ledger \in Ledgers
           /\ \E q \in table[events[i].ledger] :
                q.id = r.id /\ events[i] = ReceiptSettled(events[i].ledger, q)
    BY <2>2, RecordTells
  <2>4. PICK q \in table[events[i].ledger] :
           q.id = r.id /\ events[i] = ReceiptSettled(events[i].ledger, q)
    BY <2>3
  <2>5. Matches(r, ReceiptSettled(events[i].ledger, q))
    BY <2>2, <2>3, <2>4
  <2>6. r = q
    BY <1>3, <2>3, <2>4, <2>5, ReceiptMatches
  <2> QED
    BY <2>3, <2>4, <2>6
<1>5. ASSUME Status(r, listed) = "mismatched" PROVE \E l \in Holders(r) : r \notin table[l]
  <2>1. \E record \in EventsOf(r.id, listed) : ~Matches(r, record.event)
    BY <1>5 DEF Status
  <2>2. PICK record \in EventsOf(r.id, listed) : ~Matches(r, record.event)
    BY <2>1
  <2>3. PICK i \in DOMAIN events :
           /\ record = [id |-> RecordId(i), event |-> events[i]]
           /\ events[i].ledger \in Ledgers
           /\ \E q \in table[events[i].ledger] :
                q.id = r.id /\ events[i] = ReceiptSettled(events[i].ledger, q)
    BY <2>2, RecordTells
  <2>4. PICK q \in table[events[i].ledger] :
           q.id = r.id /\ events[i] = ReceiptSettled(events[i].ledger, q)
    BY <2>3
  <2>5. ~Matches(r, ReceiptSettled(events[i].ledger, q))
    BY <2>2, <2>3, <2>4
  <2>6. r # q
    BY <1>3, <2>3, <2>4, <2>5, ReceiptMatches
  <2>7. r \notin table[events[i].ledger]
    BY <1>3, <2>3, <2>4, <2>6
  <2>8. events[i].ledger \in Holders(r)
    BY <2>3, <2>4 DEF Holders
  <2> QED
    BY <2>7, <2>8
<1>6. ASSUME Status(r, listed) = "duplicate" PROVE Cardinality(Holders(r)) > 1
  <2>1. Cardinality(EventsOf(r.id, listed)) > 1
    BY <1>6 DEF Status
  <2>2. PICK first \in EventsOf(r.id, listed), second \in EventsOf(r.id, listed) : first # second
    <3> HIDE DEF EventsOf
    <3> QED
      BY <1>1, <2>1, MoreThanOne
  <2>3. PICK i \in DOMAIN events :
           /\ first = [id |-> RecordId(i), event |-> events[i]] /\ events[i].settles = r.id
           /\ events[i].ledger \in Ledgers /\ i \in Told(events[i].ledger)
           /\ \E q \in table[events[i].ledger] : q.id = r.id
    BY RecordTells
  <2>4. PICK j \in DOMAIN events :
           /\ second = [id |-> RecordId(j), event |-> events[j]] /\ events[j].settles = r.id
           /\ events[j].ledger \in Ledgers /\ j \in Told(events[j].ledger)
           /\ \E q \in table[events[j].ledger] : q.id = r.id
    BY RecordTells
  <2>5. i # j
    BY <2>2, <2>3, <2>4
  <2>6. events[i].ledger # events[j].ledger
    BY <2>3, <2>4, <2>5 DEF LedgerInv, EventsTellTheTable
  <2>7. events[i].ledger \in Holders(r) /\ events[j].ledger \in Holders(r)
    BY <2>3, <2>4 DEF Holders
  <2> QED
    BY <1>2, <2>6, <2>7, MoreThanOne
<1> QED
  BY <1>4, <1>5, <1>6

(* A record that a report may leave out is behind as many newer ones as it *)
(* looks at: the record of a recent event is in every listing.             *)
LEMMA RecentIsListed ==
  ASSUME LedgerInv, IndexInv, NEW listed \in Listings, NEW i \in DOMAIN events, Recent(i),
         NEW record \in index, record.id = RecordId(i)
  PROVE  record \in listed
<1> SUFFICES ASSUME record \notin listed PROVE FALSE
  OBVIOUS
<1> DEFINE newer == {j \in DOMAIN events \ {i} : TimeOf[Tx(j)] >= TimeOf[Tx(i)]}
<1>1. /\ IsFiniteSet(index) /\ listed \in SUBSET index /\ listed # index
      /\ Cardinality(listed) = Min({EventLimit, Cardinality(index)})
      /\ \A other \in listed : TimeOf[other.id[1]] >= TimeOf[record.id[1]]
  BY DEF IndexInv, Listings
<1>2. /\ IsFiniteSet(listed) /\ Cardinality(listed) # Cardinality(index)
  BY <1>1, FS_Subset
<1>3. Cardinality(listed) = EventLimit
  <2>1. Cardinality(index) \in Nat
    BY <1>1, FS_CardinalityType
  <2>2. {EventLimit, Cardinality(index)} \in SUBSET Nat
    BY <2>1, ReportAssumption
  <2>3. Min({EventLimit, Cardinality(index)}) \in {EventLimit, Cardinality(index)}
    BY <2>2, MinOf
  <2> QED
    BY <1>1, <1>2, <2>3
<1>4. \A other \in listed : other.id[2] \in newer
  <2> SUFFICES ASSUME NEW other \in listed PROVE other.id[2] \in newer
    OBVIOUS
  <2>1. PICK j \in DOMAIN events : other = [id |-> RecordId(j), event |-> events[j]]
    BY <1>1 DEF IndexInv
  <2>2. PICK k \in DOMAIN events : record = [id |-> RecordId(k), event |-> events[k]]
    BY DEF IndexInv
  <2>3. other.id = <<Tx(j), j>> /\ record.id = <<Tx(i), i>> /\ record.id = <<Tx(k), k>>
    BY <2>1, <2>2 DEF RecordId
  <2>4. j # i
    <3>1. k = i
      BY <2>3
    <3> QED
      BY <2>1, <2>2, <3>1
  <2>5. TimeOf[Tx(j)] >= TimeOf[Tx(i)]
    BY <1>1, <2>3
  <2> QED
    BY <2>3, <2>4, <2>5
<1>5. IsFiniteSet(newer) /\ Cardinality(newer) < Cardinality(listed)
  <2>1. IsFiniteSet(DOMAIN events)
    BY FS_Interval DEF LedgerInv, LedgerTyped
  <2>2. newer \in SUBSET (DOMAIN events)
    OBVIOUS
  <2> HIDE DEF newer
  <2>3. IsFiniteSet(newer)
    BY <2>1, <2>2, FS_Subset
  <2> QED
    BY <1>3, <2>3 DEF Recent, newer
<1> DEFINE position == [other \in listed |-> other.id[2]]
<1>6. position \in [listed -> newer]
  BY <1>4
<1> HIDE DEF newer
<1>7. PICK x, y \in listed : x # y /\ position[x] = position[y]
  <2> HIDE DEF position
  <2> QED
    BY <1>2, <1>5, <1>6, FS_PigeonHole
<1>8. PICK j \in DOMAIN events : x = [id |-> RecordId(j), event |-> events[j]]
  BY <1>1 DEF IndexInv
<1>9. PICK k \in DOMAIN events : y = [id |-> RecordId(k), event |-> events[k]]
  BY <1>1 DEF IndexInv
<1>10. j = k
  <2>1. x.id = <<Tx(j), j>> /\ y.id = <<Tx(k), k>>
    BY <1>8, <1>9 DEF RecordId
  <2>2. x.id[2] = y.id[2]
    BY <1>7
  <2> QED
    BY <2>1, <2>2
<1> QED
  BY <1>7, <1>8, <1>9, <1>10

(* Once every event is indexed, nothing on the ledgers goes unreported of *)
(* a receipt with recent events only.                                     *)
LEMMA CompleteStatus ==
  ASSUME LedgerInv, IndexInv, \A i \in DOMAIN events : Indexed(i),
         NEW listed \in Listings, NEW r \in Receipts, r.id # NoId,
         \A i \in DOMAIN events : events[i].settles = r.id => Recent(i)
  PROVE  /\ Status(r, listed) = "unsettled" => Holders(r) = {}
         /\ Cardinality(Holders(r)) > 1 => Status(r, listed) = "duplicate"
<1>1. ASSUME NEW l \in Holders(r)
      PROVE  \E i \in Told(l) : \E record \in EventsOf(r.id, listed) :
               record.id = RecordId(i) /\ events[i].ledger = l
  <2>1. PICK q \in table[l] : q.id = r.id
    BY DEF Holders
  <2>2. l \in Ledgers
    BY DEF Holders
  <2>3. PICK i \in Told(l) : events[i] = ReceiptSettled(l, q)
    BY <2>1, <2>2, ReceiptIsTold
  <2>4. i \in DOMAIN events /\ events[i].ledger = l
    BY DEF Told
  <2>5. PICK record \in index : record.id = RecordId(i) /\ record.event = events[i]
    BY <2>4 DEF Indexed
  <2>6. events[i].settles = r.id
    BY <2>1, <2>3 DEF ReceiptSettled
  <2>7. record \in listed
    BY <2>4, <2>5, <2>6, RecentIsListed
  <2>8. record \in EventsOf(r.id, listed)
    BY <2>5, <2>6, <2>7 DEF EventsOf
  <2> QED
    BY <2>4, <2>5, <2>8
<1>2. Status(r, listed) = "unsettled" => EventsOf(r.id, listed) = {}
  BY DEF Status
<1>3. ASSUME Cardinality(Holders(r)) > 1 PROVE Status(r, listed) = "duplicate"
  <2>1. IsFiniteSet(EventsOf(r.id, listed)) /\ IsFiniteSet(Holders(r))
    <3>1. /\ IsFiniteSet(index) /\ EventsOf(r.id, listed) \in SUBSET index
          /\ IsFiniteSet(Ledgers) /\ Holders(r) \in SUBSET Ledgers
      BY LedgerAssumption DEF IndexInv, EventsOf, Holders, Listings
    <3> QED
      BY <3>1, FS_Subset
  <2>2. PICK l \in Holders(r), m \in Holders(r) : l # m
    <3> HIDE DEF Holders
    <3> QED
      BY <1>3, <2>1, MoreThanOne
  <2>3. PICK i \in Told(l), first \in EventsOf(r.id, listed) :
          first.id = RecordId(i) /\ events[i].ledger = l
    BY <1>1
  <2>4. PICK j \in Told(m), second \in EventsOf(r.id, listed) :
          second.id = RecordId(j) /\ events[j].ledger = m
    BY <1>1
  <2>5. i # j
    BY <2>2, <2>3, <2>4
  <2>6. first # second
    BY <2>3, <2>4, <2>5 DEF RecordId
  <2>7. Cardinality(EventsOf(r.id, listed)) > 1
    BY <2>1, <2>6, MoreThanOne
  <2> QED
    BY <2>3, <2>7 DEF Status
<1> QED
  BY <1>1, <1>2, <1>3

(* Sums of amounts: of part of a set, and of sets together. *)
LEMMA SumOfWithin ==
  ASSUME NEW S \in SUBSET Receipts, IsFiniteSet(S), NEW T \in SUBSET S
  PROVE  SumOf(T) = SumFunctionOnSet([r \in S |-> r.amount], T)
<1>1. \A r \in T : [q \in S |-> q.amount][r] \in Nat /\ [q \in T |-> q.amount][r] = [q \in S |-> q.amount][r]
  BY LedgerAssumption DEF Receipts
<1>2. IsFiniteSet(T)
  BY FS_Subset
<1> QED
  BY <1>1, <1>2, SumSame DEF SumOf

LEMMA SumOfPart ==
  ASSUME NEW S \in SUBSET Receipts, IsFiniteSet(S), NEW T \in SUBSET S
  PROVE  SumOf(T) <= SumOf(S)
<1> DEFINE f == [r \in S |-> r.amount]
<1>1. \A r \in S : f[r] \in Nat
  BY LedgerAssumption DEF Receipts
<1>2. SumOf(T) = SumFunctionOnSet(f, T) /\ SumOf(S) = SumFunctionOnSet(f, S)
  BY SumOfWithin DEF SumOf
<1> HIDE DEF f
<1> QED
  BY <1>1, <1>2, SumPart

LEMMA SumOfUnion ==
  ASSUME NEW S \in SUBSET Receipts, IsFiniteSet(S), NEW T \in SUBSET Receipts, IsFiniteSet(T)
  PROVE  SumOf(S \cup T) <= SumOf(S) + SumOf(T)
<1> DEFINE U == S \cup T
           f == [r \in U |-> r.amount]
<1>1. U \in SUBSET Receipts /\ IsFiniteSet(U) /\ S \in SUBSET U /\ T \in SUBSET U
  BY FS_Union
<1>2. \A r \in S \cup T : f[r] \in Nat
  BY LedgerAssumption DEF Receipts
<1>3. /\ SumOf(S) = SumFunctionOnSet(f, S) /\ SumOf(T) = SumFunctionOnSet(f, T)
      /\ SumOf(U) = SumFunctionOnSet(f, U)
  <2> HIDE DEF U
  <2>1. SumOf(S) = SumFunctionOnSet(f, S)
    BY <1>1, SumOfWithin
  <2>2. SumOf(T) = SumFunctionOnSet(f, T)
    BY <1>1, SumOfWithin
  <2>3. SumOf(U) = SumFunctionOnSet(f, U)
    BY DEF SumOf
  <2> QED
    BY <2>1, <2>2, <2>3
<1> HIDE DEF f
<1>4. SumFunctionOnSet(f, S \cup T) <= SumFunctionOnSet(f, S) + SumFunctionOnSet(f, T)
  BY <1>2, SumTogether
<1> QED
  BY <1>3, <1>4

(* What all ledgers hold, up to any of them, is no more than their totals. *)
LEMMA TotalsCover ==
  ASSUME LedgerInv
  PROVE  /\ UNION {table[l] : l \in Ledgers} \in SUBSET Receipts
         /\ IsFiniteSet(UNION {table[l] : l \in Ledgers})
         /\ SumOf(UNION {table[l] : l \in Ledgers}) <= SumFunctionOnSet(total, Ledgers)
<1> DEFINE Held(s) == UNION {table[l] : l \in s}
           Good(s) == /\ Held(s) \in SUBSET Receipts /\ IsFiniteSet(Held(s))
                      /\ SumOf(Held(s)) <= SumFunctionOnSet(total, s)
           Bad == {s \in SUBSET Ledgers : ~Good(s)}
<1>1. /\ \A l \in Ledgers : /\ table[l] \in SUBSET Receipts /\ IsFiniteSet(table[l])
                            /\ total[l] = SumOf(table[l]) /\ total[l] \in Nat
      /\ IsFiniteSet(Ledgers)
  BY LedgerAssumption DEF LedgerInv, LedgerTyped, TotalsMatchTable
<1>2. ASSUME NEW s \in Bad, \A l \in s : s \ {l} \notin Bad PROVE FALSE
  <2>1. CASE s = {}
    <3>1. Held({}) = {} /\ IsFiniteSet({})
      BY FS_EmptySet
    <3>2. SumOf({}) = 0 /\ SumFunctionOnSet(total, {}) = 0
      BY <3>1, SumOfNone DEF SumOf
    <3> QED
      BY <1>2, <2>1, <3>1, <3>2
  <2>2. CASE s # {}
    <3>1. PICK l \in s : TRUE
      BY <2>2
    <3>2. l \in Ledgers /\ s \in SUBSET Ledgers /\ s \ {l} \in SUBSET Ledgers
      BY <3>1
    <3>3. Good(s \ {l})
      BY <1>2, <3>1, <3>2
    <3>4. Held(s) = Held(s \ {l}) \cup table[l]
      BY <3>1
    <3> HIDE DEF Held
    <3>5. Held(s) \in SUBSET Receipts /\ IsFiniteSet(Held(s))
      BY <1>1, <3>2, <3>3, <3>4, FS_Union
    <3>6. SumOf(Held(s)) <= SumOf(Held(s \ {l})) + SumOf(table[l])
      BY <1>1, <3>2, <3>3, <3>4, SumOfUnion
    <3>7. IsFiniteSet(s)
      BY <1>1, <3>2, FS_Subset
    <3>8. /\ SumFunctionOnSet(total, s) = total[l] + SumFunctionOnSet(total, s \ {l})
          /\ SumFunctionOnSet(total, s \ {l}) \in Nat
      BY <1>1, <3>1, <3>2, <3>7, SumRemove
    <3>9. SumOf(Held(s)) \in Nat /\ SumOf(Held(s \ {l})) \in Nat
      BY <3>3, <3>5, SumOfNat
    <3>10. SumOf(Held(s)) <= SumFunctionOnSet(total, s)
      BY <1>1, <3>2, <3>3, <3>6, <3>8, <3>9
    <3> QED
      BY <1>2, <3>5, <3>10
  <2> QED
    BY <2>1, <2>2
<1>3. Bad = {}
  <2>1. Bad \in SUBSET (SUBSET Ledgers)
    OBVIOUS
  <2> HIDE DEF Bad
  <2> QED
    BY <1>1, <1>2, <2>1, SmallestPart
<1>4. Good(Ledgers)
  BY <1>3
<1> QED
  BY <1>4

LEMMA AmountIsCovered ==
  ASSUME LedgerInv, IndexInv, PaymentsTyped, NEW listed \in Listings
  PROVE  SettledAmount(listed) <= SumFunctionOnSet(total, Ledgers)
<1> DEFINE settled == {r \in Reported : Status(r, listed) = "settled"}
           held == UNION {table[l] : l \in Ledgers}
<1>1. settled \in SUBSET held
  BY ReportedTyped, StatusIsTruthful
<1>2. held \in SUBSET Receipts /\ IsFiniteSet(held) /\ SumOf(held) <= SumFunctionOnSet(total, Ledgers)
  BY TotalsCover
<1>3. SettledAmount(listed) = SumOf(settled)
  BY DEF SettledAmount
<1> HIDE DEF settled, held
<1>4. SumOf(settled) <= SumOf(held)
  BY <1>1, <1>2, SumOfPart
<1>5. SumOf(settled) \in Nat /\ SumOf(held) \in Nat
  <2>1. settled \in SUBSET Receipts /\ IsFiniteSet(settled)
    BY <1>1, <1>2, FS_Subset
  <2> QED
    BY <1>2, <2>1, SumOfNat
<1>6. SumFunctionOnSet(total, Ledgers) \in Nat
  <2>1. IsFiniteSet(Ledgers) /\ \A l \in Ledgers : total[l] \in Nat
    BY LedgerAssumption DEF LedgerInv, LedgerTyped
  <2> QED
    BY <2>1, SumIsCount
<1> QED
  BY <1>2, <1>3, <1>4, <1>5, <1>6

(* What the report says of a payment is so on the ledgers, while events    *)
(* are read again, runs fail, receipts are settled with other fields than  *)
(* were signed, on any number of ledgers, and whatever part of the index a *)
(* report looks at.                                                        *)
THEOREM Truthful == PipelineSpec => []ReportIsTruthful
<1> DEFINE Inv == LedgerInv /\ SyncInv /\ IndexInv /\ PaymentsTyped
<1>1. PipelineInit => Inv
  <2>1. PipelineInit => IndexInv
    BY FS_EmptySet DEF PipelineInit, IdlePipeline, IndexInv
  <2>2. PipelineInit => PaymentsTyped
    BY DEF PipelineInit, IdlePipeline, PaymentsTyped
  <2> QED
    BY <2>1, <2>2, LedgerStart, SyncStart DEF PipelineInit
<1>2. Inv /\ [PipelineNext]_pipelineVars => Inv'
  <2> SUFFICES ASSUME Inv, [PipelineNext]_pipelineVars PROVE Inv'
    OBVIOUS
  <2>1. LedgerInv'
    BY PipelineKeepsLedgers, LedgerStep
  <2>2. SyncInv'
    BY SyncStep
  <2>3. IndexInv' /\ PaymentsTyped'
    BY IndexStep, PaymentsStep
  <2> QED
    BY <2>1, <2>2, <2>3
<1>3. Inv => ReportIsTruthful
  <2> SUFFICES ASSUME Inv PROVE ReportIsTruthful
    OBVIOUS
  <2>1. \A r \in Reported : r \in Receipts /\ r.id # NoId
    BY ReportedTyped
  <2>2. ASSUME NEW listed \in Listings, NEW r \in Reported
        PROVE  /\ Status(r, listed) = "settled" => \E l \in Ledgers : r \in table[l]
               /\ Status(r, listed) = "mismatched" => \E l \in Holders(r) : r \notin table[l]
               /\ Status(r, listed) = "duplicate" => Cardinality(Holders(r)) > 1
    BY <2>1, StatusIsTruthful
  <2>3. ASSUME NEW listed \in Listings, \A i \in DOMAIN events : Indexed(i), NEW r \in Reported,
               \A i \in DOMAIN events : events[i].settles = r.id => Recent(i)
        PROVE  /\ Status(r, listed) = "unsettled" => Holders(r) = {}
               /\ Cardinality(Holders(r)) > 1 => Status(r, listed) = "duplicate"
    BY <2>1, <2>3, CompleteStatus
  <2>4. \A listed \in Listings : SettledAmount(listed) <= SumFunctionOnSet(total, Ledgers)
    BY AmountIsCovered
  <2> QED
    BY <2>2, <2>3, <2>4 DEF ReportIsTruthful
<1> QED
  BY <1>1, <1>2, <1>3, PTL DEF PipelineSpec

(* The pipeline implements the ledgers by themselves: nothing that reads   *)
(* their events moves them.                                                *)
THEOREM PipelineIsLedger == PipelineSpec => Spec
<1>1. PipelineInit => Init
  BY DEF PipelineInit
<1>2. [PipelineNext]_pipelineVars => [Next]_vars
  BY PipelineKeepsLedgers
<1> QED
  BY <1>1, <1>2, PTL DEF PipelineSpec, Spec

(* So the books of the ledgers stay right while the pipeline runs.         *)
THEOREM PipelineAccounting == PipelineSpec => []TotalsMatchTable /\ []EventsTellTheTable
BY Accounting, PipelineIsLedger, PTL

(***************************************************************************)
(* The rate limiters.                                                      *)
(***************************************************************************)
Tallies == [Times -> Nat]

LEMMA SpanFinite == \A from : IsFiniteSet(Span(from))
<1>1. IsFiniteSet(Times)
  BY LimitsAssumption, FS_Interval DEF Times
<1> SUFFICES ASSUME NEW from PROVE IsFiniteSet(Span(from))
  OBVIOUS
<1>2. Span(from) \in SUBSET Times
  BY DEF Span
<1> QED
  BY <1>1, <1>2, FS_Subset

LEMMA WithinNat ==
  ASSUME NEW f \in Tallies, NEW from
  PROVE  Within(f, from) \in Nat
<1>1. IsFiniteSet(Span(from)) /\ \A t \in Span(from) : f[t] \in Nat
  BY SpanFinite DEF Span, Tallies
<1> HIDE DEF Span
<1> QED
  BY <1>1, SumIsCount DEF Within

LEMMA WithinNone ==
  ASSUME NEW f \in Tallies, NEW from, \A t \in Times : from <= t => f[t] = 0
  PROVE  Within(f, from) = 0
<1>1. IsFiniteSet(Span(from)) /\ \A t \in Span(from) : f[t] = 0
  BY SpanFinite DEF Span
<1> HIDE DEF Span
<1> QED
  BY <1>1, SumOfNone DEF Within

(* A tally that grows at one instant grows by it in the spans around it.   *)
LEMMA WithinGrows ==
  ASSUME NEW f \in Tallies, NEW x \in Times, NEW from
  PROVE  LET g == [f EXCEPT ![x] = @ + 1] IN
         /\ g \in Tallies
         /\ Within(g, from) = IF x \in Span(from) THEN Within(f, from) + 1 ELSE Within(f, from)
<1> DEFINE g == [f EXCEPT ![x] = @ + 1]
           S == Span(from)
<1>1. g \in Tallies /\ g[x] = f[x] + 1 /\ \A t \in Times : t # x => g[t] = f[t]
  BY DEF Tallies
<1>2. IsFiniteSet(S) /\ S \subseteq Times
  BY SpanFinite DEF Span
<1>3. \A t \in S : f[t] \in Nat /\ g[t] \in Nat
  BY <1>1, <1>2 DEF Tallies
<1>4. Within(f, from) = SumFunctionOnSet(f, S) /\ Within(g, from) = SumFunctionOnSet(g, S)
  BY DEF Within
<1>5. f[x] \in Nat /\ Within(f, from) \in Nat /\ Within(g, from) \in Nat
  BY <1>1, WithinNat DEF Tallies
<1> HIDE DEF g, S
<1>6. CASE x \in S
  <2>1. \A t \in S \ {x} : g[t] = f[t]
    BY <1>1, <1>2
  <2>2. SumFunctionOnSet(g, S) - g[x] = SumFunctionOnSet(f, S) - f[x]
    BY <1>2, <1>3, <1>6, <2>1, SumChange
  <2>3. Within(g, from) = Within(f, from) + 1
    BY <1>1, <1>4, <1>5, <2>2
  <2> QED
    BY <1>1, <1>6, <2>3 DEF g, S
<1>7. CASE x \notin S
  <2>1. \A t \in S : f[t] \in Nat /\ g[t] = f[t]
    BY <1>1, <1>2, <1>3, <1>7
  <2>2. SumFunctionOnSet(g, S) = SumFunctionOnSet(f, S)
    BY <1>2, <2>1, SumSame
  <2> QED
    BY <1>1, <1>4, <1>7, <2>2 DEF g, S
<1> QED
  BY <1>6, <1>7

(* A span is covered by two windows that lie end to end around it. *)
LEMMA WithinTwo ==
  ASSUME NEW f \in Tallies, NEW from \in Int, NEW t \in Int, from - Window <= t, t <= from
  PROVE  Within(f, t) <= Within(f, from - Window) + Within(f, from)
<1> DEFINE A == Span(from - Window)
           B == Span(from)
           S == Span(t)
<1>1. Window \in Nat /\ Times \subseteq Int
  BY LimitsAssumption DEF Times
<1>2. S \subseteq A \cup B
  <2> SUFFICES ASSUME NEW x \in S PROVE x \in A \cup B
    OBVIOUS
  <2>1. x \in Times /\ x \in Int /\ t <= x /\ x < t + Window
    BY <1>1 DEF Span
  <2>2. CASE x < from
    <3>1. from - Window <= x /\ x < from - Window + Window
      BY <1>1, <2>1, <2>2
    <3> QED
      BY <2>1, <3>1 DEF Span
  <2>3. CASE from <= x
    <3>1. x < from + Window
      BY <1>1, <2>1
    <3> QED
      BY <2>1, <2>3, <3>1 DEF Span
  <2> QED
    BY <2>1, <2>2, <2>3
<1>3. IsFiniteSet(A) /\ IsFiniteSet(B) /\ IsFiniteSet(S)
  BY SpanFinite
<1>4. \A x \in A \cup B : f[x] \in Nat
  BY DEF Span, Tallies
<1>5. /\ Within(f, t) = SumFunctionOnSet(f, S) /\ Within(f, from) = SumFunctionOnSet(f, B)
      /\ Within(f, from - Window) = SumFunctionOnSet(f, A)
  BY DEF Within
<1>6. Within(f, t) \in Nat /\ Within(f, from) \in Nat /\ Within(f, from - Window) \in Nat
  BY WithinNat
<1> HIDE DEF A, B, S
<1>7. IsFiniteSet(A \cup B)
  BY <1>3, FS_Union
<1>8. SumFunctionOnSet(f, S) <= SumFunctionOnSet(f, A \cup B)
  BY <1>2, <1>4, <1>7, SumPart
<1>9. SumFunctionOnSet(f, A \cup B) <= SumFunctionOnSet(f, A) + SumFunctionOnSet(f, B)
  BY <1>3, <1>4, SumTogether
<1>10. SumFunctionOnSet(f, A \cup B) \in Nat
  BY <1>4, <1>7, SumIsCount
<1> QED
  BY <1>5, <1>6, <1>8, <1>9, <1>10


(* The state of the limiters.  No request is counted ahead of the clock,   *)
(* and only the Redis limiter has requests under way.                      *)
LimiterTyped ==
  /\ limiter \in Limiters
  /\ now \in Times
  /\ bucket \in {Nothing} \cup Buckets
  /\ keys \in [Times -> {Nothing} \cup Keys]
  /\ request \in [Requests -> {Nothing} \cup Calls]
  /\ counted \in Tallies
  /\ admitted \in Tallies
  /\ denied \in SUBSET Times
  /\ limiter # "redis" => \A r \in Requests : request[r] = Nothing

(* The open window of the limiters in memory and in Postgres: its count is *)
(* that of the requests since it began, what passed fits the limit, and so *)
(* does what passed in as much time before it.                             *)
Windowed(b) ==
  LET from == b.resetAt - Window IN
  /\ b \in Buckets
  /\ from \in 0..now
  /\ \A t \in Times : t >= b.resetAt => admitted[t] = 0 /\ counted[t] = 0
  /\ b.count = Within(counted, from)
  /\ Within(admitted, from) <= b.count
  /\ Within(admitted, from) <= MaxRequests
  /\ limiter = "memory" => b.count <= MaxRequests
  /\ Within(admitted, from - Window) <= MaxRequests

WindowInv ==
  limiter # "redis" =>
    /\ bucket = Nothing => \A t \in Times : admitted[t] = 0 /\ counted[t] = 0
    /\ bucket # Nothing => Windowed(bucket)
    /\ \A t \in Times : t > now => admitted[t] = 0 /\ counted[t] = 0

LEMMA TimesTyped ==
  /\ Window \in Nat /\ Window > 0 /\ MaxRequests \in Nat /\ MaxRequests > 0 /\ MaxTime \in Nat
  /\ \A t \in Times : t \in Nat
BY LimitsAssumption DEF Times

(* The bucket a request is judged by. *)
Open == IF Closed THEN [count |-> 0, resetAt |-> now + Window] ELSE bucket

LEMMA OpenIsWindowed ==
  ASSUME LimiterTyped, WindowInv, limiter # "redis"
  PROVE  Windowed(Open) /\ now < Open.resetAt
<1>1. now \in Nat /\ now \in Times /\ Window \in Nat /\ Window > 0 /\ MaxRequests \in Nat
  BY TimesTyped DEF LimiterTyped
<1>2. counted \in Tallies /\ admitted \in Tallies
  BY DEF LimiterTyped
<1>3. CASE ~Closed
  <2>1. bucket # Nothing /\ ~(bucket.resetAt <= now) /\ Open = bucket
    BY <1>3 DEF Closed, Open
  <2>2. Windowed(bucket) /\ bucket.resetAt \in Nat
    BY <2>1 DEF WindowInv, Windowed, Buckets
  <2> QED
    BY <1>1, <2>1, <2>2
<1>4. CASE Closed
  <2> DEFINE b == [count |-> 0, resetAt |-> now + Window]
  <2>1. Open = b /\ b \in Buckets /\ b.resetAt = now + Window /\ b.count = 0
    BY <1>1, <1>4 DEF Open, Buckets
  <2>2. \A t \in Times : now <= t => admitted[t] = 0 /\ counted[t] = 0
    <3>1. CASE bucket = Nothing
      BY <3>1 DEF WindowInv
    <3>2. CASE bucket # Nothing
      <4>1. bucket.resetAt <= now /\ Windowed(bucket)
        BY <1>4, <3>2 DEF Closed, WindowInv
      <4>2. \A t \in Times : t >= bucket.resetAt => admitted[t] = 0 /\ counted[t] = 0
        BY <4>1 DEF Windowed
      <4>3. bucket.resetAt \in Nat /\ \A t \in Times : t \in Nat
        BY <4>1, TimesTyped DEF Windowed, Buckets
      <4> QED
        BY <1>1, <4>1, <4>2, <4>3
    <3> QED
      BY <3>1, <3>2
  <2>3. Within(counted, now) = 0 /\ Within(admitted, now) = 0
    BY <1>2, <2>2, WithinNone
  <2>4. Within(admitted, now - Window) <= MaxRequests
    <3>1. CASE bucket = Nothing
      <4>1. \A t \in Times : now - Window <= t => admitted[t] = 0
        BY <3>1 DEF WindowInv
      <4>2. Within(admitted, now - Window) = 0
        BY <1>2, <4>1, WithinNone
      <4> QED
        BY <1>1, <4>2
    <3>2. CASE bucket # Nothing
      <4>1. bucket.resetAt <= now /\ Windowed(bucket)
        BY <1>4, <3>2 DEF Closed, WindowInv
      <4> DEFINE end == bucket.resetAt
      <4>2. /\ end \in Nat /\ Within(admitted, end - Window) <= MaxRequests
            /\ \A t \in Times : t >= end => admitted[t] = 0
        BY <4>1 DEF Windowed, Buckets
      <4>3. \A t \in Times : end <= t => admitted[t] = 0
        BY <4>2, TimesTyped
      <4> HIDE DEF end
      <4>4. Within(admitted, end) = 0
        BY <1>2, <4>3, WithinNone
      <4>5. CASE now - Window <= end
        <5>1. end - Window <= now - Window /\ now - Window \in Int /\ end \in Int
          BY <1>1, <4>1, <4>2 DEF end
        <5>2. Within(admitted, now - Window)
                <= Within(admitted, end - Window) + Within(admitted, end)
          BY <1>2, <4>5, <5>1, WithinTwo
        <5>3. Within(admitted, end - Window) \in Nat /\ Within(admitted, now - Window) \in Nat
          BY <1>2, WithinNat
        <5> QED
          BY <1>1, <4>2, <4>4, <5>2, <5>3
      <4>6. CASE ~(now - Window <= end)
        <5>1. \A t \in Times : now - Window <= t => admitted[t] = 0
          BY <1>1, <4>2, <4>3, <4>6, TimesTyped
        <5>2. Within(admitted, now - Window) = 0
          BY <1>2, <5>1, WithinNone
        <5> QED
          BY <1>1, <5>2
      <4> QED
        BY <4>5, <4>6
    <3> QED
      BY <3>1, <3>2
  <2>5. b.resetAt - Window = now /\ now \in 0..now /\ now < b.resetAt
    BY <1>1, <2>1
  <2>6. \A t \in Times : t >= b.resetAt => admitted[t] = 0 /\ counted[t] = 0
    BY <1>1, <2>1, <2>2, TimesTyped
  <2> HIDE DEF b
  <2>7. Windowed(b)
    BY <1>1, <2>1, <2>3, <2>4, <2>5, <2>6 DEF Windowed
  <2> QED
    BY <2>1, <2>5, <2>7
<1> QED
  BY <1>3, <1>4

(* Requests that were turned away found the limit reached, which a count   *)
(* that only grows cannot undo.                                            *)
FullFor(t) ==
  \E from \in (t - Window + 1)..t :
    Within(counted, from) >= IF limiter = "memory" THEN MaxRequests ELSE MaxRequests + 1

LEMMA FullStays ==
  ASSUME LimiterTyped, DeniedOnlyWhenFull, NEW x \in Times, limiter' = limiter,
         counted' = counted \/ counted' = [counted EXCEPT ![x] = @ + 1],
         NEW t \in denied
  PROVE  FullFor(t)'
<1>1. PICK from \in (t - Window + 1)..t :
        Within(counted, from) >= IF limiter = "memory" THEN MaxRequests ELSE MaxRequests + 1
  BY DEF DeniedOnlyWhenFull
<1>2. counted \in Tallies
  BY DEF LimiterTyped
<1>3. Within(counted', from) = Within(counted, from) \/ Within(counted', from) = Within(counted, from) + 1
  BY <1>2, WithinGrows
<1>4. Within(counted, from) \in Nat /\ MaxRequests \in Nat
  BY <1>2, WithinNat, TimesTyped
<1>5. Within(counted', from) >= IF limiter = "memory" THEN MaxRequests ELSE MaxRequests + 1
  BY <1>1, <1>3, <1>4
<1>6. Within(counted, from)' = Within(counted', from)
  BY DEF Within
<1> QED
  BY <1>1, <1>5, <1>6 DEF FullFor

(* A request is counted in the bucket it is judged by. *)
LEMMA WindowCounts ==
  ASSUME LimiterTyped, SpanQuota, limiter # "redis", NEW b, Windowed(b), now < b.resetAt,
         limiter = "memory" => b.count < MaxRequests,
         limiter' = limiter, now' = now, bucket' = [b EXCEPT !.count = @ + 1],
         counted' = [counted EXCEPT ![now] = @ + 1],
         \/ admitted' = admitted
         \/ b.count < MaxRequests /\ admitted' = [admitted EXCEPT ![now] = @ + 1]
  PROVE  Windowed(bucket)' /\ SpanQuota' /\ Within(counted', b.resetAt - Window) = b.count + 1
<1> DEFINE from == b.resetAt - Window
           c == [counted EXCEPT ![now] = @ + 1]
           a == [admitted EXCEPT ![now] = @ + 1]
<1>1. /\ now \in Nat /\ now \in Times /\ Window \in Nat /\ Window > 0 /\ MaxRequests \in Nat
      /\ \A t \in Times : t \in Nat
  BY TimesTyped DEF LimiterTyped
<1>2. counted \in Tallies /\ admitted \in Tallies
  BY DEF LimiterTyped
<1>3. /\ b.resetAt \in Nat /\ b.count \in Nat /\ from \in 0..now /\ from \in Nat
      /\ bucket'.resetAt = b.resetAt /\ bucket'.count = b.count + 1 /\ bucket' \in Buckets
  BY <1>1 DEF Windowed, Buckets
<1>4. now \in Span(from) /\ now \notin Span(from - Window) /\ now \notin Span(from + Window)
  BY <1>1, <1>3 DEF Span
<1>5. /\ \A t \in Times : t >= b.resetAt => admitted[t] = 0 /\ counted[t] = 0
      /\ b.count = Within(counted, from)
      /\ Within(admitted, from) <= b.count
      /\ Within(admitted, from) <= MaxRequests
      /\ Within(admitted, from - Window) <= MaxRequests
  BY DEF Windowed
<1>6. /\ Within(c, from) = b.count + 1
      /\ Within(a, from) = Within(admitted, from) + 1
      /\ Within(a, from - Window) = Within(admitted, from - Window)
  BY <1>1, <1>2, <1>4, <1>5, WithinGrows
<1>7. c \in Tallies /\ a \in Tallies
  BY <1>1, <1>2, WithinGrows
<1>8. \A t \in Times : t # now => a[t] = admitted[t] /\ c[t] = counted[t]
  BY <1>1, <1>2 DEF Tallies
<1>9. \A t \in Times : t >= b.resetAt => a[t] = 0 /\ c[t] = 0
  BY <1>1, <1>3, <1>5, <1>8
<1>10. Within(admitted, from) \in Nat /\ counted' = c /\ (admitted' = admitted \/ admitted' = a)
  BY <1>2, WithinNat
<1> HIDE DEF a, c
<1>11. Within(admitted', from) <= b.count + 1 /\ Within(admitted', from) <= MaxRequests
  <2>1. CASE admitted' = admitted
    BY <1>3, <1>5, <1>10, <2>1
  <2>2. CASE admitted' = a /\ b.count < MaxRequests
    BY <1>1, <1>3, <1>5, <1>6, <1>10, <2>2
  <2> QED
    BY <2>1, <2>2 DEF a
<1>12. Within(admitted', from - Window) <= MaxRequests
  BY <1>5, <1>6, <1>10
<1>13. \A t \in Times : t >= b.resetAt => admitted'[t] = 0 /\ counted'[t] = 0
  BY <1>5, <1>9, <1>10
<1>14. Windowed(bucket)'
  <2>1. \A x : Within(admitted, x)' = Within(admitted', x) /\ Within(counted, x)' = Within(counted', x)
    BY DEF Within
  <2>2. bucket'.resetAt - Window = from
    BY <1>3
  <2>3. limiter = "memory" => b.count + 1 <= MaxRequests
    BY <1>1, <1>3
  <2> HIDE DEF from
  <2> QED
    BY <1>3, <1>6, <1>10, <1>11, <1>12, <1>13, <2>1, <2>2, <2>3 DEF Windowed
<1>15. admitted' \in Tallies
  BY <1>2, <1>7, <1>10
<1>16. SpanQuota'
  <2> SUFFICES ASSUME NEW t \in Times PROVE Within(admitted', t) <= 2 * MaxRequests
    BY DEF SpanQuota, Within
  <2>1. Within(admitted, t) <= 2 * MaxRequests
    BY DEF SpanQuota
  <2>2. CASE now \notin Span(t)
    <3>1. Within(admitted', t) = Within(admitted, t)
      BY <1>1, <1>2, <1>10, <2>2, WithinGrows DEF a
    <3> QED
      BY <2>1, <3>1
  <2>3. CASE now \in Span(t)
    <3>1. t \in Nat /\ t <= now /\ now < t + Window
      BY <1>1, <2>3 DEF Span
    <3>2. /\ Within(admitted', t) \in Nat /\ Within(admitted', from) \in Nat
          /\ Within(admitted', from - Window) \in Nat
      BY <1>15, WithinNat
    <3>3. CASE t <= from
      <4>1. from - Window <= t /\ from \in Int /\ t \in Int
        BY <1>1, <1>3, <3>1
      <4> HIDE DEF from
      <4>2. Within(admitted', t) <= Within(admitted', from - Window) + Within(admitted', from)
        BY <1>15, <3>3, <4>1, WithinTwo
      <4> QED
        BY <1>1, <1>11, <1>12, <3>2, <4>2
    <3>4. CASE ~(t <= from)
      <4> DEFINE end == from + Window
      <4>1. end - Window = from /\ end = b.resetAt /\ end - Window <= t /\ t <= end
            /\ end \in Int /\ t \in Int
        BY <1>1, <1>3, <3>1, <3>4
      <4>2. \A x \in Times : end <= x => admitted'[x] = 0
        BY <1>1, <1>3, <1>13, <4>1
      <4> HIDE DEF end, from
      <4>3. Within(admitted', end) = 0
        BY <1>15, <4>2, WithinNone
      <4>4. Within(admitted', t) <= Within(admitted', end - Window) + Within(admitted', end)
        BY <1>15, <4>1, WithinTwo
      <4> QED
        BY <1>1, <1>11, <3>2, <4>1, <4>3, <4>4
    <3> QED
      BY <3>3, <3>4
  <2> QED
    BY <2>2, <2>3
<1> QED
  BY <1>6, <1>10, <1>14, <1>16


(* The windows of Redis. *)
LEMMA WindowsOfTime ==
  ASSUME NEW t \in Times
  PROVE  /\ WindowOf(t) \in Times /\ WindowOf(t) <= t /\ t < WindowOf(t) + Window
         /\ \A x \in Times : x \in Span(WindowOf(t)) => WindowOf(x) = WindowOf(t)
<1>1. t \in Nat /\ Window \in Nat /\ Window > 0 /\ MaxTime \in Nat /\ t <= MaxTime
  BY TimesTyped DEF Times
<1>2. \A x \in Nat : /\ x \div Window \in Nat
                    /\ (x \div Window) * Window <= x
                    /\ x < (x \div Window) * Window + Window
  BY <1>1
<1>3. \A p, q \in Nat : p * Window < q * Window + Window => p <= q
  <2> SUFFICES ASSUME NEW p \in Nat, NEW q \in Nat, p > q
               PROVE  ~(p * Window < q * Window + Window)
    OBVIOUS
  <2>1. PICK d \in Nat : p = q + 1 + d
    <3>1. p - q - 1 \in Nat /\ p = q + 1 + (p - q - 1)
      OBVIOUS
    <3> QED
      BY <3>1
  <2>2. p * Window = q * Window + Window + d * Window
    BY <1>1, <2>1
  <2>3. d * Window \in Nat /\ q * Window \in Nat
    BY <1>1
  <2> QED
    BY <1>1, <2>2, <2>3
<1>4. (t \div Window) * Window \in Nat
  BY <1>1, <1>2
<1>5. WindowOf(t) \in Times /\ WindowOf(t) <= t /\ t < WindowOf(t) + Window
  BY <1>1, <1>2, <1>4 DEF WindowOf, Times
<1>6. ASSUME NEW x \in Times, x \in Span(WindowOf(t)) PROVE WindowOf(x) = WindowOf(t)
  <2> DEFINE p == x \div Window
             q == t \div Window
  <2>1. x \in Nat /\ p \in Nat /\ q \in Nat
    BY <1>1, <1>2, TimesTyped
  <2>2. q * Window <= x /\ x < q * Window + Window
    BY <1>6 DEF Span, WindowOf
  <2>3. p * Window <= x /\ x < p * Window + Window
    BY <1>2, <2>1
  <2> HIDE DEF p, q
  <2>4. p * Window \in Nat /\ q * Window \in Nat
    BY <1>1, <2>1
  <2>5. p * Window < q * Window + Window /\ q * Window < p * Window + Window
    BY <1>1, <2>1, <2>2, <2>3, <2>4
  <2>6. p <= q /\ q <= p
    BY <1>3, <2>1, <2>5
  <2>7. p = q
    BY <2>1, <2>6
  <2> QED
    BY <2>7 DEF WindowOf, p, q
<1> QED
  BY <1>5, <1>6


(* The requests Redis has counted in a window that may yet be let through. *)
MayPass(call, w) ==
  /\ call # Nothing /\ call.at # "incr"
  /\ WindowOf(call.arrived) = w
  /\ call.count <= MaxRequests

Pending(w) == {r \in Requests : MayPass(request[r], w)}

Through(w) == Within(admitted, w) + Cardinality(Pending(w))

CountIn(w) == IF keys[w] = Nothing THEN 0 ELSE keys[w].count

AtMost(n, c) == n <= c /\ n <= MaxRequests

(* What passed or may pass in a window fits the count of its key.  Only    *)
(* once the window is over can the key be gone; an INCR that comes by then *)
(* starts a second count, and that key outlives all requests of the window.*)
WindowSound(w) ==
  /\ CountIn(w) <= Within(counted, w)
  /\ w \in late => now >= w + Window
  /\ keys[w] # Nothing => keys[w].expiresAt = 0 \/ keys[w].expiresAt >= w + Window
  /\ \/ AtMost(Through(w), CountIn(w))
     \/ /\ w \in late /\ keys[w] # Nothing
        /\ Through(w) <= MaxRequests + CountIn(w) /\ Through(w) <= 2 * MaxRequests
        /\ keys[w].expiresAt = 0 \/ keys[w].expiresAt >= w + 2 * Window

CallSound(r) ==
  request[r] # Nothing =>
    /\ request[r].arrived <= now
    /\ now - request[r].arrived <= MaxDelay
    /\ request[r].count <= Within(counted, WindowOf(request[r].arrived))

Windows == {WindowOf(t) : t \in Times}

RedisInv ==
  limiter = "redis" =>
    /\ \A r \in Requests : CallSound(r)
    /\ \A w \in Windows : WindowSound(w)

LEMMA PendingFinite ==
  \A w : IsFiniteSet(Pending(w)) /\ Cardinality(Pending(w)) \in Nat
<1>1. IsFiniteSet(Requests)
  BY LimitsAssumption
<1> SUFFICES ASSUME NEW w PROVE IsFiniteSet(Pending(w)) /\ Cardinality(Pending(w)) \in Nat
  OBVIOUS
<1>2. Pending(w) \in SUBSET Requests
  BY DEF Pending
<1>3. IsFiniteSet(Pending(w))
  BY <1>1, <1>2, FS_Subset
<1> QED
  BY <1>3, FS_CardinalityType

(* A request that moves on may join the pending ones, stay or leave. *)
LEMMA PendingMoves ==
  ASSUME LimiterTyped, NEW r \in Requests, NEW call, request' = [request EXCEPT ![r] = call], NEW w
  PROVE  /\ MayPass(call, w) <=> MayPass(request[r], w) =>
              Cardinality(Pending(w))' = Cardinality(Pending(w))
         /\ MayPass(call, w) /\ ~MayPass(request[r], w) =>
              Cardinality(Pending(w))' = Cardinality(Pending(w)) + 1
         /\ ~MayPass(call, w) /\ MayPass(request[r], w) =>
              Cardinality(Pending(w))' = Cardinality(Pending(w)) - 1
         /\ Cardinality(Pending(w)) \in Nat /\ Cardinality(Pending(w))' \in Nat
<1> DEFINE P == Pending(w)
           Q == {q \in Requests : MayPass(request'[q], w)}
<1>1. Pending(w)' = Q
  BY DEF Pending, MayPass
<1>2. request'[r] = call /\ \A q \in Requests : q # r => request'[q] = request[q]
  BY DEF LimiterTyped
<1>3. /\ \A q \in Requests : q \in P <=> MayPass(request[q], w)
      /\ \A q \in Requests : q \in Q <=> MayPass(request'[q], w)
      /\ P \subseteq Requests /\ Q \subseteq Requests
  BY DEF Pending
<1>4. IsFiniteSet(P)
  BY PendingFinite
<1> HIDE DEF P, Q
<1>5. ASSUME MayPass(call, w), ~MayPass(request[r], w) PROVE Cardinality(Q) = Cardinality(P) + 1
  <2>1. r \notin P /\ Q = P \cup {r}
    BY <1>2, <1>3, <1>5
  <2> QED
    BY <1>4, <2>1, FS_AddElement
<1>6. ASSUME ~MayPass(call, w), MayPass(request[r], w) PROVE Cardinality(Q) = Cardinality(P) - 1
  <2>1. r \in P /\ Q = P \ {r}
    BY <1>2, <1>3, <1>6
  <2> QED
    BY <1>4, <2>1, FS_RemoveElement
<1>7. ASSUME MayPass(call, w) <=> MayPass(request[r], w) PROVE Q = P
  BY <1>2, <1>3, <1>7
<1>8. Cardinality(Pending(w))' = Cardinality(Q)
  BY <1>1
<1>9. IsFiniteSet(Requests)
  BY LimitsAssumption
<1>10. IsFiniteSet(Q)
  BY <1>3, <1>9, FS_Subset
<1>11. Cardinality(P) \in Nat /\ Cardinality(Q) \in Nat
  BY <1>4, <1>10, FS_CardinalityType
<1> QED
  BY <1>5, <1>6, <1>7, <1>8, <1>11 DEF P

LEMMA WindowTyped ==
  ASSUME NEW w \in Windows
  PROVE  /\ w \in Times /\ w \in Nat
         /\ \A x \in Times : WindowOf(x) = w <=> x \in Span(w)
<1>1. PICK t \in Times : w = WindowOf(t)
  BY DEF Windows
<1>2. w \in Times /\ \A x \in Times : x \in Span(w) => WindowOf(x) = w
  BY <1>1, WindowsOfTime
<1>3. ASSUME NEW x \in Times, WindowOf(x) = w PROVE x \in Span(w)
  BY <1>3, WindowsOfTime DEF Span
<1> QED
  BY <1>2, <1>3, TimesTyped

(* A window is sound as long as its key stays and no more pass through it. *)
LEMMA WindowKept ==
  ASSUME LimiterTyped, NEW w \in Windows, WindowSound(w),
         now' \in Times, now' >= now, keys'[w] = keys[w], w \in late' <=> w \in late,
         Through(w)' \in Nat, Through(w)' <= Through(w),
         Within(counted, w)' \in Nat, Within(counted, w)' >= Within(counted, w)
  PROVE  WindowSound(w)'
<1>1. w \in Times /\ w \in Nat /\ now \in Nat /\ now' \in Nat /\ Window \in Nat /\ MaxRequests \in Nat
  BY WindowTyped, TimesTyped DEF LimiterTyped
<1>2. keys[w] \in {Nothing} \cup Keys
  BY <1>1 DEF LimiterTyped
<1>3. CountIn(w)' = CountIn(w) /\ CountIn(w) \in Nat
  BY <1>2 DEF CountIn, Keys
<1>4. Within(counted, w) \in Nat /\ Within(admitted, w) \in Nat /\ Cardinality(Pending(w)) \in Nat
  BY WithinNat, PendingFinite DEF LimiterTyped
<1>5. Through(w) \in Nat
  BY <1>4 DEF Through
<1>6. CountIn(w)' <= Within(counted, w)'
  BY <1>3, <1>4 DEF WindowSound
<1>7. w \in late' => now' >= w + Window
  BY <1>1 DEF WindowSound
<1>8. keys'[w] # Nothing => keys'[w].expiresAt = 0 \/ keys'[w].expiresAt >= w + Window
  BY DEF WindowSound
<1>9. CASE AtMost(Through(w), CountIn(w))
  <2>1. AtMost(Through(w), CountIn(w))'
    BY <1>1, <1>3, <1>5, <1>9 DEF AtMost
  <2> QED
    BY <1>6, <1>7, <1>8, <2>1 DEF WindowSound
<1>10. CASE /\ w \in late /\ keys[w] # Nothing
            /\ Through(w) <= MaxRequests + CountIn(w) /\ Through(w) <= 2 * MaxRequests
            /\ keys[w].expiresAt = 0 \/ keys[w].expiresAt >= w + 2 * Window
  <2>1. Through(w)' <= MaxRequests + CountIn(w)' /\ Through(w)' <= 2 * MaxRequests
    BY <1>1, <1>3, <1>5, <1>10
  <2> QED
    BY <1>6, <1>7, <1>8, <1>10, <2>1 DEF WindowSound
<1> QED
  BY <1>9, <1>10 DEF WindowSound

(* A call that goes on leaves the other windows as they are. *)
LEMMA OtherWindow ==
  ASSUME LimiterTyped, NEW r \in Requests, request[r] \in Calls, NEW call,
         request' = [request EXCEPT ![r] = call],
         call = Nothing \/ (call \in Calls /\ call.arrived = request[r].arrived),
         NEW w \in Windows, w # WindowOf(request[r].arrived), WindowSound(w),
         now' = now, keys'[w] = keys[w], w \in late' <=> w \in late,
         counted' = counted \/ counted' = [counted EXCEPT ![request[r].arrived] = @ + 1],
         admitted' = admitted \/ admitted' = [admitted EXCEPT ![request[r].arrived] = @ + 1]
  PROVE  WindowSound(w)'
<1>1. request[r].arrived \in Times /\ now \in Times /\ counted \in Tallies /\ admitted \in Tallies
  BY DEF LimiterTyped, Calls
<1>2. request[r].arrived \notin Span(w)
  BY <1>1, WindowTyped
<1>3. Within(counted', w) = Within(counted, w) /\ Within(admitted', w) = Within(admitted, w)
  BY <1>1, <1>2, WithinGrows
<1>4. ~MayPass(call, w) /\ ~MayPass(request[r], w)
  BY DEF MayPass
<1>5. Cardinality(Pending(w))' = Cardinality(Pending(w))
  BY <1>4, PendingMoves
<1>6. Through(w)' = Through(w) /\ Within(counted, w)' = Within(counted, w)
  BY <1>3, <1>5 DEF Through, Within
<1>7. Through(w) \in Nat /\ Within(counted, w) \in Nat
  BY <1>1, WithinNat, PendingFinite DEF Through
<1>8. now >= now
  BY <1>1, TimesTyped
<1> QED
  BY <1>1, <1>6, <1>7, <1>8, WindowKept


LimiterInv ==
  /\ LimiterTyped
  /\ WindowInv
  /\ SpanQuota
  /\ RedisInv
  /\ DeniedOnlyWhenFull

(* An open window stays as it is until a request is counted in it. *)
LEMMA WindowedKept ==
  ASSUME NEW b, Windowed(b), bucket' = b, now \in Times, now' \in Times, now' >= now,
         UNCHANGED <<limiter, counted, admitted>>
  PROVE  Windowed(bucket)'
<1>1. now \in Nat /\ now' \in Nat /\ Window \in Nat
  BY TimesTyped
<1>2. b.resetAt - Window \in 0..now'
  BY <1>1 DEF Windowed
<1>3. \A x : Within(admitted, x)' = Within(admitted, x) /\ Within(counted, x)' = Within(counted, x)
  BY DEF Within
<1> QED
  BY <1>2, <1>3 DEF Windowed

(* Those turned away before, and those turned away now. *)
LEMMA DeniedStay ==
  ASSUME LimiterInv, NEW x \in Times, limiter' = limiter,
         counted' = counted \/ counted' = [counted EXCEPT ![x] = @ + 1],
         NEW t, denied' = denied \/ (denied' = denied \cup {t} /\ FullFor(t)')
  PROVE  DeniedOnlyWhenFull'
<1>1. \A d \in denied : FullFor(d)'
  BY FullStays DEF LimiterInv
<1>2. \A d \in denied' : FullFor(d)'
  BY <1>1
<1> QED
  BY <1>2 DEF DeniedOnlyWhenFull, FullFor

(* InMemoryRateLimiter.check and the console's memory store. *)
LEMMA MemoryKeeps == LimiterInv /\ CheckMemory => LimiterInv'
<1> SUFFICES ASSUME LimiterInv, CheckMemory PROVE LimiterInv'
  OBVIOUS
<1>1. /\ LimiterTyped /\ WindowInv /\ SpanQuota /\ limiter = "memory"
      /\ UNCHANGED <<limiter, now, keys, request, late>>
      /\ now \in Times /\ now \in Nat /\ Window \in Nat /\ Window > 0 /\ MaxRequests \in Nat
  BY TimesTyped DEF LimiterInv, LimiterTyped, CheckMemory
<1>2. PICK b : b = Open
  OBVIOUS
<1>3. Windowed(b) /\ now < b.resetAt
  BY <1>1, <1>2, OpenIsWindowed
<1>4. /\ b \in Buckets /\ b.count \in Nat /\ b.resetAt \in Nat
      /\ b.resetAt - Window \in (now - Window + 1)..now /\ b.resetAt - Window \in 0..now
      /\ Within(counted, b.resetAt - Window) = b.count
  BY <1>1, <1>3 DEF Windowed, Buckets
<1>5. \/ b.count >= MaxRequests /\ bucket' = b /\ Deny(now) /\ UNCHANGED counted
      \/ b.count < MaxRequests /\ bucket' = [b EXCEPT !.count = @ + 1] /\ Count(now) /\ Admit(now)
  BY <1>1, <1>2, <1>4 DEF CheckMemory, Open
<1>6. counted \in Tallies /\ admitted \in Tallies /\ denied \in SUBSET Times
  BY <1>1 DEF LimiterTyped
<1>7. bucket # Nothing => bucket \in Buckets
  BY <1>1 DEF LimiterTyped
<1>8. \A t \in Times : t > now => admitted[t] = 0 /\ counted[t] = 0
  BY <1>1 DEF WindowInv
<1>9. CASE b.count >= MaxRequests /\ bucket' = b /\ Deny(now) /\ UNCHANGED counted
  <2>1. admitted' = admitted /\ denied' = denied \cup {now}
    BY <1>9 DEF Deny
  <2>2. Windowed(bucket)'
    BY <1>1, <1>3, <1>9, <2>1, WindowedKept
  <2>3. LimiterTyped'
    BY <1>1, <1>4, <1>9, <2>1 DEF LimiterTyped
  <2>4. WindowInv'
    BY <1>1, <1>4, <1>8, <1>9, <2>1, <2>2, NothingAssumption DEF WindowInv
  <2>5. SpanQuota'
    BY <1>1, <1>9, <2>1 DEF SpanQuota, Within
  <2>6. FullFor(now)'
    BY <1>1, <1>4, <1>9 DEF FullFor, Within
  <2>7. DeniedOnlyWhenFull'
    <3>1. PICK t : t = now
      OBVIOUS
    <3>2. FullFor(t)'
      BY <1>1, <2>6, <3>1 DEF FullFor, Within
    <3> QED
      BY <1>1, <1>9, <2>1, <3>1, <3>2, DeniedStay
  <2>8. RedisInv'
    BY <1>1 DEF RedisInv
  <2> QED
    BY <2>3, <2>4, <2>5, <2>7, <2>8 DEF LimiterInv
<1>10. CASE b.count < MaxRequests /\ bucket' = [b EXCEPT !.count = @ + 1] /\ Count(now) /\ Admit(now)
  <2>1. /\ admitted' = [admitted EXCEPT ![now] = @ + 1] /\ denied' = denied
        /\ counted' = [counted EXCEPT ![now] = @ + 1]
    BY <1>10 DEF Admit, Count
  <2>2. Windowed(bucket)' /\ SpanQuota'
    BY <1>1, <1>3, <1>10, <2>1, WindowCounts
  <2>3. bucket' \in Buckets /\ counted' \in Tallies /\ admitted' \in Tallies
    <3>1. bucket' \in Buckets
      BY <1>4, <1>10 DEF Buckets
    <3>2. counted' \in Tallies /\ admitted' \in Tallies
      BY <1>1, <1>6, <2>1, WithinGrows
    <3> QED
      BY <3>1, <3>2
  <2>4. LimiterTyped'
    BY <1>1, <2>1, <2>3 DEF LimiterTyped
  <2>5. \A t \in Times : t > now' => admitted'[t] = 0 /\ counted'[t] = 0
    BY <1>1, <1>6, <1>8, <2>1, TimesTyped DEF Tallies
  <2>6. WindowInv'
    BY <2>2, <2>3, <2>5, NothingAssumption DEF WindowInv
  <2>7. DeniedOnlyWhenFull'
    BY <1>1, <2>1, DeniedStay
  <2>8. RedisInv'
    BY <1>1 DEF RedisInv
  <2> QED
    BY <2>2, <2>4, <2>6, <2>7, <2>8 DEF LimiterInv
<1> QED
  BY <1>5, <1>9, <1>10

(* The upsert of Postgres. *)
LEMMA PostgresKeeps == LimiterInv /\ CheckPostgres => LimiterInv'
<1> SUFFICES ASSUME LimiterInv, CheckPostgres PROVE LimiterInv'
  OBVIOUS
<1>1. /\ LimiterTyped /\ WindowInv /\ SpanQuota /\ limiter = "postgres"
      /\ UNCHANGED <<limiter, now, keys, request, late>>
      /\ now \in Times /\ now \in Nat /\ Window \in Nat /\ Window > 0 /\ MaxRequests \in Nat
  BY TimesTyped DEF LimiterInv, LimiterTyped, CheckPostgres
<1>2. PICK b : b = Open
  OBVIOUS
<1>3. Windowed(b) /\ now < b.resetAt
  BY <1>1, <1>2, OpenIsWindowed
<1>4. /\ b \in Buckets /\ b.count \in Nat /\ b.resetAt \in Nat
      /\ b.resetAt - Window \in (now - Window + 1)..now
  BY <1>1, <1>3 DEF Windowed, Buckets
<1>5. bucket' = [b EXCEPT !.count = @ + 1]
  <2>1. b = [count |-> b.count, resetAt |-> b.resetAt]
    BY <1>4 DEF Buckets
  <2>2. bucket' = [count |-> b.count + 1, resetAt |-> b.resetAt]
    <3>1. CASE Closed
      BY <1>2, <3>1 DEF CheckPostgres, Open
    <3>2. CASE ~Closed
      BY <1>2, <3>2 DEF CheckPostgres, Open
    <3> QED
      BY <3>1, <3>2
  <2> QED
    BY <2>1, <2>2
<1>6. counted \in Tallies /\ admitted \in Tallies /\ denied \in SUBSET Times
  BY <1>1 DEF LimiterTyped
<1>7. /\ counted' = [counted EXCEPT ![now] = @ + 1]
      /\ bucket' \in Buckets /\ bucket'.count = b.count + 1
  BY <1>4, <1>5 DEF CheckPostgres, Count, Buckets
<1>8. \/ b.count < MaxRequests /\ admitted' = [admitted EXCEPT ![now] = @ + 1] /\ denied' = denied
      \/ b.count + 1 > MaxRequests /\ admitted' = admitted /\ denied' = denied \cup {now}
      \/ admitted' = admitted /\ denied' = denied
  BY <1>1, <1>4, <1>7 DEF CheckPostgres, Admit, Deny
<1>9. /\ Windowed(bucket)' /\ SpanQuota'
      /\ Within(counted', b.resetAt - Window) = b.count + 1
  BY <1>1, <1>3, <1>5, <1>7, <1>8, WindowCounts
<1>10. counted' \in Tallies /\ admitted' \in Tallies
  BY <1>1, <1>6, <1>7, <1>8, WithinGrows
<1>11. LimiterTyped'
  BY <1>1, <1>7, <1>8, <1>10 DEF LimiterTyped
<1>12. \A t \in Times : t > now => admitted[t] = 0 /\ counted[t] = 0
  BY <1>1 DEF WindowInv
<1>13. \A t \in Times : t > now' => admitted'[t] = 0 /\ counted'[t] = 0
  BY <1>1, <1>6, <1>7, <1>8, <1>12, TimesTyped DEF Tallies
<1>14. WindowInv'
  BY <1>7, <1>9, <1>13, NothingAssumption DEF WindowInv
<1>15. PICK t : t = now
  OBVIOUS
<1>16. b.count + 1 > MaxRequests => FullFor(t)'
  BY <1>1, <1>4, <1>9, <1>15 DEF FullFor, Within
<1>17. DeniedOnlyWhenFull'
  BY <1>1, <1>7, <1>8, <1>15, <1>16, DeniedStay
<1>18. RedisInv'
  BY <1>1 DEF RedisInv
<1> QED
  BY <1>9, <1>11, <1>14, <1>17, <1>18 DEF LimiterInv

(* A restart empties the books with the window. *)
LEMMA RestartKeeps == LimiterInv /\ Restart => LimiterInv'
<1> SUFFICES ASSUME LimiterInv, Restart PROVE LimiterInv'
  OBVIOUS
<1>1. /\ LimiterTyped /\ limiter = "memory" /\ limiter' = limiter /\ now' = now
      /\ bucket' = Nothing /\ keys' = keys /\ request' = request /\ denied' = {}
      /\ counted' = [t \in Times |-> 0] /\ admitted' = [t \in Times |-> 0]
  BY DEF LimiterInv, Restart
<1>2. counted' \in Tallies /\ admitted' \in Tallies
  BY <1>1 DEF Tallies
<1>3. LimiterTyped'
  BY <1>1, <1>2 DEF LimiterTyped
<1>4. WindowInv'
  BY <1>1 DEF WindowInv
<1>5. SpanQuota'
  <2> SUFFICES ASSUME NEW t \in Times PROVE Within(admitted', t) <= 2 * MaxRequests
    BY DEF SpanQuota, Within
  <2>1. \A x \in Times : t <= x => admitted'[x] = 0
    BY <1>1
  <2>2. Within(admitted', t) = 0
    BY <1>2, <2>1, WithinNone
  <2> QED
    BY <2>2, TimesTyped
<1>6. RedisInv' /\ DeniedOnlyWhenFull'
  BY <1>1 DEF RedisInv, DeniedOnlyWhenFull
<1> QED
  BY <1>3, <1>4, <1>5, <1>6 DEF LimiterInv


(* A call that nobody touches stays sound. *)
LEMMA CallKept ==
  ASSUME LimiterTyped, NEW q \in Requests, CallSound(q), request'[q] = request[q], now' = now,
         NEW x \in Times, counted' = counted \/ counted' = [counted EXCEPT ![x] = @ + 1]
  PROVE  CallSound(q)'
<1>1. counted \in Tallies
  BY DEF LimiterTyped
<1>2. ASSUME request[q] # Nothing PROVE request[q].count <= Within(counted', WindowOf(request[q].arrived))
  <2> DEFINE w == WindowOf(request[q].arrived)
  <2>1. request[q] \in Calls
    BY <1>2 DEF LimiterTyped
  <2>2. request[q].count \in Nat /\ request[q].count <= Within(counted, w)
    BY <1>2, <2>1 DEF CallSound, Calls
  <2>3. Within(counted', w) = Within(counted, w) \/ Within(counted', w) = Within(counted, w) + 1
    BY <1>1, WithinGrows
  <2>4. Within(counted, w) \in Nat
    BY <1>1, WithinNat
  <2> HIDE DEF w
  <2>5. request[q].count <= Within(counted', w)
    BY <2>2, <2>3, <2>4
  <2> QED
    BY <2>5 DEF w
<1>3. WindowOf(request[q].arrived)' = WindowOf(request[q].arrived)
  BY DEF WindowOf
<1>4. Within(counted, WindowOf(request[q].arrived))' = Within(counted', WindowOf(request[q].arrived))
  BY <1>3 DEF Within, Span
<1> QED
  BY <1>2, <1>4 DEF CallSound

(* What is known of a call under way. *)
LEMMA CallTyped ==
  ASSUME LimiterInv, NEW r \in Requests, request[r] # Nothing,
         NEW a, a = request[r].arrived, NEW w, w = WindowOf(a)
  PROVE  /\ limiter = "redis" /\ request[r] \in Calls /\ a \in Times /\ w \in Windows
         /\ CallSound(r) /\ WindowSound(w)
         /\ w <= a /\ a < w + Window /\ a <= now /\ now < w + 2 * Window
         /\ keys[w] \in {Nothing} \cup Keys
<1>1. limiter = "redis" /\ request[r] \in Calls /\ LimiterTyped /\ now \in Times
  BY DEF LimiterInv, LimiterTyped
<1>2. a \in Times /\ w \in Windows
  BY <1>1 DEF Calls, Windows
<1>3. CallSound(r) /\ WindowSound(w)
  BY <1>1, <1>2 DEF LimiterInv, RedisInv
<1>4. w <= a /\ a < w + Window /\ w \in Times
  BY <1>2, WindowsOfTime
<1>5. a \in Nat /\ w \in Nat /\ now \in Nat /\ Window \in Nat
  BY <1>1, <1>2, <1>4, TimesTyped
<1>6. a <= now /\ now - a <= MaxDelay
  BY <1>3 DEF CallSound
<1>7. MaxDelay <= Window /\ MaxDelay \in Nat
  BY <1>5, LimitsAssumption
<1>8. now < w + 2 * Window
  BY <1>4, <1>5, <1>6, <1>7
<1>9. keys[w] \in {Nothing} \cup Keys
  BY <1>1, <1>4 DEF LimiterTyped
<1> QED
  BY <1>1, <1>2, <1>3, <1>4, <1>6, <1>8, <1>9

(* A step of a call concerns its own window. *)
LEMMA CallMoves ==
  ASSUME LimiterInv, NEW r \in Requests, request[r] # Nothing,
         NEW a, a = request[r].arrived, NEW w, w = WindowOf(a),
         NEW call, request' = [request EXCEPT ![r] = call],
         \/ call = Nothing
         \/ call \in Calls /\ call.arrived = a /\ call.count <= Within(counted', w),
         UNCHANGED <<limiter, now, bucket>>,
         keys' \in [Times -> {Nothing} \cup Keys],
         \A v \in Times : v # w => keys'[v] = keys[v] /\ (v \in late' <=> v \in late),
         counted' = counted \/ counted' = [counted EXCEPT ![a] = @ + 1],
         admitted' = admitted \/ admitted' = [admitted EXCEPT ![a] = @ + 1],
         denied' \in SUBSET Times, DeniedOnlyWhenFull', WindowSound(w)'
  PROVE  LimiterInv'
<1>1. /\ LimiterTyped /\ limiter = "redis" /\ limiter' = "redis" /\ request[r] \in Calls
      /\ a \in Times /\ CallSound(r) /\ a <= now
  BY CallTyped DEF LimiterInv
<1>2. counted \in Tallies /\ admitted \in Tallies
  BY <1>1 DEF LimiterTyped
<1>3. counted' \in Tallies /\ admitted' \in Tallies
  BY <1>1, <1>2, WithinGrows
<1>4. request' \in [Requests -> {Nothing} \cup Calls] /\ request'[r] = call
      /\ \A q \in Requests : q # r => request'[q] = request[q]
  BY <1>1 DEF LimiterTyped
<1>5. LimiterTyped'
  BY <1>1, <1>3, <1>4 DEF LimiterTyped
<1>6. WindowInv' /\ SpanQuota'
  BY <1>1 DEF WindowInv, SpanQuota
<1>7. ASSUME NEW q \in Requests PROVE CallSound(q)'
  <2>1. CASE q # r
    <3>1. CallSound(q)
      BY <1>1 DEF LimiterInv, RedisInv
    <3> QED
      BY <1>1, <1>4, <2>1, <3>1, CallKept
  <2>2. CASE q = r /\ call = Nothing
    BY <1>4, <2>2 DEF CallSound
  <2>3. CASE q = r /\ call \in Calls /\ call.arrived = a /\ call.count <= Within(counted', w)
    <3>1. request'[q] = call /\ now' - a <= MaxDelay /\ a <= now'
      BY <1>1, <1>4, <2>3 DEF CallSound, Calls
    <3>2. Within(counted, WindowOf(request[q].arrived))' = Within(counted', w)
      BY <2>3, <3>1 DEF Within, Span, WindowOf
    <3> QED
      BY <2>3, <3>1, <3>2 DEF CallSound
  <2> QED
    BY <2>1, <2>2, <2>3
<1>8. ASSUME NEW v \in Windows PROVE WindowSound(v)'
  <2>1. CASE v # w
    <3>1. WindowSound(v) /\ v \in Times
      BY <1>1, WindowTyped DEF LimiterInv, RedisInv
    <3>2. call = Nothing \/ (call \in Calls /\ call.arrived = request[r].arrived)
      OBVIOUS
    <3> QED
      BY <1>1, <2>1, <3>1, <3>2, OtherWindow
  <2> QED
    BY <2>1
<1>9. Windows' = Windows
  BY DEF Windows, WindowOf
<1>10. RedisInv'
  BY <1>7, <1>8, <1>9 DEF RedisInv
<1> QED
  BY <1>5, <1>6, <1>10 DEF LimiterInv


(* A request that has sent nothing yet counts nowhere. *)
LEMMA ArriveKeeps == \A r \in Requests : LimiterInv /\ Arrive(r) => LimiterInv'
<1> SUFFICES ASSUME NEW r \in Requests, LimiterInv, Arrive(r) PROVE LimiterInv'
  OBVIOUS
<1>1. /\ LimiterTyped /\ limiter = "redis" /\ request[r] = Nothing
      /\ UNCHANGED <<limiter, now, bucket, keys, counted, admitted, denied, late>>
      /\ now \in Times /\ now \in Nat
  BY TimesTyped DEF LimiterInv, LimiterTyped, Arrive, history
<1>2. PICK call : call = [at |-> "incr", arrived |-> now, count |-> 0]
  OBVIOUS
<1>3. request' = [request EXCEPT ![r] = call] /\ call \in Calls /\ call # Nothing
  BY <1>1, <1>2, NothingAssumption DEF Arrive, Calls
<1>4. request' \in [Requests -> {Nothing} \cup Calls] /\ request'[r] = call
      /\ \A q \in Requests : q # r => request'[q] = request[q]
  BY <1>1, <1>3 DEF LimiterTyped
<1>5. LimiterTyped'
  BY <1>1, <1>4 DEF LimiterTyped
<1>6. WindowInv' /\ SpanQuota'
  BY <1>1 DEF WindowInv, SpanQuota
<1>7. ASSUME NEW q \in Requests PROVE CallSound(q)'
  <2>1. CASE q # r
    <3>1. CallSound(q)
      BY <1>1 DEF LimiterInv, RedisInv
    <3> QED
      BY <1>1, <1>4, <2>1, <3>1, CallKept
  <2>2. CASE q = r
    <3>1. request'[q] = call /\ call.arrived = now /\ call.count = 0
      BY <1>2, <1>4, <2>2
    <3>2. now' = now /\ now <= now /\ now - now <= MaxDelay
      BY <1>1, LimitsAssumption
    <3>3. 0 <= Within(counted, WindowOf(request[q].arrived))'
      <4> DEFINE w == WindowOf(request'[q].arrived)
      <4>1. Within(counted, WindowOf(request[q].arrived))' = Within(counted, w)
        BY <1>1 DEF Within, Span, WindowOf
      <4>2. Within(counted, w) \in Nat
        BY <1>1, WithinNat DEF LimiterTyped
      <4> HIDE DEF w
      <4> QED
        BY <4>1, <4>2
    <3> QED
      BY <3>1, <3>2, <3>3 DEF CallSound
  <2> QED
    BY <2>1, <2>2
<1>8. ASSUME NEW w \in Windows PROVE WindowSound(w)'
  <2>1. ~MayPass(call, w) /\ ~MayPass(request[r], w)
    BY <1>1, <1>2 DEF MayPass
  <2>2. Cardinality(Pending(w))' = Cardinality(Pending(w))
    BY <1>1, <1>3, <2>1, PendingMoves
  <2>3. Through(w)' = Through(w) /\ Within(counted, w)' = Within(counted, w)
    BY <1>1, <2>2 DEF Through, Within
  <2>4. Through(w) \in Nat /\ Within(counted, w) \in Nat
    BY <1>1, WithinNat, PendingFinite DEF Through, LimiterTyped
  <2>5. WindowSound(w)
    BY <1>1 DEF LimiterInv, RedisInv
  <2>6. now >= now
    BY <1>1
  <2> QED
    BY <1>1, <2>3, <2>4, <2>5, <2>6, WindowKept
<1>9. Windows' = Windows
  BY DEF Windows, WindowOf
<1>10. RedisInv'
  BY <1>7, <1>8, <1>9 DEF RedisInv
<1>11. DeniedOnlyWhenFull'
  BY <1>1, DeniedStay
<1> QED
  BY <1>5, <1>6, <1>10, <1>11 DEF LimiterInv

(* A lost call can no longer pass. *)
LEMMA LoseCallKeeps == \A r \in Requests : LimiterInv /\ LoseCall(r) => LimiterInv'
<1> SUFFICES ASSUME NEW r \in Requests, LimiterInv, LoseCall(r) PROVE LimiterInv'
  OBVIOUS
<1>1. /\ LimiterTyped /\ request[r] # Nothing /\ request' = [request EXCEPT ![r] = Nothing]
      /\ UNCHANGED <<limiter, now, bucket, keys, counted, admitted, denied, late>>
      /\ now \in Times /\ now >= now
  BY TimesTyped DEF LimiterInv, LimiterTyped, LoseCall, At, Leave, history
<1>2. PICK a : a = request[r].arrived
  OBVIOUS
<1>3. PICK w : w = WindowOf(a)
  OBVIOUS
<1>4. a \in Times /\ w \in Windows /\ WindowSound(w)
  BY <1>1, <1>2, <1>3, CallTyped
<1>5. ~MayPass(Nothing, w)
  BY DEF MayPass
<1>6. /\ \/ Cardinality(Pending(w))' = Cardinality(Pending(w))
         \/ Cardinality(Pending(w))' = Cardinality(Pending(w)) - 1
      /\ Cardinality(Pending(w)) \in Nat /\ Cardinality(Pending(w))' \in Nat
  BY <1>1, <1>5, PendingMoves
<1>7. Within(admitted, w) \in Nat /\ Within(counted, w) \in Nat
  BY <1>1, WithinNat DEF LimiterTyped
<1>8. Within(admitted, w)' = Within(admitted, w) /\ Within(counted, w)' = Within(counted, w)
  BY <1>1 DEF Within
<1>9. Through(w)' \in Nat /\ Through(w)' <= Through(w)
  BY <1>6, <1>7, <1>8 DEF Through
<1>10. WindowSound(w)'
  <2>1. Within(counted, w)' \in Nat /\ Within(counted, w)' >= Within(counted, w)
    BY <1>7, <1>8
  <2> QED
    BY <1>1, <1>4, <1>9, <2>1, WindowKept
<1>11. DeniedOnlyWhenFull'
  BY <1>1, DeniedStay
<1>12. keys' \in [Times -> {Nothing} \cup Keys] /\ denied' \in SUBSET Times
  BY <1>1 DEF LimiterTyped
<1> QED
  BY <1>1, <1>2, <1>3, <1>10, <1>11, <1>12, CallMoves


(* The count of the key and what may pass grow together, or a second count *)
(* begins.                                                                 *)
LEMMA IncrKeeps == \A r \in Requests : LimiterInv /\ Incr(r) => LimiterInv'
<1> SUFFICES ASSUME NEW r \in Requests, LimiterInv, Incr(r) PROVE LimiterInv'
  OBVIOUS
<1>1. PICK a : a = request[r].arrived
  OBVIOUS
<1>2. PICK w : w = WindowOf(a)
  OBVIOUS
<1>3. PICK n : n = IF Absent(w) THEN 1 ELSE keys[w].count + 1
  OBVIOUS
<1>4. /\ request[r] # Nothing /\ request[r].at = "incr"
      /\ counted' = [counted EXCEPT ![a] = @ + 1]
      /\ keys' = [keys EXCEPT ![w] =
           [count |-> n, expiresAt |-> IF Absent(w) THEN 0 ELSE keys[w].expiresAt]]
      /\ late' = IF now >= w + Window THEN late \cup {w} ELSE late
      /\ UNCHANGED <<limiter, now, bucket, admitted, denied>>
  BY <1>1, <1>2, <1>3 DEF Incr, At, Count
<1>5. /\ limiter = "redis" /\ request[r] \in Calls /\ a \in Times /\ w \in Windows
      /\ WindowSound(w) /\ w <= a /\ a < w + Window /\ a <= now /\ now < w + 2 * Window
      /\ keys[w] \in {Nothing} \cup Keys
  BY <1>1, <1>2, <1>4, CallTyped
<1>6. /\ LimiterTyped /\ w \in Times /\ w \in Nat /\ now \in Nat /\ now \in Times
      /\ Window \in Nat /\ Window > 0 /\ MaxRequests \in Nat /\ MaxRequests > 0
  BY <1>5, WindowTyped, TimesTyped DEF LimiterInv, LimiterTyped
<1>7. counted \in Tallies /\ admitted \in Tallies
  BY <1>6 DEF LimiterTyped
<1>8. /\ keys[w] # Nothing => keys[w].count \in Nat /\ keys[w].expiresAt \in Nat
      /\ n \in Nat
  BY <1>3, <1>5 DEF Keys, Absent
<1>9. PICK e : e = IF Absent(w) THEN 0 ELSE keys[w].expiresAt
  OBVIOUS
<1>10. e \in Nat /\ [count |-> n, expiresAt |-> e] \in Keys
  BY <1>8, <1>9 DEF Keys, Absent
<1>11. /\ keys' \in [Times -> {Nothing} \cup Keys]
       /\ keys'[w] = [count |-> n, expiresAt |-> e] /\ keys'[w] # Nothing
       /\ \A v \in Times : v # w => keys'[v] = keys[v]
  BY <1>4, <1>6, <1>9, <1>10, NothingAssumption DEF LimiterTyped
<1>12. PICK call : /\ call = Nothing \/ call = [at |-> IF n = 1 THEN "expire" ELSE "decide", arrived |-> a, count |-> n]
                   /\ request' = [request EXCEPT ![r] = call]
  <2>1. CASE Leave(r)
    BY <2>1 DEF Leave
  <2>2. CASE request' = [request EXCEPT ![r].at = IF n = 1 THEN "expire" ELSE "decide", ![r].count = n]
    <3> DEFINE call == [at |-> IF n = 1 THEN "expire" ELSE "decide", arrived |-> a, count |-> n]
    <3>1. PICK old : old = request[r]
      OBVIOUS
    <3>2. old \in [at : {"incr", "expire", "decide"}, arrived : Times, count : Nat] /\ old.arrived = a
      BY <1>1, <1>5, <3>1 DEF Calls
    <3>3. PICK step : step = IF n = 1 THEN "expire" ELSE "decide"
      OBVIOUS
    <3>4. PICK mid : mid = [old EXCEPT !.at = step]
      OBVIOUS
    <3>5. /\ mid \in [at : {"incr", "expire", "decide"}, arrived : Times, count : Nat]
          /\ mid.at = step /\ mid.arrived = a
      BY <3>2, <3>3, <3>4
    <3>6. [mid EXCEPT !.count = n] = [at |-> step, arrived |-> a, count |-> n]
      BY <1>8, <3>5
    <3>7. request' = [request EXCEPT ![r] = [mid EXCEPT !.count = n]]
      BY <1>6, <2>2, <3>1, <3>3, <3>4 DEF LimiterTyped
    <3>8. [mid EXCEPT !.count = n] = call
      BY <3>3, <3>6
    <3> QED
      BY <3>7, <3>8
  <2> QED
    BY <1>1, <1>2, <1>3, <2>1, <2>2 DEF Incr
<1>13. call # Nothing => call \in Calls /\ call.arrived = a /\ call.count = n
  BY <1>5, <1>8, <1>12 DEF Calls
<1>14. Within(counted', w) = Within(counted, w) + 1 /\ Within(counted, w) \in Nat
  <2>1. a \in Span(w)
    BY <1>5 DEF Span
  <2> QED
    BY <1>4, <1>5, <1>7, <2>1, WithinGrows, WithinNat
<1>15. /\ Through(w) \in Nat /\ Through(w)' \in Nat /\ Through(w)' <= Through(w) + 1
       /\ n > MaxRequests => Through(w)' = Through(w)
  <2>1. ~MayPass(request[r], w)
    BY <1>4 DEF MayPass
  <2>2. MayPass(call, w) => n <= MaxRequests
    BY <1>13 DEF MayPass
  <2>3. /\ Cardinality(Pending(w)) \in Nat /\ Cardinality(Pending(w))' \in Nat
        /\ Cardinality(Pending(w))' = IF MayPass(call, w) THEN Cardinality(Pending(w)) + 1
                                      ELSE Cardinality(Pending(w))
    BY <1>6, <1>12, <2>1, PendingMoves
  <2>4. Within(admitted, w) \in Nat /\ Within(admitted, w)' = Within(admitted, w)
    BY <1>4, <1>7, WithinNat DEF Within
  <2> QED
    BY <1>6, <1>8, <2>2, <2>3, <2>4 DEF Through
<1>16. CountIn(w)' = n /\ CountIn(w) \in Nat
  BY <1>8, <1>11 DEF CountIn
<1>17. n <= CountIn(w) + 1 /\ CountIn(w) <= Within(counted, w)
  BY <1>3, <1>5, <1>8 DEF CountIn, Absent, WindowSound
<1>18. n <= Within(counted', w) /\ Within(counted, w)' = Within(counted', w)
  BY <1>8, <1>14, <1>16, <1>17 DEF Within
<1>19. w \in late' => now >= w + Window
  BY <1>4, <1>5 DEF WindowSound
<1>20. e = 0 \/ e >= w + Window
  BY <1>5, <1>9 DEF WindowSound, Absent
<1>21. \/ AtMost(Through(w)', n)
       \/ /\ w \in late' /\ Through(w)' <= MaxRequests + n /\ Through(w)' <= 2 * MaxRequests
          /\ e = 0 \/ e >= w + 2 * Window
  <2>1. CASE AtMost(Through(w), CountIn(w)) /\ ~Absent(w)
    <3>1. n = CountIn(w) + 1
      BY <1>3, <2>1 DEF CountIn, Absent
    <3> QED
      BY <1>6, <1>8, <1>15, <1>16, <2>1, <3>1 DEF AtMost
  <2>2. CASE AtMost(Through(w), CountIn(w)) /\ keys[w] = Nothing
    <3>1. n = 1 /\ CountIn(w) = 0
      BY <1>3, <2>2 DEF CountIn, Absent
    <3> QED
      BY <1>6, <1>15, <2>2, <3>1 DEF AtMost
  <2>3. CASE AtMost(Through(w), CountIn(w)) /\ Absent(w) /\ keys[w] # Nothing
    <3>1. n = 1 /\ e = 0 /\ keys[w].expiresAt # 0 /\ keys[w].expiresAt <= now
      BY <1>3, <1>9, <2>3 DEF Absent
    <3>2. keys[w].expiresAt >= w + Window
      BY <1>5, <2>3, <3>1 DEF WindowSound
    <3>3. now >= w + Window
      BY <1>6, <1>8, <2>3, <3>1, <3>2
    <3>4. w \in late'
      BY <1>4, <3>3
    <3> QED
      BY <1>6, <1>15, <2>3, <3>1, <3>4 DEF AtMost
  <2>4. CASE /\ w \in late /\ keys[w] # Nothing
             /\ Through(w) <= MaxRequests + CountIn(w) /\ Through(w) <= 2 * MaxRequests
             /\ keys[w].expiresAt = 0 \/ keys[w].expiresAt >= w + 2 * Window
    <3>1. ~Absent(w)
      BY <1>5, <1>6, <1>8, <2>4 DEF Absent
    <3>2. n = CountIn(w) + 1 /\ e = keys[w].expiresAt
      BY <1>3, <1>9, <2>4, <3>1 DEF CountIn
    <3>3. w \in late'
      BY <1>4, <2>4
    <3> QED
      BY <1>6, <1>8, <1>15, <1>16, <2>4, <3>2, <3>3
  <2> QED
    BY <1>5, <2>1, <2>2, <2>3, <2>4 DEF WindowSound, Absent
<1>22. WindowSound(w)'
  BY <1>4, <1>11, <1>16, <1>18, <1>19, <1>20, <1>21 DEF WindowSound, AtMost
<1>23. DeniedOnlyWhenFull'
  BY <1>4, <1>5, DeniedStay
<1>24. denied' \in SUBSET Times /\ \A v \in Times : v # w => (v \in late' <=> v \in late)
  BY <1>4, <1>6 DEF LimiterTyped
<1>25. call = Nothing \/ (call \in Calls /\ call.arrived = a /\ call.count <= Within(counted', w))
  BY <1>13, <1>18
<1> QED
  BY <1>1, <1>2, <1>4, <1>11, <1>12, <1>22, <1>23, <1>24, <1>25, CallMoves


(* The key lives for a window from now, which is as long as it is needed. *)
LEMMA ExpireKeeps == \A r \in Requests : LimiterInv /\ Expire(r) => LimiterInv'
<1> SUFFICES ASSUME NEW r \in Requests, LimiterInv, Expire(r) PROVE LimiterInv'
  OBVIOUS
<1>1. PICK a : a = request[r].arrived
  OBVIOUS
<1>2. PICK w : w = WindowOf(a)
  OBVIOUS
<1>3. /\ request[r] # Nothing /\ request[r].at = "expire"
      /\ keys' = IF Absent(w) THEN keys ELSE [keys EXCEPT ![w].expiresAt = now + Window]
      /\ request' = [request EXCEPT ![r].at = "decide"]
      /\ UNCHANGED <<limiter, now, bucket, counted, admitted, denied, late>>
  BY <1>1, <1>2 DEF Expire, At, history
<1>4. /\ limiter = "redis" /\ request[r] \in Calls /\ a \in Times /\ w \in Windows
      /\ CallSound(r) /\ WindowSound(w) /\ w <= a /\ a <= now
      /\ keys[w] \in {Nothing} \cup Keys
  BY <1>1, <1>2, <1>3, CallTyped
<1>5. /\ LimiterTyped /\ w \in Times /\ w \in Nat /\ a \in Nat /\ now \in Nat /\ now \in Times
      /\ Window \in Nat /\ Window > 0 /\ MaxRequests \in Nat
  BY <1>4, WindowTyped, TimesTyped DEF LimiterInv, LimiterTyped
<1>6. PICK old : old = request[r]
  OBVIOUS
<1>7. PICK call : call = [old EXCEPT !.at = "decide"]
  OBVIOUS
<1>8. request' = [request EXCEPT ![r] = call]
  BY <1>3, <1>5, <1>6, <1>7 DEF LimiterTyped
<1>9. call \in Calls /\ call.at = "decide" /\ call.arrived = a /\ call.count = request[r].count
  BY <1>1, <1>4, <1>6, <1>7 DEF Calls
<1>10. Within(counted, w)' = Within(counted, w) /\ Within(counted', w) = Within(counted, w)
       /\ Within(admitted, w)' = Within(admitted, w)
  BY <1>3 DEF Within
<1>11. Within(counted, w) \in Nat /\ Within(admitted, w) \in Nat
  BY <1>5, WithinNat DEF LimiterTyped
<1>12. call.count <= Within(counted', w)
  BY <1>1, <1>2, <1>3, <1>4, <1>9, <1>10 DEF CallSound
<1>13. Through(w)' = Through(w) /\ Through(w) \in Nat
  <2>1. MayPass(call, w) <=> MayPass(request[r], w)
    BY <1>1, <1>3, <1>9, NothingAssumption DEF MayPass
  <2>2. Cardinality(Pending(w))' = Cardinality(Pending(w)) /\ Cardinality(Pending(w)) \in Nat
    BY <1>5, <1>8, <2>1, PendingMoves
  <2> QED
    BY <1>10, <1>11, <2>2 DEF Through
<1>14. ASSUME Absent(w) PROVE keys' \in [Times -> {Nothing} \cup Keys] /\ WindowSound(w)'
  <2>1. keys' = keys
    BY <1>3, <1>14
  <2>2. WindowSound(w)'
    <3>1. Within(counted, w)' \in Nat /\ Within(counted, w)' >= Within(counted, w)
      BY <1>10, <1>11
    <3>2. Through(w)' \in Nat /\ Through(w)' <= Through(w)
      BY <1>13
    <3>3. now' >= now
      BY <1>3, <1>5
    <3> QED
      BY <1>3, <1>4, <1>5, <2>1, <3>1, <3>2, <3>3, WindowKept
  <2> QED
    BY <1>3, <1>5, <2>1, <2>2 DEF LimiterTyped
<1>15. ASSUME ~Absent(w) PROVE keys' \in [Times -> {Nothing} \cup Keys] /\ WindowSound(w)'
  <2>1. PICK key : key = keys[w]
    OBVIOUS
  <2>2. key \in Keys /\ key # Nothing
    BY <1>4, <1>15, <2>1 DEF Absent
  <2>3. keys' = [keys EXCEPT ![w] = [key EXCEPT !.expiresAt = now + Window]]
    BY <1>3, <1>5, <1>15, <2>1 DEF LimiterTyped
  <2>4. PICK new : new = [key EXCEPT !.expiresAt = now + Window]
    OBVIOUS
  <2>5. new \in Keys /\ new.count = key.count /\ new.expiresAt = now + Window /\ new # Nothing
    BY <1>5, <2>2, <2>4, NothingAssumption DEF Keys
  <2>6. /\ keys' \in [Times -> {Nothing} \cup Keys] /\ keys'[w] = new
        /\ \A v \in Times : v # w => keys'[v] = keys[v]
    BY <1>5, <2>3, <2>4, <2>5 DEF LimiterTyped
  <2>7. CountIn(w)' = CountIn(w)
    BY <2>1, <2>2, <2>5, <2>6 DEF CountIn
  <2>8. now + Window >= w + Window /\ (w \in late => now + Window >= w + 2 * Window)
    BY <1>4, <1>5 DEF WindowSound
  <2>9. WindowSound(w)'
    BY <1>3, <1>4, <1>10, <1>13, <2>1, <2>2, <2>5, <2>6, <2>7, <2>8 DEF WindowSound, AtMost
  <2> QED
    BY <2>6, <2>9
<1>16. /\ keys' \in [Times -> {Nothing} \cup Keys] /\ WindowSound(w)'
       /\ \A v \in Times : v # w => keys'[v] = keys[v]
  <2>1. CASE Absent(w)
    BY <1>3, <1>5, <1>14, <2>1 DEF LimiterTyped
  <2>2. CASE ~Absent(w)
    <3>1. \A v \in Times : v # w => keys'[v] = keys[v]
      BY <1>3, <1>5, <2>2 DEF LimiterTyped
    <3> QED
      BY <1>15, <2>2, <3>1
  <2> QED
    BY <2>1, <2>2
<1>17. DeniedOnlyWhenFull'
  BY <1>3, <1>4, DeniedStay
<1>18. denied' \in SUBSET Times
  BY <1>3, <1>5 DEF LimiterTyped
<1> QED
  BY <1>1, <1>2, <1>3, <1>8, <1>9, <1>12, <1>16, <1>17, <1>18, CallMoves

(* What could pass passes, or is turned away. *)
LEMMA DecideKeeps == \A r \in Requests : LimiterInv /\ Decide(r) => LimiterInv'
<1> SUFFICES ASSUME NEW r \in Requests, LimiterInv, Decide(r) PROVE LimiterInv'
  OBVIOUS
<1>1. PICK a : a = request[r].arrived
  OBVIOUS
<1>2. PICK w : w = WindowOf(a)
  OBVIOUS
<1>3. /\ request[r] # Nothing /\ request[r].at = "decide"
      /\ IF request[r].count > MaxRequests THEN Deny(a) ELSE Admit(a)
      /\ request' = [request EXCEPT ![r] = Nothing]
      /\ UNCHANGED <<limiter, now, bucket, keys, counted, late>>
  BY <1>1 DEF Decide, At, Leave
<1>4. /\ limiter = "redis" /\ request[r] \in Calls /\ a \in Times /\ w \in Windows
      /\ CallSound(r) /\ WindowSound(w) /\ w <= a /\ a < w + Window
  BY <1>1, <1>2, <1>3, CallTyped
<1>5. /\ LimiterTyped /\ w \in Times /\ w \in Nat /\ a \in Nat /\ now \in Nat /\ now \in Times
      /\ Window \in Nat /\ MaxRequests \in Nat /\ request[r].count \in Nat
  BY <1>4, WindowTyped, TimesTyped DEF LimiterInv, LimiterTyped, Calls
<1>6. counted \in Tallies /\ admitted \in Tallies /\ denied \in SUBSET Times
  BY <1>5 DEF LimiterTyped
<1>7. Within(counted, w) \in Nat /\ Within(admitted, w) \in Nat /\ Within(counted, w)' = Within(counted, w)
  BY <1>3, <1>6, WithinNat DEF Within
<1>8. ~MayPass(Nothing, w)
  BY DEF MayPass
<1>9. /\ Cardinality(Pending(w)) \in Nat /\ Cardinality(Pending(w))' \in Nat
      /\ Cardinality(Pending(w))' = IF MayPass(request[r], w) THEN Cardinality(Pending(w)) - 1
                                    ELSE Cardinality(Pending(w))
  BY <1>3, <1>5, <1>8, PendingMoves
<1>10. Within(admitted, w)' = Within(admitted', w)
  BY DEF Within
<1>11. /\ Through(w) \in Nat /\ Through(w)' = Through(w)
       /\ admitted' = admitted \/ admitted' = [admitted EXCEPT ![a] = @ + 1]
       /\ denied' \in SUBSET Times /\ DeniedOnlyWhenFull'
  <2>1. CASE request[r].count > MaxRequests
    <3>1. admitted' = admitted /\ denied' = denied \cup {a}
      BY <1>3, <2>1 DEF Deny
    <3>2. ~MayPass(request[r], w)
      BY <1>5, <2>1 DEF MayPass
    <3>3. Through(w) \in Nat /\ Through(w)' = Through(w)
      BY <1>7, <1>9, <1>10, <3>1, <3>2 DEF Through
    <3>4. request[r].count <= Within(counted, w)
      BY <1>1, <1>2, <1>3, <1>4 DEF CallSound
    <3>5. w \in (a - Window + 1)..a
      BY <1>4, <1>5
    <3>6. FullFor(a)'
      BY <1>3, <1>4, <1>5, <1>7, <2>1, <3>4, <3>5 DEF FullFor
    <3>7. DeniedOnlyWhenFull'
      BY <1>3, <1>4, <3>1, <3>6, DeniedStay
    <3> QED
      BY <1>4, <1>6, <3>1, <3>3, <3>7
  <2>2. CASE ~(request[r].count > MaxRequests)
    <3>1. admitted' = [admitted EXCEPT ![a] = @ + 1] /\ denied' = denied
      BY <1>3, <2>2 DEF Admit
    <3>2. MayPass(request[r], w)
      BY <1>1, <1>2, <1>3, <1>5, <2>2 DEF MayPass
    <3>3. a \in Span(w)
      BY <1>4 DEF Span
    <3>4. Within(admitted', w) = Within(admitted, w) + 1
      BY <1>4, <1>6, <3>1, <3>3, WithinGrows
    <3>5. Through(w) \in Nat /\ Through(w)' = Through(w)
      BY <1>7, <1>9, <1>10, <3>2, <3>4 DEF Through
    <3>6. DeniedOnlyWhenFull'
      BY <1>3, <1>4, <3>1, DeniedStay
    <3> QED
      BY <1>6, <3>1, <3>5, <3>6
  <2> QED
    BY <2>1, <2>2
<1>12. WindowSound(w)'
  <2>1. Within(counted, w)' \in Nat /\ Within(counted, w)' >= Within(counted, w)
    BY <1>7
  <2>2. Through(w)' \in Nat /\ Through(w)' <= Through(w)
    BY <1>11
  <2>3. now' >= now
    BY <1>3, <1>5
  <2> QED
    BY <1>3, <1>4, <1>5, <2>1, <2>2, <2>3, WindowKept
<1>13. keys' \in [Times -> {Nothing} \cup Keys]
  BY <1>3, <1>5 DEF LimiterTyped
<1> QED
  BY <1>1, <1>2, <1>3, <1>11, <1>12, <1>13, CallMoves


(* The clock goes on. *)
LEMMA TickKeeps == LimiterInv /\ Tick => LimiterInv'
<1> SUFFICES ASSUME LimiterInv, Tick PROVE LimiterInv'
  OBVIOUS
<1>1. /\ LimiterTyped /\ now' = now + 1 /\ now < MaxTime
      /\ UNCHANGED <<limiter, bucket, keys, request, counted, admitted, denied, late>>
      /\ \A r \in Requests : request[r] # Nothing => now - request[r].arrived < MaxDelay
  BY DEF LimiterInv, Tick, history
<1>2. now \in Times /\ now \in Nat /\ now' \in Times /\ now' \in Nat /\ now' >= now /\ MaxDelay \in Int
  BY <1>1, LimitsAssumption DEF LimiterTyped, Times
<1>3. LimiterTyped'
  BY <1>1, <1>2 DEF LimiterTyped
<1>4. \A x : Within(admitted, x)' = Within(admitted, x) /\ Within(counted, x)' = Within(counted, x)
  BY <1>1 DEF Within
<1>5. WindowInv'
  <2> SUFFICES ASSUME limiter # "redis"
               PROVE  /\ bucket = Nothing => \A t \in Times : admitted[t] = 0 /\ counted[t] = 0
                      /\ bucket # Nothing => Windowed(bucket)'
                      /\ \A t \in Times : t > now' => admitted[t] = 0 /\ counted[t] = 0
    BY <1>1 DEF WindowInv
  <2>1. /\ bucket = Nothing => \A t \in Times : admitted[t] = 0 /\ counted[t] = 0
        /\ bucket # Nothing => Windowed(bucket)
        /\ \A t \in Times : t > now => admitted[t] = 0 /\ counted[t] = 0
    BY DEF LimiterInv, WindowInv
  <2>2. PICK b : b = bucket
    OBVIOUS
  <2>3. bucket # Nothing => Windowed(bucket)'
    BY <1>1, <1>2, <2>1, <2>2, WindowedKept
  <2>4. \A t \in Times : t > now' => admitted[t] = 0 /\ counted[t] = 0
    BY <1>1, <1>2, <2>1, TimesTyped
  <2> QED
    BY <2>1, <2>3, <2>4
<1>6. SpanQuota'
  BY <1>1, <1>4 DEF LimiterInv, SpanQuota
<1>7. DeniedOnlyWhenFull'
  BY <1>1, <1>2, DeniedStay
<1>8. RedisInv'
  <2> SUFFICES ASSUME limiter = "redis"
               PROVE  (\A r \in Requests : CallSound(r)') /\ (\A w \in Windows : WindowSound(w)')
    BY <1>1 DEF RedisInv, Windows, WindowOf
  <2>1. ASSUME NEW r \in Requests PROVE CallSound(r)'
    <3>1. CallSound(r) /\ request'[r] = request[r]
      BY <1>1 DEF LimiterInv, RedisInv
    <3>2. CASE request[r] = Nothing
      BY <3>1, <3>2 DEF CallSound
    <3>3. CASE request[r] # Nothing
      <4>1. request[r].arrived \in Nat
        BY <1>1, <3>3, TimesTyped DEF LimiterTyped, Calls
      <4>2. request[r].arrived <= now /\ now - request[r].arrived < MaxDelay
        BY <1>1, <3>1, <3>3 DEF CallSound
      <4>3. request[r].arrived <= now' /\ now' - request[r].arrived <= MaxDelay
        BY <1>1, <1>2, <4>1, <4>2
      <4>4. Within(counted, WindowOf(request[r].arrived))' = Within(counted, WindowOf(request[r].arrived))
        BY <1>1 DEF Within, Span, WindowOf
      <4> QED
        BY <3>1, <3>3, <4>3, <4>4 DEF CallSound
    <3> QED
      BY <3>2, <3>3
  <2>2. ASSUME NEW w \in Windows PROVE WindowSound(w)'
    <3>1. WindowSound(w)
      BY DEF LimiterInv, RedisInv
    <3>2. Through(w)' = Through(w)
      BY <1>1 DEF Through, Within, Pending, MayPass
    <3>3. Within(counted, w)' = Within(counted, w) /\ Within(counted, w) \in Nat
      BY <1>1, <1>4, WithinNat DEF LimiterTyped
    <3>4. Through(w) \in Nat
      BY <1>1, WithinNat, PendingFinite DEF Through, LimiterTyped
    <3>5. Through(w)' \in Nat /\ Through(w)' <= Through(w) /\ Within(counted, w)' >= Within(counted, w)
      BY <3>2, <3>3, <3>4
    <3> QED
      BY <1>1, <1>2, <3>1, <3>3, <3>5, WindowKept
  <2> QED
    BY <2>1, <2>2
<1> QED
  BY <1>3, <1>5, <1>6, <1>7, <1>8 DEF LimiterInv

LEMMA LimiterStarts == LimiterInit => LimiterInv
<1> SUFFICES ASSUME LimiterInit PROVE LimiterInv
  OBVIOUS
<1>1. /\ limiter \in Limiters /\ now = 0 /\ bucket = Nothing /\ denied = {} /\ late = {}
      /\ keys = [w \in Times |-> Nothing] /\ request = [r \in Requests |-> Nothing]
      /\ counted = [t \in Times |-> 0] /\ admitted = [t \in Times |-> 0]
  BY DEF LimiterInit
<1>2. counted \in Tallies /\ admitted \in Tallies
  BY <1>1 DEF Tallies
<1>3. LimiterTyped
  BY <1>1, <1>2, TimesTyped DEF LimiterTyped, Times
<1>4. \A x : Within(counted, x) = 0 /\ Within(admitted, x) = 0
  BY <1>1, <1>2, WithinNone
<1>5. WindowInv /\ SpanQuota /\ DeniedOnlyWhenFull
  BY <1>1, <1>4, TimesTyped DEF WindowInv, SpanQuota, DeniedOnlyWhenFull
<1>6. \A r \in Requests : CallSound(r)
  BY <1>1 DEF CallSound
<1>7. ASSUME NEW w \in Windows PROVE WindowSound(w)
  <2>1. w \in Times
    BY WindowTyped
  <2>2. Pending(w) = {}
    BY <1>1 DEF Pending, MayPass
  <2>3. Cardinality(Pending(w)) = 0
    BY <2>2, FS_EmptySet
  <2>4. Through(w) = 0 /\ CountIn(w) = 0 /\ keys[w] = Nothing
    BY <1>1, <1>4, <2>1, <2>3 DEF Through, CountIn
  <2> QED
    BY <1>1, <1>4, <2>4, TimesTyped DEF WindowSound, AtMost
<1> QED
  BY <1>3, <1>5, <1>6, <1>7 DEF LimiterInv, RedisInv

LEMMA LimiterRests == LimiterInv /\ UNCHANGED limiterVars => LimiterInv'
BY DEF LimiterInv, limiterVars, history, LimiterTyped, WindowInv, Windowed, SpanQuota, RedisInv,
       DeniedOnlyWhenFull, CallSound, WindowSound, Windows, WindowOf, AtMost, Through, CountIn,
       Pending, MayPass, Within, Span

(* Whatever the limiter, its requests and its restarts do. *)
LEMMA LimiterInvariant == LimiterSpec => []LimiterInv
<1>1. LimiterInv /\ [LimiterNext]_limiterVars => LimiterInv'
  <2> SUFFICES ASSUME LimiterInv, [LimiterNext]_limiterVars PROVE LimiterInv'
    OBVIOUS
  <2>1. CASE CheckMemory
    BY <2>1, MemoryKeeps
  <2>2. CASE CheckPostgres
    BY <2>2, PostgresKeeps
  <2>3. ASSUME NEW r \in Requests, Arrive(r) \/ Incr(r) \/ Expire(r) \/ LoseCall(r) \/ Decide(r)
        PROVE  LimiterInv'
    BY <2>3, ArriveKeeps, IncrKeeps, ExpireKeeps, LoseCallKeeps, DecideKeeps
  <2>4. CASE Restart
    BY <2>4, RestartKeeps
  <2>5. CASE Tick
    BY <2>5, TickKeeps
  <2>6. CASE UNCHANGED limiterVars
    BY <2>6, LimiterRests
  <2> QED
    BY <2>1, <2>2, <2>3, <2>4, <2>5, <2>6 DEF LimiterNext
<1> QED
  BY <1>1, LimiterStarts, PTL DEF LimiterSpec

(* No window lets more than MaxRequests through, and a window of Redis that*)
(* an INCR reached after its end no more than twice as many                *)
(* (provider rate-limit.ts:45-111, console rate-limit.ts:15-104).          *)
THEOREM QuotaPerWindow == LimiterSpec => []WindowQuota
<1>1. LimiterInv => WindowQuota
  <2> SUFFICES ASSUME LimiterInv PROVE WindowQuota
    OBVIOUS
  <2>1. /\ LimiterTyped /\ WindowInv /\ RedisInv
        /\ MaxRequests \in Nat /\ \A w : Within(admitted, w) \in Nat
    BY WithinNat, TimesTyped DEF LimiterInv, LimiterTyped
  <2>2. ASSUME limiter # "redis", bucket # Nothing
        PROVE  Within(admitted, bucket.resetAt - Window) <= MaxRequests
    BY <2>1, <2>2 DEF WindowInv, Windowed
  <2>3. ASSUME limiter = "redis", NEW w \in {WindowOf(t) : t \in Times}
        PROVE  Within(admitted, w) <= IF w \in late THEN 2 * MaxRequests ELSE MaxRequests
    <3>1. WindowSound(w)
      BY <2>1, <2>3 DEF RedisInv, Windows
    <3>2. Within(admitted, w) <= Through(w) /\ Through(w) \in Nat
      BY <2>1, PendingFinite DEF Through
    <3> QED
      BY <2>1, <3>1, <3>2 DEF WindowSound, AtMost
  <2> QED
    BY <2>2, <2>3 DEF WindowQuota
<1> QED
  BY <1>1, LimiterInvariant, PTL

(* Over any span of a window's length no more than twice MaxRequests pass  *)
(* the limiters in memory and in Postgres, wherever windows began          *)
(* (provider rate-limit.ts:45-65, console rate-limit.ts:15-104).           *)
THEOREM QuotaPerSpan == LimiterSpec => []SpanQuota
<1>1. LimiterInv => SpanQuota
  BY DEF LimiterInv
<1> QED
  BY <1>1, LimiterInvariant, PTL

(* A request is turned away only if the limit was reached within a window  *)
(* around it: denied requests that Postgres counts and keys of Redis whose *)
(* PEXPIRE was lost lock nobody out of a later window                      *)
(* (provider rate-limit.ts:45-111, console rate-limit.ts:66-104).          *)
THEOREM OnlyFullDenies == LimiterSpec => []DeniedOnlyWhenFull
<1>1. LimiterInv => DeniedOnlyWhenFull
  BY DEF LimiterInv
<1> QED
  BY <1>1, LimiterInvariant, PTL
=============================================================================
