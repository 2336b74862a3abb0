------------------------- MODULE AgentSpend_proofs -------------------------
(***************************************************************************)
(* Theorems about SessionEscrow and about AgentSpend over it, for any      *)
(* number of sessions, accounts and coins and any width of an integer: the *)
(* types, the books of a session, the running totals of its events, the    *)
(* ways its coins may leave and the sum of all coins; and, for any number  *)
(* of calls, any prices and any cap, that a call pays once at most, pays   *)
(* what it was asked, and is turned away only late.                        *)
(***************************************************************************)
EXTENDS AgentSpend, FiniteSetTheorems, WellFoundedInduction, TLAPS

(***************************************************************************)
(* Sums over finite sets.                                                  *)
(***************************************************************************)
(* Every set of naturals has a least element: induction for the data of    *)
(* this module.                                                            *)
LEMMA Least ==
  ASSUME NEW T \in SUBSET Nat, T # {}
  PROVE  \E n \in T : \A m \in T : n <= m
<1> DEFINE R == OpToRel(<, Nat)
<1>1. IsWellFoundedOn(R, Nat)
  BY NatLessThanWellFounded
<1>2. \A m, n \in Nat : m < n => <<m, n>> \in R
  <2> SUFFICES ASSUME NEW m \in Nat, NEW n \in Nat, m < n
               PROVE  <<m, n>> \in {p \in Nat \X Nat : p[1] < p[2]}
    BY DEF OpToRel
  <2> QED
    OBVIOUS
<1> HIDE DEF R
<1>3. PICK n \in T : \A m \in T : <<m, n>> \notin R
  BY <1>1, WFMin
<1>4. ASSUME NEW m \in T PROVE n <= m
  <2>1. m \in Nat /\ n \in Nat
    OBVIOUS
  <2>2. ~(m < n)
    BY <1>2, <1>3, <2>1, Zenon
  <2> QED
    BY <2>1, <2>2
<1> QED
  BY <1>4

Units(f, S) == UNION {{x} \X (1..f[x]) : x \in S}

LEMMA UnitsOne ==
  ASSUME NEW x, NEW n \in Nat
  PROVE  IsFiniteSet({x} \X (1..n)) /\ Cardinality({x} \X (1..n)) = n
<1>1. IsFiniteSet({x}) /\ Cardinality({x}) = 1
  BY FS_Singleton
<1>2. IsFiniteSet(1..n) /\ Cardinality(1..n) = n
  BY FS_Interval
<1>3. Cardinality({x} \X (1..n)) = 1 * n
  BY <1>1, <1>2, FS_Product
<1> QED
  BY <1>1, <1>2, <1>3, FS_Product

LEMMA UnitsRemove ==
  ASSUME NEW S, NEW f, NEW x \in S, f[x] \in Nat, IsFiniteSet(Units(f, S \ {x}))
  PROVE  /\ IsFiniteSet(Units(f, S))
         /\ Cardinality(Units(f, S)) = f[x] + Cardinality(Units(f, S \ {x}))
<1> DEFINE A == {x} \X (1..f[x])
           B == Units(f, S \ {x})
<1>1. Units(f, S) = A \cup B
  BY DEF Units
<1>2. A \cap B = {}
  BY DEF Units
<1>3. IsFiniteSet(A) /\ Cardinality(A) = f[x]
  BY UnitsOne
<1> HIDE DEF A, B
<1>4. IsFiniteSet(B)
  BY DEF B
<1>5. /\ IsFiniteSet(A \cup B)
      /\ Cardinality(A \cup B) = Cardinality(A) + Cardinality(B) - Cardinality(A \cap B)
  BY <1>3, <1>4, FS_Union
<1>7. Cardinality(A \cap B) = 0
  BY <1>2, FS_EmptySet
<1>6. Cardinality(A) \in Nat /\ Cardinality(B) \in Nat
  BY <1>3, <1>4, FS_CardinalityType
<1> QED
  BY <1>1, <1>3, <1>5, <1>6, <1>7 DEF B

(* The parts of a finite set, smallest first: a smallest part that lacks   *)
(* what removing an element keeps cannot be.                               *)
LEMMA SmallestPart ==
  ASSUME NEW S, IsFiniteSet(S), NEW Bad \in SUBSET (SUBSET S), Bad # {}
  PROVE  \E s \in Bad : \A x \in s : s \ {x} \notin Bad
<1> DEFINE T == {Cardinality(s) : s \in Bad}
<1>1. \A s \in SUBSET S : IsFiniteSet(s) /\ Cardinality(s) \in Nat
  BY FS_Subset, FS_CardinalityType
<1>2. T \in SUBSET Nat /\ T # {}
  BY <1>1
<1>3. PICK n \in T : \A m \in T : n <= m
  BY <1>2, Least
<1>4. PICK s \in Bad : Cardinality(s) = n
  BY <1>3
<1>5. ASSUME NEW x \in s, s \ {x} \in Bad PROVE FALSE
  <2>1. Cardinality(s \ {x}) = Cardinality(s) - 1
    BY <1>1, FS_RemoveElement
  <2>2. n <= Cardinality(s \ {x})
    BY <1>3, <1>5
  <2> QED
    BY <1>1, <1>2, <1>4, <2>1, <2>2
<1> QED
  BY <1>5

LEMMA UnitsFinite ==
  ASSUME NEW S, IsFiniteSet(S), NEW f, \A x \in S : f[x] \in Nat
  PROVE  IsFiniteSet(Units(f, S))
<1> DEFINE Bad == {s \in SUBSET S : ~IsFiniteSet(Units(f, s))}
<1>1. SUFFICES ASSUME Bad # {} PROVE FALSE
  OBVIOUS
<1>2. PICK s \in Bad : \A x \in s : s \ {x} \notin Bad
  BY <1>1, SmallestPart
<1>3. CASE s = {}
  BY <1>2, <1>3, FS_EmptySet DEF Units
<1>4. CASE s # {}
  <2>1. PICK x \in s : TRUE
    BY <1>4
  <2>2. IsFiniteSet(Units(f, s \ {x})) /\ f[x] \in Nat
    BY <1>2, <2>1
  <2> QED
    BY <1>2, <2>1, <2>2, UnitsRemove
<1> QED
  BY <1>3, <1>4

SumStep(f, g, S) ==
  g = [s \in SUBSET S |-> IF s = {} THEN 0 ELSE LET x == CHOOSE x \in s : TRUE IN f[x] + g[s \ {x}]]

LEMMA SumDef ==
  ASSUME NEW S, NEW f
  PROVE  SumFunctionOnSet(f, S) = (CHOOSE g : SumStep(f, g, S))[S]
BY DEF SumFunctionOnSet, FoldFunctionOnSet, MapThenFoldSet, SumStep

LEMMA SumExists ==
  ASSUME NEW S, IsFiniteSet(S), NEW f, \A x \in S : f[x] \in Nat
  PROVE  SumStep(f, [s \in SUBSET S |-> Cardinality(Units(f, s))], S)
<1> DEFINE g == [s \in SUBSET S |-> Cardinality(Units(f, s))]
<1>1. Cardinality(Units(f, {})) = 0
  BY FS_EmptySet DEF Units
<1>2. ASSUME NEW s \in SUBSET S, s # {}
      PROVE  g[s] = LET x == CHOOSE x \in s : TRUE IN f[x] + g[s \ {x}]
  <2> DEFINE x == CHOOSE x \in s : TRUE
  <2>1. x \in s /\ f[x] \in Nat
    BY <1>2
  <2> HIDE DEF x
  <2>3. IsFiniteSet(s \ {x})
    BY FS_Subset
  <2>4. IsFiniteSet(Units(f, s \ {x}))
    BY <2>3, UnitsFinite
  <2>2. Cardinality(Units(f, s)) = f[x] + Cardinality(Units(f, s \ {x}))
    BY <2>1, <2>4, UnitsRemove
  <2> QED
    BY <2>1, <2>2 DEF x
<1> QED
  BY <1>1, <1>2 DEF SumStep

(* A sum counts the units of its terms, in whatever order they are added.  *)
LEMMA SumIsCount ==
  ASSUME NEW S, IsFiniteSet(S), NEW f, \A x \in S : f[x] \in Nat
  PROVE  /\ SumFunctionOnSet(f, S) = Cardinality(Units(f, S))
         /\ SumFunctionOnSet(f, S) \in Nat
<1> DEFINE g == CHOOSE g : SumStep(f, g, S)
           Bad == {s \in SUBSET S : g[s] # Cardinality(Units(f, s))}
<1>1. SumStep(f, g, S)
  BY SumExists
<1> HIDE DEF g
<1>2. Cardinality(Units(f, {})) = 0
  BY FS_EmptySet DEF Units
<1>3. ASSUME NEW s \in Bad, \A x \in s : s \ {x} \notin Bad PROVE FALSE
  <2>1. CASE s = {}
    BY <1>1, <1>2, <2>1 DEF SumStep
  <2>2. CASE s # {}
    <3> DEFINE x == CHOOSE x \in s : TRUE
    <3>1. x \in s /\ f[x] \in Nat
      BY <2>2
    <3>2. g[s] = f[x] + g[s \ {x}]
      BY <1>1, <2>2 DEF SumStep
    <3> HIDE DEF x
    <3>3. g[s \ {x}] = Cardinality(Units(f, s \ {x}))
      BY <1>3, <3>1
    <3>4. IsFiniteSet(s \ {x})
      BY FS_Subset
    <3>5. IsFiniteSet(Units(f, s \ {x}))
      BY <3>4, UnitsFinite
    <3> QED
      BY <3>1, <3>2, <3>3, <3>5, UnitsRemove
  <2> QED
    BY <2>1, <2>2
<1>4. Bad = {}
  BY <1>3, SmallestPart
<1>5. g[S] = Cardinality(Units(f, S))
  BY <1>4
<1>6. SumFunctionOnSet(f, S) = g[S]
  BY SumDef DEF g
<1>7. IsFiniteSet(Units(f, S))
  BY UnitsFinite
<1> QED
  BY <1>5, <1>6, <1>7, FS_CardinalityType

LEMMA SumOfNone ==
  ASSUME NEW S, IsFiniteSet(S), NEW f, \A x \in S : f[x] = 0
  PROVE  SumFunctionOnSet(f, S) = 0
<1>1. Units(f, S) = {}
  BY DEF Units
<1> QED
  BY <1>1, SumIsCount, FS_EmptySet

(* A term of a sum can be taken out. *)
LEMMA SumRemove ==
  ASSUME NEW S, IsFiniteSet(S), NEW f, \A x \in S : f[x] \in Nat, NEW y \in S
  PROVE  /\ SumFunctionOnSet(f, S) = f[y] + SumFunctionOnSet(f, S \ {y})
         /\ SumFunctionOnSet(f, S \ {y}) \in Nat
<1>1. IsFiniteSet(S \ {y})
  BY FS_Subset
<1>2. IsFiniteSet(Units(f, S \ {y}))
  BY <1>1, UnitsFinite
<1>3. Cardinality(Units(f, S)) = f[y] + Cardinality(Units(f, S \ {y}))
  BY <1>2, UnitsRemove
<1>4. SumFunctionOnSet(f, S) = Cardinality(Units(f, S))
  BY SumIsCount
<1>5. /\ SumFunctionOnSet(f, S \ {y}) = Cardinality(Units(f, S \ {y}))
      /\ SumFunctionOnSet(f, S \ {y}) \in Nat
  BY <1>1, SumIsCount
<1> QED
  BY <1>3, <1>4, <1>5

LEMMA SumSame ==
  ASSUME NEW S, IsFiniteSet(S), NEW f, NEW g, \A x \in S : f[x] \in Nat /\ g[x] = f[x]
  PROVE  SumFunctionOnSet(g, S) = SumFunctionOnSet(f, S)
<1>1. Units(g, S) = Units(f, S)
  BY DEF Units
<1>2. SumFunctionOnSet(f, S) = Cardinality(Units(f, S))
  BY SumIsCount
<1>3. SumFunctionOnSet(g, S) = Cardinality(Units(g, S))
  BY SumIsCount
<1> QED
  BY <1>1, <1>2, <1>3

(* A sum follows the one term that changes. *)
LEMMA SumChange ==
  ASSUME NEW S, IsFiniteSet(S), NEW f, NEW g, NEW y \in S,
         \A x \in S : f[x] \in Nat /\ g[x] \in Nat,
         \A x \in S \ {y} : g[x] = f[x]
  PROVE  SumFunctionOnSet(g, S) - g[y] = SumFunctionOnSet(f, S) - f[y]
<1>1. IsFiniteSet(S \ {y})
  BY FS_Subset
<1>2. SumFunctionOnSet(g, S \ {y}) = SumFunctionOnSet(f, S \ {y})
  BY <1>1, SumSame
<1>3. /\ SumFunctionOnSet(f, S) = f[y] + SumFunctionOnSet(f, S \ {y})
      /\ SumFunctionOnSet(f, S \ {y}) \in Nat
  BY SumRemove
<1>4. SumFunctionOnSet(g, S) = g[y] + SumFunctionOnSet(g, S \ {y})
  BY SumRemove
<1> QED
  BY <1>2, <1>3, <1>4

(***************************************************************************)
(* The sessions.                                                           *)
(***************************************************************************)
SameTerms(s, t) ==
  /\ t.payer = s.payer /\ t.merchant = s.merchant /\ t.max = s.max
  /\ t.expires = s.expires /\ t.scope = s.scope

(* No step brings a session back or changes its terms. *)
Keeps(id) ==
  /\ session[id] # None => session'[id] # None
  /\ session[id] = Closed => session'[id] = Closed
  /\ Live(id) /\ session'[id] \notin {None, Closed} =>
       SameTerms(session[id], session'[id])

LEMMA LiveSession ==
  ASSUME TypeOK, NEW id \in Ids, Live(id)
  PROVE  /\ session[id] \in Sessions
         /\ session[id].balance \in Nat /\ session[id].spent \in Nat
BY DEF TypeOK, Live, Sessions

LEMMA LiveMeansSession ==
  ASSUME NEW s \in Sessions
  PROVE  s \notin {None, Closed}
BY MarksAssumption

(* What a spend, a funding and a revocation make of their session. *)
LEMMA SpendChange ==
  ASSUME TypeOK, NEW sender \in Accounts, NEW id \in Ids, NEW amount \in Nat,
         NEW challenge, NEW scope, Spend(sender, id, amount, challenge, scope)
  PROVE  /\ session[id] \in Sessions /\ session'[id] \in Sessions
         /\ session' = [session EXCEPT ![id] = session'[id]]
         /\ session'[id].balance = session[id].balance - amount
         /\ session'[id].spent = session[id].spent + amount
         /\ session'[id].revoked = session[id].revoked
         /\ SameTerms(session[id], session'[id])
<1> DEFINE s == session[id]
<1>1. /\ s \in Sessions /\ s.balance - amount \in Nat /\ s.spent + amount \in Nat
  BY LiveSession DEF Spend, MaySpend
<1>2. session' = [session EXCEPT ![id].balance = s.balance - amount,
                                 ![id].spent = s.spent + amount]
  BY DEF Spend
<1> DEFINE b == s.balance - amount
           x == s.spent + amount
           t == [s EXCEPT !.balance = b, !.spent = x]
<1>3. session'[id] = t /\ session' = [session EXCEPT ![id] = t]
  BY <1>2 DEF TypeOK
<1> HIDE DEF b, x
<1>4. b \in Nat /\ x \in Nat
  BY <1>1 DEF b, x
<1>5. /\ t \in Sessions /\ t.balance = b /\ t.spent = x
      /\ t.revoked = s.revoked /\ SameTerms(s, t)
  BY <1>1, <1>4 DEF Sessions, SameTerms
<1> QED
  BY <1>1, <1>3, <1>5 DEF b, x

LEMMA FundChange ==
  ASSUME TypeOK, NEW sender \in Accounts, NEW id \in Ids, NEW amount \in Nat,
         Fund(sender, id, amount)
  PROVE  /\ session[id] \in Sessions /\ session'[id] \in Sessions
         /\ session' = [session EXCEPT ![id] = session'[id]]
         /\ session'[id].balance = session[id].balance + amount
         /\ session'[id].spent = session[id].spent
         /\ session'[id].revoked = session[id].revoked
         /\ SameTerms(session[id], session'[id])
         /\ funded'[id] = funded[id] + amount
<1> DEFINE s == session[id]
           b == s.balance + amount
           t == [s EXCEPT !.balance = b]
<1>1. s \in Sessions /\ b \in Nat
  BY LiveSession DEF Fund
<1>2. /\ session'[id] = t /\ funded'[id] = funded[id] + amount
      /\ session' = [session EXCEPT ![id] = t]
  BY DEF Fund, TypeOK
<1> HIDE DEF b
<1>3. /\ t \in Sessions /\ t.balance = b /\ t.spent = s.spent
      /\ t.revoked = s.revoked /\ SameTerms(s, t)
  BY <1>1 DEF Sessions, SameTerms
<1> QED
  BY <1>1, <1>2, <1>3 DEF b

LEMMA RevokeChange ==
  ASSUME TypeOK, NEW sender \in Accounts, NEW id \in Ids, Revoke(sender, id)
  PROVE  /\ session[id] \in Sessions /\ session'[id] \in Sessions
         /\ session' = [session EXCEPT ![id] = session'[id]]
         /\ session'[id].balance = session[id].balance
         /\ session'[id].spent = session[id].spent
         /\ session'[id].revoked
         /\ SameTerms(session[id], session'[id])
         /\ funded'[id] = funded[id]
<1> DEFINE s == session[id]
           t == [s EXCEPT !.revoked = TRUE]
<1>1. /\ s \in Sessions /\ session'[id] = t /\ funded'[id] = funded[id]
      /\ session' = [session EXCEPT ![id] = t]
  BY LiveSession DEF Revoke, TypeOK
<1>2. /\ t \in Sessions /\ t.balance = s.balance /\ t.spent = s.spent
      /\ t.revoked /\ SameTerms(s, t)
  BY <1>1 DEF Sessions, SameTerms
<1> QED
  BY <1>1, <1>2

(* A session becomes one of the same terms. *)
LEMMA Changed ==
  ASSUME TypeOK, NEW id \in Ids, Live(id), session'[id] \in Sessions,
         SameTerms(session[id], session'[id]),
         session' = [session EXCEPT ![id] = session'[id]]
  PROVE  /\ session' \in [Ids -> Sessions \cup {None, Closed}]
         /\ \A i \in Ids : Keeps(i)
<1> PICK t \in Sessions : t = session'[id]
  OBVIOUS
<1>1. SameTerms(session[id], t) /\ session' = [session EXCEPT ![id] = t]
  OBVIOUS
<1> QED
  BY <1>1, LiveMeansSession DEF Keeps, TypeOK, Live, SameTerms

LEMMA Opened ==
  ASSUME TypeOK, NEW sender \in Accounts, NEW id \in Ids,
         NEW merchant \in Accounts, NEW max \in Limits, NEW expires \in Expiries,
         NEW scope \in Scopes, NEW amount \in Nat,
         Open(sender, id, merchant, max, expires, scope, amount)
  PROVE  TypeOK' /\ \A i \in Ids : Keeps(i)
<1> DEFINE s == [payer |-> sender, merchant |-> merchant, balance |-> amount, spent |-> 0,
                 max |-> max, expires |-> expires, scope |-> scope, revoked |-> FALSE]
<1>2. s \in Sessions
  BY DEF Sessions
<1>3. session' = [session EXCEPT ![id] = s]
  BY DEF Open
<1>4. wallet' \in [Accounts -> Nat]
  BY DEF Open, TypeOK
<1>5. TypeOK'
  BY <1>2, <1>3, <1>4 DEF Open, TypeOK
<1>6. \A i \in Ids : Keeps(i)
  <2> HIDE DEF s
  <2>1. session[id] = None /\ s \notin {None, Closed}
    BY <1>2, LiveMeansSession DEF Open
  <2> QED
    BY <1>3, <2>1, NamesAssumption DEF Keeps, TypeOK, Live, SameTerms
<1> QED
  BY <1>5, <1>6

LEMMA Funded ==
  ASSUME TypeOK, NEW sender \in Accounts, NEW id \in Ids,
         NEW amount \in Nat, Fund(sender, id, amount)
  PROVE  TypeOK' /\ \A i \in Ids : Keeps(i)
<1>1. /\ session' \in [Ids -> Sessions \cup {None, Closed}]
      /\ \A i \in Ids : Keeps(i)
  BY FundChange, Changed DEF Fund
<1>2. wallet' \in [Accounts -> Nat] /\ funded' \in [Ids -> Nat]
  BY DEF Fund, TypeOK
<1> QED
  BY <1>1, <1>2 DEF Fund, TypeOK

(* What was spent is an event of its own, of the amount it was. *)
LEMMA SpentFrom ==
  ASSUME TypeOK, NEW sender \in Accounts, NEW id \in Ids, NEW amount \in Nat,
         NEW challenge \in Challenges \cup {NoChallenge}, NEW scope \in Scopes,
         Spend(sender, id, amount, challenge, scope)
  PROVE  /\ TypeOK'
         /\ \A i \in Ids : Keeps(i)
         /\ Live(id) /\ session[id].scope = scope
         /\ now' = now
         /\ \E e \in Spends :
              /\ spends' = spends \cup {e}
              /\ e.session = id /\ e.challenge = challenge /\ e.amount = amount
              /\ e.scope = scope /\ e.merchant = session[id].merchant
<1> DEFINE s == session[id]
           e == [session |-> id, payer |-> s.payer, merchant |-> s.merchant,
                 amount |-> amount, total |-> s.spent + amount, challenge |-> challenge,
                 scope |-> scope]
<1>1. /\ Live(id) /\ s \in Sessions /\ s.scope = scope
      /\ s.spent + amount \in Nat /\ challenge \in Challenges
  BY LiveSession DEF Spend, MaySpend
<1>4. /\ session' \in [Ids -> Sessions \cup {None, Closed}]
      /\ \A i \in Ids : Keeps(i)
  BY <1>1, SpendChange, Changed
<1>5. wallet' \in [Accounts -> Nat]
  BY <1>1 DEF Spend, TypeOK, Sessions
<1>6. e \in Spends
  BY <1>1 DEF Spends, Sessions
<1>7. spends' = spends \cup {e} /\ now' = now
  BY DEF Spend
<1>8. TypeOK'
  <2> HIDE DEF e
  <2> QED
    BY <1>4, <1>5, <1>6, <1>7 DEF Spend, TypeOK
<1> QED
  BY <1>1, <1>4, <1>6, <1>7, <1>8

LEMMA Revoked ==
  ASSUME TypeOK, NEW sender \in Accounts, NEW id \in Ids, Revoke(sender, id)
  PROVE  TypeOK' /\ \A i \in Ids : Keeps(i)
<1>1. /\ session' \in [Ids -> Sessions \cup {None, Closed}]
      /\ \A i \in Ids : Keeps(i)
  BY RevokeChange, Changed DEF Revoke
<1> QED
  BY <1>1 DEF Revoke, TypeOK

LEMMA ClosedByPayer ==
  ASSUME TypeOK, NEW sender \in Accounts, NEW id \in Ids, Close(sender, id)
  PROVE  TypeOK' /\ \A i \in Ids : Keeps(i)
<1>1. session[id] \in Sessions /\ session[id].balance \in Nat /\ Live(id)
  BY LiveSession DEF Close
<1>2. wallet' \in [Accounts -> Nat]
  BY <1>1 DEF Close, TypeOK, Sessions
<1>3. TypeOK'
  BY <1>2 DEF Close, TypeOK
<1>4. \A i \in Ids : Keeps(i)
  BY <1>1, NamesAssumption DEF Close, TypeOK, Live, Keeps, SameTerms
<1> QED
  BY <1>3, <1>4

LEMMA Transferable ==
  ASSUME TypeOK, NEW sender \in Accounts, NEW id \in Ids,
         NEW to \in Accounts \cup {Frozen}, Transfer(sender, id, to)
  PROVE  TypeOK' /\ \A i \in Ids : Keeps(i)
<1>1. TypeOK'
  BY DEF Transfer, TypeOK
<1>2. \A i \in Ids : Keeps(i)
  BY DEF Transfer, Keeps, SameTerms
<1> QED
  BY <1>1, <1>2

LEMMA AmountsAreNat == Amounts \subseteq Nat
BY NumbersAssumption DEF Amounts

LEMMA Used ==
  ASSUME TypeOK, NEW sender \in Accounts, NEW id \in Ids, Use(sender, id)
  PROVE  TypeOK' /\ \A i \in Ids : Keeps(i)
<1>1. ASSUME NEW merchant \in Accounts, NEW max \in Limits, NEW expires \in Expiries,
             NEW scope \in Scopes, NEW amount \in Amounts,
             Open(sender, id, merchant, max, expires, scope, amount)
      PROVE  TypeOK' /\ \A i \in Ids : Keeps(i)
  BY <1>1, Opened, AmountsAreNat
<1>2. ASSUME NEW amount \in Amounts, Fund(sender, id, amount)
      PROVE  TypeOK' /\ \A i \in Ids : Keeps(i)
  BY <1>2, Funded, AmountsAreNat
<1>3. ASSUME NEW amount \in Amounts, NEW challenge \in Challenges \cup {NoChallenge},
             NEW scope \in Scopes, Spend(sender, id, amount, challenge, scope)
      PROVE  TypeOK' /\ \A i \in Ids : Keeps(i)
  BY <1>3, SpentFrom, AmountsAreNat
<1>4. ASSUME NEW to \in Accounts \cup {Frozen}, Transfer(sender, id, to)
      PROVE  TypeOK' /\ \A i \in Ids : Keeps(i)
  BY <1>4, Transferable
<1> QED
  BY <1>1, <1>2, <1>3, <1>4, Revoked, ClosedByPayer DEF Use

(* Types hold through every transaction (sessions.move:42-132).            *)
THEOREM TypeCorrect == Spec => []TypeOK
<1>1. Init => TypeOK
  BY NumbersAssumption DEF Init, TypeOK
<1>2. TypeOK /\ [Next]_vars => TypeOK'
  <2> SUFFICES ASSUME TypeOK, [Next]_vars PROVE TypeOK'
    OBVIOUS
  <2>1. CASE Tick \/ UNCHANGED vars
    BY <2>1 DEF Tick, vars, TypeOK
  <2> QED
    BY <2>1, Used DEF Next
<1> QED
  BY <1>1, <1>2, PTL DEF Spec

----------------------------------------------------------------------------
(* What each transaction leaves alone: the sessions of other ids, and the  *)
(* terms of this one.                                                      *)

LEMMA SessionChange ==
  ASSUME TypeOK, NEW sender \in Accounts, NEW id \in Ids, Use(sender, id),
         NEW other \in Ids
  PROVE  /\ other # id => session'[other] = session[other] /\ funded'[other] = funded[other]
BY DEF Use, Open, Fund, Spend, Revoke, Close, Transfer, TypeOK

LEMMA BooksStep ==
  TypeOK /\ TypeOK' /\ FundedIsBalancePlusSpent /\ [Next]_vars => FundedIsBalancePlusSpent'
<1> SUFFICES ASSUME TypeOK, TypeOK', FundedIsBalancePlusSpent, [Next]_vars,
                    NEW id \in Ids, Live(id)'
             PROVE  /\ funded'[id] = session'[id].balance + session'[id].spent
                    /\ session'[id].spent <= MaxU64
  BY DEF FundedIsBalancePlusSpent
<1>1. CASE session'[id] = session[id] /\ funded'[id] = funded[id]
  BY <1>1 DEF FundedIsBalancePlusSpent, Live
<1>2. ASSUME NEW sender \in Accounts, Use(sender, id)
      PROVE  /\ funded'[id] = session'[id].balance + session'[id].spent
             /\ session'[id].spent <= MaxU64
  <2>1. ASSUME NEW merchant \in Accounts, NEW max \in Limits, NEW expires \in Expiries,
               NEW scope \in Scopes, NEW amount \in Amounts,
               Open(sender, id, merchant, max, expires, scope, amount)
        PROVE  /\ funded'[id] = session'[id].balance + session'[id].spent
               /\ session'[id].spent <= MaxU64
    BY <2>1, NumbersAssumption DEF Open, TypeOK, Amounts
  <2>2. ASSUME NEW amount \in Amounts, Fund(sender, id, amount)
        PROVE  /\ funded'[id] = session'[id].balance + session'[id].spent
               /\ session'[id].spent <= MaxU64
    <3>1. /\ funded[id] = session[id].balance + session[id].spent
          /\ session[id].spent <= MaxU64
      BY <2>2 DEF Fund, FundedIsBalancePlusSpent
    <3>2. /\ session[id].balance \in Nat /\ session[id].spent \in Nat
          /\ funded[id] \in Nat /\ amount \in Nat
      BY <2>2, FundChange, NumbersAssumption DEF Sessions, Amounts, TypeOK
    <3> QED
      BY <2>2, <3>1, <3>2, FundChange
  <2>3. ASSUME NEW amount \in Amounts, NEW challenge, NEW scope,
               Spend(sender, id, amount, challenge, scope)
        PROVE  /\ funded'[id] = session'[id].balance + session'[id].spent
               /\ session'[id].spent <= MaxU64
    <3>1. /\ funded[id] = session[id].balance + session[id].spent
          /\ funded' = funded
          /\ session[id].spent + amount <= MaxU64
      BY <2>3 DEF Spend, MaySpend, FundedIsBalancePlusSpent
    <3>2. /\ session[id].balance \in Nat /\ session[id].spent \in Nat
          /\ funded[id] \in Nat /\ amount \in Nat
      BY <2>3, SpendChange, NumbersAssumption DEF Sessions, Amounts, TypeOK
    <3> QED
      BY <2>3, <3>1, <3>2, SpendChange
  <2>4. CASE Revoke(sender, id)
    BY <2>4, RevokeChange DEF Revoke, FundedIsBalancePlusSpent
  <2>5. CASE Close(sender, id)
    BY <2>5 DEF Close, Live, TypeOK
  <2>6. ASSUME NEW to, Transfer(sender, id, to)
        PROVE  session'[id] = session[id] /\ funded'[id] = funded[id]
    BY <2>6 DEF Transfer
  <2> QED
    BY <1>1, <1>2, <2>1, <2>2, <2>3, <2>4, <2>5, <2>6 DEF Use
<1> QED
  BY <1>1, <1>2, SessionChange DEF Next, Tick, vars

LEMMA BooksInit == Init => FundedIsBalancePlusSpent
BY DEF Init, FundedIsBalancePlusSpent, Live

(* The books of a session (sessions.move:66-101).                          *)
THEOREM BooksBalance == Spec => []FundedIsBalancePlusSpent
BY BooksInit, BooksStep, TypeCorrect, PTL DEF Spec

----------------------------------------------------------------------------
(* The running totals.  An event never tells more than its session spent,  *)
(* and there is none before the session is opened.                         *)

TotalsInv ==
  /\ EventTotalsDisjoint
  /\ \A e \in spends : session[e.session] # None

LEMMA TotalsStep == TypeOK /\ TypeOK' /\ TotalsInv /\ [Next]_vars => TotalsInv'
<1> SUFFICES ASSUME TypeOK, TypeOK', TotalsInv, [Next]_vars PROVE TotalsInv'
  OBVIOUS
<1>1. ASSUME UNCHANGED spends,
             \A e \in spends :
               /\ session'[e.session] # None
               /\ Live(e.session)' => /\ Live(e.session)
                                      /\ session'[e.session].spent = session[e.session].spent
      PROVE  TotalsInv'
  BY <1>1 DEF TotalsInv, EventTotalsDisjoint
<1>2. \A e \in spends : e.session \in Ids
  BY DEF TypeOK, Spends
<1>3. ASSUME NEW sender \in Accounts, NEW id \in Ids, Use(sender, id) PROVE TotalsInv'
  <2>1. ASSUME NEW merchant \in Accounts, NEW max \in Limits, NEW expires \in Expiries,
               NEW scope \in Scopes, NEW amount \in Amounts,
               Open(sender, id, merchant, max, expires, scope, amount)
        PROVE  TotalsInv'
    <3>1. \A e \in spends : session'[e.session] = session[e.session]
      BY <1>2, <2>1, <1>3, SessionChange DEF Open, TotalsInv
    <3> QED
      BY <1>1, <2>1, <3>1 DEF Open, Live, TotalsInv
  <2>2. ASSUME NEW amount \in Amounts, Fund(sender, id, amount) PROVE TotalsInv'
    <3>1. session[id] \in Sessions /\ session'[id].spent = session[id].spent
          /\ session'[id] \in Sessions
      BY <2>2, FundChange, AmountsAreNat
    <3> QED
      BY <1>1, <1>2, <1>3, <2>2, <3>1, SessionChange, LiveMeansSession DEF Fund, Live, TotalsInv
  <2>3. ASSUME NEW amount \in Amounts, NEW challenge \in Challenges \cup {NoChallenge},
               NEW scope \in Scopes, Spend(sender, id, amount, challenge, scope)
        PROVE  TotalsInv'
    <3> DEFINE s == session[id]
               new == [session |-> id, payer |-> s.payer, merchant |-> s.merchant,
                       amount |-> amount, total |-> s.spent + amount,
                       challenge |-> challenge, scope |-> scope]
    <3>1. /\ s \in Sessions /\ s.spent \in Nat /\ amount \in Nat
          /\ spends' = spends \cup {new} /\ Live(id)
      BY <2>3, LiveSession DEF Spend, Amounts
    <3>2. /\ session'[id].spent = s.spent + amount
          /\ session'[id] \in Sessions
      BY <2>3, SpendChange, AmountsAreNat
    <3>3. \A e \in spends : e.total \in Nat /\ e.amount \in Nat
      BY DEF TypeOK, Spends
    <3>4. \A e \in spends : e.session = id => e.total <= s.spent
      BY <3>1 DEF TotalsInv, EventTotalsDisjoint
    <3>5. new.session = id /\ new.amount = amount /\ new.total = s.spent + amount
      OBVIOUS
    <3> HIDE DEF new
    <3>6. \A e \in spends' : session'[e.session] # None
      BY <1>2, <1>3, <3>1, <3>2, <3>5, SessionChange, LiveMeansSession DEF TotalsInv
    <3>7. \A e \in spends' : Live(e.session)' => e.total <= session'[e.session].spent
      <4>1. ASSUME NEW e \in spends, e.session = id PROVE e.total <= session'[id].spent
        BY <3>1, <3>2, <3>3, <3>4, <4>1
      <4>2. ASSUME NEW e \in spends, e.session # id, Live(e.session)'
            PROVE  e.total <= session'[e.session].spent
        BY <1>2, <1>3, <4>2, SessionChange DEF TotalsInv, EventTotalsDisjoint, Live
      <4>3. new.total <= session'[id].spent
        BY <3>1, <3>2, <3>5
      <4> QED
        BY <3>1, <3>5, <4>1, <4>2, <4>3
    <3>8. \A e \in spends : e.session = id => e.total <= new.total - new.amount
      BY <3>1, <3>3, <3>4, <3>5
    <3>9. \A e, f \in spends' : e.session = f.session /\ e # f =>
            e.total <= f.total - f.amount \/ f.total <= e.total - e.amount
      BY <3>1, <3>5, <3>8 DEF TotalsInv, EventTotalsDisjoint
    <3> QED
      BY <3>6, <3>7, <3>9 DEF TotalsInv, EventTotalsDisjoint
  <2>4. CASE Revoke(sender, id)
    <3>1. session[id] \in Sessions /\ session'[id].spent = session[id].spent
          /\ session'[id] \in Sessions
      BY <2>4, RevokeChange
    <3> QED
      BY <1>1, <1>2, <1>3, <2>4, <3>1, SessionChange, LiveMeansSession DEF Revoke, Live, TotalsInv
  <2>5. CASE Close(sender, id)
    <3>1. session'[id] = Closed
      BY <2>5 DEF Close, TypeOK
    <3> QED
      BY <1>1, <1>2, <1>3, <2>5, <3>1, SessionChange, NamesAssumption DEF Close, Live, TotalsInv
  <2>6. ASSUME NEW to, Transfer(sender, id, to) PROVE TotalsInv'
    BY <1>1, <2>6 DEF Transfer, Live, TotalsInv
  <2> QED
    BY <1>3, <2>1, <2>2, <2>3, <2>4, <2>5, <2>6 DEF Use
<1>4. CASE Tick \/ UNCHANGED vars
  BY <1>1, <1>4 DEF Tick, vars, Live, TotalsInv
<1> QED
  BY <1>3, <1>4 DEF Next

LEMMA TotalsInit == Init => TotalsInv
BY DEF Init, TotalsInv, EventTotalsDisjoint

LEMMA TotalsInvariant == Spec => [](TypeOK /\ TotalsInv)
BY TotalsInit, TotalsStep, TypeCorrect, PTL DEF Spec

(* Events of one session tell disjoint spans of its running total, so that *)
(* an index of events can be summed and ordered by it                      *)
(* (sessions.move:90-100).                                                 *)
THEOREM TotalsDisjoint == Spec => []EventTotalsDisjoint
BY TotalsInvariant, PTL DEF TotalsInv

----------------------------------------------------------------------------
(* The terms. *)
LEMMA SpendWithinTerms ==
  ASSUME TypeOK, TotalsInv, NEW sender \in Accounts, NEW id \in Ids,
         NEW amount \in Amounts, NEW challenge, NEW scope,
         Spend(sender, id, amount, challenge, scope)
  PROVE  LeavesByTheTerms(id)
<1> DEFINE s == session[id]
           t == session'[id]
           new == [session |-> id, payer |-> s.payer, merchant |-> s.merchant,
                   amount |-> amount, total |-> s.spent + amount,
                   challenge |-> challenge, scope |-> scope]
<1>1. /\ s \in Sessions /\ s.balance \in Nat /\ s.spent \in Nat /\ amount \in Nat
      /\ Live(id)
  BY LiveSession DEF Spend, Amounts
<1>3. /\ t.payer = s.payer /\ t.merchant = s.merchant /\ t.scope = s.scope
      /\ t.revoked = s.revoked /\ t.balance = s.balance - amount
      /\ t.spent = s.spent + amount
  BY SpendChange, AmountsAreNat DEF SameTerms
<1>4. t \in Sessions
  BY SpendChange, AmountsAreNat
<1>5. /\ ~s.revoked /\ now < s.expires /\ amount <= s.max
      /\ wallet' = [wallet EXCEPT ![s.merchant] = @ + amount]
      /\ spends' = spends \cup {new}
  BY DEF Spend, MaySpend
<1>6. ASSUME t.balance < s.balance PROVE new \notin spends
  BY <1>1, <1>3, <1>6 DEF TotalsInv, EventTotalsDisjoint
<1>7. s.balance - t.balance = amount
  BY <1>1, <1>3
<1> HIDE DEF new
<1>8. new.session = id /\ new.amount = amount /\ new.total = s.spent + amount
  BY DEF new
<1>9. t.balance < s.balance =>
        \E e \in spends' \ spends : e.session = id /\ e.amount = amount /\ e.total = t.spent
  BY <1>3, <1>5, <1>6, <1>8
<1>10. t \notin {None, Closed}
  BY <1>4, LiveMeansSession
<1> QED
  BY <1>3, <1>5, <1>7, <1>9, <1>10 DEF LeavesByTheTerms

LEMMA UseWithinTerms ==
  ASSUME TypeOK, TotalsInv, NEW sender \in Accounts, NEW id \in Ids, Use(sender, id), Live(id)
  PROVE  LeavesByTheTerms(id)
<1>1. session[id] \in Sessions
  BY LiveSession
<1>2. ASSUME NEW amount \in Amounts, Fund(sender, id, amount) PROVE LeavesByTheTerms(id)
  <2>1. session'[id] \in Sessions /\ ~(session'[id].balance < session[id].balance)
    BY <1>1, <1>2, FundChange DEF Sessions, Amounts
  <2> QED
    BY <1>2, <2>1, FundChange, AmountsAreNat, LiveMeansSession DEF LeavesByTheTerms, SameTerms
<1>3. CASE Revoke(sender, id)
  <2>1. session'[id] \in Sessions /\ ~(session'[id].balance < session[id].balance)
    BY <1>1, <1>3, RevokeChange DEF Sessions
  <2> QED
    BY <1>3, <2>1, RevokeChange, LiveMeansSession DEF LeavesByTheTerms, SameTerms
<1>4. CASE Close(sender, id)
  BY <1>4 DEF Close, LeavesByTheTerms, TypeOK
<1>5. ASSUME NEW to, Transfer(sender, id, to) PROVE LeavesByTheTerms(id)
  BY <1>1, <1>5, LiveMeansSession DEF Transfer, LeavesByTheTerms, Sessions
<1>6. ASSUME NEW amount \in Amounts, NEW challenge, NEW scope,
             Spend(sender, id, amount, challenge, scope)
      PROVE  LeavesByTheTerms(id)
  BY <1>6, SpendWithinTerms
<1> QED
  BY <1>2, <1>3, <1>4, <1>5, <1>6 DEF Use, Open, Live

LEMMA OthersWithinTerms ==
  ASSUME TypeOK, NEW id \in Ids, Live(id), session'[id] = session[id]
  PROVE  LeavesByTheTerms(id)
BY LiveSession, LiveMeansSession DEF LeavesByTheTerms, Sessions

LEMMA TermsStep ==
  ASSUME TypeOK, TotalsInv, Next, NEW id \in Ids, Live(id)
  PROVE  LeavesByTheTerms(id)
<1>1. ASSUME NEW sender \in Accounts, NEW other \in Ids, Use(sender, other)
      PROVE  LeavesByTheTerms(id)
  BY <1>1, UseWithinTerms, SessionChange, OthersWithinTerms
<1>2. CASE Tick
  BY <1>2, OthersWithinTerms DEF Tick
<1> QED
  BY <1>1, <1>2 DEF Next

(* The coins of a session leave it by its terms only, in every transaction *)
(* anybody may send (sessions.move:70-132).                                *)
THEOREM Terms == Spec => TermsRespected
<1>1. TypeOK /\ TotalsInv /\ [Next]_vars
        => [\A id \in Ids : Live(id) => LeavesByTheTerms(id)]_vars
  BY TermsStep
<1> QED
  BY <1>1, TotalsInvariant, PTL DEF Spec, TermsRespected

----------------------------------------------------------------------------
(* The coins. *)

LEMMA EscrowedTyped ==
  ASSUME TypeOK
  PROVE  \A id \in Ids : Escrowed[id] \in Nat
BY LiveSession DEF Escrowed

(* Coins that an account gives go into a session, and the other way round. *)
LEMMA CoinsMove ==
  ASSUME TypeOK, TypeOK', CoinsConserved, NEW a \in Accounts, NEW id \in Ids, NEW d \in Int,
         wallet'[a] = wallet[a] - d,
         \A b \in Accounts \ {a} : wallet'[b] = wallet[b],
         Escrowed'[id] = Escrowed[id] + d,
         \A i \in Ids \ {id} : Escrowed'[i] = Escrowed[i]
  PROVE  CoinsConserved'
<1>1. /\ \A b \in Accounts : wallet[b] \in Nat /\ wallet'[b] \in Nat
      /\ \A i \in Ids : Escrowed[i] \in Nat /\ Escrowed'[i] \in Nat
  <2>1. \A i \in Ids : Escrowed[i] \in Nat
    BY EscrowedTyped
  <2>2. \A i \in Ids : Escrowed'[i] \in Nat
    BY LiveSession DEF Escrowed, TypeOK, Live, Sessions
  <2> QED
    BY <2>1, <2>2 DEF TypeOK
<1>2. SumFunctionOnSet(wallet', Accounts) - wallet'[a]
        = SumFunctionOnSet(wallet, Accounts) - wallet[a]
  BY <1>1, SumChange, FiniteAssumption
<1>3. SumFunctionOnSet(Escrowed', Ids) - Escrowed'[id]
        = SumFunctionOnSet(Escrowed, Ids) - Escrowed[id]
  BY <1>1, SumChange, FiniteAssumption
<1>4. /\ SumFunctionOnSet(wallet, Accounts) \in Nat
      /\ SumFunctionOnSet(Escrowed, Ids) \in Nat
  BY <1>1, SumIsCount, FiniteAssumption
<1>5. /\ SumFunctionOnSet(wallet', Accounts) \in Nat
      /\ SumFunctionOnSet(Escrowed', Ids) \in Nat
  BY <1>1, SumIsCount, FiniteAssumption
<1> QED
  BY <1>1, <1>2, <1>3, <1>4, <1>5 DEF CoinsConserved

(* What an action on a session makes of what the others escrow: nothing.   *)
LEMMA OthersEscrow ==
  ASSUME TypeOK, NEW sender \in Accounts, NEW id \in Ids, Use(sender, id)
  PROVE  \A i \in Ids \ {id} : Escrowed'[i] = Escrowed[i]
BY SessionChange DEF Escrowed, Live

LEMMA CoinsOfUse ==
  ASSUME TypeOK, TypeOK', CoinsConserved, NEW sender \in Accounts, NEW id \in Ids,
         Use(sender, id)
  PROVE  CoinsConserved'
<1>1. \A i \in Ids \ {id} : Escrowed'[i] = Escrowed[i]
  BY OthersEscrow
<1>2. ASSUME NEW merchant \in Accounts, NEW max \in Limits, NEW expires \in Expiries,
             NEW scope \in Scopes, NEW amount \in Amounts,
             Open(sender, id, merchant, max, expires, scope, amount)
      PROVE  CoinsConserved'
  <2> PICK s : s = [payer |-> sender, merchant |-> merchant, balance |-> amount, spent |-> 0,
                    max |-> max, expires |-> expires, scope |-> scope, revoked |-> FALSE]
    OBVIOUS
  <2>1. session[id] = None /\ session'[id] = s
    BY <1>2 DEF Open, TypeOK
  <2>2. s \in Sessions /\ s.balance = amount /\ amount \in Nat
    BY AmountsAreNat DEF Sessions
  <2>3. Escrowed[id] = 0 /\ Escrowed'[id] = amount
    BY <2>1, <2>2, LiveMeansSession DEF Escrowed, Live
  <2>4. /\ wallet'[sender] = wallet[sender] - amount
        /\ \A b \in Accounts \ {sender} : wallet'[b] = wallet[b]
    BY <1>2 DEF Open, TypeOK
  <2> QED
    BY <1>1, <2>2, <2>3, <2>4, CoinsMove
<1>3. ASSUME NEW amount \in Amounts, Fund(sender, id, amount) PROVE CoinsConserved'
  <2>1. /\ Live(id) /\ session'[id] \in Sessions /\ amount \in Nat
        /\ session'[id].balance = session[id].balance + amount
    BY <1>3, FundChange, AmountsAreNat DEF Fund
  <2>2. Escrowed'[id] = Escrowed[id] + amount
    BY <2>1, LiveMeansSession DEF Escrowed, Live
  <2>3. /\ wallet'[sender] = wallet[sender] - amount
        /\ \A b \in Accounts \ {sender} : wallet'[b] = wallet[b]
    BY <1>3 DEF Fund, TypeOK
  <2> QED
    BY <1>1, <2>1, <2>2, <2>3, CoinsMove
<1>4. ASSUME NEW amount \in Amounts, NEW challenge \in Challenges \cup {NoChallenge},
             NEW scope \in Scopes, Spend(sender, id, amount, challenge, scope)
      PROVE  CoinsConserved'
  <2> DEFINE merchant == session[id].merchant
  <2>1. /\ Live(id) /\ session[id] \in Sessions /\ session'[id] \in Sessions
        /\ amount \in Nat /\ session'[id].balance = session[id].balance - amount
    BY <1>4, SpendChange, AmountsAreNat DEF Spend
  <2>2. merchant \in Accounts /\ session[id].balance \in Nat
    BY <2>1 DEF Sessions
  <2>3. wallet' = [wallet EXCEPT ![merchant] = @ + amount]
    BY <1>4 DEF Spend
  <2> HIDE DEF merchant
  <2>4. /\ wallet'[merchant] = wallet[merchant] - (-amount)
        /\ \A b \in Accounts \ {merchant} : wallet'[b] = wallet[b]
    BY <2>1, <2>2, <2>3 DEF TypeOK
  <2>5. Escrowed'[id] = Escrowed[id] + (-amount)
    BY <2>1, <2>2, LiveMeansSession DEF Escrowed, Live
  <2>6. -amount \in Int
    BY <2>1
  <2> QED
    BY <1>1, <2>2, <2>4, <2>5, <2>6, CoinsMove
<1>5. CASE Revoke(sender, id)
  <2>1. /\ Live(id) /\ session[id] \in Sessions /\ session'[id] \in Sessions
        /\ session'[id].balance = session[id].balance
    BY <1>5, RevokeChange DEF Revoke
  <2>2. Escrowed[id] \in Nat /\ Escrowed'[id] = Escrowed[id]
    BY <2>1, LiveMeansSession DEF Escrowed, Live, Sessions
  <2>3. wallet[sender] \in Nat /\ wallet' = wallet
    BY <1>5 DEF Revoke, TypeOK
  <2> QED
    BY <1>1, <2>2, <2>3, CoinsMove
<1>6. CASE Close(sender, id)
  <2> DEFINE balance == session[id].balance
  <2>1. /\ Live(id) /\ session[id] \in Sessions /\ session[id].payer = sender
        /\ balance \in Nat
    BY <1>6, LiveSession DEF Close
  <2>2. wallet' = [wallet EXCEPT ![sender] = @ + balance] /\ session'[id] = Closed
    BY <1>6, <2>1 DEF Close, TypeOK
  <2>3. Escrowed[id] = balance /\ Escrowed'[id] = 0
    BY <2>1, <2>2 DEF Escrowed, Live
  <2> HIDE DEF balance
  <2>4. /\ wallet'[sender] = wallet[sender] - (-balance)
        /\ \A b \in Accounts \ {sender} : wallet'[b] = wallet[b]
    BY <2>1, <2>2 DEF TypeOK
  <2>5. -balance \in Int /\ Escrowed'[id] = Escrowed[id] + (-balance)
    BY <2>1, <2>3
  <2> QED
    BY <1>1, <2>4, <2>5, CoinsMove
<1>7. ASSUME NEW to, Transfer(sender, id, to) PROVE CoinsConserved'
  BY <1>7 DEF Transfer, CoinsConserved, Escrowed, Live
<1> QED
  BY <1>2, <1>3, <1>4, <1>5, <1>6, <1>7 DEF Use

LEMMA CoinsStep ==
  TypeOK /\ TypeOK' /\ CoinsConserved /\ [Next]_vars => CoinsConserved'
<1> SUFFICES ASSUME TypeOK, TypeOK', CoinsConserved, [Next]_vars PROVE CoinsConserved'
  OBVIOUS
<1>1. CASE Tick \/ UNCHANGED vars
  BY <1>1 DEF Tick, vars, CoinsConserved, Escrowed, Live
<1> QED
  BY <1>1, CoinsOfUse DEF Next

LEMMA CoinsInit == Init => CoinsConserved
<1> SUFFICES ASSUME Init PROVE CoinsConserved
  OBVIOUS
<1>1. PICK first \in Accounts : wallet = [a \in Accounts |-> IF a = first THEN Supply ELSE 0]
  BY DEF Init
<1>2. \A id \in Ids : Escrowed[id] = 0
  BY DEF Init, Escrowed, Live
<1>3. SumFunctionOnSet(Escrowed, Ids) = 0
  BY <1>2, SumOfNone, FiniteAssumption
<1>4. IsFiniteSet(Accounts \ {first})
  BY FiniteAssumption, FS_Subset
<1>5. SumFunctionOnSet(wallet, Accounts \ {first}) = 0
  BY <1>1, <1>4, SumOfNone
<1>6. SumFunctionOnSet(wallet, Accounts) = wallet[first] + SumFunctionOnSet(wallet, Accounts \ {first})
  BY <1>1, SumRemove, FiniteAssumption, NumbersAssumption
<1> QED
  BY <1>1, <1>3, <1>5, <1>6, NumbersAssumption DEF CoinsConserved

(* Coins are neither made nor lost by any transaction of the package:      *)
(* whatever leaves a wallet is in a session or in another wallet, and the  *)
(* balance of a closed session went back (sessions.move:42-132).           *)
THEOREM Conservation == Spec => []CoinsConserved
BY CoinsInit, CoinsStep, TypeCorrect, PTL DEF Spec

(***************************************************************************)
(* The calls.                                                              *)
(***************************************************************************)
SpendsOf(k)    == {e \in spends : e.challenge = k}
TransfersOf(k) == {t \in transfers : t.call = k}

Unpaid(k) == SpendsOf(k) = {} /\ TransfersOf(k) = {}

(* The payments of a call are one, or none. *)
AtMostOne(k) ==
  /\ \A e, f \in SpendsOf(k) : e = f
  /\ \A t, u \in TransfersOf(k) : t = u
  /\ SpendsOf(k) = {} \/ TransfersOf(k) = {}

(* The session a call is about to spend from is the one it chose, or gone. *)
Chosen(k) ==
  LET id == found[k].id
      s == found[k].was
  IN
  /\ found[k] # Nothing
  /\ s.merchant = asked[k].payee /\ asked[k].price <= s.max
  /\ session[id] # None
  /\ Live(id) => SameTerms(s, session[id])

SpentAsAsked(k, e) ==
  /\ found[k] # Nothing
  /\ e.session = found[k].id
  /\ e.amount = asked[k].price /\ e.scope = asked[k].scope
  /\ e.merchant = asked[k].payee
  /\ e.amount <= found[k].was.max

PaidAsAsked(k, t) ==
  /\ t.amount = asked[k].price /\ t.payee = asked[k].payee
  /\ t.amount <= Cap /\ k \notin SessionOnly

LateOrOwn(k) ==
  \/ asked[k].expires <= now
  \/ asked[k].payee = Owner /\ \E t \in transfers : t.call = k

CallInv(k) ==
  /\ pc[k] # "idle" => asked[k] # Nothing
  /\ pc[k] \in {"idle", "find", "spend", "one-shot"} => Unpaid(k)
  /\ pc[k] \in {"retry", "served"} => ~Unpaid(k)
  /\ AtMostOne(k)
  /\ pc[k] = "one-shot" => asked[k].price <= Cap /\ k \notin SessionOnly
  /\ pc[k] = "spend" => Chosen(k)
  /\ \A e \in SpendsOf(k) : SpentAsAsked(k, e)
  /\ \A t \in TransfersOf(k) : PaidAsAsked(k, t)
  /\ pc[k] = "rejected" => LateOrOwn(k)

IInv == AgentTypeOK /\ \A k \in Calls : CallInv(k)

(* Whatever others do to the sessions: types hold, terms stay, nothing is  *)
(* spent and no time passes.                                               *)
LEMMA Managed ==
  ASSUME TypeOK, NEW sender \in Accounts, NEW id \in Ids, Manage(sender, id)
  PROVE  /\ TypeOK' /\ \A i \in Ids : Keeps(i)
         /\ spends' = spends /\ now' = now
<1>1. Use(sender, id)
  BY DEF Manage, Use
<1>2. spends' = spends /\ now' = now
  BY DEF Manage, Open, Fund, Revoke, Close, Transfer
<1> QED
  BY <1>1, <1>2, Used

CallsTyped ==
  /\ transfers \subseteq Transfers
  /\ pc \in [Calls -> {"idle"} \cup Paying \cup Answered]
  /\ asked \in [Calls -> Asks \cup {Nothing}]
  /\ found \in [Calls -> Found \cup {Nothing}]

LEMMA Parts == AgentTypeOK <=> TypeOK /\ CallsTyped
BY DEF AgentTypeOK, CallsTyped

(* What the invariant says of a call stays true while others act. *)
Stays(k) ==
  /\ pc'[k] = pc[k] /\ asked'[k] = asked[k] /\ found'[k] = found[k]
  /\ SpendsOf(k)' = SpendsOf(k) /\ TransfersOf(k)' = TransfersOf(k)

LEMMA Untouched ==
  ASSUME AgentTypeOK, AgentTypeOK', NEW k \in Calls, CallInv(k), Stays(k), now <= now',
         \A id \in Ids : Keeps(id)
  PROVE  CallInv(k)'
<1>1. (Unpaid(k) <=> Unpaid(k)') /\ (AtMostOne(k) <=> AtMostOne(k)')
  BY DEF Stays, Unpaid, AtMostOne
<1>2. pc'[k] = "spend" => Chosen(k)'
  <2> SUFFICES ASSUME pc'[k] = "spend" PROVE Chosen(k)'
    OBVIOUS
  <2>1. Chosen(k)
    BY DEF CallInv, Stays
  <2>2. found[k] \in Found /\ found[k].id \in Ids
    BY <2>1 DEF Chosen, AgentTypeOK, Found
  <2>3. Keeps(found[k].id)
    BY <2>2
  <2> QED
    BY <2>1, <2>3 DEF Chosen, Stays, Keeps, Live, SameTerms
<1>3. \A e \in SpendsOf(k)' : SpentAsAsked(k, e)'
  BY DEF CallInv, Stays, SpentAsAsked
<1>4. \A t \in TransfersOf(k)' : PaidAsAsked(k, t)'
  BY DEF CallInv, Stays, PaidAsAsked
<1>5. pc'[k] = "rejected" => LateOrOwn(k)'
  <2> SUFFICES ASSUME pc'[k] = "rejected" PROVE LateOrOwn(k)'
    OBVIOUS
  <2>1. LateOrOwn(k) /\ asked[k] # Nothing
    BY DEF CallInv, Stays
  <2>2. asked[k].expires \in Nat /\ now \in Nat /\ now' \in Nat
    BY <2>1, AgentAssumption DEF AgentTypeOK, TypeOK, Asks
  <2>3. asked[k].expires <= now => asked'[k].expires <= now'
    BY <2>2 DEF Stays
  <2>4. (\E t \in transfers : t.call = k) => \E t \in transfers' : t.call = k
    BY DEF Stays, TransfersOf
  <2> QED
    BY <2>1, <2>3, <2>4 DEF LateOrOwn, Stays
<1> QED
  BY <1>1, <1>2, <1>3, <1>4, <1>5 DEF CallInv, Stays

(* A step of one call leaves the others alone. *)
LEMMA OthersStay ==
  ASSUME CallsTyped, NEW k \in Calls, NEW d \in Calls, d # k, Call(k)
  PROVE  Stays(d)
<1>1. ASSUME spends' = spends, transfers' = transfers
      PROVE  SpendsOf(d)' = SpendsOf(d) /\ TransfersOf(d)' = TransfersOf(d)
  BY <1>1 DEF SpendsOf, TransfersOf
<1>2. ASSUME NEW ask \in Asks, Ask(k, ask) PROVE Stays(d)
  BY <1>2, <1>1 DEF Ask, Goto, Stays, CallsTyped, vars
<1>3. CASE Select(k)
  BY <1>3, <1>1 DEF Select, Goto, Stays, CallsTyped, vars
<1>4. CASE FallBack(k)
  BY <1>4, <1>1 DEF FallBack, Goto, Stays, CallsTyped, vars
<1>5. CASE SpendFromSession(k)
  <2> DEFINE s == session[found[k].id]
             e == [session |-> found[k].id, payer |-> s.payer, merchant |-> s.merchant,
                   amount |-> asked[k].price, total |-> s.spent + asked[k].price,
                   challenge |-> k, scope |-> asked[k].scope]
  <2>1. spends' = spends \cup {e} /\ e.challenge = k
    BY <1>5 DEF SpendFromSession, Spend
  <2> HIDE DEF e
  <2>2. SpendsOf(d)' = SpendsOf(d) /\ TransfersOf(d)' = TransfersOf(d)
    BY <2>1, <1>5 DEF SpendFromSession, SpendsOf, TransfersOf
  <2> QED
    BY <2>2, <1>5 DEF SpendFromSession, Goto, Stays, CallsTyped
<1>6. CASE PayOneShot(k)
  <2>1. SpendsOf(d)' = SpendsOf(d) /\ TransfersOf(d)' = TransfersOf(d)
    BY <1>6 DEF PayOneShot, SpendsOf, TransfersOf
  <2> QED
    BY <2>1, <1>6 DEF PayOneShot, Goto, Stays, CallsTyped
<1>7. CASE Retry(k)
  BY <1>7, <1>1 DEF Retry, Goto, Stays, CallsTyped, vars
<1>8. CASE Fail(k)
  BY <1>8, <1>1 DEF Fail, Goto, Stays, CallsTyped, vars
<1> QED
  BY <1>2, <1>3, <1>4, <1>5, <1>6, <1>7, <1>8 DEF Call

LEMMA SameSessions ==
  ASSUME session' = session PROVE \A id \in Ids : Keeps(id)
BY DEF Keeps, SameTerms

(* A step that neither pays nor touches the sessions. *)
Quiet(k) ==
  /\ UNCHANGED <<vars, transfers>>
  /\ SpendsOf(k)' = SpendsOf(k) /\ TransfersOf(k)' = TransfersOf(k)
  /\ Unpaid(k)' <=> Unpaid(k)
  /\ AtMostOne(k)' <=> AtMostOne(k)

LEMMA NothingPaid ==
  ASSUME NEW k \in Calls, UNCHANGED <<vars, transfers>> PROVE Quiet(k)
BY DEF Quiet, vars, SpendsOf, TransfersOf, Unpaid, AtMostOne

LEMMA AskStep ==
  ASSUME AgentTypeOK, NEW k \in Calls, CallInv(k), NEW ask \in Asks, Ask(k, ask)
  PROVE  CallsTyped' /\ CallInv(k)'
<1>1. CallsTyped'
  BY DEF Ask, Goto, AgentTypeOK, CallsTyped, Paying, Answered
<1>2. Quiet(k) /\ Unpaid(k) /\ AtMostOne(k)
  BY NothingPaid DEF Ask, CallInv
<1>3. pc'[k] \in {"failed", "find"} /\ asked'[k] # Nothing
  BY NothingAssumption DEF Ask, Goto, AgentTypeOK
<1> QED
  BY <1>1, <1>2, <1>3 DEF CallInv, Quiet, Unpaid

LEMMA SelectStep ==
  ASSUME AgentTypeOK, NEW k \in Calls, CallInv(k), Select(k)
  PROVE  CallsTyped' /\ CallInv(k)'
<1>1. PICK id \in Usable(k) : found' = [found EXCEPT ![k] = [id |-> id, was |-> session[id]]]
  BY DEF Select
<1>2. /\ id \in Ids /\ Live(id) /\ session[id] \in Sessions
      /\ session[id].merchant = asked[k].payee /\ asked[k].price <= session[id].max
  BY LiveSession DEF Usable, AgentTypeOK
<1>3. [id |-> id, was |-> session[id]] \in Found
  BY <1>2 DEF Found
<1>4. CallsTyped'
  BY <1>1, <1>3 DEF Select, Goto, AgentTypeOK, CallsTyped, Paying
<1>5. /\ pc'[k] = "spend" /\ asked'[k] = asked[k] /\ session' = session
      /\ found'[k].id = id /\ found'[k].was = session[id] /\ found'[k] # Nothing
  BY <1>1, <1>3, NothingAssumption DEF Select, Goto, AgentTypeOK, vars
<1>6. Chosen(k)'
  BY <1>2, <1>5 DEF Chosen, Live, SameTerms
<1>7. Quiet(k) /\ Unpaid(k) /\ AtMostOne(k) /\ asked[k] # Nothing
  BY NothingPaid DEF Select, CallInv
<1> QED
  BY <1>4, <1>5, <1>6, <1>7 DEF CallInv, Quiet, Unpaid

LEMMA FallBackStep ==
  ASSUME AgentTypeOK, NEW k \in Calls, CallInv(k), FallBack(k)
  PROVE  CallsTyped' /\ CallInv(k)'
<1>1. CallsTyped'
  BY DEF FallBack, Goto, AgentTypeOK, CallsTyped, Paying, Answered
<1>2. Quiet(k) /\ Unpaid(k) /\ AtMostOne(k) /\ asked[k] # Nothing
  BY NothingPaid DEF FallBack, CallInv
<1>3. /\ asked' = asked
      /\ pc'[k] \in {"one-shot", "failed"}
      /\ pc'[k] = "one-shot" => asked[k].price <= Cap /\ k \notin SessionOnly
  BY DEF FallBack, Goto, AgentTypeOK
<1> QED
  BY <1>1, <1>2, <1>3 DEF CallInv, Quiet, Unpaid

LEMMA SpendStep ==
  ASSUME AgentTypeOK, NEW k \in Calls, CallInv(k), SpendFromSession(k)
  PROVE  /\ AgentTypeOK' /\ CallInv(k)' /\ now' = now
         /\ \A id \in Ids : Keeps(id)
<1> DEFINE id == found[k].id
           price == asked[k].price
<1>1. /\ Chosen(k) /\ asked[k] # Nothing /\ Unpaid(k)
  BY DEF SpendFromSession, CallInv
<1>2. id \in Ids /\ price \in Nat /\ asked[k] \in Asks
  BY <1>1, AgentAssumption DEF Chosen, AgentTypeOK, Found, Asks
<1>3. Spend(Owner, id, price, k, asked[k].scope)
  BY DEF SpendFromSession
<1> HIDE DEF id, price
<1>4. /\ TypeOK' /\ \A i \in Ids : Keeps(i)
      /\ Live(id) /\ now' = now
  BY <1>2, <1>3, SpentFrom, AgentAssumption, Parts DEF Calls, Asks
<1>5. PICK e \in Spends :
        /\ spends' = spends \cup {e}
        /\ e.session = id /\ e.challenge = k /\ e.amount = price
        /\ e.scope = asked[k].scope /\ e.merchant = session[id].merchant
  BY <1>2, <1>3, SpentFrom, AgentAssumption, Parts DEF Calls, Asks
<1>6. /\ CallsTyped' /\ pc'[k] = "retry"
      /\ transfers' = transfers /\ asked' = asked /\ found' = found
  BY DEF SpendFromSession, Goto, AgentTypeOK, CallsTyped, Paying
<1>7. SpendsOf(k)' = {e} /\ TransfersOf(k)' = {}
  BY <1>1, <1>5, <1>6 DEF SpendsOf, TransfersOf, Unpaid
<1>8. SpentAsAsked(k, e)'
  BY <1>1, <1>4, <1>5, <1>6 DEF Chosen, SameTerms, SpentAsAsked, id, price
<1>9. CallInv(k)'
  BY <1>1, <1>6, <1>7, <1>8 DEF CallInv, AtMostOne, Unpaid
<1> QED
  BY <1>4, <1>6, <1>9, Parts DEF AgentTypeOK, CallsTyped

LEMMA OneShotStep ==
  ASSUME AgentTypeOK, NEW k \in Calls, CallInv(k), PayOneShot(k)
  PROVE  /\ AgentTypeOK' /\ CallInv(k)' /\ now' = now
         /\ \A id \in Ids : Keeps(id)
<1>1. /\ asked[k] # Nothing /\ Unpaid(k)
      /\ asked[k].price <= Cap /\ k \notin SessionOnly
  BY DEF PayOneShot, CallInv
<1>2. asked[k] \in Asks /\ asked[k].price \in Nat
  BY <1>1, AgentAssumption DEF AgentTypeOK, Asks
<1> PICK t \in Transfers :
      t = [call |-> k, payee |-> asked[k].payee, amount |-> asked[k].price]
  BY <1>2 DEF Asks, Transfers
<1>3. wallet' \in [Accounts -> Nat]
  <2>1. \A a \in Accounts : wallet[a] \in Nat
    BY DEF AgentTypeOK, TypeOK
  <2>2. asked[k].price <= wallet[Owner] /\ wallet[Owner] \in Nat
    BY <2>1, AgentAssumption DEF PayOneShot
  <2>3. \A a \in Accounts :
          wallet[a] + (IF a = asked[k].payee THEN asked[k].price ELSE 0)
                    - (IF a = Owner THEN asked[k].price ELSE 0) \in Nat
    BY <1>2, <2>1, <2>2
  <2> QED
    BY <2>3 DEF PayOneShot
<1>4. /\ transfers' = transfers \cup {t} /\ asked' = asked /\ found' = found
      /\ pc'[k] = "retry" /\ spends' = spends /\ session' = session /\ now' = now
  BY DEF PayOneShot, Goto, AgentTypeOK
<1>5. TypeOK'
  BY <1>3 DEF PayOneShot, AgentTypeOK, TypeOK
<1>6. CallsTyped'
  BY <1>2 DEF PayOneShot, Goto, AgentTypeOK, CallsTyped, Paying
<1>7. t.call = k /\ PaidAsAsked(k, t)'
  BY <1>1, <1>4 DEF PaidAsAsked
<1>8. SpendsOf(k)' = {} /\ TransfersOf(k)' = {t}
  <2>1. SpendsOf(k)' = {}
    BY <1>1, <1>4 DEF SpendsOf, Unpaid
  <2>2. TransfersOf(k)' = {u \in transfers \cup {t} : u.call = k}
    BY <1>4 DEF TransfersOf
  <2>3. {u \in transfers : u.call = k} = {}
    BY <1>1 DEF TransfersOf, Unpaid
  <2> QED
    BY <1>7, <2>1, <2>2, <2>3
<1>9. CallInv(k)'
  <2>1. AtMostOne(k)' /\ ~Unpaid(k)'
    BY <1>8 DEF AtMostOne, Unpaid
  <2>2. /\ \A e \in SpendsOf(k)' : SpentAsAsked(k, e)'
        /\ \A u \in TransfersOf(k)' : PaidAsAsked(k, u)'
    BY <1>7, <1>8
  <2>3. pc'[k] = "retry" /\ asked'[k] # Nothing
    BY <1>1, <1>4
  <2> QED
    BY <2>1, <2>2, <2>3 DEF CallInv
<1> QED
  BY <1>4, <1>5, <1>6, <1>9, SameSessions, Parts DEF AgentTypeOK, CallsTyped

(* Whoever paid has what the verifier looks for, but for an own transfer. *)
LEMMA PaidFits ==
  ASSUME AgentTypeOK, NEW k \in Calls, CallInv(k), pc[k] = "retry", ~Fits(k)
  PROVE  asked[k].payee = Owner /\ \E t \in transfers : t.call = k
<1>1. asked[k] # Nothing /\ ~Unpaid(k) /\ asked[k].price \in Nat
  BY AgentAssumption DEF CallInv, AgentTypeOK, Asks
<1>2. SpendsOf(k) = {}
  <2> SUFFICES ASSUME NEW e \in SpendsOf(k) PROVE FALSE
    OBVIOUS
  <2>1. SpentAsAsked(k, e) /\ e \in spends /\ e.challenge = k
    BY DEF CallInv, SpendsOf
  <2>2. Spent(k, e) /\ found[k] # Nothing
    BY <1>1, <2>1 DEF SpentAsAsked, Spent
  <2> QED
    BY <2>1, <2>2 DEF Fits
<1>3. PICK t \in TransfersOf(k) : TRUE
  BY <1>1, <1>2 DEF Unpaid
<1>4. t \in transfers /\ t.call = k /\ PaidAsAsked(k, t)
  BY <1>3 DEF CallInv, TransfersOf
<1>5. asked[k].payee = Owner
  BY <1>1, <1>4 DEF PaidAsAsked, Transferred, Fits
<1> QED
  BY <1>4, <1>5

LEMMA RetryStep ==
  ASSUME AgentTypeOK, NEW k \in Calls, CallInv(k), Retry(k)
  PROVE  CallsTyped' /\ CallInv(k)'
<1>1. CallsTyped'
  BY DEF Retry, Goto, AgentTypeOK, CallsTyped, Answered
<1>2. Quiet(k) /\ ~Unpaid(k) /\ AtMostOne(k) /\ asked[k] # Nothing /\ pc[k] = "retry"
  BY NothingPaid DEF Retry, CallInv
<1>3. /\ asked' = asked /\ found' = found /\ now' = now /\ transfers' = transfers
      /\ pc'[k] \in {"served", "rejected"}
      /\ pc'[k] = "rejected" => ~(now < asked[k].expires /\ Fits(k))
  BY DEF Retry, Goto, AgentTypeOK, vars
<1>4. asked[k].expires \in Nat /\ now \in Nat
  BY <1>2, AgentAssumption DEF AgentTypeOK, TypeOK, Asks
<1>5. pc'[k] = "rejected" => LateOrOwn(k)'
  BY <1>2, <1>3, <1>4, PaidFits DEF LateOrOwn
<1>6. /\ \A e \in SpendsOf(k)' : SpentAsAsked(k, e)'
      /\ \A t \in TransfersOf(k)' : PaidAsAsked(k, t)'
  BY <1>2, <1>3 DEF CallInv, Quiet, SpentAsAsked, PaidAsAsked
<1> QED
  BY <1>1, <1>2, <1>3, <1>5, <1>6 DEF CallInv, Quiet

LEMMA FailStep ==
  ASSUME AgentTypeOK, NEW k \in Calls, CallInv(k), Fail(k)
  PROVE  CallsTyped' /\ CallInv(k)'
<1>1. CallsTyped'
  BY DEF Fail, Goto, AgentTypeOK, CallsTyped, Answered
<1>2. /\ Quiet(k) /\ AtMostOne(k) /\ asked[k] # Nothing
  BY NothingPaid DEF Fail, CallInv, Paying
<1>3. pc'[k] = "failed" /\ asked' = asked /\ found' = found
  BY DEF Fail, Goto, AgentTypeOK
<1>4. /\ \A e \in SpendsOf(k)' : SpentAsAsked(k, e)'
      /\ \A t \in TransfersOf(k)' : PaidAsAsked(k, t)'
  BY <1>2, <1>3 DEF CallInv, Quiet, SpentAsAsked, PaidAsAsked
<1> QED
  BY <1>1, <1>2, <1>3, <1>4 DEF CallInv, Quiet

----------------------------------------------------------------------------
(* The invariant. *)

LEMMA InitInv ==
  AgentInit => IInv
<1> SUFFICES ASSUME AgentInit PROVE IInv
  OBVIOUS
<1>1. TypeOK
  BY NamesAssumption, NumbersAssumption, MarksAssumption DEF AgentInit, Init, TypeOK
<1>2. CallsTyped
  BY DEF AgentInit, CallsTyped
<1>3. ASSUME NEW k \in Calls PROVE CallInv(k)
  <2>1. pc[k] = "idle" /\ SpendsOf(k) = {} /\ TransfersOf(k) = {}
    BY DEF AgentInit, Init, SpendsOf, TransfersOf
  <2> QED
    BY <2>1 DEF CallInv, Unpaid, AtMostOne
<1> QED
  BY <1>1, <1>2, <1>3, Parts DEF IInv

(* A step of a call, seen by that call and by the sessions. *)
LEMMA OwnStep ==
  ASSUME AgentTypeOK, NEW k \in Calls, CallInv(k), Call(k)
  PROVE  /\ AgentTypeOK' /\ CallInv(k)' /\ now' = now
         /\ \A id \in Ids : Keeps(id)
<1>1. ASSUME CallsTyped', UNCHANGED vars
      PROVE  AgentTypeOK' /\ now' = now /\ \A id \in Ids : Keeps(id)
  <2>1. TypeOK'
    BY <1>1 DEF AgentTypeOK, TypeOK, vars
  <2> QED
    BY <1>1, <2>1, SameSessions, Parts DEF AgentTypeOK, CallsTyped, vars
<1>2. ASSUME NEW ask \in Asks, Ask(k, ask)
      PROVE  /\ AgentTypeOK' /\ CallInv(k)' /\ now' = now
             /\ \A id \in Ids : Keeps(id)
  BY <1>1, <1>2, AskStep DEF Ask
<1>3. CASE Select(k)
  BY <1>1, <1>3, SelectStep DEF Select
<1>4. CASE FallBack(k)
  BY <1>1, <1>4, FallBackStep DEF FallBack
<1>5. CASE SpendFromSession(k)
  BY <1>5, SpendStep
<1>6. CASE PayOneShot(k)
  BY <1>6, OneShotStep
<1>7. CASE Retry(k)
  BY <1>1, <1>7, RetryStep DEF Retry
<1>8. CASE Fail(k)
  BY <1>1, <1>8, FailStep DEF Fail
<1> QED
  BY <1>2, <1>3, <1>4, <1>5, <1>6, <1>7, <1>8 DEF Call

(* A step that is no call's. *)
LEMMA ElseStep ==
  ASSUME IInv, TypeOK', UNCHANGED <<transfers, calls>>, spends' = spends,
         now <= now', \A id \in Ids : Keeps(id)
  PROVE  IInv'
<1>1. AgentTypeOK'
  BY DEF IInv, AgentTypeOK, calls
<1>2. ASSUME NEW k \in Calls PROVE CallInv(k)'
  <2>1. Stays(k)
    BY DEF Stays, SpendsOf, TransfersOf, calls
  <2> QED
    BY <1>1, <2>1, Untouched DEF IInv
<1> QED
  BY <1>1, <1>2 DEF IInv

LEMMA NextInv ==
  IInv /\ [AgentNext]_agentVars => IInv'
<1> SUFFICES ASSUME IInv, [AgentNext]_agentVars PROVE IInv'
  OBVIOUS
<1>1. AgentTypeOK /\ TypeOK /\ CallsTyped /\ now \in Nat
  BY Parts DEF IInv, TypeOK
<1>2. ASSUME NEW k \in Calls, Call(k) PROVE IInv'
  <2>1. /\ AgentTypeOK' /\ CallInv(k)' /\ now' = now
        /\ \A id \in Ids : Keeps(id)
    BY <1>1, <1>2, OwnStep DEF IInv
  <2>2. ASSUME NEW d \in Calls, d # k PROVE CallInv(d)'
    <3>1. Stays(d)
      BY <1>1, <1>2, <2>2, OthersStay
    <3> QED
      BY <1>1, <2>1, <3>1, Untouched DEF IInv
  <2> QED
    BY <2>1, <2>2 DEF IInv
<1>3. ASSUME NEW sender \in Accounts, NEW id \in Ids, Manage(sender, id),
             UNCHANGED <<transfers, calls>>
      PROVE  IInv'
  <2>1. /\ TypeOK' /\ \A i \in Ids : Keeps(i)
        /\ spends' = spends /\ now' = now
    BY <1>1, <1>3, Managed
  <2> QED
    BY <1>1, <1>3, <2>1, ElseStep
<1>4. CASE Tick /\ UNCHANGED <<transfers, calls>>
  <2>1. TypeOK' /\ now <= now' /\ spends' = spends /\ session' = session
    BY <1>1, <1>4 DEF Tick, TypeOK
  <2> QED
    BY <1>4, <2>1, SameSessions, ElseStep
<1>5. CASE UNCHANGED agentVars
  <2>1. /\ TypeOK' /\ now <= now' /\ spends' = spends /\ session' = session
        /\ UNCHANGED <<transfers, calls>>
    BY <1>1, <1>5 DEF agentVars, vars, TypeOK
  <2> QED
    BY <2>1, SameSessions, ElseStep
<1> QED
  BY <1>2, <1>3, <1>4, <1>5 DEF AgentNext

LEMMA Invariant ==
  AgentSpec => []IInv
BY InitInv, NextInv, PTL DEF AgentSpec

(* What the client and the handler read, keep and pay stays within the     *)
(* shapes they were written for, the sessions' own books included          *)
(* (packages/client/src/index.ts:62-84, packages/pay/src/index.ts:873-944, *)
(* payment_session.move).                                                  *)
THEOREM AgentTypeCorrect ==
  AgentSpec => []AgentTypeOK
BY Invariant, PTL DEF IInv

LEMMA OneAtMost ==
  ASSUME NEW S, \A e, f \in S : e = f
  PROVE  /\ S = {} => Cardinality(S) = 0
         /\ S # {} => Cardinality(S) = 1
<1>1. CASE S = {}
  BY <1>1, FS_EmptySet
<1>2. CASE S # {}
  <2>1. PICK e \in S : S = {e}
    BY <1>2
  <2> QED
    BY <2>1, FS_Singleton
<1> QED
  BY <1>1, <1>2

(* However a call ends, and whatever other calls of the owner do meanwhile,*)
(* fetch pays at most once for it, from a session or one-shot, and never   *)
(* hands back a served answer for a call that paid nothing                 *)
(* (packages/client/src/index.ts:62-84, packages/pay/src/index.ts:873-944).*)
THEOREM PaysOnce ==
  AgentSpec => []OnePaymentPerCall
<1>1. IInv => OnePaymentPerCall
  <2> SUFFICES ASSUME IInv, NEW k \in Calls
               PROVE  /\ Payments(k) <= 1
                      /\ pc[k] = "served" => Payments(k) = 1
    BY DEF OnePaymentPerCall
  <2>1. Payments(k) = Cardinality(SpendsOf(k)) + Cardinality(TransfersOf(k))
    BY DEF Payments, SpendsOf, TransfersOf
  <2>2. AtMostOne(k) /\ (pc[k] = "served" => ~Unpaid(k))
    BY DEF IInv, CallInv
  <2>3. /\ SpendsOf(k) = {} => Cardinality(SpendsOf(k)) = 0
        /\ SpendsOf(k) # {} => Cardinality(SpendsOf(k)) = 1
    BY <2>2, OneAtMost DEF AtMostOne
  <2>4. /\ TransfersOf(k) = {} => Cardinality(TransfersOf(k)) = 0
        /\ TransfersOf(k) # {} => Cardinality(TransfersOf(k)) = 1
    BY <2>2, OneAtMost DEF AtMostOne
  <2> QED
    BY <2>1, <2>2, <2>3, <2>4 DEF AtMostOne, Unpaid
<1> QED
  BY <1>1, Invariant, PTL

(* Every spend and every transfer the handler signs is for the amount, the *)
(* recipient and the scope of the challenge the call was answered, within  *)
(* the limit of the session it chose, and one-shot within the cap and not  *)
(* under --session-only (packages/pay/src/index.ts:873-944,                *)
(* packages/client/src/index.ts:252-312).                                  *)
THEOREM PaysAsAsked ==
  AgentSpec => []PaysWhatWasAsked
<1>1. IInv => PaysWhatWasAsked
  <2> SUFFICES ASSUME IInv PROVE PaysWhatWasAsked
    OBVIOUS
  <2>1. ASSUME NEW e \in spends PROVE SpentAsAsked(e.challenge, e)
    <3>1. e.challenge \in Calls
      BY DEF IInv, AgentTypeOK, TypeOK, Spends, Calls
    <3> QED
      BY <3>1 DEF IInv, CallInv, SpendsOf
  <2>2. ASSUME NEW t \in transfers PROVE PaidAsAsked(t.call, t)
    <3>1. t.call \in Calls
      BY DEF IInv, AgentTypeOK, Transfers
    <3> QED
      BY <3>1 DEF IInv, CallInv, TransfersOf
  <2> QED
    BY <2>1, <2>2 DEF PaysWhatWasAsked, SpentAsAsked, PaidAsAsked
<1> QED
  BY <1>1, Invariant, PTL

(* The choice of findUsableAgentPaymentSession, the checks of              *)
(* payment_session::spend and the match of the verifier agree: a call that *)
(* reached its retry is turned away only because its challenge expired on  *)
(* the way, or because it paid one-shot to its own address                 *)
(* (packages/pay/src/index.ts:873-944, packages/sui/src/index.ts).         *)
THEOREM LateOnly ==
  AgentSpec => []RejectedOnlyLate
<1>1. IInv => RejectedOnlyLate
  BY DEF IInv, CallInv, LateOrOwn, RejectedOnlyLate
<1> QED
  BY <1>1, Invariant, PTL

----------------------------------------------------------------------------
(* The calls are users of the package like any other: but for a one-shot   *)
(* payment, which touches no session, what they do is a step of            *)
(* SessionEscrow, and what holds of the sessions goes on to hold.          *)

LEMMA WithinSupply ==
  ASSUME TypeOK, CoinsConserved, NEW id \in Ids, Live(id)
  PROVE  session[id].balance <= Supply
<1>1. /\ \A i \in Ids : Escrowed[i] \in Nat
      /\ \A a \in Accounts : wallet[a] \in Nat
  BY EscrowedTyped DEF TypeOK
<1>2. SumFunctionOnSet(wallet, Accounts) \in Nat
  BY <1>1, SumIsCount, FiniteAssumption
<1>3. /\ SumFunctionOnSet(Escrowed, Ids) = Escrowed[id] + SumFunctionOnSet(Escrowed, Ids \ {id})
      /\ SumFunctionOnSet(Escrowed, Ids \ {id}) \in Nat
  BY <1>1, SumRemove, FiniteAssumption
<1>4. Escrowed[id] = session[id].balance
  BY DEF Escrowed
<1> QED
  BY <1>1, <1>2, <1>3, <1>4, NumbersAssumption DEF CoinsConserved

LEMMA CallUses ==
  ASSUME IInv, CoinsConserved, NEW k \in Calls, Call(k)
  PROVE  PayOneShot(k) \/ [Next]_vars
<1>1. CASE UNCHANGED vars
  BY <1>1
<1>2. CASE SpendFromSession(k)
  <2> DEFINE id == found[k].id
             price == asked[k].price
             scope == asked[k].scope
  <2>1. Chosen(k) /\ asked[k] # Nothing
    BY <1>2 DEF IInv, CallInv, SpendFromSession
  <2>2. id \in Ids /\ price \in Nat /\ scope \in Scopes
    BY <2>1, AgentAssumption DEF IInv, AgentTypeOK, Chosen, Found, Asks
  <2>3. Spend(Owner, id, price, k, scope)
    BY <1>2 DEF SpendFromSession
  <2> HIDE DEF id, price, scope
  <2>4. TypeOK /\ Live(id) /\ price <= session[id].balance
    BY <2>3 DEF IInv, AgentTypeOK, Spend, MaySpend
  <2>5. price \in Amounts
    BY <2>2, <2>4, WithinSupply, LiveSession, NumbersAssumption DEF Amounts
  <2>6. Use(Owner, id)
    BY <2>2, <2>3, <2>5 DEF Use, Calls
  <2> QED
    BY <2>2, <2>6, AgentAssumption DEF Next
<1> QED
  BY <1>1, <1>2 DEF Call, Ask, Select, FallBack, Retry, Fail

LEMMA AgentUses ==
  ASSUME IInv, CoinsConserved, [AgentNext]_agentVars
  PROVE  (\E k \in Calls : PayOneShot(k)) \/ [Next]_vars
<1>1. ASSUME NEW sender \in Accounts, NEW id \in Ids, Manage(sender, id) PROVE Use(sender, id)
  BY <1>1 DEF Manage, Use
<1> QED
  BY <1>1, CallUses DEF AgentNext, Next, agentVars

LEMMA OneShotCoins ==
  ASSUME IInv, TypeOK', CoinsConserved, NEW k \in Calls, PayOneShot(k)
  PROVE  CoinsConserved'
<1> DEFINE payee == asked[k].payee
           price == asked[k].price
           less == [wallet EXCEPT ![Owner] = @ - price]
<1>1. asked[k] # Nothing /\ TypeOK
  BY DEF PayOneShot, IInv, CallInv, AgentTypeOK
<1>2. payee \in Accounts /\ price \in Nat /\ Owner \in Accounts /\ price <= wallet[Owner]
  BY <1>1, AgentAssumption DEF IInv, AgentTypeOK, Asks, PayOneShot
<1>3. wallet' = [a \in Accounts |->
        wallet[a] + (IF a = payee THEN price ELSE 0) - (IF a = Owner THEN price ELSE 0)]
  BY DEF PayOneShot
<1>4. Escrowed' = Escrowed
  BY DEF PayOneShot, Escrowed, Live
<1> HIDE DEF payee, price
<1>5. \A a \in Accounts : wallet[a] \in Nat /\ wallet'[a] \in Nat /\ less[a] \in Nat
  BY <1>1, <1>2 DEF TypeOK
<1>6. SumFunctionOnSet(less, Accounts) - less[Owner]
        = SumFunctionOnSet(wallet, Accounts) - wallet[Owner]
  <2>1. \A a \in Accounts \ {Owner} : less[a] = wallet[a]
    BY <1>1 DEF TypeOK
  <2> HIDE DEF less
  <2> QED
    BY <1>2, <1>5, <2>1, SumChange, FiniteAssumption
<1>7. SumFunctionOnSet(wallet', Accounts) - wallet'[payee]
        = SumFunctionOnSet(less, Accounts) - less[payee]
  <2>1. \A a \in Accounts \ {payee} : wallet'[a] = less[a]
    BY <1>1, <1>2, <1>3 DEF TypeOK
  <2> HIDE DEF less
  <2> QED
    BY <1>2, <1>5, <2>1, SumChange, FiniteAssumption
<1>8. less[Owner] = wallet[Owner] - price /\ wallet'[payee] = less[payee] + price
  BY <1>1, <1>2, <1>3 DEF TypeOK
<1> HIDE DEF less
<1>9. /\ SumFunctionOnSet(wallet, Accounts) \in Nat
      /\ SumFunctionOnSet(wallet', Accounts) \in Nat
      /\ SumFunctionOnSet(less, Accounts) \in Nat
  BY <1>5, SumIsCount, FiniteAssumption
<1>10. SumFunctionOnSet(wallet', Accounts) = SumFunctionOnSet(wallet, Accounts)
  BY <1>2, <1>5, <1>6, <1>7, <1>8, <1>9
<1> QED
  BY <1>4, <1>10 DEF CoinsConserved

EscrowInv == TypeOK /\ CoinsConserved /\ FundedIsBalancePlusSpent /\ TotalsInv

LEMMA AgentEscrow == AgentSpec => [](IInv /\ EscrowInv)
<1>1. AgentInit => EscrowInv
  BY CoinsInit, BooksInit, TotalsInit, NumbersAssumption DEF AgentInit, EscrowInv, Init, TypeOK
<1>2. IInv /\ IInv' /\ EscrowInv /\ [AgentNext]_agentVars => EscrowInv'
  <2> SUFFICES ASSUME IInv, IInv', EscrowInv, [AgentNext]_agentVars PROVE EscrowInv'
    OBVIOUS
  <2>1. TypeOK /\ TypeOK'
    BY DEF IInv, AgentTypeOK
  <2>2. CASE [Next]_vars
    BY <2>1, <2>2, CoinsStep, BooksStep, TotalsStep DEF EscrowInv
  <2>3. ASSUME NEW k \in Calls, PayOneShot(k) PROVE EscrowInv'
    <3>1. CoinsConserved'
      BY <2>1, <2>3, OneShotCoins DEF EscrowInv
    <3>2. session' = session /\ funded' = funded /\ spends' = spends
      BY <2>3 DEF PayOneShot
    <3> QED
      BY <2>1, <3>1, <3>2
        DEF EscrowInv, FundedIsBalancePlusSpent, TotalsInv, EventTotalsDisjoint, Live
  <2> QED
    BY <2>2, <2>3, AgentUses DEF EscrowInv
<1> QED
  BY <1>1, <1>2, Invariant, PTL DEF AgentSpec

(* The agent makes and loses no coin either: what a one-shot payment takes *)
(* from the owner is what its recipient gets                               *)
(* (packages/client/src/index.ts:252-312, sessions.move:42-132).           *)
THEOREM AgentConserves == AgentSpec => []CoinsConserved
BY AgentEscrow, PTL DEF EscrowInv

(* The sessions an agent spends from keep their books and their events,    *)
(* and their coins leave by their terms only, whatever its calls read and  *)
(* however they fail (packages/pay/src/index.ts:873-944,                   *)
(* sessions.move:42-132).                                                  *)
THEOREM AgentWithinTerms ==
  AgentSpec => [](FundedIsBalancePlusSpent /\ EventTotalsDisjoint) /\ TermsRespected
<1>1. IInv /\ EscrowInv /\ [AgentNext]_agentVars
        => [\A id \in Ids : Live(id) => LeavesByTheTerms(id)]_vars
  <2> SUFFICES ASSUME IInv, EscrowInv, [AgentNext]_agentVars, NEW id \in Ids, Live(id),
                      ~UNCHANGED vars
               PROVE  LeavesByTheTerms(id)
    OBVIOUS
  <2>1. ASSUME NEW k \in Calls, PayOneShot(k) PROVE LeavesByTheTerms(id)
    BY <2>1, OthersWithinTerms DEF PayOneShot, EscrowInv
  <2> QED
    BY <2>1, AgentUses, TermsStep DEF EscrowInv
<1> QED
  BY <1>1, AgentEscrow, PTL DEF AgentSpec, EscrowInv, TotalsInv, TermsRespected
=============================================================================
