------------------------ MODULE ConsoleStores_proofs ------------------------
(***************************************************************************)
(* Theorems about ConsoleStores, for both drivers, any number of requests, *)
(* challenges, payments, rows and audit events, any clock, and writes that *)
(* fail and restarts that come at any point: types, one consume per        *)
(* challenge, durability of what was answered, order of data and audit     *)
(* log, the hash chain with all of its windows, and the exports.           *)
(***************************************************************************)
EXTENDS ConsoleStores, FiniteSetTheorems, TLAPS

----------------------------------------------------------------------------
(* The audit chain.  Its times are all different, so the time alone orders *)
(* it, and a last event can be named without induction.                    *)

IsLast(l, E) == l \in E /\ \A f \in E \ {l} : f.at < l.at

Before(e, E) == {f \in E : Earlier(f, e)}

HasLast(E) == E # {} => \E l \in E : IsLast(l, E)

Chain(E) ==
  /\ E \subseteq Events
  /\ IsFiniteSet(E)
  /\ \A e, f \in E : e.at = f.at => e = f
  /\ HasLast(E)
  /\ \A e \in E : HasLast(Before(e, E))
  /\ Verifies(E, FALSE)

LEMMA EventFields ==
  ASSUME NEW e \in Events
  PROVE  e.at \in Nat /\ e.id \in Ids /\ e.id \in 1..MaxEvents /\ e.id # 0
           /\ e.previous \in 0..MaxEvents /\ e.about \in About
BY BoundsAssumption DEF Events, Ids

LEMMA EarlierByTime ==
  ASSUME NEW E, E \subseteq Events, \A e, f \in E : e.at = f.at => e = f,
         NEW e \in E, NEW f \in E
  PROVE  /\ e # f => (Earlier(e, f) <=> e.at < f.at)
         /\ ~Earlier(e, e)
<1>1. e.at \in Nat /\ f.at \in Nat /\ e.id \in Nat
  BY EventFields, BoundsAssumption DEF Ids
<1> QED
  BY <1>1 DEF Earlier

LEMMA LatestIsLast ==
  ASSUME NEW E, E \subseteq Events, \A e, f \in E : e.at = f.at => e = f,
         NEW l, IsLast(l, E)
  PROVE  Latest(E) = l
<1>1. l \in E /\ \A f \in E \ {l} : Earlier(f, l)
  BY EarlierByTime DEF IsLast
<1>2. ASSUME NEW k \in E, \A f \in E \ {k} : Earlier(f, k) PROVE k = l
  <2>1. CASE k # l
    <3>1. Earlier(l, k) /\ Earlier(k, l)
      BY <1>1, <1>2, <2>1
    <3>2. l.at < k.at /\ k.at < l.at
      BY <3>1, <1>1, <2>1, EarlierByTime
    <3> QED
      BY <3>2, <1>1, EventFields
  <2> QED
    BY <2>1
<1> QED
  BY <1>1, <1>2 DEF Latest

LEMMA ChainGrows ==
  ASSUME NEW E, Chain(E), NEW id \in Ids, NEW reading \in Nat, NEW about \in About
  PROVE  /\ Chained(id, reading, about, E) \in Events
         /\ Chain(E \cup {Chained(id, reading, about, E)})
<1>0. PICK new : new = Chained(id, reading, about, E)
  OBVIOUS
<1> DEFINE F == E \cup {new}
<1>1. /\ new \in Events
      /\ new.about = about
      /\ \A e \in E : e.at < new.at
      /\ E = {} => new.previous = 0
      /\ E # {} => new.previous = Latest(E).id
  <2>1. CASE E = {}
    BY <1>0, <2>1, BoundsAssumption DEF Chained, Events
  <2>2. CASE E # {}
    <3>1. PICK l \in E : IsLast(l, E)
      BY <2>2 DEF Chain, HasLast
    <3>2. Latest(E) = l
      BY <3>1, LatestIsLast DEF Chain
    <3>3. l.at \in Nat /\ l.id \in 1..MaxEvents
      BY EventFields DEF Chain
    <3>4. new = [id |-> id, about |-> about, previous |-> l.id,
                 at |-> IF reading > l.at THEN reading ELSE l.at + 1]
      BY <1>0, <2>2, <3>2 DEF Chained
    <3>5. new.at \in Nat /\ new.at > l.at
      BY <3>3, <3>4
    <3>6. new \in Events
      <4>1. l.id \in 0..MaxEvents
        BY <3>3, BoundsAssumption
      <4> QED
        BY <3>3, <3>4, <4>1 DEF Events
    <3>7. ASSUME NEW e \in E PROVE e.at < new.at
      <4>1. e.at \in Nat
        BY EventFields DEF Chain
      <4> QED
        BY <3>1, <3>3, <3>5, <4>1 DEF IsLast
    <3> QED
      BY <2>2, <3>2, <3>4, <3>6, <3>7
  <2> QED
    BY <2>1, <2>2
<1>2. F \subseteq Events
  BY <1>1 DEF Chain
<1>3. IsFiniteSet(F)
  BY FS_AddElement DEF Chain
<1>4. \A e, f \in F : e.at = f.at => e = f
  <2>1. \A e \in F : e.at \in Nat
    BY <1>2, EventFields
  <2> QED
    BY <1>1, <2>1 DEF Chain
<1>5. IsLast(new, F)
  BY <1>1 DEF IsLast
<1>6. ASSUME NEW e \in E PROVE Before(e, F) = Before(e, E)
  <2> SUFFICES ASSUME Earlier(new, e) PROVE FALSE
    BY DEF Before
  <2>1. new # e
    BY <1>1, EventFields DEF Chain
  <2>2. new \in F /\ e \in F
    OBVIOUS
  <2> HIDE DEF F
  <2>3. new.at < e.at
    BY <1>2, <1>4, <2>1, <2>2, EarlierByTime
  <2>4. e.at < new.at /\ new.at \in Nat /\ e.at \in Nat
    BY <1>1, <1>2, <2>2, EventFields
  <2> QED
    BY <2>3, <2>4
<1>7. Before(new, F) = E
  <2>1. ASSUME NEW e \in E PROVE Earlier(e, new)
    <3>1. e.at < new.at
      BY <1>1
    <3> QED
      BY <3>1 DEF Earlier
  <2>2. ~Earlier(new, new)
    <3>1. new \in F
      OBVIOUS
    <3> HIDE DEF F
    <3> QED
      BY <1>2, <1>4, <3>1, EarlierByTime
  <2> QED
    BY <2>1, <2>2 DEF Before
<1>8. Verifies(F, FALSE)
  <2>1. ASSUME NEW e \in E
        PROVE  IF Before(e, F) = {} THEN e.previous = 0
               ELSE e.previous = Latest(Before(e, F)).id
    BY <1>6 DEF Chain, Verifies, Before
  <2>2. IF Before(new, F) = {} THEN new.previous = 0
        ELSE new.previous = Latest(Before(new, F)).id
    BY <1>1, <1>7
  <2> QED
    BY <2>1, <2>2 DEF Verifies, Before
<1>9. \A e \in F : HasLast(Before(e, F))
  BY <1>6, <1>7 DEF Chain
<1>10. HasLast(F)
  BY <1>5 DEF HasLast, IsLast
<1> HIDE DEF F
<1> QED
  BY <1>1, <1>2, <1>3, <1>4, <1>8, <1>9, <1>10, <1>0 DEF Chain, F

(* A window is closed upwards. *)
LEMMA WindowIsClosed ==
  ASSUME NEW E, Chain(E), NEW limit \in Ids, NEW f \in Window(E, limit),
         NEW l \in E, f = l \/ Earlier(f, l)
  PROVE  l \in Window(E, limit)
<1> DEFINE Above(e) == {g \in E : Earlier(e, g)}
<1>0. f \in E /\ Cardinality(Above(f)) < limit
  BY DEF Window
<1>1. CASE f = l
  BY <1>1
<1>2. CASE f # l /\ Earlier(f, l)
  <2>1. Above(l) \subseteq Above(f)
    <3> SUFFICES ASSUME NEW g \in E, Earlier(l, g) PROVE Earlier(f, g)
      OBVIOUS
    <3>1. f.at < l.at /\ l # g /\ l.at < g.at
      BY <1>0, <1>2, EarlierByTime DEF Chain
    <3>2. f.at \in Nat /\ l.at \in Nat /\ g.at \in Nat
      BY <1>0, EventFields DEF Chain
    <3> QED
      BY <3>1, <3>2 DEF Earlier
  <2>2. IsFiniteSet(Above(f)) /\ Above(l) \in SUBSET Above(f)
    BY <2>1, FS_Subset DEF Chain
  <2>3. Cardinality(Above(l)) <= Cardinality(Above(f))
        /\ Cardinality(Above(l)) \in Nat /\ Cardinality(Above(f)) \in Nat
    BY <2>2, FS_Subset, FS_CardinalityType
  <2>4. limit \in Nat
    BY BoundsAssumption DEF Ids
  <2>5. Cardinality(Above(l)) < limit
    BY <1>0, <2>3, <2>4
  <2> QED
    BY <2>5 DEF Window
<1> QED
  BY <1>1, <1>2

LEMMA WindowsVerify ==
  ASSUME NEW E, Chain(E), NEW limit \in Ids
  PROVE  Verifies(Window(E, limit), TRUE)
<1> DEFINE W == Window(E, limit)
<1>0. W \subseteq E
  BY DEF Window
<1> SUFFICES ASSUME NEW e \in W, NEW f \in W, Earlier(f, e)
             PROVE  e.previous = Latest(Before(e, W)).id
  BY DEF Verifies, Before
<1>1. e \in E /\ f \in Before(e, E)
  BY <1>0 DEF Before
<1>2. e.previous = Latest(Before(e, E)).id
  BY <1>1 DEF Chain, Verifies, Before
<1>3. PICK l \in Before(e, E) : IsLast(l, Before(e, E))
  BY <1>1 DEF Chain, HasLast
<1>4. l \in W
  <2>1. l \in E /\ (f = l \/ Earlier(f, l))
    BY <1>1, <1>3 DEF IsLast, Before, Earlier
  <2> QED
    BY <2>1, WindowIsClosed
<1>5. IsLast(l, Before(e, W))
  BY <1>0, <1>3, <1>4 DEF IsLast, Before
<1>6. Latest(Before(e, E)) = l /\ Latest(Before(e, W)) = l
  <2>1. /\ Before(e, E) \subseteq Events /\ Before(e, W) \subseteq Events
        /\ \A g, h \in Before(e, E) : g.at = h.at => g = h
        /\ \A g, h \in Before(e, W) : g.at = h.at => g = h
    BY <1>0 DEF Before, Chain
  <2> QED
    BY <1>3, <1>5, <2>1, LatestIsLast
<1> QED
  BY <1>2, <1>6

(* The head of a window is the last event of the chain. *)
LEMMA HeadOfWindow ==
  ASSUME NEW E, Chain(E), NEW limit \in Ids, Window(E, limit) # {}
  PROVE  Latest(Window(E, limit)) \in E
<1> DEFINE W == Window(E, limit)
<1>0. W \subseteq E
  BY DEF Window
<1>1. PICK f \in W : f \in E
  BY <1>0
<1>2. PICK l \in E : IsLast(l, E)
  BY <1>1 DEF Chain, HasLast
<1>3. l \in W
  BY <1>1, <1>2, WindowIsClosed DEF IsLast, Earlier
<1>4. IsLast(l, W)
  BY <1>0, <1>2, <1>3 DEF IsLast
<1>5. W \subseteq Events /\ \A g, h \in W : g.at = h.at => g = h
  BY <1>0 DEF Chain
<1> QED
  BY <1>2, <1>4, <1>5, LatestIsLast
----------------------------------------------------------------------------
(* The inductive invariant.  Memory and file are each sound by themselves, *)
(* the file never holds what memory does not, and audit events wait in     *)
(* memory or in a request only for what is on file.                        *)

OneProofEach(s) == \A p, q \in s.payments : ProofOf[p] = ProofOf[q] => p = q

Shows(s, x) ==
  /\ x.payments \subseteq s.payments
  /\ x.head # 0 => \E e \in s.audit : e.id = x.head

Sound(s) ==
  /\ s \in Contents
  /\ Chain(s.audit)
  /\ OneProofEach(s)
  /\ \A x \in s.exports : Shows(s, x)

Under(s, t) ==
  /\ s.consumed \subseteq t.consumed
  /\ s.payments \subseteq t.payments
  /\ \A k \in Keys : s.rows[k] <= t.rows[k]
  /\ s.audit \subseteq t.audit
  /\ s.exports \subseteq t.exports

BackedBy(about, s) ==
  IF IsRow(about) THEN about.version <= s.rows[about.key] ELSE about \in s.exports

(* What holds of the rest of a request, given the memory, the file and     *)
(* what is anchored.                                                       *)
Pending(task, m, f, a) ==
  /\ task \in Tasks
  /\ task.at \in {"publish", "record"} =>
       task.about \in Artifacts /\ Shows(m, task.about)
  /\ task.at = "record" => task.about \in a
  /\ task.at = "audit" => BackedBy(task.about, f)

Stored ==
  /\ Sound(memory)
  /\ Sound(file)
  /\ Under(file, memory)
  /\ \A e \in memory.audit : BackedBy(e.about, file)

Answered ==
  /\ recorded \subseteq file.payments
  /\ \A about \in reported : \E e \in file.audit : e.about = about

Waiting ==
  /\ handler \in [Handlers -> Tasks \cup {Nothing}]
  /\ \A h \in Handlers : handler[h] # Nothing =>
       Pending(handler[h], memory, file, anchored)

Inv ==
  /\ TypeOK
  /\ Stored
  /\ memory.exports \subseteq anchored
  /\ Waiting
  /\ ConsumedOnce
  /\ Answered

(* What an operation that reaches the stores makes of them. *)
Grown ==
  /\ Stored'
  /\ Under(file, file')
  /\ Under(memory, memory')

LEMMA UnderIsOrder ==
  ASSUME NEW r \in Contents, NEW s \in Contents, NEW t \in Contents
  PROVE  /\ Under(s, s)
         /\ Under(r, s) /\ Under(s, t) => Under(r, t)
<1>1. \A k \in Keys : r.rows[k] \in Int /\ s.rows[k] \in Int /\ t.rows[k] \in Int
  BY BoundsAssumption DEF Contents
<1> QED
  BY <1>1 DEF Under

LEMMA BackedGrows ==
  ASSUME NEW s \in Contents, NEW t \in Contents, Under(s, t), NEW about \in About,
         BackedBy(about, s)
  PROVE  BackedBy(about, t)
<1>1. CASE IsRow(about)
  <2>1. about \in [key : Keys, version : 1..MaxVersion]
    BY <1>1 DEF IsRow, About, Artifacts
  <2>2. /\ about.key \in Keys /\ about.version \in Int
        /\ s.rows[about.key] \in Int /\ t.rows[about.key] \in Int
    BY <2>1, BoundsAssumption DEF Contents
  <2> QED
    BY <1>1, <2>1, <2>2 DEF BackedBy, Under
<1>2. CASE ~IsRow(about)
  BY <1>2 DEF BackedBy, Under
<1> QED
  BY <1>1, <1>2

(* A write of the stores, whether it succeeds, throws, or loses its answer. *)
LEMMA Writes ==
  ASSUME Inv, NEW next, Sound(next), Under(memory, next),
         \A e \in next.audit : e \in memory.audit \/ BackedBy(e.about, file),
         Saved(next) \/ Threw(next)
  PROVE  Grown
<1>1. /\ memory \in Contents /\ file \in Contents /\ next \in Contents
      /\ Under(file, memory) /\ Sound(memory) /\ Sound(file)
      /\ \A e \in next.audit : BackedBy(e.about, file) /\ e.about \in About
  BY DEF Inv, Stored, Sound, Contents, Events
<1>2. Under(file, next) /\ Under(file, file) /\ Under(memory, memory) /\ Under(next, next)
  BY <1>1, UnderIsOrder
<1>3. CASE Saved(next)
  <2>1. memory' = next /\ file' = next
    BY <1>3 DEF Saved
  <2>2. \A e \in next.audit : BackedBy(e.about, next)
    BY <1>1, <1>2, BackedGrows
  <2>3. /\ Sound(memory') /\ Sound(file') /\ Under(file', memory')
        /\ \A e \in memory'.audit : BackedBy(e.about, file')
    BY <1>2, <2>1, <2>2
  <2> QED
    BY <1>2, <2>1, <2>3 DEF Grown, Stored
<1>4. CASE memory' = next /\ UNCHANGED file
  BY <1>1, <1>2, <1>4 DEF Grown, Stored
<1>5. CASE UNCHANGED <<memory, file>>
  BY <1>2, <1>5 DEF Grown, Stored, Inv
<1> QED
  BY <1>3, <1>4, <1>5 DEF Threw

LEMMA NoWrite == ASSUME Inv, UNCHANGED <<memory, file>> PROVE Grown
BY UnderIsOrder DEF Inv, Stored, Sound, Grown

LEMMA PendingGrows ==
  ASSUME NEW m \in Contents, NEW n \in Contents, Under(m, n),
         NEW f \in Contents, NEW g \in Contents, Under(f, g),
         NEW a, NEW b, a \subseteq b, NEW task, Pending(task, m, f, a)
  PROVE  Pending(task, n, g, b)
<1>1. task.about \in About
  BY DEF Pending, Tasks
<1>2. task.at = "audit" => BackedBy(task.about, g)
  BY <1>1, BackedGrows DEF Pending
<1>3. task.about \in Artifacts /\ Shows(m, task.about) => Shows(n, task.about)
  BY DEF Shows, Under
<1> QED
  BY <1>2, <1>3 DEF Pending

(* One request goes on to a task that is pending in the new state, or ends. *)
LEMMA WaitingStep ==
  ASSUME Inv, Grown, anchored \subseteq anchored', NEW h \in Handlers, NEW task,
         task = Nothing \/ Pending(task, memory', file', anchored'),
         handler' = [handler EXCEPT ![h] = task]
  PROVE  Waiting'
<1>1. /\ memory \in Contents /\ memory' \in Contents /\ Under(memory, memory')
      /\ file \in Contents /\ file' \in Contents /\ Under(file, file')
  BY DEF Inv, Grown, Stored, Sound
<1>2. task \in Tasks \cup {Nothing}
  BY DEF Pending
<1>3. handler' \in [Handlers -> Tasks \cup {Nothing}]
  BY <1>2 DEF Inv, Waiting
<1>4. ASSUME NEW g \in Handlers, handler'[g] # Nothing
      PROVE  Pending(handler'[g], memory', file', anchored')
  <2>1. CASE g = h
    BY <1>4, <2>1 DEF Inv, Waiting
  <2>2. CASE g # h
    <3>1. Pending(handler[g], memory, file, anchored) /\ handler'[g] = handler[g]
      BY <1>4, <2>2 DEF Inv, Waiting
    <3> QED
      BY <1>1, <3>1, PendingGrows
  <2> QED
    BY <2>1, <2>2
<1> QED
  BY <1>3, <1>4 DEF Waiting

LEMMA WaitingKept ==
  ASSUME Inv, Grown, anchored \subseteq anchored', UNCHANGED handler PROVE Waiting'
<1>1. /\ memory \in Contents /\ memory' \in Contents /\ Under(memory, memory')
      /\ file \in Contents /\ file' \in Contents /\ Under(file, file')
  BY DEF Inv, Grown, Stored, Sound
<1>2. ASSUME NEW g \in Handlers, handler[g] # Nothing
      PROVE  Pending(handler[g], memory', file', anchored')
  BY <1>1, <1>2, PendingGrows DEF Inv, Waiting
<1> QED
  BY <1>2 DEF Inv, Waiting

LEMMA GrantsKept == ASSUME Inv, Grown, UNCHANGED granted PROVE ConsumedOnce'
BY DEF Inv, Grown, ConsumedOnce, Under

LEMMA AnswersKept ==
  ASSUME Inv, Grown, UNCHANGED <<recorded, reported>> PROVE Answered'
BY DEF Inv, Grown, Answered, Under

(* Which of its parts a change of the contents leaves alone decides what   *)
(* is left to show of it.                                                  *)
LEMMA ContentsChange ==
  ASSUME Inv, NEW next \in Contents, Under(memory, next),
         next.audit = memory.audit, next.exports = memory.exports,
         OneProofEach(next)
  PROVE  Sound(next) /\ \A e \in next.audit : e \in memory.audit
BY DEF Inv, Stored, Sound, Shows, Under

LEMMA IssueStep == ASSUME Inv, NEW c \in Challenges, IssueChallenge(c) PROVE Inv'
<1> DEFINE next == [memory EXCEPT !.issued = @ \cup {c}]
<1>1. next \in Contents /\ Under(memory, next) /\ OneProofEach(next)
      /\ next.audit = memory.audit /\ next.exports = memory.exports
  BY UnderIsOrder DEF Inv, Stored, Sound, Contents, Under, OneProofEach
<1>2. Grown /\ memory'.exports = memory.exports
  <2>1. Saved(next) \/ Threw(next)
    BY DEF IssueChallenge
  <2> HIDE DEF next
  <2> QED
    BY <1>1, <2>1, ContentsChange, Writes DEF Saved, Threw
<1>3. Waiting' /\ ConsumedOnce' /\ Answered'
  BY <1>2, WaitingKept, GrantsKept, AnswersKept DEF IssueChallenge, history
<1> QED
  BY <1>2, <1>3 DEF Inv, TypeOK, Stored, Sound, Grown, IssueChallenge, history

LEMMA LookupStep ==
  ASSUME Inv, NEW c \in Challenges, GetExpiredChallenge(c) PROVE Inv'
<1> DEFINE next == [memory EXCEPT !.issued = @ \ {c}]
<1>1. next \in Contents /\ Under(memory, next) /\ OneProofEach(next)
      /\ next.audit = memory.audit /\ next.exports = memory.exports
  BY UnderIsOrder DEF Inv, Stored, Sound, Contents, Under, OneProofEach
<1>2. Grown /\ memory'.exports = memory.exports
  <2>1. Saved(next) \/ Threw(next)
    BY DEF GetExpiredChallenge
  <2> HIDE DEF next
  <2> QED
    BY <1>1, <2>1, ContentsChange, Writes DEF Saved, Threw
<1>3. Waiting' /\ ConsumedOnce' /\ Answered'
  BY <1>2, WaitingKept, GrantsKept, AnswersKept DEF GetExpiredChallenge, history
<1> QED
  BY <1>2, <1>3 DEF Inv, TypeOK, Stored, Sound, Grown, GetExpiredChallenge, history

LEMMA ConsumeStep ==
  ASSUME Inv, NEW c \in Challenges, ConsumeChallenge(c) PROVE Inv'
<1> DEFINE next == [memory EXCEPT !.consumed = @ \cup {c}, !.issued = @ \ {c}]
           half == [memory EXCEPT !.consumed = @ \cup {c}]
<1>1. /\ next \in Contents /\ Under(memory, next) /\ OneProofEach(next)
      /\ next.audit = memory.audit /\ next.exports = memory.exports
      /\ c \in next.consumed
  BY UnderIsOrder DEF Inv, Stored, Sound, Contents, Under, OneProofEach
<1>2. /\ half \in Contents /\ Under(memory, half) /\ OneProofEach(half)
      /\ half.audit = memory.audit /\ half.exports = memory.exports
  BY UnderIsOrder DEF Inv, Stored, Sound, Contents, Under, OneProofEach
<1>3. \/ Saved(next) /\ granted' = [granted EXCEPT ![c] = @ + 1]
      \/ Threw(next) /\ UNCHANGED granted
      \/ Saved(half) /\ UNCHANGED granted
  BY DEF ConsumeChallenge
<1>4. Grown /\ memory'.exports = memory.exports
  <2> HIDE DEF next, half
  <2>1. Saved(next) \/ Threw(next) \/ Saved(half)
    BY <1>3
  <2>2. CASE Saved(next) \/ Threw(next)
    BY <1>1, <2>2, ContentsChange, Writes DEF Saved, Threw
  <2>3. CASE Saved(half)
    BY <1>2, <2>3, ContentsChange, Writes DEF Saved
  <2> QED
    BY <2>1, <2>2, <2>3
<1>5. Waiting' /\ Answered'
  BY <1>4, WaitingKept, AnswersKept DEF ConsumeChallenge
<1>6. ConsumedOnce' /\ granted' \in [Challenges -> Nat]
  <2> HIDE DEF next, half
  <2>1. CASE UNCHANGED granted
    BY <1>4, <2>1, GrantsKept DEF Inv, TypeOK
  <2>2. CASE Saved(next) /\ granted' = [granted EXCEPT ![c] = @ + 1]
    <3>1. granted[c] = 0
      BY DEF Inv, TypeOK, ConsumedOnce, ConsumeChallenge, Stored, Under
    <3>2. c \in file'.consumed
      BY <1>1, <2>2 DEF Saved
    <3>3. \A b \in Challenges : granted[b] = 1 => b \in file'.consumed
      BY <1>4 DEF Inv, ConsumedOnce, Grown, Under
    <3> QED
      BY <2>2, <3>1, <3>2, <3>3 DEF Inv, TypeOK, ConsumedOnce
  <2> QED
    BY <1>3, <2>1, <2>2
<1> QED
  BY <1>4, <1>5, <1>6 DEF Inv, TypeOK, Stored, Sound, Grown, ConsumeChallenge

LEMMA PaymentStep == ASSUME Inv, NEW p \in Payments, RecordPayment(p) PROVE Inv'
<1> DEFINE next == [memory EXCEPT !.payments = @ \cup {p}]
<1>1. /\ next \in Contents /\ Under(memory, next)
      /\ next.audit = memory.audit /\ next.exports = memory.exports
      /\ next.payments = memory.payments \cup {p}
  BY UnderIsOrder DEF Inv, Stored, Sound, Contents, Under
<1>2. OneProofEach(next)
  BY <1>1 DEF Inv, Stored, Sound, OneProofEach, RecordPayment
<1>3. \/ Saved(next) /\ recorded' = recorded \cup {p}
      \/ Threw(next) /\ UNCHANGED recorded
  BY DEF RecordPayment
<1> HIDE DEF next
<1>4. Grown /\ memory'.exports = memory.exports
  BY <1>1, <1>2, <1>3, ContentsChange, Writes DEF Saved, Threw
<1>5. Waiting' /\ ConsumedOnce'
  BY <1>4, WaitingKept, GrantsKept DEF RecordPayment
<1>6. Answered' /\ recorded' \subseteq Payments
  <2>1. recorded \subseteq file'.payments
    BY <1>4 DEF Inv, Answered, Grown, Under
  <2>2. recorded' \subseteq file'.payments /\ recorded' \subseteq Payments
    BY <1>1, <1>3, <2>1 DEF Inv, TypeOK, Saved
  <2>3. \A about \in reported' : \E e \in file'.audit : e.about = about
    BY <1>4 DEF Inv, Answered, Grown, Under, RecordPayment
  <2> QED
    BY <2>2, <2>3 DEF Answered
<1> QED
  BY <1>4, <1>5, <1>6 DEF Inv, TypeOK, Stored, Sound, Grown, RecordPayment

LEMMA UpsertStep ==
  ASSUME Inv, NEW h \in Handlers, NEW k \in Keys, Upsert(h, k) PROVE Inv'
<1> DEFINE version == memory.rows[k] + 1
           next    == [memory EXCEPT !.rows[k] = version]
           task    == [at |-> "audit", about |-> [key |-> k, version |-> version]]
<1>0. memory \in Contents /\ memory.rows \in [Keys -> 0..MaxVersion]
      /\ memory.rows[k] \in Nat /\ version \in 1..MaxVersion /\ version \in 0..MaxVersion
  BY BoundsAssumption DEF Inv, Stored, Sound, Contents, Upsert
<1>1. /\ next \in Contents
      /\ next.audit = memory.audit /\ next.exports = memory.exports
      /\ next.payments = memory.payments /\ next.consumed = memory.consumed
      /\ next.rows = [memory.rows EXCEPT ![k] = version]
  BY <1>0 DEF Contents
<1>2. Under(memory, next) /\ OneProofEach(next)
  <2>1. \A j \in Keys : memory.rows[j] <= next.rows[j]
    BY <1>0, <1>1, BoundsAssumption
  <2> QED
    BY <1>1, <2>1 DEF Inv, Stored, Sound, Under, OneProofEach
<1>3. \/ Saved(next) /\ handler' = [handler EXCEPT ![h] = task]
      \/ Threw(next) /\ UNCHANGED handler
  BY DEF Upsert, Goto
<1>4. next.rows[k] = version
  BY <1>0, <1>1
<1> HIDE DEF next
<1>5. Grown /\ memory'.exports = memory.exports
  BY <1>1, <1>2, <1>3, ContentsChange, Writes DEF Saved, Threw
<1>6. Waiting'
  <2>1. CASE UNCHANGED handler
    BY <1>5, <2>1, WaitingKept DEF Upsert
  <2>2. CASE Saved(next) /\ handler' = [handler EXCEPT ![h] = task]
    <3>1. task \in Tasks
      BY <1>0 DEF Tasks, About
    <3>2. BackedBy(task.about, file')
      BY <1>0, <1>4, <2>2 DEF BackedBy, IsRow, Saved
    <3>3. Pending(task, memory', file', anchored')
      BY <3>1, <3>2 DEF Pending
    <3> HIDE DEF task
    <3> QED
      BY <1>5, <2>2, <3>3, WaitingStep DEF Upsert
  <2> QED
    BY <1>3, <2>1, <2>2
<1>7. ConsumedOnce' /\ Answered'
  BY <1>5, GrantsKept, AnswersKept DEF Upsert, history
<1> QED
  BY <1>5, <1>6, <1>7 DEF Inv, TypeOK, Waiting, Stored, Sound, Grown, Upsert, history

LEMMA AppendStep ==
  ASSUME Inv, NEW h \in Handlers, NEW id \in Ids, NEW reading \in Readings,
         Append(h, id, reading)
  PROVE  Inv'
<1> DEFINE about == handler[h].about
           event == Chained(id, reading, about, memory.audit)
           next  == [memory EXCEPT !.audit = @ \cup {event}]
<1>0. about \in About /\ BackedBy(about, file) /\ memory \in Contents
  BY DEF Append, At, Inv, Waiting, Pending, Tasks, Stored, Sound
<1>1. event \in Events /\ Chain(memory.audit \cup {event}) /\ event.about = about
  <2>1. reading \in Nat /\ Chain(memory.audit)
    BY BoundsAssumption DEF Inv, Stored, Sound
  <2> QED
    BY <1>0, <2>1, ChainGrows DEF Chained
<1> HIDE DEF event
<1>2. /\ next \in Contents
      /\ next.audit = memory.audit \cup {event} /\ next.exports = memory.exports
      /\ next.payments = memory.payments /\ next.consumed = memory.consumed
      /\ next.rows = memory.rows
  BY <1>0, <1>1 DEF Contents
<1>3. \/ Saved(next) /\ reported' = reported \cup {about}
      \/ Threw(next) /\ UNCHANGED reported
  BY DEF Append, event
<1> HIDE DEF next
<1>4. Under(memory, next)
  BY <1>0, <1>2, UnderIsOrder DEF Under
<1>5. Sound(next)
  <2>1. OneProofEach(next) /\ Chain(next.audit)
    BY <1>1, <1>2 DEF Inv, Stored, Sound, OneProofEach
  <2>2. \A x \in next.exports : Shows(next, x)
    BY <1>2 DEF Inv, Stored, Sound, Shows
  <2> QED
    BY <1>2, <2>1, <2>2 DEF Sound
<1>6. \A e \in next.audit : e \in memory.audit \/ BackedBy(e.about, file)
  BY <1>0, <1>1, <1>2
<1>7. Grown /\ memory'.exports = memory.exports
  BY <1>2, <1>3, <1>4, <1>5, <1>6, Writes DEF Saved, Threw
<1>8. handler' = [handler EXCEPT ![h] = Nothing] /\ UNCHANGED anchored
  BY DEF Append, Done
<1>9. Waiting' /\ ConsumedOnce'
  BY <1>7, <1>8, WaitingStep, GrantsKept DEF Append
<1>10. Answered' /\ reported' \subseteq About
  <2>1. \A a \in reported : \E e \in file'.audit : e.about = a
    BY <1>7 DEF Inv, Answered, Grown, Under
  <2>2. CASE Saved(next) /\ reported' = reported \cup {about}
    <3>1. event \in file'.audit /\ event.about = about
      BY <1>1, <1>2, <2>2 DEF Saved
    <3>2. recorded' \subseteq file'.payments
      BY <1>7 DEF Inv, Answered, Grown, Under, Append
    <3> QED
      BY <1>0, <2>1, <2>2, <3>1, <3>2 DEF Answered, Inv, TypeOK
  <2>3. CASE UNCHANGED reported
    BY <1>7, <2>3, AnswersKept DEF Append, Inv, TypeOK
  <2> QED
    BY <1>3, <2>2, <2>3
<1> QED
  BY <1>7, <1>8, <1>9, <1>10
     DEF Inv, TypeOK, Waiting, Stored, Sound, Grown, Append

LEMMA BeginExportStep ==
  ASSUME Inv, NEW h \in Handlers, NEW payments \in SUBSET Payments,
         BeginExport(h, payments)
  PROVE  Inv'
<1> DEFINE task == [at |-> "publish", about |-> [payments |-> payments, head |-> 0]]
<1>1. Grown
  BY NoWrite DEF BeginExport
<1>2. Pending(task, memory', file', anchored')
  <2>1. task.about \in Artifacts /\ task \in Tasks
    BY BoundsAssumption DEF Artifacts, About, Tasks
  <2>2. Shows(memory', task.about)
    BY DEF Shows, BeginExport
  <2> QED
    BY <2>1, <2>2 DEF Pending
<1>3. handler' = [handler EXCEPT ![h] = task]
  BY DEF BeginExport, Goto
<1> HIDE DEF task
<1>4. Waiting' /\ ConsumedOnce' /\ Answered'
  BY <1>1, <1>2, <1>3, WaitingStep, GrantsKept, AnswersKept DEF BeginExport, history
<1> QED
  BY <1>1, <1>4 DEF Inv, TypeOK, Waiting, Grown, BeginExport, history

LEMMA BeginHeadExportStep ==
  ASSUME Inv, NEW h \in Handlers, NEW limit \in Ids, BeginHeadExport(h, limit)
  PROVE  Inv'
<1> DEFINE head == Latest(Window(memory.audit, limit))
           task == [at |-> "publish", about |-> [payments |-> {}, head |-> head.id]]
<1>1. Grown
  BY NoWrite DEF BeginHeadExport
<1>2. head \in memory.audit /\ head \in Events
  BY HeadOfWindow DEF BeginHeadExport, Inv, Stored, Sound, Chain
<1>3. handler' = [handler EXCEPT ![h] = task]
  BY DEF BeginHeadExport, Goto
<1>4. Pending(task, memory', file', anchored')
  <2> HIDE DEF head
  <2>1. head.id \in 0..MaxEvents
    BY <1>2, EventFields, BoundsAssumption
  <2>2. task.about \in Artifacts /\ task \in Tasks
    BY <2>1 DEF Artifacts, About, Tasks
  <2>3. Shows(memory', task.about)
    BY <1>2 DEF Shows, BeginHeadExport
  <2> QED
    BY <2>2, <2>3 DEF Pending
<1> HIDE DEF task
<1>5. Waiting' /\ ConsumedOnce' /\ Answered'
  BY <1>1, <1>3, <1>4, WaitingStep, GrantsKept, AnswersKept DEF BeginHeadExport, history
<1> QED
  BY <1>1, <1>5 DEF Inv, TypeOK, Waiting, Grown, BeginHeadExport, history

LEMMA PublishStep == ASSUME Inv, NEW h \in Handlers, Publish(h) PROVE Inv'
<1> DEFINE artifact == handler[h].about
           task     == [at |-> "record", about |-> artifact]
<1>1. Grown
  BY NoWrite DEF Publish
<1>2. artifact \in Artifacts /\ Shows(memory, artifact) /\ artifact \in About
  BY DEF Publish, At, Inv, Waiting, Pending, Tasks
<1>3. \/ handler' = [handler EXCEPT ![h] = task] /\ artifact \in anchored'
      \/ handler' = [handler EXCEPT ![h] = Nothing]
  BY DEF Publish, Goto, Done
<1>4. anchored \subseteq anchored' /\ anchored' \subseteq Artifacts
  BY <1>2 DEF Publish, Inv, TypeOK
<1>5. UNCHANGED <<driver, memory, file, expired, history>>
  BY DEF Publish
<1> HIDE DEF artifact
<1>6. artifact \in anchored' => Pending(task, memory', file', anchored')
  BY <1>2, <1>5 DEF Pending, Tasks, Shows
<1> HIDE DEF task
<1>7. Waiting'
  BY <1>1, <1>3, <1>4, <1>6, WaitingStep
<1>8. ConsumedOnce' /\ Answered'
  BY <1>1, <1>5, GrantsKept, AnswersKept DEF history
<1> QED
  BY <1>1, <1>4, <1>5, <1>7, <1>8 DEF Inv, TypeOK, Waiting, Grown, history

LEMMA RecordExportStep == ASSUME Inv, NEW h \in Handlers, RecordExport(h) PROVE Inv'
<1> DEFINE artifact == handler[h].about
           next     == [memory EXCEPT !.exports = @ \cup {artifact}]
           task     == [at |-> "audit", about |-> artifact]
<1>0. /\ artifact \in Artifacts /\ Shows(memory, artifact) /\ artifact \in About
      /\ artifact \in anchored /\ memory \in Contents
  BY DEF RecordExport, At, Inv, Waiting, Pending, Tasks, Stored, Sound
<1>1. \/ Saved(next) /\ handler' = [handler EXCEPT ![h] = task]
      \/ Threw(next) /\ handler' = [handler EXCEPT ![h] = Nothing]
  BY DEF RecordExport, Goto, Done
<1>2. UNCHANGED <<driver, expired, anchored, history>>
  BY DEF RecordExport
<1> HIDE DEF artifact
<1>3. /\ next \in Contents
      /\ next.audit = memory.audit /\ next.exports = memory.exports \cup {artifact}
      /\ next.payments = memory.payments /\ next.consumed = memory.consumed
      /\ next.rows = memory.rows
  BY <1>0 DEF Contents
<1> HIDE DEF next
<1>4. Under(memory, next)
  BY <1>0, <1>3, UnderIsOrder DEF Under
<1>5. Sound(next)
  BY <1>0, <1>3 DEF Inv, Stored, Sound, Shows, OneProofEach
<1>6. Grown
  BY <1>1, <1>3, <1>4, <1>5, Writes
<1>7. memory'.exports \subseteq anchored'
  BY <1>0, <1>1, <1>2, <1>3 DEF Saved, Threw, Inv
<1>8. Waiting'
  <2>1. CASE Saved(next) /\ handler' = [handler EXCEPT ![h] = task]
    <3>1. ~IsRow(artifact)
      BY <1>0 DEF IsRow, Artifacts
    <3>2. BackedBy(artifact, file')
      BY <1>3, <2>1, <3>1 DEF BackedBy, Saved
    <3>3. Pending(task, memory', file', anchored')
      BY <1>0, <3>2 DEF Pending, Tasks
    <3> HIDE DEF task
    <3> QED
      BY <1>2, <1>6, <2>1, <3>3, WaitingStep
  <2>2. CASE handler' = [handler EXCEPT ![h] = Nothing]
    BY <1>2, <1>6, <2>2, WaitingStep
  <2> QED
    BY <1>1, <2>1, <2>2
<1>9. ConsumedOnce' /\ Answered'
  BY <1>2, <1>6, GrantsKept, AnswersKept DEF history
<1> QED
  BY <1>2, <1>6, <1>7, <1>8, <1>9
     DEF Inv, TypeOK, Waiting, Stored, Sound, Grown, history

LEMMA ExpireStep == ASSUME Inv, NEW c \in Challenges, Expire(c) PROVE Inv'
<1>1. Grown
  BY NoWrite DEF Expire
<1>2. Waiting' /\ ConsumedOnce' /\ Answered'
  BY <1>1, WaitingKept, GrantsKept, AnswersKept DEF Expire, history
<1> QED
  BY <1>1, <1>2 DEF Inv, TypeOK, Grown, Expire, history

(* A restart takes memory back to the file, which is sound and behind.     *)
LEMMA RestartStep == ASSUME Inv, Restart PROVE Inv'
<1> DEFINE read == [file EXCEPT !.issued = @ \ expired]
<1>1. UNCHANGED <<driver, file, expired, anchored, history>>
      /\ handler' = [h \in Handlers |-> Nothing]
      /\ (memory' = read \/ UNCHANGED memory)
  BY DEF Restart
<1>2. /\ read \in Contents
      /\ read.consumed = file.consumed /\ read.payments = file.payments
      /\ read.rows = file.rows /\ read.audit = file.audit /\ read.exports = file.exports
  BY DEF Inv, Stored, Sound, Contents
<1> HIDE DEF read
<1>3. /\ file \in Contents /\ memory \in Contents /\ Under(file, file)
      /\ Sound(file) /\ Under(file, memory) /\ Sound(memory)
  BY UnderIsOrder DEF Inv, Stored, Sound
<1>4. Sound(read) /\ Under(file, read)
  BY <1>2, <1>3 DEF Sound, Shows, OneProofEach, Under
<1>5. \A e \in file.audit : BackedBy(e.about, file)
  BY DEF Inv, Stored, Under
<1>6. Stored' /\ memory'.exports \subseteq anchored'
  <2>1. CASE memory' = read
    BY <1>1, <1>2, <1>3, <1>4, <1>5, <2>1 DEF Stored, Inv, Under
  <2>2. CASE UNCHANGED memory
    BY <1>1, <2>2 DEF Stored, Inv
  <2> QED
    BY <1>1, <2>1, <2>2
<1>7. Waiting' /\ ConsumedOnce' /\ Answered'
  BY <1>1 DEF Inv, Waiting, ConsumedOnce, Answered, history
<1> QED
  BY <1>1, <1>6, <1>7 DEF Inv, TypeOK, Waiting, Stored, Sound, history

LEMMA InitInv == Init => Inv
<1> SUFFICES ASSUME Init PROVE Inv
  OBVIOUS
<1>1. EmptyState \in Contents
  BY BoundsAssumption DEF EmptyState, Contents
<1>2. Chain({})
  BY FS_EmptySet DEF Chain, HasLast, Verifies
<1>3. Sound(EmptyState) /\ Under(EmptyState, EmptyState)
  BY <1>1, <1>2, UnderIsOrder DEF Sound, OneProofEach, EmptyState
<1>4. Stored
  BY <1>3 DEF Init, Stored, EmptyState
<1>5. TypeOK /\ memory.exports \subseteq anchored
  BY <1>1 DEF Init, TypeOK, EmptyState
<1> QED
  BY <1>4, <1>5 DEF Init, Inv, Waiting, ConsumedOnce, Answered

LEMMA NextInv == Inv /\ [Next]_vars => Inv'
<1> SUFFICES ASSUME Inv, [Next]_vars PROVE Inv'
  OBVIOUS
<1>1. ASSUME NEW c \in Challenges, IssueChallenge(c) PROVE Inv'
  BY <1>1, IssueStep
<1>2. ASSUME NEW c \in Challenges, GetExpiredChallenge(c) PROVE Inv'
  BY <1>2, LookupStep
<1>3. ASSUME NEW c \in Challenges, ConsumeChallenge(c) PROVE Inv'
  BY <1>3, ConsumeStep
<1>4. ASSUME NEW c \in Challenges, Expire(c) PROVE Inv'
  BY <1>4, ExpireStep
<1>5. ASSUME NEW p \in Payments, RecordPayment(p) PROVE Inv'
  BY <1>5, PaymentStep
<1>6. ASSUME NEW h \in Handlers, NEW k \in Keys, Upsert(h, k) PROVE Inv'
  BY <1>6, UpsertStep
<1>7. ASSUME NEW h \in Handlers, NEW id \in Ids, NEW reading \in Readings,
             Append(h, id, reading)
      PROVE  Inv'
  BY <1>7, AppendStep
<1>8. ASSUME NEW h \in Handlers, NEW payments \in SUBSET Payments, BeginExport(h, payments)
      PROVE  Inv'
  BY <1>8, BeginExportStep
<1>9. ASSUME NEW h \in Handlers, NEW limit \in Ids, BeginHeadExport(h, limit) PROVE Inv'
  BY <1>9, BeginHeadExportStep
<1>10. ASSUME NEW h \in Handlers, Publish(h) PROVE Inv'
  BY <1>10, PublishStep
<1>11. ASSUME NEW h \in Handlers, RecordExport(h) PROVE Inv'
  BY <1>11, RecordExportStep
<1>12. CASE Restart
  BY <1>12, RestartStep
<1>13. CASE UNCHANGED vars
  <2> USE <1>13 DEF vars, history
  <2>1. Stored' /\ TypeOK' /\ memory'.exports \subseteq anchored'
    BY DEF Inv, Stored, TypeOK
  <2>2. Waiting' /\ ConsumedOnce' /\ Answered'
    BY DEF Inv, Waiting, ConsumedOnce, Answered
  <2> QED
    BY <2>1, <2>2 DEF Inv
<1> QED
  BY <1>1, <1>2, <1>3, <1>4, <1>5, <1>6, <1>7, <1>8, <1>9, <1>10, <1>11, <1>12, <1>13
     DEF Next

LEMMA AlwaysInv == Spec => []Inv
BY InitInv, NextInv, PTL DEF Spec

----------------------------------------------------------------------------
(* The variables of both drivers stay in their types: what the stores of   *)
(* apps/console-api hold, requests on their way, and the history.          *)
THEOREM TypeCorrect == Spec => []TypeOK
<1>1. Inv => TypeOK
  BY DEF Inv
<1> QED
  BY <1>1, AlwaysInv, PTL

(* consume() of the file and of the Postgres challenge store answers true  *)
(* once at most for an id, whatever write fails and whenever the console   *)
(* restarts, and what it answered for is on file.                          *)
THEOREM ConsumedOnceEver == Spec => []ConsumedOnce
<1>1. Inv => ConsumedOnce
  BY DEF Inv
<1> QED
  BY <1>1, AlwaysInv, PTL

(* A payment that record() answered true for, and the audit event of a     *)
(* change that was answered with success, survive every restart; payments  *)
(* on file have different proofs.                                          *)
THEOREM AnswersDurable == Spec => []AnsweredIsDurable
<1>1. Inv => AnsweredIsDurable
  BY DEF Inv, Answered, Stored, Sound, OneProofEach, AnsweredIsDurable
<1> QED
  BY <1>1, AlwaysInv, PTL

(* The audit log on file never reports a change or an export that is not   *)
(* on file itself, though a failed write stays in the memory of the file   *)
(* store and is written together with a later one.                         *)
THEOREM LogFollowsData == Spec => []AuditFollowsChange
<1>1. Inv => AuditFollowsChange
  BY DEF Inv, Stored, Under, BackedBy, AuditFollowsChange
<1> QED
  BY <1>1, AlwaysInv, PTL

(* createChainedConsoleAuditEvent keeps a chain that verifyAuditHashChain  *)
(* accepts, as a whole and in each window list({limit}) answers with,      *)
(* though the clock stands still or goes back.                             *)
THEOREM ChainAlwaysVerifies == Spec => []ChainVerifies
<1>1. ASSUME Inv PROVE ChainVerifies
  <2>1. Chain(memory.audit) /\ Chain(file.audit)
    BY <1>1 DEF Inv, Stored, Sound
  <2>2. ASSUME NEW E, Chain(E)
        PROVE  Verifies(E, FALSE) /\ \A limit \in Ids : Verifies(Window(E, limit), TRUE)
    <3>1. Verifies(E, FALSE)
      BY <2>2 DEF Chain
    <3> QED
      BY <2>2, <3>1, WindowsVerify
  <2> QED
    BY <2>1, <2>2 DEF ChainVerifies
<1> QED
  BY <1>1, AlwaysInv, PTL

(* An export the console has on record was stored by Walrus, and the       *)
(* payments and the audit event it shows are on file with it.              *)
THEOREM ExportsBacked == Spec => []ExportsAreBacked
<1>1. Inv => ExportsAreBacked
  BY DEF Inv, Stored, Sound, Under, Shows, ExportsAreBacked
<1> QED
  BY <1>1, AlwaysInv, PTL
=============================================================================
