------------------------- MODULE IndexerSync_proofs -------------------------
(***************************************************************************)
(* Theorems about IndexerSync, for every number of runners, every size of  *)
(* pages, runs and checkpoints and any number of failures: types, and that *)
(* the durable cursor never runs ahead of the index.                       *)
(***************************************************************************)
EXTENDS IndexerSync, TLAPS

LEMMA PositionTypes ==
  /\ Start \in Cursors
  /\ \A c \in Cursors : c.checkpoint \in Nat \ {0} /\ c.offset \in Nat
BY DEF Start, Cursors

(* What a step of the fetch loop takes out of the current checkpoint.      *)
LEMMA TakenTypes ==
  ASSUME TypeOK, NEW w \in Workers, pc[w] = "fetch",
         cursor[w].checkpoint <= Len(chain)
  PROVE  /\ cursor[w].checkpoint \in DOMAIN chain
         /\ chain[cursor[w].checkpoint] \in Nat
         /\ Left(w) = chain[cursor[w].checkpoint] - cursor[w].offset
         /\ Left(w) \in Nat
         /\ Taken(w) \in Nat
         /\ Taken(w) <= Left(w)
         /\ fetched[w] + Taken(w) <= PageLimit
         /\ Selected(w) \in Seq(Events)
         /\ Len(Selected(w)) = Taken(w)
<1>1. /\ cursor[w].checkpoint \in Nat \ {0}
      /\ cursor[w].offset \in Nat
      /\ cursor[w].checkpoint \in DOMAIN chain
      /\ chain[cursor[w].checkpoint] \in Nat
      /\ cursor[w].offset <= chain[cursor[w].checkpoint]
  BY PositionTypes DEF TypeOK, ValidCursor
<1>2. /\ Left(w) = chain[cursor[w].checkpoint] - cursor[w].offset
      /\ Left(w) \in Nat
  BY <1>1 DEF Left
<1>3. /\ Taken(w) \in Nat
      /\ Taken(w) <= Left(w)
      /\ fetched[w] + Taken(w) <= PageLimit
  BY <1>2, PagingAssumption DEF Taken, Least, TypeOK
<1>4. \A i \in 1..Taken(w) : <<cursor[w].checkpoint, cursor[w].offset + i>> \in Events
  BY <1>1, <1>3 DEF Events
<1> QED
  BY <1>1, <1>2, <1>3, <1>4 DEF Selected

(* The position after a checkpoint, or a part of it, was taken. *)
LEMMA NextPosition ==
  ASSUME TypeOK, NEW w \in Workers, pc[w] = "fetch",
         cursor[w].checkpoint <= Len(chain)
  PROVE  /\ LET c == [checkpoint |-> cursor[w].checkpoint,
                      offset     |-> cursor[w].offset + Taken(w)]
            IN  c \in Cursors /\ ValidCursor(c)
         /\ LET c == [checkpoint |-> cursor[w].checkpoint + 1, offset |-> 0]
            IN  c \in Cursors /\ ValidCursor(c)
<1> DEFINE n == cursor[w].checkpoint
           o == cursor[w].offset
           t == Taken(w)
<1>1. /\ n \in Nat \ {0} /\ n <= Len(chain) /\ o \in Nat /\ t \in Nat
      /\ Len(chain) \in Nat /\ \A m \in 1..Len(chain) : chain[m] \in Nat
  <2>1. cursor[w] \in Cursors /\ chain \in Seq(Nat)
    BY DEF TypeOK
  <2>2. n \in Nat \ {0} /\ o \in Nat
    BY <2>1, PositionTypes
  <2>3. t \in Nat
    BY TakenTypes
  <2>4. Len(chain) \in Nat /\ \A m \in 1..Len(chain) : chain[m] \in Nat
    BY <2>1
  <2> QED
    BY <2>2, <2>3, <2>4
<1>2. chain[n] \in Nat /\ o + t <= chain[n]
  <2>1. Left(w) = chain[n] - o /\ Left(w) \in Nat /\ t <= Left(w)
    BY TakenTypes
  <2>2. chain[n] \in Nat
    BY TakenTypes
  <2> HIDE DEF n, o, t
  <2> QED
    BY <1>1, <2>1, <2>2
<1> HIDE DEF n, o, t
<1>3. [checkpoint |-> n, offset |-> o + t] \in Cursors
  BY <1>1 DEF Cursors
<1>4. ValidCursor([checkpoint |-> n, offset |-> o + t])
  BY <1>1, <1>2 DEF ValidCursor
<1>5. [checkpoint |-> n + 1, offset |-> 0] \in Cursors
  BY <1>1 DEF Cursors
<1>6. ValidCursor([checkpoint |-> n + 1, offset |-> 0])
  BY <1>1 DEF ValidCursor
<1> QED
  BY <1>3, <1>4, <1>5, <1>6 DEF n, o, t

LEMMA TakeTypes ==
  ASSUME TypeOK, NEW w \in Workers, pc[w] = "fetch",
         cursor[w].checkpoint <= Len(chain), Take(w)
  PROVE  /\ page' \in [Workers -> Seq(Events)]
         /\ fetched' \in [Workers -> 0..PageLimit]
         /\ fetched'[w] = fetched[w] + Taken(w)
         /\ \A v \in Workers : v # w => fetched'[v] = fetched[v]
<1>1. page[w] \o Selected(w) \in Seq(Events)
  BY TakenTypes DEF TypeOK
<1>2. page' \in [Workers -> Seq(Events)]
  BY <1>1 DEF Take, TypeOK
<1>3. fetched[w] + Taken(w) \in 0..PageLimit
  BY TakenTypes, PagingAssumption DEF TypeOK
<1>4. /\ fetched' \in [Workers -> 0..PageLimit]
      /\ fetched'[w] = fetched[w] + Taken(w)
      /\ \A v \in Workers : v # w => fetched'[v] = fetched[v]
  BY <1>3 DEF Take, TypeOK
<1> QED
  BY <1>2, <1>4

LEMMA TakePartTypes ==
  ASSUME TypeOK, NEW w \in Workers, TakePart(w)
  PROVE  TypeOK'
<1> DEFINE c == [checkpoint |-> cursor[w].checkpoint,
                 offset     |-> cursor[w].offset + Taken(w)]
<1>1. /\ pc[w] = "fetch" /\ cursor[w].checkpoint <= Len(chain) /\ Take(w)
      /\ cursor' = [cursor EXCEPT ![w] = c]
  BY DEF TakePart
<1>2. c \in Cursors /\ ValidCursor(c)
  BY <1>1, NextPosition
<1> HIDE DEF c
<1>3. /\ cursor' \in [Workers -> Cursors]
      /\ \A v \in Workers : ValidCursor(cursor'[v])
  BY <1>1, <1>2 DEF TypeOK
<1>4. UNCHANGED <<chain, store, saved, scanned, pages, failures>>
  BY DEF TakePart
<1>5. \A v \in Workers : ValidCursor(cursor[v])'
  BY <1>3, <1>4 DEF ValidCursor
<1>6. ValidCursor(saved)'
  BY <1>4 DEF TypeOK, ValidCursor
<1>7. /\ page' \in [Workers -> Seq(Events)]
      /\ fetched' \in [Workers -> 0..PageLimit]
      /\ \A v \in Workers : v # w => fetched'[v] = fetched[v]
  BY <1>1, TakeTypes
<1>8. /\ pc' \in [Workers -> {"idle", "fetch", "upsert", "save"}]
      /\ more' \in [Workers -> BOOLEAN]
      /\ pc'[w] = "upsert"
      /\ \A v \in Workers : v # w => pc'[v] = pc[v]
  BY DEF TakePart, Goto, TypeOK
<1> QED
  BY <1>1, <1>3, <1>4, <1>5, <1>6, <1>7, <1>8 DEF TypeOK

LEMMA TakeAllTypes ==
  ASSUME TypeOK, NEW w \in Workers, TakeAll(w)
  PROVE  TypeOK'
<1> DEFINE c == [checkpoint |-> cursor[w].checkpoint + 1, offset |-> 0]
           full == fetched'[w] >= PageLimit \/ scanned'[w] >= MaxScan
<1>1. /\ pc[w] = "fetch" /\ cursor[w].checkpoint <= Len(chain) /\ Take(w)
      /\ cursor' = [cursor EXCEPT ![w] = c]
  BY DEF TakeAll
<1>2. c \in Cursors /\ ValidCursor(c)
  BY <1>1, NextPosition
<1>3. /\ more' = [more EXCEPT ![w] = full]
      /\ pc' = [pc EXCEPT ![w] = IF full THEN "upsert" ELSE "fetch"]
      /\ scanned' = [scanned EXCEPT ![w] = scanned[w] + 1]
  BY DEF TakeAll, Goto
<1>4. /\ fetched'[w] \in 0..PageLimit
      /\ scanned'[w] \in 0..MaxScan /\ scanned' \in [Workers -> 0..MaxScan]
      /\ \A v \in Workers : v # w => scanned'[v] = scanned[v]
  BY <1>1, <1>3, TakeTypes, PagingAssumption DEF TypeOK
<1>5. ~full => fetched'[w] < PageLimit /\ scanned'[w] < MaxScan
  BY <1>4, PagingAssumption
<1>6. full \in BOOLEAN
  OBVIOUS
<1> HIDE DEF c, full
<1>7. /\ cursor' \in [Workers -> Cursors]
      /\ \A v \in Workers : ValidCursor(cursor'[v])
  BY <1>1, <1>2 DEF TypeOK
<1>8. UNCHANGED <<chain, store, saved, pages, failures>>
  BY DEF TakeAll
<1>9. \A v \in Workers : ValidCursor(cursor[v])'
  BY <1>7, <1>8 DEF ValidCursor
<1>10. ValidCursor(saved)'
  BY <1>8 DEF TypeOK, ValidCursor
<1>11. /\ page' \in [Workers -> Seq(Events)]
       /\ fetched' \in [Workers -> 0..PageLimit]
       /\ \A v \in Workers : v # w => fetched'[v] = fetched[v]
  BY <1>1, TakeTypes
<1>12. /\ pc' \in [Workers -> {"idle", "fetch", "upsert", "save"}]
       /\ pc'[w] = "fetch" => ~full
       /\ pc'[w] \in {"fetch", "upsert"} => pc[w] \in {"fetch", "upsert"}
       /\ \A v \in Workers : v # w => pc'[v] = pc[v]
  BY <1>1, <1>3 DEF TypeOK
<1>13. more' \in [Workers -> BOOLEAN]
  BY <1>3, <1>6 DEF TypeOK
<1> QED
  BY <1>4, <1>5, <1>7, <1>8, <1>9, <1>10, <1>11, <1>12, <1>13 DEF TypeOK

(* The type invariant, with valid cursors                                  *)
(* (packages/indexer/src/index.ts:1201-1264, sync.ts:113-143).             *)
THEOREM TypeCorrect == Spec => []TypeOK
<1>1. Init => TypeOK
  BY PagingAssumption, PositionTypes DEF Init, TypeOK, ValidCursor, Start
<1>2. TypeOK /\ [Next]_vars => TypeOK'
  <2> SUFFICES ASSUME TypeOK, [Next]_vars PROVE TypeOK'
    OBVIOUS
  <2> USE PagingAssumption, BoundsAssumption, PositionTypes DEF TypeOK, ValidCursor, run
  <2>1. ASSUME NEW n \in 0..MaxEvents, Produce(n) PROVE TypeOK'
    BY <2>1 DEF Produce
  <2>2. ASSUME NEW w \in Workers, Run(w) PROVE TypeOK'
    <3>1. CASE Begin(w)
      BY <3>1 DEF Begin, Goto, Start
    <3>2. CASE ReachHead(w)
      BY <3>2 DEF ReachHead, Goto
    <3>3. CASE TakePart(w)
      BY <3>3, TakePartTypes
    <3>4. CASE TakeAll(w)
      BY <3>4, TakeAllTypes
    <3>5. CASE Upsert(w)
      BY <3>5 DEF Upsert
    <3>6. CASE EndPage(w)
      BY <3>6 DEF EndPage, Goto
    <3>7. CASE Save(w)
      BY <3>7 DEF Save, Goto
    <3> QED
      BY <2>2, <3>1, <3>2, <3>3, <3>4, <3>5, <3>6, <3>7 DEF Run
  <2>3. ASSUME NEW w \in Workers, Fail(w) PROVE TypeOK'
    BY <2>3 DEF Fail, Goto
  <2>4. CASE UNCHANGED vars
    BY <2>4 DEF vars
  <2> QED
    BY <2>1, <2>2, <2>3, <2>4 DEF Next
<1> QED
  BY <1>1, <1>2, PTL DEF Spec

----------------------------------------------------------------------------
(* The inductive invariant: what is in front of a runner's own position is *)
(* in the store already, or on the page the runner is about to upsert.  A  *)
(* position is saved when the page is empty, and whoever saves it, it was  *)
(* covered once and the store only grows.                                  *)

OnPage(w, e) == \E i \in 1..Len(page[w]) : page[w][i] = e

Covered(w) ==
  \A n \in DOMAIN chain : \A k \in 1..chain[n] :
    Before(<<n, k>>, cursor[w]) => <<n, k>> \in store \/ OnPage(w, <<n, k>>)

CoverInv ==
  /\ NoEventSkipped
  /\ \A w \in Workers : pc[w] # "idle" => Covered(w)
  /\ \A w \in Workers : pc[w] = "save" => page[w] = <<>>

(* Taking events onto the page covers the position behind them. *)
LEMMA TakeCovers ==
  ASSUME TypeOK, CoverInv, NEW w \in Workers, pc[w] = "fetch",
         cursor[w].checkpoint <= Len(chain), Take(w), UNCHANGED <<chain, store>>,
         \/ cursor'[w] = [checkpoint |-> cursor[w].checkpoint,
                          offset     |-> cursor[w].offset + Taken(w)]
         \/ /\ Taken(w) = Left(w)
            /\ cursor'[w] = [checkpoint |-> cursor[w].checkpoint + 1, offset |-> 0]
  PROVE  Covered(w)'
<1> DEFINE c   == cursor[w].checkpoint
           o   == cursor[w].offset
           t   == Taken(w)
           old == page[w]
           sel == Selected(w)
           new == page'[w]
<1>1. /\ c \in Nat /\ o \in Nat /\ t \in Nat
      /\ old \in Seq(Events) /\ sel \in Seq(Events)
      /\ Len(sel) = t
      /\ new = old \o sel
  BY TakenTypes, PositionTypes DEF TypeOK, Take
<1>2. \A i \in 1..t : sel[i] = <<c, o + i>>
  BY DEF Selected
<1>3. t = Left(w) => o + t = chain[c]
  BY <1>1, TakenTypes
<1>4. ASSUME NEW e, OnPage(w, e) PROVE OnPage(w, e)'
  BY <1>1, <1>4 DEF OnPage
<1>5. ASSUME NEW n \in Nat, NEW k \in Nat, n = c, o < k, k <= o + t
      PROVE  OnPage(w, <<n, k>>)'
  <2> HIDE DEF c, o, t, old, sel, new
  <2> DEFINE i == k - o
  <2>1. i \in 1..t /\ o + i = k
    BY <1>1, <1>5
  <2>2. sel[i] = <<n, k>>
    BY <1>2, <1>5, <2>1
  <2> HIDE DEF i
  <2>3. Len(old) + i \in 1..Len(new) /\ new[Len(old) + i] = sel[i]
    BY <1>1, <2>1
  <2>4. \E j \in 1..Len(new) : new[j] = <<n, k>>
    BY <2>2, <2>3
  <2> QED
    BY <2>4 DEF OnPage, new
<1>6. ASSUME NEW n \in DOMAIN chain, NEW k \in 1..chain[n], Before(<<n, k>>, cursor'[w])
      PROVE  <<n, k>> \in store \/ OnPage(w, <<n, k>>)'
  <2>1. n \in Nat /\ k \in Nat /\ chain[n] \in Nat /\ k <= chain[n]
    BY DEF TypeOK
  <2>2. CASE Before(<<n, k>>, cursor[w])
    <3>1. <<n, k>> \in store \/ OnPage(w, <<n, k>>)
      BY <2>2 DEF CoverInv, Covered
    <3> QED
      BY <1>4, <3>1
  <2>3. CASE ~Before(<<n, k>>, cursor[w])
    <3>1. ~(n < c) /\ ~(n = c /\ k <= o)
      BY <2>3 DEF Before
    <3>2. \/ n < c
          \/ n = c /\ k <= o + t
          \/ o + t = chain[c] /\ (n < c + 1 \/ (n = c + 1 /\ k <= 0))
      <4> DEFINE q == cursor'[w]
      <4>0. n < q.checkpoint \/ (n = q.checkpoint /\ k <= q.offset)
        BY <1>6 DEF Before
      <4>1. CASE cursor'[w] = [checkpoint |-> c, offset |-> o + t]
        <5>1. q.checkpoint = c /\ q.offset = o + t
          BY <4>1
        <5> HIDE DEF q, c, o, t
        <5> QED
          BY <4>0, <5>1
      <4>2. CASE t = Left(w) /\ cursor'[w] = [checkpoint |-> c + 1, offset |-> 0]
        <5>1. q.checkpoint = c + 1 /\ q.offset = 0 /\ o + t = chain[c]
          BY <1>3, <4>2
        <5> HIDE DEF q, c, o, t
        <5> QED
          BY <4>0, <5>1
      <4> QED
        BY <4>1, <4>2
    <3> HIDE DEF c, o, t
    <3>3. n = c /\ o < k /\ k <= o + t
      BY <1>1, <1>6, <2>1, <3>1, <3>2
    <3> QED
      BY <1>5, <2>1, <3>3
  <2> QED
    BY <2>2, <2>3
<1> QED
  BY <1>6 DEF Covered

(* The other runners' positions, and the saved one, stay covered while the *)
(* chain stays and the store grows.                                        *)
LEMMA CoverMonotone ==
  ASSUME TypeOK, CoverInv, UNCHANGED chain, store \subseteq store'
  PROVE  /\ UNCHANGED saved => NoEventSkipped'
         /\ \A w \in Workers :
              pc[w] # "idle" /\ cursor'[w] = cursor[w] /\ page'[w] = page[w] => Covered(w)'
<1>1. ASSUME UNCHANGED saved PROVE NoEventSkipped'
  <2>1. \A n \in DOMAIN chain' : \A k \in 1..chain'[n] :
          Before(<<n, k>>, saved') => <<n, k>> \in store
    BY <1>1 DEF CoverInv, NoEventSkipped
  <2> QED
    BY <2>1 DEF NoEventSkipped, Before
<1>2. ASSUME NEW w \in Workers, pc[w] # "idle", cursor'[w] = cursor[w], page'[w] = page[w]
      PROVE  Covered(w)'
  <2>1. \A n \in DOMAIN chain' : \A k \in 1..chain'[n] :
          Before(<<n, k>>, cursor'[w]) => <<n, k>> \in store \/ OnPage(w, <<n, k>>)
    BY <1>2 DEF CoverInv, Covered
  <2>2. \A e : OnPage(w, e) => OnPage(w, e)'
    BY <1>2 DEF OnPage
  <2> QED
    BY <2>1, <2>2 DEF Covered, Before
<1> QED
  BY <1>1, <1>2

LEMMA CoverStep == TypeOK /\ CoverInv /\ [Next]_vars => CoverInv'
<1> SUFFICES ASSUME TypeOK, CoverInv, [Next]_vars PROVE CoverInv'
  OBVIOUS
<1> USE DEF run
<1>1. ASSUME NEW n \in 0..MaxEvents, Produce(n) PROVE CoverInv'
  <2>1. /\ chain \in Seq(Nat) /\ chain' = Append(chain, n) /\ n \in Nat
        /\ UNCHANGED <<store, saved, pc, cursor, page>>
    BY <1>1, BoundsAssumption DEF Produce, TypeOK
  <2>2. \A m \in DOMAIN chain' : \/ m \in DOMAIN chain /\ chain'[m] = chain[m]
                                 \/ m = Len(chain) + 1
    BY <2>1
  <2>3. ASSUME NEW c \in Cursors, ValidCursor(c), NEW k \in Nat \ {0}
        PROVE  ~Before(<<Len(chain) + 1, k>>, c)
    BY <2>1, <2>3, PositionTypes DEF ValidCursor, Before
  <2>4. NoEventSkipped'
    BY <2>1, <2>2, <2>3 DEF CoverInv, NoEventSkipped, TypeOK
  <2>5. ASSUME NEW w \in Workers, Covered(w) PROVE Covered(w)'
    <3>1. ASSUME NEW m \in DOMAIN chain', NEW k \in 1..chain'[m],
                 Before(<<m, k>>, cursor[w])
          PROVE  <<m, k>> \in store \/ OnPage(w, <<m, k>>)
      BY <2>1, <2>2, <2>3, <2>5, <3>1 DEF Covered, TypeOK
    <3> QED
      BY <2>1, <3>1 DEF Covered, OnPage, Before
  <2> QED
    BY <2>1, <2>4, <2>5 DEF CoverInv
<1>2. ASSUME NEW w \in Workers, Run(w) PROVE CoverInv'
  <2>1. CASE Begin(w)
    <3>1. cursor'[w] = Start \/ cursor'[w] = saved
      BY <2>1 DEF Begin, TypeOK
    <3>2. \A n \in DOMAIN chain : \A k \in 1..chain[n] : ~Before(<<n, k>>, Start)
      BY DEF Before, Start, TypeOK
    <3>3. UNCHANGED <<chain, store, saved>>
      BY <2>1 DEF Begin
    <3>4. Covered(w)'
      BY <3>1, <3>2, <3>3 DEF Covered, CoverInv, NoEventSkipped
    <3> QED
      BY <2>1, <3>3, <3>4, CoverMonotone DEF Begin, Goto, CoverInv, TypeOK
  <2>2. CASE ReachHead(w)
    BY <2>2, CoverMonotone DEF ReachHead, Goto, CoverInv, TypeOK
  <2>3. CASE TakePart(w)
    <3>1. Covered(w)'
      BY <2>3, TakeCovers DEF TakePart, TypeOK, Cursors
    <3> QED
      BY <2>3, <3>1, CoverMonotone DEF TakePart, Take, Goto, CoverInv, TypeOK
  <2>4. CASE TakeAll(w)
    <3>1. Covered(w)'
      BY <2>4, TakeCovers DEF TakeAll, TypeOK
    <3> QED
      BY <2>4, <3>1, CoverMonotone DEF TakeAll, Take, Goto, CoverInv, TypeOK
  <2>5. CASE Upsert(w)
    <3>1. /\ page[w] \in Seq(Events) /\ page[w] # <<>>
          /\ page'[w] = Tail(page[w]) /\ store' = store \cup {page[w][1]}
          /\ UNCHANGED <<chain, cursor, pc, saved>>
      BY <2>5 DEF Upsert, TypeOK
    <3>2. ASSUME NEW e, OnPage(w, e) PROVE e \in store' \/ OnPage(w, e)'
      <4>1. PICK i \in 1..Len(page[w]) : page[w][i] = e
        BY <3>2 DEF OnPage
      <4>2. CASE i = 1
        BY <3>1, <4>1, <4>2
      <4>3. CASE i # 1
        <5>1. i - 1 \in 1..Len(page'[w]) /\ page'[w][i - 1] = e
          BY <3>1, <4>1, <4>3
        <5> QED
          BY <5>1 DEF OnPage
      <4> QED
        BY <4>2, <4>3
    <3>3. Covered(w)'
      BY <2>5, <3>1, <3>2 DEF Covered, CoverInv, Upsert
    <3> QED
      BY <2>5, <3>1, <3>3, CoverMonotone DEF Upsert, CoverInv, TypeOK
  <2>6. CASE EndPage(w)
    BY <2>6, CoverMonotone DEF EndPage, Goto, CoverInv, TypeOK
  <2>7. CASE Save(w)
    <3>1. page[w] = <<>> /\ Covered(w) /\ saved' = cursor[w]
          /\ UNCHANGED <<chain, store, cursor, page>>
      BY <2>7 DEF Save, CoverInv
    <3>2. NoEventSkipped'
      BY <3>1 DEF Covered, OnPage, NoEventSkipped
    <3> QED
      BY <2>7, <3>1, <3>2, CoverMonotone DEF Save, Goto, CoverInv, TypeOK
  <2> QED
    BY <1>2, <2>1, <2>2, <2>3, <2>4, <2>5, <2>6, <2>7 DEF Run
<1>3. ASSUME NEW w \in Workers, Fail(w) PROVE CoverInv'
  BY <1>3, CoverMonotone DEF Fail, Goto, CoverInv, TypeOK
<1>4. CASE UNCHANGED vars
  BY <1>4, CoverMonotone DEF vars, CoverInv
<1> QED
  BY <1>1, <1>2, <1>3, <1>4 DEF Next

(* No event in front of the durable cursor is missing from the index       *)
(* (packages/indexer/src/index.ts:1207-1262, sync.ts:113-133).             *)
THEOREM NoneSkipped == Spec => []NoEventSkipped
<1>1. Init => CoverInv
  BY DEF Init, CoverInv, NoEventSkipped
<1>2. CoverInv => NoEventSkipped
  BY DEF CoverInv
<1> QED
  BY <1>1, <1>2, CoverStep, TypeCorrect, PTL DEF Spec
=============================================================================
