-------------------------- MODULE SettlementLedger --------------------------
(***************************************************************************)
(* The settlement ledgers of the Move package (settlement.move): an object *)
(* that counts every receipt id once, alone or in a batch, and the events  *)
(* an indexer reconciles receipts with.  A transaction that aborts leaves  *)
(* no trace.  The vectors of settle_batch are taken as one sequence of     *)
(* receipts: vectors of different lengths abort.                           *)
(***************************************************************************)
EXTENDS Naturals, SequencesExt

CONSTANTS
  Ledgers,      \* object ids
  ReceiptIds,   \* receipt ids
  NoId,         \* the empty receipt id
  Claims,       \* what a receipt says besides its id and amount
  MaxAmount,    \* bound: the largest amount of a receipt
  MaxBatch,     \* bound: receipts in a batch
  MaxU64        \* the largest u64

ASSUME LedgerAssumption ==
  /\ IsFiniteSet(Ledgers)
  /\ NoId \notin ReceiptIds
  /\ MaxAmount \in Nat
  /\ MaxBatch \in Nat
  /\ MaxU64 \in Nat

VARIABLES
  created,  \* ledgers that exist
  table,    \* ledger -> settled_receipts
  count,    \* ledger -> receipt_count
  total,    \* ledger -> total_amount
  events    \* what was emitted, in order

vars == <<created, table, count, total, events>>

Receipts == [id : ReceiptIds \cup {NoId}, claim : Claims, amount : 0..MaxAmount]

(* The events ReceiptSettled and BatchSettled. *)
ReceiptSettled(l, r) ==
  [ledger |-> l, settles |-> r.id, claim |-> {r.claim}, amount |-> r.amount,
   receipts |-> 1]
BatchSettled(l, batch, sum) ==
  [ledger |-> l, settles |-> NoId, claim |-> {}, amount |-> sum,
   receipts |-> Len(batch)]

(* A ledger in the course of a transaction, with the amounts added up and  *)
(* the events emitted so far; an aborted transaction stays aborted.        *)
Begin(l) == [aborted |-> FALSE, table |-> table[l], count |-> count[l],
             total |-> total[l], sum |-> 0, events |-> <<>>]

(* Mutant: a receipt that is settled already is counted again. *)
SettleOneAgain(l, tx, r) ==
  IF \/ tx.aborted
     \/ r.id = NoId
     \/ r.amount = 0
     \/ tx.total + r.amount > MaxU64
    THEN [tx EXCEPT !.aborted = TRUE]
    ELSE [tx EXCEPT
           !.table = @ \cup {r}, !.count = @ + 1, !.total = @ + r.amount,
           !.sum = @ + r.amount,
           !.events = Append(@, ReceiptSettled(l, r))]

(* settle_one *)
SettleOne(l, tx, r) ==
  IF \/ tx.aborted
     \/ r.id = NoId
     \/ r.amount = 0
     \/ \E settled \in tx.table : settled.id = r.id
     \/ tx.total + r.amount > MaxU64
    THEN [tx EXCEPT !.aborted = TRUE]
    ELSE [tx EXCEPT
           !.table = @ \cup {r}, !.count = @ + 1, !.total = @ + r.amount,
           !.sum = @ + r.amount,
           !.events = Append(@, ReceiptSettled(l, r))]

(* The loop of settle_batch: the ledger after each of the receipts. *)
SettleAll(l, batch) ==
  LET after[i \in 0..Len(batch)] ==
        IF i = 0 THEN Begin(l) ELSE SettleOne(l, after[i - 1], batch[i])
  IN after[Len(batch)]

Commit(l, tx) ==
  /\ ~tx.aborted
  /\ table' = [table EXCEPT ![l] = tx.table]
  /\ count' = [count EXCEPT ![l] = tx.count]
  /\ total' = [total EXCEPT ![l] = tx.total]
  /\ UNCHANGED created

----------------------------------------------------------------------------
Init ==
  /\ created = {}
  /\ table = [l \in Ledgers |-> {}]
  /\ count = [l \in Ledgers |-> 0]
  /\ total = [l \in Ledgers |-> 0]
  /\ events = <<>>

(* create_ledger *)
CreateLedger(l) ==
  /\ l \notin created
  /\ created' = created \cup {l}
  /\ UNCHANGED <<table, count, total, events>>

(* settle_receipt *)
SettleReceipt(l, r) ==
  LET tx == SettleOne(l, Begin(l), r) IN
  /\ l \in created
  /\ Commit(l, tx)
  /\ events' = events \o tx.events

(* Mutant: a bad receipt is left out and the rest of the batch goes on. *)
SettleBatchLeniently(l, batch) ==
  LET Try(tx, r) == LET next == SettleOne(l, tx, r) IN IF next.aborted THEN tx ELSE next
      tx == FoldLeft(Try, Begin(l), batch)
  IN
  /\ l \in created
  /\ batch # <<>>
  /\ Commit(l, tx)
  /\ events' = events \o Append(tx.events,
       BatchSettled(l, batch, tx.sum))

(* settle_batch: all of the receipts, and a closing BatchSettled event. *)
SettleBatch(l, batch) ==
  LET tx == SettleAll(l, batch) IN
  /\ l \in created
  /\ batch # <<>>
  /\ Commit(l, tx)
  /\ events' = events \o Append(tx.events,
       BatchSettled(l, batch, tx.sum))

Next ==
  \/ \E l \in Ledgers : CreateLedger(l)
  \/ \E l \in Ledgers, r \in Receipts : SettleReceipt(l, r)
  \/ \E l \in Ledgers, batch \in BoundedSeq(Receipts, MaxBatch) : SettleBatch(l, batch)

Spec == Init /\ [][Next]_vars

----------------------------------------------------------------------------
SumOf(S) == SumFunctionOnSet([r \in S |-> r.amount], S)

(* The replay accounting of a ledger: the table holds an id once, and the  *)
(* two totals are those of the table and fit a u64, whatever batches were  *)
(* aborted.                                                                *)
TotalsMatchTable ==
  \A l \in Ledgers :
    /\ \A r, q \in table[l] : r.id = q.id => r = q
    /\ count[l] = Cardinality(table[l])
    /\ total[l] = SumOf(table[l]) /\ total[l] <= MaxU64

IsBatch(e) == e.settles = NoId

(* Where the receipts of a ledger are told. *)
Told(l) == {i \in DOMAIN events : events[i].ledger = l /\ ~IsBatch(events[i])}

(* The events that the BatchSettled at a position closes. *)
Closes(i) == (i - events[i].receipts)..(i - 1)

(* What an indexer sees: a ledger emits one ReceiptSettled per id it holds *)
(* and none for another, and a BatchSettled comes right after the receipts *)
(* it counts and adds up.                                                  *)
EventsTellTheTable ==
  /\ \A l \in Ledgers :
       /\ \A i, j \in Told(l) : events[i].settles = events[j].settles => i = j
       /\ {events[i] : i \in Told(l)} = {ReceiptSettled(l, r) : r \in table[l]}
  /\ \A i \in DOMAIN events : IsBatch(events[i]) =>
       /\ events[i].receipts \in 1..(i - 1)
       /\ \A k \in Closes(i) : events[k].ledger = events[i].ledger /\ ~IsBatch(events[k])
       /\ events[i].amount = SumFunctionOnSet([k \in Closes(i) |-> events[k].amount], Closes(i))
=============================================================================
