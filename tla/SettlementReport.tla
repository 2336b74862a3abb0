-------------------------- MODULE SettlementReport --------------------------
(***************************************************************************)
(* From the ledgers to the reconciliation report: payments with a signed   *)
(* receipt are recorded, receipts are settled on the ledgers of            *)
(* SettlementLedger, the indexer reads the two kinds of settlement events  *)
(* through the GraphQL service, one page of each at a time and with one    *)
(* combined cursor, and the console compares receipts with the newest of   *)
(* the indexed events (settlements.ts).  Receipts may be settled with      *)
(* other fields than were signed, on two ledgers, before or without a      *)
(* payment record.                                                         *)
(*                                                                         *)
(* The GraphQL service is external: it pages through the events of a kind  *)
(* and answers an empty page without an end cursor.  So are the times of   *)
(* the checkpoints, which every event carries: TimeOf lists them by the    *)
(* position of a transaction's last event.                                 *)
(***************************************************************************)
EXTENDS SettlementLedger

CONSTANTS
  PageLimit,    \* pageLimit of the indexer: events of both kinds
  MaxPages,     \* maxPages of a run
  ReportLimit,  \* payments a report looks at
  EventLimit,   \* settlement records a report looks at (1000)
  TimeOf,       \* position -> timestampMs of the checkpoint
  MaxPayments,  \* bound: payments that are recorded
  MaxEvents,    \* bound: events the ledgers emit
  MaxFailures   \* bound: runs of the indexer that fail

ASSUME ReportAssumption ==
  /\ PageLimit \in Nat \ {0}
  /\ MaxPages \in Nat \ {0}
  /\ ReportLimit \in Nat
  /\ EventLimit \in Nat
  /\ TimeOf \in [1..MaxEvents -> Nat]
  /\ \A m, n \in 1..MaxEvents : m <= n => TimeOf[m] <= TimeOf[n]
  /\ {MaxPayments, MaxEvents, MaxFailures} \subseteq Nat

VARIABLES
  payments,  \* receipts of the recorded payments, oldest first
  index,     \* settlement records: id and the event it was made of
  saved,     \* the durable cursor
  pc,        \* where the run of the indexer stands
  cursor,    \* its cursor: the last event read of either kind, or 0
  page,      \* kind -> events that were fetched and not upserted yet
  more,      \* hasNextPage
  pages,     \* pages of this run that are done
  failures   \* runs that failed so far

run == <<pc, cursor, page, more, pages>>
pipeline == <<payments, index, saved, run, failures>>
pipelineVars == <<vars, pipeline>>

Kinds == {"receipt", "batch"}
NoCursor == [kind \in Kinds |-> 0]
NoEvents == [kind \in Kinds |-> {}]

KindOf(i) == IF IsBatch(events[i]) THEN "batch" ELSE "receipt"

(* The transaction of an event: a batch is closed by its BatchSettled. *)
Tx(i) ==
  LET closing == {j \in i..Len(events) :
                    IsBatch(events[j]) /\ j - events[j].receipts <= i}
  IN IF closing = {} THEN i ELSE Min(closing)

(* Mutant: records are told apart by their transaction. *)
TxDigest(i) == <<Tx(i)>>

(* The id of a record: `${txDigest}:${eventSeq}`. *)
RecordId(i) == <<Tx(i), i>>

PerKind == (PageLimit + 1) \div 2

(* The events of a kind behind a position, which the service pages through. *)
Behind(kind, position) ==
  {i \in DOMAIN events : i > position /\ KindOf(i) = kind}

(* The next page: the first PerKind events behind the cursor of the kind. *)
NextPage(kind) ==
  LET behind == Behind(kind, cursor[kind]) IN
  {i \in behind : Cardinality({j \in behind : j < i}) < PerKind}

IdlePipeline ==
  /\ payments = <<>>
  /\ index = {}
  /\ saved = NoCursor
  /\ pc = "idle"
  /\ cursor = NoCursor
  /\ page = NoEvents
  /\ more = FALSE
  /\ pages = 0
  /\ failures = 0

PipelineInit == Init /\ IdlePipeline

----------------------------------------------------------------------------
(* The ledgers go on by themselves. *)
Settle ==
  /\ Len(events) < MaxEvents
  /\ Next
  /\ Len(events') <= MaxEvents
  /\ UNCHANGED pipeline

(* stores.payments.record: a signed receipt has an id of its own. *)
RecordPayment(r) ==
  /\ Len(payments) < MaxPayments
  /\ r.id # NoId /\ r.amount > 0
  /\ \A i \in DOMAIN payments : payments[i].id # r.id
  /\ payments' = Append(payments, r)
  /\ UNCHANGED <<vars, index, saved, run, failures>>

(* runIndexerSyncOnce: the run resumes at the saved cursor. *)
Resume ==
  /\ pc = "idle"
  /\ pc' = "receipt"
  /\ cursor' = saved
  /\ page' = NoEvents
  /\ more' = FALSE
  /\ pages' = 0
  /\ UNCHANGED <<vars, payments, index, saved, failures>>

(* Mutant: the two kinds share the position of the later one. *)
FetchKindShared(kind) ==
  LET next == NextPage(kind) IN
  /\ pc = kind
  /\ page' = [page EXCEPT ![kind] = next]
  /\ cursor' = [k \in Kinds |-> IF next = {} THEN cursor[k] ELSE Max(next)]
  /\ more' = (more \/ next # Behind(kind, cursor[kind]))
  /\ pc' = IF kind = "receipt" THEN "batch" ELSE "upsert"
  /\ UNCHANGED <<vars, payments, index, saved, pages, failures>>

(* fetchSettlementKind: an empty page takes the cursor of its kind back to *)
(* the start.  The chain may grow between the two kinds.                   *)
FetchKind(kind) ==
  LET next == NextPage(kind) IN
  /\ pc = kind
  /\ page' = [page EXCEPT ![kind] = next]
  /\ cursor' = [cursor EXCEPT ![kind] = IF next = {} THEN 0 ELSE Max(next)]
  /\ more' = (more \/ next # Behind(kind, cursor[kind]))
  /\ pc' = IF kind = "receipt" THEN "batch" ELSE "upsert"
  /\ UNCHANGED <<vars, payments, index, saved, pages, failures>>

(* normalizeSettlementEvent and await store.upsert, one event at a time,   *)
(* the receipts of the page before its batches.                            *)
Upsert(kind) ==
  LET i == Min(page[kind]) IN
  /\ pc = "upsert"
  /\ page[kind] # {}
  /\ kind = "batch" => page["receipt"] = {}
  /\ index' = {record \in index : record.id # RecordId(i)}
                \cup {[id |-> RecordId(i), event |-> events[i]]}
  /\ page' = [page EXCEPT ![kind] = @ \ {i}]
  /\ UNCHANGED <<vars, payments, saved, pc, cursor, more, pages, failures>>

(* The page is done: another one, or the end of the run. *)
EndPage ==
  /\ pc = "upsert"
  /\ page = NoEvents
  /\ pc' = IF more /\ cursor # NoCursor /\ pages + 1 < MaxPages THEN "receipt" ELSE "save"
  /\ pages' = pages + 1
  /\ more' = FALSE
  /\ UNCHANGED <<vars, payments, index, saved, cursor, page, failures>>

(* setCursor, unless the run came to no cursor at all. *)
Save ==
  /\ pc = "save"
  /\ saved' = IF cursor = NoCursor THEN saved ELSE cursor
  /\ pc' = "idle"
  /\ UNCHANGED <<vars, payments, index, cursor, page, more, pages, failures>>

(* A fetch, an upsert or the save of the cursor fails, or the process ends: *)
(* the loop of the indexer begins a new run.                                *)
Fail ==
  /\ pc # "idle"
  /\ failures < MaxFailures
  /\ failures' = failures + 1
  /\ pc' = "idle"
  /\ UNCHANGED <<vars, payments, index, saved, cursor, page, more, pages>>

Sync ==
  \/ Resume
  \/ \E kind \in Kinds : FetchKind(kind) \/ Upsert(kind)
  \/ EndPage
  \/ Save

PipelineNext ==
  \/ Settle
  \/ \E r \in Receipts : RecordPayment(r)
  \/ Sync
  \/ Fail

PipelineSpec == PipelineInit /\ [][PipelineNext]_pipelineVars

----------------------------------------------------------------------------
(* The reconciliation report (buildSettlementReconciliationReport). *)

(* The payments of the report: the latest ones, up to its limit. *)
Reported ==
  {payments[i] : i \in {j \in DOMAIN payments : j + ReportLimit > Len(payments)}}

(* stores.settlementEvents.list({ limit: 1000 }): the newest records of    *)
(* either kind.  Records of one time are told apart by their ids, which    *)
(* begin with a digest, or by when they were indexed: any of them may be   *)
(* the ones left out.                                                      *)
Listings ==
  {listed \in SUBSET index :
     /\ Cardinality(listed) = Min({EventLimit, Cardinality(index)})
     /\ \A record \in listed, other \in index \ listed :
          TimeOf[record.id[1]] >= TimeOf[other.id[1]]}

(* Events of the receipt with an id, of any ledger. *)
EventsOf(id, listed) == {record \in listed : record.event.settles = id}

Matches(r, event) == event.claim = {r.claim} /\ event.amount = r.amount

(* Mutant: any number of events that match is a settlement. *)
StatusOfAny(r, listed) ==
  IF EventsOf(r.id, listed) = {} THEN "unsettled"
  ELSE IF \E record \in EventsOf(r.id, listed) : Matches(r, record.event) THEN "settled"
  ELSE "mismatched"

(* reconciliationStatus *)
Status(r, listed) ==
  IF EventsOf(r.id, listed) = {} THEN "unsettled"
  ELSE IF Cardinality(EventsOf(r.id, listed)) > 1 THEN "duplicate"
  ELSE IF \A record \in EventsOf(r.id, listed) : Matches(r, record.event) THEN "settled"
  ELSE "mismatched"

SettledAmount(listed) == SumOf({r \in Reported : Status(r, listed) = "settled"})

----------------------------------------------------------------------------
Indexed(i) == \E record \in index : record.id = RecordId(i) /\ record.event = events[i]

(* The durable cursor of either kind never runs ahead of the index: what   *)
(* is in front of it was upserted, though the kinds are paged unevenly, a  *)
(* cursor starts over and runs fail.                                       *)
NoEventSkipped ==
  \A i \in DOMAIN events : i <= saved[KindOf(i)] => Indexed(i)

Holders(r) == {l \in Ledgers : \E settled \in table[l] : settled.id = r.id}

(* Fewer events than a report looks at are as new as this one. *)
Recent(i) ==
  Cardinality({j \in DOMAIN events \ {i} : TimeOf[Tx(j)] >= TimeOf[Tx(i)]}) < EventLimit

(* What the report says of a payment is so on the ledgers, though events   *)
(* are read again and again and the report looks at the newest only:       *)
(* "settled" means exactly this receipt is on a ledger, "mismatched" that  *)
(* another one has its id, "duplicate" that two ledgers hold the id; the   *)
(* settled amount is covered by the ledgers; and once the index is         *)
(* complete, of a receipt none of whose events is behind EventLimit newer  *)
(* ones, "unsettled" means that no ledger holds it, and no double          *)
(* settlement of it goes unreported.                                       *)
ReportIsTruthful ==
  \A listed \in Listings :
    /\ \A r \in Reported :
         /\ Status(r, listed) = "settled" => \E l \in Ledgers : r \in table[l]
         /\ Status(r, listed) = "mismatched" => \E l \in Holders(r) : r \notin table[l]
         /\ Status(r, listed) = "duplicate" => Cardinality(Holders(r)) > 1
    /\ SettledAmount(listed) <= SumFunctionOnSet(total, Ledgers)
    /\ (\A i \in DOMAIN events : Indexed(i)) =>
         \A r \in Reported :
           (\A i \in DOMAIN events : events[i].settles = r.id => Recent(i)) =>
             /\ Status(r, listed) = "unsettled" => Holders(r) = {}
             /\ Cardinality(Holders(r)) > 1 => Status(r, listed) = "duplicate"
=============================================================================
