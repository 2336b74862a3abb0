---------------------------- MODULE ConsoleStores ----------------------------
(***************************************************************************)
(* What the console keeps (apps/console-api): the JSON file store and the  *)
(* Postgres stores behind the same interfaces, the hash-chained audit log, *)
(* and the exports to Walrus, which publish, then record, then audit.      *)
(*                                                                         *)
(* The file store changes its memory first and then writes everything it   *)
(* holds to a temporary file that it renames; the write may throw, which   *)
(* leaves memory ahead of the file.  A restart reads the file.  Postgres   *)
(* has no memory of its own: there `memory' and `file' are the tables, and *)
(* a query that throws did nothing or lost only its answer.  An operation  *)
(* of the file store is synchronous, one of Postgres a statement or a      *)
(* transaction under a lock, consume() excepted.                           *)
(***************************************************************************)
EXTENDS Integers, FiniteSets

CONSTANTS
  Drivers,     \* subset of {"file", "postgres"}: what the console may run on
  Handlers,    \* requests in flight at once
  Challenges,  \* ids of challenges
  Payments,    \* ids of payment records
  ProofOf,     \* payment -> network and transaction digest of its proof
  Keys,        \* rows written by upsert: merchants, listings, applications, ...
  MaxVersion,  \* bound: times a row is written
  MaxEvents,   \* bound: audit events
  MaxExports,  \* bound: no export begins once Walrus holds so many
  Readings,    \* what the clock of the host may show
  Nothing

ASSUME BoundsAssumption ==
  /\ MaxVersion \in Nat /\ MaxEvents \in Nat /\ MaxExports \in Nat
  /\ Readings \subseteq Nat

(* Event ids are random UUIDs: numbers drawn in any order stand for them.  *)
(* The id of an event also stands for its hash; 0 is no predecessor.       *)
Ids       == 1..MaxEvents
Artifacts == [payments : SUBSET Payments, head : 0..MaxEvents]
About     == [key : Keys, version : 1..MaxVersion] \cup Artifacts
Events    == [id : Ids, at : Nat, previous : 0..MaxEvents, about : About]

Contents == [issued : SUBSET Challenges, consumed : SUBSET Challenges,
             payments : SUBSET Payments, rows : [Keys -> 0..MaxVersion],
             audit : SUBSET Events, exports : SUBSET Artifacts]

Tasks == [at : {"publish", "record", "audit"}, about : About]

VARIABLES
  driver,    \* how the console is configured
  memory,    \* #state of the file store
  file,      \* what a restart will read
  expired,   \* challenges past their expiresAt
  handler,   \* handler -> what is left of its request, Nothing while idle
  anchored,  \* artifacts that Walrus holds
  granted,   \* history: challenge -> times consume() answered true
  recorded,  \* history: payments that record() answered true for
  reported   \* history: audited changes and exports answered with success

history == <<granted, recorded, reported>>
vars    == <<driver, memory, file, expired, handler, anchored, history>>

----------------------------------------------------------------------------
EmptyState ==
  [issued |-> {}, consumed |-> {}, payments |-> {},
   rows |-> [k \in Keys |-> 0], audit |-> {}, exports |-> {}]

Init ==
  /\ driver \in Drivers
  /\ memory = EmptyState
  /\ file = EmptyState
  /\ expired = {}
  /\ handler = [h \in Handlers |-> Nothing]
  /\ anchored = {}
  /\ granted = [c \in Challenges |-> 0]
  /\ recorded = {}
  /\ reported = {}

(* Mutant: an export is written without what else memory holds. *)
SavedApart(next) ==
  /\ memory' = next
  /\ file' = IF next.exports # memory.exports
             THEN [file EXCEPT !.exports = next.exports]
             ELSE next

(* #write: everything memory holds, or an error that memory outlives. *)
Saved(next) == memory' = next /\ file' = next

Threw(next) ==
  IF driver = "file"
  THEN memory' = next /\ UNCHANGED file
  ELSE Saved(next) \/ UNCHANGED <<memory, file>>

Goto(h, at, about) == handler' = [handler EXCEPT ![h] = [at |-> at, about |-> about]]
Done(h)            == handler' = [handler EXCEPT ![h] = Nothing]
At(h, at)          == handler[h] # Nothing /\ handler[h].at = at

----------------------------------------------------------------------------
(* Challenges and payments of the gateway that runs in the console. *)

IssueChallenge(c) ==
  /\ c \notin memory.issued
  /\ driver = "postgres" => c \notin expired
  /\ LET next == [memory EXCEPT !.issued = @ \cup {c}] IN Saved(next) \/ Threw(next)
  /\ UNCHANGED <<driver, expired, handler, anchored, history>>

(* Looking an expired challenge up removes it. *)
GetExpiredChallenge(c) ==
  /\ c \in memory.issued \cap expired
  /\ LET next == [memory EXCEPT !.issued = @ \ {c}] IN Saved(next) \/ Threw(next)
  /\ UNCHANGED <<driver, expired, handler, anchored, history>>

(* Answers true unless the id was consumed, and whether it was issued or not. *)
ConsumeChallenge(c) ==
  /\ c \notin memory.consumed
  /\ LET next == [memory EXCEPT !.consumed = @ \cup {c}, !.issued = @ \ {c}] IN
     \/ Saved(next) /\ granted' = [granted EXCEPT ![c] = @ + 1]
     \/ Threw(next) /\ UNCHANGED granted
     \/ /\ driver = "postgres"    \* the challenge is deleted by a second statement
        /\ Saved([memory EXCEPT !.consumed = @ \cup {c}])
        /\ UNCHANGED granted
  /\ UNCHANGED <<driver, expired, handler, anchored, recorded, reported>>

(* Mutant: the id of a record is compared, its proof is not. *)
RecordPaymentById(p) ==
  /\ p \notin memory.payments
  /\ LET next == [memory EXCEPT !.payments = @ \cup {p}] IN
     \/ Saved(next) /\ recorded' = recorded \cup {p}
     \/ Threw(next) /\ UNCHANGED recorded
  /\ UNCHANGED <<driver, expired, handler, anchored, granted, reported>>

(* Answers false for an id or a proof that is there. *)
RecordPayment(p) ==
  /\ \A q \in memory.payments : q # p /\ ProofOf[q] # ProofOf[p]
  /\ LET next == [memory EXCEPT !.payments = @ \cup {p}] IN
     \/ Saved(next) /\ recorded' = recorded \cup {p}
     \/ Threw(next) /\ UNCHANGED recorded
  /\ UNCHANGED <<driver, expired, handler, anchored, granted, reported>>

(* Mutant: a failed write is audited like one that succeeded. *)
UpsertRegardless(h, k) ==
  /\ handler[h] = Nothing
  /\ memory.rows[k] < MaxVersion
  /\ LET version == memory.rows[k] + 1
         next    == [memory EXCEPT !.rows[k] = version]
     IN  /\ Saved(next) \/ Threw(next)
         /\ Goto(h, "audit", [key |-> k, version |-> version])
  /\ UNCHANGED <<driver, expired, anchored, history>>

(* A handler that writes a row audits it when the write has returned. *)
Upsert(h, k) ==
  /\ handler[h] = Nothing
  /\ memory.rows[k] < MaxVersion
  /\ LET version == memory.rows[k] + 1
         next    == [memory EXCEPT !.rows[k] = version]
     IN  \/ Saved(next) /\ Goto(h, "audit", [key |-> k, version |-> version])
         \/ Threw(next) /\ UNCHANGED handler
  /\ UNCHANGED <<driver, expired, anchored, history>>

----------------------------------------------------------------------------
(* The audit log: compareAuditEventsAscending, the last event of a set,    *)
(* and verifyAuditHashChain over all of the log or the end of it.          *)
Earlier(e, f) == e.at < f.at \/ (e.at = f.at /\ e.id < f.id)

Latest(events) == CHOOSE e \in events : \A f \in events \ {e} : Earlier(f, e)

Verifies(events, externalRoot) ==
  \A e \in events :
    LET before == {f \in events : Earlier(f, e)} IN
    IF before = {} THEN externalRoot \/ e.previous = 0
    ELSE e.previous = Latest(before).id

(* list({limit}) *)
Window(events, limit) ==
  {e \in events : Cardinality({f \in events : Earlier(e, f)}) < limit}

(* Mutant: the time of an event is what the clock shows. *)
ChainedByClock(id, reading, about, events) ==
  [id |-> id, at |-> reading, about |-> about,
   previous |-> IF events = {} THEN 0 ELSE Latest(events).id]

(* createChainedConsoleAuditEvent: never before its predecessor. *)
Chained(id, reading, about, events) ==
  IF events = {}
  THEN [id |-> id, at |-> reading, about |-> about, previous |-> 0]
  ELSE LET last == Latest(events) IN
       [id |-> id, about |-> about, previous |-> last.id,
        at |-> IF reading > last.at THEN reading ELSE last.at + 1]

(* ConsoleAuditLogStore.append; the request is answered when it returns. *)
Append(h, id, reading) ==
  /\ At(h, "audit")
  /\ \A e \in memory.audit \cup file.audit : e.id # id
  /\ LET about == handler[h].about
         next  == [memory EXCEPT !.audit =
                     @ \cup {Chained(id, reading, about, memory.audit)}]
     IN  \/ Saved(next) /\ reported' = reported \cup {about}
         \/ Threw(next) /\ UNCHANGED reported
  /\ Done(h)
  /\ UNCHANGED <<driver, expired, anchored, granted, recorded>>

----------------------------------------------------------------------------
(* Exports. *)

(* The payment ledger, or the receipts of the payments that have one. *)
BeginExport(h, payments) ==
  /\ handler[h] = Nothing
  /\ Cardinality(anchored) < MaxExports
  /\ payments \subseteq memory.payments
  /\ Goto(h, "publish", [payments |-> payments, head |-> 0])
  /\ UNCHANGED <<driver, memory, file, expired, anchored, history>>

(* The head of a window of the audit log that verifies. *)
BeginHeadExport(h, limit) ==
  LET window == Window(memory.audit, limit) IN
  /\ handler[h] = Nothing
  /\ Cardinality(anchored) < MaxExports
  /\ window # {}
  /\ Verifies(window, TRUE)
  /\ Goto(h, "publish", [payments |-> {}, head |-> Latest(window).id])
  /\ UNCHANGED <<driver, memory, file, expired, anchored, history>>

(* The publisher may fail, before or after it stored the artifact. *)
Publish(h) ==
  LET artifact == handler[h].about IN
  /\ At(h, "publish")
  /\ \/ anchored' = anchored \cup {artifact} /\ Goto(h, "record", artifact)
     \/ anchored' \in {anchored, anchored \cup {artifact}} /\ Done(h)
  /\ UNCHANGED <<driver, memory, file, expired, history>>

RecordExport(h) ==
  LET artifact == handler[h].about
      next     == [memory EXCEPT !.exports = @ \cup {artifact}]
  IN
  /\ At(h, "record")
  /\ \/ Saved(next) /\ Goto(h, "audit", artifact)
     \/ Threw(next) /\ Done(h)
  /\ UNCHANGED <<driver, expired, anchored, history>>

----------------------------------------------------------------------------
Expire(c) ==
  /\ c \notin expired
  /\ expired' = expired \cup {c}
  /\ UNCHANGED <<driver, memory, file, handler, anchored, history>>

(* Mutant: what was consumed is not read back. *)
RestartForgetful ==
  /\ handler' = [h \in Handlers |-> Nothing]
  /\ memory' = [file EXCEPT !.issued = @ \ expired, !.consumed = {}]
  /\ UNCHANGED <<driver, file, expired, anchored, history>>

(* The process ends, and one reads the file again; #read drops expired     *)
(* challenges.  With Postgres only the requests are gone.                  *)
Restart ==
  /\ handler' = [h \in Handlers |-> Nothing]
  /\ memory' = IF driver = "file" THEN [file EXCEPT !.issued = @ \ expired] ELSE memory
  /\ UNCHANGED <<driver, file, expired, anchored, history>>

Next ==
  \/ \E c \in Challenges :
       IssueChallenge(c) \/ GetExpiredChallenge(c) \/ ConsumeChallenge(c) \/ Expire(c)
  \/ \E p \in Payments : RecordPayment(p)
  \/ \E h \in Handlers :
       \/ \E k \in Keys : Upsert(h, k)
       \/ \E id \in Ids, reading \in Readings : Append(h, id, reading)
       \/ \E payments \in SUBSET Payments : BeginExport(h, payments)
       \/ \E limit \in Ids : BeginHeadExport(h, limit)
       \/ Publish(h)
       \/ RecordExport(h)
  \/ Restart

Spec == Init /\ [][Next]_vars

----------------------------------------------------------------------------
TypeOK ==
  /\ driver \in Drivers
  /\ memory \in Contents
  /\ file \in Contents
  /\ expired \subseteq Challenges
  /\ handler \in [Handlers -> Tasks \cup {Nothing}]
  /\ anchored \subseteq Artifacts
  /\ granted \in [Challenges -> Nat]
  /\ recorded \subseteq Payments
  /\ reported \subseteq About

(* Over failed writes and restarts no challenge is consumed twice, and one *)
(* that was consumed stays so.                                             *)
ConsumedOnce ==
  \A c \in Challenges : granted[c] <= 1 /\ (granted[c] = 1 => c \in file.consumed)

IsRow(about) == "key" \in DOMAIN about

(* What a caller saw succeed is on file, together with its audit event,    *)
(* and at most one payment of a proof.                                     *)
AnsweredIsDurable ==
  /\ recorded \subseteq file.payments
  /\ \A about \in reported : \E e \in file.audit : e.about = about
  /\ \A p, q \in file.payments : ProofOf[p] = ProofOf[q] => p = q

(* An audit event is on file only after what it reports, as                *)
(* docs/console-api.md promises: a failed write that memory keeps never    *)
(* lets the log run ahead of the data.                                     *)
AuditFollowsChange ==
  \A e \in file.audit :
    IF IsRow(e.about) THEN e.about.version <= file.rows[e.about.key]
    ELSE e.about \in file.exports

(* Whatever the clock shows and wherever a write fails, the chain on file  *)
(* verifies from its first event, and each window of it.                   *)
ChainVerifies ==
  \A events \in {memory.audit, file.audit} :
    /\ Verifies(events, FALSE)
    /\ \A limit \in Ids : Verifies(Window(events, limit), TRUE)

(* An export on record was published, and all it shows is on file: its     *)
(* payments and the audit event whose hash it anchors.                     *)
ExportsAreBacked ==
  \A x \in file.exports :
    /\ x \in anchored
    /\ x.payments \subseteq file.payments
    /\ x.head # 0 => \E e \in file.audit : e.id = x.head
=============================================================================
