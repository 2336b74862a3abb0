---------------------------- MODULE IndexerSync ----------------------------
(***************************************************************************)
(* The indexer of packages/indexer: runners that sync session spend (or    *)
(* settlement) events from the checkpoints of a fullnode's gRPC service    *)
(* into an index store.  Every run resumes at the saved cursor, reads      *)
(* pages of checkpoints, upserts their events one by one and saves the     *)
(* cursor at the end.  Runs fail and are retried; several runners may      *)
(* share a cursor key, each awaiting in the middle of the other's run.     *)
(*                                                                         *)
(* The chain is external: checkpoints are appended, each with a number of  *)
(* matching events.                                                        *)
(***************************************************************************)
EXTENDS Naturals, Sequences

CONSTANTS
  Workers,         \* indexer processes that share one cursor key
  PageLimit,       \* events per page (pageLimit)
  MaxScan,         \* checkpoints per page (maxCheckpointsPerPage)
  MaxPages,        \* pages per run (maxPages)
  PinnedCursor,    \* whether the runner was started with --cursor
  MaxCheckpoints,  \* bound: checkpoints the chain grows to
  MaxEvents,       \* bound: matching events in a checkpoint
  MaxFailures      \* bound: runs that fail

ASSUME PagingAssumption ==
  /\ PageLimit \in Nat \ {0}
  /\ MaxScan \in Nat \ {0}
  /\ MaxPages \in Nat \ {0}
  /\ PinnedCursor \in BOOLEAN

ASSUME BoundsAssumption ==
  /\ MaxCheckpoints \in Nat
  /\ MaxEvents \in Nat
  /\ MaxFailures \in Nat

VARIABLES
  chain,     \* checkpoint -> number of matching events in it
  store,     \* events in the index store
  saved,     \* the durable cursor
  pc,        \* worker -> where its run stands
  cursor,    \* worker -> its position
  page,      \* worker -> events it fetched and has not upserted yet
  fetched,   \* worker -> events fetched for this page so far
  scanned,   \* worker -> checkpoints scanned for this page so far
  pages,     \* worker -> pages fetched in this run before this one
  more,      \* worker -> hasNextPage of the page
  failures   \* runs that failed so far

run  == <<pc, cursor, page, fetched, scanned, pages, more>>
vars == <<chain, store, saved, run, failures>>

(* The k-th matching event of checkpoint n is <<n, k>>. *)
Events  == (Nat \ {0}) \X (Nat \ {0})
Cursors == [checkpoint : Nat \ {0}, offset : Nat]
Start   == [checkpoint |-> 1, offset |-> 0]

OnChain(e) == e[1] \in 1..Len(chain) /\ e[2] \in 1..chain[e[1]]

(* A cursor stands for the events in front of it. *)
Before(e, c) ==
  \/ e[1] < c.checkpoint
  \/ e[1] = c.checkpoint /\ e[2] <= c.offset

Least(m, n) == IF m <= n THEN m ELSE n

Goto(w, label) == pc' = [pc EXCEPT ![w] = label]

----------------------------------------------------------------------------
Init ==
  /\ chain = <<>>
  /\ store = {}
  /\ saved = Start
  /\ pc = [w \in Workers |-> "idle"]
  /\ cursor = [w \in Workers |-> Start]
  /\ page = [w \in Workers |-> <<>>]
  /\ fetched = [w \in Workers |-> 0]
  /\ scanned = [w \in Workers |-> 0]
  /\ pages = [w \in Workers |-> 0]
  /\ more = [w \in Workers |-> FALSE]
  /\ failures = 0

(* The chain grows by a checkpoint with n matching events. *)
Produce(n) ==
  /\ Len(chain) < MaxCheckpoints
  /\ chain' = Append(chain, n)
  /\ UNCHANGED <<store, saved, run, failures>>

(* Mutant: the runner keeps resuming at the cursor it was started with. *)
BeginPinned(w) ==
  /\ pc[w] = "idle"
  /\ Goto(w, "fetch")
  /\ cursor' = [cursor EXCEPT ![w] = Start]
  /\ page' = [page EXCEPT ![w] = <<>>]
  /\ fetched' = [fetched EXCEPT ![w] = 0]
  /\ scanned' = [scanned EXCEPT ![w] = 0]
  /\ pages' = [pages EXCEPT ![w] = 0]
  /\ more' = [more EXCEPT ![w] = FALSE]
  /\ UNCHANGED <<chain, store, saved, failures>>

(* runIndexerSyncOnce: config.cursor, or await cursorStore.getCursor. *)
Begin(w) ==
  /\ pc[w] = "idle"
  /\ Goto(w, "fetch")
  /\ cursor' = [cursor EXCEPT ![w] = IF PinnedCursor THEN Start ELSE saved]
  /\ page' = [page EXCEPT ![w] = <<>>]
  /\ fetched' = [fetched EXCEPT ![w] = 0]
  /\ scanned' = [scanned EXCEPT ![w] = 0]
  /\ pages' = [pages EXCEPT ![w] = 0]
  /\ more' = [more EXCEPT ![w] = FALSE]
  /\ UNCHANGED <<chain, store, saved, failures>>

(* The events a page takes from the checkpoint the cursor is in: what is   *)
(* left of it behind the offset, as far as the page has room.              *)
Left(w) == LET n == chain[cursor[w].checkpoint] IN
  IF cursor[w].offset < n THEN n - cursor[w].offset ELSE 0
Taken(w) == Least(PageLimit - fetched[w], Left(w))
Selected(w) ==
  [i \in 1..Taken(w) |-> <<cursor[w].checkpoint, cursor[w].offset + i>>]

Take(w) ==
  /\ page' = [page EXCEPT ![w] = @ \o Selected(w)]
  /\ fetched' = [fetched EXCEPT ![w] = @ + Taken(w)]

(* await getCheckpoint answers nothing: the head of the chain is reached. *)
ReachHead(w) ==
  /\ pc[w] = "fetch"
  /\ cursor[w].checkpoint > Len(chain)
  /\ Goto(w, "upsert")
  /\ UNCHANGED <<chain, store, saved, cursor, page, fetched, scanned, pages,
                 more, failures>>

(* Mutant: a page that fills up in the middle of a checkpoint moves on to  *)
(* the next one.                                                           *)
TakePartDropsRest(w) ==
  /\ pc[w] = "fetch"
  /\ cursor[w].checkpoint <= Len(chain)
  /\ Taken(w) < Left(w)
  /\ Take(w)
  /\ cursor' = [cursor EXCEPT ![w] = [checkpoint |-> @.checkpoint + 1, offset |-> 0]]
  /\ more' = [more EXCEPT ![w] = TRUE]
  /\ Goto(w, "upsert")
  /\ UNCHANGED <<chain, store, saved, scanned, pages, failures>>

(* The page fills up in the middle of a checkpoint. *)
TakePart(w) ==
  /\ pc[w] = "fetch"
  /\ cursor[w].checkpoint <= Len(chain)
  /\ Taken(w) < Left(w)
  /\ Take(w)
  /\ cursor' = [cursor EXCEPT ![w] = [checkpoint |-> @.checkpoint,
                                      offset     |-> @.offset + Taken(w)]]
  /\ more' = [more EXCEPT ![w] = TRUE]
  /\ Goto(w, "upsert")
  /\ UNCHANGED <<chain, store, saved, scanned, pages, failures>>

(* The rest of a checkpoint fits; the page goes on with the next one       *)
(* unless it is full by now, in events or in checkpoints.                  *)
TakeAll(w) ==
  /\ pc[w] = "fetch"
  /\ cursor[w].checkpoint <= Len(chain)
  /\ Taken(w) = Left(w)
  /\ Take(w)
  /\ cursor' = [cursor EXCEPT ![w] = [checkpoint |-> @.checkpoint + 1, offset |-> 0]]
  /\ scanned' = [scanned EXCEPT ![w] = @ + 1]
  /\ LET full == fetched'[w] >= PageLimit \/ scanned'[w] >= MaxScan IN
       /\ more' = [more EXCEPT ![w] = full]
       /\ Goto(w, IF full THEN "upsert" ELSE "fetch")
  /\ UNCHANGED <<chain, store, saved, pages, failures>>

(* await store.upsert(record), in the order of the chain. *)
Upsert(w) ==
  /\ pc[w] = "upsert"
  /\ page[w] # <<>>
  /\ store' = store \cup {Head(page[w])}
  /\ page' = [page EXCEPT ![w] = Tail(@)]
  /\ UNCHANGED <<chain, saved, pc, cursor, fetched, scanned, pages, more, failures>>

(* The page is done: the next page, or the end of the run. *)
EndPage(w) ==
  /\ pc[w] = "upsert"
  /\ page[w] = <<>>
  /\ Goto(w, IF more[w] /\ pages[w] + 1 < MaxPages THEN "fetch" ELSE "save")
  /\ pages' = [pages EXCEPT ![w] = @ + 1]
  /\ fetched' = [fetched EXCEPT ![w] = 0]
  /\ scanned' = [scanned EXCEPT ![w] = 0]
  /\ more' = [more EXCEPT ![w] = FALSE]
  /\ UNCHANGED <<chain, store, saved, cursor, page, failures>>

(* await cursorStore.setCursor: whoever comes last wins. *)
Save(w) ==
  /\ pc[w] = "save"
  /\ saved' = cursor[w]
  /\ Goto(w, "idle")
  /\ UNCHANGED <<chain, store, cursor, page, fetched, scanned, pages, more, failures>>

(* An await rejects, or the process dies: the loop starts a new run.  An   *)
(* upsert or a save whose reply is lost fails right after its effect.      *)
Fail(w) ==
  /\ pc[w] # "idle"
  /\ failures < MaxFailures
  /\ failures' = failures + 1
  /\ Goto(w, "idle")
  /\ UNCHANGED <<chain, store, saved, cursor, page, fetched, scanned, pages, more>>

Run(w) ==
  \/ Begin(w)
  \/ ReachHead(w)
  \/ TakePart(w)
  \/ TakeAll(w)
  \/ Upsert(w)
  \/ EndPage(w)
  \/ Save(w)

Next ==
  \/ \E n \in 0..MaxEvents : Produce(n)
  \/ \E w \in Workers : Run(w)
  \/ \E w \in Workers : Fail(w)

Spec == Init /\ [][Next]_vars

(* The loop of sync.ts runs for ever without --max-runs: it sleeps, begins *)
(* a new run, and every await of a run settles.                            *)
FairSpec == Spec /\ \A w \in Workers : WF_vars(Run(w))

----------------------------------------------------------------------------
(* The type invariant, with the shape of a cursor: it never points past    *)
(* the end of a checkpoint or past the checkpoint that comes next.         *)
ValidCursor(c) ==
  /\ c.checkpoint <= Len(chain) + 1
  /\ c.offset <= IF c.checkpoint <= Len(chain) THEN chain[c.checkpoint] ELSE 0

TypeOK ==
  /\ chain \in Seq(Nat)
  /\ store \subseteq Events
  /\ saved \in Cursors /\ ValidCursor(saved)
  /\ pc \in [Workers -> {"idle", "fetch", "upsert", "save"}]
  /\ cursor \in [Workers -> Cursors] /\ \A w \in Workers : ValidCursor(cursor[w])
  /\ page \in [Workers -> Seq(Events)]
  /\ fetched \in [Workers -> 0..PageLimit]
  /\ scanned \in [Workers -> 0..MaxScan]
  /\ pages \in [Workers -> 0..MaxPages]
  /\ more \in [Workers -> BOOLEAN]
  /\ failures \in Nat
  /\ \A w \in Workers :
       /\ pc[w] = "fetch" => fetched[w] < PageLimit /\ scanned[w] < MaxScan
       /\ pc[w] \in {"fetch", "upsert"} => pages[w] < MaxPages

(* The durable cursor never runs ahead of the index: every event in front  *)
(* of it is in the store, whatever the sizes of pages and checkpoints,     *)
(* failed runs and runners that overwrite each other's cursor.             *)
NoEventSkipped ==
  \A n \in DOMAIN chain : \A k \in 1..chain[n] :
    Before(<<n, k>>, saved) => <<n, k>> \in store

(* An event that is on the chain gets into the index, though runs fail and *)
(* a slow runner may set the cursor back.                                  *)
EventuallyIndexed ==
  \A n \in 1..MaxCheckpoints, k \in 1..MaxEvents :
    OnChain(<<n, k>>) ~> <<n, k>> \in store
=============================================================================
