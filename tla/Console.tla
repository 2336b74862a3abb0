------------------------------ MODULE Console ------------------------------
(***************************************************************************)
(* The console's merchant life cycle (apps/console-api): applications,     *)
(* their ownership proof, wallet proof and access token, the operator's    *)
(* review, direct creation, the seller's updates and the reviewed change   *)
(* of high-risk fields.  Every handler reads records, awaits, and writes   *)
(* whole records back; no store compares what it overwrites.  A step is    *)
(* what a handler does between two store calls, so the handlers interleave *)
(* at every await, on one process or on several.  A handler can end at any *)
(* await (a rejected call, a crash); the stores survive.                   *)
(*                                                                         *)
(* The audit event each handler appends last is in ConsoleStores.          *)
(***************************************************************************)
EXTENDS Naturals, FiniteSets

CONSTANTS
  Handlers,        \* requests in flight at once
  Applications,    \* ids of merchant applications
  Changes,         \* ids of merchant change requests
  Merchants,       \* merchant ids, of gateway configurations and listings alike
  HighRisk,        \* the fields only an operator may change
  Values,          \* what a field may be set to
  Offers,          \* the configurations that applications and operators send
  Wishes,          \* the changes of high-risk fields that sellers ask for
  SessionEnabled,  \* merchants with a sessionPackageId
  Nothing

ASSUME FieldsAssumption == HighRisk \subseteq {"merchant", "network", "coinType"}

(* The rest of a configuration, which a seller may change. *)
Fields  == HighRisk \cup {"price"}
Configs == [Fields -> Values]
Patches == UNION {[F -> Values] : F \in SUBSET HighRisk \ {{}}}

ASSUME InputsAssumption == Offers \subseteq Configs /\ Wishes \subseteq Patches

(* The verification of an application is absent when it names no upstream. *)
Verifications == {"absent", "pending", "failed", "verified"}
Statuses      == {"pending", "approved", "rejected"}

ApplicationRecords ==
  [status : Statuses, verification : Verifications,
   merchant : Merchants, config : Configs]
ChangeRecords == [status : Statuses, merchant : Merchants, changes : Patches]

Operations == {"submit", "verify", "attach", "reject", "approve",
               "create", "seller", "change", "rejectChange", "apply"}
Steps == {"proof", "vacant", "overlap", "exists", "target",
          "merchant", "listing", "update"}

Tasks == [op : Operations, at : Steps,
          id : Applications \cup Changes \cup {Nothing},
          doc : ApplicationRecords \cup ChangeRecords \cup {Nothing},
          merchant : Merchants, config : Configs \cup {Nothing}]

ASSUME NothingAssumption ==
  Nothing \notin Configs \cup ApplicationRecords \cup ChangeRecords \cup Tasks

VARIABLES
  applications,  \* id -> application
  requests,      \* id -> merchant change request
  merchants,     \* id -> configuration the gateway serves
  listings,      \* id -> terms the marketplace shows
  handler,       \* handler -> its task, Nothing while it is idle
  proved,        \* history: applications whose ownership proof was found
  published,     \* history: applications a merchant was written from, and whether
                 \*          the copy it was written from named an upstream
  reviewed,      \* history: merchant -> high-risk values an operator let through
  torn           \* history: merchants two writers overlapped on, or one left halfway

stores  == <<applications, requests, merchants, listings>>
history == <<proved, published, reviewed, torn>>
vars    == <<stores, handler, history>>

----------------------------------------------------------------------------
(* Records as the handlers make them. *)

Merged(config, patch) ==
  [f \in Fields |-> IF f \in DOMAIN patch THEN patch[f] ELSE config[f]]

(* merchantChangeFields *)
Changed(config, patch) == {f \in DOMAIN patch : patch[f] # config[f]}

HighRiskOf(config) == {<<f, config[f]>> : f \in HighRisk}
PairsOf(patch)     == {<<f, patch[f]>> : f \in DOMAIN patch}

Writing(h, m) ==
  handler[h] # Nothing /\ handler[h].at = "listing" /\ handler[h].merchant = m

Begin(h, op, step, id, doc, m, config) ==
  /\ handler[h] = Nothing
  /\ handler' = [handler EXCEPT ![h] =
       [op |-> op, at |-> step, id |-> id, doc |-> doc, merchant |-> m,
        config |-> config]]

Goto(h, step) == handler' = [handler EXCEPT ![h].at = step]
Done(h)       == handler' = [handler EXCEPT ![h] = Nothing]
At(h, op, step) ==
  handler[h] # Nothing /\ handler[h].op = op /\ handler[h].at = step

(* A request whose check fails is answered and ends. *)
Check(h, ok, step) == IF ok THEN Goto(h, step) ELSE Done(h)

Init ==
  /\ applications = [a \in Applications |-> Nothing]
  /\ requests = [q \in Changes |-> Nothing]
  /\ merchants = [m \in Merchants |-> Nothing]
  /\ listings = [m \in Merchants |-> Nothing]
  /\ handler = [h \in Handlers |-> Nothing]
  /\ proved = {}
  /\ published = {}
  /\ reviewed = [m \in Merchants |-> {}]
  /\ torn = {}

----------------------------------------------------------------------------
(* Applications. *)

(* createMerchantApplication, and the lookup that turns an id away that is *)
(* taken.  A draft (POST /v1/publisher/apis/draft) has an upstream and     *)
(* looks for a merchant or listing of that name as well.                   *)
BeginSubmit(h, a, m, config, upstream, draft) ==
  /\ draft => upstream
  /\ applications[a] = Nothing
  /\ Begin(h, "submit", IF draft THEN "vacant" ELSE "update", a,
           [status |-> "pending",
            verification |-> IF upstream THEN "pending" ELSE "absent",
            merchant |-> m, config |-> config], m, Nothing)
  /\ UNCHANGED <<stores, history>>

CheckVacant(h) ==
  /\ At(h, "submit", "vacant")
  /\ LET m == handler[h].merchant IN
     Check(h, merchants[m] = Nothing /\ listings[m] = Nothing, "update")
  /\ UNCHANGED <<stores, history>>

(* The handlers that load an application and go on with that copy. *)
Load(h, op, a, step, doc) ==
  /\ Begin(h, op, step, a, doc, applications[a].merchant, Nothing)
  /\ UNCHANGED <<stores, history>>

BeginVerify(h, a) ==
  /\ applications[a] # Nothing
  /\ Load(h, "verify", a, "proof", applications[a])

(* The publisher's proof is fetched (well-known document, then DNS). *)
CheckProof(h, found) ==
  LET task == handler[h] IN
  /\ At(h, "verify", "proof")
  /\ IF task.doc.verification = "absent"
       THEN Goto(h, "update") /\ UNCHANGED proved
       ELSE /\ handler' = [handler EXCEPT
                  ![h].at = "update",
                  ![h].doc.verification = IF found THEN "verified" ELSE "failed"]
            /\ proved' = IF found THEN proved \cup {task.id} ELSE proved
  /\ UNCHANGED <<stores, published, reviewed, torn>>

(* The wallet's signature over the terms as loaded and a fresh access      *)
(* token are kept in the record, which is written back with them; the two  *)
(* values are left out.                                                    *)
BeginWalletProof(h, a) ==
  /\ applications[a] # Nothing
  /\ applications[a].status = "pending"
  /\ Load(h, "attach", a, "update", applications[a])

BeginRotate(h, a) ==
  /\ applications[a] # Nothing
  /\ applications[a].verification # "absent"
  /\ Load(h, "attach", a, "update", applications[a])

(* reviewMerchantApplication throws for one that is decided. *)
BeginReject(h, a) ==
  /\ applications[a] # Nothing
  /\ applications[a].status = "pending"
  /\ Load(h, "reject", a, "update", [applications[a] EXCEPT !.status = "rejected"])

(* Mutant: the verification is not asked for. *)
BeginApproveUnverified(h, a) ==
  /\ applications[a] # Nothing
  /\ Load(h, "approve", a, "target", applications[a])

(* Approval looks at the verification here, at the status only when it has *)
(* published.                                                              *)
BeginApprove(h, a) ==
  /\ applications[a] # Nothing
  /\ applications[a].verification \in {"absent", "verified"}
  /\ Load(h, "approve", a, "target", applications[a])

(* Mutant: the application is marked approved before it is published. *)
ApproveTargetEarly(h) ==
  LET task == handler[h] IN
  /\ At(h, "approve", "target")
  /\ merchants[task.merchant] = Nothing
  /\ handler' = [handler EXCEPT ![h].at = "merchant",
                                ![h].config = task.doc.config]
  /\ applications' = [applications EXCEPT ![task.id].status = "approved"]
  /\ UNCHANGED <<requests, merchants, listings, history>>

ApproveTarget(h) ==
  LET task == handler[h] IN
  /\ At(h, "approve", "target")
  /\ IF merchants[task.merchant] = Nothing
       THEN handler' = [handler EXCEPT ![h].at = "merchant",
                                       ![h].config = task.doc.config]
       ELSE Done(h)
  /\ UNCHANGED <<stores, history>>

----------------------------------------------------------------------------
(* Merchants. *)

(* POST /v1/merchants publishes what the operator sent. *)
BeginCreate(h, m, config) ==
  /\ Begin(h, "create", "merchant", Nothing, Nothing, m, config)
  /\ UNCHANGED <<stores, history>>

(* Mutant: an update may name any field. *)
BeginSellerUpdateAny(h, m, price) ==
  /\ merchants[m] # Nothing
  /\ Begin(h, "seller", "merchant", Nothing, Nothing, m, [f \in Fields |-> price])
  /\ UNCHANGED <<stores, history>>

(* A seller's update is the configuration as loaded with the fields sent. *)
BeginSellerUpdate(h, m, price) ==
  /\ merchants[m] # Nothing
  /\ Begin(h, "seller", "merchant", Nothing, Nothing, m,
           [merchants[m] EXCEPT !["price"] = price])
  /\ UNCHANGED <<stores, history>>

(* What an operator lets through with a task. *)
Sanctioned(task) ==
  CASE task.op \in {"approve", "create"} -> HighRiskOf(task.config)
    [] task.op = "apply"                 -> PairsOf(task.doc.changes)
    [] OTHER                             -> {}

(* Mutant: a seller's update leaves the listing as it is. *)
WriteMerchantOnly(h) ==
  LET task == handler[h] IN
  /\ task # Nothing
  /\ task.at = "merchant"
  /\ merchants' = [merchants EXCEPT ![task.merchant] = task.config]
  /\ IF task.op = "seller" THEN Done(h) ELSE Goto(h, "listing")
  /\ reviewed' = [reviewed EXCEPT ![task.merchant] = @ \cup Sanctioned(task)]
  /\ UNCHANGED <<applications, requests, listings, proved, published, torn>>

(* stores.merchants.upsert *)
WriteMerchant(h) ==
  LET task == handler[h]
      m    == task.merchant
  IN
  /\ task # Nothing
  /\ task.at = "merchant"
  /\ merchants' = [merchants EXCEPT ![m] = task.config]
  /\ Goto(h, "listing")
  /\ published' = IF task.op = "approve"
                  THEN published \cup {<<task.id, task.doc.verification # "absent">>}
                  ELSE published
  /\ reviewed' = [reviewed EXCEPT ![m] = @ \cup Sanctioned(task)]
  /\ torn' = IF \E g \in Handlers : Writing(g, m) THEN torn \cup {m} ELSE torn
  /\ UNCHANGED <<applications, requests, listings, proved>>

(* stores.listings.upsert; an application is marked approved unless the    *)
(* copy that was loaded had been decided, which throws.                    *)
WriteListing(h) ==
  LET task == handler[h] IN
  /\ task # Nothing
  /\ task.at = "listing"
  /\ listings' = [listings EXCEPT ![task.merchant] = task.config]
  /\ IF task.op \in {"approve", "apply"} /\ task.doc.status = "pending"
       THEN handler' = [handler EXCEPT ![h].at = "update",
                                       ![h].config = Nothing,
                                       ![h].doc.status = "approved"]
       ELSE Done(h)
  /\ UNCHANGED <<applications, requests, merchants, history>>

----------------------------------------------------------------------------
(* Change requests. *)

(* The seller asks for new high-risk values; a request that changes        *)
(* nothing is turned away.                                                 *)
BeginChange(h, q, m, patch) ==
  /\ merchants[m] # Nothing
  /\ Changed(merchants[m], patch) # {}
  /\ Begin(h, "change", "overlap", q,
           [status |-> "pending", merchant |-> m, changes |-> patch], m,
           merchants[m])
  /\ UNCHANGED <<stores, history>>

(* So is one that shares a field with a pending request of the merchant. *)
CheckOverlap(h) ==
  LET task == handler[h]
      pending == {p \in Changes : /\ requests[p] # Nothing
                                  /\ requests[p].status = "pending"
                                  /\ requests[p].merchant = task.merchant}
  IN
  /\ At(h, "change", "overlap")
  /\ IF \A p \in pending : Changed(task.config, requests[p].changes)
                             \cap Changed(task.config, task.doc.changes) = {}
       THEN handler' = [handler EXCEPT ![h].at = "exists", ![h].config = Nothing]
       ELSE Done(h)
  /\ UNCHANGED <<stores, history>>

CheckExists(h) ==
  /\ At(h, "change", "exists")
  /\ Check(h, requests[handler[h].id] = Nothing, "update")
  /\ UNCHANGED <<stores, history>>

(* The reviewer's handlers look at the status when they load the request. *)
LoadChange(h, op, q, step, doc) ==
  /\ Begin(h, op, step, q, doc, requests[q].merchant, Nothing)
  /\ UNCHANGED <<stores, history>>

BeginRejectChange(h, q) ==
  /\ requests[q] # Nothing
  /\ requests[q].status = "pending"
  /\ LoadChange(h, "rejectChange", q, "update",
                [requests[q] EXCEPT !.status = "rejected"])

BeginApply(h, q) ==
  /\ requests[q] # Nothing
  /\ requests[q].status = "pending"
  /\ LoadChange(h, "apply", q, "target", requests[q])

(* applyMerchantChangeRequest merges into the configuration as it is now. *)
ApplyTarget(h) ==
  LET task    == handler[h]
      m       == task.merchant
      changed == Changed(merchants[m], task.doc.changes)
  IN
  /\ At(h, "apply", "target")
  /\ IF /\ merchants[m] # Nothing
        /\ changed # {}
        /\ ~("network" \in changed /\ m \in SessionEnabled)
       THEN handler' = [handler EXCEPT
              ![h].at = "merchant",
              ![h].config = Merged(merchants[m], task.doc.changes)]
       ELSE Done(h)
  /\ UNCHANGED <<stores, history>>

----------------------------------------------------------------------------
(* stores.merchantApplications.submit and update, and those of requests:   *)
(* the whole record, whatever is there by now.                             *)
Update(h) ==
  LET task == handler[h] IN
  /\ task # Nothing
  /\ task.at = "update"
  /\ IF task.op \in {"change", "rejectChange", "apply"}
       THEN /\ requests' = [requests EXCEPT ![task.id] = task.doc]
            /\ UNCHANGED applications
       ELSE /\ applications' = [applications EXCEPT ![task.id] = task.doc]
            /\ UNCHANGED requests
  /\ Done(h)
  /\ UNCHANGED <<merchants, listings, history>>

(* An await rejects, or the process dies. *)
Abort(h) ==
  /\ handler[h] # Nothing
  /\ Done(h)
  /\ torn' = IF handler[h].at = "listing" THEN torn \cup {handler[h].merchant}
             ELSE torn
  /\ UNCHANGED <<stores, proved, published, reviewed>>

Advance(h) ==
  \/ CheckVacant(h)
  \/ \E found \in BOOLEAN : CheckProof(h, found)
  \/ ApproveTarget(h)
  \/ WriteMerchant(h)
  \/ WriteListing(h)
  \/ CheckOverlap(h)
  \/ CheckExists(h)
  \/ ApplyTarget(h)
  \/ Update(h)

Start(h) ==
  \/ \E a \in Applications :
       \/ \E m \in Merchants, config \in Offers, upstream, draft \in BOOLEAN :
            BeginSubmit(h, a, m, config, upstream, draft)
       \/ BeginVerify(h, a)
       \/ BeginWalletProof(h, a)
       \/ BeginRotate(h, a)
       \/ BeginReject(h, a)
       \/ BeginApprove(h, a)
  \/ \E m \in Merchants :
       \/ \E config \in Offers : BeginCreate(h, m, config)
       \/ \E price \in Values : BeginSellerUpdate(h, m, price)
       \/ \E q \in Changes, patch \in Wishes : BeginChange(h, q, m, patch)
  \/ \E q \in Changes : BeginRejectChange(h, q) \/ BeginApply(h, q)

Next == \E h \in Handlers : Start(h) \/ Advance(h) \/ Abort(h)

Spec == Init /\ [][Next]_vars

----------------------------------------------------------------------------
TypeOK ==
  /\ applications \in [Applications -> ApplicationRecords \cup {Nothing}]
  /\ requests \in [Changes -> ChangeRecords \cup {Nothing}]
  /\ merchants \in [Merchants -> Configs \cup {Nothing}]
  /\ listings \in [Merchants -> Configs \cup {Nothing}]
  /\ handler \in [Handlers -> Tasks \cup {Nothing}]
  /\ \A h \in Handlers : handler[h] # Nothing =>
       /\ handler[h].at \in {"merchant", "listing"} => handler[h].config # Nothing
       /\ handler[h].at = "update" => handler[h].doc # Nothing
  /\ proved \subseteq Applications
  /\ published \subseteq Applications \X BOOLEAN
  /\ reviewed \in [Merchants -> SUBSET (HighRisk \X Values)]
  /\ torn \subseteq Merchants

(* Whatever stale copies are written back meanwhile, no merchant is        *)
(* published from an application with an upstream before the publisher's   *)
(* proof was found at it.                                                  *)
PublishedWasProved ==
  \A a \in Applications : <<a, TRUE>> \in published => a \in proved

(* The payout wallet, network and coin type of a live merchant are values  *)
(* that an operator let through for it, one by one: by publishing it or by *)
(* approving a change request.                                             *)
HighRiskWasReviewed ==
  \A m \in Merchants : merchants[m] # Nothing =>
    HighRiskOf(merchants[m]) \subseteq reviewed[m]

(* A decision is recorded after what it decided: an approved application   *)
(* has its merchant and its listing, an approved change was applied, and   *)
(* the marketplace lists nothing the gateway does not know.                *)
DecisionsAreCarriedOut ==
  /\ \A a \in Applications :
       applications[a] # Nothing /\ applications[a].status = "approved" =>
         listings[applications[a].merchant] # Nothing
  /\ \A q \in Changes :
       requests[q] # Nothing /\ requests[q].status = "approved" =>
         PairsOf(requests[q].changes) \subseteq reviewed[requests[q].merchant]
  /\ \A m \in Merchants : listings[m] # Nothing => merchants[m] # Nothing

(* Only writers that overlap, or one that stops halfway, leave the         *)
(* marketplace with other terms than the gateway's.                        *)
ListingAgrees ==
  \A m \in Merchants \ torn :
    (\A h \in Handlers : ~Writing(h, m)) => listings[m] = merchants[m]

(* What docs/console-api.md says of a rejection: it closes an application  *)
(* without publishing a merchant, so none is published from one that is    *)
(* rejected.                                                               *)
RejectedStaysOut ==
  [][\A h \in Handlers : At(h, "approve", "merchant") /\ WriteMerchant(h) =>
       applications[handler[h].id].status # "rejected"]_vars

(* What docs/console-api.md says of a seller's update: it does not change  *)
(* the payout wallet, the network or the coin type of the live merchant.   *)
SellerKeepsHighRisk ==
  [][\A h \in Handlers : At(h, "seller", "merchant") /\ WriteMerchant(h) =>
       HighRiskOf(merchants'[handler[h].merchant])
         = HighRiskOf(merchants[handler[h].merchant])]_vars
=============================================================================
