--------------------------- MODULE Console_proofs ---------------------------
(***************************************************************************)
(* Theorems about Console, for any number of requests in flight,           *)
(* applications, change requests and merchants.  The stores overwrite      *)
(* whole records, so every invariant speaks of the copies that handlers    *)
(* hold as well as of the records in the stores.                           *)
(***************************************************************************)
EXTENDS Console, TLAPS

ApplicationOps == {"submit", "verify", "attach", "reject", "approve"}
ChangeOps      == {"change", "rejectChange", "apply"}

(* The tasks a handler can be at. *)
Fits(t) ==
  /\ t \in Tasks
  /\ t.op \in ApplicationOps => /\ t.id \in Applications
                                /\ t.doc \in ApplicationRecords
                                /\ t.merchant = t.doc.merchant
  /\ t.op \in ChangeOps => /\ t.id \in Changes
                           /\ t.doc \in ChangeRecords
                           /\ t.merchant = t.doc.merchant
  /\ t.op = "approve" => t.doc.verification \in {"absent", "verified"}
  /\ t.at = "vacant" => t.op = "submit"
  /\ t.at = "proof" => t.op = "verify"
  /\ t.at \in {"overlap", "exists"} => t.op = "change"
  /\ t.at = "target" => t.op \in {"approve", "apply"}
  /\ t.at \in {"merchant", "listing"} =>
       t.op \in {"approve", "apply", "create", "seller"}
  /\ t.at \in {"overlap", "merchant", "listing"} => t.config \in Configs
  /\ t.at = "update" => t.op \in ApplicationOps \cup ChangeOps

HandlerInv ==
  /\ handler \in [Handlers -> Tasks \cup {Nothing}]
  /\ \A h \in Handlers : handler[h] # Nothing => Fits(handler[h])

LEMMA NothingIsNoTask ==
  /\ Nothing \notin Configs
  /\ Nothing \notin ApplicationRecords
  /\ Nothing \notin ChangeRecords
  /\ Nothing \notin Tasks
BY NothingAssumption

LEMMA FitsIsTask == ASSUME NEW t, Fits(t) PROVE t \in Tasks
BY DEF Fits

(* A handler that goes on to a task that fits, or ends. *)
LEMMA HandlerStep ==
  ASSUME HandlerInv, NEW h \in Handlers, NEW t,
         t = Nothing \/ Fits(t),
         handler' = [handler EXCEPT ![h] = t]
  PROVE  HandlerInv'
<1>1. handler' \in [Handlers -> Tasks \cup {Nothing}]
  BY FitsIsTask DEF HandlerInv
<1>2. \A g \in Handlers : handler'[g] = IF g = h THEN t ELSE handler[g]
  BY DEF HandlerInv
<1>3. \A g \in Handlers : handler'[g] # Nothing => Fits(handler'[g])
  BY <1>2 DEF HandlerInv
<1> QED
  BY <1>1, <1>3 DEF HandlerInv, Fits

LEMMA HandlerDone ==
  ASSUME HandlerInv, NEW h \in Handlers, Done(h) PROVE HandlerInv'
BY HandlerStep DEF Done

LEMMA HandlerGoto ==
  ASSUME HandlerInv, NEW h \in Handlers, NEW step, Goto(h, step),
         Fits([handler[h] EXCEPT !.at = step])
  PROVE  HandlerInv'
BY HandlerStep DEF Goto

----------------------------------------------------------------------------
(* Types. *)

Typed == TypeOK /\ HandlerInv

(* What the type invariant says of handlers. *)
HandlerTyped ==
  /\ handler \in [Handlers -> Tasks \cup {Nothing}]
  /\ \A h \in Handlers : handler[h] # Nothing =>
       /\ handler[h].at \in {"merchant", "listing"} => handler[h].config # Nothing
       /\ handler[h].at = "update" => handler[h].doc # Nothing

LEMMA TypedHandler == HandlerInv => HandlerTyped
BY NothingIsNoTask DEF HandlerInv, HandlerTyped, Fits

StoresTyped ==
  /\ applications \in [Applications -> ApplicationRecords \cup {Nothing}]
  /\ requests \in [Changes -> ChangeRecords \cup {Nothing}]
  /\ merchants \in [Merchants -> Configs \cup {Nothing}]
  /\ listings \in [Merchants -> Configs \cup {Nothing}]
  /\ proved \subseteq Applications
  /\ published \subseteq Applications \X BOOLEAN
  /\ reviewed \in [Merchants -> SUBSET (HighRisk \X Values)]
  /\ torn \subseteq Merchants

LEMMA TypedNext == HandlerInv' /\ StoresTyped' => Typed'
<1> SUFFICES ASSUME HandlerInv', StoresTyped' PROVE Typed'
  OBVIOUS
<1>1. HandlerTyped'
  BY TypedHandler, PTL
<1> QED
  BY <1>1 DEF Typed, TypeOK, StoresTyped, HandlerTyped

(* What a handler has in hand after its first step. *)
Loaded(t) ==
  /\ Fits(t)
  /\ t.at # "listing"
  /\ t.op \in ApplicationOps =>
       \/ t.doc.status = "pending" /\ t.doc.verification \in {"absent", "pending"}
       \/ /\ applications[t.id] # Nothing
          /\ t.doc.verification = applications[t.id].verification
          /\ t.doc.merchant = applications[t.id].merchant
          /\ t.doc.status \in {applications[t.id].status, "rejected"}
  /\ t.op \in ChangeOps => t.doc.status # "approved"
  /\ t.at = "merchant" =>
       \/ t.op = "create"
       \/ /\ t.op = "seller"
          /\ merchants[t.merchant] # Nothing
          /\ HighRiskOf(t.config) = HighRiskOf(merchants[t.merchant])

Begun(h, t) ==
  /\ Loaded(t)
  /\ handler' = [handler EXCEPT ![h] = t]
  /\ UNCHANGED <<stores, history>>

LEMMA StartBegins ==
  ASSUME Typed, NEW h \in Handlers, Start(h)
  PROVE  handler[h] = Nothing /\ \E t : Begun(h, t)
<1> USE DEF Typed
<1>1. \E t : Begun(h, t)
  <2> USE InputsAssumption
  <2>1. ASSUME NEW a \in Applications, NEW m \in Merchants, NEW config \in Offers,
               NEW upstream \in BOOLEAN, NEW draft \in BOOLEAN,
               BeginSubmit(h, a, m, config, upstream, draft)
        PROVE  \E t : Begun(h, t)
    <3> DEFINE doc == [status |-> "pending",
                       verification |-> IF upstream THEN "pending" ELSE "absent",
                       merchant |-> m, config |-> config]
               t == [op |-> "submit", at |-> IF draft THEN "vacant" ELSE "update",
                     id |-> a, doc |-> doc, merchant |-> m, config |-> Nothing]
    <3>1. doc \in ApplicationRecords
      BY DEF ApplicationRecords, Statuses, Verifications
    <3>2. Fits(t)
      BY <3>1 DEF Fits, Tasks, Operations, Steps, ApplicationOps, ChangeOps
    <3>3. handler' = [handler EXCEPT ![h] = t]
      BY <2>1 DEF BeginSubmit, Begin
    <3>4. Loaded(t)
      BY <3>2 DEF Loaded, ApplicationOps, ChangeOps
    <3> QED
      BY <2>1, <3>3, <3>4 DEF BeginSubmit, Begun
  <2>2. ASSUME NEW a \in Applications,
               \/ BeginVerify(h, a)
               \/ BeginWalletProof(h, a)
               \/ BeginRotate(h, a)
               \/ BeginReject(h, a)
               \/ BeginApprove(h, a)
        PROVE  \E t : Begun(h, t)
    <3>1. applications[a] # Nothing /\ applications[a] \in ApplicationRecords
      BY <2>2 DEF TypeOK, BeginVerify, BeginWalletProof, BeginRotate, BeginReject,
                  BeginApprove
    <3>2. ASSUME NEW op \in ApplicationOps, NEW step \in {"proof", "update", "target"},
                 NEW doc \in ApplicationRecords,
                 op # "submit",
                 doc.merchant = applications[a].merchant,
                 doc.verification = applications[a].verification,
                 doc.status \in {applications[a].status, "rejected"},
                 op = "approve" => doc.verification \in {"absent", "verified"},
                 step = "proof" => op = "verify",
                 step = "target" => op = "approve",
                 Load(h, op, a, step, doc)
          PROVE  \E t : Begun(h, t)
      <4> DEFINE t == [op |-> op, at |-> step, id |-> a, doc |-> doc,
                       merchant |-> applications[a].merchant, config |-> Nothing]
      <4>1. Fits(t)
        BY <3>1, <3>2 DEF Fits, Tasks, Operations, Steps, ApplicationOps, ChangeOps,
                          ApplicationRecords
      <4>2. handler' = [handler EXCEPT ![h] = t]
        BY <3>2 DEF Load, Begin
      <4>3. Loaded(t)
        BY <3>1, <3>2, <4>1 DEF Loaded, ApplicationOps, ChangeOps
      <4> QED
        BY <3>2, <4>2, <4>3 DEF Load, Begun
    <3>3. [applications[a] EXCEPT !.status = "rejected"] \in ApplicationRecords
      BY <3>1 DEF ApplicationRecords, Statuses
    <3>4. LET doc == [applications[a] EXCEPT !.status = "rejected"] IN
          /\ doc.merchant = applications[a].merchant
          /\ doc.verification = applications[a].verification
          /\ doc.status = "rejected"
      BY <3>1 DEF ApplicationRecords
    <3>5. CASE BeginVerify(h, a)
      BY <3>1, <3>2, <3>5 DEF BeginVerify, ApplicationOps
    <3>6. CASE BeginWalletProof(h, a)
      BY <3>1, <3>2, <3>6 DEF BeginWalletProof, ApplicationOps
    <3>7. CASE BeginRotate(h, a)
      BY <3>1, <3>2, <3>7 DEF BeginRotate, ApplicationOps
    <3>8. CASE BeginReject(h, a)
      BY <3>2, <3>3, <3>4, <3>8 DEF BeginReject, ApplicationOps
    <3>9. CASE BeginApprove(h, a)
      BY <3>1, <3>2, <3>9 DEF BeginApprove, ApplicationOps
    <3> QED
      BY <2>2, <3>5, <3>6, <3>7, <3>8, <3>9
  <2>3. ASSUME NEW m \in Merchants, NEW config \in Offers, BeginCreate(h, m, config)
        PROVE  \E t : Begun(h, t)
    <3> DEFINE t == [op |-> "create", at |-> "merchant", id |-> Nothing,
                     doc |-> Nothing, merchant |-> m, config |-> config]
    <3>1. Fits(t)
      BY DEF Fits, Tasks, Operations, Steps, ApplicationOps, ChangeOps
    <3>2. handler' = [handler EXCEPT ![h] = t]
      BY <2>3 DEF BeginCreate, Begin
    <3>3. Loaded(t)
      BY <3>1 DEF Loaded, ApplicationOps, ChangeOps
    <3> QED
      BY <2>3, <3>2, <3>3 DEF BeginCreate, Begun
  <2>4. ASSUME NEW m \in Merchants, NEW price \in Values, BeginSellerUpdate(h, m, price)
        PROVE  \E t : Begun(h, t)
    <3> DEFINE t == [op |-> "seller", at |-> "merchant", id |-> Nothing,
                     doc |-> Nothing, merchant |-> m,
                     config |-> [merchants[m] EXCEPT !["price"] = price]]
    <3>1. merchants[m] \in Configs
      BY <2>4 DEF BeginSellerUpdate, TypeOK
    <3>2. [merchants[m] EXCEPT !["price"] = price] \in Configs
      BY <3>1 DEF Configs
    <3>3. Fits(t)
      BY <3>2 DEF Fits, Tasks, Operations, Steps, ApplicationOps, ChangeOps
    <3>4. handler' = [handler EXCEPT ![h] = t]
      BY <2>4 DEF BeginSellerUpdate, Begin
    <3>5. HighRiskOf(t.config) = HighRiskOf(merchants[m])
      BY <3>1, FieldsAssumption DEF HighRiskOf, Configs, Fields
    <3>6. Loaded(t)
      BY <2>4, <3>3, <3>5 DEF Loaded, ApplicationOps, ChangeOps, BeginSellerUpdate
    <3> QED
      BY <2>4, <3>4, <3>6 DEF BeginSellerUpdate, Begun
  <2>5. ASSUME NEW m \in Merchants, NEW q \in Changes, NEW patch \in Wishes,
               BeginChange(h, q, m, patch)
        PROVE  \E t : Begun(h, t)
    <3> DEFINE doc == [status |-> "pending", merchant |-> m, changes |-> patch]
               t == [op |-> "change", at |-> "overlap", id |-> q, doc |-> doc,
                     merchant |-> m, config |-> merchants[m]]
    <3>1. merchants[m] \in Configs
      BY <2>5 DEF BeginChange, TypeOK
    <3>2. doc \in ChangeRecords
      BY DEF ChangeRecords, Statuses
    <3>3. Fits(t)
      BY <3>1, <3>2 DEF Fits, Tasks, Operations, Steps, ApplicationOps, ChangeOps
    <3>4. handler' = [handler EXCEPT ![h] = t]
      BY <2>5 DEF BeginChange, Begin
    <3>5. Loaded(t)
      BY <3>3 DEF Loaded, ApplicationOps, ChangeOps
    <3> QED
      BY <2>5, <3>4, <3>5 DEF BeginChange, Begun
  <2>6. ASSUME NEW q \in Changes, BeginRejectChange(h, q) \/ BeginApply(h, q)
        PROVE  \E t : Begun(h, t)
    <3>1. requests[q] # Nothing /\ requests[q] \in ChangeRecords
      BY <2>6 DEF TypeOK, BeginRejectChange, BeginApply
    <3>2. ASSUME NEW op \in {"rejectChange", "apply"}, NEW step \in {"update", "target"},
                 NEW doc \in ChangeRecords, doc.merchant = requests[q].merchant,
                 doc.status # "approved",
                 step = "target" => op = "apply",
                 LoadChange(h, op, q, step, doc)
          PROVE  \E t : Begun(h, t)
      <4> DEFINE t == [op |-> op, at |-> step, id |-> q, doc |-> doc,
                       merchant |-> requests[q].merchant, config |-> Nothing]
      <4>1. Fits(t)
        BY <3>1, <3>2 DEF Fits, Tasks, Operations, Steps, ApplicationOps, ChangeOps,
                          ChangeRecords
      <4>2. handler' = [handler EXCEPT ![h] = t]
        BY <3>2 DEF LoadChange, Begin
      <4>3. Loaded(t)
        BY <3>2, <4>1 DEF Loaded, ApplicationOps, ChangeOps
      <4> QED
        BY <3>2, <4>2, <4>3 DEF LoadChange, Begun
    <3>3. [requests[q] EXCEPT !.status = "rejected"] \in ChangeRecords
      BY <3>1 DEF ChangeRecords, Statuses
    <3>4. LET doc == [requests[q] EXCEPT !.status = "rejected"] IN
          doc.merchant = requests[q].merchant /\ doc.status = "rejected"
      BY <3>1 DEF ChangeRecords
    <3>5. CASE BeginRejectChange(h, q)
      BY <3>2, <3>3, <3>4, <3>5 DEF BeginRejectChange
    <3>6. CASE BeginApply(h, q)
      BY <3>1, <3>2, <3>6 DEF BeginApply
    <3> QED
      BY <2>6, <3>5, <3>6
  <2> QED
    BY <2>1, <2>2, <2>3, <2>4, <2>5, <2>6 DEF Start
<1>2. handler[h] = Nothing
  BY DEF Start, BeginSubmit, BeginVerify, BeginWalletProof, BeginRotate, BeginReject,
         BeginApprove, BeginCreate, BeginSellerUpdate, BeginChange, BeginRejectChange,
         BeginApply, Load, LoadChange, Begin
<1> QED
  BY <1>1, <1>2

LEMMA StartTyped ==
  ASSUME Typed, NEW h \in Handlers, Start(h) PROVE Typed'
<1> USE DEF Typed
<1>1. PICK t : Begun(h, t)
  BY StartBegins
<1>2. HandlerInv'
  BY <1>1, HandlerStep DEF Begun, Loaded
<1>3. StoresTyped'
  BY <1>1 DEF Begun, TypeOK, StoresTyped, stores, history
<1> QED
  BY <1>2, <1>3, TypedNext


LEMMA MergedIsConfig ==
  ASSUME NEW config \in Configs, NEW doc \in ChangeRecords
  PROVE  Merged(config, doc.changes) \in Configs
<1>1. PICK F \in SUBSET HighRisk : doc.changes \in [F -> Values]
  BY DEF ChangeRecords, Patches
<1> QED
  BY <1>1 DEF Merged, Configs

LEMMA AdvanceTyped ==
  ASSUME Typed, NEW h \in Handlers, Advance(h) \/ Abort(h) PROVE Typed'
<1> USE DEF Typed
<1> DEFINE task == handler[h]
<1>1. task # Nothing /\ Fits(task) /\ task \in Tasks
  BY DEF Advance, Abort, HandlerInv, CheckVacant, CheckProof, ApproveTarget,
         WriteMerchant, WriteListing, CheckOverlap, CheckExists, ApplyTarget, Update,
         At, Fits
<1>2. ASSUME NEW step \in Steps, Fits([task EXCEPT !.at = step]),
             NEW ok, Check(h, ok, step)
      PROVE  HandlerInv'
  BY <1>2, HandlerDone, HandlerGoto DEF Check
<1>3. CASE CheckVacant(h)
  <2>1. Fits([task EXCEPT !.at = "update"])
    BY <1>1, <1>3 DEF CheckVacant, At, Fits, Tasks, Steps, ApplicationOps, ChangeOps
  <2>2. HandlerInv'
    BY <1>2, <1>3, <2>1 DEF CheckVacant, Steps
  <2>3. StoresTyped'
    BY <1>3 DEF CheckVacant, TypeOK, StoresTyped, stores, history
  <2> QED
    BY <2>2, <2>3, TypedNext
<1>4. ASSUME NEW found \in BOOLEAN, CheckProof(h, found)
      PROVE  Typed'
  <2>1. task.at = "proof" /\ task.op = "verify" /\ task.id \in Applications
        /\ task.doc \in ApplicationRecords
    BY <1>1, <1>4 DEF CheckProof, At, Fits, ApplicationOps
  <2>2. HandlerInv'
    <3>1. CASE task.doc.verification = "absent"
      <4>1. Fits([task EXCEPT !.at = "update"])
        BY <1>1, <2>1 DEF Fits, Tasks, Steps, ApplicationOps, ChangeOps
      <4> QED
        BY <1>4, <3>1, <4>1, HandlerGoto DEF CheckProof
    <3>2. CASE task.doc.verification # "absent"
      <4> DEFINE v == IF found THEN "verified" ELSE "failed"
                 doc == [task.doc EXCEPT !.verification = v]
                 t == [task EXCEPT !.at = "update", !.doc = doc]
      <4>1. doc \in ApplicationRecords /\ doc.merchant = task.doc.merchant
        BY <2>1 DEF ApplicationRecords, Verifications
      <4>2. Fits(t)
        BY <1>1, <2>1, <4>1 DEF Fits, Tasks, Steps, ApplicationOps, ChangeOps
      <4>3. handler' = [handler EXCEPT ![h] = t]
        BY <1>4, <3>2, <1>1 DEF CheckProof, Tasks, HandlerInv
      <4> QED
        BY <4>2, <4>3, HandlerStep
    <3> QED
      BY <3>1, <3>2
  <2>3. StoresTyped'
    BY <1>4, <2>1 DEF CheckProof, TypeOK, StoresTyped, stores
  <2> QED
    BY <2>2, <2>3, TypedNext
<1>5. CASE ApproveTarget(h)
  <2>1. task.at = "target" /\ task.op = "approve" /\ task.doc \in ApplicationRecords
    BY <1>1, <1>5 DEF ApproveTarget, At, Fits, ApplicationOps
  <2> DEFINE t == [task EXCEPT !.at = "merchant", !.config = task.doc.config]
  <2>2. Fits(t)
    BY <1>1, <2>1 DEF Fits, Tasks, Steps, ApplicationOps, ChangeOps, ApplicationRecords
  <2>3. Done(h) \/ handler' = [handler EXCEPT ![h] = t]
    BY <1>1, <1>5 DEF ApproveTarget
  <2>4. HandlerInv'
    BY <2>2, <2>3, HandlerDone, HandlerStep
  <2>5. StoresTyped'
    BY <1>5 DEF ApproveTarget, TypeOK, StoresTyped, stores, history
  <2> QED
    BY <2>4, <2>5, TypedNext
<1>6. CASE WriteMerchant(h)
  <2>1. task.at = "merchant" /\ task.op \in {"approve", "apply", "create", "seller"}
        /\ task.config \in Configs /\ task.merchant \in Merchants
    BY <1>1, <1>6 DEF WriteMerchant, Fits, Tasks
  <2>2. Fits([task EXCEPT !.at = "listing"])
    BY <1>1, <2>1 DEF Fits, Tasks, Steps, ApplicationOps, ChangeOps
  <2>3. HandlerInv'
    BY <1>6, <2>2, HandlerGoto DEF WriteMerchant
  <2>4. Sanctioned(task) \subseteq HighRisk \X Values
    <3>1. HighRiskOf(task.config) \subseteq HighRisk \X Values
      BY <2>1 DEF HighRiskOf, Configs, Fields
    <3>2. CASE task.op = "apply"
      <4>1. task.doc \in ChangeRecords
        BY <1>1, <3>2 DEF Fits, ChangeOps
      <4>2. task.doc.changes \in Patches
        BY <4>1 DEF ChangeRecords
      <4>3. PICK F \in SUBSET HighRisk : task.doc.changes \in [F -> Values]
        BY <4>2 DEF Patches
      <4> QED
        BY <3>2, <4>3 DEF Sanctioned, PairsOf
    <3> QED
      BY <2>1, <3>1, <3>2 DEF Sanctioned
  <2>5. task.op = "approve" => task.id \in Applications
    BY <1>1 DEF Fits, ApplicationOps
  <2>6. /\ merchants' = [merchants EXCEPT ![task.merchant] = task.config]
        /\ published' \subseteq
             published \cup {<<task.id, task.doc.verification # "absent">>}
        /\ task.op # "approve" => published' = published
        /\ reviewed' = [reviewed EXCEPT ![task.merchant] = @ \cup Sanctioned(task)]
        /\ torn' \subseteq torn \cup {task.merchant}
        /\ UNCHANGED <<applications, requests, listings, proved>>
    BY <1>6 DEF WriteMerchant
  <2>7. StoresTyped'
    <3>1. merchants' \in [Merchants -> Configs \cup {Nothing}]
      BY <2>1, <2>6 DEF TypeOK
    <3>2. published' \subseteq Applications \X BOOLEAN
      <4> HIDE DEF task
      <4>1. ASSUME NEW v \in BOOLEAN, published' \subseteq published \cup {<<task.id, v>>}
            PROVE  published' \subseteq Applications \X BOOLEAN
        BY <2>5, <2>6, <4>1 DEF TypeOK
      <4>2. (task.doc.verification # "absent") \in BOOLEAN
        OBVIOUS
      <4> QED
        BY <2>6, <4>1, <4>2
    <3>3. reviewed' \in [Merchants -> SUBSET (HighRisk \X Values)]
      BY <2>1, <2>4, <2>6 DEF TypeOK
    <3>4. torn' \subseteq Merchants
      BY <2>1, <2>6 DEF TypeOK
    <3> QED
      BY <2>6, <3>1, <3>2, <3>3, <3>4 DEF StoresTyped, TypeOK
  <2> QED
    BY <2>3, <2>7, TypedNext
<1>7. CASE WriteListing(h)
  <2>1. task.at = "listing" /\ task.config \in Configs /\ task.merchant \in Merchants
    BY <1>1, <1>7 DEF WriteListing, Fits, Tasks
  <2>2. HandlerInv'
    <3>1. CASE task.op \in {"approve", "apply"} /\ task.doc.status = "pending"
      <4> DEFINE doc == [task.doc EXCEPT !.status = "approved"]
                 t == [task EXCEPT !.at = "update", !.config = Nothing, !.doc = doc]
      <4>1. task.op = "approve" =>
              /\ task.doc \in ApplicationRecords
              /\ doc \in ApplicationRecords
              /\ doc.merchant = task.doc.merchant
              /\ doc.verification = task.doc.verification
        BY <1>1 DEF Fits, ApplicationOps, ApplicationRecords, Statuses
      <4>2. task.op = "apply" =>
              /\ task.doc \in ChangeRecords
              /\ doc \in ChangeRecords
              /\ doc.merchant = task.doc.merchant
        BY <1>1 DEF Fits, ChangeOps, ChangeRecords, Statuses
      <4>3. t \in Tasks
        BY <1>1, <3>1, <4>1, <4>2 DEF Tasks, Steps
      <4>4. t.op = task.op /\ t.at = "update" /\ t.doc = doc /\ t.id = task.id
            /\ t.merchant = task.merchant
        BY <1>1 DEF Tasks
      <4>5. Fits(t)
        BY <1>1, <3>1, <4>1, <4>2, <4>3, <4>4 DEF Fits, ApplicationOps, ChangeOps
      <4>6. handler' = [handler EXCEPT ![h] = t]
        BY <1>1, <1>7, <3>1 DEF WriteListing, Tasks, HandlerInv
      <4> QED
        BY <4>5, <4>6, HandlerStep
    <3>2. CASE ~(task.op \in {"approve", "apply"} /\ task.doc.status = "pending")
      BY <1>7, <3>2, HandlerDone DEF WriteListing
    <3> QED
      BY <3>1, <3>2
  <2>3. StoresTyped'
    BY <1>7, <2>1 DEF WriteListing, TypeOK, StoresTyped, history
  <2> QED
    BY <2>2, <2>3, TypedNext
<1>8. CASE CheckOverlap(h)
  <2> DEFINE t == [task EXCEPT !.at = "exists", !.config = Nothing]
  <2>1. Fits(t)
    BY <1>1, <1>8 DEF CheckOverlap, At, Fits, Tasks, Steps, ApplicationOps, ChangeOps
  <2>2. Done(h) \/ handler' = [handler EXCEPT ![h] = t]
    BY <1>1, <1>8 DEF CheckOverlap
  <2>3. HandlerInv'
    BY <2>1, <2>2, HandlerDone, HandlerStep
  <2>4. StoresTyped'
    BY <1>8 DEF CheckOverlap, TypeOK, StoresTyped, stores, history
  <2> QED
    BY <2>3, <2>4, TypedNext
<1>9. CASE CheckExists(h)
  <2>1. Fits([task EXCEPT !.at = "update"])
    BY <1>1, <1>9 DEF CheckExists, At, Fits, Tasks, Steps, ApplicationOps, ChangeOps
  <2>2. HandlerInv'
    BY <1>2, <1>9, <2>1 DEF CheckExists, Steps
  <2>3. StoresTyped'
    BY <1>9 DEF CheckExists, TypeOK, StoresTyped, stores, history
  <2> QED
    BY <2>2, <2>3, TypedNext
<1>10. CASE ApplyTarget(h)
  <2>1. task.at = "target" /\ task.op = "apply" /\ task.doc \in ChangeRecords
        /\ task.merchant \in Merchants
    BY <1>1, <1>10 DEF ApplyTarget, At, Fits, Tasks, ChangeOps
  <2> DEFINE merged == Merged(merchants[task.merchant], task.doc.changes)
             t == [task EXCEPT !.at = "merchant", !.config = merged]
  <2>2. ASSUME merchants[task.merchant] # Nothing PROVE merged \in Configs
    <3>1. merchants[task.merchant] \in Configs
      BY <2>1, <2>2 DEF TypeOK
    <3> QED
      BY <2>1, <3>1, MergedIsConfig
  <2>3. merchants[task.merchant] # Nothing => Fits(t)
    BY <1>1, <2>1, <2>2 DEF Fits, Tasks, Steps, ApplicationOps, ChangeOps
  <2>4. \/ Done(h)
        \/ merchants[task.merchant] # Nothing /\ handler' = [handler EXCEPT ![h] = t]
    BY <1>1, <1>10 DEF ApplyTarget
  <2>5. HandlerInv'
    BY <2>3, <2>4, HandlerDone, HandlerStep
  <2>6. StoresTyped'
    BY <1>10 DEF ApplyTarget, TypeOK, StoresTyped, stores, history
  <2> QED
    BY <2>5, <2>6, TypedNext
<1>11. CASE Update(h)
  <2>1. HandlerInv'
    BY <1>11, HandlerDone DEF Update
  <2>2. task.op \in ChangeOps => task.id \in Changes /\ task.doc \in ChangeRecords
    BY <1>1 DEF Fits
  <2>3. task.op \notin ChangeOps =>
          task.id \in Applications /\ task.doc \in ApplicationRecords
    BY <1>1, <1>11 DEF Fits, Update
  <2>4. StoresTyped'
    BY <1>11, <2>2, <2>3 DEF Update, TypeOK, StoresTyped, history, ChangeOps
  <2> QED
    BY <2>1, <2>4, TypedNext
<1>12. CASE Abort(h)
  <2>1. HandlerInv'
    BY <1>12, HandlerDone DEF Abort
  <2>2. StoresTyped'
    BY <1>1, <1>12 DEF Abort, TypeOK, StoresTyped, stores, Tasks
  <2> QED
    BY <2>1, <2>2, TypedNext
<1> QED
  BY <1>3, <1>4, <1>5, <1>6, <1>7, <1>8, <1>9, <1>10, <1>11, <1>12 DEF Advance

LEMMA InitTyped == Init => Typed
BY NothingIsNoTask
   DEF Init, Typed, TypeOK, HandlerInv

LEMMA StutterTyped == ASSUME Typed, UNCHANGED vars PROVE Typed'
BY DEF Typed, TypeOK, HandlerInv, vars, stores, history

LEMMA TypedInductive == Spec => []Typed
<1>1. Typed /\ [Next]_vars => Typed'
  BY StartTyped, AdvanceTyped, StutterTyped DEF Next
<1> QED
  BY InitTyped, <1>1, PTL DEF Spec

(* Every store keeps records of its own kind and every handler a task it   *)
(* can carry on with, whatever the requests interleave or overwrite.       *)
THEOREM TypeCorrect == Spec => []TypeOK
<1>1. Typed => TypeOK
  BY DEF Typed
<1> QED
  BY TypedInductive, <1>1, PTL

----------------------------------------------------------------------------
(* The checks between the first step and the first write: they move the    *)
(* handler on with the same record, or end it.                             *)
Checking(h) ==
  \/ CheckVacant(h)
  \/ ApproveTarget(h)
  \/ CheckOverlap(h)
  \/ CheckExists(h)
  \/ ApplyTarget(h)

Checked(h, t) ==
  /\ handler' = [handler EXCEPT ![h] = t]
  /\ UNCHANGED <<stores, history>>
  /\ handler[h].at # "listing"
  /\ t # Nothing =>
       /\ t.op = handler[h].op
       /\ t.id = handler[h].id
       /\ t.merchant = handler[h].merchant
       /\ t.doc = handler[h].doc
       /\ t.at # "listing"
       /\ t.at = "merchant" => t.op \in {"approve", "apply"}
       /\ t.at = "merchant" /\ t.op = "apply" =>
            /\ merchants[t.merchant] # Nothing
            /\ t.config = Merged(merchants[t.merchant], t.doc.changes)

LEMMA CheckingChecks ==
  ASSUME Typed, NEW h \in Handlers, Checking(h)
  PROVE  handler[h] # Nothing /\ Fits(handler[h]) /\ \E t : Checked(h, t)
<1> DEFINE task == handler[h]
<1>1. task # Nothing /\ Fits(task) /\ task \in Tasks
  BY DEF Typed, Checking, HandlerInv, CheckVacant, ApproveTarget, CheckOverlap,
         CheckExists, ApplyTarget, At, Fits
<1>2. UNCHANGED <<stores, history>> /\ task.at # "listing"
  BY DEF Checking, CheckVacant, ApproveTarget, CheckOverlap, CheckExists, ApplyTarget, At
<1>3. CASE Done(h)
  <2>1. Checked(h, Nothing)
    BY <1>2, <1>3 DEF Checked, Done
  <2> QED
    BY <1>1, <2>1
<1>4. CASE CheckVacant(h) /\ ~Done(h)
  <2> DEFINE t == [task EXCEPT !.at = "update"]
  <2>1. Checked(h, t)
    BY <1>1, <1>2, <1>4 DEF CheckVacant, Check, Goto, Checked, Tasks
  <2> QED
    BY <1>1, <2>1
<1>5. CASE ApproveTarget(h) /\ ~Done(h)
  <2> DEFINE t == [task EXCEPT !.at = "merchant", !.config = task.doc.config]
  <2>1. handler' = [handler EXCEPT ![h] = t] /\ task.op = "approve"
    BY <1>1, <1>5 DEF ApproveTarget, At
  <2>2. Checked(h, t)
    BY <1>1, <1>2, <2>1 DEF Checked, Tasks
  <2> QED
    BY <1>1, <2>2
<1>6. CASE CheckOverlap(h) /\ ~Done(h)
  <2> DEFINE t == [task EXCEPT !.at = "exists", !.config = Nothing]
  <2>1. handler' = [handler EXCEPT ![h] = t]
    BY <1>1, <1>6 DEF CheckOverlap
  <2>2. Checked(h, t)
    BY <1>1, <1>2, <2>1 DEF Checked, Tasks
  <2> QED
    BY <1>1, <2>2
<1>7. CASE CheckExists(h) /\ ~Done(h)
  <2> DEFINE t == [task EXCEPT !.at = "update"]
  <2>1. Checked(h, t)
    BY <1>1, <1>2, <1>7 DEF CheckExists, Check, Goto, Checked, Tasks
  <2> QED
    BY <1>1, <2>1
<1>8. CASE ApplyTarget(h) /\ ~Done(h)
  <2> DEFINE merged == Merged(merchants[task.merchant], task.doc.changes)
             t == [task EXCEPT !.at = "merchant", !.config = merged]
  <2>1. /\ handler' = [handler EXCEPT ![h] = t]
        /\ task.op = "apply"
        /\ merchants[task.merchant] # Nothing
    BY <1>1, <1>8 DEF ApplyTarget, At
  <2>2. Checked(h, t)
    BY <1>1, <1>2, <2>1 DEF Checked, Tasks
  <2> QED
    BY <1>1, <2>2
<1> QED
  BY <1>3, <1>4, <1>5, <1>6, <1>7, <1>8 DEF Checking

(* A step, by what it does to the handler that takes it. *)
LEMMA NextCases ==
  ASSUME Typed, [Next]_vars
  PROVE  \/ UNCHANGED vars
         \/ \E h \in Handlers :
              \/ handler[h] = Nothing /\ \E t : Begun(h, t)
              \/ /\ handler[h] # Nothing
                 /\ Fits(handler[h])
                 /\ \/ \E t : Checked(h, t)
                    \/ \E found \in BOOLEAN : CheckProof(h, found)
                    \/ WriteMerchant(h)
                    \/ WriteListing(h)
                    \/ Update(h)
                    \/ Abort(h)
<1> SUFFICES ASSUME Next PROVE \E h \in Handlers :
                          \/ handler[h] = Nothing /\ \E t : Begun(h, t)
                          \/ /\ handler[h] # Nothing
                             /\ Fits(handler[h])
                             /\ \/ \E t : Checked(h, t)
                                \/ \E found \in BOOLEAN : CheckProof(h, found)
                                \/ WriteMerchant(h)
                                \/ WriteListing(h)
                                \/ Update(h)
                                \/ Abort(h)
  OBVIOUS
<1>1. PICK h \in Handlers : Start(h) \/ Advance(h) \/ Abort(h)
  BY DEF Next
<1>2. CASE Start(h)
  BY <1>2, StartBegins
<1>3. CASE Checking(h)
  BY <1>3, CheckingChecks
<1>4. CASE ~Start(h) /\ ~Checking(h)
  <2>1. \/ \E found \in BOOLEAN : CheckProof(h, found)
        \/ WriteMerchant(h) \/ WriteListing(h) \/ Update(h) \/ Abort(h)
    BY <1>1, <1>4 DEF Advance, Checking
  <2>2. handler[h] # Nothing
    BY <2>1 DEF CheckProof, WriteMerchant, WriteListing, Update, Abort, At
  <2> QED
    BY <2>1, <2>2 DEF Typed, HandlerInv
<1> QED
  BY <1>2, <1>3, <1>4

(* The steps that store, by what they do to the handler. *)
LEMMA StoringSteps ==
  ASSUME Typed, NEW h \in Handlers, handler[h] # Nothing
  PROVE  /\ \A found \in BOOLEAN : CheckProof(h, found) =>
              /\ \A g \in Handlers \ {h} : handler'[g] = handler[g]
              /\ handler[h].at = "proof" /\ handler[h].op = "verify"
              /\ handler'[h] # Nothing
              /\ handler'[h].at = "update"
              /\ handler'[h].op = "verify"
              /\ handler'[h].merchant = handler[h].merchant
              /\ handler'[h].doc.status = handler[h].doc.status
         /\ WriteMerchant(h) =>
              /\ \A g \in Handlers \ {h} : handler'[g] = handler[g]
              /\ handler'[h] # Nothing
              /\ handler'[h].at = "listing"
              /\ handler'[h].op = handler[h].op
              /\ handler'[h].merchant = handler[h].merchant
              /\ handler'[h].config = handler[h].config
              /\ handler'[h].doc = handler[h].doc
         /\ WriteListing(h) =>
              /\ \A g \in Handlers \ {h} : handler'[g] = handler[g]
              /\ handler'[h] # Nothing =>
                   /\ handler'[h].at = "update"
                   /\ handler'[h].op = handler[h].op
                   /\ handler'[h].merchant = handler[h].merchant
                   /\ handler[h].op = "apply" =>
                        handler'[h].doc.changes = handler[h].doc.changes
         /\ Update(h) \/ Abort(h) =>
              /\ \A g \in Handlers \ {h} : handler'[g] = handler[g]
              /\ handler'[h] = Nothing
<1> DEFINE task == handler[h]
<1>1. Fits(task) /\ task \in Tasks /\ handler \in [Handlers -> Tasks \cup {Nothing}]
  BY DEF Typed, HandlerInv, Fits
<1>2. ASSUME NEW found \in BOOLEAN, CheckProof(h, found)
      PROVE  /\ \A g \in Handlers \ {h} : handler'[g] = handler[g]
             /\ task.at = "proof" /\ task.op = "verify"
             /\ handler'[h] # Nothing
             /\ handler'[h].at = "update"
             /\ handler'[h].op = "verify"
             /\ handler'[h].merchant = task.merchant
             /\ handler'[h].doc.status = task.doc.status
  <2>1. task.doc \in ApplicationRecords /\ task.op = "verify" /\ task.at = "proof"
    BY <1>1, <1>2 DEF CheckProof, At, Fits, ApplicationOps
  <2>2. Typed'
    BY <1>2, AdvanceTyped DEF Advance
  <2>3. CASE task.doc.verification = "absent"
    <3> DEFINE t == [task EXCEPT !.at = "update"]
    <3>1. handler' = [handler EXCEPT ![h] = t]
      BY <1>2, <2>3 DEF CheckProof, Goto
    <3>2. t \in Tasks /\ t.at = "update" /\ t.op = task.op /\ t.doc = task.doc
          /\ t.merchant = task.merchant
      BY <1>1 DEF Tasks, Steps
    <3> QED
      BY <1>1, <2>1, <3>1, <3>2, NothingIsNoTask
  <2>4. CASE task.doc.verification # "absent"
    <3> DEFINE v == IF found THEN "verified" ELSE "failed"
               doc == [task.doc EXCEPT !.verification = v]
               t == [task EXCEPT !.at = "update", !.doc = doc]
    <3>1. handler' = [handler EXCEPT ![h] = t]
      BY <1>1, <1>2, <2>4 DEF CheckProof, Tasks
    <3>2. doc \in ApplicationRecords /\ doc.status = task.doc.status
      BY <2>1 DEF ApplicationRecords, Verifications
    <3>3. t \in Tasks /\ t.at = "update" /\ t.op = task.op /\ t.doc = doc
          /\ t.merchant = task.merchant
      BY <1>1, <3>2 DEF Tasks, Steps
    <3> QED
      BY <1>1, <2>1, <3>1, <3>2, <3>3, NothingIsNoTask
  <2> QED
    BY <2>3, <2>4
<1>3. ASSUME WriteMerchant(h)
      PROVE  /\ \A g \in Handlers \ {h} : handler'[g] = handler[g]
             /\ handler'[h] # Nothing
             /\ handler'[h].at = "listing"
             /\ handler'[h].op = task.op
             /\ handler'[h].merchant = task.merchant
             /\ handler'[h].config = task.config
             /\ handler'[h].doc = task.doc
  <2> DEFINE t == [task EXCEPT !.at = "listing"]
  <2>1. handler' = [handler EXCEPT ![h] = t]
    BY <1>3 DEF WriteMerchant, Goto
  <2>2. /\ t \in Tasks
        /\ t.at = "listing" /\ t.op = task.op /\ t.merchant = task.merchant
        /\ t.config = task.config /\ t.doc = task.doc
    BY <1>1 DEF Tasks, Steps
  <2> QED
    BY <1>1, <2>1, <2>2, NothingIsNoTask
<1>4. ASSUME WriteListing(h)
      PROVE  /\ \A g \in Handlers \ {h} : handler'[g] = handler[g]
             /\ handler'[h] # Nothing =>
                  /\ handler'[h].at = "update"
                  /\ handler'[h].op = task.op
                  /\ handler'[h].merchant = task.merchant
                  /\ task.op = "apply" => handler'[h].doc.changes = task.doc.changes
  <2> DEFINE doc == [task.doc EXCEPT !.status = "approved"]
             t == [task EXCEPT !.at = "update", !.config = Nothing, !.doc = doc]
  <2>1. \/ handler' = [handler EXCEPT ![h] = Nothing]
        \/ handler' = [handler EXCEPT ![h] = t]
    BY <1>1, <1>4 DEF WriteListing, Done, Tasks
  <2>2. t.at = "update" /\ t.op = task.op /\ t.merchant = task.merchant /\ t.doc = doc
    BY <1>1 DEF Tasks
  <2>3. task.op = "apply" => task.doc \in ChangeRecords
    BY <1>1 DEF Fits, ChangeOps
  <2>4. task.op = "apply" => doc.changes = task.doc.changes
    BY <2>3 DEF ChangeRecords
  <2> QED
    BY <1>1, <2>1, <2>2, <2>4
<1>5. ASSUME Update(h) \/ Abort(h)
      PROVE  (\A g \in Handlers \ {h} : handler'[g] = handler[g]) /\ handler'[h] = Nothing
  BY <1>1, <1>5 DEF Update, Abort, Done
<1> QED
  BY <1>2, <1>3, <1>4, <1>5

----------------------------------------------------------------------------
(* Ownership. *)

(* Every verified copy, stored or held, is of an application whose proof   *)
(* was found; a handler that approves holds such a copy or one without an  *)
(* upstream.                                                               *)
VerifiedWasProved ==
  /\ \A a \in Applications :
       applications[a] # Nothing /\ applications[a].verification = "verified" =>
         a \in proved
  /\ \A h \in Handlers :
       /\ handler[h] # Nothing
       /\ handler[h].op \in ApplicationOps
       /\ handler[h].doc.verification = "verified"
       => handler[h].id \in proved
  /\ PublishedWasProved

LEMMA VerifiedStep ==
  ASSUME Typed, VerifiedWasProved, [Next]_vars PROVE VerifiedWasProved'
<1> USE DEF Typed
<1>0. CASE UNCHANGED vars
  BY <1>0 DEF VerifiedWasProved, PublishedWasProved, vars, stores, history
<1>1. CASE Next
  <2>1. PICK h \in Handlers : Start(h) \/ Advance(h) \/ Abort(h)
    BY <1>1 DEF Next
  <2> DEFINE task == handler[h]
  <2>2. CASE Start(h)
    <3>1. PICK t : Begun(h, t)
      BY <2>2, StartBegins
    <3>2. t.op \in ApplicationOps => t.id \in Applications
      BY <3>1 DEF Begun, Loaded, Fits
    <3> QED
      BY <3>1, <3>2 DEF Begun, Loaded, HandlerInv, VerifiedWasProved, PublishedWasProved,
                        stores, history
  <2>3. CASE Checking(h)
    <3>1. task # Nothing /\ \E t : Checked(h, t)
      BY <2>3, CheckingChecks
    <3>2. PICK t : Checked(h, t)
      BY <3>1
    <3> QED
      BY <3>1, <3>2 DEF Checked, HandlerInv, VerifiedWasProved, PublishedWasProved,
                        stores, history
  <2>4. ASSUME task # Nothing, ~Start(h), ~Checking(h) PROVE VerifiedWasProved'
    <3>1. Fits(task) /\ task \in Tasks
      BY <2>4 DEF HandlerInv, Fits
    <3>2. ASSUME NEW found \in BOOLEAN, CheckProof(h, found)
          PROVE  VerifiedWasProved'
      <4>1. task.op = "verify" /\ task.id \in Applications
            /\ task.doc \in ApplicationRecords
        BY <3>1, <3>2 DEF CheckProof, At, Fits, ApplicationOps
      <4>2. proved \subseteq proved' /\ UNCHANGED <<applications, published>>
        BY <3>2 DEF CheckProof, stores
      <4>3. handler'[h].doc.verification = "verified" => task.id \in proved'
        <5>1. CASE task.doc.verification = "absent"
          <6>1. handler'[h].doc = task.doc
            BY <3>1, <3>2, <5>1 DEF CheckProof, Goto, HandlerInv, Tasks
          <6> QED
            BY <5>1, <6>1
        <5>2. CASE task.doc.verification # "absent" /\ ~found
          <6>1. handler'[h].doc = [task.doc EXCEPT !.verification = "failed"]
            BY <3>1, <3>2, <5>2 DEF CheckProof, HandlerInv, Tasks
          <6> QED
            BY <4>1, <6>1 DEF ApplicationRecords
        <5>3. CASE task.doc.verification # "absent" /\ found
          BY <3>2, <5>3 DEF CheckProof
        <5> QED
          BY <5>1, <5>2, <5>3
      <4>4. handler'[h].id = task.id
            /\ \A g \in Handlers \ {h} : handler'[g] = handler[g]
        BY <3>1, <3>2 DEF CheckProof, Goto, HandlerInv, Tasks
      <4> QED
        BY <4>2, <4>3, <4>4 DEF VerifiedWasProved, PublishedWasProved
    <3>3. CASE WriteMerchant(h)
      <4>1. /\ UNCHANGED <<applications, proved>>
            /\ handler'[h].op = task.op
            /\ handler'[h].id = task.id
            /\ handler'[h].doc = task.doc
            /\ \A g \in Handlers \ {h} : handler'[g] = handler[g]
        BY <3>1, <3>3 DEF WriteMerchant, Goto, HandlerInv, Tasks
      <4>2. task.op = "approve" /\ task.doc.verification # "absent" => task.id \in proved
        BY <2>4, <3>1 DEF Fits, VerifiedWasProved, ApplicationOps
      <4>3. PublishedWasProved'
        BY <3>3, <4>1, <4>2 DEF WriteMerchant, VerifiedWasProved, PublishedWasProved
      <4> QED
        BY <2>4, <4>1, <4>3 DEF VerifiedWasProved
    <3>4. CASE WriteListing(h)
      <4>1. UNCHANGED <<applications, proved, published>>
            /\ \A g \in Handlers \ {h} : handler'[g] = handler[g]
        BY <3>4 DEF WriteListing, Done, history, HandlerInv
      <4>2. handler'[h] # Nothing =>
              /\ handler'[h].op = task.op
              /\ handler'[h].id = task.id
              /\ task.op \in ApplicationOps =>
                   handler'[h].doc.verification = task.doc.verification
        <5>1. task.op \in ApplicationOps => task.doc \in ApplicationRecords
          BY <3>1 DEF Fits
        <5> QED
          BY <3>1, <3>4, <5>1 DEF WriteListing, Done, HandlerInv, Tasks, ApplicationRecords
      <4> QED
        BY <2>4, <4>1, <4>2 DEF VerifiedWasProved, PublishedWasProved
    <3>5. CASE Update(h)
      <4>1. /\ UNCHANGED <<proved, published>>
            /\ handler' = [handler EXCEPT ![h] = Nothing]
        BY <3>5 DEF Update, Done, history
      <4>2. \/ UNCHANGED applications
            \/ /\ task.op \in ApplicationOps
               /\ applications' = [applications EXCEPT ![task.id] = task.doc]
        BY <3>1, <3>5 DEF Update, Fits, ApplicationOps, ChangeOps
      <4>3. task.op \in ApplicationOps => task.id \in Applications
        BY <3>1 DEF Fits
      <4>4. \A a \in Applications :
              applications'[a] # Nothing /\ applications'[a].verification = "verified" =>
                a \in proved
        <5>1. CASE UNCHANGED applications
          BY <5>1 DEF VerifiedWasProved
        <5>2. CASE /\ task.op \in ApplicationOps
                   /\ applications' = [applications EXCEPT ![task.id] = task.doc]
          BY <2>4, <4>3, <5>2 DEF VerifiedWasProved, TypeOK
        <5> QED
          BY <4>2, <5>1, <5>2
      <4>5. \A g \in Handlers : handler'[g] # Nothing => handler'[g] = handler[g]
        BY <4>1 DEF HandlerInv
      <4>6. proved' = proved /\ published' = published
        BY <4>1
      <4>7. PublishedWasProved'
        BY <4>6 DEF VerifiedWasProved, PublishedWasProved
      <4>8. \A g \in Handlers :
              /\ handler'[g] # Nothing
              /\ handler'[g].op \in ApplicationOps
              /\ handler'[g].doc.verification = "verified"
              => handler'[g].id \in proved'
        BY <4>5, <4>6 DEF VerifiedWasProved
      <4> QED
        BY <4>4, <4>6, <4>7, <4>8 DEF VerifiedWasProved
    <3>6. CASE Abort(h)
      BY <3>6 DEF Abort, Done, stores, HandlerInv, VerifiedWasProved, PublishedWasProved
    <3> QED
      BY <2>1, <2>4, <3>2, <3>3, <3>4, <3>5, <3>6 DEF Advance, Checking
  <2>5. Advance(h) \/ Abort(h) => task # Nothing
    BY DEF Advance, Abort, CheckVacant, CheckProof, ApproveTarget, WriteMerchant,
           WriteListing, CheckOverlap, CheckExists, ApplyTarget, Update, At
  <2> QED
    BY <2>1, <2>2, <2>3, <2>4, <2>5
<1> QED
  BY <1>0, <1>1

(* The verification an approval asks for is of the copy it loaded, and any *)
(* handler may have written an older copy back since: still no merchant is *)
(* published from an application with an upstream before its proof was     *)
(* found.                                                                  *)
THEOREM OnlyProvedArePublished == Spec => []PublishedWasProved
<1>1. Init => VerifiedWasProved
  BY DEF Init, VerifiedWasProved, PublishedWasProved
<1>2. Typed /\ VerifiedWasProved /\ [Next]_vars => VerifiedWasProved'
  BY VerifiedStep
<1>3. VerifiedWasProved => PublishedWasProved
  BY DEF VerifiedWasProved
<1> QED
  BY TypedInductive, <1>1, <1>2, <1>3, PTL DEF Spec

----------------------------------------------------------------------------
(* High-risk fields. *)

LEMMA MergedHighRisk ==
  ASSUME NEW config \in Configs, NEW doc \in ChangeRecords
  PROVE  HighRiskOf(Merged(config, doc.changes))
           \subseteq HighRiskOf(config) \cup PairsOf(doc.changes)
BY DEF HighRiskOf, PairsOf, Merged, Fields

(* The configuration a seller or a reviewer is about to write carries only *)
(* reviewed values, and those of the change that is being applied.         *)
HighRiskHeld ==
  /\ HighRiskWasReviewed
  /\ \A h \in Handlers : handler[h] # Nothing /\ handler[h].at = "merchant" =>
       /\ handler[h].op = "seller" =>
            HighRiskOf(handler[h].config) \subseteq reviewed[handler[h].merchant]
       /\ handler[h].op = "apply" =>
            HighRiskOf(handler[h].config)
              \subseteq reviewed[handler[h].merchant] \cup PairsOf(handler[h].doc.changes)

(* What holds of the handlers still holds when one of them has gone on to  *)
(* a task that is not about to write, and no review is taken back.         *)
LEMMA HighRiskQuiet ==
  ASSUME Typed, HighRiskHeld, NEW h \in Handlers,
         \A g \in Handlers \ {h} : handler'[g] = handler[g],
         handler'[h] # Nothing => handler'[h].at # "merchant",
         \A m \in Merchants : reviewed[m] \subseteq reviewed'[m],
         HighRiskWasReviewed'
  PROVE  HighRiskHeld'
<1>1. ASSUME NEW g \in Handlers, handler'[g] # Nothing, handler'[g].at = "merchant"
      PROVE  /\ g # h
             /\ handler'[g] = handler[g]
             /\ reviewed[handler[g].merchant] \subseteq reviewed'[handler[g].merchant]
  BY <1>1 DEF Typed, HandlerInv, Fits, Tasks
<1> QED
  BY <1>1 DEF HighRiskHeld

LEMMA HighRiskStep ==
  ASSUME Typed, HighRiskHeld, [Next]_vars PROVE HighRiskHeld'
<1>0. CASE UNCHANGED vars
  BY <1>0 DEF HighRiskHeld, HighRiskWasReviewed, vars, stores, history
<1>1. ASSUME NEW h \in Handlers, NEW t, Begun(h, t) PROVE HighRiskHeld'
  <2>1. /\ t.merchant \in Merchants
        /\ handler'[h] = t
        /\ \A g \in Handlers \ {h} : handler'[g] = handler[g]
        /\ UNCHANGED <<merchants, reviewed>>
    BY <1>1 DEF Begun, Loaded, Fits, Tasks, Typed, HandlerInv, stores, history
  <2>2. t.at = "merchant" /\ t.op = "seller" =>
          HighRiskOf(t.config) \subseteq reviewed[t.merchant]
    BY <1>1, <2>1 DEF Begun, Loaded, HighRiskHeld, HighRiskWasReviewed
  <2>3. t.at = "merchant" => t.op # "apply"
    BY <1>1 DEF Begun, Loaded
  <2>4. HighRiskWasReviewed'
    BY <2>1 DEF HighRiskHeld, HighRiskWasReviewed
  <2>5. ASSUME NEW g \in Handlers, handler'[g] # Nothing, handler'[g].at = "merchant"
        PROVE  /\ handler'[g].op = "seller" =>
                    HighRiskOf(handler'[g].config) \subseteq reviewed'[handler'[g].merchant]
               /\ handler'[g].op = "apply" =>
                    HighRiskOf(handler'[g].config)
                      \subseteq reviewed'[handler'[g].merchant]
                                \cup PairsOf(handler'[g].doc.changes)
    <3>1. CASE g = h
      BY <2>1, <2>2, <2>3, <2>5, <3>1
    <3>2. CASE g # h
      BY <2>1, <2>5, <3>2 DEF HighRiskHeld
    <3> QED
      BY <3>1, <3>2
  <2> QED
    BY <2>4, <2>5 DEF HighRiskHeld
<1>2. ASSUME NEW h \in Handlers, handler[h] # Nothing, Fits(handler[h]),
             NEW t, Checked(h, t)
      PROVE  HighRiskHeld'
  <2>1. /\ handler'[h] = t
        /\ \A g \in Handlers \ {h} : handler'[g] = handler[g]
        /\ UNCHANGED <<merchants, reviewed>>
    BY <1>2 DEF Checked, Typed, HandlerInv, stores, history
  <2>2. t # Nothing => t.merchant \in Merchants
    BY <1>2 DEF Checked, Fits, Tasks
  <2>3. ASSUME t # Nothing, t.at = "merchant", t.op = "apply"
        PROVE  HighRiskOf(t.config) \subseteq reviewed[t.merchant] \cup PairsOf(t.doc.changes)
    <3>1. /\ t.doc \in ChangeRecords
          /\ merchants[t.merchant] # Nothing
          /\ t.config = Merged(merchants[t.merchant], t.doc.changes)
      BY <1>2, <2>3 DEF Checked, Fits, ChangeOps
    <3>2. merchants[t.merchant] \in Configs
      BY <2>2, <2>3, <3>1 DEF Typed, TypeOK
    <3> QED
      BY <2>2, <2>3, <3>1, <3>2, MergedHighRisk DEF HighRiskHeld, HighRiskWasReviewed
  <2>4. t # Nothing /\ t.at = "merchant" => t.op # "seller"
    BY <1>2 DEF Checked
  <2>5. HighRiskWasReviewed'
    BY <2>1 DEF HighRiskHeld, HighRiskWasReviewed
  <2>6. ASSUME NEW g \in Handlers, handler'[g] # Nothing, handler'[g].at = "merchant"
        PROVE  /\ handler'[g].op = "seller" =>
                    HighRiskOf(handler'[g].config) \subseteq reviewed'[handler'[g].merchant]
               /\ handler'[g].op = "apply" =>
                    HighRiskOf(handler'[g].config)
                      \subseteq reviewed'[handler'[g].merchant]
                                \cup PairsOf(handler'[g].doc.changes)
    <3>1. CASE g = h
      BY <2>1, <2>3, <2>4, <2>6, <3>1
    <3>2. CASE g # h
      BY <2>1, <2>6, <3>2 DEF HighRiskHeld
    <3> QED
      BY <3>1, <3>2
  <2> QED
    BY <2>5, <2>6 DEF HighRiskHeld
<1>3. ASSUME NEW h \in Handlers, handler[h] # Nothing, Fits(handler[h]), WriteMerchant(h)
      PROVE  HighRiskHeld'
  <2> DEFINE task == handler[h]
  <2>1. /\ task.at = "merchant"
        /\ merchants' = [merchants EXCEPT ![task.merchant] = task.config]
        /\ reviewed' = [reviewed EXCEPT ![task.merchant] = @ \cup Sanctioned(task)]
    BY <1>3 DEF WriteMerchant
  <2>2. task.merchant \in Merchants
        /\ task.op \in {"approve", "apply", "create", "seller"}
    BY <1>3, <2>1 DEF Fits, Tasks
  <2>3. HighRiskOf(task.config) \subseteq reviewed[task.merchant] \cup Sanctioned(task)
    <3>1. CASE task.op \in {"approve", "create"}
      BY <3>1 DEF Sanctioned
    <3>2. CASE task.op = "apply"
      <4>1. Sanctioned(task) = PairsOf(task.doc.changes)
        BY <3>2 DEF Sanctioned
      <4> QED
        BY <1>3, <2>1, <3>2, <4>1 DEF HighRiskHeld
    <3>3. CASE task.op = "seller"
      BY <1>3, <2>1, <3>3 DEF HighRiskHeld
    <3> QED
      BY <2>2, <3>1, <3>2, <3>3
  <2>4. /\ \A m \in Merchants : reviewed[m] \subseteq reviewed'[m]
        /\ reviewed'[task.merchant] = reviewed[task.merchant] \cup Sanctioned(task)
    BY <2>1, <2>2 DEF Typed, TypeOK
  <2>5. HighRiskWasReviewed'
    <3>1. ASSUME NEW m \in Merchants, merchants'[m] # Nothing
          PROVE  HighRiskOf(merchants'[m]) \subseteq reviewed'[m]
      <4>1. CASE m = task.merchant
        <5>1. merchants'[m] = task.config
          BY <2>1, <4>1 DEF Typed, TypeOK
        <5> QED
          BY <2>3, <2>4, <4>1, <5>1
      <4>2. CASE m # task.merchant
        <5>1. merchants'[m] = merchants[m]
          BY <2>1, <4>2 DEF Typed, TypeOK
        <5> QED
          BY <2>4, <3>1, <5>1 DEF HighRiskHeld, HighRiskWasReviewed
      <4> QED
        BY <4>1, <4>2
    <3> QED
      BY <3>1 DEF HighRiskWasReviewed
  <2> QED
    BY <1>3, <2>4, <2>5, HighRiskQuiet, StoringSteps
<1>4. ASSUME NEW h \in Handlers, handler[h] # Nothing, Fits(handler[h]),
             \/ \E found \in BOOLEAN : CheckProof(h, found)
             \/ WriteListing(h) \/ Update(h) \/ Abort(h)
      PROVE  HighRiskHeld'
  <2>1. UNCHANGED <<merchants, reviewed>>
    BY <1>4 DEF CheckProof, WriteListing, Update, Abort, stores, history
  <2>2. HighRiskWasReviewed'
    BY <2>1 DEF HighRiskHeld, HighRiskWasReviewed
  <2>3. /\ \A g \in Handlers \ {h} : handler'[g] = handler[g]
        /\ handler'[h] # Nothing => handler'[h].at # "merchant"
    BY <1>4, StoringSteps
  <2> QED
    BY <2>1, <2>2, <2>3, HighRiskQuiet
<1> QED
  BY <1>0, <1>1, <1>2, <1>3, <1>4, NextCases

(* However updates, reviews and stale configurations interleave, the       *)
(* payout wallet, network and coin type a live merchant has were let       *)
(* through by an operator for that merchant.                               *)
THEOREM HighRiskAlwaysReviewed == Spec => []HighRiskWasReviewed
<1>1. Init => HighRiskHeld
  BY DEF Init, HighRiskHeld, HighRiskWasReviewed
<1>2. Typed /\ HighRiskHeld /\ [Next]_vars => HighRiskHeld'
  BY HighRiskStep
<1>3. HighRiskHeld => HighRiskWasReviewed
  BY DEF HighRiskHeld
<1> QED
  BY TypedInductive, <1>1, <1>2, <1>3, PTL DEF Spec

----------------------------------------------------------------------------
(* Decisions. *)

(* A copy marked approved is of something carried out, and a handler that  *)
(* writes the listing has written the merchant.                            *)
Decided(t) ==
  /\ t.op \in ApplicationOps /\ t.doc.status = "approved" =>
       listings[t.merchant] # Nothing
  /\ t.op \in ChangeOps /\ t.doc.status = "approved" =>
       PairsOf(t.doc.changes) \subseteq reviewed[t.merchant]
  /\ t.at = "listing" =>
       /\ merchants[t.merchant] # Nothing
       /\ t.op = "apply" => PairsOf(t.doc.changes) \subseteq reviewed[t.merchant]

DecisionsHeld ==
  /\ DecisionsAreCarriedOut
  /\ \A h \in Handlers : handler[h] # Nothing => Decided(handler[h])

(* No step unpublishes, unlists or takes a review back. *)
Grows ==
  \A m \in Merchants :
    /\ merchants[m] # Nothing => merchants'[m] # Nothing
    /\ listings[m] # Nothing => listings'[m] # Nothing
    /\ reviewed[m] \subseteq reviewed'[m]

LEMMA DecisionsGrow ==
  ASSUME Typed, DecisionsAreCarriedOut, UNCHANGED <<applications, requests>>, Grows,
         \A m \in Merchants : listings'[m] # Nothing => merchants'[m] # Nothing
  PROVE  DecisionsAreCarriedOut'
<1>1. ASSUME NEW a \in Applications,
             applications'[a] # Nothing, applications'[a].status = "approved"
      PROVE  listings'[applications'[a].merchant] # Nothing
  <2>1. applications'[a] = applications[a] /\ applications[a].merchant \in Merchants
    BY <1>1 DEF Typed, TypeOK, ApplicationRecords
  <2> QED
    BY <1>1, <2>1 DEF DecisionsAreCarriedOut, Grows
<1>2. ASSUME NEW q \in Changes,
             requests'[q] # Nothing, requests'[q].status = "approved"
      PROVE  PairsOf(requests'[q].changes) \subseteq reviewed'[requests'[q].merchant]
  <2>1. requests'[q] = requests[q] /\ requests[q].merchant \in Merchants
    BY <1>2 DEF Typed, TypeOK, ChangeRecords
  <2>2. PairsOf(requests[q].changes) \subseteq reviewed[requests[q].merchant]
    BY <1>2, <2>1 DEF DecisionsAreCarriedOut
  <2>3. reviewed[requests[q].merchant] \subseteq reviewed'[requests[q].merchant]
    BY <2>1 DEF Grows
  <2> QED
    BY <2>1, <2>2, <2>3
<1> QED
  BY <1>1, <1>2 DEF DecisionsAreCarriedOut

LEMMA DecisionsMove ==
  ASSUME Typed, DecisionsHeld, NEW h \in Handlers, Grows,
         \A g \in Handlers \ {h} : handler'[g] = handler[g],
         handler'[h] # Nothing => Decided(handler[h])',
         DecisionsAreCarriedOut'
  PROVE  DecisionsHeld'
<1>1. ASSUME NEW g \in Handlers, g # h, handler'[g] # Nothing
      PROVE  Decided(handler[g])'
  <2>1. handler'[g] = handler[g] /\ handler[g].merchant \in Merchants
    BY <1>1 DEF Typed, HandlerInv, Fits, Tasks
  <2>2. Decided(handler[g])
    BY <1>1, <2>1 DEF DecisionsHeld
  <2>3. /\ merchants[handler[g].merchant] # Nothing =>
             merchants'[handler[g].merchant] # Nothing
        /\ listings[handler[g].merchant] # Nothing =>
             listings'[handler[g].merchant] # Nothing
        /\ reviewed[handler[g].merchant] \subseteq reviewed'[handler[g].merchant]
    BY <2>1 DEF Grows
  <2> QED
    BY <2>1, <2>2, <2>3 DEF Decided
<1> QED
  BY <1>1 DEF DecisionsHeld

LEMMA DecisionsStep ==
  ASSUME Typed, DecisionsHeld, [Next]_vars PROVE DecisionsHeld'
<1> USE DEF Typed
<1>0. CASE UNCHANGED vars
  BY <1>0 DEF DecisionsHeld, DecisionsAreCarriedOut, Decided, vars, stores, history
<1>a. DecisionsAreCarriedOut
  BY DEF DecisionsHeld
<1>b. \A m \in Merchants : listings[m] # Nothing => merchants[m] # Nothing
  BY DEF DecisionsHeld, DecisionsAreCarriedOut
<1>1. ASSUME NEW h \in Handlers, NEW t, Begun(h, t) PROVE DecisionsHeld'
  <2>1. /\ handler'[h] = t
        /\ \A g \in Handlers \ {h} : handler'[g] = handler[g]
        /\ UNCHANGED <<applications, requests, merchants, listings, reviewed>>
    BY <1>1 DEF Begun, HandlerInv, stores, history
  <2>2. Grows /\ DecisionsAreCarriedOut'
    BY <1>a, <1>b, <2>1, DecisionsGrow DEF Grows
  <2>3. Decided(t)
    <3>1. ASSUME t.op \in ApplicationOps, t.doc.status = "approved"
          PROVE  listings[t.merchant] # Nothing
      <4>1. /\ t.id \in Applications
            /\ t.merchant = t.doc.merchant
            /\ applications[t.id] # Nothing
            /\ applications[t.id].merchant = t.merchant
            /\ applications[t.id].status = "approved"
        BY <1>1, <3>1 DEF Begun, Loaded, Fits
      <4> QED
        BY <4>1 DEF DecisionsHeld, DecisionsAreCarriedOut
    <3> QED
      BY <1>1, <3>1 DEF Begun, Loaded, Decided
  <2>4. Decided(handler[h])'
    BY <2>1, <2>3 DEF Decided
  <2> QED
    BY <2>1, <2>2, <2>4, DecisionsMove
<1>2. ASSUME NEW h \in Handlers, handler[h] # Nothing, Fits(handler[h]),
             NEW t, Checked(h, t)
      PROVE  DecisionsHeld'
  <2>1. /\ handler'[h] = t
        /\ \A g \in Handlers \ {h} : handler'[g] = handler[g]
        /\ UNCHANGED <<applications, requests, merchants, listings, reviewed>>
    BY <1>2 DEF Checked, HandlerInv, stores, history
  <2>2. Grows /\ DecisionsAreCarriedOut'
    BY <1>a, <1>b, <2>1, DecisionsGrow DEF Grows
  <2>3. t # Nothing => Decided(t)
    BY <1>2 DEF Checked, DecisionsHeld, Decided
  <2>4. handler'[h] # Nothing => Decided(handler[h])'
    BY <2>1, <2>3 DEF Decided
  <2> QED
    BY <2>1, <2>2, <2>4, DecisionsMove
<1>3. ASSUME NEW h \in Handlers, handler[h] # Nothing, Fits(handler[h]),
             NEW found \in BOOLEAN, CheckProof(h, found)
      PROVE  DecisionsHeld'
  <2>1. UNCHANGED <<applications, requests, merchants, listings, reviewed>>
    BY <1>3 DEF CheckProof, stores
  <2>2. Grows /\ DecisionsAreCarriedOut'
    BY <1>a, <1>b, <2>1, DecisionsGrow DEF Grows
  <2>3. /\ \A g \in Handlers \ {h} : handler'[g] = handler[g]
        /\ handler[h].op = "verify"
        /\ handler'[h].at = "update" /\ handler'[h].op = "verify"
        /\ handler'[h].merchant = handler[h].merchant
        /\ handler'[h].doc.status = handler[h].doc.status
    BY <1>3, StoringSteps
  <2>4. Decided(handler[h])'
    BY <1>3, <2>1, <2>3 DEF DecisionsHeld, Decided, ApplicationOps, ChangeOps
  <2> QED
    BY <2>2, <2>3, <2>4, DecisionsMove
<1>4. ASSUME NEW h \in Handlers, handler[h] # Nothing, Fits(handler[h]), WriteMerchant(h)
      PROVE  DecisionsHeld'
  <2> DEFINE task == handler[h]
  <2>1. /\ task.at = "merchant"
        /\ merchants' = [merchants EXCEPT ![task.merchant] = task.config]
        /\ reviewed' = [reviewed EXCEPT ![task.merchant] = @ \cup Sanctioned(task)]
        /\ UNCHANGED <<applications, requests, listings>>
    BY <1>4 DEF WriteMerchant
  <2>2. task.merchant \in Merchants /\ task.config \in Configs /\ task.config # Nothing
    BY <1>4, <2>1, NothingIsNoTask DEF Fits, Tasks
  <2>3. /\ merchants'[task.merchant] # Nothing
        /\ reviewed'[task.merchant] = reviewed[task.merchant] \cup Sanctioned(task)
    BY <2>1, <2>2 DEF TypeOK
  <2>4. Grows
    BY <2>1, <2>2 DEF TypeOK, Grows
  <2>5. DecisionsAreCarriedOut'
    BY <1>a, <1>b, <2>1, <2>4, DecisionsGrow DEF Grows
  <2>6. /\ \A g \in Handlers \ {h} : handler'[g] = handler[g]
        /\ handler'[h].op = task.op
        /\ handler'[h].merchant = task.merchant
        /\ handler'[h].doc = task.doc
    BY <1>4, StoringSteps
  <2>7. Decided(task)
    BY <1>4 DEF DecisionsHeld
  <2>8. task.op = "apply" => Sanctioned(task) = PairsOf(task.doc.changes)
    BY DEF Sanctioned
  <2>9. Decided(handler[h])'
    BY <2>1, <2>3, <2>6, <2>7, <2>8 DEF Decided
  <2> QED
    BY <1>4, <2>4, <2>5, <2>6, <2>9, DecisionsMove
<1>5. ASSUME NEW h \in Handlers, handler[h] # Nothing, Fits(handler[h]), WriteListing(h)
      PROVE  DecisionsHeld'
  <2> DEFINE task == handler[h]
  <2>1. /\ task.at = "listing"
        /\ listings' = [listings EXCEPT ![task.merchant] = task.config]
        /\ UNCHANGED <<applications, requests, merchants, reviewed>>
    BY <1>5 DEF WriteListing, history
  <2>2. task.merchant \in Merchants /\ task.config \in Configs /\ task.config # Nothing
        /\ task.op \in {"approve", "apply", "create", "seller"}
    BY <1>5, <2>1, NothingIsNoTask DEF Fits, Tasks
  <2>3. listings'[task.merchant] # Nothing
        /\ \A m \in Merchants \ {task.merchant} : listings'[m] = listings[m]
    BY <2>1, <2>2 DEF TypeOK
  <2>4. Grows
    BY <2>1, <2>3 DEF Grows
  <2>5. Decided(task)
    BY <1>5 DEF DecisionsHeld
  <2>6. merchants[task.merchant] # Nothing
    BY <2>1, <2>5 DEF Decided
  <2>7. DecisionsAreCarriedOut'
    <3>1. \A m \in Merchants : listings'[m] # Nothing => merchants'[m] # Nothing
      BY <1>b, <2>1, <2>3, <2>6
    <3> QED
      BY <1>a, <2>1, <2>4, <3>1, DecisionsGrow
  <2>8. /\ \A g \in Handlers \ {h} : handler'[g] = handler[g]
        /\ handler'[h] # Nothing =>
             /\ handler'[h].at = "update"
             /\ handler'[h].op = task.op
             /\ handler'[h].merchant = task.merchant
             /\ task.op = "apply" => handler'[h].doc.changes = task.doc.changes
    BY <1>5, StoringSteps
  <2>9. handler'[h] # Nothing => Decided(handler[h])'
    BY <2>1, <2>2, <2>3, <2>5, <2>8 DEF Decided, ApplicationOps, ChangeOps
  <2> QED
    BY <1>5, <2>4, <2>7, <2>8, <2>9, DecisionsMove
<1>6. ASSUME NEW h \in Handlers, handler[h] # Nothing, Fits(handler[h]), Update(h)
      PROVE  DecisionsHeld'
  <2> DEFINE task == handler[h]
  <2>1. UNCHANGED <<merchants, listings, reviewed>>
    BY <1>6 DEF Update, history
  <2>2. Grows
    BY <2>1 DEF Grows
  <2>3. (\A g \in Handlers \ {h} : handler'[g] = handler[g]) /\ handler'[h] = Nothing
    BY <1>6, StoringSteps
  <2>4. Decided(task)
    BY <1>6 DEF DecisionsHeld
  <2>5. CASE task.op \in ChangeOps
    <3>1. /\ requests' = [requests EXCEPT ![task.id] = task.doc]
          /\ UNCHANGED applications
          /\ task.id \in Changes
          /\ task.merchant = task.doc.merchant
      BY <1>6, <2>5 DEF Update, Fits, ChangeOps
    <3>2. ASSUME NEW q \in Changes,
                 requests'[q] # Nothing, requests'[q].status = "approved"
          PROVE  PairsOf(requests'[q].changes) \subseteq reviewed[requests'[q].merchant]
      <4>1. CASE q = task.id
        <5>1. requests'[q] = task.doc
          BY <3>1, <4>1 DEF TypeOK
        <5> QED
          BY <2>4, <2>5, <3>1, <3>2, <5>1 DEF Decided
      <4>2. CASE q # task.id
        <5>1. requests'[q] = requests[q]
          BY <3>1, <4>2 DEF TypeOK
        <5> QED
          BY <1>a, <3>2, <5>1 DEF DecisionsAreCarriedOut
      <4> QED
        BY <4>1, <4>2
    <3>3. DecisionsAreCarriedOut'
      BY <1>a, <2>1, <3>1, <3>2 DEF DecisionsAreCarriedOut
    <3> QED
      BY <2>2, <2>3, <3>3, DecisionsMove
  <2>6. CASE task.op \notin ChangeOps
    <3>1. /\ applications' = [applications EXCEPT ![task.id] = task.doc]
          /\ UNCHANGED requests
          /\ task.op \in ApplicationOps
          /\ task.id \in Applications
          /\ task.merchant = task.doc.merchant
      BY <1>6, <2>6 DEF Update, Fits, ChangeOps
    <3>2. ASSUME NEW a \in Applications,
                 applications'[a] # Nothing, applications'[a].status = "approved"
          PROVE  listings[applications'[a].merchant] # Nothing
      <4>1. CASE a = task.id
        <5>1. applications'[a] = task.doc
          BY <3>1, <4>1 DEF TypeOK
        <5> QED
          BY <2>4, <3>1, <3>2, <5>1 DEF Decided
      <4>2. CASE a # task.id
        <5>1. applications'[a] = applications[a]
          BY <3>1, <4>2 DEF TypeOK
        <5> QED
          BY <1>a, <3>2, <5>1 DEF DecisionsAreCarriedOut
      <4> QED
        BY <4>1, <4>2
    <3>3. DecisionsAreCarriedOut'
      BY <1>a, <2>1, <3>1, <3>2 DEF DecisionsAreCarriedOut
    <3> QED
      BY <2>2, <2>3, <3>3, DecisionsMove
  <2> QED
    BY <2>5, <2>6
<1>7. ASSUME NEW h \in Handlers, handler[h] # Nothing, Fits(handler[h]), Abort(h)
      PROVE  DecisionsHeld'
  <2>1. UNCHANGED <<applications, requests, merchants, listings, reviewed>>
    BY <1>7 DEF Abort, stores
  <2>2. Grows /\ DecisionsAreCarriedOut'
    BY <1>a, <1>b, <2>1, DecisionsGrow DEF Grows
  <2> QED
    BY <1>7, <2>2, StoringSteps, DecisionsMove
<1> QED
  BY <1>0, <1>1, <1>2, <1>3, <1>4, <1>5, <1>6, <1>7, NextCases

(* A decision is on record only after what it decided was written, and a   *)
(* stale copy written over it takes nothing of that back.                  *)
THEOREM DecisionsHold == Spec => []DecisionsAreCarriedOut
<1>1. Init => DecisionsHeld
  BY DEF Init, DecisionsHeld, DecisionsAreCarriedOut
<1>2. Typed /\ DecisionsHeld /\ [Next]_vars => DecisionsHeld'
  BY DecisionsStep
<1>3. DecisionsHeld => DecisionsAreCarriedOut
  BY DEF DecisionsHeld
<1> QED
  BY TypedInductive, <1>1, <1>2, <1>3, PTL DEF Spec

----------------------------------------------------------------------------
(* Listings. *)

(* Of a merchant no two writers overlapped on, one handler at most is      *)
(* between the two writes, with the configuration the gateway has.         *)
OneWriter ==
  /\ ListingAgrees
  /\ \A m \in Merchants \ torn : \A h \in Handlers : Writing(h, m) =>
       /\ handler[h].config = merchants[m]
       /\ \A g \in Handlers : Writing(g, m) => g = h

LEMMA OneWriterQuiet ==
  ASSUME Typed, OneWriter, NEW h \in Handlers,
         UNCHANGED <<merchants, listings, torn>>,
         \A g \in Handlers \ {h} : handler'[g] = handler[g],
         handler[h] # Nothing => handler[h].at # "listing",
         handler'[h] # Nothing => handler'[h].at # "listing"
  PROVE  OneWriter'
<1>1. ASSUME NEW g \in Handlers, NEW m \in Merchants
      PROVE  /\ Writing(g, m)' <=> Writing(g, m)
             /\ Writing(g, m) => handler'[g] = handler[g]
  BY DEF Writing
<1> QED
  BY <1>1 DEF OneWriter, ListingAgrees

LEMMA OneWriterStep ==
  ASSUME Typed, OneWriter, [Next]_vars PROVE OneWriter'
<1> USE DEF Typed
<1>0. CASE UNCHANGED vars
  BY <1>0 DEF OneWriter, ListingAgrees, Writing, vars, stores, history
<1>1. ASSUME NEW h \in Handlers, handler[h] = Nothing, NEW t, Begun(h, t)
      PROVE  OneWriter'
  <2>1. /\ handler'[h] = t /\ t.at # "listing"
        /\ \A g \in Handlers \ {h} : handler'[g] = handler[g]
        /\ UNCHANGED <<merchants, listings, torn>>
    BY <1>1 DEF Begun, Loaded, HandlerInv, stores, history
  <2> QED
    BY <1>1, <2>1, OneWriterQuiet
<1>2. ASSUME NEW h \in Handlers, handler[h] # Nothing, NEW t, Checked(h, t)
      PROVE  OneWriter'
  <2>1. /\ handler'[h] = t /\ handler[h].at # "listing"
        /\ t # Nothing => t.at # "listing"
        /\ \A g \in Handlers \ {h} : handler'[g] = handler[g]
        /\ UNCHANGED <<merchants, listings, torn>>
    BY <1>2 DEF Checked, HandlerInv, stores, history
  <2> QED
    BY <2>1, OneWriterQuiet
<1>3. ASSUME NEW h \in Handlers, handler[h] # Nothing,
             (\E found \in BOOLEAN : CheckProof(h, found)) \/ Update(h)
      PROVE  OneWriter'
  <2>1. UNCHANGED <<merchants, listings, torn>>
    BY <1>3 DEF CheckProof, Update, stores, history
  <2>2. /\ \A g \in Handlers \ {h} : handler'[g] = handler[g]
        /\ handler[h].at # "listing"
        /\ handler'[h] # Nothing => handler'[h].at # "listing"
    BY <1>3, StoringSteps DEF Update
  <2> QED
    BY <2>1, <2>2, OneWriterQuiet
<1>4. ASSUME NEW h \in Handlers, handler[h] # Nothing, Fits(handler[h]), WriteMerchant(h)
      PROVE  OneWriter'
  <2> DEFINE task == handler[h]
             n    == task.merchant
  <2>1. /\ task.at = "merchant"
        /\ merchants' = [merchants EXCEPT ![n] = task.config]
        /\ torn' = IF \E g \in Handlers : Writing(g, n) THEN torn \cup {n} ELSE torn
        /\ UNCHANGED listings
    BY <1>4 DEF WriteMerchant
  <2>2. /\ \A g \in Handlers \ {h} : handler'[g] = handler[g]
        /\ handler'[h] # Nothing
        /\ handler'[h].at = "listing"
        /\ handler'[h].merchant = n
        /\ handler'[h].config = task.config
    BY <1>4, StoringSteps
  <2>3. n \in Merchants
    BY <1>4 DEF Fits, Tasks
  <2>4. merchants'[n] = task.config
        /\ \A m \in Merchants \ {n} : merchants'[m] = merchants[m]
    BY <2>1, <2>3 DEF TypeOK
  <2>5. \A m \in Merchants \ {n} : \A g \in Handlers :
          /\ Writing(g, m)' <=> Writing(g, m)
          /\ Writing(g, m) => handler'[g] = handler[g]
    BY <2>1, <2>2 DEF Writing
  <2>6. ASSUME NEW m \in Merchants \ torn'
        PROVE  /\ (\A g \in Handlers : ~Writing(g, m)') => listings'[m] = merchants'[m]
               /\ \A g \in Handlers : Writing(g, m)' =>
                    /\ handler'[g].config = merchants'[m]
                    /\ \A k \in Handlers : Writing(k, m)' => k = g
    <3>1. m \notin torn
      BY <2>1, <2>6
    <3>2. CASE m = n
      <4>1. \A g \in Handlers : ~Writing(g, n)
        BY <2>1, <2>6, <3>2
      <4>2. \A g \in Handlers : Writing(g, m)' <=> g = h
        BY <2>2, <3>2, <4>1 DEF Writing
      <4> QED
        BY <2>2, <2>4, <3>2, <4>2
    <3>3. CASE m # n
      <4>1. merchants'[m] = merchants[m] /\ listings'[m] = listings[m]
        BY <2>1, <2>4, <3>3
      <4> QED
        BY <2>5, <3>1, <3>3, <4>1 DEF OneWriter, ListingAgrees
    <3> QED
      BY <3>2, <3>3
  <2> QED
    BY <2>6 DEF OneWriter, ListingAgrees
<1>5. ASSUME NEW h \in Handlers, handler[h] # Nothing, Fits(handler[h]),
             WriteListing(h) \/ Abort(h)
      PROVE  OneWriter'
  <2> DEFINE task == handler[h]
             n    == task.merchant
  <2>1. /\ \A g \in Handlers \ {h} : handler'[g] = handler[g]
        /\ handler'[h] # Nothing => handler'[h].at # "listing"
    BY <1>5, StoringSteps
  <2>2. n \in Merchants /\ UNCHANGED merchants /\ torn \subseteq torn'
    BY <1>5 DEF Fits, Tasks, WriteListing, Abort, stores, history
  <2>3. CASE task.at # "listing"
    <3>1. UNCHANGED <<merchants, listings, torn>>
      BY <1>5, <2>3 DEF WriteListing, Abort, stores
    <3> QED
      BY <2>1, <2>3, <3>1, OneWriterQuiet
  <2>4. CASE task.at = "listing"
    <3>1. \A m \in Merchants \ {n} : listings'[m] = listings[m]
      BY <1>5 DEF WriteListing, Abort, stores, TypeOK
    <3>2. n \notin torn' => listings'[n] = task.config
      BY <1>5, <2>2, <2>4 DEF WriteListing, Abort, TypeOK
    <3>3. \A m \in Merchants, g \in Handlers : Writing(g, m)' <=> g # h /\ Writing(g, m)
      BY <2>1 DEF Writing
    <3>4. \A m \in Merchants \ {n} : ~Writing(h, m)
      BY DEF Writing
    <3>5. Writing(h, n)
      BY <1>5, <2>4 DEF Writing
    <3>6. ASSUME NEW m \in Merchants \ torn'
          PROVE  /\ (\A g \in Handlers : ~Writing(g, m)') => listings'[m] = merchants'[m]
                 /\ \A g \in Handlers : Writing(g, m)' =>
                      /\ handler'[g].config = merchants'[m]
                      /\ \A k \in Handlers : Writing(k, m)' => k = g
      <4>1. m \in Merchants \ torn /\ merchants'[m] = merchants[m]
        BY <2>2, <3>6
      <4>2. CASE m = n
        <5>1. task.config = merchants[n] /\ \A g \in Handlers : Writing(g, n) => g = h
          BY <3>5, <4>1, <4>2 DEF OneWriter
        <5>2. \A g \in Handlers : ~Writing(g, m)'
          BY <3>3, <4>2, <5>1
        <5>3. listings'[m] = merchants'[m]
          BY <3>2, <3>6, <4>1, <4>2, <5>1
        <5> QED
          BY <5>2, <5>3
      <4>3. CASE m # n
        <5>1. \A g \in Handlers : /\ Writing(g, m)' <=> Writing(g, m)
                                  /\ Writing(g, m) => handler'[g] = handler[g]
          BY <2>1, <3>3, <3>4, <4>3
        <5>2. listings'[m] = listings[m]
          BY <3>1, <4>3
        <5> QED
          BY <4>1, <5>1, <5>2 DEF OneWriter, ListingAgrees
      <4> QED
        BY <4>2, <4>3
    <3> QED
      BY <3>6 DEF OneWriter, ListingAgrees
  <2> QED
    BY <2>3, <2>4
<1> QED
  BY <1>0, <1>1, <1>2, <1>3, <1>4, <1>5, NextCases

(* Two requests that write one merchant, or one that stops between its two *)
(* writes, are the only way the marketplace can show other terms than the  *)
(* gateway asks for.                                                       *)
THEOREM ListingsAgree == Spec => []ListingAgrees
<1>1. Init => OneWriter
  BY DEF Init, OneWriter, ListingAgrees, Writing
<1>2. Typed /\ OneWriter /\ [Next]_vars => OneWriter'
  BY OneWriterStep
<1>3. OneWriter => ListingAgrees
  BY DEF OneWriter
<1> QED
  BY TypedInductive, <1>1, <1>2, <1>3, PTL DEF Spec
=============================================================================
