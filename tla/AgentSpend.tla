----------------------------- MODULE AgentSpend -----------------------------
(***************************************************************************)
(* An agent that pays: Sui402Client of packages/client with the session-   *)
(* first handler of packages/pay (sui402-pay curl), composed with the      *)
(* sessions of the Move package (SessionEscrow).                           *)
(*                                                                         *)
(* A call is answered 402 with a challenge, looks for a session of its     *)
(* owner that covers it, spends from that session or pays one-shot, and    *)
(* retries with the proof, once.  Calls of the same owner run at the same  *)
(* time, and between two awaits of a call anybody may open, fund, revoke,  *)
(* close or transfer sessions.  The provider is external, as its verifier  *)
(* (packages/sui) judges the retry.                                        *)
(***************************************************************************)
EXTENDS SessionEscrow

CONSTANTS
  Owner,         \* the address of the local signer
  SessionOnly,   \* the calls made with --session-only
  Cap,           \* --max-one-shot-amount; 0 stands for none
  Prices,        \* amounts of challenges
  Deadlines,     \* values of a challenge's expiresAt
  Nothing        \* no challenge, no session

(* Calls of the client; a challenge has the name of its call. *)
Calls == Challenges

ASSUME AgentAssumption ==
  /\ Owner \in Accounts
  /\ SessionOnly \subseteq Calls
  /\ Cap \in Nat
  /\ Prices \subseteq Nat \ {0}
  /\ Deadlines \subseteq Nat

VARIABLES
  transfers,  \* one-shot payments
  pc,         \* call -> where it stands
  asked,      \* call -> the challenge it was answered
  found       \* call -> the session it selected, as it read it

calls == <<pc, asked, found>>
agentVars == <<vars, transfers, calls>>

Asks      == [payee : Accounts, price : Prices, scope : Scopes, expires : Deadlines]
Found     == [id : Ids, was : Sessions]
Transfers == [call : Calls, payee : Accounts, amount : Prices]

Paying   == {"find", "spend", "one-shot", "retry"}
Answered == {"served", "rejected", "failed"}

Goto(k, label) == pc' = [pc EXCEPT ![k] = label]

ASSUME NothingAssumption == Nothing \notin Asks \cup Found

----------------------------------------------------------------------------
AgentInit ==
  /\ Init
  /\ transfers = {}
  /\ pc = [k \in Calls |-> "idle"]
  /\ asked = [k \in Calls |-> Nothing]
  /\ found = [k \in Calls |-> Nothing]

(* The first request is answered 402.  readChallenge refuses a challenge   *)
(* that has expired.                                                       *)
Ask(k, ask) ==
  /\ pc[k] = "idle"
  /\ asked' = [asked EXCEPT ![k] = ask]
  /\ Goto(k, IF ask.expires <= now THEN "failed" ELSE "find")
  /\ UNCHANGED <<vars, transfers, found>>

(* Mutant: a session of any merchant will do. *)
UsableByScope(k) ==
  {id \in Ids :
     /\ Live(id)
     /\ holder[id] = Owner
     /\ session[id].scope = asked[k].scope
     /\ asked[k].price <= session[id].balance
     /\ asked[k].price <= session[id].max
     /\ now < session[id].expires
     /\ ~session[id].revoked}

(* The sessions findUsableAgentPaymentSession leaves: objects the owner    *)
(* holds, for this merchant and scope, rich enough, allowed to and alive.  *)
Usable(k) ==
  {id \in Ids :
     /\ Live(id)
     /\ holder[id] = Owner
     /\ session[id].merchant = asked[k].payee
     /\ session[id].scope = asked[k].scope
     /\ asked[k].price <= session[id].balance
     /\ asked[k].price <= session[id].max
     /\ now < session[id].expires
     /\ ~session[id].revoked}

(* Its order: the largest balance first, then whoever expires first. *)
Preferred(s, t) ==
  \/ s.balance > t.balance
  \/ s.balance = t.balance /\ s.expires <= t.expires

(* Mutant: the handler is not guarded by the policy with the cap. *)
FallBackUnguarded(k) ==
  /\ pc[k] = "find"
  /\ Usable(k) = {}
  /\ Goto(k, IF k \in SessionOnly THEN "failed" ELSE "one-shot")
  /\ UNCHANGED <<vars, transfers, asked, found>>

(* await findUsableAgentPaymentSession *)
Select(k) ==
  /\ pc[k] = "find"
  /\ \E id \in Usable(k) :
       /\ \A other \in Usable(k) : Preferred(session[id], session[other])
       /\ found' = [found EXCEPT ![k] = [id |-> id, was |-> session[id]]]
  /\ Goto(k, "spend")
  /\ UNCHANGED <<vars, transfers, asked>>

(* No session: the fallback, unless --session-only, and guarded by a       *)
(* policy that allows no more than the cap, without which it throws.       *)
FallBack(k) ==
  /\ pc[k] = "find"
  /\ Usable(k) = {}
  /\ Goto(k, IF k \notin SessionOnly /\ asked[k].price <= Cap THEN "one-shot" ELSE "failed")
  /\ UNCHANGED <<vars, transfers, asked, found>>

(* Mutant: the fallback is tried when the spend seems to have failed,     *)
(* though the transaction was executed.                                    *)
SpendThenFallBack(k) ==
  /\ pc[k] = "spend"
  /\ Spend(Owner, found[k].id, asked[k].price, k, asked[k].scope)
  /\ \/ Goto(k, "retry")
     \/ k \notin SessionOnly /\ asked[k].price <= Cap /\ Goto(k, "one-shot")
  /\ UNCHANGED <<transfers, asked, found>>

(* await signAndExecuteTransaction with a spend on the session found. *)
SpendFromSession(k) ==
  /\ pc[k] = "spend"
  /\ Spend(Owner, found[k].id, asked[k].price, k, asked[k].scope)
  /\ Goto(k, "retry")
  /\ UNCHANGED <<transfers, asked, found>>

(* A payment of the same amount to the recipient of the challenge. *)
PayOneShot(k) ==
  LET ask == asked[k] IN
  /\ pc[k] = "one-shot"
  /\ ask.price <= wallet[Owner]
  /\ wallet' = [a \in Accounts |->
       wallet[a] + (IF a = ask.payee THEN ask.price ELSE 0)
                 - (IF a = Owner THEN ask.price ELSE 0)]
  /\ transfers' = transfers \cup {[call |-> k, payee |-> ask.payee, amount |-> ask.price]}
  /\ Goto(k, "retry")
  /\ UNCHANGED <<now, session, holder, spends, funded, asked, found>>

(* A spend of the call that the verifier finds in the events, and the      *)
(* transfer it finds in the balance changes, where the coins an owner pays *)
(* to itself do not show.                                                  *)
Spent(k, e) ==
  /\ e.session = found[k].id
  /\ e.merchant = asked[k].payee
  /\ e.amount >= asked[k].price
  /\ e.challenge = k
  /\ e.scope = asked[k].scope
Transferred(k, t) ==
  /\ t.call = k
  /\ t.payee = asked[k].payee
  /\ t.payee # Owner
  /\ t.amount >= asked[k].price

Fits(k) ==
  \/ found[k] # Nothing /\ \E e \in spends : Spent(k, e)
  \/ \E t \in transfers : Transferred(k, t)

(* The retry, with the proof; whatever it is answered goes to the caller. *)
Retry(k) ==
  /\ pc[k] = "retry"
  /\ Goto(k, IF now < asked[k].expires /\ Fits(k) THEN "served" ELSE "rejected")
  /\ UNCHANGED <<vars, transfers, asked, found>>

(* An await rejects and the call throws: a listing that fails, a spend or  *)
(* a payment that aborts or fails its simulation, a wait for finality      *)
(* after the transaction was executed, a retry that is lost.               *)
Fail(k) ==
  /\ pc[k] \in Paying
  /\ Goto(k, "failed")
  /\ UNCHANGED <<vars, transfers, asked, found>>

Call(k) ==
  \/ \E ask \in Asks : Ask(k, ask)
  \/ Select(k)
  \/ FallBack(k)
  \/ SpendFromSession(k)
  \/ PayOneShot(k)
  \/ Retry(k)
  \/ Fail(k)

(* What anybody may do to the sessions meanwhile, but for the spends of    *)
(* the owner, which are those of its calls.                                *)
Manage(sender, id) ==
  \/ \E merchant \in Accounts, max \in Limits, expires \in Expiries, scope \in Scopes,
        amount \in Amounts :
       Open(sender, id, merchant, max, expires, scope, amount)
  \/ \E amount \in Amounts \ {0} : Fund(sender, id, amount)
  \/ Revoke(sender, id)
  \/ Close(sender, id)
  \/ \E to \in Accounts : Transfer(sender, id, to)

AgentNext ==
  \/ \E k \in Calls : Call(k)
  \/ /\ \E sender \in Accounts, id \in Ids : Manage(sender, id)
     /\ UNCHANGED <<transfers, calls>>
  \/ Tick /\ UNCHANGED <<transfers, calls>>

AgentSpec == AgentInit /\ [][AgentNext]_agentVars

----------------------------------------------------------------------------
AgentTypeOK ==
  /\ TypeOK
  /\ transfers \subseteq Transfers
  /\ pc \in [Calls -> {"idle"} \cup Paying \cup Answered]
  /\ asked \in [Calls -> Asks \cup {Nothing}]
  /\ found \in [Calls -> Found \cup {Nothing}]

(* A call pays once at most, from a session or one-shot, however it fails, *)
(* and a call that was answered 402 and did not pay was never served.      *)
Payments(k) ==
  Cardinality({e \in spends : e.challenge = k}) +
  Cardinality({t \in transfers : t.call = k})

OnePaymentPerCall ==
  \A k \in Calls : /\ Payments(k) <= 1
                   /\ pc[k] = "served" => Payments(k) = 1

(* What a call pays is what its challenge asked, to whom it asked, for the *)
(* scope it asked; one-shot, no more than the cap and never with           *)
(* --session-only; from a session, no more than its limit per request.     *)
PaysWhatWasAsked ==
  /\ \A e \in spends :
       LET ask == asked[e.challenge] IN
       /\ e.amount = ask.price /\ e.scope = ask.scope /\ e.merchant = ask.payee
       /\ e.amount <= found[e.challenge].was.max
  /\ \A t \in transfers :
       LET ask == asked[t.call] IN
       /\ t.amount = ask.price /\ t.payee = ask.payee
       /\ t.amount <= Cap /\ t.call \notin SessionOnly

(* The client's choice of session, the contract's checks and the           *)
(* provider's verifier agree: a call that paid is turned away only when    *)
(* its challenge has expired, though the session changed since it was      *)
(* read, or when it paid one-shot to its own address.                      *)
RejectedOnlyLate ==
  \A k \in Calls : pc[k] = "rejected" =>
    \/ asked[k].expires <= now
    \/ asked[k].payee = Owner /\ \E t \in transfers : t.call = k

(* A session that was found usable can be spent from, as long as it is     *)
(* what it was, still held by the owner and not expired.                   *)
FoundIsSpendable ==
  \A k \in {c \in Calls : pc[c] = "spend"} :
    LET id == found[k].id
        s == found[k].was
    IN
    session[id] = s /\ holder[id] = Owner /\ now < s.expires
      => MaySpend(s, Owner, asked[k].price, k, asked[k].scope)
=============================================================================
