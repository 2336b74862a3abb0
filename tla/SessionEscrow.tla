--------------------------- MODULE SessionEscrow ---------------------------
(***************************************************************************)
(* The payment sessions of the Move package (sessions.move): an owned      *)
(* object that escrows coins a payer's agent spends to one merchant, up to *)
(* a limit per request and until it expires, is revoked or is closed.      *)
(*                                                                         *)
(* Every action is a transaction; one that aborts changes nothing and is   *)
(* not a step.  The runtime is external: an object is usable only in a     *)
(* transaction of the address that owns it, has key and store and so can   *)
(* be transferred or frozen, and its id is never used again.               *)
(***************************************************************************)
EXTENDS Integers, FiniteSets, FiniteSetsExt

CONSTANTS
  Accounts,     \* addresses
  Ids,          \* object ids
  Challenges,   \* challenge ids
  NoChallenge,  \* the empty challenge id
  Scopes,       \* resource scope hashes
  Limits,       \* values of max_per_request
  Expiries,     \* values of expires_ms
  None, Closed, \* an id before and after the life of its session
  Frozen,       \* the owner of an immutable object
  Supply,       \* bound: coins in existence
  MaxU64,       \* the largest u64
  MaxTime       \* bound: the clock stops here

ASSUME NamesAssumption ==
  /\ NoChallenge \notin Challenges
  /\ Frozen \notin Accounts
  /\ None # Closed

ASSUME NumbersAssumption ==
  /\ Supply \in Nat
  /\ MaxU64 \in Nat
  /\ Supply <= MaxU64
  /\ MaxTime \in Nat
  /\ Limits \subseteq Nat
  /\ Expiries \subseteq Nat

(* Addresses and object ids are 32 bytes long. *)
ASSUME FiniteAssumption == IsFiniteSet(Accounts) /\ IsFiniteSet(Ids)

Sessions ==
  [payer : Accounts, merchant : Accounts, balance : Nat, spent : Nat,
   max : Limits, expires : Expiries, scope : Scopes, revoked : BOOLEAN]

Spends ==
  [session : Ids, payer : Accounts, merchant : Accounts, amount : Nat,
   total : Nat, challenge : Challenges, scope : Scopes]

ASSUME MarksAssumption == None \notin Sessions /\ Closed \notin Sessions

VARIABLES
  now,      \* the Clock object
  wallet,   \* account -> coins it holds
  session,  \* id -> its session, or None, or Closed
  holder,   \* id -> the address that owns the object
  spends,   \* SessionSpent events
  funded    \* history: id -> coins ever put into the session

vars == <<now, wallet, session, holder, spends, funded>>

Live(id) == session[id] \notin {None, Closed}
Amounts  == 0..Supply

----------------------------------------------------------------------------
Init ==
  /\ now = 0
  /\ \E first \in Accounts :
       wallet = [a \in Accounts |-> IF a = first THEN Supply ELSE 0]
  /\ session = [id \in Ids |-> None]
  /\ holder = [id \in Ids |-> Frozen]
  /\ spends = {}
  /\ funded = [id \in Ids |-> 0]

(* open_session: the new object goes to the sender. *)
Open(sender, id, merchant, max, expires, scope, amount) ==
  /\ session[id] = None
  /\ amount <= wallet[sender]
  /\ wallet' = [wallet EXCEPT ![sender] = @ - amount]
  /\ session' = [session EXCEPT ![id] =
       [payer |-> sender, merchant |-> merchant, balance |-> amount, spent |-> 0,
        max |-> max, expires |-> expires, scope |-> scope, revoked |-> FALSE]]
  /\ holder' = [holder EXCEPT ![id] = sender]
  /\ funded' = [funded EXCEPT ![id] = amount]
  /\ UNCHANGED <<now, spends>>

(* Mutant: the coins are counted as spent and not as balance. *)
FundUncounted(sender, id, amount) ==
  /\ Live(id)
  /\ holder[id] = sender
  /\ amount <= wallet[sender]
  /\ wallet' = [wallet EXCEPT ![sender] = @ - amount]
  /\ session' = [session EXCEPT ![id].spent = @ + amount]
  /\ funded' = [funded EXCEPT ![id] = @ + amount]
  /\ UNCHANGED <<now, holder, spends>>

(* fund_session: whoever holds the object, expired or revoked or not. *)
Fund(sender, id, amount) ==
  /\ Live(id)
  /\ holder[id] = sender
  /\ amount <= wallet[sender]
  /\ wallet' = [wallet EXCEPT ![sender] = @ - amount]
  /\ session' = [session EXCEPT ![id].balance = @ + amount]
  /\ funded' = [funded EXCEPT ![id] = @ + amount]
  /\ UNCHANGED <<now, holder, spends>>

(* The asserts of spend, the balance it splits and the u64 it adds to. *)
MaySpend(s, sender, amount, challenge, scope) ==
  /\ sender = s.payer
  /\ ~s.revoked
  /\ now < s.expires
  /\ amount <= s.max
  /\ scope = s.scope
  /\ challenge # NoChallenge
  /\ amount <= s.balance
  /\ s.spent + amount <= MaxU64

(* Mutant: the merchant is paid, the balance is left as it was. *)
SpendUnsplit(sender, id, amount, challenge, scope) ==
  LET s == session[id] IN
  /\ Live(id)
  /\ holder[id] = sender
  /\ MaySpend(s, sender, amount, challenge, scope)
  /\ wallet' = [wallet EXCEPT ![s.merchant] = @ + amount]
  /\ session' = [session EXCEPT ![id].spent = @ + amount]
  /\ spends' = spends \cup
       {[session |-> id, payer |-> s.payer, merchant |-> s.merchant, amount |-> amount,
         total |-> s.spent + amount, challenge |-> challenge, scope |-> scope]}
  /\ UNCHANGED <<now, holder, funded>>

(* Mutant: the event carries the total before the spend. *)
SpendStaleTotal(sender, id, amount, challenge, scope) ==
  LET s == session[id] IN
  /\ Live(id)
  /\ holder[id] = sender
  /\ MaySpend(s, sender, amount, challenge, scope)
  /\ wallet' = [wallet EXCEPT ![s.merchant] = @ + amount]
  /\ session' = [session EXCEPT ![id].balance = @ - amount, ![id].spent = @ + amount]
  /\ spends' = spends \cup
       {[session |-> id, payer |-> s.payer, merchant |-> s.merchant, amount |-> amount,
         total |-> s.spent, challenge |-> challenge, scope |-> scope]}
  /\ UNCHANGED <<now, holder, funded>>

(* spend *)
Spend(sender, id, amount, challenge, scope) ==
  LET s == session[id] IN
  /\ Live(id)
  /\ holder[id] = sender
  /\ MaySpend(s, sender, amount, challenge, scope)
  /\ wallet' = [wallet EXCEPT ![s.merchant] = @ + amount]
  /\ session' = [session EXCEPT ![id].balance = @ - amount, ![id].spent = @ + amount]
  /\ spends' = spends \cup
       {[session |-> id, payer |-> s.payer, merchant |-> s.merchant, amount |-> amount,
         total |-> s.spent + amount, challenge |-> challenge, scope |-> scope]}
  /\ UNCHANGED <<now, holder, funded>>

(* revoke_session *)
Revoke(sender, id) ==
  /\ Live(id)
  /\ holder[id] = sender
  /\ sender = session[id].payer
  /\ session' = [session EXCEPT ![id].revoked = TRUE]
  /\ UNCHANGED <<now, wallet, holder, spends, funded>>

(* Mutant: the remaining balance goes to the merchant. *)
CloseToMerchant(sender, id) ==
  /\ Live(id)
  /\ holder[id] = sender
  /\ sender = session[id].payer
  /\ wallet' = [wallet EXCEPT ![session[id].merchant] = @ + session[id].balance]
  /\ session' = [session EXCEPT ![id] = Closed]
  /\ UNCHANGED <<now, holder, spends, funded>>

(* close_session: what is left goes back to the payer. *)
Close(sender, id) ==
  /\ Live(id)
  /\ holder[id] = sender
  /\ sender = session[id].payer
  /\ wallet' = [wallet EXCEPT ![session[id].payer] = @ + session[id].balance]
  /\ session' = [session EXCEPT ![id] = Closed]
  /\ UNCHANGED <<now, holder, spends, funded>>

(* public_transfer or public_freeze_object by the holder. *)
Transfer(sender, id, to) ==
  /\ Live(id)
  /\ holder[id] = sender
  /\ holder' = [holder EXCEPT ![id] = to]
  /\ UNCHANGED <<now, wallet, session, spends, funded>>

Tick ==
  /\ now < MaxTime
  /\ now' = now + 1
  /\ UNCHANGED <<wallet, session, holder, spends, funded>>

Use(sender, id) ==
  \/ \E merchant \in Accounts, max \in Limits, expires \in Expiries, scope \in Scopes,
        amount \in Amounts : Open(sender, id, merchant, max, expires, scope, amount)
  \/ \E amount \in Amounts : Fund(sender, id, amount)
  \/ \E amount \in Amounts, challenge \in Challenges \cup {NoChallenge}, scope \in Scopes :
       Spend(sender, id, amount, challenge, scope)
  \/ Revoke(sender, id)
  \/ Close(sender, id)
  \/ \E to \in Accounts \cup {Frozen} : Transfer(sender, id, to)

Next ==
  \/ \E sender \in Accounts, id \in Ids : Use(sender, id)
  \/ Tick

Spec == Init /\ [][Next]_vars

----------------------------------------------------------------------------
TypeOK ==
  /\ now \in Nat
  /\ wallet \in [Accounts -> Nat]
  /\ session \in [Ids -> Sessions \cup {None, Closed}]
  /\ holder \in [Ids -> Accounts \cup {Frozen}]
  /\ spends \subseteq Spends
  /\ funded \in [Ids -> Nat]

(* The books of a live session: whatever was put in is still there or was  *)
(* spent, and what was spent so far never left the range of a u64.         *)
FundedIsBalancePlusSpent ==
  \A id \in Ids : Live(id) =>
    /\ funded[id] = session[id].balance + session[id].spent
    /\ session[id].spent <= MaxU64

Escrowed == [id \in Ids |-> IF Live(id) THEN session[id].balance ELSE 0]

(* No coin is made or lost: what the accounts hold and what live sessions  *)
(* escrow is the supply, through every open, fund, spend and close.        *)
CoinsConserved ==
  SumFunctionOnSet(wallet, Accounts) + SumFunctionOnSet(Escrowed, Ids) = Supply

(* The events of a session tell its running total: no two spends of money  *)
(* report the same total, none reports more than was spent, and the spans  *)
(* (total - amount, total] of two events never overlap.                    *)
EventTotalsDisjoint ==
  \A e, f \in spends :
    /\ e.session = f.session /\ e # f =>
         e.total <= f.total - f.amount \/ f.total <= e.total - e.amount
    /\ Live(e.session) => e.total <= session[e.session].spent

(* Escrowed coins go two ways only: to the merchant of the session, at     *)
(* most the limit at a time, before the expiry and before a revocation, or *)
(* all of them back to the payer when it closes the session.  Nobody else  *)
(* gains, and a revoked session stays revoked.                             *)
LeavesByTheTerms(id) ==
  LET s == session[id]
      t == session'[id]
      spent == s.balance - t.balance
  IN
  \/ /\ t = Closed
     /\ wallet' = [wallet EXCEPT ![s.payer] = @ + s.balance]
  \/ /\ t \notin {None, Closed}
     /\ t.payer = s.payer /\ t.merchant = s.merchant /\ t.scope = s.scope
     /\ s.revoked => t.revoked
     /\ t.balance < s.balance =>
          /\ ~s.revoked /\ now < s.expires
          /\ spent <= s.max
          /\ wallet' = [wallet EXCEPT ![s.merchant] = @ + spent]
          /\ \E e \in spends' \ spends :
               e.session = id /\ e.amount = spent /\ e.total = t.spent

TermsRespected == [][\A id \in Ids : Live(id) => LeavesByTheTerms(id)]_vars
=============================================================================
