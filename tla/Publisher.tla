----------------------------- MODULE Publisher -----------------------------
(***************************************************************************)
(* The publisher's card of apps/dashboard over the publisher routes of     *)
(* apps/console-api: access tokens and the short-lived sessions signed     *)
(* with them.                                                              *)
(*                                                                         *)
(* The page drafts or resumes an application, attaches a wallet proof,     *)
(* exchanges its access token for a session and probes; no button waits    *)
(* for a call of another, and an answer is applied to the card that is     *)
(* there by then.  The console loads an application, awaits and writes it  *)
(* back whole, token included, while an operator rotates the token.        *)
(*                                                                         *)
(* Page and console go by a clock of their own each: the console signs and *)
(* checks sessions by its own, the page compares their expiry with its.    *)
(*                                                                         *)
(* What else such a write carries is in Console, the limiter of failed     *)
(* credentials in RateLimit.  Applications here have an upstream.          *)
(***************************************************************************)
EXTENDS Integers, FiniteSets

CONSTANTS
  Applications,  \* ids of merchant applications
  Legacy,        \* those from before there were access tokens
  Calls,         \* calls in flight at once, of the page and of others
  Ttl,           \* seconds a session is asked for
  Margin,        \* seconds a cached session must have left
  Lags,          \* seconds the page's clock may be behind the console's, or
                 \*   ahead of it when negative
  MaxTokens,     \* bound: access tokens ever drawn
  MaxTime,       \* bound: the clock stops here
  Absent,        \* no such application
  Nothing

ASSUME LegacyAssumption == Legacy \subseteq Applications

(* 900 and 30 seconds in the code. *)
ASSUME TimesAssumption ==
  /\ Ttl \in Nat /\ Margin \in Nat /\ MaxTime \in Nat /\ MaxTokens \in Nat
  /\ Margin < Ttl
  /\ Lags \subseteq Int

ASSUME AbsentAssumption == Absent \notin Nat /\ Nothing \notin Applications

(* Tokens are drawn at random and never twice; 0 stands for none. *)
Keys     == 0..MaxTokens
Cards    == [app : Applications, key : Keys]
Sessions == [app : Applications, key : Keys, expires : Nat]

(* Calls with a button to wait for: a draft has none. *)
Buttons == {"resume", "proof", "session", "probe"}
PageOps == {"draft"} \cup Buttons

(* A call: where it stands, the application it is about, the token it      *)
(* sends, brings back or is about to write, the session it sends or brings *)
(* back, whether a probe waits for that session, when it was clicked by    *)
(* the console's clock and, if it sends a cached session, how far the      *)
(* page's clock was behind then.                                           *)
Tasks == [op : PageOps \cup {"write", "rotate"},
          at : {"out", "loaded", "back", "refused"},
          app : Applications \cup {Nothing}, key : Keys,
          session : Sessions \cup {Nothing}, probing : BOOLEAN, since : Nat,
          lag : Int]

ASSUME NothingAssumption == Nothing \notin Cards \cup Sessions \cup Tasks

VARIABLES
  now,        \* the console's clock, in seconds
  token,      \* application -> access token on record
  drawn,      \* how many tokens were drawn
  call,       \* call -> its task, Nothing while there is none
  card,       \* the page: submittedApplication with the token it came with
  held,       \* the page: publisherAccessToken
  session,    \* the page: publisherSession
  probe,      \* the page: the application of publisherProbe
  busy,       \* the page: buttons that wait
  retired,    \* history: tokens a rotation replaced, with their application
  overtaken,  \* history: applications rotated while a copy was to be written back
  crossed     \* history: two calls of the page overlapped, and no resume or
              \*          draft has filled the card by itself since

console == <<token, drawn>>
page    == <<card, held, session, probe, busy>>
history == <<retired, overtaken, crossed>>
vars    == <<now, console, call, page, history>>

----------------------------------------------------------------------------
At(c, op, place) == call[c] # Nothing /\ call[c].op = op /\ call[c].at = place

Rivals(c) == {d \in Calls \ {c} : call[d] # Nothing /\ call[d].op \in PageOps}

Send(c, op, place, app, key, s, probing, lag) ==
  /\ call[c] = Nothing
  /\ call' = [call EXCEPT ![c] =
       [op |-> op, at |-> place, app |-> app, key |-> key, session |-> s,
        probing |-> probing, since |-> IF probing THEN now ELSE 0, lag |-> lag]]

Goto(c, place) == call' = [call EXCEPT ![c].at = place]
Done(c)        == call' = [call EXCEPT ![c] = Nothing]

Refuse(c) ==
  call' = [call EXCEPT ![c] = [op |-> @.op, at |-> "refused", app |-> Nothing,
             key |-> 0, session |-> Nothing, probing |-> @.probing, since |-> 0,
             lag |-> 0]]

(* What answers to the card show of the token on record, but for the one   *)
(* to a draft.                                                             *)
Redacted == 0

(* A session is signed with the token on record and names its application. *)
SignedFor(a) == [app |-> a, key |-> token[a], expires |-> now + Ttl]

Opens(a, s) == s.app = a /\ s.key = token[a] /\ now < s.expires

(* The token the card exchanges: the one its application came with, or     *)
(* else publisherAccessToken.                                              *)
CardKey == IF card.key # 0 THEN card.key ELSE held

(* Date.now() in the page: its clock may be set or drift between any two   *)
(* readings.                                                               *)
PageClock(lag) == now - lag

(* Mutant: a cached session is used until it expires. *)
CachedToTheEnd(lag) == session # Nothing /\ session.expires > PageClock(lag)

Cached(lag) == session # Nothing /\ session.expires > PageClock(lag) + Margin

Init ==
  /\ now = 0
  /\ token = [a \in Applications |-> IF a \in Legacy THEN 0 ELSE Absent]
  /\ drawn = 0
  /\ call = [c \in Calls |-> Nothing]
  /\ card = Nothing
  /\ held = 0
  /\ session = Nothing
  /\ probe = Nothing
  /\ busy = {}
  /\ retired = {}
  /\ overtaken = {}
  /\ crossed = FALSE

----------------------------------------------------------------------------
(* The page: what a click sends. *)

Click(c, op, app, key, s, probing, lag, waits) ==
  /\ Send(c, op, "out", app, key, s, probing, lag)
  /\ busy' = busy \cup waits
  /\ crossed' = (crossed \/ Rivals(c) # {})
  /\ UNCHANGED <<now, console, card, held, session, probe, retired, overtaken>>

ClickDraft(c) == Click(c, "draft", Nothing, 0, Nothing, FALSE, 0, {})

(* Any id with any token there is. *)
ClickResume(c, a, t) == Click(c, "resume", a, t, Nothing, FALSE, 0, {"resume"})

ClickProof(c) ==
  /\ card # Nothing
  /\ Click(c, "proof", card.app, 0, Nothing, FALSE, 0, {"proof"})

(* ensurePublisherSession, which returns the cached session or exchanges   *)
(* the token; as a button of its own it sends nothing when one is cached.  *)
ClickSession(c) ==
  /\ card # Nothing
  /\ CardKey # 0
  /\ \E lag \in Lags : ~Cached(lag)
  /\ Click(c, "session", card.app, CardKey, Nothing, FALSE, 0, {"session"})

ClickProbe(c) ==
  /\ card # Nothing
  /\ CardKey # 0
  /\ \E lag \in Lags :
       IF Cached(lag)
         THEN Click(c, "probe", card.app, 0, session, TRUE, lag, {"probe"})
         ELSE Click(c, "session", card.app, CardKey, Nothing, TRUE, 0, {"session", "probe"})

----------------------------------------------------------------------------
(* The console.  Fail stands for whatever else it may answer. *)

(* The draft is stored with a fresh token, which its answer shows once. *)
HandleDraft(c) ==
  /\ At(c, "draft", "out")
  /\ drawn < MaxTokens
  /\ \E a \in Applications :
       /\ token[a] = Absent
       /\ token' = [token EXCEPT ![a] = drawn + 1]
       /\ call' = [call EXCEPT ![c].at = "back", ![c].app = a, ![c].key = drawn + 1]
  /\ drawn' = drawn + 1
  /\ UNCHANGED <<now, page, history>>

(* GET status with the access token: its answer has the token redacted. *)
HandleResume(c) ==
  /\ At(c, "resume", "out")
  /\ IF call[c].key = token[call[c].app] THEN Goto(c, "back") ELSE Refuse(c)
  /\ UNCHANGED <<now, console, page, history>>

HandleSession(c) ==
  LET a == call[c].app IN
  /\ At(c, "session", "out")
  /\ IF call[c].key = token[a]
       THEN call' = [call EXCEPT ![c].at = "back", ![c].key = 0,
                                 ![c].session = SignedFor(a)]
       ELSE Refuse(c)
  /\ UNCHANGED <<now, console, page, history>>

HandleProbe(c) ==
  /\ At(c, "probe", "out")
  /\ IF Opens(call[c].app, call[c].session)
       THEN call' = [call EXCEPT ![c].at = "back", ![c].session = Nothing,
                                 ![c].since = 0, ![c].lag = 0]
       ELSE Refuse(c)
  /\ UNCHANGED <<now, console, page, history>>

(* The wallet's signature is checked on the copy that was loaded. *)
HandleProof(c) ==
  /\ At(c, "proof", "out")
  /\ call' = [call EXCEPT ![c].at = "loaded", ![c].key = token[call[c].app]]
  /\ UNCHANGED <<now, console, page, history>>

(* Others: a verification, a review, or a wallet proof from elsewhere. *)
BeginWrite(c, a) ==
  /\ token[a] # Absent
  /\ Send(c, "write", "loaded", a, token[a], Nothing, FALSE, 0)
  /\ UNCHANGED <<now, console, page, history>>

(* Mutant: the new token does not get into the record. *)
BeginRotateUnsaved(c, a) ==
  /\ token[a] # Absent
  /\ drawn < MaxTokens
  /\ Send(c, "rotate", "loaded", a, token[a], Nothing, FALSE, 0)
  /\ drawn' = drawn + 1
  /\ UNCHANGED <<now, token, page, history>>

BeginRotate(c, a) ==
  /\ token[a] # Absent
  /\ drawn < MaxTokens
  /\ Send(c, "rotate", "loaded", a, drawn + 1, Nothing, FALSE, 0)
  /\ drawn' = drawn + 1
  /\ UNCHANGED <<now, token, page, history>>

(* Copies with a token that is not theirs to change. *)
Copies(a) ==
  {d \in Calls : /\ call[d] # Nothing
                 /\ call[d].at = "loaded"
                 /\ call[d].op \in {"proof", "write"}
                 /\ call[d].app = a}

(* stores.merchantApplications.update *)
Write(c) ==
  LET task == call[c] IN
  /\ task # Nothing
  /\ task.at = "loaded"
  /\ token' = [token EXCEPT ![task.app] = task.key]
  /\ IF task.op = "proof"
       THEN call' = [call EXCEPT ![c].at = "back", ![c].key = 0]
       ELSE Done(c)
  /\ IF task.op = "rotate"
       THEN /\ retired' = retired \cup {<<task.app, token[task.app]>>}
            /\ overtaken' = IF Copies(task.app) = {} THEN overtaken
                            ELSE overtaken \cup {task.app}
       ELSE UNCHANGED <<retired, overtaken>>
  /\ UNCHANGED <<now, drawn, page, crossed>>

----------------------------------------------------------------------------
(* The page: what an answer does to the card that is there by then. *)

(* The card is filled anew. *)
Fill(c, key, heldKey, button) ==
  /\ card' = [app |-> call[c].app, key |-> key]
  /\ held' = heldKey
  /\ session' = Nothing
  /\ probe' = Nothing
  /\ busy' = busy \ {button}
  /\ crossed' = (crossed /\ Rivals(c) # {})
  /\ Done(c)
  /\ UNCHANGED <<now, console, retired, overtaken>>

(* Mutant: the token is left to the application that came with it. *)
FinishDraftKeyless(c) ==
  /\ At(c, "draft", "back")
  /\ Fill(c, call[c].key, held, "draft")

FinishDraft(c) ==
  /\ At(c, "draft", "back")
  /\ Fill(c, call[c].key, call[c].key, "draft")

(* Mutant: the session of the card before stays. *)
FinishResumeOver(c) ==
  /\ At(c, "resume", "back")
  /\ card' = [app |-> call[c].app, key |-> Redacted]
  /\ held' = call[c].key
  /\ busy' = busy \ {"resume"}
  /\ crossed' = (crossed /\ Rivals(c) # {})
  /\ Done(c)
  /\ UNCHANGED <<now, console, session, probe, retired, overtaken>>

FinishResume(c) ==
  /\ At(c, "resume", "back")
  /\ Fill(c, Redacted, call[c].key, "resume")

FinishProof(c) ==
  /\ At(c, "proof", "back")
  /\ card' = [app |-> call[c].app, key |-> Redacted]
  /\ busy' = busy \ {"proof"}
  /\ Done(c)
  /\ UNCHANGED <<now, console, held, session, probe, history>>

(* A probe that waited goes on with the application of its click. *)
FinishSession(c) ==
  /\ At(c, "session", "back")
  /\ session' = call[c].session
  /\ busy' = busy \ {"session"}
  /\ IF call[c].probing
       THEN call' = [call EXCEPT ![c].op = "probe", ![c].at = "out"]
       ELSE Done(c)
  /\ UNCHANGED <<now, console, card, held, probe, history>>

FinishProbe(c) ==
  /\ At(c, "probe", "back")
  /\ probe' = call[c].app
  /\ busy' = busy \ {"probe"}
  /\ Done(c)
  /\ UNCHANGED <<now, console, card, held, session, history>>

(* Mutant: only the button of the call that failed comes back. *)
OwnButton(task) == {task.op}

(* The buttons a call lets go when it throws: finally, at each level. *)
Waiting(task) == {task.op} \cup (IF task.probing THEN {"probe"} ELSE {})

(* An answer that is no success, a connection or a process that breaks.    *)
(* The console may go on with a copy it loaded.                            *)
Fail(c) ==
  /\ call[c] # Nothing
  /\ busy' = IF call[c].op \in PageOps THEN busy \ Waiting(call[c]) ELSE busy
  /\ \/ Done(c)
     \/ At(c, "proof", "loaded") /\ call' = [call EXCEPT ![c].op = "write"]
  /\ UNCHANGED <<now, console, card, held, session, probe, history>>

Tick ==
  /\ now < MaxTime
  /\ now' = now + 1
  /\ UNCHANGED <<console, call, page, history>>

----------------------------------------------------------------------------
Start(c) ==
  \/ ClickDraft(c)
  \/ \E a \in Applications, t \in 1..drawn : ClickResume(c, a, t)
  \/ ClickProof(c)
  \/ ClickSession(c)
  \/ ClickProbe(c)
  \/ \E a \in Applications : BeginWrite(c, a) \/ BeginRotate(c, a)

Proceed(c) ==
  \/ HandleDraft(c)
  \/ HandleResume(c)
  \/ HandleSession(c)
  \/ HandleProbe(c)
  \/ HandleProof(c)
  \/ Write(c)
  \/ FinishDraft(c)
  \/ FinishResume(c)
  \/ FinishProof(c)
  \/ FinishSession(c)
  \/ FinishProbe(c)
  \/ Fail(c)

Next ==
  \/ \E c \in Calls : Start(c) \/ Proceed(c)
  \/ Tick

Spec == Init /\ [][Next]_vars

----------------------------------------------------------------------------
TypeOK ==
  /\ now \in Nat
  /\ token \in [Applications -> Keys \cup {Absent}]
  /\ drawn \in Keys
  /\ call \in [Calls -> Tasks \cup {Nothing}]
  /\ card \in Cards \cup {Nothing}
  /\ held \in Keys
  /\ session \in Sessions \cup {Nothing}
  /\ probe \in Applications \cup {Nothing}
  /\ busy \subseteq Buttons
  /\ retired \subseteq Applications \X Keys
  /\ overtaken \subseteq Applications
  /\ crossed \in BOOLEAN

(* As long as calls of the page do not overlap, session, probe and         *)
(* application of the card are of one application; and a resume or a draft *)
(* that nothing overlaps brings that about again.                          *)
CardAgrees ==
  ~crossed =>
    /\ session # Nothing => card # Nothing /\ session.app = card.app
    /\ probe # Nothing => card # Nothing /\ probe = card.app

(* Nor does the card lose its key, though of the answers it gets only the  *)
(* one to a draft shows it: the token it would exchange is the one on      *)
(* record, unless an operator has rotated it.                              *)
KeepsItsKey ==
  ~crossed /\ card # Nothing /\ card.app \notin overtaken =>
    CardKey = token[card.app] \/ <<card.app, CardKey>> \in retired

(* A token that was rotated away opens nothing again, nor does a session   *)
(* signed with it, unless a copy loaded before the rotation was to be      *)
(* written back after it.                                                  *)
RotationHolds ==
  \A a \in Applications \ overtaken : <<a, token[a]>> \notin retired

TooOld(task) ==
  /\ task.session.app = task.app
  /\ task.session.key = token[task.app]
  /\ task.session.expires <= now

(* A probe is refused for the age of its session only when the time it was *)
(* under way and, if the session was cached, the lag of the page's clock   *)
(* at the click exceed the margin together; whether a session was cached   *)
(* or exchanged for it, and whatever else the page did meanwhile.  Nothing *)
(* keeps the clocks together: a lag above the margin gets a probe refused  *)
(* at once, and one below it leaves the rest of the margin to the call.    *)
RefusedLate ==
  [][\A c \in Calls : HandleProbe(c) /\ TooOld(call[c]) =>
       now - call[c].since + call[c].lag > Margin]_vars

(* No button waits for nothing: however calls overlap, fail and chain, one *)
(* that shows it is waiting has a call under way that it was clicked for.  *)
ButtonsHaveACall ==
  \A b \in busy : \E c \in Calls :
    /\ call[c] # Nothing
    /\ \/ call[c].op = b
       \/ b = "probe" /\ call[c].probing
=============================================================================
