-------------------------- MODULE Publisher_proofs --------------------------
(***************************************************************************)
(* Theorems about Publisher, for any number of calls, applications and     *)
(* access tokens, any lifetime and margin of sessions, and clocks of page  *)
(* and console that are any way apart.                                     *)
(***************************************************************************)
EXTENDS Publisher, TLAPS

USE DEF Redacted, SignedFor

(* The tasks a call can be at, given the tokens on record and the time. *)
FitsAt(t, tokens, time) ==
  /\ t \in Tasks
  /\ t.since <= time
  /\ t.op \in {"write", "rotate"} => t.at = "loaded"
  /\ t.at = "loaded" => t.op \in {"proof", "write", "rotate"}
  /\ t.at = "out" /\ t.op # "draft" => t.app \in Applications
  /\ \/ t.at \in {"loaded", "back"}
     \/ t.at = "out" /\ t.op \in {"proof", "session", "probe"}
     => t.app \in Applications /\ tokens[t.app] # Absent
  /\ t.op = "probe" => t.probing
  /\ t.probing => t.op \in {"session", "probe"}
  /\ t.op = "session" => t.lag = 0
  /\ \/ t.op = "probe" /\ t.at = "out"
     \/ t.op = "session" /\ t.at = "back"
     => /\ t.session \in Sessions
        /\ t.probing => t.session.expires > t.since - t.lag + Margin
  /\ t.op = "session" /\ t.at = "back" => t.session.app = t.app

Fits(t) == FitsAt(t, token, now)

CallInv ==
  /\ call \in [Calls -> Tasks \cup {Nothing}]
  /\ \A c \in Calls : call[c] # Nothing => Fits(call[c])

CardOn == card # Nothing => token[card.app] # Absent

Typed == TypeOK /\ CallInv /\ CardOn

(* What a call loaded is still on record, unless a rotation overtook it. *)
Copied ==
  \A c \in Calls :
    /\ call[c] # Nothing
    /\ call[c].at = "loaded"
    /\ call[c].op \in {"proof", "write"}
    /\ call[c].app \notin overtaken
    => call[c].key = token[call[c].app]

(* A token that is about to be recorded is nowhere yet. *)
Fresh ==
  \A c \in Calls : call[c] # Nothing /\ call[c].op = "rotate" =>
    /\ \A a \in Applications : token[a] # call[c].key /\ <<a, call[c].key>> \notin retired
    /\ \A d \in Calls \ {c} : call[d] # Nothing /\ call[d].at = "loaded" =>
         call[d].key # call[c].key

(* No token is met before it is drawn. *)
Drawn ==
  /\ \A a \in Applications : token[a] # Absent => token[a] <= drawn
  /\ \A r \in retired : r[2] <= drawn
  /\ \A c \in Calls : call[c] # Nothing /\ call[c].at = "loaded" => call[c].key <= drawn

Rotation == Copied /\ Fresh /\ Drawn /\ RotationHolds

(* A key of the application that a rotation at most explains away. *)
Good(a, k) == a \in overtaken \/ k = token[a] \/ <<a, k>> \in retired

(* Calls of the page do not overlap as long as nothing crossed. *)
Alone ==
  ~crossed => \A c, d \in Calls :
    /\ call[c] # Nothing /\ call[c].op \in PageOps
    /\ call[d] # Nothing /\ call[d].op \in PageOps
    => c = d

(* A call about the card's application meets the card it left. *)
Steady ==
  ~crossed => \A c \in Calls :
    /\ call[c] # Nothing
    /\ call[c].op \in {"proof", "session", "probe"}
    /\ call[c].at # "refused"
    => card # Nothing /\ card.app = call[c].app

(* The card has one key, which is good for its application. *)
OneKey ==
  /\ card # Nothing => card.key \in {0, held}
  /\ card # Nothing /\ ~crossed => Good(card.app, held)
  /\ \A c \in Calls :
       call[c] # Nothing /\ call[c].op \in {"draft", "resume"} /\ call[c].at = "back" =>
         Good(call[c].app, call[c].key)

Page == Alone /\ Steady /\ OneKey /\ CardAgrees

----------------------------------------------------------------------------
(* Types. *)

(* What stays as it is when time passes and tokens are recorded. *)
Grows ==
  /\ now <= now' /\ now' \in Nat
  /\ \A a \in Applications : token[a] # Absent => token'[a] # Absent

LEMMA FitsLater ==
  ASSUME Grows, now \in Nat, NEW t, Fits(t) PROVE FitsAt(t, token', now')
<1>1. t.since \in Nat
  BY DEF Fits, FitsAt, Tasks
<1> QED
  BY <1>1 DEF Grows, Fits, FitsAt

(* A call that goes on to a task that fits, or ends. *)
LEMMA CallStep ==
  ASSUME CallInv, Grows, now \in Nat, NEW c \in Calls, NEW t,
         t = Nothing \/ FitsAt(t, token', now'),
         call' = [call EXCEPT ![c] = t]
  PROVE  CallInv'
<1>1. \A d \in Calls : call'[d] = IF d = c THEN t ELSE call[d]
  BY DEF CallInv
<1>2. t \in Tasks \cup {Nothing}
  BY DEF FitsAt
<1>3. call' \in [Calls -> Tasks \cup {Nothing}]
  BY <1>2 DEF CallInv
<1>4. \A d \in Calls : call'[d] # Nothing => FitsAt(call'[d], token', now')
  BY <1>1, FitsLater DEF CallInv
<1> QED
  BY <1>3, <1>4 DEF CallInv, Fits

LEMMA NothingElse ==
  /\ Nothing \notin Cards
  /\ Nothing \notin Sessions
  /\ Nothing \notin Tasks
  /\ Nothing \notin Applications
BY NothingAssumption, AbsentAssumption

LEMMA KeysAreNat == Keys \subseteq Nat /\ 0 \in Keys /\ Absent \notin Keys
BY TimesAssumption, AbsentAssumption DEF Keys

(* A probe that is answered drops its session. *)
LEMMA AnsweredProbe ==
  ASSUME NEW task \in Tasks
  PROVE  LET t == [task EXCEPT !.at = "back", !.session = Nothing, !.since = 0, !.lag = 0]
         IN  /\ t \in Tasks /\ t.at = "back" /\ t.since = 0 /\ t.lag = 0
             /\ t.op = task.op /\ t.app = task.app /\ t.probing = task.probing
<1> DEFINE ops      == PageOps \cup {"write", "rotate"}
           places   == {"out", "loaded", "back", "refused"}
           apps     == Applications \cup {Nothing}
           sessions == Sessions \cup {Nothing}
<1>1. Tasks = [op : ops, at : places, app : apps, key : Keys, session : sessions,
               probing : BOOLEAN, since : Nat, lag : Int]
  BY DEF Tasks
<1>2. "back" \in places /\ Nothing \in sessions /\ 0 \in Nat /\ 0 \in Int
  OBVIOUS
<1> HIDE DEF ops, places, apps, sessions
<1> QED
  BY <1>1, <1>2

(* A click sends what fits. *)
LEMMA ClickTyped ==
  ASSUME Typed, NEW c \in Calls, NEW op \in PageOps,
         NEW app \in Applications \cup {Nothing}, NEW key \in Keys,
         NEW s \in Sessions \cup {Nothing}, NEW probing \in BOOLEAN,
         NEW lag \in Int, NEW waits \in SUBSET Buttons,
         op # "draft" => app \in Applications,
         op \in {"proof", "session", "probe"} => token[app] # Absent,
         probing => op \in {"session", "probe"},
         op = "session" => lag = 0,
         op = "probe" => probing /\ s \in Sessions /\ s.expires > now - lag + Margin,
         Click(c, op, app, key, s, probing, lag, waits)
  PROVE  Typed' /\ call'[c] \in Tasks
<1> DEFINE t == [op |-> op, at |-> "out", app |-> app, key |-> key, session |-> s,
                 probing |-> probing, since |-> IF probing THEN now ELSE 0,
                 lag |-> lag]
<1>1. now \in Nat /\ Grows
  BY DEF Typed, TypeOK, Click, console, Grows
<1>2. FitsAt(t, token', now')
  <2>1. t \in Tasks
    BY <1>1 DEF Tasks, PageOps, Buttons
  <2>2. token' = token /\ now' = now
    BY DEF Click, console
  <2> HIDE DEF Tasks
  <2> QED
    BY <2>1, <2>2, <1>1 DEF FitsAt, PageOps, Buttons
<1>3. call' = [call EXCEPT ![c] = t]
  BY DEF Click, Send
<1>4. CallInv'
  BY <1>1, <1>2, <1>3, CallStep DEF Typed
<1>5. crossed' \in BOOLEAN
  BY DEF Typed, TypeOK, Click
<1>6. call'[c] \in Tasks
  BY <1>2, <1>3 DEF FitsAt, Typed, TypeOK
<1> QED
  BY <1>4, <1>5, <1>6 DEF Typed, TypeOK, CallInv, CardOn, Click, console

LEMMA StartTyped ==
  ASSUME Typed, NEW c \in Calls, Start(c) PROVE Typed' /\ call'[c] \in Tasks
<1> USE DEF PageOps, Buttons
<1>0. /\ card # Nothing => /\ card.app \in Applications
                         /\ token[card.app] # Absent
                         /\ CardKey \in Keys
      /\ \A lag \in Lags : /\ lag \in Int
                           /\ Cached(lag) => /\ session \in Sessions
                                             /\ session.expires > now - lag + Margin
  BY TimesAssumption DEF Typed, TypeOK, CardOn, CardKey, Cards, Cached, PageClock
<1>7. ASSUME NEW op \in PageOps \ {"probe"}, NEW app \in Applications \cup {Nothing},
             NEW key \in Keys, NEW probing \in BOOLEAN, NEW waits \in SUBSET Buttons,
             op # "draft" => app \in Applications,
             op \in {"proof", "session"} => token[app] # Absent,
             probing => op = "session",
             Click(c, op, app, key, Nothing, probing, 0, waits)
      PROVE  Typed' /\ call'[c] \in Tasks
  <2>1. Nothing \in Sessions \cup {Nothing} /\ 0 \in Int /\ op \in PageOps
    OBVIOUS
  <2>2. /\ op # "probe" /\ op = "session" => 0 = 0
        /\ probing => op \in {"session", "probe"}
        /\ op \in {"proof", "session", "probe"} => token[app] # Absent
    BY <1>7
  <2> HIDE DEF PageOps, Buttons
  <2> QED
    BY <1>7, <2>1, <2>2, ClickTyped
<1>1. CASE ClickDraft(c)
  BY <1>1, <1>7, KeysAreNat DEF ClickDraft
<1>2. ASSUME NEW a \in Applications, NEW t \in 1..drawn, ClickResume(c, a, t)
      PROVE  Typed' /\ call'[c] \in Tasks
  <2>1. t \in Keys
    BY TimesAssumption DEF Typed, TypeOK, Keys
  <2> QED
    BY <1>2, <1>7, <2>1 DEF ClickResume
<1>3. CASE ClickProof(c)
  BY <1>0, <1>3, <1>7, KeysAreNat DEF ClickProof
<1>4. CASE ClickSession(c)
  BY <1>0, <1>4, <1>7 DEF ClickSession
<1>5. CASE ClickProbe(c)
  <2>1. PICK lag \in Lags :
          IF Cached(lag)
            THEN Click(c, "probe", card.app, 0, session, TRUE, lag, {"probe"})
            ELSE Click(c, "session", card.app, CardKey, Nothing, TRUE, 0, {"session", "probe"})
    BY <1>5 DEF ClickProbe
  <2>2. card # Nothing
    BY <1>5 DEF ClickProbe
  <2>3. CASE Cached(lag)
    <3>1. Click(c, "probe", card.app, 0, session, TRUE, lag, {"probe"})
      BY <2>1, <2>3
    <3>2. /\ "probe" \in PageOps /\ {"probe"} \in SUBSET Buttons /\ lag \in Int
          /\ session \in Sessions /\ session.expires > now - lag + Margin
      BY <1>0, <2>3
    <3> HIDE DEF PageOps, Buttons
    <3> QED
      BY <1>0, <2>2, <3>1, <3>2, ClickTyped, KeysAreNat
  <2>4. CASE ~Cached(lag)
    BY <1>0, <1>7, <2>1, <2>2, <2>4
  <2> QED
    BY <2>3, <2>4
<1>6. ASSUME NEW a \in Applications, BeginWrite(c, a) \/ BeginRotate(c, a)
      PROVE  Typed' /\ call'[c] \in Tasks
  <2>1. PICK op \in {"write", "rotate"}, key \in Keys :
          /\ token[a] # Absent
          /\ Send(c, op, "loaded", a, key, Nothing, FALSE, 0)
          /\ drawn' \in Keys
          /\ UNCHANGED <<now, token, page, history>>
    <3>1. CASE BeginWrite(c, a)
      BY <3>1 DEF BeginWrite, Typed, TypeOK, console
    <3>2. CASE BeginRotate(c, a)
      <4>1. drawn + 1 \in Keys
        BY <3>2, TimesAssumption DEF BeginRotate, Typed, TypeOK, Keys
      <4> QED
        BY <3>2, <4>1 DEF BeginRotate
    <3> QED
      BY <1>6, <3>1, <3>2
  <2> DEFINE t == [op |-> op, at |-> "loaded", app |-> a, key |-> key,
                   session |-> Nothing, probing |-> FALSE, since |-> 0, lag |-> 0]
  <2>2. t \in Tasks
    BY DEF Tasks
  <2>3. now \in Nat /\ Grows
    BY <2>1 DEF Typed, TypeOK, Grows
  <2>4. call' = [call EXCEPT ![c] = t]
    BY <2>1 DEF Send
  <2> HIDE DEF Tasks
  <2>5. FitsAt(t, token', now')
    BY <2>1, <2>2, <2>3 DEF FitsAt, Grows
  <2>6. CallInv'
    BY <2>3, <2>4, <2>5, CallStep DEF Typed
  <2>7. call'[c] \in Tasks
    BY <2>2, <2>4 DEF Typed, TypeOK
  <2> QED
    BY <2>1, <2>6, <2>7 DEF Typed, TypeOK, CallInv, CardOn, page, history
<1> QED
  BY <1>1, <1>2, <1>3, <1>4, <1>5, <1>6 DEF Start

LEMMA ProceedTyped ==
  ASSUME Typed, NEW c \in Calls, Proceed(c) PROVE Typed'
<1> DEFINE task == call[c]
<1>1. task # Nothing /\ Fits(task) /\ task \in Tasks
  BY DEF Typed, CallInv, Fits, FitsAt, Proceed, At, HandleDraft, HandleResume,
         HandleSession, HandleProbe, HandleProof, Write, FinishDraft, FinishResume,
         FinishProof, FinishSession, FinishProbe, Fail
<1>2. /\ now \in Nat
      /\ call \in [Calls -> Tasks \cup {Nothing}]
  BY DEF Typed, TypeOK
<1>3. ASSUME Grows, NEW t, t = Nothing \/ FitsAt(t, token', now'),
             call' = [call EXCEPT ![c] = t]
      PROVE  CallInv'
  BY <1>2, <1>3, CallStep DEF Typed
<1>4. FitsAt([op |-> task.op, at |-> "refused", app |-> Nothing, key |-> 0,
              session |-> Nothing, probing |-> task.probing, since |-> 0, lag |-> 0], token, now)
      \/ task.op \in {"write", "rotate"}
  <2> DEFINE t == [op |-> task.op, at |-> "refused", app |-> Nothing, key |-> 0,
                   session |-> Nothing, probing |-> task.probing, since |-> 0, lag |-> 0]
  <2>1. t \in Tasks
    BY <1>1, KeysAreNat DEF Tasks
  <2> HIDE DEF Tasks
  <2> QED
    BY <1>1, <1>2, <2>1 DEF Fits, FitsAt
<1>5. CASE HandleDraft(c)
  <2>1. PICK a \in Applications :
          /\ token[a] = Absent
          /\ token' = [token EXCEPT ![a] = drawn + 1]
          /\ call' = [call EXCEPT ![c] = [task EXCEPT !.at = "back", !.app = a,
                                                     !.key = drawn + 1]]
    BY <1>1, <1>2, <1>5 DEF HandleDraft, Tasks
  <2>2. drawn + 1 \in Keys
    BY <1>5, TimesAssumption DEF HandleDraft, Typed, TypeOK, Keys
  <2>3. Grows /\ token' \in [Applications -> Keys \cup {Absent}] /\ token'[a] # Absent
    BY <1>5, <2>1, <2>2, KeysAreNat DEF HandleDraft, Typed, TypeOK, Grows
  <2>4. FitsAt([task EXCEPT !.at = "back", !.app = a, !.key = drawn + 1], token', now')
    <3>1. now' = now /\ task.op = "draft"
      BY <1>5 DEF HandleDraft, At
    <3> QED
      BY <1>1, <2>2, <2>3, <3>1 DEF Fits, FitsAt, Tasks
  <2>5. CallInv'
    BY <1>3, <2>1, <2>3, <2>4
  <2> QED
    BY <1>5, <2>2, <2>3, <2>5 DEF HandleDraft, Typed, TypeOK, CallInv, CardOn, page,
                                  history, Grows, Cards
<1>6. ASSUME NEW t, t = Nothing \/ FitsAt(t, token, now),
             call' = [call EXCEPT ![c] = t],
             UNCHANGED <<now, console, page, history>>
      PROVE  Typed'
  <2>1. Grows
    BY <1>2, <1>6 DEF Grows, console
  <2>2. CallInv'
    BY <1>3, <1>6, <2>1 DEF console
  <2> QED
    BY <1>6, <2>2 DEF Typed, TypeOK, CallInv, CardOn, page, history, console
<1>7. ASSUME call' = [call EXCEPT ![c] =
               [op |-> task.op, at |-> "refused", app |-> Nothing, key |-> 0,
                session |-> Nothing, probing |-> task.probing, since |-> 0, lag |-> 0]],
             task.op \notin {"write", "rotate"},
             UNCHANGED <<now, console, page, history>>
      PROVE  Typed'
  BY <1>4, <1>6, <1>7
<1>8. CASE HandleResume(c)
  <2>1. task.op = "resume" /\ task.at = "out" /\ task.app \in Applications
    BY <1>1, <1>8 DEF HandleResume, At, Fits, FitsAt
  <2>2. CASE task.key = token[task.app]
    <3>1. FitsAt([task EXCEPT !.at = "back"], token, now)
      BY <1>1, <2>1, <2>2, KeysAreNat DEF Fits, FitsAt, Tasks
    <3> QED
      BY <1>6, <1>8, <2>2, <3>1 DEF HandleResume, Goto
  <2>3. CASE task.key # token[task.app]
    BY <1>2, <1>7, <1>8, <2>1, <2>3 DEF HandleResume, Refuse
  <2> QED
    BY <2>2, <2>3
<1>9. CASE HandleSession(c)
  <2>1. task.op = "session" /\ task.at = "out" /\ task.app \in Applications
    BY <1>1, <1>9 DEF HandleSession, At, Fits, FitsAt
  <2>2. CASE task.key = token[task.app]
    <3> DEFINE s == [app |-> task.app, key |-> token[task.app], expires |-> now + Ttl]
               t == [task EXCEPT !.at = "back", !.key = 0, !.session = s]
    <3>1. s \in Sessions /\ s.expires > now + Margin
      BY <1>1, <1>2, <2>1, <2>2, TimesAssumption DEF Sessions, Tasks
    <3>2. FitsAt(t, token, now)
      <4>1. t \in Tasks
        BY <1>1, <3>1, KeysAreNat DEF Tasks
      <4>2. t.session.expires > t.since - t.lag + Margin
        <5>1. t.session = s /\ t.since = task.since /\ t.lag = task.lag
          BY <1>1 DEF Tasks
        <5>2. task.since \in Nat /\ task.since <= now /\ task.lag = 0
          BY <1>1, <2>1 DEF Tasks, Fits, FitsAt
        <5>3. s.expires \in Nat
          BY <3>1 DEF Sessions
        <5> HIDE DEF s, t
        <5> QED
          BY <1>2, <3>1, <5>1, <5>2, <5>3, TimesAssumption
      <4> QED
        BY <1>1, <2>1, <3>1, <4>1, <4>2 DEF Fits, FitsAt, Tasks
    <3>3. call' = [call EXCEPT ![c] = t]
      BY <1>2, <1>9, <2>2 DEF HandleSession
    <3> QED
      BY <1>6, <1>9, <3>2, <3>3 DEF HandleSession
  <2>3. CASE task.key # token[task.app]
    BY <1>2, <1>7, <1>9, <2>1, <2>3 DEF HandleSession, Refuse
  <2> QED
    BY <2>2, <2>3
<1>10. CASE HandleProbe(c)
  <2>1. task.op = "probe" /\ task.at = "out" /\ task.app \in Applications
    BY <1>1, <1>10 DEF HandleProbe, At, Fits, FitsAt
  <2>2. CASE Opens(task.app, task.session)
    <3> DEFINE t == [task EXCEPT !.at = "back", !.session = Nothing, !.since = 0, !.lag = 0]
    <3>1. FitsAt(t, token, now)
      <4>1. t \in Tasks /\ t.since = 0 /\ t.lag = 0 /\ t.at = "back" /\ t.op = "probe"
        BY <1>1, <2>1, AnsweredProbe
      <4>2. t.app = task.app /\ t.probing = task.probing
        BY <1>1, AnsweredProbe
      <4> HIDE DEF t
      <4> QED
        BY <1>1, <1>2, <2>1, <4>1, <4>2 DEF Fits, FitsAt
    <3>2. call' = [call EXCEPT ![c] = t]
      BY <1>2, <1>10, <2>2 DEF HandleProbe
    <3> QED
      BY <1>6, <1>10, <3>1, <3>2 DEF HandleProbe
  <2>3. CASE ~Opens(task.app, task.session)
    BY <1>2, <1>7, <1>10, <2>1, <2>3 DEF HandleProbe, Refuse
  <2> QED
    BY <2>2, <2>3
<1>11. CASE HandleProof(c)
  <2>1. task.op = "proof" /\ task.at = "out" /\ token[task.app] \in Keys
    BY <1>1, <1>11 DEF HandleProof, At, Fits, FitsAt, Typed, TypeOK
  <2> DEFINE t == [task EXCEPT !.at = "loaded", !.key = token[task.app]]
  <2>2. FitsAt(t, token, now)
    BY <1>1, <2>1 DEF Fits, FitsAt, Tasks
  <2>3. call' = [call EXCEPT ![c] = t]
    BY <1>2, <1>11 DEF HandleProof
  <2> QED
    BY <1>6, <1>11, <2>2, <2>3 DEF HandleProof
<1>12. CASE Write(c)
  <2>1. /\ task.at = "loaded" /\ task.op \in {"proof", "write", "rotate"}
        /\ task.app \in Applications /\ task.key \in Keys
        /\ token[task.app] \in Keys
    BY <1>1, <1>12 DEF Write, Fits, FitsAt, Tasks, Typed, TypeOK
  <2>2. /\ Grows
        /\ token' \in [Applications -> Keys \cup {Absent}]
    BY <1>2, <1>12, <2>1, KeysAreNat DEF Write, Typed, TypeOK, Grows
  <2>3. FitsAt([task EXCEPT !.at = "back", !.key = 0], token', now') \/ task.op # "proof"
    BY <1>1, <1>2, <1>12, <2>1, <2>2, KeysAreNat
    DEF Fits, FitsAt, Tasks, Write, Typed, TypeOK
  <2>4. \/ call' = [call EXCEPT ![c] = Nothing]
        \/ task.op = "proof" /\ call' = [call EXCEPT ![c] = [task EXCEPT !.at = "back", !.key = 0]]
    BY <1>2, <1>12 DEF Write, Done
  <2>5. CallInv'
    BY <1>3, <2>2, <2>3, <2>4
  <2>6. retired' \subseteq Applications \X Keys /\ overtaken' \subseteq Applications
    BY <1>12, <2>1 DEF Write, Typed, TypeOK
  <2> QED
    BY <1>12, <2>2, <2>5, <2>6 DEF Write, Typed, TypeOK, CallInv, CardOn, page, Grows, Cards
<1>13. CASE FinishDraft(c) \/ FinishResume(c)
  <2>1. /\ task.app \in Applications /\ task.key \in Keys /\ token[task.app] # Absent
    BY <1>1, <1>13 DEF FinishDraft, FinishResume, At, Fits, FitsAt, Tasks
  <2>2. PICK k \in {0, task.key}, b \in {"draft", "resume"} : Fill(c, k, task.key, b)
    BY <1>13 DEF FinishDraft, FinishResume
  <2>3. Grows
    BY <1>2, <2>2 DEF Grows, Fill, console
  <2>4. CallInv'
    BY <1>3, <2>2, <2>3 DEF Fill, Done
  <2>5. [app |-> task.app, key |-> k] \in Cards /\ crossed' \in BOOLEAN
    BY <2>1, <2>2, KeysAreNat DEF Cards, Typed, TypeOK, Fill
  <2> QED
    BY <2>1, <2>2, <2>4, <2>5 DEF Fill, Typed, TypeOK, CallInv, CardOn, console
<1>14. CASE FinishProof(c)
  <2>1. task.app \in Applications /\ token[task.app] # Absent
    BY <1>1, <1>14 DEF FinishProof, At, Fits, FitsAt
  <2>2. Grows
    BY <1>2, <1>14 DEF Grows, FinishProof, console
  <2>3. CallInv'
    BY <1>3, <1>14, <2>2 DEF FinishProof, Done
  <2>4. [app |-> task.app, key |-> 0] \in Cards
    BY <2>1, KeysAreNat DEF Cards
  <2> QED
    BY <1>14, <2>1, <2>3, <2>4 DEF FinishProof, Typed, TypeOK, CallInv, CardOn, console, history
<1>15. CASE FinishSession(c)
  <2>1. task.op = "session" /\ task.at = "back" /\ task.session \in Sessions
    BY <1>1, <1>15 DEF FinishSession, At, Fits, FitsAt
  <2>2. Grows
    BY <1>2, <1>15 DEF Grows, FinishSession, console
  <2> DEFINE t == [task EXCEPT !.op = "probe", !.at = "out"]
  <2>3. FitsAt(t, token', now') \/ ~task.probing
    <3>1. token' = token /\ now' = now
      BY <1>15 DEF FinishSession, console
    <3> QED
      BY <1>1, <2>1, <3>1 DEF Fits, FitsAt, Tasks, PageOps, Buttons
  <2>4. \/ call' = [call EXCEPT ![c] = Nothing]
        \/ task.probing /\ call' = [call EXCEPT ![c] = t]
    BY <1>2, <1>15 DEF FinishSession, Done
  <2>5. CallInv'
    BY <1>3, <2>2, <2>3, <2>4
  <2> QED
    BY <1>15, <2>1, <2>5 DEF FinishSession, Typed, TypeOK, CallInv, CardOn, console, history
<1>16. CASE FinishProbe(c)
  <2>1. task.app \in Applications
    BY <1>1, <1>16 DEF FinishProbe, At, Fits, FitsAt
  <2>2. Grows
    BY <1>2, <1>16 DEF Grows, FinishProbe, console
  <2>3. CallInv'
    BY <1>3, <1>16, <2>2 DEF FinishProbe, Done
  <2> QED
    BY <1>16, <2>1, <2>3 DEF FinishProbe, Typed, TypeOK, CallInv, CardOn, console, history
<1>17. CASE Fail(c)
  <2>1. Grows
    BY <1>2, <1>17 DEF Grows, Fail, console
  <2> DEFINE t == [task EXCEPT !.op = "write"]
  <2>2. \/ call' = [call EXCEPT ![c] = Nothing]
        \/ At(c, "proof", "loaded") /\ call' = [call EXCEPT ![c] = t]
    BY <1>2, <1>17 DEF Fail, Done
  <2>3. FitsAt(t, token', now') \/ ~At(c, "proof", "loaded")
    <3>1. token' = token /\ now' = now
      BY <1>17 DEF Fail, console
    <3> QED
      BY <1>1, <3>1 DEF Fits, FitsAt, Tasks, At
  <2>4. CallInv'
    BY <1>3, <2>1, <2>2, <2>3
  <2> QED
    BY <1>17, <2>4 DEF Fail, Typed, TypeOK, CallInv, CardOn, console, history
<1> QED
  BY <1>5, <1>8, <1>9, <1>10, <1>11, <1>12, <1>13, <1>14, <1>15, <1>16, <1>17 DEF Proceed

LEMMA NextTyped ==
  ASSUME Typed, [Next]_vars PROVE Typed'
<1>1. CASE \E c \in Calls : Start(c) \/ Proceed(c)
  BY <1>1, StartTyped, ProceedTyped
<1>2. CASE Tick
  <2>1. Grows /\ UNCHANGED <<token, call>> /\ now \in Nat
    BY <1>2 DEF Tick, Grows, Typed, TypeOK, console
  <2>2. CallInv'
    BY <2>1, FitsLater DEF CallInv, Typed, Fits
  <2> QED
    BY <1>2, <2>1, <2>2 DEF Tick, Typed, TypeOK, CallInv, CardOn, console, page, history, Grows
<1>3. CASE UNCHANGED vars
  BY <1>3 DEF vars, console, page, history, Typed, TypeOK, CallInv, CardOn, Fits
<1> QED
  BY <1>1, <1>2, <1>3 DEF Next

LEMMA InitTyped == Init => Typed
<1> SUFFICES ASSUME Init PROVE Typed
  OBVIOUS
<1>1. TypeOK
  BY KeysAreNat, TimesAssumption DEF Init, TypeOK
<1>2. CallInv /\ CardOn
  BY DEF Init, CallInv, CardOn
<1> QED
  BY <1>1, <1>2 DEF Typed

(* Every variable has its type: what calls carry, the card, the session    *)
(* and the tokens on record (the types of app.ts and main.tsx).            *)
THEOREM TypeCorrect == Spec => []TypeOK
<1>1. Typed => TypeOK
  BY DEF Typed
<1> QED
  BY <1>1, InitTyped, NextTyped, PTL DEF Spec

----------------------------------------------------------------------------
(* A probe that is refused for the age of its session was long under way. *)

LEMMA ProbeStep ==
  ASSUME Typed, [Next]_vars, NEW c \in Calls, HandleProbe(c), TooOld(call[c])
  PROVE  now - call[c].since + call[c].lag > Margin
<1>1. call[c] # Nothing /\ call[c].op = "probe" /\ call[c].at = "out"
  BY DEF HandleProbe, At
<1>2. /\ call[c] \in Tasks /\ call[c].session \in Sessions
      /\ call[c].session.expires > call[c].since - call[c].lag + Margin
  BY <1>1 DEF Typed, CallInv, Fits, FitsAt
<1>3. call[c].session.expires <= now
  BY DEF TooOld
<1> QED
  BY <1>2, <1>3, TimesAssumption DEF Tasks, Sessions, Typed, TypeOK

(* A session that the page sends is refused for its age only when the time *)
(* the probe was under way and the lag of the page's clock exceed the      *)
(* margin together, however far apart the clocks of page and console are   *)
(* (ensurePublisherSession, verifyPublisherSessionToken).                  *)
THEOREM SessionsLastLongEnough == Spec => RefusedLate
<1>1. Typed /\ [Next]_vars =>
        [\A c \in Calls : HandleProbe(c) /\ TooOld(call[c]) =>
            now - call[c].since + call[c].lag > Margin]_vars
  BY ProbeStep
<1> QED
  BY <1>1, InitTyped, NextTyped, PTL DEF Spec, RefusedLate

----------------------------------------------------------------------------
(* Rotation. *)

Others(c) == \A d \in Calls \ {c} : call'[d] = call[d]

LEMMA OthersStay ==
  ASSUME Typed, NEW c \in Calls, Start(c) \/ Proceed(c) PROVE Others(c)
<1>1. call \in [Calls -> Tasks \cup {Nothing}]
  BY DEF Typed, TypeOK
<1>2. CASE Start(c)
  BY <1>1, <1>2 DEF Start, Others, ClickDraft, ClickResume, ClickProof, ClickSession,
     ClickProbe, Click, BeginWrite, BeginRotate, Send
<1>3. CASE Proceed(c)
  <2>1. CASE \/ HandleDraft(c) \/ HandleResume(c) \/ HandleSession(c)
             \/ HandleProbe(c) \/ HandleProof(c) \/ Write(c)
    BY <1>1, <2>1 DEF Others, HandleDraft, HandleResume, HandleSession, HandleProbe,
       HandleProof, Write, Goto, Done, Refuse
  <2>2. CASE \/ FinishDraft(c) \/ FinishResume(c) \/ FinishProof(c)
             \/ FinishSession(c) \/ FinishProbe(c) \/ Fail(c)
    BY <1>1, <2>2 DEF Others, FinishDraft, FinishResume, FinishProof, FinishSession,
       FinishProbe, Fail, Fill, Done
  <2> QED
    BY <1>3, <2>1, <2>2 DEF Proceed
<1> QED
  BY <1>2, <1>3

(* A step that records no token and loads no copy. *)
LEMMA QuietRotation ==
  ASSUME Typed, Typed', Rotation, NEW c \in Calls, Others(c),
         UNCHANGED <<console, retired, overtaken>>,
         \/ call'[c] = Nothing
         \/ call'[c].at # "loaded"
         \/ /\ call[c] # Nothing /\ call[c].at = "loaded" /\ call[c].op \in {"proof", "write"}
            /\ call'[c].at = "loaded" /\ call'[c].op = "write"
            /\ call'[c].app = call[c].app /\ call'[c].key = call[c].key
  PROVE  Rotation'
<1>1. UNCHANGED <<token, drawn, retired, overtaken>>
  BY DEF console
<1>2. call'[c] # Nothing /\ call'[c].op \in {"write", "rotate"} => call'[c].at = "loaded"
  BY DEF Typed, CallInv, Fits, FitsAt
<1>3. Copied'
  BY <1>1, <1>2 DEF Rotation, Copied, Others
<1>4. Fresh'
  BY <1>1, <1>2 DEF Rotation, Fresh, Others
<1>5. Drawn' /\ RotationHolds'
  BY <1>1, <1>2 DEF Rotation, Drawn, RotationHolds, Others
<1> QED
  BY <1>3, <1>4, <1>5 DEF Rotation

LEMMA WriteRotation ==
  ASSUME Typed, Typed', Rotation, NEW c \in Calls, Write(c), Others(c) PROVE Rotation'
<1> DEFINE task == call[c]
<1>1. /\ task # Nothing /\ task.at = "loaded"
      /\ task.op \in {"proof", "write", "rotate"}
      /\ task.app \in Applications /\ task.key \in Keys
      /\ token[task.app] \in Keys /\ task.key <= drawn /\ token[task.app] <= drawn
  BY DEF Write, Typed, CallInv, Fits, FitsAt, Tasks, TypeOK, Rotation, Drawn
<1>2. /\ \A a \in Applications :
           token'[a] = IF a = task.app THEN task.key ELSE token[a]
      /\ drawn' = drawn
  BY DEF Write, Typed, TypeOK
<1>3. \/ call'[c] = Nothing
      \/ call'[c].op = "proof" /\ call'[c].at = "back"
  <2>1. task \in Tasks /\ call \in [Calls -> Tasks \cup {Nothing}]
    BY <1>1 DEF Typed, TypeOK
  <2> QED
    BY <1>1, <2>1 DEF Write, Done, Tasks
<1>4. CASE task.op # "rotate"
  <2>1. retired' = retired /\ overtaken' = overtaken
    BY <1>4 DEF Write
  <2>2. task.app \notin overtaken => task.key = token[task.app]
    BY <1>1, <1>4 DEF Rotation, Copied
  <2>3. Copied'
    BY <1>1, <1>2, <1>3, <2>1, <2>2 DEF Rotation, Copied, Others, Typed, CallInv, Fits, FitsAt
  <2>4. Fresh'
    <3> SUFFICES ASSUME NEW d \in Calls \ {c}, call[d] # Nothing, call[d].op = "rotate"
                 PROVE  /\ \A a \in Applications : token'[a] # call[d].key
                                                  /\ <<a, call[d].key>> \notin retired
                        /\ \A e \in Calls \ {d} : call'[e] # Nothing /\ call'[e].at = "loaded" =>
                             call'[e].key # call[d].key
      BY <1>3, <2>1 DEF Fresh, Others
    <3>1. task.key # call[d].key
      BY <1>1 DEF Rotation, Fresh
    <3> QED
      BY <1>2, <1>3, <3>1 DEF Rotation, Fresh, Others
  <2>5. Drawn'
    BY <1>1, <1>2, <1>3, <2>1 DEF Rotation, Drawn, Others
  <2>6. RotationHolds'
    BY <1>2, <2>1, <2>2 DEF Rotation, RotationHolds
  <2> QED
    BY <2>3, <2>4, <2>5, <2>6 DEF Rotation
<1>5. CASE task.op = "rotate"
  <2>1. /\ retired' = retired \cup {<<task.app, token[task.app]>>}
        /\ overtaken' = IF Copies(task.app) = {} THEN overtaken
                        ELSE overtaken \cup {task.app}
    BY <1>5 DEF Write
  <2>2. /\ task.key # token[task.app]
        /\ \A a \in Applications : <<a, task.key>> \notin retired
        /\ \A d \in Calls \ {c} : call[d] # Nothing /\ call[d].at = "loaded" =>
             call[d].key # task.key
    BY <1>1, <1>5 DEF Rotation, Fresh
  <2>3. Copied'
    <3> SUFFICES ASSUME NEW d \in Calls \ {c}, call[d] # Nothing, call[d].at = "loaded",
                        call[d].op \in {"proof", "write"}, call[d].app \notin overtaken'
                 PROVE  call[d].key = token'[call[d].app]
      BY <1>3 DEF Copied, Others
    <3>1. call[d].app # task.app
      <4> SUFFICES ASSUME call[d].app = task.app PROVE FALSE
        OBVIOUS
      <4>1. d \in Copies(task.app)
        BY DEF Copies
      <4> QED
        BY <2>1, <4>1
    <3>2. call[d].app \in Applications
      BY DEF Typed, CallInv, Fits, FitsAt
    <3> QED
      BY <1>2, <2>1, <3>1, <3>2 DEF Rotation, Copied
  <2>4. Fresh'
    <3> SUFFICES ASSUME NEW d \in Calls \ {c}, call[d] # Nothing, call[d].op = "rotate"
                 PROVE  /\ \A a \in Applications : token'[a] # call[d].key
                                                  /\ <<a, call[d].key>> \notin retired'
                        /\ \A e \in Calls \ {d} : call'[e] # Nothing /\ call'[e].at = "loaded" =>
                             call'[e].key # call[d].key
      BY <1>3 DEF Fresh, Others
    <3>1. call[d].at = "loaded" /\ task.key # call[d].key
      BY <2>2 DEF Typed, CallInv, Fits, FitsAt
    <3>2. token[task.app] # call[d].key
      BY <1>1 DEF Rotation, Fresh
    <3>3. \A a \in Applications : <<a, call[d].key>> \notin retired'
      BY <2>1, <3>2 DEF Rotation, Fresh
    <3> QED
      BY <1>2, <1>3, <3>1, <3>3 DEF Rotation, Fresh, Others
  <2>5. Drawn'
    <3>1. \A a \in Applications : token'[a] # Absent => token'[a] <= drawn'
      BY <1>1, <1>2 DEF Rotation, Drawn
    <3>2. \A r \in retired' : r[2] <= drawn'
      BY <1>1, <1>2, <2>1 DEF Rotation, Drawn
    <3> QED
      BY <1>2, <1>3, <3>1, <3>2 DEF Rotation, Drawn, Others
  <2>6. RotationHolds'
    <3> SUFFICES ASSUME NEW a \in Applications \ overtaken' PROVE <<a, token'[a]>> \notin retired'
      BY DEF RotationHolds
    <3>1. a \notin overtaken
      BY <2>1
    <3> QED
      BY <1>2, <2>1, <2>2, <3>1 DEF Rotation, RotationHolds
  <2> QED
    BY <2>3, <2>4, <2>5, <2>6 DEF Rotation
<1> QED
  BY <1>4, <1>5

LEMMA DrawRotation ==
  ASSUME Typed, Typed', Rotation, NEW c \in Calls, NEW a \in Applications,
         HandleDraft(c) \/ BeginWrite(c, a) \/ BeginRotate(c, a) \/ HandleProof(c),
         Others(c)
  PROVE  Rotation'
<1> USE TimesAssumption, AbsentAssumption
<1>1. /\ drawn \in Nat /\ token \in [Applications -> Keys \cup {Absent}]
      /\ retired \subseteq Applications \X Keys
      /\ \A d \in Calls : call[d] # Nothing => call[d].key \in Nat /\ call[d].app \in Applications \cup {Nothing}
  BY DEF Typed, TypeOK, CallInv, Keys, Tasks
<1>2. CASE HandleDraft(c)
  <2>1. PICK b \in Applications : token[b] = Absent /\ token' = [token EXCEPT ![b] = drawn + 1]
    BY <1>2 DEF HandleDraft
  <2>2. /\ \A x \in Applications : token'[x] = IF x = b THEN drawn + 1 ELSE token[x]
        /\ drawn' = drawn + 1 /\ retired' = retired /\ overtaken' = overtaken
    BY <1>1, <1>2, <2>1 DEF HandleDraft, history
  <2>3. call[c].op = "draft" /\ call'[c].at = "back" /\ call'[c].op = "draft"
    <3>1. call[c].op = "draft" /\ call[c] \in Tasks /\ call \in [Calls -> Tasks \cup {Nothing}]
      BY <1>2 DEF HandleDraft, At, Typed, TypeOK
    <3>2. PICK x \in Applications :
            call' = [call EXCEPT ![c].at = "back", ![c].app = x, ![c].key = drawn + 1]
      BY <1>2 DEF HandleDraft
    <3>3. call'[c] = [call[c] EXCEPT !.at = "back", !.app = x, !.key = drawn + 1]
      BY <3>1, <3>2
    <3> QED
      BY <3>1, <3>3 DEF Tasks
  <2>4. \A d \in Calls : call[d] # Nothing /\ call[d].at = "loaded" =>
          call[d].app \in Applications /\ token[call[d].app] # Absent /\ call[d].app # b
    BY <2>1 DEF Typed, CallInv, Fits, FitsAt
  <2>5. Copied'
    BY <2>2, <2>3, <2>4 DEF Rotation, Copied, Others
  <2>6. Fresh'
    <3> SUFFICES ASSUME NEW d \in Calls \ {c}, call[d] # Nothing, call[d].op = "rotate"
                 PROVE  /\ \A x \in Applications : token'[x] # call[d].key
                                                  /\ <<x, call[d].key>> \notin retired
                        /\ \A e \in Calls \ {d} : call'[e] # Nothing /\ call'[e].at = "loaded" =>
                             call'[e].key # call[d].key
      BY <2>2, <2>3 DEF Fresh, Others
    <3>1. call[d].at = "loaded"
      BY DEF Typed, CallInv, Fits, FitsAt
    <3>2. call[d].key <= drawn /\ call[d].key \in Nat
      BY <1>1, <3>1 DEF Rotation, Drawn
    <3> QED
      BY <1>1, <2>2, <2>3, <3>2 DEF Rotation, Fresh, Others
  <2>7. Drawn'
    <3>1. \A x \in Applications : token'[x] # Absent => token'[x] <= drawn'
      BY <1>1, <2>2 DEF Rotation, Drawn, Keys
    <3>2. \A r \in retired' : r[2] <= drawn'
      <4> SUFFICES ASSUME NEW r \in retired PROVE r[2] <= drawn'
        BY <2>2
      <4>1. r[2] \in Nat /\ r[2] <= drawn
        BY <1>1 DEF Rotation, Drawn, Keys
      <4> QED
        BY <1>1, <2>2, <4>1
    <3>3. \A d \in Calls : call'[d] # Nothing /\ call'[d].at = "loaded" => call'[d].key <= drawn'
      BY <1>1, <2>2, <2>3 DEF Rotation, Drawn, Others
    <3> QED
      BY <3>1, <3>2, <3>3 DEF Drawn
  <2>8. RotationHolds'
    <3> SUFFICES ASSUME NEW x \in Applications \ overtaken PROVE <<x, token'[x]>> \notin retired
      BY <2>2 DEF RotationHolds
    <3>1. <<x, drawn + 1>> \notin retired
      <4> SUFFICES ASSUME <<x, drawn + 1>> \in retired PROVE FALSE
        OBVIOUS
      <4>1. <<x, drawn + 1>>[2] <= drawn
        BY DEF Rotation, Drawn
      <4> QED
        BY <1>1, <4>1
    <3> QED
      BY <2>2, <3>1 DEF Rotation, RotationHolds
  <2> QED
    BY <2>5, <2>6, <2>7, <2>8 DEF Rotation
<1>3. CASE BeginWrite(c, a) \/ HandleProof(c)
  <2>1. /\ UNCHANGED <<token, drawn, retired, overtaken>>
        /\ call'[c] # Nothing /\ call'[c].op # "rotate" /\ call'[c].at = "loaded"
        /\ call'[c].app \in Applications /\ call'[c].key = token[call'[c].app]
        /\ token[call'[c].app] # Absent
    <3>1. CASE BeginWrite(c, a)
      <4> DEFINE t == [op |-> "write", at |-> "loaded", app |-> a, key |-> token[a],
                       session |-> Nothing, probing |-> FALSE, since |-> 0, lag |-> 0]
      <4>1. token[a] \in Keys
        BY <1>1, <3>1 DEF BeginWrite
      <4>2. t \in Tasks
        BY <4>1 DEF Tasks
      <4>3. call'[c] = t
        BY <3>1 DEF BeginWrite, Send, Typed, TypeOK
      <4>4. call'[c] # Nothing
        BY <4>2, <4>3, NothingElse
      <4>5. UNCHANGED <<token, drawn, retired, overtaken>> /\ token[a] # Absent
        BY <3>1 DEF BeginWrite, console, history
      <4> QED
        BY <4>3, <4>4, <4>5
    <3>2. CASE HandleProof(c)
      <4>1. call[c] \in Tasks /\ call[c].app \in Applications /\ token[call[c].app] # Absent
        BY <3>2 DEF HandleProof, At, Typed, CallInv, Fits, FitsAt
      <4>2. call'[c] = [call[c] EXCEPT !.at = "loaded", !.key = token[call[c].app]]
        BY <3>2 DEF HandleProof, Typed, TypeOK
      <4> QED
        BY <3>2, <4>1, <4>2, NothingElse DEF HandleProof, At, console, history, Tasks, Typed, TypeOK
    <3> QED
      BY <1>3, <3>1, <3>2
  <2>2. Copied'
    BY <2>1 DEF Rotation, Copied, Others
  <2>3. Fresh'
    <3> SUFFICES ASSUME NEW d \in Calls \ {c}, call[d] # Nothing, call[d].op = "rotate"
                 PROVE  \A e \in Calls \ {d} : call'[e] # Nothing /\ call'[e].at = "loaded" =>
                          call'[e].key # call[d].key
      BY <2>1 DEF Rotation, Fresh, Others
    <3>1. \A x \in Applications : token[x] # call[d].key
      BY DEF Rotation, Fresh
    <3> QED
      BY <2>1, <3>1 DEF Rotation, Fresh, Others
  <2>4. Drawn' /\ RotationHolds'
    BY <2>1 DEF Rotation, Drawn, RotationHolds, Others
  <2> QED
    BY <2>2, <2>3, <2>4 DEF Rotation
<1>4. CASE BeginRotate(c, a)
  <2>1. /\ UNCHANGED <<token, retired, overtaken>> /\ drawn' = drawn + 1
        /\ call'[c] # Nothing /\ call'[c].op = "rotate" /\ call'[c].at = "loaded"
        /\ call'[c].key = drawn + 1
    <3> DEFINE t == [op |-> "rotate", at |-> "loaded", app |-> a, key |-> drawn + 1,
                     session |-> Nothing, probing |-> FALSE, since |-> 0, lag |-> 0]
    <3>1. t \in Tasks
      BY <1>1, <1>4 DEF BeginRotate, Tasks, Keys
    <3>2. call'[c] = t
      BY <1>4 DEF BeginRotate, Send, Typed, TypeOK
    <3>3. call'[c] # Nothing
      BY <3>1, <3>2, NothingElse
    <3>4. UNCHANGED <<token, retired, overtaken>> /\ drawn' = drawn + 1
      BY <1>4 DEF BeginRotate, history
    <3> QED
      BY <3>2, <3>3, <3>4
  <2>2. /\ \A x \in Applications : token[x] # drawn + 1 /\ <<x, drawn + 1>> \notin retired
        /\ \A d \in Calls : call[d] # Nothing /\ call[d].at = "loaded" =>
             call[d].key # drawn + 1
    <3>1. ASSUME NEW x \in Applications, <<x, drawn + 1>> \in retired PROVE FALSE
      <4>1. <<x, drawn + 1>>[2] <= drawn
        BY <3>1 DEF Rotation, Drawn
      <4> QED
        BY <1>1, <4>1
    <3> QED
      BY <1>1, <3>1 DEF Rotation, Drawn, Keys
  <2>3. Copied'
    BY <2>1 DEF Rotation, Copied, Others
  <2>4. Fresh'
    <3>1. \A d \in Calls : call[d] # Nothing /\ call[d].op = "rotate" => call[d].at = "loaded"
      BY DEF Typed, CallInv, Fits, FitsAt
    <3>2. ASSUME NEW d \in Calls \ {c}, call[d] # Nothing, call[d].op = "rotate"
          PROVE  \A e \in Calls \ {d} : call'[e] # Nothing /\ call'[e].at = "loaded" =>
                   call'[e].key # call[d].key
      BY <2>1, <2>2, <3>1, <3>2 DEF Rotation, Fresh, Others
    <3> QED
      BY <2>1, <2>2, <3>2 DEF Rotation, Fresh, Others
  <2>5. Drawn'
    <3>1. \A x \in Applications : token'[x] # Absent => token'[x] <= drawn'
      BY <1>1, <2>1 DEF Rotation, Drawn, Keys
    <3>2. \A r \in retired' : r[2] <= drawn'
      <4> SUFFICES ASSUME NEW r \in retired PROVE r[2] <= drawn'
        BY <2>1
      <4>1. r[2] \in Nat /\ r[2] <= drawn
        BY <1>1 DEF Rotation, Drawn, Keys
      <4> QED
        BY <1>1, <2>1, <4>1
    <3>3. \A d \in Calls : call'[d] # Nothing /\ call'[d].at = "loaded" => call'[d].key <= drawn'
      BY <1>1, <2>1 DEF Rotation, Drawn, Others
    <3> QED
      BY <3>1, <3>2, <3>3 DEF Drawn
  <2>6. RotationHolds'
    BY <2>1 DEF Rotation, RotationHolds
  <2> QED
    BY <2>3, <2>4, <2>5, <2>6 DEF Rotation
<1> QED
  BY <1>2, <1>3, <1>4

LEMMA NextRotation ==
  ASSUME Typed, Typed', Rotation, [Next]_vars PROVE Rotation'
<1>1. ASSUME NEW c \in Calls, Start(c) PROVE Rotation'
  <2>1. Others(c)
    BY <1>1, OthersStay
  <2>2. ASSUME NEW a \in Applications, BeginWrite(c, a) \/ BeginRotate(c, a)
        PROVE  Rotation'
    BY <2>1, <2>2, DrawRotation
  <2>3. ASSUME NEW op, NEW app, NEW key, NEW s, NEW probing, NEW lag, NEW waits,
               Click(c, op, app, key, s, probing, lag, waits)
        PROVE  Rotation'
    <3>1. call'[c].at = "loaded" => FALSE
      BY <2>3 DEF Click, Send, Typed, TypeOK
    <3> QED
      BY <2>1, <2>3, <3>1, QuietRotation DEF Click
  <2> QED
    BY <1>1, <2>2, <2>3 DEF Start, ClickDraft, ClickResume, ClickProof, ClickSession, ClickProbe
<1>2. ASSUME NEW c \in Calls, Proceed(c) PROVE Rotation'
  <2>1. Others(c) /\ call \in [Calls -> Tasks \cup {Nothing}]
    BY <1>2, OthersStay DEF Typed, TypeOK
  <2>2. CASE Write(c)
    BY <2>1, <2>2, WriteRotation
  <2>3. CASE HandleDraft(c) \/ HandleProof(c)
    <3>1. \E a \in Applications : TRUE
      <4>1. CASE HandleDraft(c)
        BY <4>1 DEF HandleDraft
      <4>2. CASE HandleProof(c)
        BY <4>2 DEF HandleProof, At, Typed, CallInv, Fits, FitsAt
      <4> QED
        BY <2>3, <4>1, <4>2
    <3> QED
      BY <2>1, <2>3, <3>1, DrawRotation
  <2>4. CASE HandleResume(c) \/ HandleSession(c) \/ HandleProbe(c)
    <3>1. call[c] \in Tasks
      BY <2>1, <2>4 DEF HandleResume, HandleSession, HandleProbe, At
    <3>2. call'[c].at # "loaded"
      BY <2>1, <2>4, <3>1 DEF HandleResume, HandleSession, HandleProbe, Goto, Refuse, Tasks
    <3> QED
      BY <2>1, <2>4, <3>2, QuietRotation DEF HandleResume, HandleSession, HandleProbe, history
  <2>5. CASE \/ FinishDraft(c) \/ FinishResume(c) \/ FinishProof(c)
             \/ FinishSession(c) \/ FinishProbe(c)
    <3>1. call[c] \in Tasks
      BY <2>1, <2>5 DEF FinishDraft, FinishResume, FinishProof, FinishSession, FinishProbe, At
    <3>2. call'[c] = Nothing \/ call'[c].at # "loaded"
      BY <2>1, <2>5, <3>1 DEF FinishDraft, FinishResume, FinishProof, FinishSession,
         FinishProbe, Fill, Done, Tasks
    <3>3. UNCHANGED <<console, retired, overtaken>>
      BY <2>5 DEF FinishDraft, FinishResume, FinishProof, FinishSession, FinishProbe,
         Fill, history
    <3> QED
      BY <2>1, <3>2, <3>3, QuietRotation
  <2>6. CASE Fail(c)
    <3>1. UNCHANGED <<console, retired, overtaken>>
      BY <2>6 DEF Fail, history
    <3>2. CASE Done(c)
      BY <2>1, <3>1, <3>2, QuietRotation DEF Done
    <3>3. CASE At(c, "proof", "loaded") /\ call' = [call EXCEPT ![c].op = "write"]
      <4>1. call[c] \in Tasks /\ call[c].at = "loaded" /\ call[c].op = "proof"
        BY <2>1, <3>3 DEF At
      <4>2. /\ call'[c].at = "loaded" /\ call'[c].op = "write"
            /\ call'[c].app = call[c].app /\ call'[c].key = call[c].key
        BY <2>1, <3>3, <4>1 DEF Tasks
      <4> QED
        BY <2>1, <3>1, <3>3, <4>1, <4>2, QuietRotation DEF At
    <3> QED
      BY <2>6, <3>2, <3>3 DEF Fail
  <2> QED
    BY <1>2, <2>2, <2>3, <2>4, <2>5, <2>6 DEF Proceed
<1>3. CASE Tick \/ UNCHANGED vars
  <2>1. UNCHANGED <<token, drawn, call, retired, overtaken>>
    BY <1>3 DEF Tick, vars, console, history
  <2> QED
    BY <2>1 DEF Rotation, Copied, Fresh, Drawn, RotationHolds
<1> QED
  BY <1>1, <1>2, <1>3 DEF Next

LEMMA InitRotation == Init => Rotation
<1> SUFFICES ASSUME Init PROVE Rotation
  OBVIOUS
<1> QED
  BY DEF Init, Rotation, Copied, Fresh, Drawn, RotationHolds

(* A rotated token, and with it every session signed with it, stays dead   *)
(* unless a copy loaded before the rotation was to be written back after   *)
(* it (rotateMerchantApplicationPublisherAccessToken and the routes that   *)
(* write applications back whole).                                         *)
THEOREM RotatedStaysDead == Spec => []RotationHolds
<1>1. Rotation => RotationHolds
  BY DEF Rotation
<1> QED
  BY <1>1, InitTyped, NextTyped, InitRotation, NextRotation, PTL DEF Spec

----------------------------------------------------------------------------
(* The card. *)

GoodNext(a, k) == a \in overtaken' \/ k = token'[a] \/ <<a, k>> \in retired'

Stays == \A a \in Applications, k \in Keys :
           token[a] # Absent /\ Good(a, k) => GoodNext(a, k)

(* A good key stays good: its application is rotated, or overtaken, or     *)
(* what is written back is what is there.                                  *)
LEMMA GoodStays ==
  ASSUME Typed, Rotation, [Next]_vars PROVE Stays
<1>1. CASE UNCHANGED <<token, retired, overtaken>>
  BY <1>1 DEF Stays, Good, GoodNext
<1>2. ASSUME NEW c \in Calls, HandleDraft(c) PROVE Stays
  <2>1. \A a \in Applications : token[a] # Absent => token'[a] = token[a]
    BY <1>2 DEF HandleDraft, Typed, TypeOK
  <2> QED
    BY <1>2, <2>1 DEF HandleDraft, history, Stays, Good, GoodNext
<1>3. ASSUME NEW c \in Calls, Write(c) PROVE Stays
  <2> DEFINE task == call[c]
  <2>1. /\ task # Nothing /\ task.at = "loaded"
        /\ task.op \in {"proof", "write", "rotate"} /\ task.app \in Applications
        /\ \A a \in Applications :
             token'[a] = IF a = task.app THEN task.key ELSE token[a]
    BY <1>3 DEF Write, Typed, CallInv, Fits, FitsAt, TypeOK
  <2>2. CASE task.op = "rotate"
    <3>1. /\ retired' = retired \cup {<<task.app, token[task.app]>>}
          /\ overtaken \subseteq overtaken'
      BY <1>3, <2>2 DEF Write
    <3> QED
      BY <2>1, <3>1 DEF Stays, Good, GoodNext
  <2>3. CASE task.op # "rotate"
    <3>1. retired' = retired /\ overtaken' = overtaken
      BY <1>3, <2>3 DEF Write
    <3>2. task.app \notin overtaken => task.key = token[task.app]
      BY <2>1, <2>3 DEF Rotation, Copied
    <3> QED
      BY <2>1, <3>1, <3>2 DEF Stays, Good, GoodNext
  <2> QED
    BY <2>2, <2>3
<1>4. ASSUME NEW c \in Calls, Start(c) PROVE UNCHANGED <<token, retired, overtaken>>
  BY <1>4 DEF Start, ClickDraft, ClickResume, ClickProof, ClickSession, ClickProbe,
     Click, BeginWrite, BeginRotate, console, history
<1>5. ASSUME NEW c \in Calls, Proceed(c), ~HandleDraft(c), ~Write(c)
      PROVE  UNCHANGED <<token, retired, overtaken>>
  BY <1>5 DEF Proceed, HandleResume, HandleSession, HandleProbe, HandleProof, FinishDraft,
     FinishResume, FinishProof, FinishSession, FinishProbe, Fail, Fill, console, history
<1>6. CASE Tick \/ UNCHANGED vars
  BY <1>1, <1>6 DEF Tick, vars, console, history
<1> QED
  BY <1>1, <1>2, <1>3, <1>4, <1>5, <1>6 DEF Next

OfPage(c) == call[c] # Nothing /\ call[c].op \in PageOps

(* A step that leaves the card alone, and keeps what its call is about. *)
LEMMA QuietPage ==
  ASSUME Typed, Typed', Page, Stays, NEW c \in Calls, Others(c),
         UNCHANGED <<card, held, session, probe, crossed>>,
         \/ call'[c] = Nothing
         \/ call'[c].op \notin PageOps
         \/ /\ OfPage(c)
            /\ call'[c].op = call[c].op
            /\ call'[c].at = "refused" \/ call[c].at # "refused"
            /\ \/ call'[c].app = call[c].app
               \/ call'[c].at = "refused"
               \/ call[c].op = "draft"
            /\ call[c].op \in {"draft", "resume"} /\ call'[c].at = "back" =>
                 GoodNext(call'[c].app, call'[c].key)
  PROVE  Page'
<1>1. UNCHANGED <<card, held, session, probe, crossed>>
  OBVIOUS
<1>2. Alone'
  BY <1>1 DEF Page, Alone, Others, OfPage
<1>3. Steady'
  BY <1>1 DEF Page, Steady, Others, OfPage, PageOps, Buttons
<1>4. OneKey'
  <2>1. card # Nothing => card.app \in Applications /\ token[card.app] # Absent
    BY DEF Typed, TypeOK, CardOn, Cards
  <2>2. card # Nothing /\ ~crossed => GoodNext(card.app, held)
    BY <1>1, <2>1 DEF Page, OneKey, Stays, Typed, TypeOK
  <2>3. ASSUME NEW d \in Calls \ {c}, call[d] # Nothing,
               call[d].op \in {"draft", "resume"}, call[d].at = "back"
        PROVE  GoodNext(call[d].app, call[d].key)
    <3>1. /\ call[d].app \in Applications /\ token[call[d].app] # Absent
          /\ call[d].key \in Keys
      BY <2>3 DEF Typed, CallInv, Fits, FitsAt, Tasks
    <3>2. Good(call[d].app, call[d].key)
      BY <2>3 DEF Page, OneKey
    <3> QED
      BY <3>1, <3>2 DEF Stays, Others
  <2>4. ASSUME NEW d \in Calls, call'[d] # Nothing, call'[d].op \in {"draft", "resume"},
               call'[d].at = "back"
        PROVE  GoodNext(call'[d].app, call'[d].key)
    <3>1. CASE d = c
      BY <2>4, <3>1 DEF OfPage, PageOps, Buttons
    <3>2. CASE d # c
      BY <2>3, <2>4, <3>2 DEF Others
    <3> QED
      BY <3>1, <3>2
  <2>5. card # Nothing => card.key \in {0, held}
    BY DEF Page, OneKey
  <2> QED
    BY <1>1, <2>2, <2>4, <2>5 DEF OneKey, Good, GoodNext
<1>5. CardAgrees'
  BY <1>1 DEF Page, CardAgrees
<1> QED
  BY <1>2, <1>3, <1>4, <1>5 DEF Page

(* The card is filled by a call that no other of the page overlaps, or     *)
(* things stay crossed.                                                    *)
LEMMA FillPage ==
  ASSUME Typed, Typed', Page, Stays, NEW c \in Calls, Others(c),
         OfPage(c), call[c].at = "back", call[c].op \in {"draft", "resume"},
         NEW k \in {0, call[c].key}, NEW b, Fill(c, k, call[c].key, b)
  PROVE  Page'
<1>1. /\ card' = [app |-> call[c].app, key |-> k] /\ held' = call[c].key
      /\ session' = Nothing /\ probe' = Nothing
      /\ crossed' = (crossed /\ Rivals(c) # {})
      /\ call'[c] = Nothing
  BY DEF Fill, Done, Typed, TypeOK
<1>2. ~crossed' => \A d \in Calls : ~(call'[d] # Nothing /\ call'[d].op \in PageOps)
  <2> SUFFICES ASSUME ~crossed', NEW d \in Calls \ {c}, OfPage(d) PROVE FALSE
    BY <1>1 DEF Others, OfPage
  <2>1. d \in Rivals(c)
    BY DEF Rivals, OfPage
  <2>2. ~crossed
    BY <1>1, <2>1
  <2> QED
    BY <2>2 DEF Page, Alone, OfPage
<1>3. Alone'
  BY <1>2 DEF Alone
<1>4. Steady'
  BY <1>2 DEF Steady, PageOps, Buttons
<1>5. OneKey'
  <2>1. /\ call[c].app \in Applications /\ token[call[c].app] # Absent /\ call[c].key \in Keys
    BY DEF OfPage, Typed, CallInv, Fits, FitsAt, Tasks
  <2>2. GoodNext(call[c].app, call[c].key)
    BY <2>1 DEF OfPage, Page, OneKey, Stays
  <2>3. ASSUME NEW d \in Calls, call'[d] # Nothing, call'[d].op \in {"draft", "resume"},
               call'[d].at = "back"
        PROVE  GoodNext(call'[d].app, call'[d].key)
    <3>1. call'[d] = call[d]
      BY <1>1, <2>3 DEF Others
    <3>2. /\ call[d].app \in Applications /\ token[call[d].app] # Absent
          /\ call[d].key \in Keys
      BY <2>3, <3>1 DEF Typed, CallInv, Fits, FitsAt, Tasks
    <3> QED
      BY <2>3, <3>1, <3>2 DEF Page, OneKey, Stays
  <2> QED
    BY <1>1, <2>2, <2>3 DEF OneKey, Good, GoodNext
<1>6. CardAgrees'
  BY <1>1 DEF CardAgrees
<1> QED
  BY <1>3, <1>4, <1>5, <1>6 DEF Page

(* A call about the card's application that does something to the card. *)
LEMMA ApplyPage ==
  ASSUME Typed, Typed', Page, Stays, NEW c \in Calls, Others(c),
         FinishProof(c) \/ FinishSession(c) \/ FinishProbe(c)
  PROVE  Page'
<1>1. /\ OfPage(c) /\ call[c].at # "refused" /\ call[c] \in Tasks
      /\ call[c].op \in {"proof", "session", "probe"}
      /\ held' = held /\ crossed' = crossed
  BY DEF FinishProof, FinishSession, FinishProbe, At, OfPage, PageOps, Buttons,
     history, Typed, TypeOK
<1>2. \/ call'[c] = Nothing
      \/ /\ call'[c].op = "probe" /\ call'[c].app = call[c].app
         /\ call'[c].at = "out"
  BY <1>1 DEF FinishProof, FinishSession, FinishProbe, Done, Typed, TypeOK, Tasks
<1>3. ~crossed => card # Nothing /\ card.app = call[c].app
  BY <1>1 DEF Page, Steady, OfPage
<1>4. /\ card' = card \/ card' = [app |-> call[c].app, key |-> 0]
      /\ \/ session' = session
         \/ session' = call[c].session /\ session'.app = call[c].app
      /\ probe' = probe \/ probe' = call[c].app
  BY DEF FinishProof, FinishSession, FinishProbe, At, Typed, CallInv, Fits, FitsAt
<1>5. ~crossed => card' # Nothing /\ card'.app = card.app
  <2>1. [app |-> call[c].app, key |-> 0] \in Cards \/ card' = card
    <3>1. CASE FinishProof(c)
      <4>1. call[c].app \in Applications
        BY <3>1 DEF FinishProof, At, Typed, CallInv, Fits, FitsAt
      <4> QED
        BY <4>1, KeysAreNat DEF Cards
    <3>2. CASE FinishSession(c) \/ FinishProbe(c)
      BY <3>2 DEF FinishSession, FinishProbe
    <3> QED
      BY <3>1, <3>2
  <2> QED
    BY <1>3, <1>4, <2>1, NothingElse
<1>6. Alone'
  BY <1>1, <1>2 DEF Page, Alone, Others, OfPage, PageOps, Buttons
<1>7. Steady'
  BY <1>1, <1>2, <1>3, <1>5 DEF Page, Steady, Others
<1>8. OneKey'
  <2>1. card # Nothing => /\ card.app \in Applications /\ token[card.app] # Absent
                          /\ held \in Keys
    BY DEF Typed, TypeOK, CardOn, Cards
  <2>2. card' # Nothing /\ ~crossed' => GoodNext(card'.app, held')
    BY <1>1, <1>3, <1>5, <2>1 DEF Page, OneKey, Stays
  <2>3. card' # Nothing => card'.key \in {0, held'}
    BY <1>1, <1>4 DEF Page, OneKey
  <2>4. ASSUME NEW d \in Calls, call'[d] # Nothing, call'[d].op \in {"draft", "resume"},
               call'[d].at = "back"
        PROVE  GoodNext(call'[d].app, call'[d].key)
    <3>1. call'[d] = call[d]
      BY <1>2, <2>4 DEF Others
    <3>2. /\ call[d].app \in Applications /\ token[call[d].app] # Absent
          /\ call[d].key \in Keys
      BY <2>4, <3>1 DEF Typed, CallInv, Fits, FitsAt, Tasks
    <3> QED
      BY <2>4, <3>1, <3>2 DEF Page, OneKey, Stays
  <2> QED
    BY <2>2, <2>3, <2>4 DEF OneKey, Good, GoodNext
<1>9. CardAgrees'
  BY <1>1, <1>3, <1>4, <1>5 DEF Page, CardAgrees
<1> QED
  BY <1>6, <1>7, <1>8, <1>9 DEF Page

LEMMA StartPage ==
  ASSUME Typed, Typed', Page, Stays, NEW c \in Calls, Others(c), Start(c)
  PROVE  Page'
<1> USE DEF PageOps, Buttons
<1>1. ASSUME NEW op \in PageOps, NEW app, NEW key, NEW s, NEW probing, NEW lag, NEW waits,
             op \in {"proof", "session", "probe"} => card # Nothing /\ app = card.app,
             Click(c, op, app, key, s, probing, lag, waits)
      PROVE  Page'
  <2>1. /\ UNCHANGED <<card, held, session, probe, token, retired, overtaken>>
        /\ crossed' = (crossed \/ Rivals(c) # {})
        /\ call[c] = Nothing /\ call'[c].op = op /\ call'[c].app = app
        /\ call'[c].at = "out"
    BY <1>1 DEF Click, Send, console, Typed, TypeOK
  <2>2. ~crossed' => ~crossed /\ \A d \in Calls \ {c} : ~OfPage(d)
    BY <2>1 DEF Rivals, OfPage
  <2>3. Alone'
    BY <2>2 DEF Alone, Others, OfPage
  <2>4. Steady'
    BY <1>1, <2>1, <2>2 DEF Steady, Others, OfPage
  <2>5. OneKey'
    <3>1. ~crossed' => ~crossed
      BY <2>1
    <3> QED
      BY <2>1, <3>1 DEF Page, OneKey, Good, Others
  <2>6. CardAgrees'
    BY <2>1 DEF Page, CardAgrees
  <2> QED
    BY <2>3, <2>4, <2>5, <2>6 DEF Page
<1>2. ASSUME NEW a \in Applications, BeginWrite(c, a) \/ BeginRotate(c, a)
      PROVE  Page'
  <2>1. UNCHANGED <<page, crossed>> /\ call'[c].op \notin PageOps
    BY <1>2 DEF BeginWrite, BeginRotate, Send, history, Typed, TypeOK
  <2> QED
    BY <2>1, QuietPage DEF page
<1> QED
  BY <1>1, <1>2 DEF Start, ClickDraft, ClickResume, ClickProof, ClickSession, ClickProbe

LEMMA NextPage ==
  ASSUME Typed, Typed', Rotation, Page, [Next]_vars PROVE Page'
<1>0. Stays
  BY GoodStays
<1>1. ASSUME NEW c \in Calls, Start(c) PROVE Page'
  BY <1>0, <1>1, OthersStay, StartPage
<1>2. ASSUME NEW c \in Calls, Proceed(c) PROVE Page'
  <2>1. Others(c) /\ call \in [Calls -> Tasks \cup {Nothing}]
    BY <1>2, OthersStay DEF Typed, TypeOK
  <2>2. CASE FinishDraft(c) \/ FinishResume(c)
    <3>1. OfPage(c) /\ call[c].at = "back" /\ call[c].op \in {"draft", "resume"}
      BY <2>2 DEF FinishDraft, FinishResume, At, OfPage, PageOps, Buttons
    <3> QED
      BY <1>0, <2>1, <2>2, <3>1, FillPage DEF FinishDraft, FinishResume
  <2>3. CASE FinishProof(c) \/ FinishSession(c) \/ FinishProbe(c)
    BY <1>0, <2>1, <2>3, ApplyPage
  <2>4. CASE Fail(c)
    <3>1. UNCHANGED <<card, held, session, probe, crossed>>
      BY <2>4 DEF Fail, history
    <3>2. call'[c] = Nothing \/ call'[c].op = "write"
      <4>1. call[c] \in Tasks
        BY <2>1, <2>4 DEF Fail
      <4> QED
        BY <2>1, <2>4, <4>1 DEF Fail, Done, Tasks
    <3> QED
      BY <1>0, <2>1, <3>1, <3>2, QuietPage DEF PageOps, Buttons
  <2>5. CASE \/ HandleDraft(c) \/ HandleResume(c) \/ HandleSession(c)
             \/ HandleProbe(c) \/ HandleProof(c)
    <3>1. /\ UNCHANGED <<card, held, session, probe, crossed>>
          /\ OfPage(c) /\ call[c].at = "out" /\ call[c] \in Tasks
      BY <2>1, <2>5 DEF HandleDraft, HandleResume, HandleSession, HandleProbe, HandleProof,
         At, page, history, OfPage, PageOps, Buttons
    <3>2. CASE HandleDraft(c)
      <4>1. PICK a \in Applications :
              /\ token' = [token EXCEPT ![a] = drawn + 1]
              /\ call' = [call EXCEPT ![c].at = "back", ![c].app = a, ![c].key = drawn + 1]
        BY <3>2 DEF HandleDraft
      <4>2. /\ call'[c].op = "draft" /\ call'[c].app = a /\ call'[c].key = drawn + 1
            /\ call[c].op = "draft"
        BY <2>1, <3>1, <3>2, <4>1 DEF Tasks, HandleDraft, At
      <4>3. GoodNext(call'[c].app, call'[c].key)
        BY <4>1, <4>2 DEF GoodNext, Typed, TypeOK
      <4> QED
        BY <1>0, <2>1, <3>1, <4>2, <4>3, QuietPage
    <3>3. CASE HandleResume(c)
      <4>1. call[c].op = "resume" /\ UNCHANGED <<token, overtaken, retired>>
        BY <3>3 DEF HandleResume, At, console, history
      <4>2. /\ call'[c].op = "resume"
            /\ call'[c].app = call[c].app \/ call'[c].at = "refused"
            /\ call'[c].at = "back" => GoodNext(call'[c].app, call'[c].key)
        BY <2>1, <3>1, <3>3, <4>1 DEF HandleResume, Goto, Refuse, Tasks, GoodNext
      <4> QED
        BY <1>0, <2>1, <3>1, <4>1, <4>2, QuietPage
    <3>4. CASE HandleSession(c) \/ HandleProbe(c) \/ HandleProof(c)
      <4>1. call[c].op \in {"session", "probe", "proof"}
        BY <3>4 DEF HandleSession, HandleProbe, HandleProof, At
      <4>2. /\ call'[c].op = call[c].op
            /\ call'[c].app = call[c].app \/ call'[c].at = "refused"
        BY <2>1, <3>1, <3>4 DEF HandleSession, HandleProbe, HandleProof, Goto, Refuse, Tasks
      <4> QED
        BY <1>0, <2>1, <3>1, <4>1, <4>2, QuietPage
    <3> QED
      BY <2>5, <3>2, <3>3, <3>4
  <2>6. CASE Write(c)
    <3>1. /\ UNCHANGED <<card, held, session, probe, crossed>>
          /\ call[c] \in Tasks /\ call[c].at = "loaded"
          /\ call[c].op \in {"proof", "write", "rotate"}
      BY <2>1, <2>6 DEF Write, page, Typed, CallInv, Fits, FitsAt
    <3>2. \/ call'[c] = Nothing
          \/ /\ call[c].op = "proof" /\ call'[c].op = "proof"
             /\ call'[c].app = call[c].app
      BY <2>1, <2>6, <3>1 DEF Write, Done, Tasks
    <3>3. call[c] # Nothing
      BY <2>6 DEF Write
    <3> QED
      BY <1>0, <2>1, <3>1, <3>2, <3>3, QuietPage DEF OfPage, PageOps, Buttons
  <2> QED
    BY <1>2, <2>2, <2>3, <2>4, <2>5, <2>6 DEF Proceed
<1>3. CASE Tick \/ UNCHANGED vars
  <2>1. UNCHANGED <<card, held, session, probe, crossed, call, token, retired, overtaken>>
    BY <1>3 DEF Tick, vars, console, page, history
  <2> QED
    BY <2>1 DEF Page, Alone, Steady, OneKey, CardAgrees, Good
<1> QED
  BY <1>1, <1>2, <1>3 DEF Next

LEMMA InitPage == Init => Page
<1> SUFFICES ASSUME Init PROVE Page
  OBVIOUS
<1> QED
  BY DEF Init, Page, Alone, Steady, OneKey, CardAgrees

LEMMA KeyOfTheCard == Typed /\ Page => KeepsItsKey
<1> SUFFICES ASSUME Typed, Page, ~crossed, card # Nothing, card.app \notin overtaken
             PROVE  CardKey = token[card.app] \/ <<card.app, CardKey>> \in retired
  BY DEF KeepsItsKey
<1>1. CardKey = held
  BY DEF CardKey, Page, OneKey
<1> QED
  BY <1>1 DEF Page, OneKey, Good

(* Session, probe and application of the card are of one application while *)
(* calls of the page do not overlap, and again once a draft or a resume    *)
(* went through by itself (resumePublisherApi, ensurePublisherSession).    *)
THEOREM CardIsOfOneApplication == Spec => []CardAgrees
<1>1. Page => CardAgrees
  BY DEF Page
<1> QED
  BY <1>1, InitTyped, NextTyped, InitRotation, NextRotation, InitPage, NextPage, PTL DEF Spec

(* The card keeps a token that its application was given, whatever the     *)
(* redacted answers leave out (merchantApplicationVerificationView).       *)
THEOREM CardKeepsItsKey == Spec => []KeepsItsKey
BY KeyOfTheCard, InitTyped, NextTyped, InitRotation, NextRotation, InitPage, NextPage, PTL
DEF Spec

----------------------------------------------------------------------------
(* Buttons. *)

Serves(t, b) ==
  /\ t # Nothing
  /\ \/ t.op = b
     \/ b = "probe" /\ t.probing

LEMMA ButtonsByCall == ButtonsHaveACall <=> \A b \in busy : \E c \in Calls : Serves(call[c], b)
BY DEF ButtonsHaveACall, Serves

(* A call gives up no more than it lets go. *)
LEMMA ButtonStep ==
  ASSUME ButtonsHaveACall, NEW c \in Calls, Others(c),
         \A b \in busy' : \/ b \in busy /\ ~Serves(call[c], b)
                         \/ Serves(call'[c], b)
  PROVE  ButtonsHaveACall'
<1>1. \A b \in busy' : \E d \in Calls : Serves(call'[d], b)
  <2> SUFFICES ASSUME NEW b \in busy' PROVE \E d \in Calls : Serves(call'[d], b)
    OBVIOUS
  <2>1. CASE Serves(call'[c], b)
    BY <2>1
  <2>2. CASE b \in busy /\ ~Serves(call[c], b)
    <3>1. PICK d \in Calls : Serves(call[d], b)
      BY <2>2, ButtonsByCall
    <3> QED
      BY <2>2, <3>1 DEF Others
  <2> QED
    BY <2>1, <2>2
<1> QED
  BY <1>1 DEF ButtonsHaveACall, Serves

(* What the console does to a call leaves it a call of the same buttons. *)
LEMMA HandleKeeps ==
  ASSUME Typed, NEW c \in Calls,
         \/ HandleDraft(c) \/ HandleResume(c) \/ HandleSession(c)
         \/ HandleProbe(c) \/ HandleProof(c)
  PROVE  /\ call'[c] # Nothing
         /\ call'[c].op = call[c].op /\ call'[c].probing = call[c].probing
         /\ UNCHANGED busy
<1> DEFINE task == call[c]
<1>1. /\ task \in Tasks /\ Fits(task) /\ task.at = "out"
      /\ call \in [Calls -> Tasks \cup {Nothing}] /\ now \in Nat
  BY DEF HandleDraft, HandleResume, HandleSession, HandleProbe, HandleProof, At, Typed,
     TypeOK, CallInv
<1>2. UNCHANGED busy
  BY DEF HandleDraft, HandleResume, HandleSession, HandleProbe, HandleProof, page
<1>3. \E t \in Tasks : /\ t.op = task.op /\ t.probing = task.probing
                       /\ call' = [call EXCEPT ![c] = t]
  <2> DEFINE refused == [op |-> task.op, at |-> "refused", app |-> Nothing, key |-> 0,
                         session |-> Nothing, probing |-> task.probing, since |-> 0, lag |-> 0]
  <2>1. refused \in Tasks
    BY <1>1, KeysAreNat DEF Tasks
  <2>2. Refuse(c) => call' = [call EXCEPT ![c] = refused]
    BY <1>1 DEF Refuse
  <2>3. CASE Refuse(c)
    BY <2>1, <2>2, <2>3
  <2>4. CASE HandleDraft(c)
    <3>1. PICK a \in Applications :
            call' = [call EXCEPT ![c] = [task EXCEPT !.at = "back", !.app = a,
                                                     !.key = drawn + 1]]
      BY <1>1, <2>4 DEF HandleDraft
    <3>2. drawn + 1 \in Keys
      <4>1. drawn < MaxTokens /\ drawn \in Keys
        BY <2>4 DEF HandleDraft, Typed, TypeOK
      <4> QED
        BY <4>1, TimesAssumption DEF Keys
    <3>3. [task EXCEPT !.at = "back", !.app = a, !.key = drawn + 1] \in Tasks
      BY <1>1, <3>2 DEF Tasks
    <3> QED
      BY <1>1, <3>1, <3>3 DEF Tasks
  <2>5. CASE HandleResume(c) /\ Goto(c, "back")
    <3>1. [task EXCEPT !.at = "back"] \in Tasks
      BY <1>1 DEF Tasks
    <3> QED
      BY <1>1, <2>5, <3>1 DEF Goto, Tasks
  <2>6. CASE HandleSession(c) /\ task.key = token[task.app]
    <3> DEFINE s == [app |-> task.app, key |-> token[task.app], expires |-> now + Ttl]
               t == [task EXCEPT !.at = "back", !.key = 0, !.session = s]
    <3>1. s \in Sessions
      BY <1>1, <2>6, TimesAssumption DEF HandleSession, At, Sessions, Tasks, Fits, FitsAt
    <3>2. t \in Tasks /\ t.op = task.op /\ t.probing = task.probing
      BY <1>1, <3>1, KeysAreNat DEF Tasks
    <3>3. call' = [call EXCEPT ![c] = t]
      BY <1>1, <2>6 DEF HandleSession
    <3> QED
      BY <3>2, <3>3
  <2>7. CASE HandleProbe(c) /\ Opens(task.app, task.session)
    <3> DEFINE t == [task EXCEPT !.at = "back", !.session = Nothing, !.since = 0, !.lag = 0]
    <3>1. t \in Tasks /\ t.op = task.op /\ t.probing = task.probing
      BY <1>1, AnsweredProbe
    <3>2. call' = [call EXCEPT ![c] = t]
      BY <1>1, <2>7 DEF HandleProbe
    <3> QED
      BY <3>1, <3>2
  <2>8. CASE HandleProof(c)
    <3> DEFINE t == [task EXCEPT !.at = "loaded", !.key = token[task.app]]
    <3>1. token[task.app] \in Keys
      BY <1>1, <2>8 DEF HandleProof, At, Fits, FitsAt, Typed, TypeOK
    <3>2. t \in Tasks /\ t.op = task.op /\ t.probing = task.probing
      BY <1>1, <3>1 DEF Tasks
    <3>3. call' = [call EXCEPT ![c] = t]
      BY <1>1, <2>8 DEF HandleProof
    <3> QED
      BY <3>2, <3>3
  <2> QED
    BY <2>3, <2>4, <2>5, <2>6, <2>7, <2>8 DEF HandleResume, HandleSession, HandleProbe
<1> QED
  BY <1>1, <1>2, <1>3, NothingElse

LEMMA NextButtons ==
  ASSUME Typed, Typed', ButtonsHaveACall, [Next]_vars PROVE ButtonsHaveACall'
<1> USE DEF Buttons, PageOps
<1>1. ASSUME NEW c \in Calls, Start(c) PROVE ButtonsHaveACall'
  <2>1. Others(c) /\ call[c] = Nothing /\ call'[c] # Nothing
    <3>1. call[c] = Nothing
      BY <1>1 DEF Start, ClickDraft, ClickResume, ClickProof, ClickSession,
         ClickProbe, Click, BeginWrite, BeginRotate, Send
    <3> QED
      BY <1>1, <3>1, OthersStay, StartTyped, NothingElse
  <2>2. ASSUME NEW op \in PageOps, NEW app, NEW key, NEW s, NEW probing \in BOOLEAN,
               NEW lag, NEW waits, Click(c, op, app, key, s, probing, lag, waits),
               \A b \in waits : b = op \/ (b = "probe" /\ probing)
        PROVE  ButtonsHaveACall'
    <3>1. call'[c].op = op /\ call'[c].probing = probing
      BY <2>2 DEF Click, Send, Typed, TypeOK
    <3>2. \A b \in waits : Serves(call'[c], b)
      BY <2>1, <2>2, <3>1 DEF Serves
    <3> QED
      BY <2>1, <2>2, <3>2, ButtonStep DEF Serves, Click
  <2>3. ASSUME NEW a \in Applications, BeginWrite(c, a) \/ BeginRotate(c, a)
        PROVE  ButtonsHaveACall'
    BY <2>1, <2>3, ButtonStep DEF Serves, BeginWrite, BeginRotate, page
  <2>4. ASSUME NEW op \in PageOps, NEW app, NEW key, NEW waits \in SUBSET {op},
               Click(c, op, app, key, Nothing, FALSE, 0, waits)
        PROVE  ButtonsHaveACall'
    BY <2>2, <2>4, Zenon
  <2>5. ASSUME NEW a, NEW t, ClickResume(c, a, t) PROVE ButtonsHaveACall'
    BY <2>4, <2>5 DEF ClickResume
  <2>6. CASE ClickProbe(c)
    <3>1. CASE \E lag \in Lags : Click(c, "probe", card.app, 0, session, TRUE, lag, {"probe"})
      BY <2>2, <3>1
    <3>2. CASE ~\E lag \in Lags : Click(c, "probe", card.app, 0, session, TRUE, lag, {"probe"})
      <4>1. Click(c, "session", card.app, CardKey, Nothing, TRUE, 0, {"session", "probe"})
        BY <2>6, <3>2 DEF ClickProbe
      <4>2. \A b \in {"session", "probe"} : b = "session" \/ (b = "probe" /\ TRUE)
        OBVIOUS
      <4>3. "session" \in PageOps /\ TRUE \in BOOLEAN
        OBVIOUS
      <4> HIDE DEF PageOps
      <4> QED
        BY <2>2, <4>1, <4>2, <4>3, Zenon
    <3> QED
      BY <3>1, <3>2
  <2>7. CASE ClickDraft(c)
    <3>1. Click(c, "draft", Nothing, 0, Nothing, FALSE, 0, {})
      BY <2>7 DEF ClickDraft
    <3>2. "draft" \in PageOps /\ {} \in SUBSET {"draft"}
      OBVIOUS
    <3> HIDE DEF PageOps
    <3> QED
      BY <2>4, <3>1, <3>2, Zenon
  <2>8. CASE ClickProof(c)
    BY <2>4, <2>8 DEF ClickProof
  <2>9. CASE ClickSession(c)
    BY <2>4, <2>9 DEF ClickSession
  <2> QED
    BY <1>1, <2>3, <2>5, <2>6, <2>7, <2>8, <2>9 DEF Start
<1>2. ASSUME NEW c \in Calls, Proceed(c) PROVE ButtonsHaveACall'
  <2>1. Others(c) /\ call \in [Calls -> Tasks \cup {Nothing}] /\ busy \subseteq Buttons
    BY <1>2, OthersStay DEF Typed, TypeOK
  <2>2. call[c] # Nothing /\ call[c] \in Tasks /\ Fits(call[c])
    BY <1>2, <2>1 DEF Typed, CallInv, Proceed, At, HandleDraft, HandleResume,
         HandleSession, HandleProbe, HandleProof, Write, FinishDraft, FinishResume,
         FinishProof, FinishSession, FinishProbe, Fail
  <2>3. ASSUME UNCHANGED busy, call'[c] # Nothing, call'[c].op = call[c].op,
               call'[c].probing = call[c].probing
        PROVE  ButtonsHaveACall'
    BY <2>1, <2>3, ButtonStep DEF Serves
  <2>4. \A b \in Buttons \ Waiting(call[c]) : ~Serves(call[c], b)
    BY DEF Serves, Waiting
  <2>5. ASSUME busy' \subseteq busy \ Waiting(call[c]) PROVE ButtonsHaveACall'
    BY <2>1, <2>4, <2>5, ButtonStep
  <2>6. CASE \/ HandleDraft(c) \/ HandleResume(c) \/ HandleSession(c)
             \/ HandleProbe(c) \/ HandleProof(c)
    BY <2>3, <2>6, HandleKeeps
  <2>7. CASE Write(c)
    <3>1. UNCHANGED busy
      BY <2>7 DEF Write, page
    <3>2. CASE call[c].op = "proof"
      <4> DEFINE t == [call[c] EXCEPT !.at = "back", !.key = 0]
      <4>1. t \in Tasks /\ t.op = call[c].op /\ t.probing = call[c].probing
        BY <2>2, KeysAreNat DEF Tasks
      <4>2. call'[c] = t
        BY <2>1, <2>7, <3>2 DEF Write
      <4> QED
        BY <2>3, <3>1, <4>1, <4>2, NothingElse
    <3>3. CASE call[c].op # "proof"
      <4>1. call[c].op \notin Buttons /\ ~call[c].probing
        BY <2>2, <2>7, <3>3 DEF Write, Fits, FitsAt
      <4> QED
        BY <2>1, <3>1, <4>1, ButtonStep DEF Serves
    <3> QED
      BY <3>2, <3>3
  <2>8. CASE \/ FinishDraft(c) \/ FinishResume(c) \/ FinishProof(c)
    <3>1. busy' = busy \ {call[c].op} /\ ~call[c].probing
      BY <2>2, <2>8 DEF FinishDraft, FinishResume, FinishProof, Fill, At, Fits, FitsAt
    <3> QED
      BY <2>5, <3>1 DEF Waiting
  <2>9. CASE FinishSession(c)
    <3>1. call[c].op = "session" /\ busy' = busy \ {"session"}
      BY <2>9 DEF FinishSession, At
    <3>2. CASE call[c].probing
      <4> DEFINE t == [call[c] EXCEPT !.op = "probe", !.at = "out"]
      <4>1. t \in Tasks /\ t.op = "probe" /\ t.probing
        BY <2>2, <3>2 DEF Tasks
      <4>2. call'[c] = t
        BY <2>1, <2>9, <3>2 DEF FinishSession
      <4>3. Serves(call'[c], "probe")
        BY <4>1, <4>2, NothingElse DEF Serves
      <4>4. \A b \in busy' : b # "probe" => ~Serves(call[c], b)
        BY <3>1 DEF Serves
      <4> QED
        BY <2>1, <3>1, <4>3, <4>4, ButtonStep
    <3>3. CASE ~call[c].probing
      BY <2>5, <3>1, <3>3 DEF Waiting
    <3> QED
      BY <3>2, <3>3
  <2>10. CASE FinishProbe(c)
    <3>1. Waiting(call[c]) = {"probe"} /\ busy' = busy \ {"probe"}
      BY <2>10 DEF FinishProbe, At, Waiting
    <3> QED
      BY <2>5, <3>1
  <2>11. CASE Fail(c)
    <3>1. CASE call[c].op \in PageOps
      BY <2>5, <2>11, <3>1 DEF Fail
    <3>2. CASE call[c].op \notin PageOps
      <4>1. busy' = busy /\ ~call[c].probing
        BY <2>2, <2>11, <3>2 DEF Fail, Fits, FitsAt
      <4> QED
        BY <2>1, <3>2, <4>1, ButtonStep DEF Serves
    <3> QED
      BY <3>1, <3>2
  <2> QED
    BY <1>2, <2>6, <2>7, <2>8, <2>9, <2>10, <2>11 DEF Proceed
<1>3. CASE Tick \/ UNCHANGED vars
  BY <1>3 DEF Tick, vars, page, ButtonsHaveACall
<1> QED
  BY <1>1, <1>2, <1>3 DEF Next

(* A button that waits has a call under way whose end lets it go (the      *)
(* finally blocks of main.tsx, at each level of a probe that exchanges its *)
(* token first).                                                           *)
THEOREM NoButtonWaitsForNothing == Spec => []ButtonsHaveACall
<1>1. Init => ButtonsHaveACall
  BY DEF Init, ButtonsHaveACall
<1> QED
  BY <1>1, InitTyped, NextTyped, NextButtons, PTL DEF Spec
=============================================================================
