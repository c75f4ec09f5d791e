--------------------------- MODULE SessionProofs ---------------------------
(* What holds of Session for any set of requests and accounts, any lifetimes  *)
(* of the tokens and any length of time.                                      *)
EXTENDS Session, TLAPS

-----------------------------------------------------------------------------
(* What the properties rest on.                                               *)

\* What is asked for says what is known of it: a switch or a login names an
\* account and is answered with tokens, and so is a refresh.
ShapeInv ==
    /\ \A r \in Requests :
          /\ at[r] = "idle" => req[r] = Blank
          /\ req[r].kind \in {"switch", "login"} =>
                req[r].goal \in Accounts /\ (at[r] = "ok" => req[r].tokens \in Tokens)
    /\ refresh.at = "none" => refresh = NoRefresh
    /\ refresh.at = "ok" => refresh.tokens \in Tokens

\* While the page waits for its first check it does nothing else.
CheckInv ==
    \A r \in Requests :
        req[r].kind = "check" => ~signedIn /\ \A q \in Requests \ {r} : at[q] = "idle"

\* As long as nobody changed the stored account behind it, everything the page
\* holds is of the stored account: what it shows, what a refresh or a check was
\* asked for, and the calls made since the last change.
AccountInv ==
    ~mixed =>
        /\ signedIn => AccountOf(storage) = context
        /\ refresh.tokens # NoToken => AccountOf(refresh.tokens) = AccountOf(storage)
        /\ \A r \in Requests :
              /\ req[r].kind = "check" /\ req[r].tokens # NoToken
                    => AccountOf(req[r].tokens) = AccountOf(storage)
              /\ req[r].kind = "call" /\ ~req[r].crossed =>
                    /\ req[r].shown = AccountOf(storage)
                    /\ at[r] = "sent" => AccountOf(req[r].tokens) = req[r].shown

\* A replay of this unit was made with tokens of this unit or the one before.
ReplayInv ==
    /\ refresh.at # "none" => refresh.sentAt <= now /\ now <= refresh.sentAt + 1
    /\ refresh.at = "ok" => refresh.sentAt <= refresh.tokens.made
    /\ \A r \in Requests :
          req[r].replayed /\ at[r] = "sent" =>
              req[r].tokens \in Tokens /\ req[r].sentAt <= req[r].tokens.made + 1

-----------------------------------------------------------------------------
(* Facts of the operators.                                                    *)

LEMMA BlankType == Blank \in RequestRecords /\ NoRefresh \in RefreshRecords
  BY TimeAssumption DEF Blank, RequestRecords, NoRefresh, RefreshRecords, Stored

LEMMA TokenFacts ==
  ASSUME TypeOK
  PROVE  /\ \A t \in Tokens : t \in Stored /\ t # NoToken /\ AccountOf(t) = t.account /\ t.account \in Accounts
         /\ \A t \in Stored : t # NoToken => t \in Tokens
         /\ \A a \in Accounts : Minted(a) \in Tokens /\ Minted(a).account = a /\ Minted(a).made = now
         /\ AccountOf(NoToken) = NoAccount
  BY TokenAssumption, AccountAssumption DEF TypeOK, Tokens, Stored, AccountOf, Minted

\* A check is made with the stored tokens.
LEMMA CheckFacts ==
  ASSUME TypeOK, NEW r
  PROVE  /\ Check(r) \in RequestRecords
         /\ Check(r).kind = "check" /\ Check(r).tokens = storage /\ Check(r).replayed = FALSE
  BY BlankType DEF TypeOK, Check, Blank, RequestRecords

\* What is sent is of the kind that was asked for, with the stored tokens.
LEMMA SendFacts ==
  ASSUME TypeOK, NEW r \in Requests, NEW what \in {"call", "switch", "login"},
         NEW a \in Accounts \cup {NoAccount}, Send(r, what, a)
  PROVE  /\ at' \in [Requests -> Places] /\ req' \in [Requests -> RequestRecords]
         /\ at[r] = "idle" /\ at'[r] = "sent"
         /\ req'[r].kind = what /\ req'[r].goal = a /\ req'[r].tokens = storage
         /\ req'[r].replayed = FALSE
         /\ what = "call" => req'[r].shown = context
         /\ \A q \in Requests \ {r} : at'[q] = at[q] /\ req'[q] = req[q]
         /\ UNCHANGED <<now, storage, page, signedIn, context, mixed, isRefreshing, failedQueue, refresh>>
<1> DEFINE new == [Blank EXCEPT !.kind = what, !.goal = a, !.tokens = storage, !.sentAt = now,
                                !.shown = IF what = "call" THEN context ELSE NoAccount]
<1>1. /\ new \in RequestRecords
      /\ new.kind = what /\ new.goal = a /\ new.tokens = storage /\ new.replayed = FALSE
      /\ what = "call" => new.shown = context
  BY BlankType DEF TypeOK, Blank, RequestRecords
<1>2. at' = [at EXCEPT ![r] = "sent"] /\ req' = [req EXCEPT ![r] = new] /\ at[r] = "idle"
  BY DEF Send
<1>3. "sent" \in Places
  BY DEF Places
<1>4. UNCHANGED <<now, storage, page, signedIn, context, mixed, isRefreshing, failedQueue, refresh>>
  BY DEF Send, client, queue
<1> HIDE DEF new
<1> QED
  BY <1>1, <1>2, <1>3, <1>4 DEF TypeOK

\* Requests that are over are blank, the others keep everything but "crossed".
LEMMA SettledFacts ==
  ASSUME TypeOK, NEW S, NEW W, Settled(S, W)
  PROVE  /\ at' \in [Requests -> Places] /\ req' \in [Requests -> RequestRecords]
         /\ \A q \in Requests :
               /\ q \in S => at'[q] = "idle" /\ req'[q] = Blank
               /\ q \notin S =>
                     /\ at'[q] = at[q]
                     /\ req'[q].kind = req[q].kind /\ req'[q].goal = req[q].goal
                     /\ req'[q].tokens = req[q].tokens /\ req'[q].shown = req[q].shown
                     /\ req'[q].replayed = req[q].replayed /\ req'[q].sentAt = req[q].sentAt
                     /\ req[q].crossed => req'[q].crossed
                     /\ q \in W /\ req[q].kind = "call" => req'[q].crossed
                     /\ req[q].kind # "call" => req'[q] = req[q]
                     /\ q \notin W => req'[q] = req[q]
<1>1. at' \in [Requests -> Places]
  BY DEF Settled, TypeOK, Places
<1>2. ASSUME NEW q \in Requests
      PROVE  [req[q] EXCEPT !.crossed = TRUE] \in RequestRecords
  BY DEF TypeOK, RequestRecords
<1>3. req' \in [Requests -> RequestRecords]
  BY <1>2, BlankType DEF Settled, TypeOK
<1>4. ASSUME NEW q \in Requests, q \in S
      PROVE  at'[q] = "idle" /\ req'[q] = Blank
  BY <1>4 DEF Settled
<1>5. ASSUME NEW q \in Requests, q \notin S
      PROVE  /\ at'[q] = at[q]
             /\ req'[q] = IF q \in W /\ req[q].kind = "call" THEN [req[q] EXCEPT !.crossed = TRUE] ELSE req[q]
  BY <1>5 DEF Settled
<1>6. ASSUME NEW q \in Requests
      PROVE  req[q] \in RequestRecords
  BY DEF TypeOK
<1> QED
  BY <1>1, <1>3, <1>4, <1>5, <1>6 DEF RequestRecords

\* What is sent again carries the new tokens and is otherwise what it was.
LEMMA ReplayFacts ==
  ASSUME TypeOK, NEW S, NEW t \in Stored, Replay(S, t)
  PROVE  /\ at' \in [Requests -> Places] /\ req' \in [Requests -> RequestRecords]
         /\ \A q \in Requests :
               /\ req'[q].kind = req[q].kind /\ req'[q].goal = req[q].goal
               /\ req'[q].shown = req[q].shown /\ req'[q].crossed = req[q].crossed
               /\ q \in S => at'[q] = "sent" /\ req'[q].tokens = t /\ req'[q].sentAt = now
               /\ q \notin S => at'[q] = at[q] /\ req'[q] = req[q]
<1>1. at' \in [Requests -> Places]
  BY DEF Replay, TypeOK, Places
<1>2. ASSUME NEW q \in Requests
      PROVE  [req[q] EXCEPT !.tokens = t, !.replayed = TRUE, !.sentAt = now] \in RequestRecords
  BY DEF TypeOK, RequestRecords
<1>3. req' \in [Requests -> RequestRecords]
  BY <1>2 DEF Replay, TypeOK
<1>4. ASSUME NEW q \in Requests
      PROVE  /\ req[q] \in RequestRecords
             /\ req'[q] = IF q \in S THEN [req[q] EXCEPT !.tokens = t, !.replayed = TRUE, !.sentAt = now] ELSE req[q]
             /\ at'[q] = IF q \in S THEN "sent" ELSE at[q]
  BY DEF Replay, TypeOK
<1>5. ASSUME NEW q \in Requests
      PROVE  /\ req'[q].kind = req[q].kind /\ req'[q].goal = req[q].goal
             /\ req'[q].shown = req[q].shown /\ req'[q].crossed = req[q].crossed
             /\ q \in S => at'[q] = "sent" /\ req'[q].tokens = t /\ req'[q].sentAt = now
             /\ q \notin S => at'[q] = at[q] /\ req'[q] = req[q]
  <2>1. CASE q \in S
    <3>1. req'[q] = [req[q] EXCEPT !.tokens = t, !.replayed = TRUE, !.sentAt = now] /\ at'[q] = "sent"
      BY <1>4, <2>1
    <3>2. req[q] \in RequestRecords
      BY <1>4
    <3> QED
      BY <2>1, <3>1, <3>2 DEF RequestRecords
  <2>2. CASE q \notin S
    BY <1>4, <2>2
  <2> QED
    BY <2>1, <2>2
<1> QED
  BY <1>1, <1>3, <1>5

-----------------------------------------------------------------------------
(* The shape of the state.                                                    *)

LEMMA InitShape == Init => TypeOK /\ ShapeInv
<1> SUFFICES ASSUME Init PROVE TypeOK /\ ShapeInv
  OBVIOUS
<1>1. now \in 0 .. MaxTime /\ storage \in Stored
  BY TimeAssumption DEF Init, Stored, Tokens
<1>2. PICK r \in Requests :
         /\ at = [q \in Requests |-> IF q = r THEN "sent" ELSE "idle"]
         /\ req = [q \in Requests |-> IF q = r THEN Check(r) ELSE Blank]
  BY DEF Init
<1>3. Check(r) \in RequestRecords /\ Check(r).kind = "check"
  BY <1>1, BlankType DEF Check, Blank, RequestRecords
<1>4. TypeOK
  BY <1>1, <1>2, <1>3, BlankType DEF Init, TypeOK, Places
<1>5. ShapeInv
  BY <1>2, <1>3 DEF Init, ShapeInv, Blank, NoRefresh
<1> QED
  BY <1>4, <1>5

LEMMA SendShape ==
  ASSUME TypeOK, ShapeInv, NEW r \in Requests, NEW what \in {"call", "switch", "login"},
         NEW a \in Accounts \cup {NoAccount}, Send(r, what, a), what # "call" => a \in Accounts
  PROVE  TypeOK' /\ ShapeInv'
<1>1. TypeOK'
  BY SendFacts DEF TypeOK
<1>2. ASSUME NEW q \in Requests
      PROVE  /\ at'[q] = "idle" => req'[q] = Blank
             /\ req'[q].kind \in {"switch", "login"} =>
                   req'[q].goal \in Accounts /\ (at'[q] = "ok" => req'[q].tokens \in Tokens)
  <2>1. CASE q = r
    BY <2>1, SendFacts
  <2>2. CASE q # r
    BY <2>2, SendFacts DEF ShapeInv
  <2> QED
    BY <2>1, <2>2
<1>3. refresh' = refresh
  BY SendFacts
<1> QED
  BY <1>1, <1>2, <1>3 DEF ShapeInv, Tokens

LEMMA ServeShape ==
  ASSUME TypeOK, ShapeInv, NEW r \in Requests, Accept(r) \/ SayExpired(r) \/ Fail(r)
  PROVE  TypeOK' /\ ShapeInv'
<1>1. ASSUME NEW t \in Stored
      PROVE  /\ [req[r] EXCEPT !.tokens = t] \in RequestRecords
             /\ [req[r] EXCEPT !.tokens = t].kind = req[r].kind
             /\ [req[r] EXCEPT !.tokens = t].goal = req[r].goal
             /\ [req[r] EXCEPT !.tokens = t].tokens = t
  BY DEF TypeOK, RequestRecords
<1>2. CASE Accept(r)
  <2>1. PICK t \in CASE req[r].kind \in {"switch", "login"} -> {Minted(req[r].goal)}
                     [] req[r].kind = "check" -> {req[r].tokens, NoToken}
                     [] OTHER -> {NoToken} :
               req' = [req EXCEPT ![r].tokens = t]
    BY <1>2 DEF Accept
  <2>2. req[r] \in RequestRecords /\ req[r].tokens \in Stored
    BY DEF TypeOK, RequestRecords
  <2>3. t \in Stored /\ (req[r].kind \in {"switch", "login"} => t \in Tokens)
    BY <2>1, <2>2, TokenFacts DEF ShapeInv, Stored
  <2>4. at' = [at EXCEPT ![r] = "ok"] /\ UNCHANGED <<now, client, queue>>
    BY <1>2 DEF Accept
  <2>5. req' = [req EXCEPT ![r] = [req[r] EXCEPT !.tokens = t]]
    BY <2>1
  <2>6. TypeOK'
    BY <1>1, <2>3, <2>4, <2>5 DEF TypeOK, client, queue, Places
  <2>7. ASSUME NEW q \in Requests
        PROVE  /\ at'[q] = "idle" => req'[q] = Blank
               /\ req'[q].kind \in {"switch", "login"} =>
                     req'[q].goal \in Accounts /\ (at'[q] = "ok" => req'[q].tokens \in Tokens)
    <3>1. CASE q = r
      BY <1>1, <2>3, <2>4, <2>5, <3>1 DEF TypeOK, ShapeInv
    <3>2. CASE q # r
      BY <2>4, <2>5, <3>2 DEF TypeOK, ShapeInv
    <3> QED
      BY <3>1, <3>2
  <2>8. ShapeInv'
    BY <2>4, <2>7 DEF ShapeInv, queue, Tokens
  <2> QED
    BY <2>6, <2>8
<1>3. ASSUME NEW p \in {"expired", "failed"},
             at' = [at EXCEPT ![r] = p], req' = [req EXCEPT ![r].tokens = NoToken],
             UNCHANGED <<now, client, queue>>
      PROVE  TypeOK' /\ ShapeInv'
  <2>1. NoToken \in Stored
    BY DEF Stored
  <2>2. req' = [req EXCEPT ![r] = [req[r] EXCEPT !.tokens = NoToken]]
    BY <1>3
  <2>3. TypeOK'
    BY <1>1, <1>3, <2>1, <2>2 DEF TypeOK, client, queue, Places
  <2>4. ASSUME NEW q \in Requests
        PROVE  /\ at'[q] = "idle" => req'[q] = Blank
               /\ req'[q].kind \in {"switch", "login"} =>
                     req'[q].goal \in Accounts /\ (at'[q] = "ok" => req'[q].tokens \in Tokens)
    <3>1. CASE q = r
      BY <1>1, <1>3, <2>1, <2>2, <3>1 DEF TypeOK, ShapeInv
    <3>2. CASE q # r
      BY <1>3, <2>2, <3>2 DEF TypeOK, ShapeInv
    <3> QED
      BY <3>1, <3>2
  <2>5. ShapeInv'
    BY <1>3, <2>4 DEF ShapeInv, queue, Tokens
  <2> QED
    BY <2>3, <2>5
<1> QED
  BY <1>2, <1>3 DEF SayExpired, Fail

\* Whatever settles requests keeps the shape of those that go on.
LEMMA SettledShape ==
  ASSUME TypeOK, ShapeInv, NEW S, NEW W, Settled(S, W)
  PROVE  \A r \in Requests :
            /\ at'[r] = "idle" => req'[r] = Blank
            /\ req'[r].kind \in {"switch", "login"} =>
                  req'[r].goal \in Accounts /\ (at'[r] = "ok" => req'[r].tokens \in Tokens)
<1> SUFFICES ASSUME NEW r \in Requests
             PROVE  /\ at'[r] = "idle" => req'[r] = Blank
                    /\ req'[r].kind \in {"switch", "login"} =>
                          req'[r].goal \in Accounts /\ (at'[r] = "ok" => req'[r].tokens \in Tokens)
  OBVIOUS
<1>1. CASE r \in S
  <2>1. at'[r] = "idle" /\ req'[r] = Blank
    BY <1>1, SettledFacts
  <2>2. Blank.kind = "none"
    BY DEF Blank
  <2> QED
    BY <2>1, <2>2
<1>2. CASE r \notin S
  <2>1. at[r] = "idle" => req[r].kind # "call"
    BY DEF ShapeInv, Blank
  <2> QED
    BY <1>2, <2>1, SettledFacts DEF ShapeInv
<1> QED
  BY <1>1, <1>2

LEMMA ReceiveShape ==
  ASSUME TypeOK, ShapeInv, NEW r \in Requests, Receive(r)
  PROVE  TypeOK' /\ ShapeInv'
<1>1. CASE ReceiveCall(r)
  BY <1>1, SettledFacts, SettledShape DEF ReceiveCall, TypeOK, ShapeInv, client, queue, Tokens
<1>2. CASE ReceiveSwitch(r)
  <2>1. req[r].tokens \in Tokens
    BY <1>2 DEF ReceiveSwitch, ShapeInv
  <2>2. req[r].tokens \in Stored /\ req[r].tokens.account \in Accounts
    BY <2>1, TokenFacts
  <2>3. Settled({r}, Requests) /\ mixed' \in BOOLEAN
    BY <1>2 DEF ReceiveSwitch, Overtaken, TypeOK
  <2> QED
    BY <1>2, <2>2, <2>3, SettledFacts, SettledShape DEF ReceiveSwitch, TypeOK, ShapeInv, queue, Tokens
<1>3. CASE ReceiveLogin(r)
  <2>1. req[r].tokens \in Tokens
    BY <1>3 DEF ReceiveLogin, ShapeInv
  <2>2. req[r].tokens \in Stored /\ req[r].tokens.account \in Accounts
    BY <2>1, TokenFacts
  <2>3. Settled({r}, Requests) /\ mixed' \in BOOLEAN /\ page' \in {"app", "auth", "leaving"}
    BY <1>3 DEF ReceiveLogin, TypeOK
  <2> QED
    BY <1>3, <2>2, <2>3, SettledFacts, SettledShape DEF ReceiveLogin, TypeOK, ShapeInv, queue, Tokens
<1>4. CASE ReceiveCheck(r)
  <2>1. req[r].tokens \in Stored
    BY DEF TypeOK, RequestRecords
  <2>2. /\ signedIn' \in BOOLEAN /\ context' \in Accounts \cup {NoAccount}
        /\ page' \in {"app", "auth", "leaving"}
    BY <1>4, <2>1, TokenFacts DEF ReceiveCheck, SignedOut, TypeOK
  <2> QED
    BY <1>4, <2>2, SettledFacts, SettledShape DEF ReceiveCheck, TypeOK, ShapeInv, queue, Tokens
<1>5. CASE ReceiveFailure(r)
  <2>1. /\ signedIn' \in BOOLEAN /\ context' \in Accounts \cup {NoAccount}
        /\ page' \in {"app", "auth", "leaving"}
    BY <1>5 DEF ReceiveFailure, SignedOut, TypeOK
  <2> QED
    BY <1>5, <2>1, SettledFacts, SettledShape DEF ReceiveFailure, TypeOK, ShapeInv, queue, Tokens
<1>6. CASE Park(r)
  BY <1>6 DEF Park, TypeOK, ShapeInv, client, Places, Tokens
<1>7. CASE StartRefresh(r)
  BY <1>7 DEF StartRefresh, TypeOK, ShapeInv, client, Places, RefreshRecords, Tokens, NoRefresh
<1> QED
  BY <1>1, <1>2, <1>3, <1>4, <1>5, <1>6, <1>7 DEF Receive

LEMMA RefreshShape ==
  ASSUME TypeOK, ShapeInv, ServeRefresh \/ RefreshDone \/ RefreshFailed
  PROVE  TypeOK' /\ ShapeInv'
<1>1. refresh \in RefreshRecords /\ refresh.tokens \in Stored
  BY DEF TypeOK, RefreshRecords
<1>2. CASE ServeRefresh
  <2>1. CASE /\ RefreshValid(refresh.tokens)
             /\ refresh' = [refresh EXCEPT !.at = "ok", !.tokens = Minted(refresh.tokens.account)]
    <3>1. Minted(refresh.tokens.account) \in Tokens
      BY <1>1, <2>1, TokenFacts DEF RefreshValid
    <3>2. Minted(refresh.tokens.account) \in Stored
      BY <3>1 DEF Stored
    <3>3. refresh' \in RefreshRecords /\ refresh'.at = "ok" /\ refresh'.tokens \in Tokens
      BY <1>1, <2>1, <3>1, <3>2 DEF RefreshRecords
    <3> QED
      BY <1>2, <3>3 DEF ServeRefresh, TypeOK, ShapeInv, client, Tokens
  <2>2. CASE refresh' = [refresh EXCEPT !.at = "failed", !.tokens = NoToken]
    <3>1. refresh' \in RefreshRecords /\ refresh'.at = "failed"
      BY <1>1, <2>2 DEF RefreshRecords, Stored
    <3> QED
      BY <1>2, <3>1 DEF ServeRefresh, TypeOK, ShapeInv, client, Tokens
  <2> QED
    BY <1>2, <2>1, <2>2 DEF ServeRefresh
<1>3. CASE RefreshDone
  <2>1. refresh.tokens \in Stored /\ Replay(Hanging, refresh.tokens)
    BY <1>1, <1>3 DEF RefreshDone
  <2>2. TypeOK'
    BY <1>3, <2>1, ReplayFacts, BlankType DEF RefreshDone, TypeOK
  <2>3. ASSUME NEW q \in Requests
        PROVE  /\ at'[q] = "idle" => req'[q] = Blank
               /\ req'[q].kind \in {"switch", "login"} =>
                     req'[q].goal \in Accounts /\ (at'[q] = "ok" => req'[q].tokens \in Tokens)
    BY <2>1, ReplayFacts DEF ShapeInv
  <2> QED
    BY <1>3, <2>2, <2>3 DEF RefreshDone, ShapeInv, NoRefresh, Tokens
<1>4. CASE RefreshFailed
  <2>1. /\ signedIn' \in BOOLEAN /\ context' \in Accounts \cup {NoAccount}
        /\ page' \in {"app", "auth", "leaving"}
    BY <1>4 DEF RefreshFailed, TypeOK
  <2>2. Settled(Hanging, {})
    BY <1>4 DEF RefreshFailed
  <2>3. TypeOK'
    BY <1>4, <2>1, <2>2, SettledFacts, BlankType DEF RefreshFailed, TypeOK
  <2> QED
    BY <1>4, <2>2, <2>3, SettledShape DEF RefreshFailed, ShapeInv, NoRefresh, Tokens
<1> QED
  BY <1>2, <1>3, <1>4

LEMMA PageShape ==
  ASSUME TypeOK, ShapeInv, Reload \/ EnterApp \/ Logout \/ Elsewhere \/ Tick
  PROVE  TypeOK' /\ ShapeInv'
<1>1. CASE Reload
  <2>1. PICK r \in Requests :
           /\ at' = [q \in Requests |-> IF q = r THEN "sent" ELSE "idle"]
           /\ req' = [q \in Requests |-> IF q = r THEN Check(r) ELSE Blank]
    BY <1>1 DEF Reload
  <2>2. TypeOK'
    BY <1>1, <2>1, CheckFacts, BlankType DEF Reload, TypeOK, Places
  <2>3. ShapeInv'
    BY <1>1, <2>1, CheckFacts DEF Reload, ShapeInv, Blank, NoRefresh
  <2> QED
    BY <2>2, <2>3
<1>2. CASE EnterApp
  BY <1>2 DEF EnterApp, TypeOK, ShapeInv, queue, Tokens
<1>3. CASE Logout
  <2>1. Settled({}, Requests) /\ mixed' \in BOOLEAN
    BY <1>3 DEF Logout, Overtaken, TypeOK
  <2> QED
    BY <1>3, <2>1, SettledFacts, SettledShape DEF Logout, SignedOut, TypeOK, ShapeInv, queue, Tokens, Stored
<1>4. CASE Elsewhere
  <2>1. storage' \in Stored
    BY <1>4, TokenFacts DEF Elsewhere, Stored
  <2> QED
    BY <1>4, <2>1 DEF Elsewhere, TypeOK, ShapeInv, queue, Tokens
<1>5. CASE Tick
  BY <1>5, TimeAssumption DEF Tick, TypeOK, ShapeInv, client, queue, Tokens
<1> QED
  BY <1>1, <1>2, <1>3, <1>4, <1>5

LEMMA StutterShape ==
  ASSUME TypeOK, ShapeInv, UNCHANGED vars
  PROVE  TypeOK' /\ ShapeInv'
  BY DEF TypeOK, ShapeInv, vars, client, queue, Tokens

LEMMA NextShape ==
  ASSUME TypeOK, ShapeInv, [Next]_vars
  PROVE  TypeOK' /\ ShapeInv'
<1>1. ASSUME NEW r \in Requests, SendCall(r)
      PROVE  TypeOK' /\ ShapeInv'
  BY <1>1, SendShape DEF SendCall
<1>2. ASSUME NEW r \in Requests, NEW a \in Accounts, SendSwitch(r, a) \/ SendLogin(r, a)
      PROVE  TypeOK' /\ ShapeInv'
  BY <1>2, SendShape DEF SendSwitch, SendLogin
<1> QED
  BY <1>1, <1>2, ServeShape, ReceiveShape, RefreshShape, PageShape, StutterShape DEF Next

\* The type of every variable, for every instance.
THEOREM TypeCorrect == Spec => []TypeOK
<1>1. TypeOK /\ ShapeInv /\ [Next]_vars => (TypeOK /\ ShapeInv)'
  BY NextShape
<1> QED
  BY <1>1, InitShape, PTL DEF Spec

-----------------------------------------------------------------------------
(* The refresh and its queue.                                                 *)

\* A step that parks and unparks nobody leaves the queue in order.
LEMMA RefreshFrame ==
  ASSUME RefreshInv, UNCHANGED queue,
         \A q \in Requests : /\ at'[q] = "parked" <=> at[q] = "parked"
                             /\ at'[q] = "refreshing" <=> at[q] = "refreshing"
  PROVE  RefreshInv'
  BY DEF RefreshInv, queue

LEMMA InitRefresh == Init => RefreshInv
<1> SUFFICES ASSUME Init PROVE RefreshInv
  OBVIOUS
<1>1. \A q \in Requests : at[q] \in {"sent", "idle"}
  BY DEF Init
<1>2. failedQueue = {} /\ isRefreshing = FALSE /\ refresh.at = "none"
  BY DEF Init, NoRefresh
<1> QED
  BY <1>1, <1>2 DEF RefreshInv

LEMMA SendRefresh ==
  ASSUME TypeOK, RefreshInv, NEW r \in Requests, NEW what \in {"call", "switch", "login"},
         NEW a \in Accounts \cup {NoAccount}, Send(r, what, a)
  PROVE  RefreshInv'
<1>1. \A q \in Requests : /\ at'[q] = "parked" <=> at[q] = "parked"
                          /\ at'[q] = "refreshing" <=> at[q] = "refreshing"
  BY SendFacts
<1>2. UNCHANGED queue
  BY SendFacts DEF queue
<1> QED
  BY <1>1, <1>2, RefreshFrame

\* What is answered or over was not waiting.
LEMMA SettledRefresh ==
  ASSUME TypeOK, RefreshInv, NEW S, NEW W, Settled(S, W), UNCHANGED queue,
         \A q \in S : at[q] \notin {"parked", "refreshing"}
  PROVE  RefreshInv'
<1>1. ASSUME NEW q \in Requests
      PROVE  /\ at'[q] = "parked" <=> at[q] = "parked"
             /\ at'[q] = "refreshing" <=> at[q] = "refreshing"
  BY SettledFacts
<1> QED
  BY <1>1, RefreshFrame

LEMMA RequestRefresh ==
  ASSUME TypeOK, RefreshInv, NEW r \in Requests,
         Accept(r) \/ SayExpired(r) \/ Fail(r) \/ Receive(r)
  PROVE  RefreshInv'
<1>1. CASE Accept(r) \/ SayExpired(r) \/ Fail(r)
  <2>1. /\ at[r] = "sent" /\ UNCHANGED queue
        /\ \E p \in {"ok", "expired", "failed"} : at' = [at EXCEPT ![r] = p]
    BY <1>1 DEF Accept, SayExpired, Fail
  <2>2. \A q \in Requests : /\ at'[q] = "parked" <=> at[q] = "parked"
                            /\ at'[q] = "refreshing" <=> at[q] = "refreshing"
    BY <2>1 DEF TypeOK
  <2> QED
    BY <2>1, <2>2, RefreshFrame
<1>2. CASE ReceiveCall(r) \/ ReceiveSwitch(r) \/ ReceiveLogin(r) \/ ReceiveCheck(r) \/ ReceiveFailure(r)
  <2>1. /\ Settled({r}, {}) \/ Settled({r}, Requests)
        /\ at[r] \in {"ok", "failed", "expired"} /\ UNCHANGED queue
    BY <1>2 DEF ReceiveCall, ReceiveSwitch, ReceiveLogin, ReceiveCheck, ReceiveFailure
  <2> QED
    BY <2>1, SettledRefresh
<1>3. CASE Park(r)
  BY <1>3 DEF Park, TypeOK, RefreshInv
<1>4. CASE StartRefresh(r)
  BY <1>4 DEF StartRefresh, TypeOK, RefreshInv
<1> QED
  BY <1>1, <1>2, <1>3, <1>4 DEF Receive

LEMMA AnswerRefresh ==
  ASSUME TypeOK, RefreshInv, ServeRefresh \/ RefreshDone \/ RefreshFailed
  PROVE  RefreshInv'
<1>1. refresh \in RefreshRecords /\ refresh.tokens \in Stored
  BY DEF TypeOK, RefreshRecords
<1>2. CASE ServeRefresh
  <2>1. refresh.at = "sent" /\ refresh'.at \in {"ok", "failed"}
    BY <1>1, <1>2 DEF ServeRefresh, RefreshRecords
  <2> QED
    BY <1>2, <2>1 DEF ServeRefresh, RefreshInv
<1>3. CASE RefreshDone \/ RefreshFailed
  <2>1. failedQueue' = {} /\ isRefreshing' = FALSE /\ refresh'.at = "none"
    BY <1>3 DEF RefreshDone, RefreshFailed, NoRefresh
  <2>2. \A q \in Requests : at[q] \in {"parked", "refreshing"} => q \in Hanging
    BY DEF RefreshInv, Hanging
  <2>3. \A q \in Requests : at'[q] \notin {"parked", "refreshing"}
    <3>1. CASE RefreshDone
      BY <1>1, <2>2, <3>1, ReplayFacts DEF RefreshDone
    <3>2. CASE RefreshFailed
      BY <2>2, <3>2, SettledFacts DEF RefreshFailed
    <3> QED
      BY <1>3, <3>1, <3>2
  <2> QED
    BY <2>1, <2>3 DEF RefreshInv
<1> QED
  BY <1>2, <1>3

LEMMA PageRefresh ==
  ASSUME TypeOK, RefreshInv, Reload \/ EnterApp \/ Logout \/ Elsewhere \/ Tick
  PROVE  RefreshInv'
<1>1. CASE Reload
  BY <1>1 DEF Reload, RefreshInv, NoRefresh
<1>2. CASE Logout
  BY <1>2, SettledRefresh DEF Logout
<1>3. CASE EnterApp \/ Elsewhere \/ Tick
  BY <1>3 DEF EnterApp, Elsewhere, Tick, RefreshInv, queue
<1> QED
  BY <1>1, <1>2, <1>3

LEMMA NextRefresh ==
  ASSUME TypeOK, RefreshInv, [Next]_vars
  PROVE  RefreshInv'
<1>1. ASSUME NEW r \in Requests, SendCall(r)
      PROVE  RefreshInv'
  BY <1>1, SendRefresh DEF SendCall
<1>2. ASSUME NEW r \in Requests, NEW a \in Accounts, SendSwitch(r, a) \/ SendLogin(r, a)
      PROVE  RefreshInv'
  BY <1>2, SendRefresh DEF SendSwitch, SendLogin
<1>3. CASE UNCHANGED vars
  BY <1>3 DEF RefreshInv, vars, queue
<1> QED
  BY <1>1, <1>2, <1>3, RequestRefresh, AnswerRefresh, PageRefresh DEF Next

\* Refreshes never overlap and the queue holds exactly who waits for one.
THEOREM RefreshesDoNotOverlap == Spec => []RefreshInv
<1>1. Init => TypeOK /\ ShapeInv /\ RefreshInv
  BY InitShape, InitRefresh
<1>2. TypeOK /\ ShapeInv /\ RefreshInv /\ [Next]_vars => (TypeOK /\ ShapeInv /\ RefreshInv)'
  BY NextShape, NextRefresh
<1> QED
  BY <1>1, <1>2, PTL DEF Spec

-----------------------------------------------------------------------------
(* What the page holds is of one account.                                     *)

\* What AccountInv and CheckInv say of one request, in the given account.
Own(r, account) ==
    /\ req[r].kind = "check" /\ req[r].tokens # NoToken => AccountOf(req[r].tokens) = account
    /\ req[r].kind = "call" /\ ~req[r].crossed =>
          req[r].shown = account /\ (at[r] = "sent" => AccountOf(req[r].tokens) = req[r].shown)

LEMMA AccountParts ==
  AccountInv <=>
    (~mixed => /\ signedIn => AccountOf(storage) = context
               /\ refresh.tokens # NoToken => AccountOf(refresh.tokens) = AccountOf(storage)
               /\ \A r \in Requests : Own(r, AccountOf(storage)))
  BY DEF AccountInv, Own

SideInv == CheckInv /\ AccountInv

LEMMA InitSide == Init => SideInv
<1> SUFFICES ASSUME Init PROVE SideInv
  OBVIOUS
<1>1. PICK r \in Requests :
         /\ at = [q \in Requests |-> IF q = r THEN "sent" ELSE "idle"]
         /\ req = [q \in Requests |-> IF q = r THEN Check(r) ELSE Blank]
  BY DEF Init
<1>2. /\ TypeOK /\ Blank.kind = "none" /\ NoRefresh.tokens = NoToken
      /\ Check(r).kind = "check" /\ Check(r).tokens = storage
  BY InitShape, CheckFacts DEF Blank, NoRefresh
<1>3. CheckInv
  BY <1>1, <1>2 DEF Init, CheckInv
<1>4. AccountInv
  BY <1>1, <1>2 DEF Init, AccountInv
<1> QED
  BY <1>3, <1>4 DEF SideInv

LEMMA SendSide ==
  ASSUME TypeOK, ShapeInv, SideInv, NEW r \in Requests,
         SendCall(r) \/ \E a \in Accounts : SendSwitch(r, a) \/ SendLogin(r, a)
  PROVE  SideInv'
<1>1. PICK what \in {"call", "switch", "login"}, b \in Accounts \cup {NoAccount} :
         Send(r, what, b) /\ (what = "call" => signedIn) /\ \A q \in Requests : req[q].kind # "check"
  <2>1. signedIn => \A q \in Requests : req[q].kind # "check"
    BY DEF SideInv, CheckInv
  <2> QED
    BY <2>1 DEF SendCall, SendSwitch, SendLogin
<1>2. /\ req'[r].kind = what /\ req'[r].tokens = storage /\ (what = "call" => req'[r].shown = context)
      /\ \A q \in Requests \ {r} : at'[q] = at[q] /\ req'[q] = req[q]
      /\ UNCHANGED <<storage, signedIn, context, mixed, refresh>>
  BY <1>1, SendFacts
<1>3. CheckInv'
  BY <1>1, <1>2 DEF CheckInv
<1>4. ASSUME ~mixed', NEW q \in Requests
      PROVE  Own(q, AccountOf(storage))'
  <2>1. CASE q = r
    BY <1>1, <1>2, <1>4, <2>1, AccountParts DEF SideInv, Own, AccountInv
  <2>2. CASE q # r
    BY <1>2, <1>4, <2>2, AccountParts DEF SideInv, Own
  <2> QED
    BY <2>1, <2>2
<1>5. AccountInv'
  BY <1>2, <1>4, AccountParts DEF SideInv, AccountInv, Own, AccountOf
<1> QED
  BY <1>3, <1>5 DEF SideInv

\* A step of one request on the server: it may lose its tokens, and only the
\* answer to a switch or a login has other ones.
LEMMA ServeSide ==
  ASSUME TypeOK, ShapeInv, SideInv, NEW r \in Requests, Accept(r) \/ SayExpired(r) \/ Fail(r)
  PROVE  SideInv'
<1>1. /\ at[r] = "sent" /\ UNCHANGED <<storage, signedIn, context, mixed, refresh>>
      /\ \E p \in {"ok", "expired", "failed"} : at' = [at EXCEPT ![r] = p]
  BY DEF Accept, SayExpired, Fail, client, queue
<1>2. PICK t : /\ req' = [req EXCEPT ![r].tokens = t]
               /\ req[r].kind = "check" => t \in {req[r].tokens, NoToken}
  BY DEF Accept, SayExpired, Fail
<1>3. /\ at'[r] # "sent" /\ at'[r] # "idle"
      /\ req'[r].kind = req[r].kind /\ req'[r].crossed = req[r].crossed /\ req'[r].shown = req[r].shown
      /\ req[r].kind = "check" => req'[r].tokens \in {req[r].tokens, NoToken}
      /\ \A q \in Requests \ {r} : at'[q] = at[q] /\ req'[q] = req[q]
  BY <1>1, <1>2 DEF TypeOK, RequestRecords
<1>4. CheckInv'
  BY <1>1, <1>3 DEF SideInv, CheckInv
<1>5. ASSUME ~mixed', NEW q \in Requests
      PROVE  Own(q, AccountOf(storage))'
  <2>1. CASE q = r
    BY <1>1, <1>3, <1>5, <2>1, AccountParts DEF SideInv, Own
  <2>2. CASE q # r
    BY <1>1, <1>3, <1>5, <2>2, AccountParts DEF SideInv, Own
  <2> QED
    BY <2>1, <2>2
<1>6. AccountInv'
  BY <1>1, <1>5, AccountParts DEF SideInv, AccountInv, Own, AccountOf
<1> QED
  BY <1>4, <1>6 DEF SideInv

\* A step that settles requests: what goes on is of the same account, or every
\* call that goes on is marked.
LEMMA SettledSide ==
  ASSUME TypeOK, ShapeInv, SideInv, NEW S, NEW W, Settled(S, W),
         signedIn' => signedIn \/ \A q \in Requests : req[q].kind = "check" => q \in S,
         ~mixed' => /\ signedIn' => AccountOf(storage') = context'
                    /\ refresh'.tokens # NoToken => AccountOf(refresh'.tokens) = AccountOf(storage')
                    /\ \/ ~mixed /\ AccountOf(storage') = AccountOf(storage)
                       \/ Requests \subseteq W /\ \A q \in Requests : req[q].kind = "check" => q \in S
  PROVE  SideInv'
<1>1. Blank.kind = "none"
  BY DEF Blank
<1>2. CheckInv'
  <2> SUFFICES ASSUME NEW q \in Requests, req'[q].kind = "check"
               PROVE  ~signedIn' /\ \A p \in Requests \ {q} : at'[p] = "idle"
    BY DEF CheckInv
  <2>1. q \notin S /\ req[q].kind = "check"
    BY <1>1, SettledFacts
  <2>2. ~signedIn /\ \A p \in Requests \ {q} : at[p] = "idle"
    BY <2>1 DEF SideInv, CheckInv
  <2> QED
    BY <2>1, <2>2, SettledFacts
<1>3. ASSUME ~mixed', NEW q \in Requests
      PROVE  /\ req'[q].kind = "check" /\ req'[q].tokens # NoToken
                   => AccountOf(req'[q].tokens) = AccountOf(storage')
             /\ req'[q].kind = "call" /\ ~req'[q].crossed =>
                   /\ req'[q].shown = AccountOf(storage')
                   /\ at'[q] = "sent" => AccountOf(req'[q].tokens) = req'[q].shown
  <2>1. CASE q \in S
    BY <1>1, <2>1, SettledFacts
  <2>2. CASE q \notin S
    <3>1. CASE ~mixed /\ AccountOf(storage') = AccountOf(storage)
      BY <2>2, <3>1, SettledFacts DEF SideInv, AccountInv
    <3>2. CASE Requests \subseteq W /\ \A p \in Requests : req[p].kind = "check" => p \in S
      BY <2>2, <3>2, SettledFacts
    <3> QED
      BY <1>3, <3>1, <3>2
  <2> QED
    BY <2>1, <2>2
<1>4. AccountInv'
  BY <1>3 DEF AccountInv, AccountOf
<1> QED
  BY <1>2, <1>4 DEF SideInv

LEMMA ReceiveSide ==
  ASSUME TypeOK, ShapeInv, SideInv, NEW r \in Requests, Receive(r)
  PROVE  SideInv'
<1>1. at[r] # "idle"
  BY DEF Receive, ReceiveCall, ReceiveSwitch, ReceiveLogin, ReceiveCheck, ReceiveFailure, Park, StartRefresh
<1>2. \A q \in Requests \ {r} : req[q].kind # "check"
  BY <1>1 DEF SideInv, CheckInv
<1>3. CASE ReceiveCall(r)
  BY <1>3, SettledSide DEF ReceiveCall, client, queue, SideInv, AccountInv
<1>4. CASE ReceiveSwitch(r) \/ ReceiveLogin(r)
  <2>3. refresh.at = "none" => refresh.tokens = NoToken
    BY DEF ShapeInv, NoRefresh
  <2>4. /\ Settled({r}, Requests) /\ storage' = req[r].tokens /\ context' = req[r].tokens.account
        /\ ~mixed' => refresh.at = "none" /\ refresh' = refresh
        /\ req[r].kind \in {"switch", "login"} /\ at[r] = "ok"
    BY <1>4 DEF ReceiveSwitch, ReceiveLogin, Overtaken, queue
  <2>1. /\ Settled({r}, Requests) /\ storage' = req[r].tokens /\ context' = req[r].tokens.account
        /\ ~mixed' => refresh'.tokens = NoToken
        /\ req[r].tokens \in Tokens
        /\ \A q \in Requests : req[q].kind # "check"
    BY <1>2, <2>3, <2>4 DEF ShapeInv
  <2>2. AccountOf(storage') = context'
    BY <2>1, TokenFacts
  <2> QED
    BY <2>1, <2>2, SettledSide
<1>5. CASE ReceiveCheck(r)
  <2>1. /\ Settled({r}, {}) /\ UNCHANGED <<storage, mixed, refresh>>
        /\ signedIn' => req[r].tokens # NoToken /\ context' = req[r].tokens.account
        /\ req[r].kind = "check"
    BY <1>5 DEF ReceiveCheck, SignedOut, queue
  <2>2. req[r].tokens # NoToken => AccountOf(req[r].tokens) = req[r].tokens.account
    BY DEF AccountOf
  <2>3. ~mixed' => (signedIn' => AccountOf(storage') = context')
    BY <2>1, <2>2 DEF SideInv, AccountInv
  <2>4. ~mixed' => (refresh'.tokens # NoToken => AccountOf(refresh'.tokens) = AccountOf(storage'))
    BY <2>1 DEF SideInv, AccountInv
  <2>5. \A q \in Requests : req[q].kind = "check" => q \in {r}
    BY <1>2
  <2> QED
    BY <2>1, <2>3, <2>4, <2>5, SettledSide
<1>6. CASE ReceiveFailure(r)
  <2>1. /\ Settled({r}, {}) /\ UNCHANGED <<storage, mixed, refresh>>
        /\ signedIn' => signedIn /\ context' = context
    BY <1>6 DEF ReceiveFailure, SignedOut, queue
  <2> QED
    BY <2>1, SettledSide DEF SideInv, AccountInv
<1>7. CASE Park(r)
  <2>1. /\ at' = [at EXCEPT ![r] = "parked"]
        /\ UNCHANGED <<storage, signedIn, context, mixed, refresh, req>>
    BY <1>7 DEF Park, client
  <2>2. CheckInv'
    BY <1>1, <2>1 DEF SideInv, CheckInv, TypeOK
  <2>3. AccountInv'
    BY <2>1 DEF SideInv, AccountInv, TypeOK, AccountOf
  <2> QED
    BY <2>2, <2>3 DEF SideInv
<1>8. CASE StartRefresh(r)
  <2>1. /\ at' = [at EXCEPT ![r] = "refreshing"] /\ refresh'.tokens = storage
        /\ UNCHANGED <<storage, signedIn, context, mixed, req>>
    BY <1>8 DEF StartRefresh, client
  <2>2. CheckInv'
    BY <1>1, <2>1 DEF SideInv, CheckInv, TypeOK
  <2>3. AccountInv'
    BY <2>1 DEF SideInv, AccountInv, TypeOK, AccountOf
  <2> QED
    BY <2>2, <2>3 DEF SideInv
<1> QED
  BY <1>3, <1>4, <1>5, <1>6, <1>7, <1>8 DEF Receive

LEMMA RefreshSide ==
  ASSUME TypeOK, ShapeInv, RefreshInv, SideInv, ServeRefresh \/ RefreshDone \/ RefreshFailed
  PROVE  SideInv'
<1>1. refresh \in RefreshRecords /\ refresh.tokens \in Stored
  BY DEF TypeOK, RefreshRecords
<1>2. CASE ServeRefresh
  <2>1. refresh'.tokens # NoToken => AccountOf(refresh'.tokens) = AccountOf(refresh.tokens) /\ refresh.tokens # NoToken
    <3>1. CASE /\ RefreshValid(refresh.tokens)
               /\ refresh' = [refresh EXCEPT !.at = "ok", !.tokens = Minted(refresh.tokens.account)]
      <4>1. refresh'.tokens = Minted(refresh.tokens.account) /\ refresh.tokens \in Tokens
        BY <1>1, <3>1, TokenFacts DEF RefreshRecords, RefreshValid
      <4> QED
        BY <4>1, TokenFacts
    <3>2. CASE refresh' = [refresh EXCEPT !.at = "failed", !.tokens = NoToken]
      BY <1>1, <3>2 DEF RefreshRecords
    <3> QED
      BY <1>2, <3>1, <3>2 DEF ServeRefresh
  <2>2. UNCHANGED <<storage, signedIn, context, mixed, at, req>>
    BY <1>2 DEF ServeRefresh, client
  <2>3. CheckInv'
    BY <2>2 DEF SideInv, CheckInv
  <2>4. AccountInv'
    BY <2>1, <2>2 DEF SideInv, AccountInv, AccountOf
  <2> QED
    BY <2>3, <2>4 DEF SideInv
<1>3. CASE RefreshDone
  <2>1. /\ refresh.tokens \in Tokens /\ storage' = refresh.tokens /\ Replay(Hanging, refresh.tokens)
        /\ refresh'.tokens = NoToken /\ UNCHANGED <<signedIn, context, mixed>>
    BY <1>3 DEF RefreshDone, ShapeInv, NoRefresh
  <2>2. refresh.tokens # NoToken /\ refresh.tokens \in Stored
    BY <2>1, TokenFacts
  <2>3. ~mixed => AccountOf(storage') = AccountOf(storage)
    BY <2>1, <2>2 DEF SideInv, AccountInv
  <2>4. \A q \in Hanging : q \in Requests
    BY DEF Hanging, TypeOK
  <2>5. \A q \in Hanging : at[q] # "idle"
    BY DEF Hanging, RefreshInv
  <2>6. CheckInv'
    BY <2>1, <2>2, <2>5, ReplayFacts DEF SideInv, CheckInv
  <2>7. ASSUME ~mixed', NEW q \in Requests
        PROVE  /\ req'[q].kind = "check" /\ req'[q].tokens # NoToken
                     => AccountOf(req'[q].tokens) = AccountOf(storage')
               /\ req'[q].kind = "call" /\ ~req'[q].crossed =>
                     /\ req'[q].shown = AccountOf(storage')
                     /\ at'[q] = "sent" => AccountOf(req'[q].tokens) = req'[q].shown
    <3>1. CASE q \in Hanging
      BY <2>1, <2>2, <2>3, <2>7, <3>1, ReplayFacts DEF SideInv, AccountInv
    <3>2. CASE q \notin Hanging
      BY <2>1, <2>2, <2>3, <2>7, <3>2, ReplayFacts DEF SideInv, AccountInv
    <3> QED
      BY <3>1, <3>2
  <2>8. AccountInv'
    BY <2>1, <2>3, <2>7 DEF SideInv, AccountInv, AccountOf
  <2> QED
    BY <2>6, <2>8 DEF SideInv
<1>4. CASE RefreshFailed
  <2>1. /\ Settled(Hanging, {}) /\ refresh'.tokens = NoToken /\ UNCHANGED <<storage, mixed>>
        /\ signedIn' => signedIn /\ context' = context
    BY <1>4 DEF RefreshFailed, NoRefresh
  <2> QED
    BY <2>1, SettledSide DEF SideInv, AccountInv
<1> QED
  BY <1>2, <1>3, <1>4

LEMMA PageSide ==
  ASSUME TypeOK, ShapeInv, SideInv, Reload \/ EnterApp \/ Logout \/ Elsewhere \/ Tick
  PROVE  SideInv'
<1>1. CASE Reload
  <2>1. PICK r \in Requests :
           /\ at' = [q \in Requests |-> IF q = r THEN "sent" ELSE "idle"]
           /\ req' = [q \in Requests |-> IF q = r THEN Check(r) ELSE Blank]
    BY <1>1 DEF Reload
  <2>2. Blank.kind = "none" /\ NoRefresh.tokens = NoToken
    BY DEF Blank, NoRefresh
  <2>3. CheckInv'
    BY <1>1, <2>1, <2>2, CheckFacts DEF Reload, CheckInv
  <2>4. AccountInv'
    BY <1>1, <2>1, <2>2, CheckFacts DEF Reload, AccountInv, AccountOf
  <2> QED
    BY <2>3, <2>4 DEF SideInv
<1>2. CASE EnterApp \/ Tick
  <2>1. UNCHANGED <<storage, signedIn, context, mixed, refresh, at, req>>
    BY <1>2 DEF EnterApp, Tick, client, queue
  <2> QED
    BY <2>1 DEF SideInv, CheckInv, AccountInv, AccountOf
<1>3. CASE Logout
  <2>1. refresh.at = "none" => refresh.tokens = NoToken
    BY DEF ShapeInv, NoRefresh
  <2>2. \A q \in Requests : req[q].kind # "check"
    BY <1>3 DEF Logout, SideInv, CheckInv
  <2>3. /\ Settled({}, Requests) /\ signedIn' = FALSE /\ refresh' = refresh
        /\ ~mixed' => refresh.at = "none"
    BY <1>3 DEF Logout, SignedOut, Overtaken, queue
  <2> QED
    BY <2>1, <2>2, <2>3, SettledSide
<1>4. CASE Elsewhere
  BY <1>4 DEF Elsewhere, SideInv, CheckInv, AccountInv
<1> QED
  BY <1>1, <1>2, <1>3, <1>4

LEMMA NextSide ==
  ASSUME TypeOK, ShapeInv, RefreshInv, SideInv, [Next]_vars
  PROVE  SideInv'
<1>1. CASE UNCHANGED vars
  BY <1>1 DEF vars, client, queue, SideInv, CheckInv, AccountInv, AccountOf
<1> QED
  BY <1>1, SendSide, ServeSide, ReceiveSide, RefreshSide, PageSide DEF Next

-----------------------------------------------------------------------------
(* The age of what is sent again.                                             *)

\* What ReplayInv says of one request, and of the refresh.
Fresh(r) ==
    req[r].replayed /\ at[r] = "sent" => req[r].tokens \in Tokens /\ req[r].sentAt <= req[r].tokens.made + 1
RefreshAge ==
    /\ refresh.at # "none" => refresh.sentAt <= now /\ now <= refresh.sentAt + 1
    /\ refresh.at = "ok" => refresh.sentAt <= refresh.tokens.made

LEMMA ReplayParts == ReplayInv <=> RefreshAge /\ \A r \in Requests : Fresh(r)
  BY DEF ReplayInv, RefreshAge, Fresh

LEMMA SettledFresh ==
  ASSUME TypeOK, ReplayInv, NEW S, NEW W, Settled(S, W)
  PROVE  \A q \in Requests : Fresh(q)'
<1> SUFFICES ASSUME NEW q \in Requests, req'[q].replayed, at'[q] = "sent"
             PROVE  req'[q].tokens \in Tokens /\ req'[q].sentAt <= req'[q].tokens.made + 1
  BY DEF Fresh, Tokens
<1>1. q \notin S
  BY SettledFacts
<1> QED
  BY <1>1, SettledFacts DEF ReplayInv

\* The age of the refresh and of the requests after each action.
LEMMA NextAge ==
  ASSUME TypeOK, ShapeInv, RefreshAge, [Next]_vars
  PROVE  RefreshAge'
<1> USE DEF RefreshAge
<1>0. /\ refresh \in RefreshRecords /\ refresh.tokens \in Stored
      /\ now \in Nat /\ refresh.sentAt \in Nat
  BY TimeAssumption DEF TypeOK, RefreshRecords
<1>1. ASSUME NEW r \in Requests, NEW a \in Accounts,
             SendCall(r) \/ SendSwitch(r, a) \/ SendLogin(r, a)
      PROVE  RefreshAge'
  BY <1>1 DEF SendCall, SendSwitch, SendLogin, Send, queue
<1>2. ASSUME NEW r \in Requests, SendCall(r) \/ Accept(r) \/ SayExpired(r) \/ Fail(r)
      PROVE  RefreshAge'
  BY <1>2 DEF SendCall, Send, Accept, SayExpired, Fail, queue
<1>3. ASSUME NEW r \in Requests, Receive(r)
      PROVE  RefreshAge'
  <2>1. CASE StartRefresh(r)
    BY <1>0, <2>1 DEF StartRefresh
  <2>2. CASE ~StartRefresh(r)
    BY <1>3, <2>2 DEF Receive, ReceiveCall, ReceiveSwitch, ReceiveLogin, ReceiveCheck, ReceiveFailure, Park, queue
  <2> QED
    BY <2>1, <2>2
<1>4. CASE ServeRefresh
  <2>1. CASE /\ RefreshValid(refresh.tokens)
             /\ refresh' = [refresh EXCEPT !.at = "ok", !.tokens = Minted(refresh.tokens.account)]
    <3>1. refresh.tokens \in Tokens
      BY <1>0, <2>1, TokenFacts DEF RefreshValid
    <3>2. Minted(refresh.tokens.account).made = now
      BY DEF Minted
    <3>3. /\ refresh'.at = "ok" /\ refresh'.sentAt = refresh.sentAt
          /\ refresh'.tokens = Minted(refresh.tokens.account)
      BY <1>0, <2>1 DEF RefreshRecords
    <3> QED
      BY <1>0, <1>4, <3>2, <3>3 DEF ServeRefresh
  <2>2. CASE refresh' = [refresh EXCEPT !.at = "failed", !.tokens = NoToken]
    <3>1. refresh'.at = "failed" /\ refresh'.sentAt = refresh.sentAt
      BY <1>0, <2>2 DEF RefreshRecords
    <3> QED
      BY <1>4, <3>1 DEF ServeRefresh
  <2> QED
    BY <1>4, <2>1, <2>2 DEF ServeRefresh
<1>5. CASE RefreshDone \/ RefreshFailed \/ Reload
  BY <1>5 DEF RefreshDone, RefreshFailed, Reload, NoRefresh
<1>6. CASE Tick
  BY <1>0, <1>6 DEF Tick, queue
<1>7. CASE EnterApp \/ Logout \/ Elsewhere \/ UNCHANGED vars
  BY <1>7 DEF EnterApp, Logout, Elsewhere, vars, queue
<1> QED
  BY <1>1, <1>2, <1>3, <1>4, <1>5, <1>6, <1>7 DEF Next

LEMMA NextFresh ==
  ASSUME TypeOK, ShapeInv, ReplayInv, [Next]_vars, NEW q \in Requests
  PROVE  Fresh(q)'
<1>0. Fresh(q)
  BY ReplayParts
<1>1. ASSUME NEW r \in Requests, SendCall(r) \/ \E a \in Accounts : SendSwitch(r, a) \/ SendLogin(r, a)
      PROVE  Fresh(q)'
  <2>1. PICK what \in {"call", "switch", "login"}, b \in Accounts \cup {NoAccount} : Send(r, what, b)
    BY <1>1 DEF SendCall, SendSwitch, SendLogin
  <2>2. CASE q = r
    BY <2>1, <2>2, SendFacts DEF Fresh
  <2>3. CASE q # r
    BY <1>0, <2>1, <2>3, SendFacts DEF Fresh, Tokens
  <2> QED
    BY <2>2, <2>3
<1>2. ASSUME NEW r \in Requests, Accept(r) \/ SayExpired(r) \/ Fail(r)
      PROVE  Fresh(q)'
  <2>1. PICK p \in {"ok", "expired", "failed"} :
          \E t : at' = [at EXCEPT ![r] = p] /\ req' = [req EXCEPT ![r].tokens = t]
    BY <1>2 DEF Accept, SayExpired, Fail
  <2>2. PICK t : at' = [at EXCEPT ![r] = p] /\ req' = [req EXCEPT ![r].tokens = t]
    BY <2>1
  <2> QED
    BY <1>0, <2>2 DEF Fresh, TypeOK, Tokens
<1>3. ASSUME NEW r \in Requests, Receive(r)
      PROVE  Fresh(q)'
  <2>1. CASE Park(r) \/ StartRefresh(r)
    BY <1>0, <2>1 DEF Park, StartRefresh, Fresh, TypeOK, Tokens
  <2>2. CASE ~(Park(r) \/ StartRefresh(r))
    <3>1. Settled({r}, {}) \/ Settled({r}, Requests)
      BY <1>3, <2>2 DEF Receive, ReceiveCall, ReceiveSwitch, ReceiveLogin, ReceiveCheck, ReceiveFailure
    <3> QED
      BY <3>1, SettledFresh
  <2> QED
    BY <2>1, <2>2
<1>4. CASE RefreshDone
  <2>1. refresh.tokens \in Tokens /\ refresh.tokens \in Stored /\ Replay(Hanging, refresh.tokens)
    BY <1>4, TokenFacts DEF RefreshDone, ShapeInv
  <2>2. now <= refresh.tokens.made + 1
    <3>1. refresh.sentAt \in Nat /\ now \in Nat /\ refresh.tokens.made \in Nat
      BY <2>1, TimeAssumption DEF TypeOK, RefreshRecords, Tokens
    <3> QED
      BY <1>4, <3>1 DEF RefreshDone, ReplayInv
  <2>3. CASE q \in Hanging
    BY <2>1, <2>2, <2>3, ReplayFacts DEF Fresh, Tokens
  <2>4. CASE q \notin Hanging
    BY <1>0, <2>1, <2>4, ReplayFacts DEF Fresh, Tokens
  <2> QED
    BY <2>3, <2>4
<1>5. CASE RefreshFailed
  BY <1>5, SettledFresh DEF RefreshFailed
<1>6. CASE Reload
  <2>1. Blank.replayed = FALSE
    BY DEF Blank
  <2>2. ~req'[q].replayed
    BY <1>6, <2>1, CheckFacts DEF Reload
  <2> QED
    BY <2>2 DEF Fresh
<1>7. CASE Logout
  BY <1>7, SettledFresh DEF Logout
<1>8. CASE ServeRefresh \/ EnterApp \/ Elsewhere \/ Tick \/ UNCHANGED vars
  BY <1>0, <1>8 DEF ServeRefresh, EnterApp, Elsewhere, Tick, vars, Fresh, Tokens
<1> QED
  BY <1>1, <1>2, <1>3, <1>4, <1>5, <1>6, <1>7, <1>8 DEF Next

\* A refresh is never wasted on its own replays.
THEOREM ReplayValid == Spec => []ReplaysAreValid
<1>1. Init => TypeOK /\ ShapeInv /\ ReplayInv
  <2>1. Init => RefreshAge
    BY DEF Init, NoRefresh, RefreshAge
  <2>2. Init => \A r \in Requests : Fresh(r)
    <3> SUFFICES ASSUME Init, NEW q \in Requests PROVE ~req[q].replayed
      BY DEF Fresh
    <3>1. TypeOK
      BY InitShape
    <3>2. Blank.replayed = FALSE
      BY DEF Blank
    <3> QED
      BY <3>1, <3>2, CheckFacts DEF Init
  <2> QED
    BY <2>1, <2>2, ReplayParts, InitShape
<1>2. TypeOK /\ ShapeInv /\ ReplayInv /\ [Next]_vars => (TypeOK /\ ShapeInv /\ ReplayInv)'
  <2> SUFFICES ASSUME TypeOK, ShapeInv, ReplayInv, [Next]_vars
               PROVE  TypeOK' /\ ShapeInv' /\ ReplayInv'
    OBVIOUS
  <2>1. RefreshAge' /\ \A q \in Requests : Fresh(q)'
    BY NextAge, NextFresh, ReplayParts
  <2>2. ReplayInv'
    BY <2>1 DEF ReplayInv, RefreshAge, Fresh, Tokens
  <2> QED
    BY <2>2, NextShape
<1>3. TypeOK /\ ReplayInv => ReplaysAreValid
  <2> SUFFICES ASSUME TypeOK, ReplayInv, NEW r \in Requests, req[r].replayed, at[r] = "sent", req[r].sentAt = now
               PROVE  AccessValid(req[r].tokens)
    BY DEF ReplaysAreValid
  <2>1. req[r].tokens \in Tokens /\ now <= req[r].tokens.made + 1
    BY DEF ReplayInv
  <2>2. req[r].tokens.made \in Nat /\ now \in Nat
    BY <2>1, TimeAssumption DEF TypeOK, Tokens
  <2>3. req[r].tokens # NoToken
    BY <2>1, TokenFacts
  <2> QED
    BY <2>1, <2>2, <2>3, LifeAssumption DEF AccessValid
<1> QED
  BY <1>1, <1>2, <1>3, PTL DEF Spec

\* The account the page shows is the account it acts for.
THEOREM AccountShown == Spec => []ShownAccountIsUsed
<1>1. Init => TypeOK /\ ShapeInv /\ RefreshInv /\ SideInv
  BY InitShape, InitRefresh, InitSide
<1>2. TypeOK /\ ShapeInv /\ RefreshInv /\ SideInv /\ [Next]_vars
        => (TypeOK /\ ShapeInv /\ RefreshInv /\ SideInv)'
  BY NextShape, NextRefresh, NextSide
<1>3. SideInv => ShownAccountIsUsed
  BY DEF SideInv, AccountInv, ShownAccountIsUsed
<1> QED
  BY <1>1, <1>2, <1>3, PTL DEF Spec

\* A call runs in the account that was shown when it was made.
THEOREM CallAccount == Spec => []CallsRunWhereShown
<1>1. Init => TypeOK /\ ShapeInv /\ RefreshInv /\ SideInv
  BY InitShape, InitRefresh, InitSide
<1>2. TypeOK /\ ShapeInv /\ RefreshInv /\ SideInv /\ [Next]_vars
        => (TypeOK /\ ShapeInv /\ RefreshInv /\ SideInv)'
  BY NextShape, NextRefresh, NextSide
<1>3. SideInv => CallsRunWhereShown
  BY DEF SideInv, AccountInv, CallsRunWhereShown
<1> QED
  BY <1>1, <1>2, <1>3, PTL DEF Spec
=============================================================================
