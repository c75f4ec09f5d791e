------------------------------ MODULE Session ------------------------------
(***************************************************************************)
(* The session of one browser page: the API client with its refresh of     *)
(* expired tokens, the authentication provider, and the account switch.    *)
(*                                                                         *)
(* The page runs one callback at a time, so a step is what runs between    *)
(* two awaits.  What is shared and can change while a request is on its    *)
(* way is the local storage (also written by the other tabs), the flag     *)
(* isRefreshing, the queue failedQueue and what the page shows.  The       *)
(* server keeps no session: a token says its account and when it was made. *)
(*                                                                         *)
(* Time counts in units that are longer than a request may take (ten       *)
(* seconds) and no longer than an access token lives (an hour).            *)
(***************************************************************************)
EXTENDS Naturals

CONSTANTS
    Requests,      \* requests the page can have on their way
    Accounts,      \* accounts (queues) of the user
    NoAccount,     \* no account is shown
    NoToken,       \* nothing is stored
    AccessLife,    \* units an access token is accepted for
    RefreshLife,   \* units a refresh token is accepted for
    MaxTime        \* bound: the units a behaviour lasts

ASSUME AccountAssumption == NoAccount \notin Accounts
ASSUME TokenAssumption == NoToken \notin [account : Accounts, made : 0 .. MaxTime]
ASSUME LifeAssumption == AccessLife \in Nat \ {0} /\ RefreshLife \in Nat
ASSUME TimeAssumption == MaxTime \in Nat

VARIABLES
    now,           \* the time
    storage,       \* the pair of tokens in the local storage
    page,          \* "app", "auth" (the login page), "leaving" (on its way to it)
    signedIn,      \* isAuthenticated
    context,       \* the account the page shows
    isRefreshing,
    failedQueue,   \* the requests that wait for the refresh
    at,            \* where a request is
    req,           \* what it is
    refresh,       \* the request of refreshTokenFn
    mixed          \* ghost: the stored account has changed behind the page or a refresh

client == <<storage, page, signedIn, context, mixed>>
queue  == <<isRefreshing, failedQueue, refresh>>
vars   == <<now, client, queue, at, req>>

Tokens == [account : Accounts, made : 0 .. MaxTime]
Stored == Tokens \cup {NoToken}
Places == {"idle", "sent", "ok", "expired", "failed", "parked", "refreshing"}

\* A request: what it asks for, the account a switch or login asks for, the
\* tokens it carries (in its header on the way to the server, in its answer on
\* the way back), the account a call was made for, whether the account has
\* changed since, whether it was sent again after a refresh, and when.
RequestRecords ==
    [kind : {"none", "call", "switch", "login", "check"},
     goal : Accounts \cup {NoAccount}, tokens : Stored,
     shown : Accounts \cup {NoAccount}, crossed : BOOLEAN, replayed : BOOLEAN,
     sentAt : 0 .. MaxTime]
Blank ==
    [kind |-> "none", goal |-> NoAccount, tokens |-> NoToken,
     shown |-> NoAccount, crossed |-> FALSE, replayed |-> FALSE, sentAt |-> 0]

RefreshRecords == [at : {"none", "sent", "ok", "failed"}, tokens : Stored, sentAt : 0 .. MaxTime]
NoRefresh == [at |-> "none", tokens |-> NoToken, sentAt |-> 0]

\* One type for every variable.
TypeOK ==
    /\ now \in 0 .. MaxTime
    /\ storage \in Stored
    /\ page \in {"app", "auth", "leaving"}
    /\ signedIn \in BOOLEAN /\ isRefreshing \in BOOLEAN /\ mixed \in BOOLEAN
    /\ context \in Accounts \cup {NoAccount}
    /\ failedQueue \in SUBSET Requests
    /\ at \in [Requests -> Places]
    /\ req \in [Requests -> RequestRecords]
    /\ refresh \in RefreshRecords

-----------------------------------------------------------------------------
(* Tokens, as the server makes and checks them. *)

AccountOf(t) == IF t = NoToken THEN NoAccount ELSE t.account
Minted(a) == [account |-> a, made |-> now]
AccessValid(t) == t # NoToken /\ now <= t.made + AccessLife
RefreshValid(t) == t # NoToken /\ now <= t.made + RefreshLife

\* A page is loaded: nothing is known until the first check is answered.
Check(r) == [Blank EXCEPT !.kind = "check", !.tokens = storage, !.sentAt = now]

Init ==
    /\ now = 0
    /\ storage \in {NoToken} \cup [account : Accounts, made : {0}]
    /\ page \in {"app", "auth"}
    /\ signedIn = FALSE /\ context = NoAccount /\ mixed = FALSE
    /\ isRefreshing = FALSE /\ failedQueue = {} /\ refresh = NoRefresh
    /\ \E r \in Requests :
          /\ at = [q \in Requests |-> IF q = r THEN "sent" ELSE "idle"]
          /\ req = [q \in Requests |-> IF q = r THEN Check(r) ELSE Blank]

-----------------------------------------------------------------------------
(* Requests of the page. *)

Send(r, what, a) ==
    /\ at[r] = "idle"
    /\ at' = [at EXCEPT ![r] = "sent"]
    /\ req' = [req EXCEPT ![r] =
          [Blank EXCEPT !.kind = what, !.goal = a, !.tokens = storage, !.sentAt = now,
                        !.shown = IF what = "call" THEN context ELSE NoAccount]]
    /\ UNCHANGED <<now, client, queue>>

SendCall(r) == page # "auth" /\ signedIn /\ Send(r, "call", NoAccount)

SendSwitch(r, a) == page = "app" /\ signedIn /\ Send(r, "switch", a)

\* The form is not shown before the check is answered and not open twice.
SendLogin(r, a) ==
    /\ page = "auth" /\ ~signedIn
    /\ \A q \in Requests : req[q].kind \notin {"check", "login"}
    /\ Send(r, "login", a)

\* The server accepts a request, in the name of the account of its token.
Accept(r) ==
    /\ at[r] = "sent"
    /\ \/ req[r].kind = "login"
       \/ req[r].kind = "check" /\ req[r].tokens = NoToken
       \/ AccessValid(req[r].tokens)
    /\ at' = [at EXCEPT ![r] = "ok"]
    /\ \E t \in CASE req[r].kind \in {"switch", "login"} -> {Minted(req[r].goal)}
                  [] req[r].kind = "check" -> {req[r].tokens, NoToken}
                  [] OTHER -> {NoToken} :
          req' = [req EXCEPT ![r].tokens = t]
    /\ UNCHANGED <<now, client, queue>>

\* ... says that its token has expired ...
SayExpired(r) ==
    /\ at[r] = "sent"
    /\ req[r].kind # "login" /\ req[r].tokens # NoToken /\ ~AccessValid(req[r].tokens)
    /\ at' = [at EXCEPT ![r] = "expired"]
    /\ req' = [req EXCEPT ![r].tokens = NoToken]
    /\ UNCHANGED <<now, client, queue>>

\* ... or refuses it for another reason, or the answer does not come in time.
Fail(r) ==
    /\ at[r] = "sent"
    /\ at' = [at EXCEPT ![r] = "failed"]
    /\ req' = [req EXCEPT ![r].tokens = NoToken]
    /\ UNCHANGED <<now, client, queue>>

-----------------------------------------------------------------------------
(* What the page does with an answer. *)

\* The requests S are over; the others in W see another account.
Settled(S, W) ==
    /\ at' = [q \in Requests |-> IF q \in S THEN "idle" ELSE at[q]]
    /\ req' = [q \in Requests |->
          IF q \in S THEN Blank
          ELSE IF q \in W /\ req[q].kind = "call" THEN [req[q] EXCEPT !.crossed = TRUE] ELSE req[q]]

\* The stored account changes: a refresh on its way was asked for the old one.
Overtaken == mixed \/ refresh.at # "none"

ReceiveCall(r) ==
    /\ at[r] = "ok" /\ req[r].kind = "call"
    /\ Settled({r}, {})
    /\ UNCHANGED <<now, client, queue>>

\* Mutant: the new account is shown, its tokens are not stored.
ReceiveSwitchUnstored(r) ==
    /\ at[r] = "ok" /\ req[r].kind = "switch"
    /\ context' = req[r].tokens.account
    /\ mixed' = Overtaken
    /\ Settled({r}, Requests)
    /\ UNCHANGED <<now, storage, page, signedIn, queue>>

ReceiveSwitch(r) ==
    /\ at[r] = "ok" /\ req[r].kind = "switch"
    /\ storage' = req[r].tokens
    /\ context' = req[r].tokens.account
    /\ mixed' = Overtaken
    /\ Settled({r}, Requests)
    /\ UNCHANGED <<now, page, signedIn, queue>>

ReceiveLogin(r) ==
    /\ at[r] = "ok" /\ req[r].kind = "login"
    /\ storage' = req[r].tokens
    /\ context' = req[r].tokens.account
    /\ signedIn' = TRUE
    /\ page' = IF page = "auth" THEN "app" ELSE page
    /\ mixed' = (refresh.at # "none")
    /\ Settled({r}, Requests)
    /\ UNCHANGED <<now, queue>>

\* The session the page shows is over; the routes of the application lead to
\* the login page.
SignedOut ==
    /\ signedIn' = FALSE
    /\ context' = NoAccount
    /\ page' = IF page = "app" THEN "auth" ELSE page

ReceiveCheck(r) ==
    /\ at[r] = "ok" /\ req[r].kind = "check"
    /\ IF req[r].tokens = NoToken
       THEN SignedOut
       ELSE signedIn' = TRUE /\ context' = req[r].tokens.account /\ UNCHANGED page
    /\ Settled({r}, {})
    /\ UNCHANGED <<now, storage, mixed, queue>>

\* Mutant: only the answer "expired" rejects the promise.
ReceiveExpired(r) ==
    /\ at[r] = "expired" /\ req[r].replayed
    /\ IF req[r].kind = "check" THEN SignedOut ELSE UNCHANGED <<signedIn, context, page>>
    /\ Settled({r}, {})
    /\ UNCHANGED <<now, storage, mixed, queue>>

ReceiveFailure(r) ==
    /\ \/ at[r] = "failed"
       \/ at[r] = "expired" /\ req[r].replayed
    /\ IF req[r].kind = "check" THEN SignedOut ELSE UNCHANGED <<signedIn, context, page>>
    /\ Settled({r}, {})
    /\ UNCHANGED <<now, storage, mixed, queue>>

\* The hook for a first answer "expired": wait for the refresh under way ...
Park(r) ==
    /\ at[r] = "expired" /\ ~req[r].replayed
    /\ isRefreshing
    /\ failedQueue' = failedQueue \cup {r}
    /\ at' = [at EXCEPT ![r] = "parked"]
    /\ UNCHANGED <<now, client, isRefreshing, refresh, req>>

\* Mutant: the flag is not looked at.
StartRefreshAnyway(r) ==
    /\ at[r] = "expired" /\ ~req[r].replayed
    /\ isRefreshing' = TRUE
    /\ refresh' = [at |-> "sent", tokens |-> storage, sentAt |-> now]
    /\ at' = [at EXCEPT ![r] = "refreshing"]
    /\ UNCHANGED <<now, client, failedQueue, req>>

\* ... or ask for one, with the token that is stored now.
StartRefresh(r) ==
    /\ at[r] = "expired" /\ ~req[r].replayed
    /\ ~isRefreshing
    /\ isRefreshing' = TRUE
    /\ refresh' = [at |-> "sent", tokens |-> storage, sentAt |-> now]
    /\ at' = [at EXCEPT ![r] = "refreshing"]
    /\ UNCHANGED <<now, client, failedQueue, req>>

\* Mutant: the new tokens are for the default account of the user.
ServeRefreshDefault ==
    /\ refresh.at = "sent"
    /\ RefreshValid(refresh.tokens)
    /\ refresh' = [refresh EXCEPT !.at = "ok", !.tokens = Minted(CHOOSE a \in Accounts : TRUE)]
    /\ UNCHANGED <<now, client, isRefreshing, failedQueue, at, req>>

ServeRefresh ==
    /\ refresh.at = "sent"
    /\ \/ /\ RefreshValid(refresh.tokens)
          /\ refresh' = [refresh EXCEPT !.at = "ok", !.tokens = Minted(refresh.tokens.account)]
       \/ refresh' = [refresh EXCEPT !.at = "failed", !.tokens = NoToken]
    /\ UNCHANGED <<now, client, isRefreshing, failedQueue, at, req>>

\* The requests that hang on the refresh: those in the queue and the one whose
\* hook awaits it.
Hanging == failedQueue \cup {r \in Requests : at[r] = "refreshing"}

\* Mutant: sent again with the token stored before the refresh.
ReplayStored(S, t) ==
    /\ at' = [q \in Requests |-> IF q \in S THEN "sent" ELSE at[q]]
    /\ req' = [q \in Requests |->
          IF q \in S THEN [req[q] EXCEPT !.tokens = storage, !.replayed = TRUE, !.sentAt = now] ELSE req[q]]

Replay(S, t) ==
    /\ at' = [q \in Requests |-> IF q \in S THEN "sent" ELSE at[q]]
    /\ req' = [q \in Requests |->
          IF q \in S THEN [req[q] EXCEPT !.tokens = t, !.replayed = TRUE, !.sentAt = now] ELSE req[q]]

RefreshDone ==
    /\ refresh.at = "ok"
    /\ storage' = refresh.tokens
    /\ Replay(Hanging, refresh.tokens)
    /\ failedQueue' = {}
    /\ isRefreshing' = FALSE
    /\ refresh' = NoRefresh
    /\ UNCHANGED <<now, page, signedIn, context, mixed>>

\* Everything that hangs on the refresh fails.  The page leaves for the login
\* page, unless its address is that of the login page without a query.
RefreshFailed ==
    /\ refresh.at = "failed"
    /\ IF \E r \in Hanging : req[r].kind = "check"
       THEN signedIn' = FALSE /\ context' = NoAccount
       ELSE UNCHANGED <<signedIn, context>>
    /\ page' \in IF page = "auth" THEN {"auth", "leaving"} ELSE {"leaving"}
    /\ Settled(Hanging, {})
    /\ failedQueue' = {}
    /\ isRefreshing' = FALSE
    /\ refresh' = NoRefresh
    /\ UNCHANGED <<now, storage, mixed>>

-----------------------------------------------------------------------------
(* The page itself. *)

\* The page is loaded anew: nothing of its memory stays, the storage does.
Reload ==
    /\ page = "leaving"
    /\ page' = "auth"
    /\ signedIn' = FALSE /\ context' = NoAccount /\ mixed' = FALSE
    /\ isRefreshing' = FALSE /\ failedQueue' = {} /\ refresh' = NoRefresh
    /\ \E r \in Requests :
          /\ at' = [q \in Requests |-> IF q = r THEN "sent" ELSE "idle"]
          /\ req' = [q \in Requests |-> IF q = r THEN Check(r) ELSE Blank]
    /\ UNCHANGED <<now, storage>>

EnterApp ==
    /\ page = "auth" /\ signedIn
    /\ page' = "app"
    /\ UNCHANGED <<now, storage, signedIn, context, mixed, queue, at, req>>

\* Requests on their way stay on their way.
Logout ==
    /\ page = "app" /\ signedIn
    /\ storage' = NoToken
    /\ SignedOut
    /\ mixed' = Overtaken
    /\ Settled({}, Requests)
    /\ UNCHANGED <<now, queue>>

\* Another tab logs out, logs in or switches the account.
Elsewhere ==
    /\ storage' \in {NoToken} \cup {Minted(a) : a \in Accounts}
    /\ storage' # storage
    /\ ~mixed     \* bound: once
    /\ mixed' = TRUE
    /\ UNCHANGED <<now, page, signedIn, context, queue, at, req>>

\* Time passes; whatever is on its way was sent in this unit.
Tick ==
    /\ now < MaxTime
    /\ \A r \in Requests : at[r] \in {"sent", "ok", "expired", "failed"} => req[r].sentAt = now
    /\ refresh.at # "none" => refresh.sentAt = now
    /\ now' = now + 1
    /\ UNCHANGED <<client, queue, at, req>>

-----------------------------------------------------------------------------

Receive(r) ==
    \/ ReceiveCall(r) \/ ReceiveSwitch(r) \/ ReceiveLogin(r) \/ ReceiveCheck(r)
    \/ ReceiveFailure(r) \/ Park(r) \/ StartRefresh(r)

Next ==
    \/ \E r \in Requests :
          \/ SendCall(r)
          \/ \E a \in Accounts : SendSwitch(r, a) \/ SendLogin(r, a)
          \/ Accept(r) \/ SayExpired(r) \/ Fail(r)
          \/ Receive(r)
    \/ ServeRefresh \/ RefreshDone \/ RefreshFailed
    \/ Reload \/ EnterApp \/ Logout \/ Elsewhere \/ Tick

Spec == Init /\ [][Next]_vars

\* Every request is answered or times out, the page runs its callbacks, and
\* the browser loads the page it was told to load.
Fairness ==
    /\ \A r \in Requests : WF_vars(Accept(r) \/ SayExpired(r) \/ Fail(r)) /\ WF_vars(Receive(r))
    /\ WF_vars(ServeRefresh) /\ WF_vars(RefreshDone \/ RefreshFailed)
    /\ WF_vars(Reload)

FairSpec == Spec /\ Fairness

-----------------------------------------------------------------------------
(* Properties. *)

\* Refreshes never overlap, and nobody is forgotten: the queue holds exactly
\* the requests that wait in it, and they wait only while one refresh, started
\* by one other request, is under way (client.ts:47, "avoid concurrent
\* refreshes"; processQueue).
RefreshInv ==
    /\ failedQueue = {r \in Requests : at[r] = "parked"}
    /\ isRefreshing <=> refresh.at # "none"
    /\ isRefreshing <=> \E r \in Requests : at[r] = "refreshing"
    /\ \A r, q \in Requests : at[r] = "refreshing" /\ at[q] = "refreshing" => r = q
    /\ failedQueue # {} => isRefreshing

\* The account the page shows is the account it acts for, unless another tab or
\* a refresh that was already asked for has changed the stored tokens.
ShownAccountIsUsed == signedIn /\ ~mixed => AccountOf(storage) = context

\* A call runs in the account that was shown when it was made, also when it is
\* sent again after a refresh, unless the account was changed in between.
CallsRunWhereShown ==
    \A r \in Requests :
        req[r].kind = "call" /\ at[r] = "sent" /\ ~req[r].crossed /\ ~mixed
            => AccountOf(req[r].tokens) = req[r].shown

\* A request sent again after a refresh carries a token that is still good: a
\* refresh is never wasted on its own replays.
ReplaysAreValid ==
    \A r \in Requests :
        req[r].replayed /\ at[r] = "sent" /\ req[r].sentAt = now => AccessValid(req[r].tokens)

\* Every request of the page comes to an end: no promise stays pending.
EveryRequestSettles == \A r \in Requests : at[r] # "idle" ~> at[r] = "idle"
=============================================================================
