------------------------------ MODULE Session ------------------------------
(***************************************************************************)
(* The sign-in session of one browser in the three web front ends: the     *)
(* token store of every tab (lib/auth-store.ts), the copy they share in    *)
(* localStorage, the HTTP client that answers a 401 by one refresh and one *)
(* replay (lib/api.ts), and the token endpoints of the backend             *)
(* (services/auth_service.py).                                             *)
(*                                                                         *)
(* A token pair is named by its place in "pairs": the access token and the *)
(* refresh token are always issued, stored and cleared together.  0 is "no *)
(* token".  The three apps differ in a few operators only; Init picks one. *)
(***************************************************************************)
EXTENDS Naturals, Sequences

CONSTANTS
    Tabs,       \* tabs of one browser open on the app
    Accounts,   \* accounts that sign in there
    Requests,   \* requests a tab can have under way
    Plans,      \* bound: which requests each tab uses, who signs in, and whether
                \* users sign out
    Nobody,     \* no account
    MaxPairs    \* bound: token pairs ever issued

ASSUME SessionAssumption ==
    /\ Nobody \notin Accounts
    /\ Plans \subseteq [slots : [Tabs -> SUBSET Requests], who : SUBSET Accounts,
                        signsOut : BOOLEAN]
    /\ MaxPairs \in Nat \ {0}

VARIABLES
    app,      \* which front end this browser runs
    plan,     \* plan.slots[t]: the requests tab t uses; plan.who: who signs in, ...
    pairs,    \* pairs[n]: who owns it, is its refresh token unrevoked, its access token unexpired
    disk,     \* the store as localStorage has it
    mem,      \* mem[t]: the store of tab t
    at,       \* at[t]: the tab shows the login page or a page of the app
    req,      \* req[t][r]: a request of tab t
    refresh,  \* refresh[t]: the refresh call the tab has under way
    cached    \* cached[t]: whose "me" the query cache of the tab holds

vars == <<app, plan, pairs, disk, mem, at, req, refresh, cached>>

Apps == {"user", "merchant", "admin"}
Store == [who : Accounts \cup {Nobody}, pair : 0..MaxPairs]
Blank == [who |-> Nobody, pair |-> 0]
Pair == [owner : Accounts, live : BOOLEAN, fresh : BOOLEAN]

Request == [st : {"idle", "sent", "parked", "answered"}, replay : BOOLEAN,
            logout : 0..MaxPairs, pair : 0..MaxPairs]
Idle == [st |-> "idle", replay |-> FALSE, logout |-> 0, pair |-> 0]
Parked(q) == [st |-> "parked", replay |-> q.replay, logout |-> q.logout, pair |-> 0]
Sent(n, logout) == [st |-> "sent", replay |-> FALSE, logout |-> logout, pair |-> n]

RefreshCall == [st : {"none", "sent", "read", "refused", "granted", "lost"},
                old : 0..MaxPairs, new : 0..MaxPairs, left : BOOLEAN]
\* "left" is bookkeeping of the properties: the user has left the session it
\* renews since, by signing out or by signing in anew.
NoRefresh == [st |-> "none", old |-> 0, new |-> 0, left |-> FALSE]
Presents(n) == [st |-> "sent", old |-> n, new |-> 0, left |-> FALSE]

TypeOK ==
    /\ app \in Apps
    /\ plan \in Plans
    /\ pairs \in Seq(Pair)
    /\ Len(pairs) <= MaxPairs
    /\ disk \in Store
    /\ mem \in [Tabs -> Store]
    /\ at \in [Tabs -> {"login", "app"}]
    /\ req \in [Tabs -> [Requests -> Request]]
    /\ refresh \in [Tabs -> RefreshCall]
    /\ cached \in [Tabs -> Accounts \cup {Nobody}]

Init ==
    /\ app \in Apps
    /\ plan \in Plans
    /\ pairs = <<>>
    /\ disk = Blank
    /\ mem = [t \in Tabs |-> Blank]
    /\ at = [t \in Tabs |-> "login"]
    /\ req = [t \in Tabs |-> [r \in Requests |-> Idle]]
    /\ refresh = [t \in Tabs |-> NoRefresh]
    /\ cached = [t \in Tabs |-> Nobody]

-----------------------------------------------------------------------------
(* Guards of the pages and the three reactions to a 401. *)

\* user-web asks for an access token only.
UserShows(s) == s.pair # 0
\* merchant asks for a token and an account.
MerchantShows(s) == s.pair # 0 /\ s.who # Nobody
\* admin: "status" is authenticated after a sign-in or a reload with a token.
AdminShows(s) == s.pair # 0

Shows(s) ==
    CASE app = "user" -> UserShows(s)
      [] app = "merchant" -> MerchantShows(s)
      [] OTHER -> AdminShows(s)

\* What the response hook does with a 401: nothing ("settle"), clear the
\* store and go to the login page ("leave"), or refresh and replay.
UserOn401(replay, code) ==
    IF replay THEN "settle" ELSE IF code = "expired" THEN "refresh" ELSE "leave"

\* The replay is sent by the bare client, so nothing looks at its answer.
MerchantOn401(replay, code) ==
    IF replay THEN "settle" ELSE IF code = "expired" THEN "refresh" ELSE "leave"

\* Mutant: a replay that is refused asks for another refresh.
AdminOn401Again(replay, code) == "refresh"

\* Every first 401 is taken for an expired token.
AdminOn401(replay, code) == IF replay THEN "leave" ELSE "refresh"

On401(replay, code) ==
    CASE app = "user" -> UserOn401(replay, code)
      [] app = "merchant" -> MerchantOn401(replay, code)
      [] OTHER -> AdminOn401(replay, code)

-----------------------------------------------------------------------------
(* Steps of the store. *)

\* Every set() of the store is written through to localStorage.
Stored(t, s) == mem' = [mem EXCEPT ![t] = s] /\ disk' = s

\* A full page load: nothing of the tab's memory survives.
FreshPage(t) ==
    /\ req' = [req EXCEPT ![t] = [r \in Requests |-> Idle]]
    /\ refresh' = [refresh EXCEPT ![t] = NoRefresh]
    /\ cached' = [cached EXCEPT ![t] = Nobody]

\* forceLogout: clear the store and load the login page; a tab that shows it
\* already goes on with the requests q and the refresh call c.
ForceLogout(t, q, c) ==
    /\ Stored(t, Blank)
    /\ at' = [at EXCEPT ![t] = "login"]
    /\ IF at[t] = "app"
       THEN FreshPage(t)
       ELSE /\ req' = [req EXCEPT ![t] = q]
            /\ refresh' = [refresh EXCEPT ![t] = c]
            /\ UNCHANGED cached

\* The tab is opened or reloaded: the store is what localStorage has.
Reload(t) ==
    /\ mem' = [mem EXCEPT ![t] = disk]
    /\ at' = [at EXCEPT ![t] = IF Shows(disk) THEN "app" ELSE "login"]
    /\ FreshPage(t)
    /\ UNCHANGED <<app, plan, pairs, disk>>

\* A sign-in: a new pair, stored with the account.  The login page of an app
\* that is signed in already leaves by itself.
SignIn(t, a) ==
    /\ at[t] = "login"
    /\ mem[t].who = Nobody
    /\ Len(pairs) < MaxPairs
    /\ pairs' = Append(pairs, [owner |-> a, live |-> TRUE, fresh |-> TRUE])
    /\ Stored(t, [who |-> a, pair |-> Len(pairs) + 1])
    /\ at' = [at EXCEPT ![t] = "app"]
    /\ refresh' = [refresh EXCEPT ![t].left = @ \/ refresh[t].st # "none"]
    /\ UNCHANGED <<app, plan, req, cached>>

\* merchant: when the dashboard mounts, the cached "me" overwrites the account.
BootMe(t) ==
    /\ app = "merchant"
    /\ at[t] = "app"
    /\ cached[t] # Nobody
    /\ mem[t].who # Nobody
    /\ mem[t].who # cached[t]
    /\ Stored(t, [mem[t] EXCEPT !.who = cached[t]])
    /\ UNCHANGED <<app, plan, pairs, at, req, refresh, cached>>

-----------------------------------------------------------------------------
(* Requests. *)

\* A page asks for something with the token the store has now.
Send(t, r) ==
    /\ at[t] = "app"
    /\ Shows(mem[t])
    /\ req[t][r] = Idle
    /\ req' = [req EXCEPT ![t][r] = Sent(mem[t].pair, 0)]
    /\ UNCHANGED <<app, plan, pairs, disk, mem, at, refresh, cached>>

\* The user signs out: the refresh token of this moment goes in the body.
Logout(t, r) ==
    /\ plan.signsOut
    /\ at[t] = "app"
    /\ mem[t].who # Nobody
    /\ mem[t].pair # 0
    /\ \A q \in Requests : req[t][q].logout = 0
    /\ req[t][r] = Idle
    /\ req' = [req EXCEPT ![t][r] = Sent(mem[t].pair, mem[t].pair)]
    /\ UNCHANGED <<app, plan, pairs, disk, mem, at, refresh, cached>>

\* The access token decides the answer; it is not looked up anywhere.
Answer(n) ==
    IF n = 0 THEN "unauthenticated" ELSE IF pairs[n].fresh THEN "ok" ELSE "expired"

\* A logout call that has ended, however it ended, clears the store and
\* goes to the login page without loading it.
SignedOut(t, r) ==
    /\ Stored(t, Blank)
    /\ at' = [at EXCEPT ![t] = "login"]
    /\ req' = [req EXCEPT ![t][r] = Idle]
    /\ refresh' = [refresh EXCEPT ![t].left = @ \/ refresh[t].st # "none"]
    /\ UNCHANGED cached

\* merchant: "me" is cached and overwrites the account of the store.
Loaded(t, r) ==
    LET a == pairs[req[t][r].pair].owner IN
    /\ req' = [req EXCEPT ![t][r] = Idle]
    /\ IF app = "merchant" /\ mem[t].who # Nobody
       THEN cached' = [cached EXCEPT ![t] = a] /\ Stored(t, [mem[t] EXCEPT !.who = a])
       ELSE UNCHANGED <<cached, mem, disk>>
    /\ UNCHANGED <<at, refresh>>

\* An answer that is neither data nor followed up: the page shows an error.
Dropped(t, r) ==
    IF req[t][r].logout # 0
    THEN SignedOut(t, r)
    ELSE req' = [req EXCEPT ![t][r] = Idle] /\ UNCHANGED <<mem, disk, at, refresh, cached>>

\* Mutant: the refresh presents the pair of the refused request, not the store's.
JoinRefreshOwn(t, r) ==
    /\ refresh' = IF refresh[t].st = "none"
                  THEN [refresh EXCEPT ![t] = Presents(req[t][r].pair)]
                  ELSE refresh
    /\ req' = [req EXCEPT ![t][r] = Parked(@)]
    /\ UNCHANGED <<mem, disk, at, cached>>

\* One refresh per tab: a 401 that finds one under way waits for it.
JoinRefresh(t, r) ==
    /\ refresh' = IF refresh[t].st = "none"
                  THEN [refresh EXCEPT ![t] = Presents(mem[t].pair)]
                  ELSE refresh
    /\ req' = [req EXCEPT ![t][r] = Parked(@)]
    /\ UNCHANGED <<mem, disk, at, cached>>

\* The answer to a request is a 401.  An access token never becomes valid
\* again, so an answer on its way says what a later one would: answering and
\* handling are one step.
Refused(t, r) ==
    LET q == req[t][r]
        reaction == On401(q.replay, Answer(q.pair)) IN
    /\ q.st = "sent"
    /\ Answer(q.pair) # "ok"
    /\ \/ reaction = "settle" /\ Dropped(t, r)
       \/ /\ reaction = "refresh"
          /\ refresh[t].st # "none" \/ mem[t].pair # 0
          /\ JoinRefresh(t, r)
       \/ /\ \/ reaction = "leave"
             \/ reaction = "refresh" /\ refresh[t].st = "none" /\ mem[t].pair = 0
          /\ ForceLogout(t, [req[t] EXCEPT ![r] = Idle], refresh[t])
    /\ UNCHANGED <<app, plan, pairs>>

\* A page request is answered with data.
Served(t, r) ==
    /\ req[t][r].st = "sent"
    /\ req[t][r].logout = 0
    /\ Answer(req[t][r].pair) = "ok"
    /\ Loaded(t, r)
    /\ UNCHANGED <<app, plan, pairs>>

\* logout revokes the refresh token it is given; its answer is on the way.
Revoke(t, r) ==
    LET q == req[t][r] IN
    /\ q.st = "sent"
    /\ q.logout # 0
    /\ Answer(q.pair) = "ok"
    /\ pairs' = [pairs EXCEPT ![q.logout].live = FALSE]
    /\ req' = [req EXCEPT ![t][r].st = "answered"]
    /\ UNCHANGED <<app, plan, disk, mem, at, refresh, cached>>

LogoutDone(t, r) ==
    /\ req[t][r].st = "answered"
    /\ SignedOut(t, r)
    /\ UNCHANGED <<app, plan, pairs>>

\* The request or its answer is lost, or fifteen seconds pass.
Lost(t, r) ==
    /\ req[t][r].st \in {"sent", "answered"}
    /\ Dropped(t, r)
    /\ UNCHANGED <<app, plan, pairs>>

-----------------------------------------------------------------------------
(* The refresh call. *)

\* refresh_tokens reads the row of the token without locking it ...
RefreshRead(t) ==
    /\ refresh[t].st = "sent"
    /\ refresh' = [refresh EXCEPT ![t].st =
                     IF pairs[refresh[t].old].live THEN "read" ELSE "refused"]
    /\ UNCHANGED <<app, plan, pairs, disk, mem, at, req, cached>>

\* ... then revokes it and issues the next pair.
RefreshGrant(t) ==
    LET n == refresh[t].old IN
    /\ refresh[t].st = "read"
    /\ Len(pairs) < MaxPairs
    /\ pairs' = Append([pairs EXCEPT ![n].live = FALSE],
                       [owner |-> pairs[n].owner, live |-> TRUE, fresh |-> TRUE])
    /\ refresh' = [refresh EXCEPT ![t] = [st |-> "granted", old |-> n,
                                             new |-> Len(pairs) + 1, left |-> @.left]]
    /\ UNCHANGED <<app, plan, disk, mem, at, req, cached>>

\* user and admin give up a refresh after ten seconds; merchant sends it with a bare
\* fetch, which waits as long as the connection stays open.
TimeLimited == app \in {"user", "admin"}

\* The call or its answer is lost, or its time limit passes in the apps that have one.
RefreshLost(t) ==
    /\ refresh[t].st \in {"sent", "read", "granted"}
    /\ refresh' = [refresh EXCEPT ![t].st = "lost"]
    /\ UNCHANGED <<app, plan, pairs, disk, mem, at, req, cached>>

\* The new pair is stored and every waiting request is replayed with it,
\* whatever has happened to the store meanwhile.
RefreshStored(t) ==
    LET n == refresh[t].new IN
    /\ refresh[t].st = "granted"
    /\ Stored(t, [mem[t] EXCEPT !.pair = n])
    /\ refresh' = [refresh EXCEPT ![t] = NoRefresh]
    /\ req' = [req EXCEPT ![t] = [r \in Requests |->
                 IF @[r].st = "parked"
                 THEN [st |-> "sent", replay |-> TRUE, logout |-> @[r].logout, pair |-> n]
                 ELSE @[r]]]
    /\ UNCHANGED <<app, plan, pairs, at, cached>>

\* Mutant: the requests that wait are left to the page load.
RefreshFailedForgets(t) ==
    /\ refresh[t].st \in {"refused", "lost"}
    /\ ForceLogout(t, req[t], NoRefresh)
    /\ UNCHANGED <<app, plan, pairs>>

\* Mutant: only an answer of the backend ends a refresh.
RefreshFailedAnswered(t) ==
    /\ refresh[t].st = "refused"
    /\ ForceLogout(t, [r \in Requests |-> IF req[t][r].st = "parked" THEN Idle ELSE req[t][r]],
                   NoRefresh)
    /\ UNCHANGED <<app, plan, pairs>>

RefreshFailed(t) ==
    /\ refresh[t].st \in {"refused", "lost"}
    /\ ForceLogout(t, [r \in Requests |-> IF req[t][r].st = "parked" THEN Idle ELSE req[t][r]],
                   NoRefresh)
    /\ UNCHANGED <<app, plan, pairs>>

\* An access token reaches its end.
Expire ==
    /\ \E n \in DOMAIN pairs : pairs[n].fresh /\ pairs' = [pairs EXCEPT ![n].fresh = FALSE]
    /\ UNCHANGED <<app, plan, disk, mem, at, req, refresh, cached>>

-----------------------------------------------------------------------------
TabStep(t) ==
    \/ Reload(t) \/ BootMe(t)
    \/ \E a \in plan.who : SignIn(t, a)
    \/ \E r \in plan.slots[t] :
            \/ Send(t, r) \/ Logout(t, r)
            \/ Refused(t, r) \/ Served(t, r) \/ Revoke(t, r) \/ LogoutDone(t, r) \/ Lost(t, r)
    \/ RefreshRead(t) \/ RefreshGrant(t) \/ RefreshLost(t)
    \/ RefreshStored(t) \/ RefreshFailed(t)

\* A tab without requests is not open.
Opened(t) == plan.slots[t] # {}

Next == Expire \/ \E t \in Tabs : Opened(t) /\ TabStep(t)

Spec == Init /\ [][Next]_vars

\* Where the refresh has a time limit it ends by then, answered or not, and its end is
\* handled: a timer of the browser and its event loop, nothing is assumed of the
\* network.  Without the limit only what has broken off is handled; whether a call is
\* ever answered, or ever breaks off, is up to the network.
Fairness ==
    \A t \in Tabs :
        /\ WF_vars(TimeLimited /\ (RefreshLost(t) \/ RefreshStored(t) \/ RefreshFailed(t)))
        /\ WF_vars(refresh[t].st = "lost" /\ RefreshFailed(t))

FairSpec == Spec /\ Fairness

-----------------------------------------------------------------------------
(* Properties. *)

\* No request waits for a refresh that is not under way: the shared promise
\* is dropped only together with those who wait for it.
NobodyWaitsInVain ==
    \A t \in Tabs : \A r \in Requests :
        req[t][r].st = "parked" => refresh[t].st # "none"

\* A request that waits for a refresh has not been replayed yet: an app whose
\* replays are refused as well does not refresh in a circle
\* (lib/api.ts, X-Retry-After-Refresh and the bare client of merchant).
ReplayedOnce ==
    \A t \in Tabs : \A r \in Requests :
        req[t][r].st = "parked" => ~ req[t][r].replay

\* Why a tab may clear a store whose token is still good: its user signs out; the
\* answer to its refresh got lost; a refresh of a session the user has left comes in
\* late; or its replay was refused.
GivesUp(t) ==
    \/ \E r \in Requests : req[t][r].logout # 0
    \/ refresh[t].st = "lost" \/ refresh[t].left
    \/ \E r \in Requests : req[t][r].replay /\ Answer(req[t][r].pair) = "expired"

\* A tab loses a token that is still good only when it gives up its session as named
\* in GivesUp, or when it is reloaded while another tab is open: the store it reads
\* then is the one that tab has written, and may be blank (StoreKeepsSession).
\* Several 401s at once never sign it out by themselves.
KeepsSession ==
    [][\A t \in Tabs :
         /\ mem[t].pair # 0 /\ mem'[t].pair = 0 /\ pairs[mem[t].pair].live
         => GivesUp(t) \/ (Reload(t) /\ \E u \in Tabs \ {t} : Opened(u))]_vars

\* lib/auth-store.ts of each app: the store is kept in localStorage so that a reload
\* does not lose the session.  A token there that is still good is cleared, then, only
\* when some tab gives its session up.  The code does not keep this: of two tabs
\* that refresh with one token, the slower is refused and clears the store over the
\* new pair of the other.
StoreKeepsSession ==
    [][disk.pair # 0 /\ disk'.pair = 0 /\ pairs[disk.pair].live
       => \E t \in Tabs : GivesUp(t)]_vars

\* Whatever happens to the network and in other tabs, a refresh ends in the apps
\* that limit its time, and in every app once it has broken off: the requests that
\* wait for it (NobodyWaitsInVain) are replayed or dropped.
RefreshEnds ==
    \A t \in Tabs :
        refresh[t].st # "none" /\ (TimeLimited \/ refresh[t].st = "lost")
            ~> refresh[t].st = "none"

\* Signing out revokes the session: once the logout call has been answered the
\* store holds no token that could renew it (lib/auth-api.ts: the backend
\* revokes the refresh token).
LogoutRevokes ==
    \A t \in Tabs : \A r \in Requests :
        req[t][r].st = "answered" /\ mem[t].pair # 0 => ~ pairs[mem[t].pair].live

\* The account a tab shows is the owner of the token it sends
\* (hooks/useCurrentMerchant.ts: the store is overwritten by the latest data).
WhoMatchesToken ==
    \A t \in Tabs :
        mem[t].who # Nobody /\ mem[t].pair # 0 => pairs[mem[t].pair].owner = mem[t].who
=============================================================================
