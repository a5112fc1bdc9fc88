--------------------------- MODULE SessionProofs ---------------------------
(***************************************************************************)
(* Proofs about Session, for any tabs, accounts, requests and plans.       *)
(***************************************************************************)
EXTENDS Session, SequenceTheorems, TLAPS

-----------------------------------------------------------------------------
(* The inductive invariant: what a tab holds names a pair that was issued,  *)
(* a refresh presents one, and those who wait are waited for.               *)

Stores(n) == [who : Accounts \cup {Nobody}, pair : 0..n]
Asks(n) == [st : {"idle", "sent", "parked", "answered"}, replay : BOOLEAN,
            logout : 0..n, pair : 0..n]
Refreshes(n) ==
    {c \in [st : {"none", "sent", "read", "refused", "granted", "lost"},
            old : 0..n, new : 0..n, left : BOOLEAN] : c.st \in {"sent", "read"} => c.old # 0}

Issued ==
    /\ app \in Apps /\ plan \in Plans
    /\ pairs \in Seq(Pair) /\ Len(pairs) <= MaxPairs
    /\ at \in [Tabs -> {"login", "app"}]
    /\ cached \in [Tabs -> Accounts \cup {Nobody}]

Held(n) ==
    /\ disk \in Stores(n)
    /\ mem \in [Tabs -> Stores(n)]

Asked(n) == req \in [Tabs -> [Requests -> Asks(n)]]
Renewed(n) == refresh \in [Tabs -> Refreshes(n)]

SInv ==
    /\ Issued /\ Held(Len(pairs)) /\ Asked(Len(pairs)) /\ Renewed(Len(pairs))
    /\ NobodyWaitsInVain /\ ReplayedOnce

-----------------------------------------------------------------------------
(* What the steps have in common. *)

LEMMA Constants ==
  /\ MaxPairs \in Nat
  /\ \A p \in Plans : p.who \subseteq Accounts /\ p.slots \in [Tabs -> SUBSET Requests]
  BY SessionAssumption

LEMMA LenNat ==
  ASSUME Issued
  PROVE  Len(pairs) \in Nat /\ Len(pairs) <= MaxPairs
  BY DEF Issued

\* A pair more: what was held still names an issued one.
LEMMA Monotone ==
  ASSUME NEW n \in Nat, NEW m \in Nat, n <= m
  PROVE  /\ Stores(n) \subseteq Stores(m)
         /\ Asks(n) \subseteq Asks(m)
         /\ Refreshes(n) \subseteq Refreshes(m)
<1>1. 0..n \subseteq 0..m
  OBVIOUS
<1> QED  BY <1>1 DEF Stores, Asks, Refreshes

\* Blank values name no pair.
LEMMA Blanks ==
  ASSUME NEW n \in Nat
  PROVE  Blank \in Stores(n) /\ Idle \in Asks(n) /\ NoRefresh \in Refreshes(n)
  BY DEF Blank, Idle, NoRefresh, Stores, Asks, Refreshes

\* A set() of the store.
LEMMA StoredHeld ==
  ASSUME NEW n \in Nat, Held(n), NEW t \in Tabs, NEW s \in Stores(n), Stored(t, s)
  PROVE  Held(n)'
  BY DEF Held, Stored

\* One request of a tab changes to one that does not wait.
LEMMA OneRequest ==
  ASSUME NEW n \in Nat, Asked(n), NEW t \in Tabs, NEW r \in Requests, NEW q \in Asks(n),
         q.st # "parked",
         req' = [req EXCEPT ![t][r] = q]
  PROVE  /\ Asked(n)'
         /\ \A u \in Tabs : \A p \in Requests :
                req'[u][p].st = "parked" => req'[u][p] = req[u][p]
  BY DEF Asked

\* The refresh call of a tab changes, but nobody is let down.
LEMMA Waits ==
  ASSUME SInv,
         \A u \in Tabs : \A p \in Requests : req'[u][p].st = "parked" => req'[u][p] = req[u][p],
         \A u \in Tabs : refresh[u].st # "none" => refresh'[u].st # "none"
  PROVE  NobodyWaitsInVain' /\ ReplayedOnce'
  BY DEF SInv, NobodyWaitsInVain, ReplayedOnce

\* A page load.
LEMMA Fresh ==
  ASSUME SInv, NEW t \in Tabs, FreshPage(t)
  PROVE  /\ Asked(Len(pairs))' \/ Len(pairs') # Len(pairs)
         /\ Renewed(Len(pairs))' \/ Len(pairs') # Len(pairs)
         /\ cached' \in [Tabs -> Accounts \cup {Nobody}]
         /\ NobodyWaitsInVain' /\ ReplayedOnce'
<1>1. Len(pairs) \in Nat
  BY LenNat DEF SInv
<1>2. PICK none : none = [r \in Requests |-> Idle]
  OBVIOUS
<1>3. /\ none \in [Requests -> Asks(Len(pairs))]
      /\ \A r \in Requests : none[r].st = "idle"
  BY <1>1, <1>2, Blanks DEF Idle
<1>4. req' = [req EXCEPT ![t] = none] /\ refresh' = [refresh EXCEPT ![t] = NoRefresh]
      /\ cached' = [cached EXCEPT ![t] = Nobody]
  BY <1>2 DEF FreshPage
<1>5. /\ req' \in [Tabs -> [Requests -> Asks(Len(pairs))]]
      /\ refresh' \in [Tabs -> Refreshes(Len(pairs))]
  BY <1>1, <1>3, <1>4, Blanks DEF SInv, Asked, Renewed
<1>6. NobodyWaitsInVain' /\ ReplayedOnce'
  BY <1>3, <1>4 DEF SInv, Asked, Renewed, NobodyWaitsInVain, ReplayedOnce
<1>7. cached' \in [Tabs -> Accounts \cup {Nobody}]
  BY <1>4 DEF SInv, Issued
<1> QED  BY <1>5, <1>6, <1>7 DEF Asked, Renewed

-----------------------------------------------------------------------------
LEMMA SessionInit ==
  ASSUME Init
  PROVE  SInv
<1>1. Len(pairs) = 0 /\ pairs \in Seq(Pair)
  BY DEF Init
<1>2. Blank \in Stores(0) /\ Idle \in Asks(0) /\ NoRefresh \in Refreshes(0)
  BY Blanks
<1>3. PICK none : none = [r \in Requests |-> Idle]
  OBVIOUS
<1>4. none \in [Requests -> Asks(0)]
  BY <1>2, <1>3
<1>5. Issued /\ Held(0) /\ Asked(0) /\ Renewed(0)
  BY <1>1, <1>2, <1>3, <1>4, Constants DEF Init, Issued, Held, Asked, Renewed, Blank
<1>6. NobodyWaitsInVain /\ ReplayedOnce
  BY DEF Init, Idle, NobodyWaitsInVain, ReplayedOnce
<1> QED  BY <1>1, <1>5, <1>6 DEF SInv

\* Steps of the store alone.
LEMMA ReloadInv ==
  ASSUME SInv, NEW t \in Tabs, Reload(t)
  PROVE  SInv'
<1>1. UNCHANGED <<app, plan, pairs, disk>> /\ FreshPage(t)
  BY DEF Reload
<1>2. Held(Len(pairs))' /\ at' \in [Tabs -> {"login", "app"}]
  BY <1>1 DEF Reload, SInv, Issued, Held
<1> QED  BY <1>1, <1>2, Fresh DEF SInv, Issued

LEMMA BootMeInv ==
  ASSUME SInv, NEW t \in Tabs, BootMe(t)
  PROVE  SInv'
<1>1. PICK s : s = [mem[t] EXCEPT !.who = cached[t]]
  OBVIOUS
<1>2. s \in Stores(Len(pairs)) /\ Stored(t, s)
  BY <1>1 DEF BootMe, SInv, Issued, Held, Stores
<1>3. UNCHANGED <<app, plan, pairs, at, req, refresh, cached>>
  BY DEF BootMe
<1>4. Held(Len(pairs))'
  BY <1>2, <1>3, LenNat, StoredHeld DEF SInv
<1> QED
  BY <1>3, <1>4 DEF SInv, Issued, Asked, Renewed, NobodyWaitsInVain, ReplayedOnce

LEMMA SignInInv ==
  ASSUME SInv, NEW t \in Tabs, NEW a \in plan.who, SignIn(t, a)
  PROVE  SInv'
<1>0. PICK n \in Nat : n = Len(pairs)
  BY LenNat DEF SInv
<1>1. n \in Nat /\ n + 1 <= MaxPairs
  BY <1>0, LenNat, Constants DEF SInv, SignIn
<1>2. a \in Accounts
  BY Constants DEF SInv, Issued
<1>3. pairs' \in Seq(Pair) /\ Len(pairs') = n + 1
  BY <1>0, <1>2 DEF SignIn, SInv, Issued, Pair
<1>4. [who |-> a, pair |-> n + 1] \in Stores(n + 1)
  BY <1>1, <1>2 DEF Stores
<1>5. Held(n + 1) /\ Asked(n + 1) /\ Renewed(n + 1)
  <2>1. Held(n) /\ Asked(n) /\ Renewed(n)
    BY <1>0 DEF SInv
  <2>2. /\ Stores(n) \subseteq Stores(n + 1) /\ Asks(n) \subseteq Asks(n + 1)
        /\ Refreshes(n) \subseteq Refreshes(n + 1)
    BY Monotone
  <2> QED  BY <2>1, <2>2 DEF Held, Asked, Renewed
<1>6. UNCHANGED <<app, plan, req, cached>>
  BY DEF SignIn
<1>9. /\ refresh' \in [Tabs -> Refreshes(n + 1)]
      /\ \A u \in Tabs : refresh[u].st # "none" => refresh'[u].st # "none"
  <2>1. PICK left \in BOOLEAN : refresh' = [refresh EXCEPT ![t].left = left]
    BY DEF SignIn, SInv, Renewed, Refreshes
  <2> QED  BY <1>5, <2>1 DEF Renewed, Refreshes
<1>7. Held(n + 1)' /\ Asked(n + 1)' /\ Renewed(n + 1)'
  <2>1. Stored(t, [who |-> a, pair |-> n + 1])
    BY <1>0 DEF SignIn
  <2>2. Held(n + 1)'
    <3>1. mem \in [Tabs -> Stores(n + 1)]
      BY <1>5 DEF Held
    <3>2. mem' \in [Tabs -> Stores(n + 1)] /\ disk' \in Stores(n + 1)
      BY <2>1, <3>1, <1>4 DEF Stored
    <3> QED  BY <3>2 DEF Held
  <2> QED  BY <2>2, <1>5, <1>6, <1>9 DEF Asked, Renewed
<1>8. Issued'
  BY <1>1, <1>3, <1>6 DEF SignIn, SInv, Issued
<1>10. NobodyWaitsInVain' /\ ReplayedOnce'
  BY <1>6, <1>9 DEF SInv, NobodyWaitsInVain, ReplayedOnce
<1> QED  BY <1>3, <1>7, <1>8, <1>10 DEF SInv, Held, Asked, Renewed

-----------------------------------------------------------------------------
\* Steps that change one request of a tab, to one that does not wait, and at most
\* the store, and the refresh call but for its place.
LEMMA RequestStep ==
  ASSUME SInv, NEW t \in Tabs, NEW r \in Requests,
         NEW q \in Asks(Len(pairs)), q.st # "parked",
         req' = [req EXCEPT ![t][r] = q],
         Held(Len(pairs))', Issued', Len(pairs') = Len(pairs),
         Renewed(Len(pairs))',
         \A u \in Tabs : refresh[u].st # "none" => refresh'[u].st # "none"
  PROVE  SInv'
<1>1. Len(pairs) \in Nat
  BY LenNat DEF SInv
<1>2. /\ Asked(Len(pairs))'
      /\ \A u \in Tabs : \A p \in Requests :
            req'[u][p].st = "parked" => req'[u][p] = req[u][p]
  <2>1. /\ req' \in [Tabs -> [Requests -> Asks(Len(pairs))]]
        /\ \A u \in Tabs : \A p \in Requests :
            req'[u][p].st = "parked" => req'[u][p] = req[u][p]
    BY DEF SInv, Asked
  <2> QED  BY <2>1 DEF Asked
<1>3. NobodyWaitsInVain' /\ ReplayedOnce'
  BY <1>2, Waits
<1> QED  BY <1>2, <1>3 DEF SInv

LEMMA SendInv ==
  ASSUME SInv, NEW t \in Tabs, NEW r \in Requests, Send(t, r) \/ Logout(t, r)
  PROVE  SInv'
<1>1. PICK q : /\ q \in Asks(Len(pairs)) /\ q.st # "parked"
               /\ req' = [req EXCEPT ![t][r] = q]
  <2>1. PICK logout \in {0, mem[t].pair} : req' = [req EXCEPT ![t][r] = Sent(mem[t].pair, logout)]
    BY DEF Send, Logout
  <2>2. mem[t].pair \in 0..Len(pairs) /\ Len(pairs) \in Nat
    BY LenNat DEF SInv, Held, Stores
  <2>3. Sent(mem[t].pair, logout) \in Asks(Len(pairs)) /\ Sent(mem[t].pair, logout).st = "sent"
    BY <2>2 DEF Sent, Asks
  <2> QED  BY <2>1, <2>3
<1>2. UNCHANGED <<app, plan, pairs, disk, mem, at, refresh, cached>>
  BY DEF Send, Logout
<1> QED  BY <1>1, <1>2, RequestStep DEF SInv, Issued, Held, Renewed

\* The end of a logout call.
LEMMA SignedOutInv ==
  ASSUME SInv, NEW t \in Tabs, NEW r \in Requests, SignedOut(t, r),
         UNCHANGED <<app, plan, pairs>>
  PROVE  SInv'
<1>1. Len(pairs) \in Nat
  BY LenNat DEF SInv
<1>2. Held(Len(pairs))'
  BY <1>1, Blanks, StoredHeld DEF SignedOut, SInv, Held, Stored
<1>3. /\ Renewed(Len(pairs))'
      /\ \A u \in Tabs : refresh[u].st # "none" => refresh'[u].st # "none"
  <2>1. PICK left \in BOOLEAN : refresh' = [refresh EXCEPT ![t].left = left]
    BY DEF SignedOut, SInv, Renewed, Refreshes
  <2> QED  BY <2>1 DEF SInv, Renewed, Refreshes
<1>4. Issued'
  BY DEF SignedOut, SInv, Issued
<1>5. Idle \in Asks(Len(pairs)) /\ Idle.st # "parked"
  BY <1>1, Blanks DEF Idle
<1> QED  BY <1>2, <1>3, <1>4, <1>5, RequestStep DEF SignedOut

LEMMA DroppedInv ==
  ASSUME SInv, NEW t \in Tabs, NEW r \in Requests, Dropped(t, r),
         UNCHANGED <<app, plan, pairs>>
  PROVE  SInv'
<1>1. CASE SignedOut(t, r)
  BY <1>1, SignedOutInv
<1>2. CASE req' = [req EXCEPT ![t][r] = Idle] /\ UNCHANGED <<mem, disk, at, refresh, cached>>
  <2>1. Idle \in Asks(Len(pairs)) /\ Idle.st # "parked"
    BY LenNat, Blanks DEF Idle, SInv
  <2>2. Held(Len(pairs))' /\ Issued' /\ Renewed(Len(pairs))'
    BY <1>2 DEF SInv, Issued, Held, Renewed
  <2> QED  BY <1>2, <2>1, <2>2, RequestStep
<1> QED  BY <1>1, <1>2 DEF Dropped

LEMMA ServedInv ==
  ASSUME SInv, NEW t \in Tabs, NEW r \in Requests, Served(t, r)
  PROVE  SInv'
<1>1. UNCHANGED <<app, plan, pairs, at, refresh>>
  BY DEF Served, Loaded
<1>2. PICK a : a = pairs[req[t][r].pair].owner
  OBVIOUS
<1>3. a \in Accounts
  <2>1. req[t][r].pair \in 0..Len(pairs)
    BY LenNat DEF SInv, Asked, Asks
  <2>2. req[t][r].pair # 0
    BY DEF Served, Answer
  <2>3. pairs[req[t][r].pair] \in Pair
    BY <2>1, <2>2, LenNat DEF SInv, Issued
  <2> QED  BY <1>2, <2>3 DEF Pair
<1>4. Held(Len(pairs))' /\ cached' \in [Tabs -> Accounts \cup {Nobody}]
  <2>1. CASE UNCHANGED <<cached, mem, disk>>
    BY <1>1, <2>1 DEF SInv, Issued, Held
  <2>2. CASE cached' = [cached EXCEPT ![t] = a] /\ Stored(t, [mem[t] EXCEPT !.who = a])
    <3>1. [mem[t] EXCEPT !.who = a] \in Stores(Len(pairs))
      BY <1>3 DEF SInv, Held, Stores
    <3> QED  BY <1>1, <1>3, <2>2, <3>1 DEF SInv, Issued, Held, Stored
  <2> QED  BY <1>2, <2>1, <2>2 DEF Served, Loaded
<1>5. Idle \in Asks(Len(pairs)) /\ Idle.st # "parked"
  BY LenNat, Blanks DEF Idle, SInv
<1>6. req' = [req EXCEPT ![t][r] = Idle]
  BY DEF Served, Loaded
<1> QED  BY <1>1, <1>4, <1>5, <1>6, RequestStep DEF SInv, Issued, Renewed

LEMMA RevokeInv ==
  ASSUME SInv, NEW t \in Tabs, NEW r \in Requests, Revoke(t, r)
  PROVE  SInv'
<1>1. PICK m : m = req[t][r].logout
  OBVIOUS
<1>2. m \in 1..Len(pairs) /\ Len(pairs) \in Nat
  BY <1>1, LenNat DEF Revoke, SInv, Asked, Asks
<1>3. pairs' \in Seq(Pair) /\ Len(pairs') = Len(pairs)
  <2>1. PICK p : p = [pairs[m] EXCEPT !.live = FALSE]
    OBVIOUS
  <2>2. p \in Pair
    <3>1. pairs[m] \in Pair
      BY <1>2, ElementOfSeq DEF SInv, Issued
    <3> QED  BY <2>1, <3>1 DEF Pair
  <2>3. pairs' = [pairs EXCEPT ![m] = p]
    BY <1>1, <2>1 DEF Revoke
  <2> QED  BY <1>2, <2>2, <2>3, ExceptSeq DEF SInv, Issued
<1>4. PICK q : q = [req[t][r] EXCEPT !.st = "answered"]
  OBVIOUS
<1>5. q \in Asks(Len(pairs)) /\ q.st = "answered"
  <2>1. req[t][r] \in Asks(Len(pairs))
    BY DEF SInv, Asked
  <2> QED  BY <1>4, <2>1 DEF Asks
<1>6. req' = [req EXCEPT ![t][r] = q]
  BY <1>4 DEF Revoke
<1>7. UNCHANGED <<app, plan, disk, mem, at, refresh, cached>>
  BY DEF Revoke
<1>8. Held(Len(pairs))' /\ Issued' /\ Renewed(Len(pairs))'
  BY <1>3, <1>7 DEF SInv, Issued, Held, Renewed
<1> QED  BY <1>3, <1>5, <1>6, <1>7, <1>8, RequestStep

-----------------------------------------------------------------------------
\* forceLogout: the tab goes on with requests that do not wait, or as before.
LEMMA ForceLogoutInv ==
  ASSUME SInv, NEW t \in Tabs,
         NEW q \in [Requests -> Asks(Len(pairs))], NEW c \in Refreshes(Len(pairs)),
         \A r \in Requests : q[r].st = "parked" => c.st # "none" /\ q[r] = req[t][r],
         ForceLogout(t, q, c), UNCHANGED <<app, plan, pairs>>
  PROVE  SInv'
<1>1. Len(pairs) \in Nat
  BY LenNat DEF SInv
<1>2. Held(Len(pairs))' /\ at' \in [Tabs -> {"login", "app"}]
  <2>1. Stored(t, Blank) /\ at' = [at EXCEPT ![t] = "login"]
    BY DEF ForceLogout
  <2>2. Held(Len(pairs))'
    BY <1>1, <2>1, Blanks DEF SInv, Held, Stored
  <2> QED  BY <2>1, <2>2 DEF SInv, Issued
<1>3. CASE at[t] = "app"
  <2>1. FreshPage(t)
    BY <1>3 DEF ForceLogout
  <2> QED  BY <1>2, <2>1, Fresh DEF SInv, Issued
<1>4. CASE at[t] # "app"
  <2>1. /\ req' = [req EXCEPT ![t] = q] /\ refresh' = [refresh EXCEPT ![t] = c]
        /\ UNCHANGED cached
    BY <1>4 DEF ForceLogout
  <2>2. Asked(Len(pairs))' /\ Renewed(Len(pairs))'
    <3>1. /\ req' \in [Tabs -> [Requests -> Asks(Len(pairs))]]
          /\ refresh' \in [Tabs -> Refreshes(Len(pairs))]
      BY <2>1 DEF SInv, Asked, Renewed
    <3> QED  BY <3>1 DEF Asked, Renewed
  <2>3. NobodyWaitsInVain' /\ ReplayedOnce'
    BY <2>1 DEF SInv, Asked, Renewed, NobodyWaitsInVain, ReplayedOnce
  <2> QED  BY <1>2, <2>1, <2>2, <2>3 DEF SInv, Issued
<1> QED  BY <1>3, <1>4

LEMMA RefusedInv ==
  ASSUME SInv, NEW t \in Tabs, NEW r \in Requests, Refused(t, r)
  PROVE  SInv'
<1>0. UNCHANGED <<app, plan, pairs>> /\ Len(pairs) \in Nat
  BY LenNat DEF Refused, SInv
<1>1. CASE Dropped(t, r)
  BY <1>0, <1>1, DroppedInv
<1>2. CASE /\ On401(req[t][r].replay, Answer(req[t][r].pair)) = "refresh"
           /\ refresh[t].st # "none" \/ mem[t].pair # 0
           /\ JoinRefresh(t, r)
  <2>1. ~ req[t][r].replay
    <3>1. \A code : /\ UserOn401(TRUE, code) = "settle" /\ MerchantOn401(TRUE, code) = "settle"
                    /\ AdminOn401(TRUE, code) = "leave"
      BY DEF UserOn401, MerchantOn401, AdminOn401
    <3>2. \A code : On401(TRUE, code) # "refresh"
      BY <3>1 DEF On401
    <3>3. req[t][r].replay \in BOOLEAN
      BY DEF SInv, Asked, Asks
    <3>4. SUFFICES ASSUME req[t][r].replay = TRUE  PROVE FALSE
      BY <3>3
    <3> QED  BY <1>2, <3>2, <3>4
  <2>2. PICK c \in Refreshes(Len(pairs)) : /\ refresh' = [refresh EXCEPT ![t] = c]
                                           /\ c.st # "none"
    <3>1. CASE refresh[t].st = "none"
      <4>1. mem[t].pair \in 0..Len(pairs) /\ mem[t].pair # 0
        BY <1>2, <3>1 DEF SInv, Held, Stores
      <4>2. Presents(mem[t].pair) \in Refreshes(Len(pairs)) /\ Presents(mem[t].pair).st = "sent"
        BY <1>0, <4>1 DEF Presents, Refreshes
      <4> QED  BY <1>2, <3>1, <4>2 DEF JoinRefresh
    <3>2. CASE refresh[t].st # "none"
      <4>1. refresh' = [refresh EXCEPT ![t] = refresh[t]] /\ refresh[t] \in Refreshes(Len(pairs))
        BY <1>2, <3>2 DEF JoinRefresh, SInv, Renewed
      <4> QED  BY <3>2, <4>1
    <3> QED  BY <3>1, <3>2
  <2>3. PICK q \in Asks(Len(pairs)) : /\ req' = [req EXCEPT ![t][r] = q]
                                      /\ ~ q.replay
    <3>1. req[t][r] \in Asks(Len(pairs))
      BY DEF SInv, Asked
    <3>2. PICK q : q = [st |-> "parked", replay |-> req[t][r].replay,
                        logout |-> req[t][r].logout, pair |-> 0]
      OBVIOUS
    <3>3. req' = [req EXCEPT ![t] = [req[t] EXCEPT ![r] = q]]
      BY <1>2, <3>1, <3>2 DEF JoinRefresh, Parked
    <3>4. q \in Asks(Len(pairs)) /\ ~ q.replay
      BY <1>0, <2>1, <3>1, <3>2 DEF Asks
    <3> QED  BY <3>3, <3>4
  <2>4. Asked(Len(pairs))' /\ Renewed(Len(pairs))'
    <3>1. /\ req' \in [Tabs -> [Requests -> Asks(Len(pairs))]]
          /\ refresh' \in [Tabs -> Refreshes(Len(pairs))]
      BY <2>2, <2>3 DEF SInv, Asked, Renewed
    <3> QED  BY <1>0, <3>1 DEF Asked, Renewed
  <2>5. NobodyWaitsInVain' /\ ReplayedOnce'
    BY <2>2, <2>3 DEF SInv, Asked, Renewed, NobodyWaitsInVain, ReplayedOnce
  <2> QED  BY <1>0, <1>2, <2>4, <2>5 DEF JoinRefresh, SInv, Issued, Held
<1>3. CASE ForceLogout(t, [req[t] EXCEPT ![r] = Idle], refresh[t])
  <2>1. PICK q : q = [req[t] EXCEPT ![r] = Idle]
    OBVIOUS
  <2>2. q \in [Requests -> Asks(Len(pairs))] /\ refresh[t] \in Refreshes(Len(pairs))
    BY <1>0, <2>1, Blanks DEF SInv, Asked, Renewed
  <2>3. \A p \in Requests : q[p].st = "parked" => refresh[t].st # "none" /\ q[p] = req[t][p]
    BY <2>1 DEF SInv, Asked, NobodyWaitsInVain, Idle
  <2> QED  BY <1>0, <1>3, <2>1, <2>2, <2>3, ForceLogoutInv
<1> QED  BY <1>1, <1>2, <1>3 DEF Refused

-----------------------------------------------------------------------------
\* The refresh call goes on: to another stage, never to none.
LEMMA RefreshStep ==
  ASSUME SInv, NEW t \in Tabs, NEW c \in Refreshes(Len(pairs)), c.st # "none",
         refresh' = [refresh EXCEPT ![t] = c],
         UNCHANGED <<app, plan, pairs, disk, mem, at, req, cached>>
  PROVE  SInv'
<1>1. Renewed(Len(pairs))'
  <2>1. refresh' \in [Tabs -> Refreshes(Len(pairs))]
    BY DEF SInv, Renewed
  <2> QED  BY <2>1 DEF Renewed
<1>2. \A u \in Tabs : refresh[u].st # "none" => refresh'[u].st # "none"
  BY DEF SInv, Renewed
<1>3. NobodyWaitsInVain' /\ ReplayedOnce'
  BY <1>2, Waits
<1> QED  BY <1>1, <1>3 DEF SInv, Issued, Held, Asked

LEMMA RefreshCallInv ==
  ASSUME SInv, NEW t \in Tabs, RefreshRead(t) \/ RefreshLost(t)
  PROVE  SInv'
<1>1. PICK st \in {"read", "refused", "lost"} :
        refresh' = [refresh EXCEPT ![t].st = st]
  BY DEF RefreshRead, RefreshLost
<1>2. refresh[t].st = "sent" \/ st = "lost"
  <2>1. CASE RefreshRead(t)
    BY <2>1 DEF RefreshRead
  <2>2. CASE RefreshLost(t)
    <3>1. refresh'[t].st = "lost"
      BY <2>2 DEF RefreshLost, SInv, Renewed, Refreshes
    <3>2. refresh'[t].st = st
      BY <1>1 DEF SInv, Renewed, Refreshes
    <3> QED  BY <3>1, <3>2
  <2> QED  BY <2>1, <2>2
<1>3. PICK c : c = [refresh[t] EXCEPT !.st = st]
  OBVIOUS
<1>4. c \in Refreshes(Len(pairs)) /\ c.st # "none"
  <2>1. refresh[t] \in Refreshes(Len(pairs))
    BY DEF SInv, Renewed
  <2> QED  BY <1>2, <1>3, <2>1 DEF Refreshes
<1>5. refresh' = [refresh EXCEPT ![t] = c]
  BY <1>1, <1>3
<1>6. UNCHANGED <<app, plan, pairs, disk, mem, at, req, cached>>
  BY DEF RefreshRead, RefreshLost
<1> QED  BY <1>4, <1>5, <1>6, RefreshStep

LEMMA RefreshGrantInv ==
  ASSUME SInv, NEW t \in Tabs, RefreshGrant(t)
  PROVE  SInv'
<1>0. PICK n \in Nat : n = Len(pairs) /\ n + 1 <= MaxPairs
  BY LenNat, Constants DEF SInv, RefreshGrant
<1>1. PICK m : m = refresh[t].old
  OBVIOUS
<1>2. m \in 1..n
  <2>1. refresh[t] \in Refreshes(n)
    BY <1>0 DEF SInv, Renewed
  <2> QED  BY <1>0, <1>1, <2>1 DEF RefreshGrant, Refreshes
<1>3. pairs' \in Seq(Pair) /\ Len(pairs') = n + 1
  <2>1. pairs[m] \in Pair
    BY <1>0, <1>2, ElementOfSeq DEF SInv, Issued
  <2>2. PICK p : p = [pairs[m] EXCEPT !.live = FALSE]
    OBVIOUS
  <2>3. p \in Pair
    BY <2>1, <2>2 DEF Pair
  <2>4. PICK ps : ps = [pairs EXCEPT ![m] = p]
    OBVIOUS
  <2>5. ps \in Seq(Pair) /\ Len(ps) = n
    BY <1>0, <1>2, <2>3, <2>4, ExceptSeq DEF SInv, Issued
  <2>6. [owner |-> pairs[m].owner, live |-> TRUE, fresh |-> TRUE] \in Pair
    BY <2>1 DEF Pair
  <2>7. pairs' = Append(ps, [owner |-> pairs[m].owner, live |-> TRUE, fresh |-> TRUE])
    BY <1>1, <2>2, <2>4 DEF RefreshGrant
  <2> QED  BY <2>5, <2>6, <2>7
<1>4. Held(n + 1) /\ Asked(n + 1) /\ Renewed(n + 1)
  <2>1. Held(n) /\ Asked(n) /\ Renewed(n)
    BY <1>0 DEF SInv
  <2>2. /\ Stores(n) \subseteq Stores(n + 1) /\ Asks(n) \subseteq Asks(n + 1)
        /\ Refreshes(n) \subseteq Refreshes(n + 1)
    BY Monotone
  <2> QED  BY <2>1, <2>2 DEF Held, Asked, Renewed
<1>5. PICK c : /\ c = [st |-> "granted", old |-> m, new |-> n + 1, left |-> refresh[t].left]
               /\ refresh' = [refresh EXCEPT ![t] = c]
  BY <1>0, <1>1 DEF RefreshGrant
<1>6. c \in Refreshes(n + 1) /\ c.st = "granted"
  <2>1. refresh[t].left \in BOOLEAN
    BY DEF SInv, Renewed, Refreshes
  <2> QED  BY <1>2, <1>5, <2>1 DEF Refreshes
<1>7. UNCHANGED <<app, plan, disk, mem, at, req, cached>>
  BY DEF RefreshGrant
<1>8. Held(n + 1)' /\ Asked(n + 1)' /\ Renewed(n + 1)'
  <2>1. refresh' \in [Tabs -> Refreshes(n + 1)]
    BY <1>4, <1>5, <1>6 DEF Renewed
  <2> QED  BY <1>4, <1>7, <2>1 DEF Held, Asked, Renewed
<1>9. NobodyWaitsInVain' /\ ReplayedOnce'
  <2>1. \A u \in Tabs : refresh[u].st # "none" => refresh'[u].st # "none"
    BY <1>5, <1>6 DEF SInv, Renewed
  <2> QED  BY <1>7, <2>1, Waits
<1>10. Issued'
  BY <1>0, <1>3, <1>7 DEF SInv, Issued
<1> QED  BY <1>3, <1>8, <1>9, <1>10 DEF SInv, Held, Asked, Renewed

\* The new pair is stored, and those who waited are replayed, all at once.
LEMMA RefreshStoredInv ==
  ASSUME SInv, NEW t \in Tabs, RefreshStored(t)
  PROVE  SInv'
<1>1. PICK n : n = refresh[t].new
  OBVIOUS
<1>2. n \in 0..Len(pairs) /\ Len(pairs) \in Nat
  BY <1>1, LenNat DEF SInv, Renewed, Refreshes
<1>3. UNCHANGED <<app, plan, pairs, at, cached>>
  BY DEF RefreshStored
<1>4. Held(Len(pairs))'
  <2>1. PICK s : s = [mem[t] EXCEPT !.pair = n]
    OBVIOUS
  <2>2. mem[t] \in Stores(Len(pairs))
    BY DEF SInv, Held
  <2>3. s \in Stores(Len(pairs))
    BY <1>2, <2>1, <2>2 DEF Stores
  <2>4. Stored(t, s)
    BY <1>1, <2>1 DEF RefreshStored
  <2>5. mem' \in [Tabs -> Stores(Len(pairs))] /\ disk' \in Stores(Len(pairs))
    BY <2>3, <2>4 DEF SInv, Held, Stored
  <2> QED  BY <1>3, <2>5 DEF Held
<1>5. PICK q : q = [r \in Requests |->
                     IF req[t][r].st = "parked"
                     THEN [st |-> "sent", replay |-> TRUE, logout |-> req[t][r].logout, pair |-> n]
                     ELSE req[t][r]]
  OBVIOUS
<1>6. /\ q \in [Requests -> Asks(Len(pairs))]
      /\ \A r \in Requests : q[r].st # "parked"
  <2>1. \A r \in Requests : req[t][r] \in Asks(Len(pairs))
    BY DEF SInv, Asked
  <2> QED  BY <1>2, <1>5, <2>1 DEF Asks
<1>7. req' = [req EXCEPT ![t] = q] /\ refresh' = [refresh EXCEPT ![t] = NoRefresh]
  <2>1. req' = [req EXCEPT ![t] = [r \in Requests |->
                     IF req[t][r].st = "parked"
                     THEN [st |-> "sent", replay |-> TRUE, logout |-> req[t][r].logout, pair |-> n]
                     ELSE req[t][r]]]
    BY <1>1 DEF RefreshStored
  <2> QED  BY <1>5, <2>1 DEF RefreshStored
<1>8. Asked(Len(pairs))' /\ Renewed(Len(pairs))'
  <2>1. /\ req' \in [Tabs -> [Requests -> Asks(Len(pairs))]]
        /\ refresh' \in [Tabs -> Refreshes(Len(pairs))]
    BY <1>2, <1>6, <1>7, Blanks DEF SInv, Asked, Renewed
  <2> QED  BY <1>3, <2>1 DEF Asked, Renewed
<1>9. NobodyWaitsInVain' /\ ReplayedOnce'
  BY <1>6, <1>7 DEF SInv, Asked, Renewed, NobodyWaitsInVain, ReplayedOnce
<1> QED  BY <1>3, <1>4, <1>8, <1>9 DEF SInv, Issued

LEMMA RefreshFailedInv ==
  ASSUME SInv, NEW t \in Tabs, RefreshFailed(t)
  PROVE  SInv'
<1>1. PICK q : q = [r \in Requests |-> IF req[t][r].st = "parked" THEN Idle ELSE req[t][r]]
  OBVIOUS
<1>2. Idle \in Asks(Len(pairs)) /\ NoRefresh \in Refreshes(Len(pairs)) /\ Idle.st = "idle"
  BY LenNat, Blanks DEF SInv, Idle
<1>3. q \in [Requests -> Asks(Len(pairs))] /\ \A r \in Requests : q[r].st # "parked"
  BY <1>1, <1>2 DEF SInv, Asked
<1>4. ForceLogout(t, q, NoRefresh) /\ UNCHANGED <<app, plan, pairs>>
  BY <1>1 DEF RefreshFailed
<1> QED  BY <1>2, <1>3, <1>4, ForceLogoutInv

LEMMA ExpireInv ==
  ASSUME SInv, Expire
  PROVE  SInv'
<1>1. PICK n \in DOMAIN pairs : pairs' = [pairs EXCEPT ![n].fresh = FALSE]
  BY DEF Expire
<1>2. pairs' \in Seq(Pair) /\ Len(pairs') = Len(pairs)
  <2>1. n \in 1..Len(pairs) /\ pairs[n] \in Pair
    BY ElementOfSeq DEF SInv, Issued
  <2>2. PICK p : p = [pairs[n] EXCEPT !.fresh = FALSE]
    OBVIOUS
  <2>3. p \in Pair
    BY <2>1, <2>2 DEF Pair
  <2>4. pairs' = [pairs EXCEPT ![n] = p]
    BY <1>1, <2>2
  <2> QED  BY <2>1, <2>3, <2>4, ExceptSeq DEF SInv, Issued
<1>3. UNCHANGED <<app, plan, disk, mem, at, req, refresh, cached>>
  BY DEF Expire
<1> QED
  BY <1>2, <1>3 DEF SInv, Issued, Held, Asked, Renewed, NobodyWaitsInVain, ReplayedOnce

-----------------------------------------------------------------------------
LEMMA SessionStep ==
  ASSUME SInv, [Next]_vars
  PROVE  SInv'
<1>1. CASE UNCHANGED vars
  BY <1>1 DEF vars, SInv, Issued, Held, Asked, Renewed, NobodyWaitsInVain, ReplayedOnce
<1>2. CASE Expire
  BY <1>2, ExpireInv
<1>3. ASSUME NEW t \in Tabs, TabStep(t)  PROVE SInv'
  <2>1. plan.slots[t] \subseteq Requests
    BY Constants DEF SInv, Issued
  <2>2. CASE Reload(t) \/ BootMe(t) \/ \E a \in plan.who : SignIn(t, a)
    BY <2>2, ReloadInv, BootMeInv, SignInInv
  <2>3. ASSUME NEW r \in plan.slots[t],
               \/ Send(t, r) \/ Logout(t, r) \/ Refused(t, r) \/ Served(t, r)
               \/ Revoke(t, r) \/ LogoutDone(t, r) \/ Lost(t, r)
        PROVE  SInv'
    <3>1. r \in Requests
      BY <2>1
    <3>2. CASE Send(t, r) \/ Logout(t, r)
      BY <3>1, <3>2, SendInv
    <3>3. CASE Refused(t, r)
      BY <3>1, <3>3, RefusedInv
    <3>4. CASE Served(t, r) \/ Revoke(t, r)
      BY <3>1, <3>4, ServedInv, RevokeInv
    <3>5. CASE LogoutDone(t, r)
      BY <3>1, <3>5, SignedOutInv DEF LogoutDone
    <3>6. CASE Lost(t, r)
      BY <3>1, <3>6, DroppedInv DEF Lost
    <3> QED  BY <2>3, <3>2, <3>3, <3>4, <3>5, <3>6
  <2>4. CASE RefreshRead(t) \/ RefreshLost(t)
    BY <2>4, RefreshCallInv
  <2>5. CASE RefreshGrant(t) \/ RefreshStored(t) \/ RefreshFailed(t)
    BY <2>5, RefreshGrantInv, RefreshStoredInv, RefreshFailedInv
  <2> QED  BY <1>3, <2>2, <2>3, <2>4, <2>5 DEF TabStep
<1> QED  BY <1>1, <1>2, <1>3 DEF Next

LEMMA SessionInvariant == Spec => []SInv
<1> QED  BY SessionInit, SessionStep, PTL DEF Spec

\* For any tabs, accounts and requests, stores, requests and refresh calls keep
\* to their types: above all, every token held was issued.
THEOREM SessionTypes == Spec => []TypeOK
<1>1. SInv => TypeOK
  <2>1. SUFFICES ASSUME SInv  PROVE TypeOK
    OBVIOUS
  <2>2. Len(pairs) \in Nat /\ MaxPairs \in Nat /\ Len(pairs) <= MaxPairs
    BY <2>1, LenNat, Constants DEF SInv
  <2>3. /\ Stores(Len(pairs)) \subseteq Store
        /\ Asks(Len(pairs)) \subseteq Request
        /\ Refreshes(Len(pairs)) \subseteq RefreshCall
    <3>1. 0..Len(pairs) \subseteq 0..MaxPairs
      BY <2>2
    <3> QED  BY <3>1 DEF Stores, Asks, Refreshes, Store, Request, RefreshCall
  <2>4. disk \in Store /\ mem \in [Tabs -> Store]
    BY <2>1, <2>3 DEF SInv, Held
  <2>5. req \in [Tabs -> [Requests -> Request]]
    BY <2>1, <2>3 DEF SInv, Asked
  <2>6. refresh \in [Tabs -> RefreshCall]
    BY <2>1, <2>3 DEF SInv, Renewed
  <2> QED  BY <2>1, <2>4, <2>5, <2>6 DEF TypeOK, SInv, Issued
<1> QED  BY <1>1, SessionInvariant, PTL

\* A request that waits for a refresh is never forgotten: as long as it waits, a
\* refresh of its tab is under way.
THEOREM WaitersAreServed == Spec => []NobodyWaitsInVain
<1>1. SInv => NobodyWaitsInVain
  BY DEF SInv
<1> QED  BY <1>1, SessionInvariant, PTL

\* No request goes through a second refresh: a replay never waits.
THEOREM OneReplay == Spec => []ReplayedOnce
<1>1. SInv => ReplayedOnce
  BY DEF SInv
<1> QED  BY <1>1, SessionInvariant, PTL

-----------------------------------------------------------------------------
(* What is known of a refresh, beyond its type: the session it renews is the  *)
(* one its tab is in, unless the user has left that one since; and a refresh  *)
(* that was refused had presented a token that is revoked for good.           *)

\* A request on its way carries a token, and only logout calls have an answer
\* that is still to be read.
Sends(q) == (q.st = "sent" => q.pair # 0) /\ (q.st = "answered" => q.logout # 0)

\* c: the refresh call, n: the pair the tab holds, ps: the pairs issued.
Knows(c, n, ps) ==
    /\ c.st = "granted" => c.new # 0
    /\ c.st = "refused" => c.old \in 1..Len(ps) /\ ~ ps[c.old].live
    /\ c.st # "none" /\ ~ c.left => n \in {0, c.old}

TabKnown(t) ==
    /\ \A r \in Requests : Sends(req[t][r])
    /\ Knows(refresh[t], mem[t].pair, pairs)

Known == \A t \in Tabs : TabKnown(t)

\* Pairs are added, and what was revoked stays revoked.
NoneRevived ==
    /\ Len(pairs) \in Nat /\ Len(pairs') \in Nat /\ Len(pairs) <= Len(pairs')
    /\ \A n \in 1..Len(pairs) : ~ pairs[n].live => ~ pairs'[n].live

LEMMA BlankKnown ==
  /\ Sends(Idle)
  /\ \A n, ps : Knows(NoRefresh, n, ps)
  BY DEF Sends, Idle, Knows, NoRefresh

\* The call stays as it was, or is left; the tab holds what it held, or nothing.
LEMMA StillKnown ==
  ASSUME NEW t \in Tabs, TabKnown(t), NoneRevived,
         refresh'[t].st = refresh[t].st, refresh'[t].old = refresh[t].old,
         refresh'[t].new = refresh[t].new, refresh[t].left => refresh'[t].left,
         \/ mem'[t].pair = 0 \/ mem'[t].pair = mem[t].pair
         \/ refresh'[t].st = "none" \/ refresh'[t].left
  PROVE  Knows(refresh'[t], mem'[t].pair, pairs')
<1>1. Knows(refresh[t], mem[t].pair, pairs)
  BY DEF TabKnown
<1>3. refresh'[t].st = "refused" =>
        refresh'[t].old \in 1..Len(pairs') /\ ~ pairs'[refresh'[t].old].live
  <2>1. SUFFICES ASSUME refresh[t].st = "refused"
                 PROVE  refresh[t].old \in 1..Len(pairs') /\ ~ pairs'[refresh[t].old].live
    OBVIOUS
  <2>2. refresh[t].old \in 1..Len(pairs) /\ ~ pairs[refresh[t].old].live
    BY <1>1, <2>1 DEF Knows
  <2>3. 1..Len(pairs) \subseteq 1..Len(pairs')
    BY DEF NoneRevived
  <2> QED  BY <2>2, <2>3 DEF NoneRevived
<1>4. refresh'[t].st # "none" /\ ~ refresh'[t].left => mem'[t].pair \in {0, refresh'[t].old}
  BY <1>1 DEF Knows
<1> QED  BY <1>1, <1>3, <1>4 DEF Knows


\* No pair changes: none is revived.
LEMMA PairsStay ==
  ASSUME SInv, UNCHANGED pairs
  PROVE  NoneRevived
  BY LenNat DEF SInv, NoneRevived

\* A pair is revoked or runs out.
LEMMA PairWears ==
  ASSUME SInv, NEW n \in 1..Len(pairs), NEW p, ~ pairs[n].live => ~ p.live,
         pairs' = [pairs EXCEPT ![n] = p], Len(pairs') = Len(pairs)
  PROVE  NoneRevived
<1>1. Len(pairs) \in Nat
  BY LenNat DEF SInv
<1>2. DOMAIN pairs = 1..Len(pairs)
  BY DEF SInv, Issued
<1>3. \A m \in 1..Len(pairs) : ~ pairs[m].live => ~ pairs'[m].live
  BY <1>2
<1> QED  BY <1>1, <1>3 DEF NoneRevived

\* A pair more.
LEMMA PairMore ==
  ASSUME SInv, NEW p, NEW ps, DOMAIN ps = 1..Len(pairs), ps \in Seq(Pair),
         Len(ps) = Len(pairs), p \in Pair, pairs' = Append(ps, p),
         \A m \in 1..Len(pairs) : ~ pairs[m].live => ~ ps[m].live
  PROVE  NoneRevived
<1>1. Len(pairs) \in Nat
  BY LenNat DEF SInv
<1>2. Len(pairs') = Len(pairs) + 1 /\ \A m \in 1..Len(pairs) : pairs'[m] = ps[m]
  BY <1>1
<1> QED  BY <1>1, <1>2 DEF NoneRevived

-----------------------------------------------------------------------------
\* Steps of the store.
LEMMA ReloadKnown ==
  ASSUME SInv, Known, NEW t \in Tabs, Reload(t)
  PROVE  NoneRevived /\ TabKnown(t)'
<1>1. PICK none : none = [r \in Requests |-> Idle]
  OBVIOUS
<1>2. /\ req' = [req EXCEPT ![t] = none] /\ refresh' = [refresh EXCEPT ![t] = NoRefresh]
      /\ UNCHANGED pairs
  BY <1>1 DEF Reload, FreshPage
<1>3. req'[t] = none /\ refresh'[t] = NoRefresh
  BY <1>2 DEF SInv, Asked, Renewed
<1>4. \A r \in Requests : Sends(req'[t][r])
  BY <1>1, <1>3, BlankKnown
<1>5. Knows(refresh'[t], mem'[t].pair, pairs')
  BY <1>3, BlankKnown
<1> QED  BY <1>2, <1>4, <1>5, PairsStay DEF TabKnown

LEMMA BootMeKnown ==
  ASSUME SInv, Known, NEW t \in Tabs, BootMe(t)
  PROVE  NoneRevived /\ TabKnown(t)'
<1>1. UNCHANGED <<pairs, req, refresh>>
  BY DEF BootMe
<1>2. mem'[t].pair = mem[t].pair
  BY DEF BootMe, Stored, SInv, Held, Stores
<1>3. NoneRevived
  BY <1>1, PairsStay
<1>4. Knows(refresh'[t], mem'[t].pair, pairs')
  BY <1>1, <1>2, <1>3, StillKnown DEF Known
<1> QED  BY <1>1, <1>3, <1>4 DEF Known, TabKnown

\* A sign-in leaves the session a refresh is under way for.
LEMMA SignInKnown ==
  ASSUME SInv, Known, NEW t \in Tabs, NEW a \in plan.who, SignIn(t, a)
  PROVE  NoneRevived /\ TabKnown(t)'
<1>1. NoneRevived
  <2>1. a \in Accounts
    BY Constants DEF SInv, Issued
  <2>2. PICK p : p = [owner |-> a, live |-> TRUE, fresh |-> TRUE]
    OBVIOUS
  <2>3. p \in Pair /\ pairs' = Append(pairs, p)
    BY <2>1, <2>2 DEF Pair, SignIn
  <2>4. DOMAIN pairs = 1..Len(pairs) /\ pairs \in Seq(Pair)
    BY DEF SInv, Issued
  <2> QED  BY <2>3, <2>4, PairMore
<1>2. PICK left \in BOOLEAN : /\ refresh' = [refresh EXCEPT ![t].left = left]
                              /\ (refresh[t].left => left)
                              /\ (refresh[t].st # "none" => left)
  BY DEF SignIn, SInv, Renewed, Refreshes
<1>3. /\ refresh'[t].st = refresh[t].st /\ refresh'[t].old = refresh[t].old
      /\ refresh'[t].new = refresh[t].new /\ refresh'[t].left = left
  BY <1>2 DEF SInv, Renewed, Refreshes
<1>4. Knows(refresh'[t], mem'[t].pair, pairs')
  BY <1>1, <1>2, <1>3, StillKnown DEF Known
<1>5. \A r \in Requests : Sends(req'[t][r])
  BY DEF SignIn, Known, TabKnown
<1> QED  BY <1>1, <1>4, <1>5 DEF TabKnown

-----------------------------------------------------------------------------
\* One request of the tab changes.
LEMMA OneSends ==
  ASSUME SInv, NEW t \in Tabs, TabKnown(t), NEW r \in Requests, NEW q, Sends(q),
         req' = [req EXCEPT ![t][r] = q]
  PROVE  \A p \in Requests : Sends(req'[t][p])
<1>1. \A p \in Requests : req'[t][p] = IF p = r THEN q ELSE req[t][p]
  BY DEF SInv, Asked
<1> QED  BY <1>1 DEF TabKnown

LEMMA SendKnown ==
  ASSUME SInv, Known, NEW t \in Tabs, NEW r \in Requests, Send(t, r) \/ Logout(t, r)
  PROVE  NoneRevived /\ TabKnown(t)'
<1>1. UNCHANGED <<pairs, mem, refresh>>
  BY DEF Send, Logout
<1>2. mem[t].pair # 0
  BY DEF Send, Logout, Shows, UserShows, MerchantShows, AdminShows
<1>3. PICK q : Sends(q) /\ req' = [req EXCEPT ![t][r] = q]
  <2>1. PICK logout : req' = [req EXCEPT ![t][r] = Sent(mem[t].pair, logout)]
    BY DEF Send, Logout
  <2>2. Sends(Sent(mem[t].pair, logout))
    BY <1>2 DEF Sends, Sent
  <2> QED  BY <2>1, <2>2
<1>4. \A p \in Requests : Sends(req'[t][p])
  BY <1>3, OneSends DEF Known
<1>5. NoneRevived
  BY <1>1, PairsStay
<1>6. Knows(refresh'[t], mem'[t].pair, pairs')
  BY <1>1, <1>5, StillKnown DEF Known
<1> QED  BY <1>4, <1>5, <1>6 DEF TabKnown

LEMMA DroppedKnown ==
  ASSUME SInv, Known, NEW t \in Tabs, NEW r \in Requests, SignedOut(t, r) \/ Dropped(t, r),
         UNCHANGED pairs
  PROVE  NoneRevived /\ TabKnown(t)'
<1>1. NoneRevived
  BY PairsStay
<1>2. req' = [req EXCEPT ![t][r] = Idle]
  BY DEF SignedOut, Dropped
<1>3. \A p \in Requests : Sends(req'[t][p])
  BY <1>2, BlankKnown, OneSends DEF Known
<1>4. /\ refresh'[t].st = refresh[t].st /\ refresh'[t].old = refresh[t].old
      /\ refresh'[t].new = refresh[t].new /\ (refresh[t].left => refresh'[t].left)
      /\ (mem'[t].pair = 0 \/ mem'[t].pair = mem[t].pair)
  <2>1. CASE SignedOut(t, r)
    <3>1. PICK left \in BOOLEAN : /\ refresh' = [refresh EXCEPT ![t].left = left]
                                  /\ (refresh[t].left => left)
      BY <2>1 DEF SignedOut, SInv, Renewed, Refreshes
    <3>2. /\ refresh'[t].st = refresh[t].st /\ refresh'[t].old = refresh[t].old
          /\ refresh'[t].new = refresh[t].new /\ refresh'[t].left = left
      BY <3>1 DEF SInv, Renewed, Refreshes
    <3>3. mem'[t].pair = 0
      BY <2>1 DEF SignedOut, Stored, Blank, SInv, Held
    <3> QED  BY <3>1, <3>2, <3>3
  <2>2. CASE UNCHANGED <<mem, refresh>>
    BY <2>2
  <2> QED  BY <2>1, <2>2 DEF Dropped
<1>5. Knows(refresh'[t], mem'[t].pair, pairs')
  BY <1>1, <1>4, StillKnown DEF Known
<1> QED  BY <1>1, <1>3, <1>5 DEF TabKnown

LEMMA ServedKnown ==
  ASSUME SInv, Known, NEW t \in Tabs, NEW r \in Requests, Served(t, r)
  PROVE  NoneRevived /\ TabKnown(t)'
<1>1. UNCHANGED <<pairs, refresh>> /\ req' = [req EXCEPT ![t][r] = Idle]
  BY DEF Served, Loaded
<1>2. mem'[t].pair = mem[t].pair
  BY DEF Served, Loaded, Stored, SInv, Held, Stores
<1>3. \A p \in Requests : Sends(req'[t][p])
  BY <1>1, BlankKnown, OneSends DEF Known
<1>4. NoneRevived
  BY <1>1, PairsStay
<1>5. Knows(refresh'[t], mem'[t].pair, pairs')
  BY <1>1, <1>2, <1>4, StillKnown DEF Known
<1> QED  BY <1>3, <1>4, <1>5 DEF TabKnown

LEMMA RevokeKnown ==
  ASSUME SInv, SInv', Known, NEW t \in Tabs, NEW r \in Requests, Revoke(t, r)
  PROVE  NoneRevived /\ TabKnown(t)'
<1>1. PICK m : m = req[t][r].logout
  OBVIOUS
<1>2. m \in 1..Len(pairs) /\ Len(pairs) \in Nat
  BY <1>1, LenNat DEF Revoke, SInv, Asked, Asks
<1>3. NoneRevived
  <2>1. PICK p : p = [pairs[m] EXCEPT !.live = FALSE]
    OBVIOUS
  <2>2. p \in Pair /\ ~ p.live
    <3>1. pairs[m] \in Pair
      BY <1>2, ElementOfSeq DEF SInv, Issued
    <3> QED  BY <2>1, <3>1 DEF Pair
  <2>3. pairs' = [pairs EXCEPT ![m] = p]
    BY <1>1, <2>1 DEF Revoke
  <2>4. Len(pairs') = Len(pairs)
    BY <1>2, <2>2, <2>3, ExceptSeq DEF SInv, Issued
  <2> QED  BY <1>2, <2>2, <2>3, <2>4, PairWears
<1>4. PICK q : q = [req[t][r] EXCEPT !.st = "answered"]
  OBVIOUS
<1>5. Sends(q) /\ req' = [req EXCEPT ![t][r] = q]
  <2>1. q.st = "answered" /\ q.logout = req[t][r].logout
    BY <1>4 DEF SInv, Asked, Asks
  <2> QED  BY <1>4, <2>1 DEF Sends, Revoke
<1>6. \A p \in Requests : Sends(req'[t][p])
  BY <1>5, OneSends DEF Known
<1>7. Knows(refresh'[t], mem'[t].pair, pairs')
  BY <1>3, StillKnown DEF Known, Revoke
<1> QED  BY <1>3, <1>6, <1>7 DEF TabKnown

\* forceLogout: the store is empty, and a refresh call goes on as it was.
LEMMA ForceLogoutKnown ==
  ASSUME SInv, Known, NEW t \in Tabs, NEW q \in [Requests -> Asks(Len(pairs))], NEW c,
         \A r \in Requests : Sends(q[r]),
         c = NoRefresh \/ c = refresh[t],
         ForceLogout(t, q, c), UNCHANGED pairs
  PROVE  NoneRevived /\ TabKnown(t)'
<1>1. NoneRevived
  BY PairsStay
<1>2. mem'[t].pair = 0
  BY DEF ForceLogout, Stored, Blank, SInv, Held
<1>3. /\ \A r \in Requests : Sends(req'[t][r])
      /\ refresh'[t] = NoRefresh \/ refresh'[t] = refresh[t]
  <2>1. CASE at[t] = "app"
    <3>1. PICK none : none = [r \in Requests |-> Idle]
      OBVIOUS
    <3>2. req' = [req EXCEPT ![t] = none] /\ refresh' = [refresh EXCEPT ![t] = NoRefresh]
      BY <2>1, <3>1 DEF ForceLogout, FreshPage
    <3>3. req'[t] = none /\ refresh'[t] = NoRefresh
      BY <3>2 DEF SInv, Asked, Renewed
    <3> QED  BY <3>1, <3>3, BlankKnown
  <2>2. CASE at[t] # "app"
    <3>1. req' = [req EXCEPT ![t] = q] /\ refresh' = [refresh EXCEPT ![t] = c]
      BY <2>2 DEF ForceLogout
    <3>2. req'[t] = q /\ refresh'[t] = c
      BY <3>1 DEF SInv, Asked, Renewed
    <3> QED  BY <3>2
  <2> QED  BY <2>1, <2>2
<1>4. Knows(refresh'[t], mem'[t].pair, pairs')
  <2>1. CASE refresh'[t] = NoRefresh
    BY <2>1, BlankKnown
  <2>2. CASE refresh'[t] = refresh[t]
    BY <1>1, <1>2, <2>2, StillKnown DEF Known
  <2> QED  BY <1>3, <2>1, <2>2
<1> QED  BY <1>1, <1>3, <1>4 DEF TabKnown

LEMMA RefusedKnown ==
  ASSUME SInv, Known, NEW t \in Tabs, NEW r \in Requests, Refused(t, r)
  PROVE  NoneRevived /\ TabKnown(t)'
<1>0. UNCHANGED pairs
  BY DEF Refused
<1>1. CASE Dropped(t, r)
  BY <1>0, <1>1, DroppedKnown
<1>2. CASE JoinRefresh(t, r)
  <2>1. NoneRevived
    BY <1>0, PairsStay
  <2>2. Sends(Parked(req[t][r])) /\ req' = [req EXCEPT ![t][r] = Parked(req[t][r])]
    BY <1>2 DEF Sends, Parked, JoinRefresh
  <2>3. \A p \in Requests : Sends(req'[t][p])
    BY <2>2, OneSends DEF Known
  <2>4. UNCHANGED mem
    BY <1>2 DEF JoinRefresh
  <2>5. CASE refresh[t].st = "none"
    <3>1. refresh' = [refresh EXCEPT ![t] = Presents(mem[t].pair)]
      BY <1>2, <2>5 DEF JoinRefresh
    <3>2. refresh'[t] = Presents(mem[t].pair)
      BY <3>1 DEF SInv, Renewed
    <3>3. Knows(Presents(mem[t].pair), mem[t].pair, pairs')
      BY DEF Knows, Presents
    <3>4. Knows(refresh'[t], mem'[t].pair, pairs')
      BY <2>4, <3>2, <3>3
    <3> QED  BY <2>1, <2>3, <3>4 DEF TabKnown
  <2>6. CASE refresh[t].st # "none"
    <3>1. UNCHANGED refresh
      BY <1>2, <2>6 DEF JoinRefresh
    <3>2. Knows(refresh'[t], mem'[t].pair, pairs')
      BY <2>1, <2>4, <3>1, StillKnown DEF Known
    <3> QED  BY <2>1, <2>3, <3>2 DEF TabKnown
  <2> QED  BY <2>5, <2>6
<1>3. CASE ForceLogout(t, [req[t] EXCEPT ![r] = Idle], refresh[t])
  <2>1. PICK q : q = [req[t] EXCEPT ![r] = Idle]
    OBVIOUS
  <2>2. q \in [Requests -> Asks(Len(pairs))]
    BY <2>1, LenNat, Blanks DEF SInv, Asked
  <2>3. \A p \in Requests : Sends(q[p])
    <3>1. \A p \in Requests : q[p] = IF p = r THEN Idle ELSE req[t][p]
      BY <2>1 DEF SInv, Asked
    <3> QED  BY <3>1, BlankKnown DEF Known, TabKnown
  <2> QED  BY <1>0, <1>3, <2>1, <2>2, <2>3, ForceLogoutKnown
<1> QED  BY <1>1, <1>2, <1>3 DEF Refused

-----------------------------------------------------------------------------
\* The refresh call goes on.
LEMMA RefreshReadKnown ==
  ASSUME SInv, Known, NEW t \in Tabs, RefreshRead(t)
  PROVE  NoneRevived /\ TabKnown(t)'
<1>1. UNCHANGED <<pairs, mem, req>>
  BY DEF RefreshRead
<1>2. PICK c : c = refresh[t]
  OBVIOUS
<1>3. PICK st : st = IF pairs[c.old].live THEN "read" ELSE "refused"
  OBVIOUS
<1>4. PICK d : d = [c EXCEPT !.st = st]
  OBVIOUS
<1>5. c \in Refreshes(Len(pairs)) /\ c.st = "sent"
  BY <1>2 DEF SInv, Renewed, RefreshRead
<1>6. /\ d.st = st /\ d.old = c.old /\ d.new = c.new /\ d.left = c.left
      /\ c.old \in 1..Len(pairs)
  BY <1>4, <1>5, LenNat DEF Refreshes, SInv
<1>7. refresh'[t] = d
  BY <1>2, <1>3, <1>4 DEF RefreshRead, SInv, Renewed
<1>8. Knows(c, mem[t].pair, pairs)
  BY <1>2 DEF Known, TabKnown
<1>9. Knows(d, mem[t].pair, pairs)
  BY <1>3, <1>5, <1>6, <1>8 DEF Knows
<1>10. Knows(refresh'[t], mem'[t].pair, pairs')
  BY <1>1, <1>7, <1>9
<1> QED  BY <1>1, <1>10, PairsStay DEF Known, TabKnown

LEMMA RefreshGrantKnown ==
  ASSUME SInv, Known, NEW t \in Tabs, RefreshGrant(t)
  PROVE  NoneRevived /\ TabKnown(t)'
<1>1. PICK n \in Nat : n = Len(pairs)
  BY LenNat DEF SInv
<1>2. PICK m : m = refresh[t].old
  OBVIOUS
<1>3. m \in 1..n
  <2>1. refresh[t] \in Refreshes(n)
    BY <1>1 DEF SInv, Renewed
  <2> QED  BY <1>1, <1>2, <2>1 DEF RefreshGrant, Refreshes
<1>4. NoneRevived
  <2>1. pairs[m] \in Pair
    BY <1>1, <1>3, ElementOfSeq DEF SInv, Issued
  <2>2. PICK p : p = [pairs[m] EXCEPT !.live = FALSE]
    OBVIOUS
  <2>3. p \in Pair /\ ~ p.live
    BY <2>1, <2>2 DEF Pair
  <2>4. PICK ps : ps = [pairs EXCEPT ![m] = p]
    OBVIOUS
  <2>5. ps \in Seq(Pair) /\ Len(ps) = Len(pairs)
    BY <1>1, <1>3, <2>3, <2>4, ExceptSeq DEF SInv, Issued
  <2>6. DOMAIN pairs = 1..Len(pairs) /\ DOMAIN ps = 1..Len(pairs)
    BY <2>4 DEF SInv, Issued
  <2>7. \A k \in 1..Len(pairs) : ~ pairs[k].live => ~ ps[k].live
    BY <2>3, <2>4, <2>6
  <2>8. PICK e : e = [owner |-> pairs[m].owner, live |-> TRUE, fresh |-> TRUE]
    OBVIOUS
  <2>9. e \in Pair
    BY <2>1, <2>8 DEF Pair
  <2>10. pairs' = Append(ps, e)
    BY <1>2, <2>2, <2>4, <2>8 DEF RefreshGrant
  <2> QED  BY <2>5, <2>6, <2>7, <2>9, <2>10, PairMore
<1>5. PICK d : d = [st |-> "granted", old |-> m, new |-> n + 1, left |-> refresh[t].left]
  OBVIOUS
<1>6. refresh'[t] = d
  <2>1. refresh' = [refresh EXCEPT ![t] = d]
    BY <1>1, <1>2, <1>5 DEF RefreshGrant
  <2> QED  BY <2>1 DEF SInv, Renewed
<1>7. UNCHANGED <<mem, req>>
  BY DEF RefreshGrant
<1>8. Knows(refresh[t], mem[t].pair, pairs) /\ refresh[t].st = "read"
  BY DEF Known, TabKnown, RefreshGrant
<1>9. n + 1 # 0
  BY <1>1
<1>10. Knows(d, mem[t].pair, pairs')
  BY <1>2, <1>5, <1>8, <1>9 DEF Knows
<1> QED  BY <1>4, <1>6, <1>7, <1>10 DEF Known, TabKnown

LEMMA RefreshLostKnown ==
  ASSUME SInv, Known, NEW t \in Tabs, RefreshLost(t)
  PROVE  NoneRevived /\ TabKnown(t)'
<1>1. UNCHANGED <<pairs, mem, req>>
  BY DEF RefreshLost
<1>2. PICK c : c = refresh[t]
  OBVIOUS
<1>3. PICK d : d = [c EXCEPT !.st = "lost"]
  OBVIOUS
<1>4. refresh'[t] = d
  BY <1>2, <1>3 DEF RefreshLost, SInv, Renewed
<1>5. d.st = "lost" /\ d.old = c.old /\ d.left = c.left
  BY <1>2, <1>3 DEF SInv, Renewed, Refreshes
<1>6. Knows(c, mem[t].pair, pairs) /\ c.st # "none"
  BY <1>2 DEF Known, TabKnown, RefreshLost
<1>7. Knows(d, mem[t].pair, pairs)
  BY <1>5, <1>6 DEF Knows
<1> QED  BY <1>1, <1>4, <1>7, PairsStay DEF Known, TabKnown

\* Those who waited are replayed with the new token: there is one.
LEMMA RefreshStoredKnown ==
  ASSUME SInv, Known, NEW t \in Tabs, RefreshStored(t)
  PROVE  NoneRevived /\ TabKnown(t)'
<1>1. PICK n : n = refresh[t].new
  OBVIOUS
<1>2. n # 0
  BY <1>1 DEF RefreshStored, Known, TabKnown, Knows
<1>3. PICK q : q = [r \in Requests |->
                     IF req[t][r].st = "parked"
                     THEN [st |-> "sent", replay |-> TRUE, logout |-> req[t][r].logout, pair |-> n]
                     ELSE req[t][r]]
  OBVIOUS
<1>4. req'[t] = q
  <2>1. req' = [req EXCEPT ![t] = [r \in Requests |->
                     IF req[t][r].st = "parked"
                     THEN [st |-> "sent", replay |-> TRUE, logout |-> req[t][r].logout, pair |-> n]
                     ELSE req[t][r]]]
    BY <1>1 DEF RefreshStored
  <2>2. req' = [req EXCEPT ![t] = q]
    BY <1>3, <2>1
  <2> QED  BY <2>2 DEF SInv, Asked
<1>5. \A r \in Requests : Sends(q[r])
  BY <1>2, <1>3 DEF Known, TabKnown, Sends
<1>6. refresh'[t] = NoRefresh /\ UNCHANGED pairs
  BY DEF RefreshStored, SInv, Renewed
<1>7. Knows(refresh'[t], mem'[t].pair, pairs')
  BY <1>6, BlankKnown
<1> QED  BY <1>4, <1>5, <1>6, <1>7, PairsStay DEF TabKnown

LEMMA RefreshFailedKnown ==
  ASSUME SInv, Known, NEW t \in Tabs, RefreshFailed(t)
  PROVE  NoneRevived /\ TabKnown(t)'
<1>1. PICK q : q = [r \in Requests |-> IF req[t][r].st = "parked" THEN Idle ELSE req[t][r]]
  OBVIOUS
<1>2. q \in [Requests -> Asks(Len(pairs))]
  BY <1>1, LenNat, Blanks DEF SInv, Asked
<1>3. \A r \in Requests : Sends(q[r])
  BY <1>1, BlankKnown DEF Known, TabKnown
<1>4. ForceLogout(t, q, NoRefresh) /\ UNCHANGED pairs
  BY <1>1 DEF RefreshFailed
<1> QED  BY <1>2, <1>3, <1>4, ForceLogoutKnown

LEMMA ExpireRevivesNone ==
  ASSUME SInv, Expire
  PROVE  NoneRevived
<1>1. PICK n \in DOMAIN pairs : pairs' = [pairs EXCEPT ![n].fresh = FALSE]
  BY DEF Expire
<1>2. n \in 1..Len(pairs) /\ pairs[n] \in Pair
  BY ElementOfSeq DEF SInv, Issued
<1>3. PICK p : p = [pairs[n] EXCEPT !.fresh = FALSE]
  OBVIOUS
<1>4. p \in Pair /\ p.live = pairs[n].live
  BY <1>2, <1>3 DEF Pair
<1>5. pairs' = [pairs EXCEPT ![n] = p]
  BY <1>1, <1>3
<1>6. Len(pairs') = Len(pairs)
  BY <1>2, <1>4, <1>5, ExceptSeq DEF SInv, Issued
<1> QED  BY <1>2, <1>4, <1>5, <1>6, PairWears

-----------------------------------------------------------------------------
\* A step of a tab is a step of that tab alone, but for the pairs.
LEMMA OtherTabs ==
  ASSUME SInv, NEW t \in Tabs, NEW u \in Tabs \ {t}, TabStep(t)
  PROVE  req'[u] = req[u] /\ refresh'[u] = refresh[u] /\ mem'[u] = mem[u]
<1> USE DEF Stored, FreshPage, SInv, Held, Asked, Renewed
<1>1. CASE Reload(t) \/ BootMe(t) \/ \E a \in plan.who : SignIn(t, a)
  BY <1>1 DEF Reload, BootMe, SignIn
<1>2. ASSUME NEW r, Send(t, r) \/ Logout(t, r) \/ Revoke(t, r)
      PROVE  req'[u] = req[u] /\ refresh'[u] = refresh[u] /\ mem'[u] = mem[u]
  BY <1>2 DEF Send, Logout, Revoke
<1>3. ASSUME NEW q, NEW c, ForceLogout(t, q, c)
      PROVE  req'[u] = req[u] /\ refresh'[u] = refresh[u] /\ mem'[u] = mem[u]
  BY <1>3 DEF ForceLogout
<1>4. ASSUME NEW r, SignedOut(t, r) \/ Dropped(t, r)
      PROVE  req'[u] = req[u] /\ refresh'[u] = refresh[u] /\ mem'[u] = mem[u]
  BY <1>4 DEF SignedOut, Dropped
<1>5. ASSUME NEW r, JoinRefresh(t, r)
      PROVE  req'[u] = req[u] /\ refresh'[u] = refresh[u] /\ mem'[u] = mem[u]
  BY <1>5 DEF JoinRefresh
<1>6. ASSUME NEW r, Refused(t, r) \/ Served(t, r) \/ LogoutDone(t, r) \/ Lost(t, r)
      PROVE  req'[u] = req[u] /\ refresh'[u] = refresh[u] /\ mem'[u] = mem[u]
  <2>1. CASE Refused(t, r)
    BY <1>3, <1>4, <1>5, <2>1 DEF Refused
  <2>2. CASE Served(t, r)
    BY <2>2 DEF Served, Loaded
  <2> QED  BY <1>4, <1>6, <2>1, <2>2 DEF LogoutDone, Lost
<1>7. CASE RefreshRead(t) \/ RefreshGrant(t) \/ RefreshLost(t) \/ RefreshStored(t)
  BY <1>7 DEF RefreshRead, RefreshGrant, RefreshLost, RefreshStored
<1>8. CASE RefreshFailed(t)
  BY <1>3, <1>8 DEF RefreshFailed
<1> QED  BY <1>1, <1>2, <1>6, <1>7, <1>8 DEF TabStep

LEMMA OwnTab ==
  ASSUME SInv, SInv', Known, NEW t \in Tabs, TabStep(t)
  PROVE  NoneRevived /\ TabKnown(t)'
<1>1. plan.slots[t] \subseteq Requests
  BY Constants DEF SInv, Issued
<1>2. CASE Reload(t) \/ BootMe(t) \/ \E a \in plan.who : SignIn(t, a)
  BY <1>2, ReloadKnown, BootMeKnown, SignInKnown
<1>3. ASSUME NEW r \in plan.slots[t],
             \/ Send(t, r) \/ Logout(t, r) \/ Refused(t, r) \/ Served(t, r)
             \/ Revoke(t, r) \/ LogoutDone(t, r) \/ Lost(t, r)
      PROVE  NoneRevived /\ TabKnown(t)'
  <2>1. r \in Requests
    BY <1>1
  <2>2. CASE Send(t, r) \/ Logout(t, r)
    BY <2>1, <2>2, SendKnown
  <2>3. CASE Refused(t, r)
    BY <2>1, <2>3, RefusedKnown
  <2>4. CASE Served(t, r)
    BY <2>1, <2>4, ServedKnown
  <2>5. CASE Revoke(t, r)
    BY <2>1, <2>5, RevokeKnown
  <2>6. CASE LogoutDone(t, r) \/ Lost(t, r)
    <3>1. (SignedOut(t, r) \/ Dropped(t, r)) /\ UNCHANGED pairs
      BY <2>6 DEF LogoutDone, Lost
    <3> QED  BY <2>1, <3>1, DroppedKnown
  <2> QED  BY <1>3, <2>2, <2>3, <2>4, <2>5, <2>6
<1>4. CASE RefreshRead(t) \/ RefreshGrant(t)
  BY <1>4, RefreshReadKnown, RefreshGrantKnown
<1>5. CASE RefreshLost(t) \/ RefreshStored(t) \/ RefreshFailed(t)
  BY <1>5, RefreshLostKnown, RefreshStoredKnown, RefreshFailedKnown
<1> QED  BY <1>2, <1>3, <1>4, <1>5 DEF TabStep

LEMMA KnownStep ==
  ASSUME SInv, SInv', Known, [Next]_vars
  PROVE  Known' /\ NoneRevived
<1>1. ASSUME NEW u \in Tabs, req'[u] = req[u], refresh'[u] = refresh[u], mem'[u] = mem[u],
             NoneRevived
      PROVE  TabKnown(u)'
  <2>1. TabKnown(u)
    BY DEF Known
  <2>2. Knows(refresh'[u], mem'[u].pair, pairs')
    BY <1>1, <2>1, StillKnown
  <2> QED  BY <1>1, <2>1, <2>2 DEF TabKnown
<1>2. CASE UNCHANGED vars
  BY <1>1, <1>2, PairsStay DEF vars, Known
<1>3. CASE Expire
  <2>1. UNCHANGED <<req, refresh, mem>>
    BY <1>3 DEF Expire
  <2> QED  BY <1>1, <1>3, <2>1, ExpireRevivesNone DEF Known
<1>4. ASSUME NEW t \in Tabs, TabStep(t)  PROVE Known' /\ NoneRevived
  <2>1. NoneRevived /\ TabKnown(t)'
    BY <1>4, OwnTab
  <2>2. \A u \in Tabs \ {t} : TabKnown(u)'
    BY <1>1, <1>4, <2>1, OtherTabs
  <2> QED  BY <2>1, <2>2 DEF Known
<1> QED  BY <1>2, <1>3, <1>4 DEF Next

LEMMA KnownInit ==
  ASSUME Init
  PROVE  Known
<1>1. \A t \in Tabs : refresh[t] = NoRefresh /\ \A r \in Requests : req[t][r] = Idle
  BY DEF Init
<1> QED  BY <1>1, BlankKnown DEF Known, TabKnown

LEMMA KnownInvariant == Spec => [](SInv /\ Known)
<1>1. Init => SInv /\ Known
  BY SessionInit, KnownInit
<1>2. SInv /\ Known /\ [Next]_vars => SInv' /\ Known'
  BY SessionStep, KnownStep
<1> QED  BY <1>1, <1>2, PTL DEF Spec

-----------------------------------------------------------------------------
(* How a tab can lose its session. *)

\* Only what another tab has written can part the store of a tab from the disk.
Shared == \A t \in Tabs : mem[t] = disk \/ \E u \in Tabs \ {t} : Opened(u)

LEMMA OwnStore ==
  ASSUME SInv, NEW t \in Tabs, TabStep(t)
  PROVE  plan' = plan /\ (mem'[t] = disk' \/ UNCHANGED <<mem, disk>>)
<1>1. \A s : Stored(t, s) => mem'[t] = disk'
  BY DEF Stored, SInv, Held
<1>2. CASE Reload(t)
  BY <1>2 DEF Reload, SInv, Held
<1>3. CASE BootMe(t) \/ \E a \in plan.who : SignIn(t, a)
  BY <1>1, <1>3 DEF BootMe, SignIn
<1>4. ASSUME NEW q, NEW c, ForceLogout(t, q, c)  PROVE mem'[t] = disk'
  BY <1>1, <1>4 DEF ForceLogout
<1>5. ASSUME NEW r, SignedOut(t, r) \/ Dropped(t, r) \/ JoinRefresh(t, r) \/ Loaded(t, r)
      PROVE  mem'[t] = disk' \/ UNCHANGED <<mem, disk>>
  BY <1>1, <1>5 DEF SignedOut, Dropped, JoinRefresh, Loaded
<1>6. ASSUME NEW r \in plan.slots[t],
             \/ Send(t, r) \/ Logout(t, r)
             \/ Refused(t, r) \/ Served(t, r) \/ Revoke(t, r) \/ LogoutDone(t, r) \/ Lost(t, r)
      PROVE  plan' = plan /\ (mem'[t] = disk' \/ UNCHANGED <<mem, disk>>)
  <2>1. CASE Send(t, r) \/ Logout(t, r) \/ Revoke(t, r)
    BY <2>1 DEF Send, Logout, Revoke
  <2>2. CASE Refused(t, r)
    BY <1>4, <1>5, <2>2 DEF Refused
  <2>3. CASE Served(t, r) \/ LogoutDone(t, r) \/ Lost(t, r)
    BY <1>5, <2>3 DEF Served, LogoutDone, Lost
  <2> QED  BY <1>6, <2>1, <2>2, <2>3
<1>7. CASE RefreshRead(t) \/ RefreshGrant(t) \/ RefreshLost(t)
  BY <1>7 DEF RefreshRead, RefreshGrant, RefreshLost
<1>8. CASE RefreshStored(t) \/ RefreshFailed(t)
  BY <1>1, <1>4, <1>8 DEF RefreshStored, RefreshFailed
<1> QED  BY <1>2, <1>3, <1>6, <1>7, <1>8 DEF TabStep

LEMMA SharedStep ==
  ASSUME SInv, Shared, [Next]_vars
  PROVE  Shared'
<1>1. CASE UNCHANGED <<plan, mem, disk>>
  BY <1>1 DEF Shared, Opened
<1>2. ASSUME NEW t \in Tabs, Opened(t), TabStep(t)  PROVE Shared'
  <2>1. plan' = plan /\ (mem'[t] = disk' \/ UNCHANGED <<mem, disk>>)
    BY <1>2, OwnStore
  <2>2. CASE UNCHANGED <<mem, disk>>
    BY <1>1, <2>1, <2>2
  <2>3. CASE mem'[t] = disk'
    <3>1. ASSUME NEW u \in Tabs, u # t  PROVE \E v \in Tabs \ {u} : Opened(v)'
      BY <1>2, <2>1, <3>1 DEF Opened
    <3> QED  BY <2>3, <3>1 DEF Shared
  <2> QED  BY <2>1, <2>2, <2>3
<1> QED  BY <1>1, <1>2 DEF Next, Expire, vars

LEMMA SharedInvariant == Spec => []Shared
<1>1. Init => Shared
  BY DEF Init, Shared
<1>2. SInv /\ Shared /\ [Next]_vars => Shared'
  BY SharedStep
<1> QED  BY <1>1, <1>2, KnownInvariant, PTL DEF Spec

Loses(t) == mem[t].pair # 0 /\ mem'[t].pair = 0 /\ pairs[mem[t].pair].live

\* A 401 clears a store that holds a token only when it is the answer to a replay.
LEMMA LeavesOnReplay ==
  ASSUME NEW replay \in BOOLEAN, app \in Apps, NEW code \in {"expired"},
         On401(replay, code) = "leave"
  PROVE  replay
  BY DEF On401, UserOn401, MerchantOn401, AdminOn401, Apps

LEMMA RefusedExcused ==
  ASSUME SInv, Known, NEW t \in Tabs, NEW r \in Requests, Refused(t, r), Loses(t)
  PROVE  GivesUp(t)
<1>1. req[t][r].st = "sent" /\ req[t][r].pair # 0 /\ Answer(req[t][r].pair) = "expired"
  BY DEF Refused, Known, TabKnown, Sends, Answer
<1>2. CASE Dropped(t, r)
  <2>1. CASE req[t][r].logout # 0
    BY <2>1 DEF GivesUp
  <2>2. CASE req[t][r].logout = 0
    <3>1. UNCHANGED mem
      BY <1>2, <2>2 DEF Dropped
    <3> QED  BY <3>1 DEF Loses
  <2> QED  BY <2>1, <2>2
<1>3. CASE JoinRefresh(t, r)
  BY <1>3 DEF JoinRefresh, Loses
<1>4. CASE On401(req[t][r].replay, Answer(req[t][r].pair)) = "leave"
  <2>1. req[t][r].replay
    BY <1>1, <1>4, LeavesOnReplay DEF SInv, Issued, Asked, Asks
  <2> QED  BY <1>1, <2>1 DEF GivesUp
<1>5. CASE mem[t].pair = 0
  BY <1>5 DEF Loses
<1> QED  BY <1>2, <1>3, <1>4, <1>5 DEF Refused

\* A refresh that fails: its answer was lost, or the session was left, or the
\* token the tab holds had been revoked.
LEMMA RefreshFailedExcused ==
  ASSUME SInv, Known, NEW t \in Tabs, RefreshFailed(t), Loses(t)
  PROVE  GivesUp(t)
<1>1. CASE refresh[t].st = "lost" \/ refresh[t].left
  BY <1>1 DEF GivesUp
<1>2. CASE refresh[t].st = "refused" /\ ~ refresh[t].left
  <2>1. /\ mem[t].pair \in {0, refresh[t].old}
        /\ ~ pairs[refresh[t].old].live
    BY <1>2 DEF Known, TabKnown, Knows
  <2> QED  BY <2>1 DEF Loses
<1> QED  BY <1>1, <1>2 DEF RefreshFailed

Excused(t) == GivesUp(t) \/ (Reload(t) /\ \E u \in Tabs \ {t} : Opened(u))

LEMMA LossExcused ==
  ASSUME SInv, Known, Shared, NEW t \in Tabs, TabStep(t), Loses(t)
  PROVE  Excused(t)
<1>1. plan.slots[t] \subseteq Requests
  BY Constants DEF SInv, Issued
<1>2. CASE Reload(t)
  <2>1. mem'[t] = disk
    BY <1>2 DEF Reload, SInv, Held
  <2> QED  BY <1>2, <2>1 DEF Loses, Excused, Shared
<1>3. CASE BootMe(t)
  BY <1>3 DEF BootMe, Stored, SInv, Held, Stores, Loses
<1>4. ASSUME NEW a \in plan.who, SignIn(t, a)  PROVE FALSE
  <2>1. PICK n \in Nat : n = Len(pairs)
    BY LenNat DEF SInv
  <2>2. mem'[t].pair = n + 1
    BY <1>4, <2>1 DEF SignIn, Stored, SInv, Held
  <2>3. n + 1 # 0
    BY <2>1
  <2> QED  BY <2>2, <2>3 DEF Loses
<1>5. ASSUME NEW r \in plan.slots[t], Send(t, r) \/ Logout(t, r) \/ Revoke(t, r)
      PROVE  FALSE
  BY <1>5 DEF Send, Logout, Revoke, Loses
<1>6. ASSUME NEW r \in plan.slots[t], Refused(t, r)
      PROVE  GivesUp(t)
  <2>1. r \in Requests
    BY <1>1
  <2> QED  BY <1>6, <2>1, RefusedExcused
<1>7. ASSUME NEW r \in plan.slots[t], Served(t, r)
      PROVE  FALSE
  BY <1>7 DEF Served, Loaded, Stored, SInv, Held, Stores, Loses
<1>8. ASSUME NEW r \in plan.slots[t], LogoutDone(t, r) \/ Lost(t, r)
      PROVE  GivesUp(t)
  <2>1. r \in Requests
    BY <1>1
  <2>2. CASE req[t][r].logout # 0
    BY <2>1, <2>2 DEF GivesUp
  <2>3. CASE req[t][r].logout = 0
    <3>1. req[t][r].st # "answered"
      BY <2>1, <2>3 DEF Known, TabKnown, Sends
    <3>2. Dropped(t, r)
      BY <1>8, <3>1 DEF LogoutDone, Lost
    <3>3. UNCHANGED mem
      BY <2>3, <3>2 DEF Dropped
    <3> QED  BY <3>3 DEF Loses
  <2> QED  BY <2>2, <2>3
<1>9. CASE RefreshRead(t) \/ RefreshGrant(t) \/ RefreshLost(t)
  BY <1>9 DEF RefreshRead, RefreshGrant, RefreshLost, Loses
<1>10. CASE RefreshStored(t)
  <2>1. refresh[t].new # 0
    BY <1>10 DEF RefreshStored, Known, TabKnown, Knows
  <2>2. mem'[t].pair = refresh[t].new
    BY <1>10 DEF RefreshStored, Stored, SInv, Held, Stores
  <2> QED  BY <2>1, <2>2 DEF Loses
<1>11. CASE RefreshFailed(t)
  BY <1>11, RefreshFailedExcused DEF Excused
<1> QED
  BY <1>2, <1>3, <1>4, <1>5, <1>6, <1>7, <1>8, <1>9, <1>10, <1>11 DEF TabStep, Excused

\* However many tabs and requests there are, and whatever overlaps: a tab whose
\* token is still good is signed out only by its user, by a lost answer to its
\* refresh, by a replay that was refused, by a late refresh of a session it has
\* left, or when it is reloaded while another tab is open, whose writes it then reads.
THEOREM SessionIsKept == Spec => KeepsSession
<1> DEFINE Step ==
       \A t \in Tabs :
         /\ mem[t].pair # 0 /\ mem'[t].pair = 0 /\ pairs[mem[t].pair].live
         => GivesUp(t) \/ (Reload(t) /\ \E u \in Tabs \ {t} : Opened(u))
<1>1. SInv /\ Known /\ Shared /\ [Next]_vars => Step
  <2>1. SUFFICES ASSUME SInv, Known, Shared, [Next]_vars, NEW t \in Tabs, Loses(t)
                 PROVE  Excused(t)
    BY DEF Loses, Excused
  <2>2. mem'[t] # mem[t]
    BY <2>1 DEF Loses
  <2>3. CASE UNCHANGED mem
    BY <2>2, <2>3
  <2>4. ASSUME NEW u \in Tabs, TabStep(u)  PROVE Excused(t)
    <3>1. CASE u = t
      BY <2>1, <2>4, <3>1, LossExcused
    <3>2. CASE u # t
      BY <2>1, <2>2, <2>4, <3>2, OtherTabs
    <3> QED  BY <3>1, <3>2
  <2> QED  BY <2>1, <2>3, <2>4 DEF Next, Expire, vars
<1>2. SInv /\ Known /\ Shared /\ [Next]_vars => [Step]_vars
  BY <1>1
<1> HIDE DEF Step
<1>3. Spec => [][Step]_vars
  BY <1>2, KnownInvariant, SharedInvariant, PTL DEF Spec
<1> QED  BY <1>3 DEF KeepsSession, Step
=============================================================================
