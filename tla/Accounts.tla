--------------------------------- MODULE Accounts -------------------------------
(***************************************************************************)
(* Sessions, members and workshops: auth.service.ts, users.service.ts and  *)
(* workshops.service.ts behind JwtAuthGuard and RolesGuard.                *)
(*                                                                         *)
(* A token pair is named after the request that signed it; its claims are  *)
(* what that request read of the user (who, seen) and the workshop it is   *)
(* for.  A client has the pair when the request is done.  Refused requests *)
(* change nothing and only end.  Access tokens do not expire here.         *)
(***************************************************************************)
EXTENDS Integers

CONSTANTS
  Requests,   \* login, refresh, switch and create-member requests
  Users,      \* the members there may be
  Workshops,
  Emails,
  Home,       \* the workshop of the seed
  Seeded,     \* its members
  Founder,    \* the one who is its admin
  SeedEmail,  \* their e-mails
  Nobody      \* no request

ASSUME SeedAssumption ==
  /\ Founder \in Seeded /\ Seeded \subseteq Users /\ Home \in Workshops /\ Nobody \notin Requests
  /\ SeedEmail \in [Users -> Emails]
  /\ \A m, n \in Seeded : SeedEmail[m] = SeedEmail[n] => m = n

Roles == {"TECH", "MANAGER", "ADMIN"}

VARIABLES
  members,    \* the users there are
  email, home, role, active, \* columns of User
  hash,       \* refreshTokenHash: whose refresh token it is the hash of
  shops,      \* the workshops there are
  grants,     \* WorkshopAccess: <<user, workshop>>
  pc,         \* where each request stands
  op,         \* what it is
  who,        \* the user it read
  seen,       \* the role it read, or gives the new member
  shop,       \* the workshop of its token, or of the new member
  from,       \* the pair whose refresh token it presents
  mail,       \* the e-mail it gives the new member
  ended,      \* history: who logged out and began no login or switch since
  rivals      \* history: the sessions of theirs that were under way then

users    == <<members, email, home, role, active>>
tenants  == <<shops, grants>>
claims   == <<op, who, seen, shop, from, mail>>
logouts  == <<ended, rivals>>
vars     == <<users, hash, tenants, pc, claims, logouts>>

Sessions == {"login", "refresh", "switch"}
Signed(r)   == op[r] \in Sessions /\ pc[r] \in {"store", "done"}
UnderWay(u) == {r \in Requests :
  op[r] \in Sessions /\ who[r] = u /\ pc[r] \in {"access", "store"}}

TypeOK ==
  /\ members \subseteq Users
  /\ email   \in [Users -> Emails]
  /\ home    \in [Users -> Workshops]
  /\ role    \in [Users -> Roles]
  /\ active  \in [Users -> BOOLEAN]
  /\ hash    \in [Users -> Requests \cup {Nobody}]
  /\ shops   \subseteq Workshops
  /\ grants  \subseteq Users \X Workshops
  /\ pc      \in [Requests -> {"idle", "access", "store", "insert", "done", "made", "dead"}]
  /\ op      \in [Requests -> Sessions \cup {"none", "member"}]
  /\ who     \in [Requests -> Users]
  /\ seen    \in [Requests -> Roles]
  /\ shop    \in [Requests -> Workshops]
  /\ from    \in [Requests -> Requests \cup {Nobody}]
  /\ mail    \in [Requests -> Emails]
  /\ ended   \subseteq Users
  /\ rivals  \in [Users -> SUBSET Requests]

Init ==
  /\ members = Seeded
  /\ email   = SeedEmail
  /\ home    = [u \in Users |-> Home]
  /\ role    = [u \in Users |-> IF u = Founder THEN "ADMIN" ELSE "TECH"]
  /\ active  = [u \in Users |-> TRUE]
  /\ hash    = [u \in Users |-> Nobody]
  /\ shops   = {Home}
  /\ grants  = {}
  /\ pc      = [r \in Requests |-> "idle"]
  /\ op      = [r \in Requests |-> "none"]
  /\ who     = [r \in Requests |-> Founder]
  /\ seen    = [r \in Requests |-> "TECH"]
  /\ shop    = [r \in Requests |-> Home]
  /\ from    = [r \in Requests |-> Nobody]
  /\ mail    = [r \in Requests |-> SeedEmail[Founder]]
  /\ ended   = {}
  /\ rivals  = [u \in Users |-> {}]

Goto(r, step) == pc' = [pc EXCEPT ![r] = step]

\* The handler ends without a token pair; its locals are gone.
Returns(r, step) ==
  /\ Goto(r, step)
  /\ op'   = [op EXCEPT ![r] = "none"]
  /\ who'  = [who EXCEPT ![r] = Founder]
  /\ seen' = [seen EXCEPT ![r] = "TECH"]
  /\ shop' = [shop EXCEPT ![r] = Home]
  /\ from' = [from EXCEPT ![r] = Nobody]
  /\ mail' = [mail EXCEPT ![r] = SeedEmail[Founder]]

\* What the request has read of the user, and the workshop it is to be for.
Reads(r, what, u, w, t) ==
  /\ op'   = [op EXCEPT ![r] = what]
  /\ who'  = [who EXCEPT ![r] = u]
  /\ seen' = [seen EXCEPT ![r] = role[u]]
  /\ shop' = [shop EXCEPT ![r] = w]
  /\ from' = [from EXCEPT ![r] = t]
  /\ UNCHANGED mail

\* JwtStrategy.validate: a request is made with the claims of a token that was
\* handed out, RolesGuard judges it by them.
Bearer(t)          == op[t] \in Sessions /\ pc[t] = "done"
Caller(t, allowed) == Bearer(t) /\ seen[t] \in allowed

\* A login or switch: the user is not logged out any more.
Begins(u) == ended' = ended \ {u} /\ rivals' = [rivals EXCEPT ![u] = {}]

\* hasWorkshopAccess
Accessible(u, w) == home[u] = w \/ <<u, w>> \in grants

--------------------------------------------------------------------------------
(* auth.service.ts                                                           *)

Login(r, u) ==
  /\ pc[r] = "idle"
  /\ u \in members /\ active[u]
  /\ Reads(r, "login", u, home[u], Nobody)
  /\ Goto(r, "store")
  /\ Begins(u)
  /\ UNCHANGED <<users, hash, tenants>>

\* Variant: a user without a stored hash is not turned away.
RefreshUnchecked(r, t) ==
  /\ pc[r] = "idle" /\ Caller(t, Roles)
  /\ who[t] \in members /\ active[who[t]]
  /\ Reads(r, "refresh", who[t], shop[t], t)
  /\ Goto(r, "access")
  /\ UNCHANGED <<users, hash, tenants, logouts>>

\* Whether bcrypt accepts t against the hash of another pair of the same user
\* is left open: only that there is a hash is required.
Refresh(r, t) ==
  /\ pc[r] = "idle" /\ Caller(t, Roles)
  /\ who[t] \in members /\ active[who[t]] /\ hash[who[t]] # Nobody
  /\ Reads(r, "refresh", who[t], shop[t], t)
  /\ Goto(r, "access")
  /\ UNCHANGED <<users, hash, tenants, logouts>>

Switch(r, t, w) ==
  /\ pc[r] = "idle" /\ Caller(t, {"ADMIN"})
  /\ who[t] \in members
  /\ Reads(r, "switch", who[t], w, t)
  /\ Goto(r, "access")
  /\ Begins(who[t])
  /\ UNCHANGED <<users, hash, tenants>>

\* Variant: a refresh always lands at home.
RefreshGoesHome(r) ==
  /\ pc[r] = "access" /\ op[r] = "refresh"
  /\ shop' = [shop EXCEPT ![r] = home[who[r]]]
  /\ Goto(r, "store")
  /\ UNCHANGED <<users, hash, tenants, op, who, seen, from, mail, logouts>>

RefreshChooses(r) ==
  /\ pc[r] = "access" /\ op[r] = "refresh"
  /\ shop' = [shop EXCEPT ![r] = IF Accessible(who[r], @) THEN @ ELSE home[who[r]]]
  /\ Goto(r, "store")
  /\ UNCHANGED <<users, hash, tenants, op, who, seen, from, mail, logouts>>

\* Variant: any workshop will do.
SwitchUnchecked(r) ==
  /\ pc[r] = "access" /\ op[r] = "switch"
  /\ shop[r] \in shops
  /\ Goto(r, "store")
  /\ UNCHANGED <<users, hash, tenants, claims, logouts>>

SwitchChecks(r) ==
  /\ pc[r] = "access" /\ op[r] = "switch"
  /\ shop[r] \in shops /\ Accessible(who[r], shop[r])
  /\ Goto(r, "store")
  /\ UNCHANGED <<users, hash, tenants, claims, logouts>>

SwitchRefused(r) ==
  /\ pc[r] = "access" /\ op[r] = "switch"
  /\ ~(shop[r] \in shops /\ Accessible(who[r], shop[r]))
  /\ Returns(r, "dead")
  /\ UNCHANGED <<users, hash, tenants, logouts>>

\* issueTokens, storeRefreshHash, and the answer
StoreRefreshHash(r) ==
  /\ pc[r] = "store"
  /\ hash' = [hash EXCEPT ![who[r]] = r]
  /\ Goto(r, "done")
  /\ UNCHANGED <<users, tenants, claims, logouts>>

Logout(t) ==
  /\ Caller(t, Roles)
  /\ hash'   = [hash EXCEPT ![who[t]] = Nobody]
  /\ ended'  = ended \cup {who[t]}
  /\ rivals' = [rivals EXCEPT ![who[t]] = UnderWay(who[t])]
  /\ UNCHANGED <<users, tenants, pc, claims>>

--------------------------------------------------------------------------------
(* users.service.ts, users.controller.ts                                     *)

apiToRole == [tech |-> "TECH", manager |-> "MANAGER", admin |-> "ADMIN"]

FreeEmail(e) == \A m \in members : email[m] # e

CreateChecks(r, t, e, as) ==
  /\ pc[r] = "idle" /\ Caller(t, {"MANAGER", "ADMIN"})
  /\ seen[t] = "MANAGER" => as = "tech"
  /\ FreeEmail(e)
  /\ op'   = [op EXCEPT ![r] = "member"]
  /\ seen' = [seen EXCEPT ![r] = apiToRole[as]]
  /\ shop' = [shop EXCEPT ![r] = shop[t]]
  /\ mail' = [mail EXCEPT ![r] = e]
  /\ Goto(r, "insert")
  /\ UNCHANGED <<users, hash, tenants, who, from, logouts>>

\* Variant: no unique index.
CreateInsertsAnyway(r, u) ==
  /\ pc[r] = "insert" /\ u \notin members
  /\ members' = members \cup {u}
  /\ email'   = [email EXCEPT ![u] = mail[r]]
  /\ home'    = [home EXCEPT ![u] = shop[r]]
  /\ role'    = [role EXCEPT ![u] = seen[r]]
  /\ active'  = [active EXCEPT ![u] = TRUE]
  /\ Returns(r, "made")
  /\ UNCHANGED <<hash, tenants, logouts>>

CreateInserts(r, u) ==
  /\ pc[r] = "insert" /\ u \notin members
  /\ FreeEmail(mail[r])
  /\ members' = members \cup {u}
  /\ email'   = [email EXCEPT ![u] = mail[r]]
  /\ home'    = [home EXCEPT ![u] = shop[r]]
  /\ role'    = [role EXCEPT ![u] = seen[r]]
  /\ active'  = [active EXCEPT ![u] = TRUE]
  /\ Returns(r, "made")
  /\ UNCHANGED <<hash, tenants, logouts>>

CreateCollides(r) ==
  /\ pc[r] = "insert" /\ ~FreeEmail(mail[r])
  /\ Returns(r, "dead")
  /\ UNCHANGED <<users, hash, tenants, logouts>>

\* ensureExists reads nothing that ever changes: one step.
Update(t, u, as, on) ==
  /\ Caller(t, {"ADMIN"})
  /\ u \in members /\ home[u] = shop[t]
  /\ role'   = [role EXCEPT ![u] = apiToRole[as]]
  /\ active' = [active EXCEPT ![u] = on]
  /\ UNCHANGED <<members, email, home, hash, tenants, pc, claims, logouts>>

--------------------------------------------------------------------------------
(* workshops.service.ts: create, one transaction                             *)

CreateWorkshop(t, w) ==
  /\ Caller(t, {"ADMIN"})
  /\ w \notin shops
  /\ shops'  = shops \cup {w}
  /\ grants' = grants \cup {<<who[t], w>>}
  /\ UNCHANGED <<users, hash, pc, claims, logouts>>

Dies(r) ==
  /\ pc[r] \in {"access", "store", "insert"}
  /\ Returns(r, "dead")
  /\ UNCHANGED <<users, hash, tenants, logouts>>

Step(r) ==
  \/ \E u \in Users : Login(r, u) \/ CreateInserts(r, u)
  \/ \E t \in Requests :
       \/ Refresh(r, t)
       \/ \E w \in Workshops : Switch(r, t, w)
       \/ \E e \in Emails, as \in DOMAIN apiToRole : CreateChecks(r, t, e, as)
  \/ RefreshChooses(r) \/ SwitchChecks(r) \/ SwitchRefused(r) \/ StoreRefreshHash(r)
  \/ CreateCollides(r) \/ Dies(r)

Manage(t) ==
  \/ Logout(t)
  \/ \E u \in Users, as \in DOMAIN apiToRole, on \in BOOLEAN : Update(t, u, as, on)
  \/ \E w \in Workshops : CreateWorkshop(t, w)

Next == \E r \in Requests : Step(r) \/ Manage(r)
Spec == Init /\ [][Next]_vars

--------------------------------------------------------------------------------
(***************************************************************************)
(* auth.service.ts logout, refresh: a user who logged out stays logged out *)
(* until they log in or switch again, whatever refresh tokens clients      *)
(* still hold.  Only a request that had read the user before the logout    *)
(* can store a hash over it, and then its own answer reopens the session.  *)
(***************************************************************************)
EndedStaysEnded == \A u \in ended :
  hash[u] = Nobody \/ \E r \in rivals[u] : pc[r] = "done"

(***************************************************************************)
(* refresh: "refreshing must not silently bounce the user back to their    *)
(* home workshop".  The fallback is there for access that was revoked, and *)
(* nothing revokes it.                                                     *)
(***************************************************************************)
StaysWhereSwitched == \A r \in Requests :
  Signed(r) /\ op[r] = "refresh" => shop[r] = shop[from[r]]

(***************************************************************************)
(* A token is for a workshop its user may act in, along every chain of     *)
(* logins, switches and refreshes.                                         *)
(***************************************************************************)
TokensWithinAccess == \A r \in Requests : Signed(r) => Accessible(who[r], shop[r])

(***************************************************************************)
(* users.service.ts create: of two requests that both saw an e-mail free,  *)
(* one makes the member.                                                   *)
(***************************************************************************)
EmailsUnique == \A m, n \in members : email[m] = email[n] => m = n

================================================================================
