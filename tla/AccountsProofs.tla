------------------------------ MODULE AccountsProofs ----------------------------
(***************************************************************************)
(* Proofs about Accounts, for any requests, users, workshops and e-mails.  *)
(*                                                                         *)
(* The inductive invariant adds to the properties what they rest on: a     *)
(* session request acts for a member (whose home never changes again), a   *)
(* refresh presents the pair of a finished request of the same user and    *)
(* is for the same workshop, and of who logged out only the rivals of that *)
(* logout are under way, until one of them is answered.                    *)
(***************************************************************************)
EXTENDS Accounts, TLAPS

Live == {"access", "store", "done"}

SessionsOfMembers == \A r \in Requests :
  pc[r] \in Live => op[r] \in Sessions /\ who[r] \in members

RefreshesFollow == \A r \in Requests :
  pc[r] \in Live /\ op[r] = "refresh" =>
    /\ from[r] \in Requests /\ pc[from[r]] = "done"
    /\ who[r] = who[from[r]] /\ shop[r] = shop[from[r]]

SignedWithinAccess == \A r \in Requests :
  pc[r] \in {"store", "done"} => Accessible(who[r], shop[r])

Over(u) == hash[u] = Nobody /\ UnderWay(u) \subseteq rivals[u]

EndedIsOver == \A u \in ended : Over(u) \/ \E r \in rivals[u] : pc[r] = "done"

LEMMA InitTyped == Init => TypeOK
  BY SeedAssumption DEF Init, TypeOK, Roles, Sessions

LEMMA RoleNames == \A as \in DOMAIN apiToRole : apiToRole[as] \in Roles
<1>1. DOMAIN apiToRole = {"tech", "manager", "admin"}
  BY DEF apiToRole
<1>2. apiToRole.tech \in Roles /\ apiToRole.manager \in Roles /\ apiToRole.admin \in Roles
  BY DEF apiToRole, Roles
<1> QED
  BY <1>1, <1>2

LEMMA TypeStep == TypeOK /\ [Next]_vars => TypeOK'
<1> SUFFICES ASSUME TypeOK, [Next]_vars PROVE TypeOK'
  OBVIOUS
<1> USE SeedAssumption DEF TypeOK, Goto, Sessions, Roles
<1>1. ASSUME NEW r \in Requests, NEW u \in Users, Login(r, u)
      PROVE  TypeOK'
  BY <1>1 DEF Login, Begins, Reads, users, tenants
<1>2. ASSUME NEW r \in Requests, NEW u \in Users, CreateInserts(r, u)
      PROVE  TypeOK'
  BY <1>2 DEF CreateInserts, Returns, tenants, logouts
<1>3. ASSUME NEW r \in Requests, NEW t \in Requests, Refresh(r, t)
      PROVE  TypeOK'
  BY <1>3 DEF Refresh, Reads, users, tenants, logouts
<1>4. ASSUME NEW r \in Requests, NEW t \in Requests, NEW w \in Workshops, Switch(r, t, w)
      PROVE  TypeOK'
  BY <1>4 DEF Switch, Begins, Reads, users, tenants
<1>5. ASSUME NEW r \in Requests, NEW t \in Requests, NEW e \in Emails,
             NEW as \in DOMAIN apiToRole, CreateChecks(r, t, e, as)
      PROVE  TypeOK'
  BY <1>5, RoleNames DEF CreateChecks, users, tenants, logouts
<1>6. ASSUME NEW r \in Requests, RefreshChooses(r)
      PROVE  TypeOK'
  BY <1>6 DEF RefreshChooses, users, tenants, logouts
<1>7. ASSUME NEW r \in Requests, SwitchChecks(r)
      PROVE  TypeOK'
  BY <1>7 DEF SwitchChecks, users, tenants, claims, logouts
<1>8. ASSUME NEW r \in Requests, StoreRefreshHash(r)
      PROVE  TypeOK'
  BY <1>8 DEF StoreRefreshHash, users, tenants, claims, logouts
<1>9. ASSUME NEW r \in Requests, SwitchRefused(r) \/ CreateCollides(r) \/ Dies(r)
      PROVE  TypeOK'
  <2>1. Returns(r, "dead") /\ UNCHANGED <<users, hash, tenants, logouts>>
    BY <1>9 DEF SwitchRefused, CreateCollides, Dies
  <2>2. Founder \in Users
    BY SeedAssumption
  <2> QED
    BY <2>1, <2>2 DEF Returns, users, tenants, logouts
<1>10. ASSUME NEW t \in Requests, Logout(t)
       PROVE  TypeOK'
  BY <1>10 DEF Logout, UnderWay, users, tenants, claims
<1>11. ASSUME NEW t \in Requests, NEW u \in Users, NEW as \in DOMAIN apiToRole,
              NEW on \in BOOLEAN, Update(t, u, as, on)
       PROVE  TypeOK'
  BY <1>11, RoleNames DEF Update, tenants, claims, logouts
<1>12. ASSUME NEW t \in Requests, NEW w \in Workshops, CreateWorkshop(t, w)
       PROVE  TypeOK'
  BY <1>12 DEF CreateWorkshop, users, claims, logouts
<1>13. CASE UNCHANGED vars
  BY <1>13 DEF vars, users, tenants, claims, logouts
<1> QED
  BY <1>1, <1>2, <1>3, <1>4, <1>5, <1>6, <1>7, <1>8, <1>9, <1>10, <1>11, <1>12, <1>13
     DEF Next, Step, Manage

(***************************************************************************)
(* Users, tokens, workshops and grants keep their types; a role is always  *)
(* one the guards know.                                                    *)
(***************************************************************************)
THEOREM TypeCorrect == Spec => []TypeOK
  BY InitTyped, TypeStep, PTL DEF Spec

--------------------------------------------------------------------------------
(* Sessions act for members.                                                 *)

LEMMA MembersStep ==
  TypeOK /\ SessionsOfMembers /\ [Next]_vars => SessionsOfMembers'
<1> SUFFICES ASSUME TypeOK, SessionsOfMembers, [Next]_vars PROVE SessionsOfMembers'
  OBVIOUS
<1> USE DEF SessionsOfMembers, Live, Sessions, TypeOK, Goto
<1>1. ASSUME NEW r \in Requests, NEW u \in Users, Login(r, u)
      PROVE  SessionsOfMembers'
  BY <1>1 DEF Login, Reads, users
<1>2. ASSUME NEW r \in Requests, NEW u \in Users, CreateInserts(r, u)
      PROVE  SessionsOfMembers'
  BY <1>2 DEF CreateInserts, Returns
<1>3. ASSUME NEW r \in Requests, NEW t \in Requests, Refresh(r, t)
      PROVE  SessionsOfMembers'
  BY <1>3 DEF Refresh, Reads, users
<1>4. ASSUME NEW r \in Requests, NEW t \in Requests, NEW w \in Workshops, Switch(r, t, w)
      PROVE  SessionsOfMembers'
  BY <1>4 DEF Switch, Reads, users
<1>5. ASSUME NEW r \in Requests, NEW t \in Requests, NEW e \in Emails,
             NEW as \in DOMAIN apiToRole, CreateChecks(r, t, e, as)
      PROVE  SessionsOfMembers'
  BY <1>5 DEF CreateChecks, users
<1>6. ASSUME NEW r \in Requests,
             \/ RefreshChooses(r) \/ SwitchChecks(r) \/ SwitchRefused(r) \/ StoreRefreshHash(r)
             \/ CreateCollides(r) \/ Dies(r)
      PROVE  SessionsOfMembers'
  BY <1>6 DEF RefreshChooses, SwitchChecks, SwitchRefused, StoreRefreshHash, CreateCollides,
              Dies, Returns, users, claims
<1>7. ASSUME NEW t \in Requests,
             \/ Logout(t)
             \/ \E u \in Users, as \in DOMAIN apiToRole, on \in BOOLEAN : Update(t, u, as, on)
             \/ \E w \in Workshops : CreateWorkshop(t, w)
      PROVE  SessionsOfMembers'
  BY <1>7 DEF Logout, Update, CreateWorkshop, users, claims
<1>8. CASE UNCHANGED vars
  BY <1>8 DEF vars, users, claims
<1> QED
  BY <1>1, <1>2, <1>3, <1>4, <1>5, <1>6, <1>7, <1>8 DEF Next, Step, Manage

--------------------------------------------------------------------------------
(* A logout is an end.                                                       *)

\* A step that starts no session, stores no hash and logs nobody out.
LEMMA EndedFrame ==
  ASSUME TypeOK, EndedIsOver, UNCHANGED <<hash, ended, rivals>>,
         \A u \in ended : UnderWay(u)' \subseteq UnderWay(u),
         \A r \in Requests : pc[r] = "done" => pc'[r] = "done"
  PROVE  EndedIsOver'
<1> SUFFICES ASSUME NEW u \in ended, ~\E r \in rivals[u] : pc'[r] = "done" PROVE Over(u)'
  BY DEF EndedIsOver
<1>1. rivals[u] \subseteq Requests
  BY DEF TypeOK
<1>2. Over(u)
  BY <1>1 DEF EndedIsOver
<1> QED
  BY <1>2 DEF Over

LEMMA EndedStep ==
  TypeOK /\ SessionsOfMembers /\ EndedIsOver /\ [Next]_vars => EndedIsOver'
<1> SUFFICES ASSUME TypeOK, SessionsOfMembers, EndedIsOver, [Next]_vars PROVE EndedIsOver'
  OBVIOUS
<1> USE DEF Sessions, TypeOK, Goto
<1>1. ASSUME NEW r \in Requests, NEW v \in Users, NEW step \in {"store", "access"},
             pc[r] = "idle", Goto(r, step), Begins(v), who' = [who EXCEPT ![r] = v],
             \E what : op' = [op EXCEPT ![r] = what], hash' = hash
      PROVE  EndedIsOver'
  <2> SUFFICES ASSUME NEW u \in ended'
               PROVE  Over(u)' \/ \E q \in rivals'[u] : pc'[q] = "done"
    BY DEF EndedIsOver
  <2>1. u \in ended /\ u # v /\ rivals'[u] = rivals[u] /\ rivals[u] \subseteq Requests
    BY <1>1 DEF Begins
  <2>2. UnderWay(u)' \subseteq UnderWay(u)
    BY <1>1, <2>1 DEF UnderWay
  <2>3. CASE Over(u)
    BY <1>1, <2>1, <2>2, <2>3 DEF Over
  <2>4. ASSUME NEW q \in rivals[u], pc[q] = "done"
        PROVE  pc'[q] = "done"
    BY <1>1, <2>1, <2>4
  <2> QED
    BY <2>1, <2>3, <2>4 DEF EndedIsOver
<1>2. ASSUME NEW r \in Requests, NEW u \in Users, Login(r, u)
      PROVE  EndedIsOver'
  BY <1>1, <1>2 DEF Login, Reads
<1>3. ASSUME NEW r \in Requests, NEW t \in Requests, NEW w \in Workshops, Switch(r, t, w)
      PROVE  EndedIsOver'
  BY <1>1, <1>3 DEF Switch, Reads
<1>4. ASSUME NEW r \in Requests, NEW t \in Requests, Refresh(r, t)
      PROVE  EndedIsOver'
  <2>1. hash[who[t]] # Nobody /\ pc[r] = "idle" /\ who'[r] = who[t]
    BY <1>4 DEF Refresh, Reads
  <2>2. UNCHANGED <<hash, ended, rivals>> /\ pc' = [pc EXCEPT ![r] = "access"]
    BY <1>4 DEF Refresh, logouts
  <2>3. \A q \in Requests \ {r} : op'[q] = op[q] /\ who'[q] = who[q]
    BY <1>4 DEF Refresh, Reads
  <2> SUFFICES ASSUME NEW u \in ended
               PROVE  Over(u)' \/ \E q \in rivals[u] : pc'[q] = "done"
    BY <2>2 DEF EndedIsOver
  <2>4. CASE Over(u)
    <3>1. u # who[t]
      BY <2>1, <2>4 DEF Over
    <3>2. UnderWay(u)' \subseteq UnderWay(u)
      BY <2>1, <2>2, <2>3, <3>1 DEF UnderWay
    <3> QED
      BY <2>2, <2>4, <3>2 DEF Over
  <2>5. ASSUME NEW q \in rivals[u], pc[q] = "done"
        PROVE  pc'[q] = "done"
    <3>1. q \in Requests
      OBVIOUS
    <3> QED
      BY <2>1, <2>2, <2>5, <3>1
  <2> QED
    BY <2>4, <2>5 DEF EndedIsOver
<1>5. ASSUME NEW r \in Requests, NEW t \in Requests, NEW e \in Emails,
             NEW as \in DOMAIN apiToRole, CreateChecks(r, t, e, as)
      PROVE  EndedIsOver'
  BY <1>5, EndedFrame DEF CreateChecks, UnderWay, logouts
<1>6. ASSUME NEW r \in Requests,
             \/ \E u \in Users : CreateInserts(r, u)
             \/ RefreshChooses(r) \/ SwitchChecks(r) \/ SwitchRefused(r)
             \/ CreateCollides(r) \/ Dies(r)
      PROVE  EndedIsOver'
  BY <1>6, EndedFrame DEF CreateInserts, RefreshChooses, SwitchChecks, SwitchRefused,
     CreateCollides, Dies, Returns, UnderWay, claims, logouts
<1>7. ASSUME NEW r \in Requests, StoreRefreshHash(r)
      PROVE  EndedIsOver'
  <2>1. /\ pc[r] = "store" /\ op[r] \in Sessions /\ who[r] \in Users
        /\ pc' = [pc EXCEPT ![r] = "done"] /\ hash' = [hash EXCEPT ![who[r]] = r]
        /\ UNCHANGED <<op, who, ended, rivals>>
    BY <1>7 DEF StoreRefreshHash, SessionsOfMembers, Live, claims, logouts
  <2> SUFFICES ASSUME NEW u \in ended
               PROVE  Over(u)' \/ \E q \in rivals[u] : pc'[q] = "done"
    BY <2>1 DEF EndedIsOver
  <2>2. CASE Over(u) /\ u = who[r]
    <3>1. r \in rivals[u]
      BY <2>1, <2>2 DEF Over, UnderWay
    <3> QED
      BY <2>1, <3>1
  <2>3. CASE Over(u) /\ u # who[r]
    <3>1. UnderWay(u)' \subseteq UnderWay(u)
      BY <2>1 DEF UnderWay
    <3> QED
      BY <2>1, <2>3, <3>1 DEF Over
  <2>4. ASSUME NEW q \in rivals[u], pc[q] = "done"
        PROVE  pc'[q] = "done"
    BY <2>1, <2>4
  <2> QED
    BY <2>2, <2>3, <2>4 DEF EndedIsOver
<1>8. ASSUME NEW t \in Requests, Logout(t)
      PROVE  EndedIsOver'
  <2>1. /\ who[t] \in Users /\ hash' = [hash EXCEPT ![who[t]] = Nobody]
        /\ ended' = ended \cup {who[t]} /\ UNCHANGED <<pc, op, who>>
        /\ rivals' = [rivals EXCEPT ![who[t]] = UnderWay(who[t])]
    BY <1>8 DEF Logout, claims
  <2>2. \A u \in Users : UnderWay(u)' = UnderWay(u)
    BY <2>1 DEF UnderWay
  <2> SUFFICES ASSUME NEW u \in ended'
               PROVE  Over(u)' \/ \E q \in rivals'[u] : pc'[q] = "done"
    BY DEF EndedIsOver
  <2>3. u \in Users
    BY <2>1
  <2>4. CASE u = who[t]
    BY <2>1, <2>2, <2>4 DEF Over
  <2>5. CASE u # who[t]
    <3>1. u \in ended /\ rivals'[u] = rivals[u] /\ hash'[u] = hash[u]
      BY <2>1, <2>3, <2>5
    <3>2. Over(u) \/ \E q \in rivals[u] : pc[q] = "done"
      BY <3>1 DEF EndedIsOver
    <3> QED
      BY <2>1, <2>2, <2>3, <3>1, <3>2 DEF Over
  <2> QED
    BY <2>4, <2>5
<1>9. ASSUME NEW t \in Requests,
             \/ \E u \in Users, as \in DOMAIN apiToRole, on \in BOOLEAN : Update(t, u, as, on)
             \/ \E w \in Workshops : CreateWorkshop(t, w)
      PROVE  EndedIsOver'
  BY <1>9, EndedFrame DEF Update, CreateWorkshop, UnderWay, claims, logouts
<1>10. CASE UNCHANGED vars
  BY <1>10, EndedFrame DEF vars, UnderWay, claims, logouts
<1> QED
  BY <1>2, <1>3, <1>4, <1>5, <1>6, <1>7, <1>8, <1>9, <1>10 DEF Next, Step, Manage

(***************************************************************************)
(* logout, refresh: whoever logged out stays logged out until they log in  *)
(* or switch again, or a request that was under way at the logout is       *)
(* answered.                                                               *)
(***************************************************************************)
THEOREM LogoutEnds == Spec => []EndedStaysEnded
<1>1. Init => SessionsOfMembers /\ EndedIsOver
  BY DEF Init, SessionsOfMembers, EndedIsOver, Live
<1>2. EndedIsOver => EndedStaysEnded
  BY DEF EndedIsOver, Over, EndedStaysEnded
<1> QED
  BY InitTyped, TypeStep, MembersStep, EndedStep, <1>1, <1>2, PTL DEF Spec
--------------------------------------------------------------------------------
(* A refresh is for the workshop of the pair it presents: that pair was      *)
(* signed for a workshop its user may act in, and still may.                 *)

LEMMA AccessKept ==
  ASSUME TypeOK, [Next]_vars
  PROVE  \A u \in members, w \in Workshops : Accessible(u, w) => Accessible(u, w)'
<1> USE DEF Accessible, TypeOK
<1>1. ASSUME NEW r \in Requests, NEW u \in Users, CreateInserts(r, u)
      PROVE  \A v \in members, w \in Workshops : Accessible(v, w) => Accessible(v, w)'
  BY <1>1 DEF CreateInserts, tenants
<1>2. ASSUME NEW r \in Requests,
             \/ \E u \in Users : Login(r, u)
             \/ \E t \in Requests :
                  \/ Refresh(r, t)
                  \/ \E w \in Workshops : Switch(r, t, w)
                  \/ \E e \in Emails, as \in DOMAIN apiToRole : CreateChecks(r, t, e, as)
             \/ RefreshChooses(r) \/ SwitchChecks(r) \/ SwitchRefused(r) \/ StoreRefreshHash(r)
             \/ CreateCollides(r) \/ Dies(r)
      PROVE  UNCHANGED <<home, grants>>
  BY <1>2 DEF Login, Refresh, Switch, CreateChecks, RefreshChooses, SwitchChecks,
              SwitchRefused, StoreRefreshHash, CreateCollides, Dies, users, tenants
<1>3. ASSUME NEW t \in Requests, Manage(t)
      PROVE  home' = home /\ grants \subseteq grants'
  BY <1>3 DEF Manage, Logout, Update, CreateWorkshop, users, tenants
<1>4. CASE UNCHANGED vars
  BY <1>4 DEF vars, users, tenants
<1> QED
  BY <1>1, <1>2, <1>3, <1>4 DEF Next, Step

Followed == RefreshesFollow /\ SignedWithinAccess

LEMMA FollowedStep ==
  TypeOK /\ SessionsOfMembers /\ Followed /\ [Next]_vars => Followed'
<1> SUFFICES ASSUME TypeOK, SessionsOfMembers, RefreshesFollow, SignedWithinAccess, [Next]_vars
             PROVE  RefreshesFollow' /\ SignedWithinAccess'
  BY DEF Followed
<1>a. \A u \in members, w \in Workshops :
        Accessible(u, w) => home'[u] = w \/ <<u, w>> \in grants'
  BY AccessKept DEF Accessible
<1>b. \A r \in Requests : pc[r] \in {"store", "done"} =>
        home'[who[r]] = shop[r] \/ <<who[r], shop[r]>> \in grants'
  <2> SUFFICES ASSUME NEW r \in Requests, pc[r] \in {"store", "done"}
               PROVE  home'[who[r]] = shop[r] \/ <<who[r], shop[r]>> \in grants'
    OBVIOUS
  <2>1. who[r] \in members /\ shop[r] \in Workshops
    BY DEF SessionsOfMembers, Live, TypeOK
  <2>2. Accessible(who[r], shop[r])
    BY DEF SignedWithinAccess
  <2> QED
    BY <1>a, <2>1, <2>2
<1> USE DEF RefreshesFollow, SignedWithinAccess, Live, Sessions, TypeOK, Goto, Accessible
<1>1. ASSUME NEW r \in Requests, NEW u \in Users, Login(r, u)
      PROVE  RefreshesFollow' /\ SignedWithinAccess'
  <2>1. home' = home
    BY <1>1 DEF Login, users
  <2> QED
    BY <1>1, <1>b, <2>1 DEF Login, Reads
<1>2. ASSUME NEW r \in Requests, NEW u \in Users, CreateInserts(r, u)
      PROVE  RefreshesFollow' /\ SignedWithinAccess'
  BY <1>2, <1>b DEF CreateInserts, Returns
<1>3. ASSUME NEW r \in Requests, NEW t \in Requests, Refresh(r, t)
      PROVE  RefreshesFollow' /\ SignedWithinAccess'
  BY <1>3, <1>b DEF Refresh, Reads, Caller, Bearer
<1>4. ASSUME NEW r \in Requests, NEW t \in Requests, NEW w \in Workshops, Switch(r, t, w)
      PROVE  RefreshesFollow' /\ SignedWithinAccess'
  BY <1>4, <1>b DEF Switch, Reads
<1>5. ASSUME NEW r \in Requests, NEW t \in Requests, NEW e \in Emails,
             NEW as \in DOMAIN apiToRole, CreateChecks(r, t, e, as)
      PROVE  RefreshesFollow' /\ SignedWithinAccess'
  BY <1>5, <1>b DEF CreateChecks
<1>6. ASSUME NEW r \in Requests, RefreshChooses(r)
      PROVE  RefreshesFollow' /\ SignedWithinAccess'
  <2>1. /\ from[r] \in Requests /\ pc[from[r]] = "done"
        /\ who[r] = who[from[r]] /\ shop[r] = shop[from[r]]
    BY <1>6 DEF RefreshChooses
  <2>2. Accessible(who[r], shop[r])
    BY <2>1
  <2>3. shop' = shop
    BY <1>6, <2>2 DEF RefreshChooses
  <2>4. Accessible(who[r], shop[r])'
    BY <1>6, <2>2, <2>3 DEF RefreshChooses, Accessible, users, tenants
  <2> QED
    BY <1>6, <1>b, <2>1, <2>3, <2>4 DEF RefreshChooses
<1>7. ASSUME NEW r \in Requests, SwitchChecks(r)
      PROVE  RefreshesFollow' /\ SignedWithinAccess'
  <2>1. shop[r] \in shops /\ Accessible(who[r], shop[r]) => Accessible(who[r], shop[r])'
    BY <1>7 DEF SwitchChecks, Accessible, users, tenants, claims
  <2> QED
    BY <1>7, <1>b, <2>1 DEF SwitchChecks, claims
<1>8. ASSUME NEW r \in Requests,
             StoreRefreshHash(r) \/ SwitchRefused(r) \/ CreateCollides(r) \/ Dies(r)
      PROVE  RefreshesFollow' /\ SignedWithinAccess'
  <2>1. CASE StoreRefreshHash(r)
    BY <2>1, <1>b DEF StoreRefreshHash, claims
  <2>2. CASE SwitchRefused(r) \/ CreateCollides(r) \/ Dies(r)
    <3>1. pc[r] \in {"access", "store", "insert"} /\ pc' = [pc EXCEPT ![r] = "dead"]
      BY <2>2 DEF SwitchRefused, CreateCollides, Dies, Returns
    <3>2. \A q \in Requests \ {r} :
            /\ op'[q] = op[q] /\ who'[q] = who[q] /\ shop'[q] = shop[q] /\ from'[q] = from[q]
      BY <2>2 DEF SwitchRefused, CreateCollides, Dies, Returns
    <3> QED
      BY <3>1, <3>2, <1>b
  <2> QED
    BY <1>8, <2>1, <2>2
<1>9. ASSUME NEW t \in Requests, Manage(t)
      PROVE  RefreshesFollow' /\ SignedWithinAccess'
  BY <1>9, <1>b DEF Manage, Logout, Update, CreateWorkshop, claims
<1>10. CASE UNCHANGED vars
  BY <1>10, <1>b DEF vars, claims
<1> QED
  BY <1>1, <1>2, <1>3, <1>4, <1>5, <1>6, <1>7, <1>8, <1>9, <1>10 DEF Next, Step

LEMMA AlwaysFollowed == Spec => [](TypeOK /\ Followed)
<1>1. Init => SessionsOfMembers /\ Followed
  BY DEF Init, SessionsOfMembers, Followed, RefreshesFollow, SignedWithinAccess, Live
<1> QED
  BY InitTyped, TypeStep, MembersStep, FollowedStep, <1>1, PTL DEF Spec

(***************************************************************************)
(* A refresh never bounces its user to another workshop.                   *)
(***************************************************************************)
THEOREM RefreshStays == Spec => []StaysWhereSwitched
<1>1. Followed => StaysWhereSwitched
  BY DEF Followed, RefreshesFollow, StaysWhereSwitched, Signed, Live
<1> QED
  BY AlwaysFollowed, <1>1, PTL

(***************************************************************************)
(* Along every chain of logins, switches and refreshes, a token is for a   *)
(* workshop its user may act in.                                           *)
(***************************************************************************)
THEOREM TokensStayWithinAccess == Spec => []TokensWithinAccess
<1>1. Followed => TokensWithinAccess
  BY DEF Followed, SignedWithinAccess, TokensWithinAccess, Signed
<1> QED
  BY AlwaysFollowed, <1>1, PTL

--------------------------------------------------------------------------------
(***************************************************************************)
(* No two members have one e-mail, however many invitations overlap.       *)
(***************************************************************************)
THEOREM OneMemberPerEmail == Spec => []EmailsUnique
<1>1. Init => EmailsUnique
  BY SeedAssumption DEF Init, EmailsUnique
<1>2. TypeOK /\ EmailsUnique /\ [Next]_vars => EmailsUnique'
  <2> SUFFICES ASSUME TypeOK, EmailsUnique, [Next]_vars PROVE EmailsUnique'
    OBVIOUS
  <2>1. ASSUME NEW r \in Requests, NEW u \in Users, CreateInserts(r, u)
        PROVE  EmailsUnique'
    BY <2>1 DEF CreateInserts, FreeEmail, EmailsUnique, TypeOK
  <2>2. ASSUME NEW r \in Requests,
               \/ \E u \in Users : Login(r, u)
               \/ \E t \in Requests :
                    \/ Refresh(r, t)
                    \/ \E w \in Workshops : Switch(r, t, w)
                    \/ \E e \in Emails, as \in DOMAIN apiToRole : CreateChecks(r, t, e, as)
               \/ RefreshChooses(r) \/ SwitchChecks(r) \/ SwitchRefused(r) \/ StoreRefreshHash(r)
               \/ CreateCollides(r) \/ Dies(r)
        PROVE  UNCHANGED <<members, email>>
    BY <2>2 DEF Login, Refresh, Switch, CreateChecks, RefreshChooses, SwitchChecks,
                SwitchRefused, StoreRefreshHash, CreateCollides, Dies, users
  <2>3. ASSUME NEW t \in Requests, Manage(t)
        PROVE  UNCHANGED <<members, email>>
    BY <2>3 DEF Manage, Logout, Update, CreateWorkshop, users
  <2>4. CASE UNCHANGED vars
    BY <2>4 DEF vars, users, EmailsUnique
  <2> QED
    BY <2>1, <2>2, <2>3, <2>4 DEF Next, Step, EmailsUnique
<1> QED
  BY InitTyped, TypeStep, <1>1, <1>2, PTL DEF Spec
================================================================================
