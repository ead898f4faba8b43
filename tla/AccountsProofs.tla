--------------------------- MODULE AccountsProofs ---------------------------
(***************************************************************************)
(* Who may use the server.  Accounts, for any users, named administrators, *)
(* passwords and requests: rows are well formed, a reset link works once,  *)
(* and, with one administrator's request at a time, an administrator       *)
(* remains.  The license, for any keys, grace period and length of time.   *)
(***************************************************************************)
EXTENDS Accounts, License, TLAPS

------------------------------------------------------------------------------
(* Accounts. *)

LEMMA NoHashIsNoHash == NoHash \notin Hash
BY AccountsAssumption

\* ensure_user gives the caller a row and leaves every other row alone; who has
\* a row keeps the role, or is promoted.
LEMMA EnsuredType ==
    ASSUME TypeOK, NEW u \in Users
    PROVE  /\ Ensured(u) \in [Users -> Roles \cup {NoAccount}]
           /\ Ensured(u)[u] # NoAccount
           /\ \A v \in Users : HasRow(v) => Ensured(u)[v] # NoAccount
           /\ \A v \in Users : role[v] = "admin" => Ensured(u)[v] = "admin"
<1>1. Default(u, \A v \in Users : ~HasRow(v)) \in Roles
  BY DEF Default, Roles
<1>2. NoAccount \notin Roles /\ "admin" \in Roles
  BY AccountsAssumption DEF Roles
<1>3. role \in [Users -> Roles \cup {NoAccount}]
  BY DEF TypeOK
<1>4. CASE ~HasRow(u)
  <2>1. Ensured(u) = [role EXCEPT ![u] = Default(u, \A v \in Users : ~HasRow(v))]
    BY <1>4 DEF Ensured
  <2>2. role[u] = NoAccount
    BY <1>4 DEF HasRow
  <2> QED
    BY <1>1, <1>2, <1>3, <2>1, <2>2 DEF HasRow
<1>5. CASE HasRow(u)
  <2>1. Ensured(u) = [role EXCEPT ![u] = IF u \in Forced THEN "admin" ELSE role[u]]
    BY <1>3, <1>5 DEF Ensured
  <2> QED
    BY <1>2, <1>3, <1>5, <2>1 DEF HasRow
<1> QED
  BY <1>4, <1>5

LEMMA NewHashType ==
    ASSUME TypeOK, NEW u \in Users, NEW p \in Passwords, NewHash(u, p)
    PROVE  /\ salts' = salts + 1
           /\ salts' \in 0..MaxSalts
           /\ hash' \in [Users -> Hash \cup {NoHash}]
           /\ hash'[u] = [password |-> p, salt |-> salts + 1]
           /\ \A v \in Users : v # u => hash'[v] = hash[v]
<1>1. salts \in 0..MaxSalts /\ MaxSalts \in Nat /\ salts < MaxSalts /\ salts' = salts + 1
  BY AccountsAssumption DEF TypeOK, NewHash
<1>2. salts + 1 \in 1..MaxSalts /\ salts' \in 0..MaxSalts
  BY <1>1
<1>3. [password |-> p, salt |-> salts + 1] \in Hash
  BY <1>2 DEF Hash
<1> QED
  BY <1>1, <1>2, <1>3 DEF TypeOK, NewHash

------------------------------------------------------------------------------
(* Rows. *)

\* Rows are well formed: a user without a row has neither a block nor a password
\* that a new account of that name could inherit.
LEMMA TypeStep == TypeOK /\ [Next]_vars => TypeOK'
<1> SUFFICES ASSUME TypeOK, [Next]_vars
             PROVE  TypeOK'
  OBVIOUS
<1> USE DEF TypeOK
<1>0. CASE UNCHANGED vars
  BY <1>0 DEF vars, HasRow
<1>1. ASSUME NEW u \in Users, Visit(u) PROVE TypeOK'
  BY <1>1, EnsuredType DEF Visit, HasRow
<1>2. ASSUME NEW u \in Users, Forgot(u) PROVE TypeOK'
  <2>1. [user |-> u, hash |-> hash[u]] \in Link
    BY <1>2 DEF Forgot, Link
  <2> QED
    BY <1>2, <2>1 DEF Forgot, HasRow
<1>3. ASSUME NEW u \in Users, NEW p \in Passwords, Register(u, p) PROVE TypeOK'
  <2>1. NewHash(u, p)
    BY <1>3 DEF Register
  <2>2. Created(u) \in Roles
    BY DEF Created, Default, Roles
  <2>3. NoAccount \notin Roles
    BY AccountsAssumption
  <2> QED
    BY <1>3, <2>1, <2>2, <2>3, NewHashType DEF Register, HasRow
<1>4. ASSUME NEW u \in Users, NEW p \in Passwords, ChangePassword(u, p) PROVE TypeOK'
  BY <1>4, NewHashType DEF ChangePassword, HasRow
<1>5. ASSUME NEW u \in Users, NEW r \in Roles, SsoLogin(u, r) PROVE TypeOK'
  <2>1. role' \in [Users -> Roles \cup {NoAccount}]
    BY <1>5, EnsuredType DEF SsoLogin
  <2>2. \A v \in Users : HasRow(v) => role'[v] # NoAccount
    BY <1>5, EnsuredType, AccountsAssumption DEF SsoLogin
  <2> QED
    BY <1>5, <2>1, <2>2 DEF SsoLogin, HasRow
<1>6. ASSUME NEW l \in links, Expire(l) PROVE TypeOK'
  BY <1>6 DEF Expire, HasRow
<1>7. ASSUME NEW l \in links, NEW p \in Passwords, Reset(l, p) PROVE TypeOK'
  <2>1. l \in Link /\ l.user \in Users /\ l.hash \in Hash
    BY DEF Link
  <2>2. NewHash(l.user, p) /\ hash[l.user] # NoHash
    BY <1>7, <2>1, NoHashIsNoHash DEF Reset
  <2> QED
    BY <1>7, <2>1, <2>2, NewHashType DEF Reset, HasRow
<1>8. ASSUME NEW q \in Requests, Refuse(q) PROVE TypeOK'
  BY <1>8 DEF Refuse, Done, HasRow
<1>9. ASSUME NEW q \in Requests, NEW u \in Users, LetIn(q, u) PROVE TypeOK'
  BY <1>9, EnsuredType DEF LetIn, HasRow
<1>10. ASSUME NEW q \in Requests, NEW t \in Users, DeleteUser(q, t) PROVE TypeOK'
  BY <1>10 DEF DeleteUser, Done, HasRow
<1>11. ASSUME NEW q \in Requests, NEW t \in Users, NEW b \in BOOLEAN, SetBlocked(q, t, b)
       PROVE  TypeOK'
  <2>1. (HasRow(t) /\ b) \in BOOLEAN
    BY DEF HasRow
  <2> QED
    BY <1>11, <2>1 DEF SetBlocked, Done, HasRow
<1>12. ASSUME NEW q \in Requests, NEW t \in Users, NEW r \in Roles, SetRole(q, t, r)
       PROVE  TypeOK'
  BY <1>12, AccountsAssumption DEF SetRole, Done, HasRow
<1>13. ASSUME NEW q \in Requests, NEW t \in Users, NEW r \in Roles, NEW p \in Passwords,
              CreateUser(q, t, r, p)
       PROVE  TypeOK'
  <2>1. NewHash(t, p) /\ r # NoAccount
    BY <1>13, AccountsAssumption DEF CreateUser
  <2> QED
    BY <1>13, <2>1, NewHashType DEF CreateUser, Done, HasRow
<1> QED
  BY <1>0, <1>1, <1>2, <1>3, <1>4, <1>5, <1>6, <1>7, <1>8, <1>9, <1>10, <1>11, <1>12, <1>13
  DEF Next

LEMMA TypeInit == Init => TypeOK
BY AccountsAssumption DEF Init, TypeOK, HasRow

\* The rows of ws_users are well formed in every reachable state.
THEOREM TypeCorrect == Spec => []TypeOK
BY TypeInit, TypeStep, PTL DEF Spec

------------------------------------------------------------------------------
(* Reset links. *)

\* What makes a link work once: a salt is drawn once, and the hashes in rows and
\* in links were made with salts drawn before.
SaltsAreDrawn ==
    /\ \A u \in Users : hash[u] # NoHash => hash[u].salt <= salts
    /\ \A l \in links : l.hash.salt <= salts
    /\ \A l \in spent : l.hash.salt <= salts

SpentInv == SaltsAreDrawn /\ SpentLinksAreDead

LEMMA LinkParts == ASSUME TypeOK, NEW l \in links \cup spent
                   PROVE  l.user \in Users /\ l.hash \in Hash /\ l.hash.salt \in Nat
<1>1. l \in Link
  BY DEF TypeOK
<1> QED
  BY <1>1 DEF Link, Hash

\* A new hash is none that a link was made with.
LEMMA FreshHash ==
    ASSUME TypeOK, SpentInv, NEW u \in Users, NEW p \in Passwords, NewHash(u, p)
    PROVE  /\ \A v \in Users : hash'[v] # NoHash => hash'[v].salt <= salts'
           /\ \A l \in links \cup spent : l.hash.salt <= salts' /\ hash'[u] # l.hash
           /\ \A l \in spent : hash'[l.user] # l.hash
<1>1. salts \in Nat /\ salts' = salts + 1
  BY AccountsAssumption DEF TypeOK, NewHash
<1>2. hash'[u] = [password |-> p, salt |-> salts + 1] /\ \A v \in Users : v # u => hash'[v] = hash[v]
  BY NewHashType
<1>3. ASSUME NEW v \in Users, hash'[v] # NoHash PROVE hash'[v].salt <= salts'
  <2>1. CASE v = u
    BY <1>1, <1>2, <2>1
  <2>2. CASE v # u
    <3>1. hash[v] \in Hash /\ hash[v].salt <= salts
      BY <1>2, <1>3, <2>2 DEF TypeOK, SpentInv, SaltsAreDrawn
    <3>2. hash[v].salt \in Nat
      BY <3>1 DEF Hash
    <3> QED
      BY <1>1, <1>2, <2>2, <3>1, <3>2
  <2> QED
    BY <2>1, <2>2
<1>4. ASSUME NEW l \in links \cup spent PROVE l.hash.salt <= salts' /\ hash'[u] # l.hash
  <2>1. l.hash.salt \in Nat /\ l.hash.salt <= salts
    BY LinkParts DEF SpentInv, SaltsAreDrawn
  <2>2. hash'[u].salt = salts + 1
    BY <1>2
  <2> QED
    BY <1>1, <2>1, <2>2
<1>5. ASSUME NEW l \in spent PROVE hash'[l.user] # l.hash
  <2>1. l.user \in Users /\ hash[l.user] # l.hash
    BY LinkParts DEF SpentInv, SpentLinksAreDead
  <2> QED
    BY <1>2, <1>4, <2>1
<1> QED
  BY <1>3, <1>4, <1>5

\* The step may draw a hash, spend the links it was drawn for, forget links and
\* passwords, and make a link for a hash that a row has.
LEMMA SpentStep == TypeOK /\ SpentInv /\ [Next]_vars => SpentInv'
<1> SUFFICES ASSUME TypeOK, SpentInv, [Next]_vars
             PROVE  SpentInv'
  OBVIOUS
<1>0. CASE UNCHANGED <<hash, salts, links, spent>>
  BY <1>0 DEF SpentInv, SaltsAreDrawn, SpentLinksAreDead
<1>1. ASSUME NEW u \in Users, NEW p \in Passwords, NewHash(u, p), UNCHANGED <<links, spent>>
      PROVE  SpentInv'
  BY <1>1, FreshHash DEF SpentInv, SaltsAreDrawn, SpentLinksAreDead
<1>2. ASSUME NEW u \in Users, Forgot(u) PROVE SpentInv'
  BY <1>2 DEF Forgot, SpentInv, SaltsAreDrawn, SpentLinksAreDead
<1>3. ASSUME NEW l \in links, Expire(l) PROVE SpentInv'
  BY <1>3 DEF Expire, SpentInv, SaltsAreDrawn, SpentLinksAreDead
<1>4. ASSUME NEW l \in links, NEW p \in Passwords, Reset(l, p) PROVE SpentInv'
  <2>1. l.user \in Users /\ NewHash(l.user, p)
    BY <1>4, LinkParts DEF Reset
  <2>2. hash'[l.user] # l.hash
    BY <2>1, FreshHash
  <2>3. links' = links /\ spent' = spent \cup {l}
    BY <1>4 DEF Reset
  <2>4. /\ \A v \in Users : hash'[v] # NoHash => hash'[v].salt <= salts'
        /\ \A k \in links \cup spent : k.hash.salt <= salts'
        /\ \A k \in spent : hash'[k.user] # k.hash
    BY <2>1, FreshHash
  <2> QED
    BY <2>2, <2>3, <2>4 DEF SpentInv, SaltsAreDrawn, SpentLinksAreDead
<1>5. ASSUME NEW q \in Requests, NEW t \in Users, DeleteUser(q, t) PROVE SpentInv'
  <2>1. hash' = [hash EXCEPT ![t] = NoHash] /\ UNCHANGED <<salts, links, spent>>
    BY <1>5 DEF DeleteUser, Done
  <2>2. hash \in [Users -> Hash \cup {NoHash}]
    BY DEF TypeOK
  <2>3. \A v \in Users : hash'[v] = NoHash \/ hash'[v] = hash[v]
    BY <2>1, <2>2
  <2>4. \A l \in spent : l.user \in Users /\ l.hash # NoHash
    BY LinkParts, NoHashIsNoHash
  <2> QED
    BY <2>1, <2>3, <2>4 DEF SpentInv, SaltsAreDrawn, SpentLinksAreDead
<1>6. ASSUME NEW u \in Users, NEW p \in Passwords, Register(u, p) \/ ChangePassword(u, p)
      PROVE  SpentInv'
  BY <1>1, <1>6 DEF Register, ChangePassword
<1>7. ASSUME NEW q \in Requests, NEW t \in Users, NEW r \in Roles, NEW p \in Passwords,
             CreateUser(q, t, r, p)
      PROVE  SpentInv'
  BY <1>1, <1>7 DEF CreateUser, Done
<1>8. ASSUME \/ \E u \in Users : Visit(u) \/ \E r \in Roles : SsoLogin(u, r)
             \/ \E q \in Requests :
                  \/ Refuse(q)
                  \/ \E u \in Users : LetIn(q, u)
                  \/ \E t \in Users : \/ \E b \in BOOLEAN : SetBlocked(q, t, b)
                                      \/ \E r \in Roles : SetRole(q, t, r)
      PROVE  SpentInv'
  BY <1>0, <1>8 DEF Visit, SsoLogin, Refuse, LetIn, SetBlocked, SetRole, Done
<1>9. CASE UNCHANGED vars
  BY <1>0, <1>9 DEF vars
<1> QED
  BY <1>2, <1>3, <1>4, <1>5, <1>6, <1>7, <1>8, <1>9 DEF Next

LEMMA SpentInit == Init => SpentInv
BY DEF Init, SpentInv, SaltsAreDrawn, SpentLinksAreDead

\* A reset link works once: no hash that is set later, for the same row or for a
\* new row of that name, is the one the link was made for.
THEOREM SpentCorrect == Spec => []SpentLinksAreDead
<1>1. SpentInv => SpentLinksAreDead
  BY DEF SpentInv
<1> QED
  BY <1>1, TypeCorrect, SpentInit, SpentStep, PTL DEF Spec

------------------------------------------------------------------------------
(* Administrators. *)

\* Who was let in for a request still is an administrator who is not blocked: with
\* one request at a time nothing but groups could have changed that.
LetInInv == \A q \in Requests : caller[q] # NoCaller /\ ~groups => caller[q] \in AbleAdmins

\* Whoever is let in as an administrator is one.
LEMMA LetInIsAble ==
    ASSUME TypeOK, NEW q \in Requests, NEW u \in Users, LetIn(q, u)
    PROVE  u \in AbleAdmins' /\ caller' = [caller EXCEPT ![q] = u]
BY DEF LetIn, AbleAdmins

\* Requests of everyone else, roles from groups aside, take nothing from anybody.
LEMMA OthersKeep ==
    ASSUME TypeOK,
           \/ UNCHANGED vars
           \/ \E u \in Users :
                 \/ Visit(u)
                 \/ Forgot(u)
                 \/ \E p \in Passwords : Register(u, p) \/ ChangePassword(u, p)
                 \/ \E r \in Roles : ~groups /\ SsoLogin(u, r)
                 \/ \E q \in Requests : LetIn(q, u)
           \/ \E l \in links : Expire(l) \/ \E p \in Passwords : Reset(l, p)
           \/ \E q \in Requests : Refuse(q)
    PROVE  /\ \A v \in Users : role[v] = "admin" => role'[v] = "admin"
           /\ blocked' = blocked
           /\ groups' = groups
<1>1. CASE UNCHANGED role
  BY <1>1 DEF vars, Visit, Forgot, Register, ChangePassword, SsoLogin, LetIn, Expire, Reset,
              Refuse, Done
<1>2. ASSUME NEW u \in Users, role' = Ensured(u), blocked' = blocked, groups' = groups
      PROVE  /\ \A v \in Users : role[v] = "admin" => role'[v] = "admin"
             /\ blocked' = blocked
             /\ groups' = groups
  BY <1>2, EnsuredType
<1>3. ASSUME NEW u \in Users, NEW p \in Passwords, Register(u, p)
      PROVE  /\ \A v \in Users : role[v] = "admin" => role'[v] = "admin"
             /\ blocked' = blocked
             /\ groups' = groups
  <2>1. role[u] # "admin"
    BY <1>3, AccountsAssumption DEF Register, HasRow, Roles
  <2> QED
    BY <1>3, <2>1 DEF Register, TypeOK
<1> QED
  BY <1>1, <1>2, <1>3
  DEF vars, Visit, Forgot, ChangePassword, SsoLogin, LetIn, Expire, Reset, Refuse, Done

\* An administrator's request changes a row of somebody else, or makes the caller
\* an administrator again.
LEMMA AdminsKeepCaller ==
    ASSUME TypeOK, NEW q \in Requests, NEW t \in Users, caller[q] \in AbleAdmins,
           \/ DeleteUser(q, t)
           \/ \E b \in BOOLEAN : SetBlocked(q, t, b)
           \/ \E r \in Roles : SetRole(q, t, r) \/ \E p \in Passwords : CreateUser(q, t, r, p)
    PROVE  caller[q] \in AbleAdmins'
<1> DEFINE a == caller[q]
<1>0. a \in Users /\ role[a] = "admin" /\ ~blocked[a] /\ "admin" # NoAccount
  BY AccountsAssumption DEF AbleAdmins, Roles
<1>1. CASE DeleteUser(q, t)
  BY <1>0, <1>1 DEF DeleteUser, AbleAdmins, TypeOK
<1>2. ASSUME NEW b \in BOOLEAN, SetBlocked(q, t, b) PROVE a \in AbleAdmins'
  BY <1>0, <1>2 DEF SetBlocked, AbleAdmins, TypeOK
<1>3. ASSUME NEW r \in Roles, SetRole(q, t, r) PROVE a \in AbleAdmins'
  BY <1>0, <1>3 DEF SetRole, AbleAdmins, TypeOK
<1>4. ASSUME NEW r \in Roles, NEW p \in Passwords, CreateUser(q, t, r, p) PROVE a \in AbleAdmins'
  BY <1>0, <1>4 DEF CreateUser, HasRow, AbleAdmins, TypeOK
<1> QED
  BY <1>1, <1>2, <1>3, <1>4

LEMMA LetInStep ==
    ASSUME \A q1, q2 \in Requests : q1 = q2
    PROVE  TypeOK /\ LetInInv /\ [Next]_vars => LetInInv'
<1> SUFFICES ASSUME TypeOK, LetInInv, [Next]_vars,
                    NEW q \in Requests, caller'[q] # NoCaller, ~groups'
             PROVE  caller'[q] \in AbleAdmins'
  BY DEF LetInInv
<1>0. caller[q] \in Users \cup {NoCaller}
  BY DEF TypeOK
<1>1. ASSUME caller' = caller, groups' = groups, blocked' = blocked,
             \A v \in Users : role[v] = "admin" => role'[v] = "admin"
      PROVE  caller'[q] \in AbleAdmins'
  <2>1. caller[q] \in AbleAdmins
    BY <1>1 DEF LetInInv
  <2> QED
    BY <1>1, <2>1 DEF AbleAdmins
<1>2. ASSUME NEW u \in Users, NEW r \in Requests, LetIn(r, u) PROVE caller'[q] \in AbleAdmins'
  <2>1. r = q
    OBVIOUS
  <2>2. u \in AbleAdmins' /\ caller' = [caller EXCEPT ![r] = u]
    BY <1>2, LetInIsAble
  <2> QED
    BY <2>1, <2>2 DEF TypeOK
<1>3. ASSUME NEW r \in Requests, Done(r) PROVE FALSE
  <2>1. r = q
    OBVIOUS
  <2> QED
    BY <1>3, <2>1 DEF Done, TypeOK
<1>4. CASE UNCHANGED vars
  BY <1>1, <1>4 DEF vars
<1>5. ASSUME \/ \E u \in Users :
                 \/ Visit(u)
                 \/ Forgot(u)
                 \/ \E p \in Passwords : Register(u, p) \/ ChangePassword(u, p)
                 \/ \E r \in Roles : SsoLogin(u, r)
             \/ \E l \in links : Expire(l) \/ \E p \in Passwords : Reset(l, p)
      PROVE  caller'[q] \in AbleAdmins'
  <2>1. caller' = caller /\ groups' = groups
    BY <1>5 DEF Visit, Forgot, Register, NewHash, ChangePassword, SsoLogin, Expire, Reset
  <2>2. /\ \A v \in Users : role[v] = "admin" => role'[v] = "admin"
        /\ blocked' = blocked
    BY <1>5, <2>1, OthersKeep
  <2> QED
    BY <1>1, <2>1, <2>2
<1>6. ASSUME NEW r \in Requests,
             \/ Refuse(r)
             \/ \E t \in Users :
                   \/ DeleteUser(r, t)
                   \/ \E b \in BOOLEAN : SetBlocked(r, t, b)
                   \/ \E x \in Roles : SetRole(r, t, x) \/ \E p \in Passwords : CreateUser(r, t, x, p)
      PROVE  FALSE
  <2>1. Done(r)
    BY <1>6 DEF Refuse, DeleteUser, SetBlocked, SetRole, CreateUser
  <2> QED
    BY <1>3, <2>1
<1> QED
  BY <1>2, <1>4, <1>5, <1>6 DEF Next

LEMMA LetInInit == Init => LetInInv
BY DEF Init, LetInInv

\* With one administrator's request at a time, and without a role map, the last
\* administrator who is not blocked stays one.
THEOREM LastAdminCorrect ==
    ASSUME \A q1, q2 \in Requests : q1 = q2
    PROVE  Spec => LastAdminStays
<1>1. TypeOK /\ LetInInv /\ [Next]_vars => [~groups /\ AbleAdmins # {} => AbleAdmins' # {}]_vars
  <2> SUFFICES ASSUME TypeOK, LetInInv, [Next]_vars, ~groups, AbleAdmins # {}
               PROVE  AbleAdmins' # {}
    OBVIOUS
  <2>1. ASSUME NEW q \in Requests, NEW t \in Users,
               \/ DeleteUser(q, t)
               \/ \E b \in BOOLEAN : SetBlocked(q, t, b)
               \/ \E r \in Roles : SetRole(q, t, r) \/ \E p \in Passwords : CreateUser(q, t, r, p)
        PROVE  AbleAdmins' # {}
    <3>1. caller[q] # NoCaller
      BY <2>1 DEF DeleteUser, SetBlocked, SetRole, CreateUser, Done
    <3>2. caller[q] \in AbleAdmins
      BY <3>1 DEF LetInInv
    <3> QED
      BY <2>1, <3>2, AdminsKeepCaller
  <2>2. ASSUME /\ \A v \in Users : role[v] = "admin" => role'[v] = "admin"
               /\ blocked' = blocked
        PROVE  AbleAdmins' # {}
    BY <2>2 DEF AbleAdmins
  <2> QED
    BY <2>1, <2>2, OthersKeep DEF Next
<1> QED
  BY <1>1, TypeCorrect, LetInInit, LetInStep, PTL DEF Spec, LastAdminStays

\* An administrator's request is made by somebody who is one at that moment, when no
\* other administrator's request overlaps it and no role map takes roles away: the
\* claim of ws_set_user_role, ws_set_user_blocked and ws_delete_user fails only by these.
THEOREM AdminOnlyAlone ==
    ASSUME \A q1, q2 \in Requests : q1 = q2
    PROVE  Spec /\ ~groups => AdminOnly
<1>1. ~groups /\ [Next]_vars => ~groups'
  BY DEF Next, vars, Visit, Register, Forgot, Reset, Expire, ChangePassword, SsoLogin, LetIn, Refuse,
         SetRole, SetBlocked, CreateUser, DeleteUser, Done
<1>2. LetInInv /\ ~groups /\ [Next]_vars =>
        [\A q \in Requests :
            caller[q] # NoCaller /\ caller'[q] = NoCaller
              => \/ UNCHANGED <<role, blocked, hash>>
                 \/ caller[q] \in AbleAdmins]_vars
  BY DEF LetInInv
<1> QED
  BY <1>1, <1>2, TypeCorrect, LetInInit, LetInStep, PTL DEF Spec, AdminOnly

------------------------------------------------------------------------------
(* License. *)

\* What keeps loads in time: the cache is written only by a validation, on a day
\* when the key was good.
CacheInTime == cache # None => cache.day <= expires[cache.key]

LicenseInv == LicenseTypeOK /\ CacheInTime /\ LicenseInTime /\ RestartReadsActivated

LEMMA LicenseInit0 == LicenseInit => LicenseInv
BY LicenseAssumption DEF LicenseInit, LicenseInv, LicenseTypeOK, CacheInTime, LicenseInTime,
   RestartReadsActivated

\* Loading a token, whatever it is and however it turns out.
LEMMA LoadKeeps ==
    ASSUME LicenseInv, NEW t \in Texts \cup {NoKey}, Load(t), UNCHANGED <<today, expires>>
    PROVE  /\ license' \in Loaded \cup {None}
           /\ cache' \in Loaded \cup {None}
           /\ \A c \in {cache', license'} :
                 c # None => c.key \in Issued' /\ c.day <= today'
           /\ CacheInTime'
           /\ LicenseInTime'
<1> USE DEF Loaded
<1>0. /\ today \in 0..MaxDay /\ today \in Nat /\ GraceDays \in Nat
      /\ today' = today /\ expires' = expires
      /\ cache \in Loaded \cup {None}
      /\ cache # None => cache.key \in Issued /\ cache.day <= today /\ cache.day \in Nat
      /\ cache # None => cache.day <= expires[cache.key] /\ expires[cache.key] \in Nat
  BY LicenseAssumption DEF LicenseInv, LicenseTypeOK, CacheInTime, Issued
<1>1. Issued' = Issued
  BY <1>0 DEF Issued
<1>2. CASE license' = None /\ UNCHANGED cache
  BY <1>0, <1>1, <1>2 DEF CacheInTime, LicenseInTime
<1>3. CASE Good(t) /\ license' = [key |-> t, day |-> today] /\ cache' \in {license', cache, None}
  <2>1. t \in Keys /\ t \in Issued /\ today <= expires[t]
    BY <1>3 DEF Good, Issued
  <2>2. license' \in Loaded /\ license'.key = t /\ license'.day = today
    BY <1>0, <1>3, <2>1
  <2>3. license'.key \in Issued' /\ license'.day <= today' /\ license'.day <= expires'[license'.key]
    BY <1>0, <1>1, <2>1, <2>2
  <2> QED
    BY <1>0, <1>1, <1>3, <2>2, <2>3 DEF CacheInTime, LicenseInTime
<1>4. CASE InGrace /\ license' = [key |-> cache.key, day |-> today] /\ UNCHANGED cache
  <2>1. cache # None /\ today < cache.day + GraceDays
    BY <1>4 DEF InGrace
  <2>2. license' \in Loaded /\ license'.key = cache.key /\ license'.day = today
    BY <1>0, <1>4, <2>1, LicenseAssumption
  <2>3. license'.day < expires'[license'.key] + GraceDays
    BY <1>0, <2>1, <2>2
  <2> QED
    BY <1>0, <1>1, <1>4, <2>1, <2>2, <2>3 DEF CacheInTime, LicenseInTime
<1> QED
  BY <1>2, <1>3, <1>4 DEF Load, FallBack

LEMMA LicenseStep == LicenseInv /\ [LicenseNext]_licenseVars => LicenseInv'
<1> SUFFICES ASSUME LicenseInv, [LicenseNext]_licenseVars
             PROVE  LicenseInv'
  OBVIOUS
<1>0. LicenseTypeOK /\ CacheInTime /\ LicenseInTime /\ RestartReadsActivated
  BY DEF LicenseInv
<1>1. CASE UNCHANGED licenseVars
  BY <1>0, <1>1 DEF licenseVars, LicenseInv, LicenseTypeOK, CacheInTime, LicenseInTime,
                    RestartReadsActivated, Issued
<1>2. CASE Tick
  BY <1>0, <1>2, LicenseAssumption
  DEF Tick, LicenseInv, LicenseTypeOK, CacheInTime, LicenseInTime, RestartReadsActivated, Issued,
      Loaded
<1>3. ASSUME NEW k \in Keys, NEW d \in 0..MaxDay, Issue(k, d) PROVE LicenseInv'
  <2>1. /\ today \in Nat /\ d \in Nat /\ today + d \in 0..(2 * MaxDay)
        /\ expires[k] = None
    BY <1>0, <1>3, LicenseAssumption DEF LicenseTypeOK, Issue, Issued
  <2>2. /\ expires' \in [Keys -> 0..(2 * MaxDay) \cup {None}]
        /\ \A i \in Issued : i \in Issued' /\ expires'[i] = expires[i]
    BY <1>0, <1>3, <2>1 DEF LicenseTypeOK, Issue, Issued
  <2>3. UNCHANGED <<today, deployed, env, file, cache, license>>
    BY <1>3 DEF Issue
  <2>4. LicenseTypeOK'
    BY <1>0, <2>2, <2>3 DEF LicenseTypeOK
  <2>5. CacheInTime' /\ LicenseInTime' /\ RestartReadsActivated'
    BY <1>0, <2>2, <2>3 DEF LicenseTypeOK, CacheInTime, LicenseInTime, RestartReadsActivated
  <2> QED
    BY <2>4, <2>5 DEF LicenseInv
<1>4. ASSUME NEW t \in Usable \cup {NoKey}, Restart(t) PROVE LicenseInv'
  <2>1. t \in Texts \cup {NoKey} /\ ReadToken(t, file) \in Texts \cup {NoKey}
    BY <1>0 DEF LicenseTypeOK, ReadToken, Usable, Issued, Texts
  <2>2. Load(ReadToken(t, file)) /\ UNCHANGED <<today, expires, file>>
    BY <1>4 DEF Restart
  <2>3. env' = t /\ deployed' = t
    BY <1>4 DEF Restart
  <2>4. LicenseTypeOK'
    BY <1>0, <2>1, <2>2, <2>3, LoadKeeps DEF LicenseTypeOK
  <2>5. CacheInTime' /\ LicenseInTime'
    BY <2>1, <2>2, LoadKeeps
  <2>6. RestartReadsActivated'
    BY <2>3 DEF RestartReadsActivated
  <2> QED
    BY <2>4, <2>5, <2>6 DEF LicenseInv
<1>5. ASSUME NEW t \in Usable, NEW f \in {file, NoKey}, NotWritten(t, f) PROVE LicenseInv'
  <2>2. f \in Texts \cup {NoKey}
    BY <1>0 DEF LicenseTypeOK
  <2> QED
    BY <1>0, <1>5, <2>2
    DEF NotWritten, LicenseInv, LicenseTypeOK, CacheInTime, LicenseInTime, RestartReadsActivated,
        Issued
<1>6. ASSUME NEW t \in Usable, file' = t, env' = t, Load(t),
             UNCHANGED <<today, expires, deployed>>
      PROVE  LicenseInv'
  <2>1. t \in Texts
    BY DEF Usable, Issued, Texts
  <2>3. LicenseTypeOK'
    BY <1>0, <1>6, <2>1, LoadKeeps DEF LicenseTypeOK
  <2>4. CacheInTime' /\ LicenseInTime'
    BY <1>6, <2>1, LoadKeeps
  <2>5. RestartReadsActivated'
    BY <1>6 DEF RestartReadsActivated
  <2> QED
    BY <2>3, <2>4, <2>5 DEF LicenseInv
<1> QED
  BY <1>1, <1>2, <1>3, <1>4, <1>5, <1>6 DEF LicenseNext, Activate

\* What is cached or in force was issued and was seen on a day up to now.
THEOREM LicenseTypeCorrect == LicenseSpec => []LicenseTypeOK
BY LicenseInit0, LicenseStep, PTL DEF LicenseSpec, LicenseInv

\* No load puts a license into force a grace period past its last day.
THEOREM LicenseInTimeCorrect == LicenseSpec => []LicenseInTime
BY LicenseInit0, LicenseStep, PTL DEF LicenseSpec, LicenseInv

\* A restart without LICENSE_KEY reads what was activated.
THEOREM RestartCorrect == LicenseSpec => []RestartReadsActivated
BY LicenseInit0, LicenseStep, PTL DEF LicenseSpec, LicenseInv



==============================================================================
