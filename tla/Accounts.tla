------------------------------ MODULE Accounts ------------------------------
(***************************************************************************)
(* User accounts: the table ws_users of workspace/db.py, the middleware of *)
(* workspace/auth.py, local passwords and reset links                      *)
(* (workspace/local_auth.py), sign-on, and the administrator endpoints of  *)
(* main.py.                                                                *)
(*                                                                         *)
(* Everything runs on the event loop, and a handler keeps it until it      *)
(* awaits.  The middleware looks up the caller's role before the handler   *)
(* runs, and the administrator endpoints await the body of the request in  *)
(* between, so other requests are served in the meantime.                  *)
(*                                                                         *)
(* role      the role in a user's row, or NoAccount                        *)
(* blocked   the flag in the row                                           *)
(* hash      the password hash in the row                                  *)
(* salts     salts bcrypt has drawn                                        *)
(* links     reset links that were mailed and have not expired             *)
(* spent     history: links a password was reset with                      *)
(* caller    the administrator a request was let in for                    *)
(* groups    SSO_ROLE_MAP is configured                                    *)
(***************************************************************************)
EXTENDS Naturals

CONSTANTS Users,
          Forced,        \* WORKSPACE_ADMIN_USERS
          Passwords,
          MaxSalts,      \* bound on the hashes made, for model checking
          Requests,
          NoAccount,
          NoHash,
          NoCaller

Roles == {"admin", "analyst", "readonly"}
Hash  == [password : Passwords, salt : 1..MaxSalts]
Link  == [user : Users, hash : Hash]

ASSUME AccountsAssumption ==
    /\ Forced \subseteq Users
    /\ MaxSalts \in Nat
    /\ NoAccount \notin Roles
    /\ NoHash \notin Hash
    /\ NoCaller \notin Users

VARIABLES role, blocked, hash, salts, links, spent, caller, groups

vars == <<role, blocked, hash, salts, links, spent, caller, groups>>

HasRow(u) == role[u] # NoAccount

\* A user without a row has no block and no password.
TypeOK ==
    /\ role    \in [Users -> Roles \cup {NoAccount}]
    /\ blocked \in [Users -> BOOLEAN]
    /\ hash    \in [Users -> Hash \cup {NoHash}]
    /\ salts   \in 0..MaxSalts
    /\ links   \in SUBSET Link
    /\ spent   \in SUBSET Link
    /\ caller  \in [Requests -> Users \cup {NoCaller}]
    /\ groups  \in BOOLEAN
    /\ \A u \in Users : ~HasRow(u) => ~blocked[u] /\ hash[u] = NoHash

Init ==
    /\ role    = [u \in Users |-> NoAccount]
    /\ blocked = [u \in Users |-> FALSE]
    /\ hash    = [u \in Users |-> NoHash]
    /\ salts   = 0
    /\ links   = {}
    /\ spent   = {}
    /\ caller  = [q \in Requests |-> NoCaller]
    /\ groups  \in BOOLEAN

------------------------------------------------------------------------------
(* Rows. *)

Default(u, first) ==
    IF u \in Forced THEN "admin" ELSE IF first THEN "readonly" ELSE "analyst"

\* ensure_user: a row for who has none; the named administrators are promoted.
Ensured(u) ==
    IF ~HasRow(u)
      THEN [role EXCEPT ![u] = Default(u, \A v \in Users : ~HasRow(v))]
      ELSE [role EXCEPT ![u] = IF u \in Forced THEN "admin" ELSE @]

\* Mutant: a hash without a salt of its own.
M_NewHash(u, p) ==
    /\ salts < MaxSalts
    /\ salts' = salts + 1
    /\ hash'  = [hash EXCEPT ![u] = [password |-> p, salt |-> 1]]

\* set_user_password_hash with _hash_password, which salts.
NewHash(u, p) ==
    /\ salts < MaxSalts
    /\ salts' = salts + 1
    /\ hash'  = [hash EXCEPT ![u] = [password |-> p, salt |-> salts + 1]]

\* create_local_user
Created(u) == Default(u, \A v \in Users : hash[v] = NoHash)

------------------------------------------------------------------------------
(* Everyone's requests. *)

\* A request to /api/ws whose caller is turned away or is no administrator.
Visit(u) ==
    /\ role' = Ensured(u)
    /\ UNCHANGED <<blocked, hash, salts, links, spent, caller, groups>>

Register(u, p) ==
    /\ ~HasRow(u)
    /\ role' = [role EXCEPT ![u] = Created(u)]
    /\ NewHash(u, p)
    /\ UNCHANGED <<blocked, links, spent, caller, groups>>

\* POST /forgot-password: the link is bound to the hash of the moment.
Forgot(u) ==
    /\ hash[u] # NoHash
    /\ links' = links \cup {[user |-> u, hash |-> hash[u]]}
    /\ UNCHANGED <<role, blocked, hash, salts, spent, caller, groups>>

Reset(l, p) ==
    /\ l \in links
    /\ hash[l.user] = l.hash
    /\ ~blocked[l.user]
    /\ NewHash(l.user, p)
    /\ spent' = spent \cup {l}
    /\ UNCHANGED <<role, blocked, links, caller, groups>>

Expire(l) ==
    /\ l \in links
    /\ links' = links \ {l}
    /\ UNCHANGED <<role, blocked, hash, salts, spent, caller, groups>>

\* The session cookie and the old password are asked for, the block is not.
ChangePassword(u, p) ==
    /\ hash[u] # NoHash
    /\ NewHash(u, p)
    /\ UNCHANGED <<role, blocked, links, spent, caller, groups>>

\* LDAP, SAML and OIDC: the role of the groups replaces that of the row, when
\* a map is configured.
SsoLogin(u, r) ==
    /\ role' = IF groups THEN [Ensured(u) EXCEPT ![u] = r] ELSE Ensured(u)
    /\ UNCHANGED <<blocked, hash, salts, links, spent, caller, groups>>

------------------------------------------------------------------------------
(* Administrators' requests. *)

\* The middleware and the role check of the handler.
LetIn(q, u) ==
    /\ caller[q] = NoCaller
    /\ ~blocked[u]
    /\ Ensured(u)[u] = "admin"
    /\ role'   = Ensured(u)
    /\ caller' = [caller EXCEPT ![q] = u]
    /\ UNCHANGED <<blocked, hash, salts, links, spent, groups>>

\* The request ends; it may have been refused, or its body never came.
Done(q) ==
    /\ caller[q] # NoCaller
    /\ caller' = [caller EXCEPT ![q] = NoCaller]
    /\ UNCHANGED <<links, spent, groups>>

Refuse(q) ==
    /\ Done(q)
    /\ UNCHANGED <<role, blocked, hash, salts>>

\* Mutant: administrators may change their own role.
M_SetRole(q, t, r) ==
    /\ Done(q)
    /\ role' = [role EXCEPT ![t] = IF @ = NoAccount THEN @ ELSE r]
    /\ UNCHANGED <<blocked, hash, salts>>

SetRole(q, t, r) ==
    /\ Done(q)
    /\ t = caller[q] => r = "admin"
    /\ role' = [role EXCEPT ![t] = IF @ = NoAccount THEN @ ELSE r]
    /\ UNCHANGED <<blocked, hash, salts>>

SetBlocked(q, t, b) ==
    /\ Done(q)
    /\ t # caller[q]
    /\ blocked' = [blocked EXCEPT ![t] = HasRow(t) /\ b]
    /\ UNCHANGED <<role, hash, salts>>

\* register, then set_user_role.
CreateUser(q, t, r, p) ==
    /\ Done(q)
    /\ ~HasRow(t)
    /\ role' = [role EXCEPT ![t] = r]
    /\ NewHash(t, p)
    /\ UNCHANGED blocked

\* Mutant: the password stays behind.
M_DeleteUser(q, t) ==
    /\ Done(q)
    /\ t # caller[q]
    /\ role'    = [role EXCEPT ![t] = NoAccount]
    /\ blocked' = [blocked EXCEPT ![t] = FALSE]
    /\ UNCHANGED <<hash, salts>>

DeleteUser(q, t) ==
    /\ Done(q)
    /\ t # caller[q]
    /\ role'    = [role EXCEPT ![t] = NoAccount]
    /\ blocked' = [blocked EXCEPT ![t] = FALSE]
    /\ hash'    = [hash EXCEPT ![t] = NoHash]
    /\ UNCHANGED salts

------------------------------------------------------------------------------

Next ==
    \/ \E u \in Users :
          \/ Visit(u)
          \/ Forgot(u)
          \/ \E p \in Passwords : Register(u, p) \/ ChangePassword(u, p)
          \/ \E r \in Roles : SsoLogin(u, r)
    \/ \E l \in links : Expire(l) \/ \E p \in Passwords : Reset(l, p)
    \/ \E q \in Requests :
          \/ Refuse(q)
          \/ \E u \in Users : LetIn(q, u)
          \/ \E t \in Users :
                \/ DeleteUser(q, t)
                \/ \E b \in BOOLEAN : SetBlocked(q, t, b)
                \/ \E r \in Roles :
                      SetRole(q, t, r) \/ \E p \in Passwords : CreateUser(q, t, r, p)

Spec == Init /\ [][Next]_vars

------------------------------------------------------------------------------
(* Properties. *)

\* "Short-lived, single-use password reset token" (local_auth.py:77): a link a
\* password was reset with opens nothing again, whatever the password is set to
\* afterwards and whoever registers the name after a deletion.  Nothing records
\* that a link was used; it is the hash in it that no longer matches.
SpentLinksAreDead == \A l \in spent : hash[l.user] # l.hash

AbleAdmins == {u \in Users : role[u] = "admin" /\ ~blocked[u]}

\* While administrators' requests do not overlap and roles are not taken from
\* groups, somebody who can administer remains: the guards against changing,
\* blocking and deleting oneself are enough (ws_set_user_role, ws_set_user_blocked,
\* ws_delete_user).  For instances with one request at a time.
LastAdminStays == [][~groups /\ AbleAdmins # {} => AbleAdmins' # {}]_vars

------------------------------------------------------------------------------
(* What the documentation says and the code does not do. *)

\* "Change a user's role. Admin only." (main.py:21516, and likewise for blocking
\* and deleting): who makes a change is an administrator who is not blocked.  The
\* role was looked up before the body was awaited; it may be gone by then.
AdminOnly ==
    [][\A q \in Requests :
          caller[q] # NoCaller /\ caller'[q] = NoCaller
            => \/ UNCHANGED <<role, blocked, hash>>
               \/ caller[q] \in AbleAdmins]_vars
==============================================================================
