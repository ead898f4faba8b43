------------------------------- MODULE License -------------------------------
(***************************************************************************)
(* The license of a server: license/license_manager.py, the activation     *)
(* endpoint of main.py, and the provider's license/license_server.py,      *)
(* which issues keys.  A public key is configured; without one everything  *)
(* is unlocked and nothing below matters.                                  *)
(*                                                                         *)
(* A key is validated when the server starts and when a key is activated,  *)
(* never in between: heartbeats report and change nothing here.  (What the *)
(* endpoint answers is left out: it looks for a field that is not there    *)
(* and answers every activation with an error, whatever came of it.)       *)
(*                                                                         *)
(* today     the day                                                       *)
(* expires   the day after which an issued key is refused                  *)
(* deployed  LICENSE_KEY as the deployment sets it                         *)
(* env       LICENSE_KEY of the running process                            *)
(* file      license.key                                                   *)
(* cache     .license_cache.json: a key and the day it was found valid     *)
(* license   the license in force and the day it was loaded, or None       *)
(***************************************************************************)
EXTENDS Naturals

CONSTANTS Keys,
          Garbage,       \* a text that is no key of the provider
          NoKey,
          None,
          GraceDays,     \* LICENSE_GRACE_DAYS
          MaxDay         \* bound on time, for model checking

ASSUME LicenseAssumption ==
    /\ Garbage \notin Keys
    /\ NoKey \notin Keys \cup {Garbage}
    /\ None \notin [key : Keys, day : 0..MaxDay]
    /\ None \notin Nat
    /\ GraceDays \in Nat
    /\ MaxDay \in Nat

VARIABLES today, expires, deployed, env, file, cache, license

licenseVars == <<today, expires, deployed, env, file, cache, license>>

Issued  == {k \in Keys : expires[k] # None}
Texts   == Keys \cup {Garbage}
Loaded  == [key : Keys, day : 0..MaxDay]

\* What is cached or in force was issued and seen on some day up to now.
LicenseTypeOK ==
    /\ today    \in 0..MaxDay
    /\ expires  \in [Keys -> 0..(2 * MaxDay) \cup {None}]
    /\ deployed \in Texts \cup {NoKey}
    /\ env      \in Texts \cup {NoKey}
    /\ file     \in Texts \cup {NoKey}
    /\ cache    \in Loaded \cup {None}
    /\ license  \in Loaded \cup {None}
    /\ \A c \in {cache, license} : c # None => c.key \in Issued /\ c.day <= today

LicenseInit ==
    /\ today = 0
    /\ expires = [k \in Keys |-> None]
    /\ deployed = NoKey
    /\ env = NoKey
    /\ file = NoKey
    /\ cache = None
    /\ license = None

------------------------------------------------------------------------------

Good(t) == t \in Issued /\ today <= expires[t]

ReadToken(e, f) == IF e # NoKey THEN e ELSE f

InGrace == cache # None /\ today < cache.day + GraceDays

\* Mutant: a load in the grace period counts as a validation.
M_FallBack ==
    \/ /\ InGrace
       /\ license' = [key |-> cache.key, day |-> today]
       /\ cache'   = [key |-> cache.key, day |-> today]
    \/ /\ ~InGrace
       /\ license' = None
       /\ UNCHANGED cache

\* The token does not verify: the cached license serves while it is recent.
FallBack ==
    \/ /\ InGrace
       /\ license' = [key |-> cache.key, day |-> today]
       /\ UNCHANGED cache
    \/ /\ ~InGrace
       /\ license' = None
       /\ UNCHANGED cache

\* Mutant: the cache is saved whether the token was valid or not.
M_Load(t) ==
    \/ /\ t = NoKey
       /\ license' = None
       /\ UNCHANGED cache
    \/ /\ Good(t)
       /\ license' = [key |-> t, day |-> today]
       /\ cache' = license'
    \/ /\ t # NoKey /\ ~Good(t)
       /\ license' = None
       /\ cache' = [key |-> t, day |-> today]

\* load_license of token t.  Verification may raise for any token (a public key
\* that does not parse, a clock behind the provider's), and saving the cache may
\* fail before or after the file is truncated.
Load(t) ==
    \/ /\ t = NoKey
       /\ license' = None
       /\ UNCHANGED cache
    \/ /\ Good(t)
       /\ license' = [key |-> t, day |-> today]
       /\ cache' \in {license', cache, None}
    \/ /\ t \in Issued /\ ~Good(t)
       /\ license' = None
       /\ UNCHANGED cache
    \/ /\ t # NoKey
       /\ FallBack

------------------------------------------------------------------------------

Tick ==
    /\ today < MaxDay
    /\ today' = today + 1
    /\ UNCHANGED <<expires, deployed, env, file, cache, license>>

\* POST /api/issue on the provider's server.
Issue(k, validDays) ==
    /\ k \notin Issued
    /\ expires' = [expires EXCEPT ![k] = today + validDays]
    /\ UNCHANGED <<today, deployed, env, file, cache, license>>

\* Startup, with LICENSE_KEY set to t by the deployment.
Restart(t) ==
    /\ deployed' = t
    /\ env' = t
    /\ Load(ReadToken(t, file))
    /\ UNCHANGED <<today, expires, file>>

\* Mutant: the environment is changed first.
M_NotWritten(t, f) ==
    /\ file' = f
    /\ env' = t
    /\ UNCHANGED <<today, expires, deployed, cache, license>>

\* license.key cannot be opened, or is truncated and cannot be written.
NotWritten(t, f) ==
    /\ file' = f
    /\ UNCHANGED <<today, expires, deployed, env, cache, license>>

\* POST /api/license/activate with {license_key: t} (the Settings page sends another field,
\* which the endpoint does not read).
Activate(t) ==
    \/ /\ file' = t
       /\ env' = t
       /\ Load(t)
       /\ UNCHANGED <<today, expires, deployed>>
    \/ \E f \in {file, NoKey} : NotWritten(t, f)

Usable == Issued \cup {Garbage}

LicenseNext ==
    \/ Tick
    \/ \E k \in Keys, d \in 0..MaxDay : Issue(k, d)
    \/ \E t \in Usable \cup {NoKey} : Restart(t)
    \/ \E t \in Usable : Activate(t)

LicenseSpec == LicenseInit /\ [][LicenseNext]_licenseVars

------------------------------------------------------------------------------
(* Properties. *)

\* A grace period after expiry is all there is: whatever keys are activated in
\* whatever order, readable or not, and however often the server restarts, no load
\* puts a license into force GraceDays or more past its own last day.  (A server
\* that keeps running keeps its license: nothing loads it again.)
LicenseInTime ==
    license # None =>
        \/ license.day <= expires[license.key]
        \/ license.day < expires[license.key] + GraceDays

\* A server deployed without LICENSE_KEY reads after a restart the token it
\* validated last, or none if license.key was lost in a failed write: the
\* environment never names a token that the file does not (activate_license).
RestartReadsActivated ==
    deployed = NoKey /\ env # NoKey /\ file # NoKey => file = env
==============================================================================
