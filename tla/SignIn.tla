------------------------------- MODULE SignIn -------------------------------
(***************************************************************************)
(* Who is let in: the allow list, the signed session cookie and the gate   *)
(* in front of every other route (web/auth.py).  A cookie carries its user *)
(* and its time of issue and nothing on the server knows of it, so one     *)
(* that was copied can be sent again after its browser dropped it: signing *)
(* out takes nothing away, and only a user's newest cookie matters.        *)
(***************************************************************************)
EXTENDS Naturals, FiniteSets

CONSTANTS
  Users,       \* addresses Google vouches for
  MaxAge,      \* SESSION_MAX_AGE_SECONDS, in ticks
  MaxTime,     \* bound: ticks of the clock
  FixedSecret, \* whether SESSION_SECRET is set, or drawn anew at each start
  NoCookie

VARIABLES
  clock,       \* ticks, longer than any sign-in request
  allowed,     \* the allowed_users table
  issued,      \* by user: when the newest cookie under this secret was signed
  checking,    \* users between is_allowed and sign_in
  leftAt       \* history: when a user was last taken off the list

sessions == <<clock, allowed, issued, checking, leftAt>>

Times == 0 .. MaxTime

ASSUME SignInAssumption == MaxAge \in Nat /\ MaxTime \in Nat /\ FixedSecret \in BOOLEAN

SignInOK ==
  /\ clock \in Times
  /\ allowed \subseteq Users
  /\ \A u \in Users : issued[u] = NoCookie \/ issued[u] \in Times
  /\ checking \subseteq Users
  /\ leftAt \in [Users -> Times]

SignInInit ==
  /\ clock = 0
  /\ allowed = {}
  /\ issued = [u \in Users |-> NoCookie]
  /\ checking = {}
  /\ leftAt = [u \in Users |-> 0]
-----------------------------------------------------------------------------
InDateForEver(at) == TRUE                                         \* mutant

(* current_user: the age is checked here, whatever the browser does.       *)
InDate(at) == clock - at <= MaxAge

(* The gate: a path that is not open is served to a cookie in date.        *)
Served(u) == issued[u] # NoCookie /\ InDate(issued[u])

AddUser(u) ==
  /\ allowed' = allowed \cup {u}
  /\ UNCHANGED <<clock, issued, checking, leftAt>>

RemoveUser(u) ==
  /\ u \in allowed
  /\ allowed' = allowed \ {u}
  /\ leftAt' = [leftAt EXCEPT ![u] = clock]
  /\ UNCHANGED <<clock, issued, checking>>

(* POST /api/auth/google: the list is read once, the cookie is set later.  *)
AuthCheck(u) ==
  /\ u \in allowed
  /\ checking' = checking \cup {u}
  /\ UNCHANGED <<clock, allowed, issued, leftAt>>

SignInUser(u) ==
  /\ u \in checking
  /\ checking' = checking \ {u}
  /\ issued' = [issued EXCEPT ![u] = clock]
  /\ UNCHANGED <<clock, allowed, leftAt>>

Tick ==
  /\ clock < MaxTime
  /\ checking = {}
  /\ clock' = clock + 1
  /\ UNCHANGED <<allowed, issued, checking, leftAt>>

(* A new process has no request in hand, and perhaps a new secret.         *)
RestartSessions ==
  /\ checking' = {}
  /\ issued' = IF FixedSecret THEN issued ELSE [u \in Users |-> NoCookie]
  /\ UNCHANGED <<clock, allowed, leftAt>>

SignInNext ==
  \/ Tick
  \/ \E u \in Users : AddUser(u) \/ RemoveUser(u) \/ AuthCheck(u) \/ SignInUser(u)
-----------------------------------------------------------------------------
(* cli/users.py: a removal "takes effect at the next sign-in", and what    *)
(* was signed before it ends with the session's age: nobody is served      *)
(* longer than MaxAge after leaving the list, whatever cookie is replayed, *)
(* a sign-in that overtook the removal included.                           *)
AccessEnds ==
  \A u \in Users \ allowed : Served(u) => clock <= leftAt[u] + MaxAge
=============================================================================
