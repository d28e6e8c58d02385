--------------------------- MODULE Authentication ---------------------------
(***************************************************************************)
(* What logging in and signing up promise, whatever screens, timers and    *)
(* late answers do.  A log-in is asked for, and granted or refused once; a *)
(* sign-up registers an e-mail that has no account, which signs it in, and *)
(* is then completed or not.  Only a grant, a registration or a log-out    *)
(* changes who is signed in, and only a grant attaches an identity to an   *)
(* account, once: no action moves it or takes it off.  Home is entered     *)
(* only after a grant or a completed sign-up since the launch; leaving it  *)
(* signs nobody out.  When the process ends everything asked for is lost;  *)
(* what Firebase has stays.  Session implements this specification.        *)
(***************************************************************************)
CONSTANTS
    Emails,      \* accounts with a password
    Identities,  \* accounts at other providers
    Outside,     \* identities that are never shown to Firebase
    Logins,      \* log-ins and sign-ups
    None         \* nobody, no account

VARIABLES
    user,        \* who is signed in
    held,        \* the e-mails that have an account
    attached,    \* the account an identity belongs to
    stage,       \* how far a log-in is
    by,          \* what a log-in is asked for with
    shown        \* the log-in or the home screen

vars == <<user, held, attached, stage, by, shown>>

Accounts == Emails \cup Identities

TypeOK ==
    /\ user \in Accounts \cup {None}
    /\ held \subseteq Emails
    /\ attached \in [Identities -> Accounts \cup {None}]
    /\ stage \in [Logins -> {"new", "asked", "registered", "granted", "over", "lost"}]
    /\ by \in [Logins -> Identities \cup {"email", "new"}]
    /\ shown \in {"login", "home"}

\* A launch: somebody may be signed in from before.
Init ==
    /\ user \in Accounts \cup {None}
    /\ held \subseteq Emails
    /\ attached \in [Identities -> Accounts \cup {None}]
    /\ stage = [t \in Logins |-> "new"]
    /\ by = [t \in Logins |-> "email"]
    /\ shown = "login"

Ask(T, w) ==
    /\ T # {}
    /\ stage' = [t \in Logins |-> IF t \in T THEN "asked" ELSE stage[t]]
    /\ by' = [t \in Logins |-> IF t \in T THEN w ELSE by[t]]
    /\ UNCHANGED <<user, held, attached, shown>>

Moves(t, from, to) ==
    /\ stage[t] = from
    /\ stage' = [stage EXCEPT ![t] = to]
    /\ UNCHANGED <<by, shown>>

Granted(t) == Moves(t, "asked", "granted")

\* An e-mail that has an account and its password sign in.
SignIn(t, e) ==
    /\ by[t] = "email"
    /\ e \in held
    /\ Granted(t)
    /\ user' = e
    /\ UNCHANGED <<held, attached>>

\* An identity signs in to its account, a new one if it has none.
SignInWith(t) ==
    /\ by[t] \in Identities \ Outside
    /\ Granted(t)
    /\ user' = IF attached[by[t]] = None THEN by[t] ELSE attached[by[t]]
    /\ attached' = [attached EXCEPT ![by[t]] = user']
    /\ UNCHANGED held

\* An identity without an account is attached to one; who is signed in stays so.
Attach(t, a) ==
    /\ by[t] \in Identities \ Outside
    /\ attached[by[t]] = None
    /\ Granted(t)
    /\ attached' = [attached EXCEPT ![by[t]] = a]
    /\ UNCHANGED <<user, held>>

\* A provider outside of Firebase grants a log-in: nobody is signed in by it.
Vouch(t) ==
    /\ by[t] \in Outside
    /\ Granted(t)
    /\ UNCHANGED <<user, held, attached>>

\* An e-mail without an account is given one, and is signed in.
Register(t, e) ==
    /\ by[t] = "new"
    /\ e \notin held
    /\ Moves(t, "asked", "registered")
    /\ held' = held \cup {e}
    /\ user' = e
    /\ UNCHANGED attached

\* The same, but nobody is told: the sign-up is over and nobody is signed in by it.
RegisterUnheard(t, e) ==
    /\ by[t] = "new"
    /\ e \notin held
    /\ Moves(t, "asked", "over")
    /\ held' = held \cup {e}
    /\ UNCHANGED <<user, attached>>

Complete(t) ==
    /\ Moves(t, "registered", "granted")
    /\ UNCHANGED <<user, held, attached>>

\* Refused, or not completed.
Refuse(t) ==
    /\ Moves(t, "asked", "over") \/ Moves(t, "registered", "over")
    /\ UNCHANGED <<user, held, attached>>

Enter ==
    /\ \E t \in Logins : stage[t] = "granted"
    /\ shown' = "home"
    /\ UNCHANGED <<user, held, attached, stage, by>>

\* The session expires, or the device is shaken.
Leave ==
    /\ shown' = "login"
    /\ UNCHANGED <<user, held, attached, stage, by>>

LogOut ==
    /\ shown = "home"
    /\ shown' = "login"
    /\ user' = None
    /\ UNCHANGED <<held, attached, stage, by>>

\* The process ends and is launched again.
Relaunch ==
    /\ stage' = [t \in Logins |-> IF stage[t] = "new" THEN "new" ELSE "lost"]
    /\ shown' = "login"
    /\ UNCHANGED <<user, held, attached, by>>

Next ==
    \/ Leave \/ Enter \/ LogOut \/ Relaunch
    \/ \E T \in SUBSET {t \in Logins : stage[t] = "new"} :
          \E w \in Identities \cup {"email", "new"} : Ask(T, w)
    \/ \E t \in Logins :
          \/ \E e \in Emails : SignIn(t, e) \/ Register(t, e) \/ RegisterUnheard(t, e)
          \/ SignInWith(t)
          \/ \E a \in Accounts : Attach(t, a)
          \/ Vouch(t)
          \/ Complete(t)
          \/ Refuse(t)

Spec == Init /\ [][Next]_vars
=============================================================================
