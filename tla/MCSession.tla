------------------------------ MODULE MCSession -----------------------------
(***************************************************************************)
(* Small instances of Session for TLC.                                     *)
(***************************************************************************)
EXTENDS Session, TLC

CONSTANTS gId, fId, aId, zId

\* One identity at each provider named by the instance's Identities.
MCProvider == [i \in Identities |-> IF i = gId THEN "google"
                                    ELSE IF i = fId THEN "facebook"
                                    ELSE IF i = aId THEN "apple" ELSE "zalo"]

\* A first launch of somebody with or without an account, and a launch with an e-mail
\* account still current after the identities were given accounts of their own.
NewUser == [saved |-> FALSE, accounts |-> {}, user |-> None,
            linked |-> [i \in Identities |-> None]]
FirstLaunch == [NewUser EXCEPT !.accounts = Emails]
LaterLaunch == [saved |-> TRUE, accounts |-> Emails, user |-> CHOOSE e \in Emails : TRUE,
                linked |-> [i \in Identities |-> IF i = zId THEN None ELSE i]]
AnyLaunch == {NewUser, FirstLaunch, LaterLaunch}
\* The launches of the safety run: FirstLaunch, with an account and nobody signed in, is
\* left to the liveness run.
NewOrLater == {NewUser, LaterLaunch}

\* Used by the safety run only.
Symmetry == Permutations(Screens) \cup Permutations(Logins)
=============================================================================
