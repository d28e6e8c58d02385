---------------------------- MODULE Registration ----------------------------
(***************************************************************************)
(* What account creation promises, whatever happens between its remote     *)
(* calls: an e-mail is claimed once; only the attempt that holds the claim *)
(* can complete the account, and only once; an attempt is told of success  *)
(* only while it holds a completed account.  A claim that is let go before *)
(* the account is complete is lost for good: there is no action that gives *)
(* the e-mail to another attempt.  SignUp implements this specification.   *)
(***************************************************************************)
CONSTANTS
    Emails,     \* addresses an account can be claimed for
    Contents,   \* what the document of an account can name as its avatar
    Attempts,   \* attempts to create an account
    None,       \* an attempt holds nothing
    NoDoc       \* an account is not complete

VARIABLES
    claimed,    \* e-mails that have an account
    stored,     \* per e-mail: the document of the account
    holds,      \* per attempt: the e-mail it has claimed
    told        \* attempts that were told of success

vars == <<claimed, stored, holds, told>>

TypeOK ==
    /\ claimed \subseteq Emails
    /\ stored \in [Emails -> Contents \cup {NoDoc}]
    /\ holds \in [Attempts -> Emails \cup {None}]
    /\ told \subseteq Attempts

Init ==
    /\ claimed = {}
    /\ stored = [e \in Emails |-> NoDoc]
    /\ holds = [t \in Attempts |-> None]
    /\ told = {}

\* An attempt gets the account of an e-mail that has none ...
Claim(t, e) ==
    /\ e \notin claimed
    /\ holds[t] = None
    /\ claimed' = claimed \cup {e}
    /\ holds' = [holds EXCEPT ![t] = e]
    /\ UNCHANGED <<stored, told>>

\* ... or the account is made and no attempt learns of it.
ClaimUnheard(e) ==
    /\ e \notin claimed
    /\ claimed' = claimed \cup {e}
    /\ UNCHANGED <<stored, holds, told>>

\* The holder completes the account, and may not learn that it did.
Store(t, c) ==
    /\ holds[t] # None
    /\ stored[holds[t]] = NoDoc
    /\ stored' = [stored EXCEPT ![holds[t]] = c]
    /\ holds' \in {holds, [holds EXCEPT ![t] = None]}
    /\ UNCHANGED <<claimed, told>>

Tell(t) ==
    /\ holds[t] # None
    /\ stored[holds[t]] # NoDoc
    /\ told' = told \cup {t}
    /\ UNCHANGED <<claimed, stored, holds>>

\* Attempts fail, alone or together; one that was told of success does not.
LetGo(T) ==
    /\ \A t \in T : holds[t] # None /\ t \notin told
    /\ holds' = [t \in Attempts |-> IF t \in T THEN None ELSE holds[t]]
    /\ UNCHANGED <<claimed, stored, told>>

Next ==
    \/ \E t \in Attempts, e \in Emails : Claim(t, e)
    \/ \E e \in Emails : ClaimUnheard(e)
    \/ \E t \in Attempts, c \in Contents : Store(t, c)
    \/ \E t \in Attempts : Tell(t)
    \/ \E T \in SUBSET Attempts : LetGo(T)

Spec == Init /\ [][Next]_vars
=============================================================================
