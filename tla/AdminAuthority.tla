---------------------------- MODULE AdminAuthority ----------------------------
(***************************************************************************)
(* What the local admin session layer promises its callers, whatever the   *)
(* tokens, codes and condition variables behind it.                        *)
(*                                                                         *)
(* At most one session holds authority over the checkout.  Effects run     *)
(* only under it.  Closing it bars new effects at once, but a new session  *)
(* may open only when the last admitted effect has ended, and never again  *)
(* in this process once an effect left an outcome nobody can vouch for.    *)
(* A confirmed revocation is final: nothing acts for that session again.   *)
(*                                                                         *)
(* AdminSession.tla implements this module; AdminPlan.tla builds on it.    *)
(***************************************************************************)
EXTENDS Naturals

CONSTANTS
    Threads,      \* request threads of the operator process
    MaxSessions   \* bound on the sessions one behaviour opens

ASSUME MaxSessionsIsNat == MaxSessions \in Nat

VARIABLES
    authority,    \* the session that may start effects, or NoSession
    acting,       \* the session each thread runs an effect for, or NoSession
    poisoned,     \* an effect ended with an uncertain outcome
    confirmed,    \* sessions whose revocation was confirmed to the owner
    opened        \* sessions opened so far; a session is named by its number

authorityVars == <<authority, acting, poisoned, confirmed, opened>>

NoSession == 0
Sessions == 1..MaxSessions

Quiet == \A t \in Threads : acting[t] = NoSession

AuthorityInit ==
    /\ authority = NoSession
    /\ acting = [t \in Threads |-> NoSession]
    /\ poisoned = FALSE
    /\ confirmed = {}
    /\ opened = 0

Open ==
    /\ opened < MaxSessions
    /\ authority = NoSession
    /\ Quiet
    /\ ~poisoned
    /\ opened' = opened + 1
    /\ authority' = opened'
    /\ UNCHANGED <<acting, poisoned, confirmed>>

Begin(t) ==
    /\ authority # NoSession
    /\ acting[t] = NoSession
    /\ acting' = [acting EXCEPT ![t] = authority]
    /\ UNCHANGED <<authority, poisoned, confirmed, opened>>

Poison(t) ==
    /\ acting[t] # NoSession
    /\ poisoned' = TRUE
    /\ UNCHANGED <<authority, acting, confirmed, opened>>

End(t) ==
    /\ acting[t] # NoSession
    /\ acting' = [acting EXCEPT ![t] = NoSession]
    /\ UNCHANGED <<authority, poisoned, confirmed, opened>>

\* Closing may find the session quiet and confirm the revocation at once.
Close ==
    /\ authority # NoSession
    /\ authority' = NoSession
    /\ \/ UNCHANGED confirmed
       \/ /\ \A t \in Threads : acting[t] # authority
          /\ confirmed' = confirmed \cup {authority}
    /\ UNCHANGED <<acting, poisoned, opened>>

Confirm(s) ==
    /\ s \in 1..opened
    /\ s # authority
    /\ \A t \in Threads : acting[t] # s
    /\ confirmed' = confirmed \cup {s}
    /\ UNCHANGED <<authority, acting, poisoned, opened>>

\* The process dies: its sessions, effects and doubts die with it.
Restart ==
    /\ authority' = NoSession
    /\ acting' = [t \in Threads |-> NoSession]
    /\ poisoned' = FALSE
    /\ UNCHANGED <<confirmed, opened>>

AuthorityNext ==
    \/ Open
    \/ Close
    \/ Restart
    \/ \E t \in Threads : Begin(t) \/ Poison(t) \/ End(t)
    \/ \E s \in Sessions : Confirm(s)

AuthoritySpec == AuthorityInit /\ [][AuthorityNext]_authorityVars
===============================================================================
