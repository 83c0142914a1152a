------------------------------- MODULE Access --------------------------------
(***************************************************************************)
(* Who may use the system, composed: user administration, one browser      *)
(* tab's session and the linking of a Drive account, over the same         *)
(* accounts, rows and failures.                                            *)
(***************************************************************************)
EXTENDS BrowserSession, CloudLinks

vars == <<accountVars, tabVars, cloudVars>>

Init == AccountsInit /\ BrowserInit /\ CloudInit

\* A login whose row is still to be written.
SigningIn == {u \in Users : signin.phase = "granted" /\ signin.user = u}

Next ==
    \/ AccountsNext(SigningIn) /\ UNCHANGED <<tabVars, cloudVars>>
    \/ BrowserNext /\ UNCHANGED cloudVars
    \/ CloudNext /\ UNCHANGED tabVars

Spec == Init /\ [][Next]_vars

\* Servers answer and the browser runs its callbacks.
FairSpec == Spec /\ WF_vars(Answers /\ UNCHANGED cloudVars)
-----------------------------------------------------------------------------
(* Properties                                                              *)

\* Every store and every request holds what its type allows.
TypeOK ==
    /\ account \in [Users -> [state : {"never", "live", "gone"}, enabled : BOOLEAN, admin : BOOLEAN,
                              linked : BOOLEAN, reader : BOOLEAN, dead : BOOLEAN]]
    /\ row \in [Users -> {"absent", "active", "disabled"}]
    /\ trail \in [Users -> BOOLEAN] /\ holders \subseteq Users
    /\ torn \subseteq Users /\ raced \subseteq Users /\ consents \subseteq Users
    /\ flows \in 0..MaxFlows /\ faults \in 0..MaxFaults
    /\ tab.phase \in {"starting", "anonymous", "authenticated"} /\ tab.token \in Users \cup {NoOne}
    /\ cookie \in 0..Len(session.users) /\ session.live \subseteq 1..Len(session.users)
    /\ import.read \in 0..MaxBytes + 1

\* Keycloak, the local rows and the audit trail tell one story of who may do what, whichever
\* requests ran at once or broke off.  app/services/users.py.
AccountsAgree == TypeOK /\ AnAdministratorRemains /\ TrailTellsRoles /\ ClosedIsRefused
=============================================================================
