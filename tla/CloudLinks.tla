----------------------------- MODULE CloudLinks ------------------------------
(***************************************************************************)
(* Linking a Drive account (app/services/cloud_links.py, app/api/cloud.py) *)
(* and reading through the link (app/services/cloud_import.py, drive.py).  *)
(* The link itself is Keycloak's: it exists before the callback arrives.   *)
(***************************************************************************)
EXTENDS Accounts

CONSTANT MaxBytes      \* UPLOAD_MAX_FILE_BYTES, in chunks

ASSUME CloudAssumption == MaxBytes \in Nat

VARIABLES
    linking,   \* one linking request: [phase, starter, typed, outcome]
    import,    \* one call of the list or the import route
    consents   \* history: users who linked in a request of their own

cloudVars == <<linking, import, consents>>

NoLinking == [phase |-> "none", starter |-> "nobody", typed |-> "nobody", outcome |-> "none"]
NoImport == [phase |-> "none", user |-> "nobody", route |-> "list", size |-> 0, read |-> 0, open |-> FALSE, status |-> 0]

CloudInit == linking = NoLinking /\ import = NoImport /\ consents = {}

\* What these actions never touch.
elsewhere == <<row, trail, holders, command, torn, raced, usurped>>

StartFlow == flows < MaxFlows /\ flows' = flows + 1
Breaks == faults < MaxFaults /\ faults' = faults + 1
-----------------------------------------------------------------------------
(* Linking                                                                 *)

\* The signed state names the caller.
StartLink(u) ==
    /\ linking.phase \in {"none", "done"} /\ row[u] = "active" /\ StartFlow
    /\ linking' = [NoLinking EXCEPT !.phase = "away", !.starter = u]
    /\ UNCHANGED <<elsewhere, account, faults, import, consents>>

\* Whoever types credentials into Keycloak's page is who gets linked.
LinkAtKeycloak(v) ==
    /\ linking.phase = "away" /\ MayAuthenticate(v)
    /\ account' = [account EXCEPT ![v].linked = TRUE, ![v].dead = FALSE]
    /\ consents' = IF v = linking.starter THEN consents \cup {v} ELSE consents
    /\ linking' = [linking EXCEPT !.phase = "back", !.typed = v]
    /\ UNCHANGED <<elsewhere, flows, faults, import>>

End(outcome) == linking' = [linking EXCEPT !.phase = "done", !.outcome = outcome]

DeclineLink ==
    /\ linking.phase = "away"
    /\ End("denied")
    /\ UNCHANGED <<elsewhere, account, flows, faults, import, consents>>

\* The sub of the id_token against the sub of the state.
SameUser == linking.typed = linking.starter

CompleteLink ==
    /\ linking.phase = "back"
    /\ IF SameUser THEN linking' = [linking EXCEPT !.phase = "grant"] ELSE End("failed")
    /\ UNCHANGED <<elsewhere, account, flows, faults, import, consents>>

\* Mutant: the realm is trusted to grant the role.
GrantNothing == UNCHANGED account

AddReader == account' = [account EXCEPT ![linking.starter].reader = TRUE]

\* A user deleted meanwhile is a 404 nothing here catches.
GrantReadToken ==
    /\ linking.phase = "grant"
    /\ IF Live(linking.starter)
       THEN AddReader /\ linking' = [linking EXCEPT !.phase = "status"]
       ELSE End("server error") /\ UNCHANGED account
    /\ UNCHANGED <<elsewhere, flows, faults, import, consents>>

ReadBack ==
    /\ linking.phase = "status"
    /\ End(CASE ~Live(linking.starter) -> "server error"
             [] account[linking.starter].linked -> "linked"
             [] OTHER -> "failed")
    /\ UNCHANGED <<elsewhere, account, flows, faults, import, consents>>

\* The state has expired, or Keycloak fails; a code it refuses is not among the errors caught.
LinkFails ==
    /\ linking.phase \in {"back", "grant", "status"} /\ Breaks
    /\ \/ End("failed")
       \/ linking.phase = "back" /\ End("server error")
    /\ UNCHANGED <<elsewhere, account, flows, import, consents>>

\* The role stays, the identity goes.
Unlink(u) ==
    /\ row[u] = "active" /\ Live(u) /\ account[u].linked /\ StartFlow
    /\ account' = [account EXCEPT ![u].linked = FALSE]
    /\ UNCHANGED <<elsewhere, faults, linking, import, consents>>

\* The provider's grant cannot be refreshed any more.
ConsentDies(u) ==
    /\ Live(u) /\ account[u].linked /\ ~account[u].dead /\ Breaks
    /\ account' = [account EXCEPT ![u].dead = TRUE]
    /\ UNCHANGED <<elsewhere, flows, linking, import, consents>>
-----------------------------------------------------------------------------
(* Reading through the link                                                *)

StartImport(u, route) ==
    /\ import.phase \in {"none", "done"} /\ row[u] = "active" /\ account[u].state # "never" /\ StartFlow
    /\ import' = [NoImport EXCEPT !.phase = "broker", !.user = u, !.route = route]
    /\ UNCHANGED <<elsewhere, account, faults, linking, consents>>

Answer(status) == import' = [import EXCEPT !.phase = "done", !.status = status, !.open = FALSE]

\* broker_token; the two routes translate its errors separately.
Broker ==
    LET a == account[import.user]
    IN /\ import.phase = "broker"
       /\ CASE ~Live(import.user) -> Answer(500)
            [] Live(import.user) /\ ~(a.linked /\ a.reader) -> Answer(409)
            [] a.linked /\ a.reader /\ a.dead -> Answer(IF import.route = "list" THEN 409 ELSE 500)
            [] OTHER -> import' = [import EXCEPT !.phase = "metadata"]
       /\ UNCHANGED <<elsewhere, account, flows, faults, linking, consents>>

ListFiles ==
    /\ import.phase = "metadata" /\ import.route = "list"
    /\ Answer(200)
    /\ UNCHANGED <<elsewhere, account, flows, faults, linking, consents>>

\* A type that is not imported, a declared size over the limit, or none declared.
FetchMetadata ==
    /\ import.phase = "metadata" /\ import.route = "import"
    /\ \/ Answer(415) \/ Answer(413)
       \/ import' = [import EXCEPT !.phase = "open"]
    /\ UNCHANGED <<elsewhere, account, flows, faults, linking, consents>>

\* The file may have grown since, or may never have said how long it was.
OpenDownload ==
    /\ import.phase = "open"
    /\ \E size \in 0..MaxBytes + 1 : import' = [import EXCEPT !.phase = "stream", !.open = TRUE, !.size = size]
    /\ UNCHANGED <<elsewhere, account, flows, faults, linking, consents>>

WithinLimit == import.read + 1 <= MaxBytes

ReadChunk ==
    /\ import.phase = "stream" /\ import.read < import.size
    /\ IF WithinLimit THEN import' = [import EXCEPT !.read = @ + 1] ELSE Answer(413)
    /\ UNCHANGED <<elsewhere, account, flows, faults, linking, consents>>

\* upload_document has all of it; nothing at all is refused there.
FinishImport ==
    /\ import.phase = "stream" /\ import.read = import.size
    /\ Answer(IF import.size = 0 THEN 400 ELSE 202)
    /\ UNCHANGED <<elsewhere, account, flows, faults, linking, consents>>

\* Drive or Keycloak refuses or breaks off: what was opened is closed.
ImportFails ==
    /\ import.phase \in {"broker", "metadata", "open", "stream"} /\ Breaks
    /\ \E status \in {404, 409, 503} : Answer(status)
    /\ UNCHANGED <<elsewhere, account, flows, linking, consents>>

CloudNext ==
    \/ \E u \in Users : StartLink(u) \/ LinkAtKeycloak(u) \/ Unlink(u) \/ ConsentDies(u)
    \/ DeclineLink \/ CompleteLink \/ GrantReadToken \/ ReadBack \/ LinkFails
    \/ \E u \in Users, route \in {"list", "import"} : StartImport(u, route)
    \/ Broker \/ ListFiles \/ FetchMetadata \/ OpenDownload \/ ReadChunk \/ FinishImport \/ ImportFails
-----------------------------------------------------------------------------
(* Properties                                                              *)

\* Reporting the link follows making it usable: a user told "linked" can be read for.
LinkedIsUsable ==
    linking.outcome = "linked" /\ account[linking.starter].linked => account[linking.starter].reader

\* The role that opens a user's provider token is given to nobody who did not link himself.
GrantFollowsConsent == \A u \in Users : account[u].reader => u \in consents

\* Whatever a file declared or grew to, nothing over the limit is stored.
NothingOversized == import.status = 202 => import.read <= MaxBytes

\* A linked account is one the broker can read for, only its owner's consent made it so, and
\* no import stores more than the limit.  api/cloud.py.
LinksAreWhole == LinkedIsUsable /\ GrantFollowsConsent /\ NothingOversized
=============================================================================
