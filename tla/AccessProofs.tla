---------------------------- MODULE AccessProofs ----------------------------
(***************************************************************************)
(* For any users, desks, patches, limits and failures: accounts, rows and  *)
(* trail agree, a link is whole, and a tab is honest about its session.    *)
(***************************************************************************)
EXTENDS Access, TLAPS

PatchRecs == [role : {"keep", "admin", "plain"}, active : {"keep", "on", "off"},
              password : {"keep", "good", "weak"}]
AccountRecs == [state : {"never", "live", "gone"}, enabled : BOOLEAN, admin : BOOLEAN,
                linked : BOOLEAN, reader : BOOLEAN, dead : BOOLEAN]
CommandPhases == {"create", "grant", "commit new", "roles", "change", "fields", "password", "reread",
                  "commit", "remove", "close"}
CommandRecs == [phase : CommandPhases, actor : Users, target : Users, patch : PatchRecs,
                admin : BOOLEAN, delta : BOOLEAN, enabled : BOOLEAN, touched : BOOLEAN]

Busy(c, u) == command[c].phase # "idle" /\ command[c].target = u

AccountsTyped ==
    /\ account \in [Users -> AccountRecs]
    /\ row \in [Users -> {"absent", "active", "disabled"}]
    /\ trail \in [Users -> BOOLEAN] /\ holders \subseteq Users
    /\ command \in [Desks -> CommandRecs \cup {Idle}]
    /\ flows \in 0..MaxFlows /\ faults \in 0..MaxFaults
    /\ torn \subseteq Users /\ raced \subseteq Users /\ usurped \in BOOLEAN

\* An account that was never made has no role, so a creation starts from none.
NeverBare == \A u \in Users : account[u].state = "never" => account[u] = Never

\* Two desks are at work on one user only if that is on record.
Single == \A u \in Users \ raced : \A c, d \in Desks : Busy(c, u) /\ Busy(d, u) => c = d

\* What a request carries from step to step: nobody takes a role or an account from himself, and
\* a change that was made stays marked until it is recorded.
InOrderOf(m) ==
    /\ m.phase = "remove" => m.actor # m.target
    /\ m.phase \in {"roles", "change", "fields"} /\ (m.patch.active = "off" \/ m.patch.role = "plain")
          => m.actor # m.target
    /\ m.phase = "grant" => m.patch.role = "admin"
    /\ m.delta => m.touched
    /\ m.delta => m.phase \in {"commit new", "fields", "password", "reread", "commit"}

InOrder == \A c \in Desks : InOrderOf(command[c])

\* The trail tells the role, or the desk that changed it is still to record what it set.
Told ==
    \A u \in Users \ (torn \cup raced) : account[u].state # "gone" =>
        /\ \A c \in Desks : Busy(c, u) /\ command[c].delta => command[c].admin = account[u].admin
        /\ trail[u] = account[u].admin \/ \E c \in Desks : Busy(c, u) /\ command[c].delta

Closed(u) == account[u].state # "never" /\ ~MayAuthenticate(u)
ClosingPhases == {"password", "reread", "commit", "close"}

\* The table refuses the user, and no first sign-in is about to create an active row; or the desk
\* that closed the account is on its way to the row.
ShutFor(u) ==
    \/ row[u] # "active" /\ (row[u] = "absent" => u \notin SigningIn)
    \/ \E c \in Desks : Busy(c, u) /\ command[c].touched /\ command[c].phase \in ClosingPhases

Shut == \A u \in Users \ (torn \cup raced) : Closed(u) => ShutFor(u)

\* What a desk is about to write to the row is what the account is.
MirrorsOf(m) ==
    /\ m.phase = "commit" => account[m.target].state = "live" /\ m.enabled = account[m.target].enabled
    /\ m.phase \in {"grant", "commit new"} => MayAuthenticate(m.target)

Mirrored == \A c \in Desks : command[c].phase # "idle" /\ command[c].target \notin raced => MirrorsOf(command[c])

AccountsInv ==
    /\ AccountsTyped /\ NeverBare /\ Single /\ InOrder
    /\ AnAdministratorRemains /\ Told /\ Mirrored

DeskInv == AccountsInv /\ Shut

LinkRecs == [phase : {"none", "away", "back", "grant", "status", "done"}, starter : Users \cup {"nobody"},
             typed : Users \cup {"nobody"}, outcome : {"none", "denied", "failed", "server error", "linked"}]
ImportRecs == [phase : {"none", "broker", "metadata", "open", "stream", "done"}, user : Users \cup {"nobody"},
               route : {"list", "import"}, size : Nat, read : Nat, open : BOOLEAN, status : Nat]

\* The linking request and what it may rely on.
Linked ==
    /\ linking \in LinkRecs /\ consents \subseteq Users
    /\ linking.phase # "none" => linking.starter \in Users
    /\ linking.phase = "back" /\ linking.typed = linking.starter => linking.starter \in consents
    /\ linking.phase \in {"grant", "status"} => linking.starter \in consents
    /\ linking.outcome # "none" => linking.phase = "done"

\* Only live accounts are linked, the reported one can be read for, and the rest never was without consent.
LinkedAccounts ==
    /\ \A u \in Users : account[u].linked => account[u].state = "live"
    /\ linking.phase = "status" \/ linking.outcome = "linked"
          => (account[linking.starter].linked => account[linking.starter].reader)
    /\ GrantFollowsConsent

\* What an import has read is what it may still store.
Fits ==
    /\ import \in ImportRecs
    /\ import.read <= MaxBytes

LinksInv == Linked /\ LinkedAccounts /\ Fits

Places == Users \cup {NoOne}
TabRecs == [phase : {"starting", "anonymous", "authenticated"}, user : Places, token : Places,
            stale : BOOLEAN, expired : BOOLEAN, established : BOOLEAN,
            last : {"none", "refused", "wrong password", "signed out"}, crossed : BOOLEAN]
SigninRecs == [phase : {"none", "sent", "granted", "committed", "profile"}, user : Places, sid : Nat]
SignoutRecs == [phase : {"none", "sent", "answered"}, sid : Nat]
RefreshRecs == [phase : {"none", "asked", "sent", "granted", "denied"}, sid : Nat, boot : BOOLEAN, clears : BOOLEAN]
CallRecs == [phase : {"none", "waiting", "renewing", "sent", "answered"}, path : {"ordinary", "change-password"},
             token : Places, status : Nat]

Sid(s) == s \in 1..Len(session.users)

TabTyped ==
    /\ tab \in TabRecs /\ signin \in SigninRecs /\ signout \in SignoutRecs
    /\ refresh \in RefreshRecs /\ call \in CallRecs
    /\ session \in [users : Seq(Users), live : SUBSET Nat] /\ session.live \subseteq 1..Len(session.users)
    /\ cookie \in 0..Len(session.users)
    /\ signin.phase # "none" => signin.user \in Users
    /\ refresh.phase = "none" => refresh = NoRefresh
    /\ refresh.phase = "granted" => Sid(refresh.sid)
    /\ refresh.phase = "sent" => refresh.sid \in 0..Len(session.users)
    /\ signin.phase \in {"granted", "committed"} => Sid(signin.sid) /\ session.users[signin.sid] = signin.user

\* Which exchanges go together.
OneAtATime ==
    /\ tab.phase = "starting" => /\ signout = NoSignout /\ call = NoCall /\ signin.phase \in {"none", "profile"}
                                 /\ refresh.phase = "none" \/ refresh.boot
    /\ refresh.phase # "none" /\ refresh.boot => tab.phase = "starting" /\ signin.phase = "none"
    /\ tab.phase = "authenticated" => signin.phase = "none"
    /\ signin.phase # "none" => signout = NoSignout
    /\ refresh.phase # "none" /\ ~refresh.boot => call.phase = "renewing"

\* Unless an answer crossed a sign-in or a sign-out, the cookie and every renewal under way are the shown user's.
Owned ==
    ~tab.crossed =>
        /\ refresh.phase # "none" /\ ~refresh.boot => tab.phase = "authenticated"
        /\ signin.phase = "profile" => /\ refresh.phase = "none" /\ call = NoCall /\ cookie # 0
                                       /\ tab.token = session.users[cookie]
        /\ tab.phase = "authenticated" /\ cookie # 0 => session.users[cookie] = tab.user
        /\ tab.phase = "authenticated" /\ refresh.phase \in {"sent", "granted"} /\ refresh.sid # 0
               => session.users[refresh.sid] = tab.user
        /\ signin.phase # "profile" /\ tab.phase = "starting" => tab.token = NoOne

SessionInv == TabTyped /\ OneAtATime /\ Owned /\ SessionIsHonest

\* The inductive invariant.
Inv == DeskInv /\ LinksInv /\ SessionInv

\* What a step of desk c leaves of the other desks, and of its own task when it goes on.
OnlyDesk(c) == \A d \in Desks \ {c} : command'[d] = command[d]
SameTask(c) == /\ command[c].phase # "idle" /\ command'[c].actor = command[c].actor
               /\ command'[c].target = command[c].target /\ command'[c].patch = command[c].patch
-----------------------------------------------------------------------------
(* What a desk may do to the invariant                                     *)

LEMMA CommandFacts ==
    ASSUME AccountsTyped, NEW c \in Desks, command[c].phase # "idle"
    PROVE  /\ command[c] \in CommandRecs /\ command[c].target \in Users /\ command[c].actor \in Users
           /\ command[c] # Idle
BY DEF AccountsTyped, Idle, CommandRecs

LEMMA BeginTyped ==
    ASSUME AccountsTyped, NEW c \in Desks, NEW phase \in CommandPhases, NEW actor \in Users, NEW target \in Users,
           NEW patch \in PatchRecs, NEW harm, Begin(c, phase, actor, target, patch, harm)
    PROVE  AccountsTyped'
<1>1. [Idle EXCEPT !.phase = phase, !.actor = actor, !.target = target, !.patch = patch] \in CommandRecs
  BY DEF Idle, CommandRecs, PatchRecs, NoPatch
<1>2. flows' \in 0..MaxFlows
  BY AccountsAssumption DEF Begin, AccountsTyped
<1> QED BY <1>1, <1>2 DEF Begin, AccountsTyped

LEMMA GiveUpTyped ==
    ASSUME AccountsTyped, NEW c \in Desks, GiveUp(c), command[c].phase # "idle",
           UNCHANGED <<account, row, trail, holders, raced, usurped, flows>>, faults' \in 0..MaxFaults
    PROVE  AccountsTyped'
BY CommandFacts DEF GiveUp, AccountsTyped

LEMMA WriteTyped ==
    ASSUME AccountsTyped, NEW c \in Desks, NEW r \in AccountRecs, WriteAccount(c, r), command[c].phase # "idle"
    PROVE  /\ account' \in [Users -> AccountRecs] /\ holders' \subseteq Users /\ usurped' \in BOOLEAN
           /\ \A u \in Users : account'[u] = IF u = command[c].target THEN r ELSE account[u]
<1>1. usurped' \in BOOLEAN BY DEF WriteAccount
<1>2. account' \in [Users -> AccountRecs] /\ \A u \in Users : account'[u] = IF u = command[c].target THEN r ELSE account[u]
  BY DEF WriteAccount, AccountsTyped
<1>3. holders' \subseteq Users BY DEF WriteAccount, AccountsTyped, TokensOut
<1> QED BY <1>1, <1>2, <1>3

LEMMA SingleKept ==
    ASSUME Single, NEW c \in Desks, OnlyDesk(c), raced \subseteq raced',
           command'[c].phase = "idle" \/ SameTask(c)
    PROVE  Single'
BY DEF Single, Busy, OnlyDesk, SameTask

\* A desk that ends its request, whatever the request had done.
LEMMA EndKeeps ==
    ASSUME AccountsInv, NEW c \in Desks, command[c].phase # "idle", OnlyDesk(c), command'[c] = Idle, AccountsTyped',
           torn \subseteq torn', raced \subseteq raced', UNCHANGED <<account, usurped>>,
           \A u \in Users : u # command[c].target => trail'[u] = trail[u],
           \/ trail'[command[c].target] = trail[command[c].target]
              /\ (command[c].touched => command[c].target \in torn')
           \/ trail'[command[c].target] = IF command[c].delta THEN command[c].admin ELSE trail[command[c].target]
    PROVE  AccountsInv'
<1> USE DEF AccountsInv
<1>1. NeverBare' BY DEF NeverBare
<1>2. Single' BY SingleKept DEF Idle
<1>3. InOrder'
  <2>1. InOrderOf(Idle) BY DEF InOrderOf, Idle
  <2> QED BY <2>1 DEF InOrder, OnlyDesk
<1>4. AnAdministratorRemains' BY DEF AnAdministratorRemains, Administers, MayAuthenticate, Live
<1>5. Told'
  <2> SUFFICES ASSUME NEW u \in Users, u \notin torn', u \notin raced', account[u].state # "gone"
               PROVE  /\ \A d \in Desks : (Busy(d, u) /\ command[d].delta => command[d].admin = account[u].admin)'
                      /\ trail'[u] = account[u].admin \/ \E d \in Desks : (Busy(d, u) /\ command[d].delta)'
    BY DEF Told
  <2>1. /\ \A d \in Desks : Busy(d, u) /\ command[d].delta => command[d].admin = account[u].admin
        /\ trail[u] = account[u].admin \/ \E d \in Desks : Busy(d, u) /\ command[d].delta
    BY DEF Told
  <2>2. \A d \in Desks : Busy(d, u)' => d # c /\ Busy(d, u) /\ command'[d] = command[d]
    BY DEF Busy, OnlyDesk, Idle
  <2>3. CASE u # command[c].target
    BY <2>1, <2>2, <2>3 DEF Busy, OnlyDesk
  <2>4. CASE u = command[c].target
    <3>1. Busy(c, u) /\ \A d \in Desks : Busy(d, u) => d = c BY <2>4 DEF Busy, Single
    <3>2. command[c].delta => command[c].touched BY DEF InOrder, InOrderOf
    <3>3. trail'[u] = account[u].admin
      <4>1. CASE command[c].delta BY <2>1, <2>4, <3>1, <3>2, <4>1
      <4>2. CASE ~command[c].delta BY <2>1, <2>4, <3>1, <4>2
      <4> QED BY <4>1, <4>2
    <3> QED BY <2>2, <3>1, <3>3
  <2> QED BY <2>3, <2>4
<1>6. Mirrored'
  <2>1. \A d \in Desks : command'[d].phase # "idle" => command'[d] = command[d] BY DEF OnlyDesk, Idle
  <2> QED BY <2>1 DEF Mirrored, MirrorsOf, MayAuthenticate, Live
<1> QED BY <1>1, <1>2, <1>3, <1>4, <1>5, <1>6

\* A desk that goes on and has told Keycloak nothing.
LEMMA GoOnKeeps ==
    ASSUME AccountsInv, NEW c \in Desks, OnlyDesk(c), SameTask(c), AccountsTyped',
           UNCHANGED <<account, trail, torn, raced, usurped>>,
           command'[c].phase \in {"commit new", "change", "fields", "password", "reread", "commit"},
           command'[c].delta = command[c].delta /\ command'[c].touched = command[c].touched,
           command[c].delta => command'[c].admin = command[c].admin,
           command'[c].phase = "change" => command[c].phase = "roles",
           command'[c].phase = "fields" => command[c].phase = "change",
           command'[c].phase = "commit new" => command[c].phase = "grant",
           command'[c].phase = "commit" => account[command[c].target].state = "live"
                                           /\ command'[c].enabled = account[command[c].target].enabled
    PROVE  AccountsInv'
<1> USE DEF AccountsInv
<1>1. NeverBare' BY DEF NeverBare
<1>2. Single' BY SingleKept
<1>3. InOrder'
  <2>1. InOrderOf(command'[c]) BY DEF InOrder, InOrderOf, SameTask
  <2> QED BY <2>1 DEF InOrder, OnlyDesk
<1>4. AnAdministratorRemains' BY DEF AnAdministratorRemains, Administers, MayAuthenticate, Live
<1>5. Told'
  <2>1. \A d \in Desks, u \in Users : /\ Busy(d, u)' <=> Busy(d, u)
                                      /\ command'[d].delta = command[d].delta
                                      /\ command[d].delta => command'[d].admin = command[d].admin
    BY DEF Busy, OnlyDesk, SameTask
  <2>2. \A u \in Users : trail'[u] = trail[u] /\ account'[u] = account[u] OBVIOUS
  <2> SUFFICES ASSUME NEW u \in Users, u \notin torn, u \notin raced, account[u].state # "gone"
               PROVE  /\ \A d \in Desks : (Busy(d, u) /\ command[d].delta => command[d].admin = account[u].admin)'
                      /\ trail[u] = account[u].admin \/ \E d \in Desks : (Busy(d, u) /\ command[d].delta)'
    BY <2>2 DEF Told
  <2>3. /\ \A d \in Desks : Busy(d, u) /\ command[d].delta => command[d].admin = account[u].admin
        /\ trail[u] = account[u].admin \/ \E d \in Desks : Busy(d, u) /\ command[d].delta
    BY DEF Told
  <2>4. \A d \in Desks : (Busy(d, u) /\ command[d].delta => command[d].admin = account[u].admin)'
    BY <2>1, <2>2, <2>3
  <2>5. (\E d \in Desks : Busy(d, u) /\ command[d].delta) => \E d \in Desks : (Busy(d, u) /\ command[d].delta)'
    BY <2>1
  <2> QED BY <2>3, <2>4, <2>5
<1>6. Mirrored'
  <2> SUFFICES ASSUME NEW d \in Desks, command'[d].phase # "idle", command'[d].target \notin raced'
               PROVE  MirrorsOf(command[d])'
    BY DEF Mirrored
  <2>1. CASE d # c BY <2>1 DEF Mirrored, MirrorsOf, OnlyDesk, MayAuthenticate, Live
  <2>2. CASE d = c BY <2>2 DEF Mirrored, MirrorsOf, SameTask, MayAuthenticate, Live
  <2> QED BY <2>1, <2>2
<1> QED BY <1>1, <1>2, <1>3, <1>4, <1>5, <1>6

\* A desk that changes its target's account.
LEMMA WriteKeeps ==
    ASSUME AccountsInv, NEW c \in Desks, OnlyDesk(c), SameTask(c), AccountsTyped',
           NEW r \in AccountRecs, WriteAccount(c, r), UNCHANGED <<trail, torn, raced>>,
           r.state # "never",
           command[c].actor = command[c].target /\ Administers(command[c].actor)
               => r.state = "live" /\ r.enabled /\ r.admin,
           \/ r.state = "gone"
           \/ command'[c].delta /\ command'[c].admin = r.admin
           \/ /\ r.admin = account[command[c].target].admin /\ command'[c].delta = command[c].delta
              /\ command'[c].admin = command[c].admin /\ account[command[c].target].state # "gone",
           InOrderOf(command'[c]), command'[c].phase # "commit",
           command'[c].phase \in {"grant", "commit new"} /\ command[c].target \notin raced
               => r.state = "live" /\ r.enabled
    PROVE  AccountsInv'
<1> USE DEF AccountsInv
<1> DEFINE t == command[c].target
<1>a. /\ t \in Users /\ command[c].actor \in Users
      /\ \A u \in Users : account'[u] = IF u = t THEN r ELSE account[u]
  BY CommandFacts, WriteTyped DEF SameTask
<1>1. NeverBare' BY <1>a DEF NeverBare
<1>2. Single' BY SingleKept
<1>3. InOrder' BY DEF InOrder, OnlyDesk
<1>4. AnAdministratorRemains'
  <2> SUFFICES ASSUME ~usurped' PROVE \E u \in Users : Administers(u)'
    BY DEF AnAdministratorRemains
  <2>1. PICK w \in Users : w = command[c].actor BY <1>a
  <2>2. Administers(w) BY <2>1 DEF WriteAccount
  <2>3. Administers(w)'
    <3>1. CASE w # t BY <1>a, <2>2, <3>1 DEF Administers, MayAuthenticate, Live
    <3>2. CASE w = t
      <4>1. account'[w] = r BY <1>a, <3>2
      <4>2. r.state = "live" /\ r.enabled /\ r.admin BY <2>1, <2>2, <3>2
      <4> QED BY <4>1, <4>2 DEF Administers, MayAuthenticate, Live
    <3> QED BY <3>1, <3>2
  <2> QED BY <2>3
<1>5. Told'
  <2> SUFFICES ASSUME NEW u \in Users, u \notin torn, u \notin raced, account'[u].state # "gone"
               PROVE  /\ \A d \in Desks : (Busy(d, u) /\ command[d].delta => command[d].admin = account[u].admin)'
                      /\ trail[u] = account'[u].admin \/ \E d \in Desks : (Busy(d, u) /\ command[d].delta)'
    BY DEF Told
  <2>2. \A d \in Desks : /\ Busy(d, u)' => Busy(d, u)
                         /\ d # c => command'[d] = command[d] /\ (Busy(d, u)' <=> Busy(d, u))
    BY DEF Busy, OnlyDesk, SameTask
  <2>3. CASE u # t
    <3>1. account'[u] = account[u] /\ ~Busy(c, u) BY <1>a, <2>3 DEF Busy
    <3>2. \A d \in Desks : Busy(d, u) => d # c BY <3>1
    <3>3. /\ \A d \in Desks : Busy(d, u) /\ command[d].delta => command[d].admin = account[u].admin
          /\ trail[u] = account[u].admin \/ \E d \in Desks : Busy(d, u) /\ command[d].delta
      BY <3>1 DEF Told
    <3> QED BY <2>2, <3>1, <3>2, <3>3
  <2>4. CASE u = t
    <3>1. Busy(c, u) /\ account'[u] = r BY <1>a, <2>4 DEF Busy, SameTask
    <3>2. \A d \in Desks : Busy(d, u) => d = c BY <3>1 DEF Single
    <3>3. CASE command'[c].delta /\ command'[c].admin = r.admin
      <4>1. command'[c].phase # "idle" BY <3>3 DEF InOrderOf
      <4>2. Busy(c, u)' BY <4>1, <2>4 DEF Busy, SameTask
      <4> QED BY <2>2, <3>1, <3>2, <3>3, <4>2
    <3>4. CASE /\ r.admin = account[t].admin /\ command'[c].delta = command[c].delta
               /\ command'[c].admin = command[c].admin /\ account[t].state # "gone"
      <4>1. /\ \A d \in Desks : Busy(d, u) /\ command[d].delta => command[d].admin = account[u].admin
            /\ trail[u] = account[u].admin \/ \E d \in Desks : Busy(d, u) /\ command[d].delta
        BY <2>4, <3>4 DEF Told
      <4>2. command[c].delta => Busy(c, u)'
        <5> SUFFICES ASSUME command[c].delta PROVE Busy(c, u)' OBVIOUS
        <5>1. command'[c].delta BY <3>4
        <5>2. command'[c].phase # "idle" BY <5>1 DEF InOrderOf
        <5> QED BY <5>2, <2>4 DEF Busy, SameTask
      <4>3. \A d \in Desks : Busy(d, u)' => d = c BY <2>2, <3>2
      <4>4. CASE command[c].delta
        <5>1. command[c].admin = account[u].admin BY <3>1, <4>1, <4>4
        <5>2. command'[c].admin = account'[u].admin BY <5>1, <3>1, <3>4, <2>4
        <5>3. Busy(c, u)' /\ command'[c].delta BY <4>2, <4>4, <3>4
        <5> QED BY <5>2, <5>3, <4>3
      <4>5. CASE ~command[c].delta
        <5>1. trail[u] = account[u].admin BY <3>2, <4>1, <4>5
        <5>2. trail[u] = account'[u].admin BY <5>1, <3>1, <3>4, <2>4
        <5>3. ~command'[c].delta BY <4>5, <3>4
        <5> QED BY <5>2, <5>3, <4>3
      <4> QED BY <4>4, <4>5
    <3> QED BY <2>4, <3>1, <3>3, <3>4
  <2> QED BY <2>3, <2>4
<1>6. Mirrored'
  <2> SUFFICES ASSUME NEW d \in Desks, command'[d].phase # "idle", command'[d].target \notin raced'
               PROVE  MirrorsOf(command[d])'
    BY DEF Mirrored
  <2>1. CASE d = c
    <3>1. account'[command'[c].target] = r /\ command'[c].target = t BY <1>a DEF SameTask
    <3>2. t \notin raced BY <2>1, <3>1
    <3> QED BY <2>1, <3>1, <3>2 DEF MirrorsOf, MayAuthenticate, Live
  <2>2. CASE d # c
    <3>1. command'[d] = command[d] BY <2>2 DEF OnlyDesk
    <3>2. command[d].target \in Users BY <3>1, CommandFacts
    <3>3. command[d].target # t
      <4>1. SUFFICES ASSUME command[d].target = t PROVE FALSE OBVIOUS
      <4>2. Busy(d, t) /\ Busy(c, t) BY <3>1, <4>1 DEF Busy, SameTask
      <4>3. t \notin raced BY <3>1, <4>1
      <4> QED BY <1>a, <2>2, <4>2, <4>3 DEF Single
    <3>4. account'[command[d].target] = account[command[d].target] BY <1>a, <3>2, <3>3
    <3>5. MirrorsOf(command[d]) BY <3>1 DEF Mirrored
    <3> QED BY <3>1, <3>4, <3>5 DEF MirrorsOf, MayAuthenticate, Live
  <2> QED BY <2>1, <2>2
<1> QED BY <1>1, <1>2, <1>3, <1>4, <1>5, <1>6

LEMMA BeginKeeps ==
    ASSUME AccountsInv, NEW c \in Desks, NEW phase \in CommandPhases, NEW actor \in Users, NEW target \in Users,
           NEW patch \in PatchRecs, NEW harm \in BOOLEAN, Begin(c, phase, actor, target, patch, harm),
           phase \in {"create", "roles", "remove"},
           phase = "remove" => harm, patch.active = "off" \/ patch.role = "plain" => harm \/ phase = "create"
    PROVE  AccountsInv'
<1> USE DEF AccountsInv
<1>a. AccountsTyped' BY BeginTyped
<1>b. /\ OnlyDesk(c)
      /\ command'[c].phase = phase /\ command'[c].actor = actor /\ command'[c].target = target
      /\ command'[c].patch = patch /\ ~command'[c].delta
      /\ command[c].phase = "idle"
  BY DEF Begin, AccountsTyped, OnlyDesk, Idle
<1>c. UNCHANGED <<account, row, trail, torn, usurped>> /\ (harm => actor # target)
  BY DEF Begin, NotOneself
<1>1. NeverBare' BY <1>c DEF NeverBare
<1>2. Single'
  <2> SUFFICES ASSUME NEW u \in Users, u \notin raced', NEW d \in Desks, NEW e \in Desks, Busy(d, u)', Busy(e, u)'
               PROVE  d = e
    BY DEF Single
  <2>1. u \notin raced BY DEF Begin
  <2>2. CASE u # target \/ (d # c /\ e # c) BY <1>b, <2>1, <2>2 DEF Single, Busy, OnlyDesk
  <2>3. CASE u = target /\ (d = c \/ e = c)
    <3>1. InFlightOn(target) = {} BY <2>3 DEF Begin
    <3>2. \A b \in Desks \ {c} : ~Busy(b, u)' BY <1>b, <2>3, <3>1 DEF InFlightOn, Busy, OnlyDesk
    <3> QED BY <3>2
  <2> QED BY <2>2, <2>3
<1>3. InOrder'
  <2>1. InOrderOf(command'[c]) BY <1>b, <1>c DEF InOrderOf
  <2> QED BY <1>b, <2>1 DEF InOrder, OnlyDesk
<1>4. AnAdministratorRemains' BY <1>c DEF AnAdministratorRemains, Administers, MayAuthenticate, Live
<1>5. Told'
  <2>1. \A d \in Desks, u \in Users : /\ (Busy(d, u) /\ command[d].delta)' <=> (Busy(d, u) /\ command[d].delta)
                                      /\ Busy(d, u) => command'[d] = command[d]
    <3>1. \A d \in Desks \ {c} : command'[d] = command[d] BY <1>b DEF OnlyDesk
    <3>2. ~command[c].delta \/ ~(command[c].phase # "idle") BY <1>b
    <3> QED BY <1>b, <3>1, <3>2 DEF Busy
  <2>2. \A u \in Users : u \notin raced' => u \notin raced BY DEF Begin
  <2> SUFFICES ASSUME NEW u \in Users, u \notin torn, u \notin raced, account[u].state # "gone"
               PROVE  /\ \A d \in Desks : (Busy(d, u) /\ command[d].delta)' => command'[d].admin = account[u].admin
                      /\ trail[u] = account[u].admin \/ \E d \in Desks : (Busy(d, u) /\ command[d].delta)'
    BY <1>c, <2>2 DEF Told
  <2>3. /\ \A d \in Desks : Busy(d, u) /\ command[d].delta => command[d].admin = account[u].admin
        /\ trail[u] = account[u].admin \/ \E d \in Desks : Busy(d, u) /\ command[d].delta
    BY DEF Told
  <2> QED BY <2>1, <2>3
<1>6. Mirrored'
  <2> SUFFICES ASSUME NEW d \in Desks, command'[d].phase # "idle", command'[d].target \notin raced'
               PROVE  MirrorsOf(command[d])'
    BY DEF Mirrored
  <2>1. CASE d # c
    <3>1. command'[d] = command[d] /\ command[d].target \notin raced BY <1>b, <2>1 DEF OnlyDesk, Begin
    <3> QED BY <1>c, <3>1 DEF Mirrored, MirrorsOf, MayAuthenticate, Live
  <2>2. CASE d = c BY <1>b, <2>2 DEF MirrorsOf
  <2> QED BY <2>1, <2>2
<1> QED BY <1>a, <1>1, <1>2, <1>3, <1>4, <1>5, <1>6

\* What the link of an account changes is nobody's role or state.
LEMMA LinkWritesKeep ==
    ASSUME AccountsInv, AccountsTyped', UNCHANGED <<trail, command, torn, raced, usurped>>,
           \A u \in Users : /\ account'[u].state = account[u].state /\ account'[u].enabled = account[u].enabled
                            /\ account'[u].admin = account[u].admin
                            /\ account'[u] = account[u] \/ account[u].state = "live"
    PROVE  AccountsInv'
<1> USE DEF AccountsInv
<1>1. NeverBare' BY DEF NeverBare
<1>2. Single' BY DEF Single, Busy
<1>3. InOrder' BY DEF InOrder
<1>4. AnAdministratorRemains' BY DEF AnAdministratorRemains, Administers, MayAuthenticate, Live
<1>5. Told' BY DEF Told, Busy
<1>6. Mirrored'
  <2>1. \A d \in Desks : command[d].phase # "idle" => command[d].target \in Users BY CommandFacts
  <2> QED BY <2>1 DEF Mirrored, MirrorsOf, MayAuthenticate, Live
<1> QED BY <1>1, <1>2, <1>3, <1>4, <1>5, <1>6

LEMMA ShutAlone ==
    ASSUME AccountsInv, Shut, NEW c \in Desks, command[c].phase # "idle",
           NEW t \in Users, t = command[c].target, t \notin torn, t \notin raced, Closed(t),
           ~(command[c].touched /\ command[c].phase \in ClosingPhases)
    PROVE  row[t] # "active" /\ (row[t] = "absent" => t \notin SigningIn)
<1>1. \A d \in Desks : Busy(d, t) => d = c BY DEF AccountsInv, Single, Busy
<1> QED BY <1>1 DEF Shut, ShutFor

LEMMA EndShuts ==
    ASSUME AccountsInv, Shut, NEW c \in Desks, command[c].phase # "idle", OnlyDesk(c), command'[c] = Idle,
           UNCHANGED <<account, signin>>, torn \subseteq torn', raced \subseteq raced',
           \A u \in Users : u # command[c].target => row'[u] = row[u],
           LET t == command[c].target IN
               t \notin torn' /\ t \notin raced' /\ Closed(t) =>
                   \/ row'[t] = row[t] /\ ~command[c].touched
                   \/ row'[t] # "active" /\ (row'[t] = "absent" => t \notin SigningIn)
    PROVE  Shut'
<1> SUFFICES ASSUME NEW u \in Users, u \notin torn', u \notin raced', Closed(u)'
             PROVE  ShutFor(u)'
  BY DEF Shut, ShutFor
<1>a. u \notin torn /\ u \notin raced /\ Closed(u) BY DEF Closed, MayAuthenticate, Live
<1>b. SigningIn' = SigningIn BY DEF SigningIn
<1>1. CASE u # command[c].target
  <2>1. ShutFor(u) BY <1>a DEF Shut, ShutFor
  <2>2. \A d \in Desks : Busy(d, u) => d # c /\ command'[d] = command[d] /\ Busy(d, u)'
    BY <1>1 DEF Busy, OnlyDesk
  <2> QED BY <1>1, <1>b, <2>1, <2>2 DEF ShutFor
<1>2. CASE u = command[c].target
  <2>1. row'[u] # "active" /\ (row'[u] = "absent" => u \notin SigningIn)
    BY <1>a, <1>2, ShutAlone
  <2> QED BY <1>b, <2>1 DEF ShutFor
<1> QED BY <1>1, <1>2

LEMMA GoOnShuts ==
    ASSUME AccountsInv, Shut, NEW c \in Desks, OnlyDesk(c), SameTask(c),
           UNCHANGED <<account, row, torn, raced, signin>>,
           command'[c].phase # "idle", command'[c].touched = command[c].touched,
           command[c].phase \in ClosingPhases => command'[c].phase \in ClosingPhases
    PROVE  Shut'
<1> SUFFICES ASSUME NEW u \in Users, u \notin torn, u \notin raced, Closed(u)
             PROVE  ShutFor(u)'
  BY DEF Shut, ShutFor, Closed, MayAuthenticate, Live
<1>b. SigningIn' = SigningIn BY DEF SigningIn
<1>1. ShutFor(u) BY DEF Shut, ShutFor
<1>2. \A d \in Desks : Busy(d, u) /\ command[d].touched /\ command[d].phase \in ClosingPhases
                         => (Busy(d, u) /\ command[d].touched /\ command[d].phase \in ClosingPhases)'
  <2> TAKE d \in Desks
  <2>1. CASE d = c BY <2>1 DEF Busy, SameTask, ClosingPhases
  <2>2. CASE d # c BY <2>2 DEF Busy, OnlyDesk
  <2> QED BY <2>1, <2>2
<1> QED BY <1>b, <1>1, <1>2 DEF ShutFor

LEMMA WriteShuts ==
    ASSUME AccountsInv, Shut, NEW c \in Desks, OnlyDesk(c), SameTask(c),
           NEW r \in AccountRecs, WriteAccount(c, r), UNCHANGED <<row, torn, raced, signin>>,
           \/ r.state = "live" /\ r.enabled
           \/ command'[c].phase \in ClosingPhases /\ command'[c].touched
           \/ Closed(command[c].target) /\ command[c].phase \notin ClosingPhases
    PROVE  Shut'
<1> DEFINE t == command[c].target
<1>a. t \in Users /\ \A u \in Users : account'[u] = IF u = t THEN r ELSE account[u]
  BY CommandFacts, WriteTyped DEF SameTask, AccountsInv
<1>b. SigningIn' = SigningIn BY DEF SigningIn
<1> SUFFICES ASSUME NEW u \in Users, u \notin torn, u \notin raced, Closed(u)'
             PROVE  ShutFor(u)'
  BY DEF Shut, ShutFor
<1>1. CASE u # t
  <2>1. Closed(u) BY <1>a, <1>1 DEF Closed, MayAuthenticate, Live
  <2>2. ShutFor(u) BY <2>1 DEF Shut, ShutFor
  <2>3. \A d \in Desks : Busy(d, u) => d # c /\ command'[d] = command[d] /\ Busy(d, u)'
    BY <1>1 DEF Busy, OnlyDesk
  <2> QED BY <1>b, <2>2, <2>3 DEF ShutFor
<1>2. CASE u = t
  <2>1. ~(r.state = "live" /\ r.enabled) BY <1>a, <1>2 DEF Closed, MayAuthenticate, Live
  <2>2. CASE command'[c].phase \in ClosingPhases /\ command'[c].touched
    <3>1. Busy(c, u)' BY <1>2, <2>2 DEF Busy, SameTask, ClosingPhases
    <3> QED BY <2>2, <3>1 DEF ShutFor
  <2>3. CASE Closed(t) /\ command[c].phase \notin ClosingPhases
    <3>1. row[u] # "active" /\ (row[u] = "absent" => u \notin SigningIn)
      BY <1>a, <1>2, <2>3, ShutAlone DEF SameTask
    <3> QED BY <1>b, <3>1 DEF ShutFor
  <2> QED BY <2>1, <2>2, <2>3
<1> QED BY <1>1, <1>2

-----------------------------------------------------------------------------
(* Each step of a desk                                                     *)

LEMMA GiveUpKeeps ==
    ASSUME DeskInv, NEW c \in Desks, GiveUp(c), command[c].phase # "idle",
           UNCHANGED <<account, row, trail, holders, raced, usurped, flows, signin>>, faults' \in 0..MaxFaults
    PROVE  DeskInv'
<1> USE DEF DeskInv
<1>1. AccountsTyped' BY GiveUpTyped DEF AccountsInv
<1>2. /\ OnlyDesk(c) /\ command'[c] = Idle /\ torn \subseteq torn'
      /\ command[c].touched => command[c].target \in torn'
  BY DEF GiveUp, OnlyDesk, AccountsInv, AccountsTyped
<1>3. AccountsInv' BY <1>1, <1>2, EndKeeps
<1>4. Shut' BY <1>2, EndShuts
<1> QED BY <1>3, <1>4

LEMMA CreateAccountKeeps ==
    ASSUME DeskInv, NEW c \in Desks, CreateAccount(c), UNCHANGED signin
    PROVE  DeskInv'
<1> USE DEF DeskInv
<1> DEFINE m == command[c]
<1>a. m \in CommandRecs /\ m.phase = "create" /\ m.target \in Users
  BY CommandFacts DEF CreateAccount, AccountsInv
<1>b. AccountsTyped BY DEF AccountsInv
<1>1. CASE account[m.target].state # "never"
  BY <1>1, <1>a, <1>b, GiveUpKeeps DEF CreateAccount, AccountsTyped
<1>2. CASE account[m.target].state = "never"
  <2> DEFINE n == [m EXCEPT !.touched = TRUE, !.phase = IF m.patch.role = "admin" THEN "grant" ELSE "commit new"]
  <2>1. Fresh \in AccountRecs BY DEF Fresh, Never, AccountRecs
  <2>2. /\ n \in CommandRecs /\ n.actor = m.actor /\ n.target = m.target /\ n.patch = m.patch /\ n.admin = m.admin
        /\ n.delta = m.delta /\ n.touched /\ n.phase \in {"grant", "commit new"}
        /\ n.phase = "grant" => n.patch.role = "admin"
    BY <1>a DEF CommandRecs, CommandPhases
  <2>3. WriteAccount(c, Fresh) /\ command' = [command EXCEPT ![c] = n] /\ UNCHANGED <<row, trail, torn, raced, flows, faults>>
    BY <1>2 DEF CreateAccount
  <2>4. command'[c] = n /\ OnlyDesk(c) /\ SameTask(c)
    BY <1>a, <1>b, <2>2, <2>3 DEF AccountsTyped, OnlyDesk, SameTask
  <2>5. AccountsTyped' BY <1>a, <1>b, <2>1, <2>2, <2>3, WriteTyped DEF AccountsTyped
  <2>6. ~m.delta BY <1>a DEF AccountsInv, InOrder, InOrderOf
  <2>7. account[m.target] = Never BY <1>2, <1>a DEF AccountsInv, NeverBare
  <2>8. ~Administers(m.target) BY <1>2 DEF Administers, MayAuthenticate, Live
  <2>9. InOrderOf(n) BY <2>2, <2>6 DEF InOrderOf
  <2>10. Fresh.admin = Never.admin /\ Never.state = "never" /\ Fresh.state = "live" /\ Fresh.enabled = TRUE
    BY DEF Fresh, Never
  <2>11. AccountsInv'
    BY <2>1, <2>2, <2>3, <2>4, <2>5, <2>7, <2>8, <2>9, <2>10, WriteKeeps
  <2>12. Shut' BY <2>1, <2>3, <2>4, <2>10, WriteShuts
  <2> QED BY <2>11, <2>12
<1> QED BY <1>1, <1>2

LEMMA ReadRolesKeeps ==
    ASSUME DeskInv, NEW c \in Desks, ReadRoles(c), UNCHANGED signin
    PROVE  DeskInv'
<1> USE DEF DeskInv
<1> DEFINE m == command[c]
<1>a. m \in CommandRecs /\ m.phase = "roles" /\ m.target \in Users
  BY CommandFacts DEF ReadRoles, AccountsInv
<1>b. AccountsTyped BY DEF AccountsInv
<1>1. CASE ~Live(m.target)
  BY <1>1, <1>a, <1>b, GiveUpKeeps DEF ReadRoles, AccountsTyped
<1>2. CASE Live(m.target)
  <2> DEFINE n == [m EXCEPT !.admin = account[m.target].admin, !.phase = "change"]
  <2>1. account[m.target].admin \in BOOLEAN BY <1>a, <1>b DEF AccountsTyped, AccountRecs
  <2>2. /\ n \in CommandRecs /\ n.actor = m.actor /\ n.target = m.target /\ n.patch = m.patch
        /\ n.delta = m.delta /\ n.touched = m.touched /\ n.phase = "change"
    BY <1>a, <2>1 DEF CommandRecs, CommandPhases
  <2>3. command' = [command EXCEPT ![c] = n] /\ UNCHANGED <<account, holders, usurped, row, trail, torn, raced, flows, faults>>
    BY <1>2 DEF ReadRoles
  <2>4. command'[c] = n /\ OnlyDesk(c) /\ SameTask(c)
    BY <1>a, <1>b, <2>2, <2>3 DEF AccountsTyped, OnlyDesk, SameTask
  <2>5. AccountsTyped' BY <1>a, <1>b, <2>2, <2>3 DEF AccountsTyped
  <2>6. ~m.delta BY <1>a DEF AccountsInv, InOrder, InOrderOf
  <2>7. AccountsInv' BY <1>a, <2>2, <2>3, <2>4, <2>5, <2>6, GoOnKeeps
  <2>8. Shut' BY <1>a, <2>2, <2>3, <2>4, GoOnShuts DEF ClosingPhases
  <2> QED BY <2>7, <2>8
<1> QED BY <1>1, <1>2

LEMMA ChangeRoleKeeps ==
    ASSUME DeskInv, NEW c \in Desks, ChangeRole(c), UNCHANGED signin
    PROVE  DeskInv'
<1> USE DEF DeskInv
<1> DEFINE m == command[c]
           asked == m.patch.role = "admin"
           next == IF m.phase = "grant" THEN "commit new" ELSE "fields"
<1>a. m \in CommandRecs /\ m.phase \in {"change", "grant"} /\ m.target \in Users /\ m.actor \in Users
  BY CommandFacts DEF ChangeRole, AccountsInv
<1>b. AccountsTyped BY DEF AccountsInv
<1>c. ~m.delta /\ InOrderOf(m) BY <1>a DEF AccountsInv, InOrder, InOrderOf
<1>1. CASE m.patch.role = "keep" \/ m.admin = asked
  <2> DEFINE n == [m EXCEPT !.phase = next]
  <2>1. /\ n \in CommandRecs /\ n.actor = m.actor /\ n.target = m.target /\ n.patch = m.patch /\ n.admin = m.admin
        /\ n.delta = m.delta /\ n.touched = m.touched /\ n.phase = next
    BY <1>a DEF CommandRecs, CommandPhases
  <2>2. command' = [command EXCEPT ![c] = n] /\ UNCHANGED <<account, holders, usurped, row, trail, torn, raced, flows, faults>>
    BY <1>1 DEF ChangeRole, Go
  <2>3. command'[c] = n /\ OnlyDesk(c) /\ SameTask(c)
    BY <1>a, <1>b, <2>1, <2>2 DEF AccountsTyped, OnlyDesk, SameTask
  <2>4. AccountsTyped' BY <1>b, <2>1, <2>2 DEF AccountsTyped
  <2>5. /\ n.phase \in {"fields", "commit new"} /\ m.phase \notin ClosingPhases
        /\ n.phase = "fields" => m.phase = "change"
        /\ n.phase = "commit new" => m.phase = "grant"
    <3> HIDE DEF n
    <3>1. CASE m.phase = "change" BY <2>1, <3>1 DEF ClosingPhases
    <3>2. CASE m.phase = "grant" BY <2>1, <3>2 DEF ClosingPhases
    <3> QED BY <1>a, <3>1, <3>2
  <2>6. AccountsInv' BY <2>1, <2>2, <2>3, <2>4, <2>5, GoOnKeeps
  <2>7. Shut' BY <2>1, <2>2, <2>3, <2>5, GoOnShuts
  <2> QED BY <2>6, <2>7
<1>2. CASE ~(m.patch.role = "keep" \/ m.admin = asked) /\ ~Live(m.target)
  BY <1>2, <1>a, <1>b, GiveUpKeeps DEF ChangeRole, AccountsTyped
<1>3. CASE ~(m.patch.role = "keep" \/ m.admin = asked) /\ Live(m.target)
  <2> DEFINE n == [m EXCEPT !.admin = asked, !.delta = TRUE, !.touched = TRUE, !.phase = next]
             a == account[m.target]
             r == [a EXCEPT !.admin = asked]
  <2>1. a \in AccountRecs /\ a.state = "live" BY <1>3, <1>a, <1>b DEF AccountsTyped, Live
  <2>2. r \in AccountRecs /\ r.state = "live" /\ r.enabled = a.enabled /\ r.admin = asked
    BY <2>1 DEF AccountRecs
  <2>3. /\ n \in CommandRecs /\ n.actor = m.actor /\ n.target = m.target /\ n.patch = m.patch /\ n.admin = asked
        /\ n.delta /\ n.touched /\ n.phase = next
    BY <1>a DEF CommandRecs, CommandPhases
  <2>4. WriteAccount(c, r) /\ command' = [command EXCEPT ![c] = n] /\ UNCHANGED <<row, trail, torn, raced, flows, faults>>
    BY <1>3 DEF ChangeRole
  <2>5. command'[c] = n /\ OnlyDesk(c) /\ SameTask(c)
    BY <1>a, <1>b, <2>3, <2>4 DEF AccountsTyped, OnlyDesk, SameTask
  <2>6. AccountsTyped' BY <1>a, <1>b, <2>2, <2>3, <2>4, WriteTyped DEF AccountsTyped
  <2>7. InOrderOf(n)
    <3> HIDE DEF n
    <3>1. CASE m.phase = "change" BY <1>c, <2>3, <3>1 DEF InOrderOf
    <3>2. CASE m.phase = "grant" BY <2>3, <3>2 DEF InOrderOf
    <3> QED BY <1>a, <3>1, <3>2
  <2>8. m.actor = m.target /\ Administers(m.actor) => r.enabled /\ r.admin
    <3>1. SUFFICES ASSUME m.actor = m.target, Administers(m.actor) PROVE r.enabled /\ r.admin OBVIOUS
    <3>2. r.enabled BY <2>2, <3>1 DEF Administers, MayAuthenticate
    <3>3. m.patch.role # "plain" BY <1>a, <1>c, <3>1 DEF InOrderOf
    <3>4. asked BY <1>3, <1>a, <3>3 DEF CommandRecs, PatchRecs
    <3> QED BY <2>2, <3>2, <3>4
  <2>9. n.phase \in {"grant", "commit new"} /\ m.target \notin raced => r.enabled
    <3>1. SUFFICES ASSUME m.phase = "grant", m.target \notin raced PROVE r.enabled BY <1>a, <2>3
    <3>2. MirrorsOf(m) BY <3>1 DEF AccountsInv, Mirrored
    <3> QED BY <2>2, <3>1, <3>2 DEF MirrorsOf, MayAuthenticate
  <2>10. n.phase # "commit" BY <2>3
  <2>11. AccountsInv'
    <3> HIDE DEF n, r
    <3> QED BY <2>2, <2>3, <2>4, <2>5, <2>6, <2>7, <2>8, <2>9, <2>10, WriteKeeps
  <2>12. Shut'
    <3>1. (r.state = "live" /\ r.enabled) \/ (Closed(m.target) /\ m.phase \notin ClosingPhases)
      BY <1>a, <2>1, <2>2 DEF Closed, MayAuthenticate, ClosingPhases
    <3> QED BY <2>2, <2>4, <2>5, <3>1, WriteShuts
  <2> QED BY <2>11, <2>12
<1> QED BY <1>1, <1>2, <1>3

LEMMA UpdateFieldsKeeps ==
    ASSUME DeskInv, NEW c \in Desks, UpdateFields(c), UNCHANGED signin
    PROVE  DeskInv'
<1> USE DEF DeskInv
<1> DEFINE m == command[c]
           active == m.patch.active
<1>a. m \in CommandRecs /\ m.phase = "fields" /\ m.target \in Users /\ m.actor \in Users
  BY CommandFacts DEF UpdateFields, AccountsInv
<1>b. AccountsTyped BY DEF AccountsInv
<1>c. InOrderOf(m) BY DEF AccountsInv, InOrder
<1>1. CASE active = "keep"
  <2> DEFINE n == [m EXCEPT !.phase = "password"]
  <2>1. /\ n \in CommandRecs /\ n.actor = m.actor /\ n.target = m.target /\ n.patch = m.patch /\ n.admin = m.admin
        /\ n.delta = m.delta /\ n.touched = m.touched /\ n.phase = "password"
    BY <1>a DEF CommandRecs, CommandPhases
  <2>2. command' = [command EXCEPT ![c] = n] /\ UNCHANGED <<account, holders, usurped, row, trail, torn, raced, flows, faults>>
    BY <1>1 DEF UpdateFields, Go
  <2>3. command'[c] = n /\ OnlyDesk(c) /\ SameTask(c)
    BY <1>a, <1>b, <2>1, <2>2 DEF AccountsTyped, OnlyDesk, SameTask
  <2>4. AccountsTyped' BY <1>b, <2>1, <2>2 DEF AccountsTyped
  <2>5. AccountsInv' BY <1>a, <2>1, <2>2, <2>3, <2>4, GoOnKeeps
  <2>6. Shut' BY <1>a, <2>1, <2>2, <2>3, GoOnShuts DEF ClosingPhases
  <2> QED BY <2>5, <2>6
<1>2. CASE active # "keep" /\ ~Live(m.target)
  BY <1>2, <1>a, <1>b, GiveUpKeeps DEF UpdateFields, AccountsTyped
<1>3. CASE active # "keep" /\ Live(m.target)
  <2> DEFINE n == [m EXCEPT !.touched = TRUE, !.phase = "password"]
             a == account[m.target]
             r == [a EXCEPT !.enabled = (active = "on")]
  <2>1. a \in AccountRecs /\ a.state = "live" BY <1>3, <1>a, <1>b DEF AccountsTyped, Live
  <2>2. r \in AccountRecs /\ r.state = "live" /\ r.enabled = (active = "on") /\ r.admin = a.admin
    BY <2>1 DEF AccountRecs
  <2>3. /\ n \in CommandRecs /\ n.actor = m.actor /\ n.target = m.target /\ n.patch = m.patch /\ n.admin = m.admin
        /\ n.delta = m.delta /\ n.touched /\ n.phase = "password"
    BY <1>a DEF CommandRecs, CommandPhases
  <2>4. WriteAccount(c, r) /\ command' = [command EXCEPT ![c] = n] /\ UNCHANGED <<row, trail, torn, raced, flows, faults>>
    BY <1>3 DEF UpdateFields
  <2>5. command'[c] = n /\ OnlyDesk(c) /\ SameTask(c)
    BY <1>a, <1>b, <2>3, <2>4 DEF AccountsTyped, OnlyDesk, SameTask
  <2>6. AccountsTyped' BY <1>a, <1>b, <2>2, <2>3, <2>4, WriteTyped DEF AccountsTyped
  <2>7. InOrderOf(n) BY <2>3 DEF InOrderOf
  <2>8. m.actor = m.target /\ Administers(m.actor) => r.enabled /\ r.admin
    <3>1. SUFFICES ASSUME m.actor = m.target, Administers(m.actor) PROVE r.enabled /\ r.admin OBVIOUS
    <3>2. r.admin BY <2>2, <3>1 DEF Administers
    <3>3. active # "off" BY <1>a, <1>c, <3>1 DEF InOrderOf
    <3>4. active = "on" BY <1>3, <1>a, <3>3 DEF CommandRecs, PatchRecs
    <3> QED BY <2>2, <3>2, <3>4
  <2>9. n.phase # "commit" /\ n.phase \notin {"grant", "commit new"} BY <2>3
  <2>10. AccountsInv'
    <3> HIDE DEF n, r
    <3> QED BY <2>1, <2>2, <2>3, <2>4, <2>5, <2>6, <2>7, <2>8, <2>9, WriteKeeps
  <2>11. Shut'
    <3>1. n.phase \in ClosingPhases /\ n.touched BY <2>3 DEF ClosingPhases
    <3> QED BY <2>2, <2>4, <2>5, <3>1, WriteShuts
  <2> QED BY <2>10, <2>11
<1> QED BY <1>1, <1>2, <1>3 DEF UpdateFields

LEMMA ResetPasswordKeeps ==
    ASSUME DeskInv, NEW c \in Desks, ResetPassword(c), UNCHANGED signin
    PROVE  DeskInv'
<1> USE DEF DeskInv
<1> DEFINE m == command[c]
<1>a. m \in CommandRecs /\ m.phase = "password"
  BY CommandFacts DEF ResetPassword, AccountsInv
<1>b. AccountsTyped BY DEF AccountsInv
<1>1. CASE m.patch.password = "weak"
  BY <1>1, <1>a, <1>b, GiveUpKeeps DEF ResetPassword, AccountsTyped
<1>2. CASE m.patch.password # "weak"
  <2> DEFINE n == [m EXCEPT !.phase = "reread"]
  <2>1. /\ n \in CommandRecs /\ n.actor = m.actor /\ n.target = m.target /\ n.patch = m.patch /\ n.admin = m.admin
        /\ n.delta = m.delta /\ n.touched = m.touched /\ n.phase = "reread"
    BY <1>a DEF CommandRecs, CommandPhases
  <2>2. command' = [command EXCEPT ![c] = n] /\ UNCHANGED <<account, holders, usurped, row, trail, torn, raced, flows, faults>>
    BY <1>2 DEF ResetPassword, Go
  <2>3. command'[c] = n /\ OnlyDesk(c) /\ SameTask(c)
    BY <1>a, <1>b, <2>1, <2>2 DEF AccountsTyped, OnlyDesk, SameTask
  <2>4. AccountsTyped' BY <1>b, <2>1, <2>2 DEF AccountsTyped
  <2>5. AccountsInv' BY <1>a, <2>1, <2>2, <2>3, <2>4, GoOnKeeps
  <2>6. Shut' BY <1>a, <2>1, <2>2, <2>3, GoOnShuts DEF ClosingPhases
  <2> QED BY <2>5, <2>6
<1> QED BY <1>1, <1>2

LEMMA RereadKeeps ==
    ASSUME DeskInv, NEW c \in Desks, Reread(c), UNCHANGED signin
    PROVE  DeskInv'
<1> USE DEF DeskInv
<1> DEFINE m == command[c]
<1>a. m \in CommandRecs /\ m.phase = "reread" /\ m.target \in Users
  BY CommandFacts DEF Reread, AccountsInv
<1>b. AccountsTyped BY DEF AccountsInv
<1>1. CASE ~Live(m.target)
  BY <1>1, <1>a, <1>b, GiveUpKeeps DEF Reread, AccountsTyped
<1>2. CASE Live(m.target)
  <2> DEFINE n == [m EXCEPT !.enabled = account[m.target].enabled, !.phase = "commit"]
  <2>1. account[m.target].enabled \in BOOLEAN BY <1>a, <1>b DEF AccountsTyped, AccountRecs
  <2>2. /\ n \in CommandRecs /\ n.actor = m.actor /\ n.target = m.target /\ n.patch = m.patch /\ n.admin = m.admin
        /\ n.delta = m.delta /\ n.touched = m.touched /\ n.phase = "commit" /\ n.enabled = account[m.target].enabled
    BY <1>a, <2>1 DEF CommandRecs, CommandPhases
  <2>3. command' = [command EXCEPT ![c] = n] /\ UNCHANGED <<account, holders, usurped, row, trail, torn, raced, flows, faults>>
    BY <1>2 DEF Reread
  <2>4. command'[c] = n /\ OnlyDesk(c) /\ SameTask(c)
    BY <1>a, <1>b, <2>2, <2>3 DEF AccountsTyped, OnlyDesk, SameTask
  <2>5. AccountsTyped' BY <1>b, <2>2, <2>3 DEF AccountsTyped
  <2>6. AccountsInv' BY <1>a, <1>2, <2>2, <2>3, <2>4, <2>5, GoOnKeeps DEF Live
  <2>7. Shut' BY <1>a, <2>2, <2>3, <2>4, GoOnShuts DEF ClosingPhases
  <2> QED BY <2>6, <2>7
<1> QED BY <1>1, <1>2

LEMMA CommitUpdateKeeps ==
    ASSUME DeskInv, NEW c \in Desks, CommitUpdate(c), UNCHANGED signin
    PROVE  DeskInv'
<1> USE DEF DeskInv
<1> DEFINE m == command[c]
<1>a. m \in CommandRecs /\ m.phase = "commit" /\ m.target \in Users
  BY CommandFacts DEF CommitUpdate, AccountsInv
<1>b. AccountsTyped BY DEF AccountsInv
<1>1. command'[c] = Idle /\ OnlyDesk(c) /\ UNCHANGED <<account, holders, flows, faults, torn, raced, usurped>>
  BY <1>b DEF CommitUpdate, OnlyDesk, AccountsTyped
<1>2. /\ row' = [row EXCEPT ![m.target] = Mirror(c)]
      /\ trail' = [trail EXCEPT ![m.target] = IF m.delta THEN m.admin ELSE trail[m.target]]
  BY DEF CommitUpdate, Record
<1>3. Mirror(c) \in {"active", "disabled"} BY DEF Mirror
<1>4. AccountsTyped'
  <2>1. (IF m.delta THEN m.admin ELSE trail[m.target]) \in BOOLEAN BY <1>a, <1>b DEF AccountsTyped, CommandRecs
  <2>2. trail' \in [Users -> BOOLEAN] BY <1>b, <1>2, <2>1 DEF AccountsTyped
  <2>3. row' \in [Users -> {"absent", "active", "disabled"}] BY <1>b, <1>2, <1>3 DEF AccountsTyped
  <2>4. command' \in [Desks -> CommandRecs \cup {Idle}] BY <1>b DEF AccountsTyped, CommitUpdate
  <2> QED BY <1>1, <1>b, <2>2, <2>3, <2>4 DEF AccountsTyped
<1>5. /\ \A u \in Users : u # m.target => trail'[u] = trail[u] /\ row'[u] = row[u]
      /\ trail'[m.target] = IF m.delta THEN m.admin ELSE trail[m.target]
      /\ row'[m.target] = Mirror(c)
  BY <1>a, <1>b, <1>2 DEF AccountsTyped
<1>6. AccountsInv' BY <1>a, <1>1, <1>4, <1>5, EndKeeps
<1>7. Shut'
  <2>1. m.target \notin raced /\ Closed(m.target) => row'[m.target] = "disabled"
    <3>1. SUFFICES ASSUME m.target \notin raced, Closed(m.target) PROVE row'[m.target] = "disabled" OBVIOUS
    <3>2. MirrorsOf(m) BY <1>a, <3>1 DEF AccountsInv, Mirrored
    <3>3. ~m.enabled BY <1>a, <3>1, <3>2 DEF MirrorsOf, Closed, MayAuthenticate, Live
    <3> QED BY <1>5, <3>3 DEF Mirror
  <2> QED BY <1>a, <1>1, <1>5, <2>1, EndShuts
<1> QED BY <1>6, <1>7

LEMMA CommitCreateKeeps ==
    ASSUME DeskInv, NEW c \in Desks, CommitCreate(c), UNCHANGED signin
    PROVE  DeskInv'
<1> USE DEF DeskInv
<1> DEFINE m == command[c]
<1>a. m \in CommandRecs /\ m.phase = "commit new" /\ m.target \in Users
  BY CommandFacts DEF CommitCreate, AccountsInv
<1>b. AccountsTyped BY DEF AccountsInv
<1>1. command'[c] = Idle /\ OnlyDesk(c) /\ UNCHANGED <<account, holders, flows, faults, torn, raced, usurped>>
  BY <1>b DEF CommitCreate, OnlyDesk, AccountsTyped
<1>2. /\ row' = [row EXCEPT ![m.target] = Upserted(m.target)]
      /\ trail' = [trail EXCEPT ![m.target] = IF m.delta THEN m.admin ELSE trail[m.target]]
  BY DEF CommitCreate, Record
<1>3. Upserted(m.target) \in {"absent", "active", "disabled"} BY <1>a, <1>b DEF Upserted, AccountsTyped
<1>4. AccountsTyped'
  <2>1. (IF m.delta THEN m.admin ELSE trail[m.target]) \in BOOLEAN BY <1>a, <1>b DEF AccountsTyped, CommandRecs
  <2>2. trail' \in [Users -> BOOLEAN] BY <1>b, <1>2, <2>1 DEF AccountsTyped
  <2>3. row' \in [Users -> {"absent", "active", "disabled"}] BY <1>b, <1>2, <1>3 DEF AccountsTyped
  <2>4. command' \in [Desks -> CommandRecs \cup {Idle}] BY <1>b DEF AccountsTyped, CommitCreate
  <2> QED BY <1>1, <1>b, <2>2, <2>3, <2>4 DEF AccountsTyped
<1>5. /\ \A u \in Users : u # m.target => trail'[u] = trail[u] /\ row'[u] = row[u]
      /\ trail'[m.target] = IF m.delta THEN m.admin ELSE trail[m.target]
  BY <1>a, <1>b, <1>2 DEF AccountsTyped
<1>6. AccountsInv' BY <1>a, <1>1, <1>4, <1>5, EndKeeps
<1>7. Shut'
  <2>1. m.target \notin raced => ~Closed(m.target)
    BY <1>a DEF AccountsInv, Mirrored, MirrorsOf, Closed
  <2> QED BY <1>a, <1>1, <1>5, <2>1, EndShuts
<1> QED BY <1>6, <1>7

LEMMA DeleteAccountKeeps ==
    ASSUME DeskInv, NEW c \in Desks, DeleteAccount(c), UNCHANGED signin
    PROVE  DeskInv'
<1> USE DEF DeskInv
<1> DEFINE m == command[c]
<1>a. m \in CommandRecs /\ m.phase = "remove" /\ m.target \in Users
  BY CommandFacts DEF DeleteAccount, AccountsInv
<1>b. AccountsTyped BY DEF AccountsInv
<1>c. ~m.delta /\ m.actor # m.target BY <1>a DEF AccountsInv, InOrder, InOrderOf
<1>1. CASE ~Live(m.target)
  BY <1>1, <1>a, <1>b, GiveUpKeeps DEF DeleteAccount, AccountsTyped
<1>2. CASE Live(m.target)
  <2> DEFINE n == [m EXCEPT !.touched = TRUE, !.phase = "close"]
  <2>1. Gone \in AccountRecs /\ Gone.state = "gone" BY DEF Gone, Never, AccountRecs
  <2>2. /\ n \in CommandRecs /\ n.actor = m.actor /\ n.target = m.target /\ n.patch = m.patch
        /\ n.delta = m.delta /\ n.touched /\ n.phase = "close"
    BY <1>a DEF CommandRecs, CommandPhases
  <2>3. WriteAccount(c, Gone) /\ command' = [command EXCEPT ![c] = n] /\ UNCHANGED <<row, trail, torn, raced, flows, faults>>
    BY <1>2 DEF DeleteAccount
  <2>4. command'[c] = n /\ OnlyDesk(c) /\ SameTask(c)
    BY <1>a, <1>b, <2>2, <2>3 DEF AccountsTyped, OnlyDesk, SameTask
  <2>5. AccountsTyped' BY <1>a, <1>b, <2>1, <2>2, <2>3, WriteTyped DEF AccountsTyped
  <2>6. InOrderOf(n) BY <1>c, <2>2 DEF InOrderOf
  <2>7. AccountsInv' BY <1>c, <2>1, <2>2, <2>3, <2>4, <2>5, <2>6, WriteKeeps
  <2>8. Shut'
    <3>1. n.phase \in ClosingPhases /\ n.touched BY <2>2 DEF ClosingPhases
    <3> QED BY <2>1, <2>3, <2>4, <3>1, WriteShuts
  <2> QED BY <2>7, <2>8
<1> QED BY <1>1, <1>2

LEMMA CloseRowKeeps ==
    ASSUME DeskInv, NEW c \in Desks,
           CloseRow(c, row[command[c].target] = "absent" /\ command[c].target \in SigningIn), UNCHANGED signin
    PROVE  DeskInv'
<1> USE DEF DeskInv
<1> DEFINE m == command[c]
           t == m.target
<1>a. m \in CommandRecs /\ m.phase = "close" /\ t \in Users
  BY CommandFacts DEF CloseRow, AccountsInv
<1>b. AccountsTyped BY DEF AccountsInv
<1>c. ~m.delta BY <1>a DEF AccountsInv, InOrder, InOrderOf
<1>1. command'[c] = Idle /\ OnlyDesk(c) /\ UNCHANGED <<account, trail, holders, flows, faults, torn, usurped>>
  BY <1>b DEF CloseRow, OnlyDesk, AccountsTyped
<1>2. /\ row' = [row EXCEPT ![t] = IF row[t] = "absent" THEN "absent" ELSE "disabled"]
      /\ raced' = IF row[t] = "absent" /\ t \in SigningIn THEN raced \cup {t} ELSE raced
  BY DEF CloseRow
<1>3. AccountsTyped'
  <2>1. row' \in [Users -> {"absent", "active", "disabled"}] BY <1>b, <1>2 DEF AccountsTyped
  <2>2. command' \in [Desks -> CommandRecs \cup {Idle}] BY <1>b DEF AccountsTyped, CloseRow
  <2>3. raced' \subseteq Users BY <1>a, <1>b, <1>2 DEF AccountsTyped
  <2> QED BY <1>1, <1>b, <2>1, <2>2, <2>3 DEF AccountsTyped
<1>4. /\ \A u \in Users : u # t => row'[u] = row[u]
      /\ row'[t] = IF row[t] = "absent" THEN "absent" ELSE "disabled"
      /\ raced \subseteq raced'
  BY <1>a, <1>b, <1>2 DEF AccountsTyped
<1>5. AccountsInv' BY <1>a, <1>c, <1>1, <1>3, <1>4, EndKeeps
<1>6. Shut'
  <2>1. t \notin raced' => row'[t] # "active" /\ (row'[t] = "absent" => t \notin SigningIn)
    BY <1>2, <1>4
  <2> QED BY <1>a, <1>1, <1>4, <2>1, EndShuts
<1> QED BY <1>5, <1>6

LEMMA CommandFailsKeeps ==
    ASSUME DeskInv, NEW c \in Desks, CommandFails(c), UNCHANGED signin
    PROVE  DeskInv'
<1>1. command[c].phase # "idle" /\ AccountsTyped
  BY DEF DeskInv, AccountsInv, AccountsTyped, CommandFails, CommandRecs, CommandPhases
<1>2. faults' \in 0..MaxFaults BY <1>1, AccountsAssumption DEF AccountsTyped, CommandFails
<1> QED BY <1>1, <1>2, GiveUpKeeps DEF CommandFails

LEMMA BeginDeskKeeps ==
    ASSUME DeskInv, NEW c \in Desks, NEW phase \in CommandPhases, NEW actor \in Users, NEW target \in Users,
           NEW patch \in PatchRecs, NEW harm \in BOOLEAN, Begin(c, phase, actor, target, patch, harm),
           phase \in {"create", "roles", "remove"}, UNCHANGED signin,
           phase = "remove" => harm, patch.active = "off" \/ patch.role = "plain" => harm \/ phase = "create"
    PROVE  DeskInv'
<1> USE DEF DeskInv
<1>1. AccountsInv' BY BeginKeeps
<1>2. Shut'
  <2>1. OnlyDesk(c) /\ command[c].phase = "idle" /\ UNCHANGED <<account, row, torn>> /\ raced \subseteq raced'
    BY DEF Begin, AccountsInv, AccountsTyped, OnlyDesk, Idle
  <2> SUFFICES ASSUME NEW u \in Users, u \notin torn, u \notin raced, Closed(u)
               PROVE  ShutFor(u)'
    BY <2>1 DEF Shut, ShutFor, Closed, MayAuthenticate, Live
  <2>2. ShutFor(u) BY DEF Shut, ShutFor
  <2>3. \A d \in Desks : Busy(d, u) => d # c /\ command'[d] = command[d] /\ Busy(d, u)'
    BY <2>1 DEF Busy, OnlyDesk
  <2>4. SigningIn' = SigningIn BY DEF SigningIn
  <2> QED BY <2>1, <2>2, <2>3, <2>4 DEF ShutFor
<1> QED BY <1>1, <1>2

LEMMA AccountsStepKeeps ==
    ASSUME DeskInv, AccountsNext(SigningIn), UNCHANGED signin
    PROVE  DeskInv'
<1>1. ASSUME NEW c \in Desks, NEW actor \in Users, NEW target \in Users, NEW role \in {"admin", "plain"},
             BeginCreate(c, actor, target, role)
      PROVE  DeskInv'
  <2>1. [NoPatch EXCEPT !.role = role] \in PatchRecs BY DEF NoPatch, PatchRecs
  <2>2. "create" \in CommandPhases BY DEF CommandPhases
  <2> QED BY <1>1, <2>1, <2>2, BeginDeskKeeps DEF BeginCreate
<1>2. ASSUME NEW c \in Desks, NEW actor \in Users, NEW target \in Users, NEW patch \in Patches,
             BeginUpdate(c, actor, target, patch)
      PROVE  DeskInv'
  <2>1. patch \in PatchRecs BY AccountsAssumption DEF PatchRecs
  <2>2. "roles" \in CommandPhases BY DEF CommandPhases
  <2> QED BY <1>2, <2>1, <2>2, BeginDeskKeeps DEF BeginUpdate
<1>3. ASSUME NEW c \in Desks, NEW actor \in Users, NEW target \in Users, BeginDelete(c, actor, target)
      PROVE  DeskInv'
  <2>1. NoPatch \in PatchRecs /\ NoPatch.role = "keep" /\ NoPatch.active = "keep" BY DEF NoPatch, PatchRecs
  <2>2. "remove" \in CommandPhases BY DEF CommandPhases
  <2> QED BY <1>3, <2>1, <2>2, BeginDeskKeeps DEF BeginDelete
<1> QED BY <1>1, <1>2, <1>3, CreateAccountKeeps, ReadRolesKeeps, ChangeRoleKeeps, UpdateFieldsKeeps, ResetPasswordKeeps,
           RereadKeeps, CommitUpdateKeeps, CommitCreateKeeps, DeleteAccountKeeps, CloseRowKeeps, CommandFailsKeeps
        DEF AccountsNext

-----------------------------------------------------------------------------
(* What the tab and the link leave of it                                   *)

\* A step of the tab changes no account: it may create the row of the user who signs in.
LEMMA TabKeepsDesks ==
    ASSUME DeskInv, UNCHANGED others, flows' \in 0..MaxFlows, faults' \in 0..MaxFaults,
           row' \in [Users -> {"absent", "active", "disabled"}],
           \A u \in Users : Closed(u) => /\ u \in SigningIn' => u \in SigningIn
                                         /\ row'[u] = row[u] \/ (row[u] = "absent" /\ u \in SigningIn)
    PROVE  DeskInv'
<1> USE DEF DeskInv, others
<1>1. AccountsTyped' BY DEF AccountsInv, AccountsTyped
<1>2. AccountsInv' BY <1>1, LinkWritesKeep
<1>3. Shut'
  <2> SUFFICES ASSUME NEW u \in Users, u \notin torn, u \notin raced, Closed(u)
               PROVE  ShutFor(u)'
    BY DEF Shut, ShutFor, Closed, MayAuthenticate, Live
  <2>1. ShutFor(u) BY DEF Shut, ShutFor
  <2>2. \A d \in Desks : Busy(d, u)' <=> Busy(d, u) BY DEF Busy
  <2> QED BY <2>1, <2>2 DEF ShutFor
<1> QED BY <1>2, <1>3

LEMMA LinkKeepsDesks ==
    ASSUME DeskInv, UNCHANGED <<elsewhere, signin>>, flows' \in 0..MaxFlows, faults' \in 0..MaxFaults,
           account' \in [Users -> AccountRecs],
           \A u \in Users : /\ account'[u].state = account[u].state /\ account'[u].enabled = account[u].enabled
                            /\ account'[u].admin = account[u].admin
                            /\ account'[u] = account[u] \/ account[u].state = "live"
    PROVE  DeskInv'
<1> USE DEF DeskInv, elsewhere
<1>1. AccountsTyped' BY DEF AccountsInv, AccountsTyped
<1>2. AccountsInv' BY <1>1, LinkWritesKeep
<1>3. Shut'
  <2> SUFFICES ASSUME NEW u \in Users, u \notin torn, u \notin raced, Closed(u)
               PROVE  ShutFor(u)'
    BY DEF Shut, ShutFor, Closed, MayAuthenticate, Live
  <2>1. ShutFor(u) BY DEF Shut, ShutFor
  <2>2. \A d \in Desks : Busy(d, u)' <=> Busy(d, u) BY DEF Busy
  <2>3. SigningIn' = SigningIn BY DEF SigningIn
  <2> QED BY <2>1, <2>2, <2>3 DEF ShutFor
<1> QED BY <1>2, <1>3

-----------------------------------------------------------------------------
(* The link and the import                                                 *)

\* What a desk writes to an account links nobody and gives nobody the role.
LEMMA DesksLinkNobody ==
    ASSUME AccountsTyped, LinkedAccounts, Linked, AccountsNext(SigningIn), UNCHANGED cloudVars
    PROVE  LinkedAccounts'
<1> DEFINE Less(a, b) == /\ b.linked => a.linked /\ b.state = "live" /\ (a.reader => b.reader)
                         /\ b.reader => a.reader
<1>1. ASSUME \A u \in Users : account'[u] = account[u] \/ Less(account[u], account'[u])
      PROVE  LinkedAccounts'
  <2>1. UNCHANGED <<linking, consents>> BY DEF cloudVars
  <2>2. linking.phase = "status" \/ linking.outcome = "linked" => linking.starter \in Users
    BY DEF Linked
  <2>3. \A u \in Users : account'[u].linked => account'[u].state = "live" BY <1>1 DEF LinkedAccounts
  <2>4. GrantFollowsConsent' BY <1>1, <2>1 DEF LinkedAccounts, GrantFollowsConsent
  <2> QED BY <1>1, <2>1, <2>2, <2>3, <2>4 DEF LinkedAccounts
<1>2. ASSUME NEW c \in Desks, command[c].phase # "idle", NEW r \in AccountRecs, WriteAccount(c, r),
             Less(account[command[c].target], r)
      PROVE  \A u \in Users : account'[u] = account[u] \/ Less(account[u], account'[u])
  BY <1>2, WriteTyped
<1>3. ASSUME NEW c \in Desks, NEW b, CreateAccount(c) \/ ReadRoles(c) \/ ChangeRole(c) \/ UpdateFields(c) \/ ResetPassword(c)
                \/ Reread(c) \/ CommitUpdate(c) \/ CommitCreate(c) \/ DeleteAccount(c) \/ CloseRow(c, b) \/ CommandFails(c)
      PROVE  \A u \in Users : account'[u] = account[u] \/ Less(account[u], account'[u])
  <2>0. Fresh \in AccountRecs /\ ~Fresh.linked /\ ~Fresh.reader /\ Gone \in AccountRecs /\ ~Gone.linked /\ ~Gone.reader
    BY DEF Fresh, Gone, Never, AccountRecs
  <2>1. CASE CreateAccount(c)
    <3>1. account' = account \/ WriteAccount(c, Fresh) BY <2>1 DEF CreateAccount
    <3>2. command[c].phase # "idle" BY <2>1 DEF CreateAccount
    <3> QED BY <1>2, <2>0, <3>1, <3>2
  <2>2. CASE ChangeRole(c)
    <3> DEFINE a == account[command[c].target]
               r == [a EXCEPT !.admin = command[c].patch.role = "admin"]
    <3>1. account' = account \/ (Live(command[c].target) /\ WriteAccount(c, r)) BY <2>2 DEF ChangeRole
    <3>2. command[c].phase # "idle" BY <2>2 DEF ChangeRole
    <3>3. a \in AccountRecs BY <3>2, CommandFacts DEF AccountsTyped
    <3>4. r \in AccountRecs /\ r.linked = a.linked /\ r.reader = a.reader /\ r.state = a.state BY <3>3 DEF AccountRecs
    <3>5. Live(command[c].target) => Less(a, r) BY <3>4 DEF Live
    <3> HIDE DEF a, r, Less
    <3> QED BY <1>2, <3>1, <3>2, <3>4, <3>5 DEF a
  <2>3. CASE UpdateFields(c)
    <3> DEFINE a == account[command[c].target]
               r == [a EXCEPT !.enabled = (command[c].patch.active = "on")]
    <3>1. account' = account \/ (Live(command[c].target) /\ WriteAccount(c, r)) BY <2>3 DEF UpdateFields
    <3>2. command[c].phase # "idle" BY <2>3 DEF UpdateFields
    <3>3. a \in AccountRecs BY <3>2, CommandFacts DEF AccountsTyped
    <3>4. r \in AccountRecs /\ r.linked = a.linked /\ r.reader = a.reader /\ r.state = a.state BY <3>3 DEF AccountRecs
    <3>5. Live(command[c].target) => Less(a, r) BY <3>4 DEF Live
    <3> HIDE DEF a, r, Less
    <3> QED BY <1>2, <3>1, <3>2, <3>4, <3>5 DEF a
  <2>4. CASE DeleteAccount(c)
    <3>1. account' = account \/ WriteAccount(c, Gone) BY <2>4 DEF DeleteAccount
    <3>2. command[c].phase # "idle" BY <2>4 DEF DeleteAccount
    <3> QED BY <1>2, <2>0, <3>1, <3>2
  <2> QED BY <1>3, <2>1, <2>2, <2>3, <2>4
       DEF ReadRoles, ResetPassword, Reread, CommitUpdate, CommitCreate, CloseRow, CommandFails
<1>4. (\E c \in Desks, actor, target \in Users :
          \/ \E role \in {"admin", "plain"} : BeginCreate(c, actor, target, role)
          \/ \E patch \in Patches : BeginUpdate(c, actor, target, patch)
          \/ BeginDelete(c, actor, target))
      => account' = account
  <2>1. ASSUME NEW c, NEW phase, NEW actor, NEW target, NEW patch, NEW harm, Begin(c, phase, actor, target, patch, harm)
        PROVE  account' = account
    BY <2>1 DEF Begin
  <2> QED BY <2>1 DEF BeginCreate, BeginUpdate, BeginDelete
<1> HIDE DEF Less
<1>5. \A u \in Users : account'[u] = account[u] \/ Less(account[u], account'[u])
  BY <1>3, <1>4 DEF AccountsNext
<1> QED BY <1>1, <1>5

\* Every step of the link leaves roles and states alone and writes to live accounts only.
LEMMA CloudAccounts ==
    ASSUME AccountsTyped, LinksInv, CloudNext
    PROVE  /\ account' \in [Users -> AccountRecs]
           /\ \A u \in Users : /\ account'[u].state = account[u].state /\ account'[u].enabled = account[u].enabled
                               /\ account'[u].admin = account[u].admin
                               /\ account'[u] = account[u] \/ account[u].state = "live"
           /\ UNCHANGED elsewhere /\ flows' \in 0..MaxFlows /\ faults' \in 0..MaxFaults
<1> DEFINE Harmless == /\ account' \in [Users -> AccountRecs]
                       /\ \A u \in Users : /\ account'[u].state = account[u].state /\ account'[u].enabled = account[u].enabled
                                           /\ account'[u].admin = account[u].admin
                                           /\ account'[u] = account[u] \/ account[u].state = "live"
<1>1. ASSUME NEW v \in Users, NEW r \in AccountRecs, account' = [account EXCEPT ![v] = r],
             account[v].state = "live", r.state = "live", r.enabled = account[v].enabled, r.admin = account[v].admin
      PROVE  Harmless
  BY <1>1 DEF AccountsTyped
<1>2. ASSUME account' = account PROVE Harmless BY <1>2 DEF AccountsTyped
<1>3. \A v \in Users : account[v] \in AccountRecs BY DEF AccountsTyped
<1>4. ASSUME NEW v \in Users, LinkAtKeycloak(v) PROVE Harmless
  <2> DEFINE r == [account[v] EXCEPT !.linked = TRUE, !.dead = FALSE]
  <2>1. account' = [account EXCEPT ![v] = r] /\ account[v].state = "live"
    BY <1>4 DEF LinkAtKeycloak, MayAuthenticate, Live
  <2>2. r \in AccountRecs /\ r.state = account[v].state /\ r.enabled = account[v].enabled /\ r.admin = account[v].admin
    BY <1>3 DEF AccountRecs
  <2> HIDE DEF r, Harmless
  <2> QED BY <1>1, <2>1, <2>2
<1>5. ASSUME NEW v \in Users, Unlink(v) PROVE Harmless
  <2> DEFINE r == [account[v] EXCEPT !.linked = FALSE]
  <2>1. account' = [account EXCEPT ![v] = r] /\ account[v].state = "live" BY <1>5 DEF Unlink, Live
  <2>2. r \in AccountRecs /\ r.state = account[v].state /\ r.enabled = account[v].enabled /\ r.admin = account[v].admin
    BY <1>3 DEF AccountRecs
  <2> HIDE DEF r, Harmless
  <2> QED BY <1>1, <2>1, <2>2
<1>6. ASSUME NEW v \in Users, ConsentDies(v) PROVE Harmless
  <2> DEFINE r == [account[v] EXCEPT !.dead = TRUE]
  <2>1. account' = [account EXCEPT ![v] = r] /\ account[v].state = "live" BY <1>6 DEF ConsentDies, Live
  <2>2. r \in AccountRecs /\ r.state = account[v].state /\ r.enabled = account[v].enabled /\ r.admin = account[v].admin
    BY <1>3 DEF AccountRecs
  <2> HIDE DEF r, Harmless
  <2> QED BY <1>1, <2>1, <2>2
<1>7. ASSUME GrantReadToken PROVE Harmless
  <2> DEFINE v == linking.starter
             r == [account[v] EXCEPT !.reader = TRUE]
  <2>1. v \in Users BY <1>7 DEF GrantReadToken, LinksInv, Linked
  <2>2. account' = account \/ (account' = [account EXCEPT ![v] = r] /\ account[v].state = "live")
    BY <1>7 DEF GrantReadToken, AddReader, Live
  <2>3. r \in AccountRecs /\ r.state = account[v].state /\ r.enabled = account[v].enabled /\ r.admin = account[v].admin
    BY <1>3, <2>1 DEF AccountRecs
  <2> HIDE DEF r, v, Harmless
  <2> QED BY <1>1, <1>2, <2>1, <2>2, <2>3
<1>8. Harmless
  <2> HIDE DEF Harmless
  <2>1. ASSUME NEW u \in Users, StartLink(u) \/ LinkAtKeycloak(u) \/ Unlink(u) \/ ConsentDies(u) PROVE Harmless
    BY <1>2, <1>4, <1>5, <1>6, <2>1 DEF StartLink
  <2>2. ASSUME DeclineLink \/ CompleteLink \/ GrantReadToken \/ ReadBack \/ LinkFails PROVE Harmless
    BY <1>2, <1>7, <2>2 DEF DeclineLink, CompleteLink, ReadBack, LinkFails
  <2>3. ASSUME NEW u \in Users, NEW route \in {"list", "import"}, StartImport(u, route) PROVE Harmless
    BY <1>2, <2>3 DEF StartImport
  <2>4. ASSUME Broker \/ ListFiles \/ FetchMetadata \/ OpenDownload \/ ReadChunk \/ FinishImport \/ ImportFails PROVE Harmless
    BY <1>2, <2>4 DEF Broker, ListFiles, FetchMetadata, OpenDownload, ReadChunk, FinishImport, ImportFails
  <2> QED BY <2>1, <2>2, <2>3, <2>4 DEF CloudNext
<1>9. UNCHANGED elsewhere /\ (UNCHANGED flows \/ StartFlow) /\ (UNCHANGED faults \/ Breaks)
  <2> DEFINE Counts == UNCHANGED elsewhere /\ (UNCHANGED flows \/ StartFlow) /\ (UNCHANGED faults \/ Breaks)
  <2>1. ASSUME NEW u \in Users, StartLink(u) \/ LinkAtKeycloak(u) \/ Unlink(u) \/ ConsentDies(u) PROVE Counts
    BY <2>1 DEF StartLink, LinkAtKeycloak, Unlink, ConsentDies
  <2>2. ASSUME DeclineLink \/ CompleteLink \/ GrantReadToken PROVE Counts
    BY <2>2 DEF DeclineLink, CompleteLink, GrantReadToken
  <2>3. ASSUME ReadBack \/ LinkFails PROVE Counts
    BY <2>3 DEF ReadBack, LinkFails
  <2>4. ASSUME NEW u \in Users, NEW route \in {"list", "import"}, StartImport(u, route) PROVE Counts
    BY <2>4 DEF StartImport
  <2>5. ASSUME Broker \/ ListFiles \/ FetchMetadata PROVE Counts
    BY <2>5 DEF Broker, ListFiles, FetchMetadata
  <2>6. ASSUME OpenDownload \/ ReadChunk \/ FinishImport \/ ImportFails PROVE Counts
    BY <2>6 DEF OpenDownload, ReadChunk, FinishImport, ImportFails
  <2> HIDE DEF Counts
  <2>7. Counts BY <2>1, <2>2, <2>3, <2>4, <2>5, <2>6 DEF CloudNext
  <2> QED BY <2>7 DEF Counts
<1>10. flows' \in 0..MaxFlows /\ faults' \in 0..MaxFaults
  BY <1>9, AccountsAssumption DEF StartFlow, Breaks, AccountsTyped
<1> QED BY <1>8, <1>9, <1>10

\* The steps of the linking request.
LEMMA LinkingKeeps ==
    ASSUME AccountsTyped, LinksInv,
           \/ \E u \in Users : StartLink(u) \/ LinkAtKeycloak(u) \/ Unlink(u) \/ ConsentDies(u)
           \/ DeclineLink \/ CompleteLink \/ GrantReadToken \/ ReadBack \/ LinkFails
    PROVE  LinksInv'
<1> USE DEF LinksInv
<1>a. \A v \in Users : account[v] \in AccountRecs BY DEF AccountsTyped
<1>b. import' = import => Fits' BY DEF Fits
<1>1. ASSUME NEW u \in Users, StartLink(u) PROVE LinksInv'
  <2>1. /\ linking' \in LinkRecs /\ linking'.phase = "away" /\ linking'.starter = u /\ linking'.outcome = "none"
        /\ UNCHANGED <<account, import, consents>>
    BY <1>1 DEF StartLink, NoLinking, LinkRecs
  <2>2. Linked' BY <2>1 DEF Linked
  <2>3. LinkedAccounts' BY <2>1 DEF LinkedAccounts, GrantFollowsConsent
  <2> QED BY <1>b, <2>1, <2>2, <2>3
<1>2. ASSUME NEW v \in Users, LinkAtKeycloak(v) PROVE LinksInv'
  <2>1. /\ linking' = [linking EXCEPT !.phase = "back", !.typed = v] /\ linking.phase = "away" /\ UNCHANGED import
        /\ consents' = IF v = linking.starter THEN consents \cup {v} ELSE consents
        /\ account' = [account EXCEPT ![v] = [account[v] EXCEPT !.linked = TRUE, !.dead = FALSE]]
        /\ account[v].state = "live"
    BY <1>2 DEF LinkAtKeycloak, MayAuthenticate, Live
  <2>2. /\ linking' \in LinkRecs /\ linking'.phase = "back" /\ linking'.typed = v /\ linking'.starter = linking.starter
        /\ linking'.outcome = "none"
    BY <2>1 DEF Linked, LinkRecs
  <2>3. /\ account'[v].state = "live" /\ account'[v].reader = account[v].reader
        /\ \A u \in Users : u # v => account'[u] = account[u]
    BY <1>a, <2>1 DEF AccountsTyped, AccountRecs
  <2>4. Linked' BY <2>1, <2>2 DEF Linked
  <2>5. LinkedAccounts' BY <2>1, <2>2, <2>3 DEF LinkedAccounts, GrantFollowsConsent
  <2> QED BY <1>b, <2>1, <2>4, <2>5
<1>3. ASSUME NEW v \in Users, Unlink(v) \/ ConsentDies(v) PROVE LinksInv'
  <2>1. /\ UNCHANGED <<linking, import, consents>> /\ account[v].state = "live"
        /\ \/ account' = [account EXCEPT ![v] = [account[v] EXCEPT !.linked = FALSE]]
           \/ account' = [account EXCEPT ![v] = [account[v] EXCEPT !.dead = TRUE]]
    BY <1>3 DEF Unlink, ConsentDies, Live
  <2>2. /\ account'[v].state = "live" /\ account'[v].reader = account[v].reader
        /\ account'[v].linked => account[v].linked
        /\ \A u \in Users : u # v => account'[u] = account[u]
    BY <1>a, <2>1 DEF AccountsTyped, AccountRecs
  <2>3. Linked' BY <2>1 DEF Linked
  <2>4. linking.phase = "status" \/ linking.outcome = "linked" => linking.starter \in Users BY DEF Linked
  <2>5. LinkedAccounts' BY <2>1, <2>2, <2>4 DEF LinkedAccounts, GrantFollowsConsent
  <2> QED BY <1>b, <2>1, <2>3, <2>5
<1>4. ASSUME NEW outcome \in {"denied", "failed", "server error", "linked"}, End(outcome), UNCHANGED <<account, import, consents>>,
             outcome = "linked" => linking.phase = "status", linking.phase # "none"
      PROVE  LinksInv'
  <2>1. /\ linking' \in LinkRecs /\ linking'.phase = "done" /\ linking'.outcome = outcome /\ linking'.starter = linking.starter
    BY <1>4 DEF Linked, LinkRecs, End
  <2>2. Linked' BY <1>4, <2>1 DEF Linked
  <2>3. LinkedAccounts' BY <1>4, <2>1 DEF LinkedAccounts, GrantFollowsConsent
  <2> QED BY <1>b, <1>4, <2>2, <2>3
<1>5. ASSUME DeclineLink \/ LinkFails \/ ReadBack PROVE LinksInv'
  BY <1>4, <1>5 DEF DeclineLink, LinkFails, ReadBack
<1>6. ASSUME CompleteLink PROVE LinksInv'
  <2>1. CASE SameUser
    <3>1. /\ linking' = [linking EXCEPT !.phase = "grant"] /\ linking.phase = "back" /\ UNCHANGED <<account, import, consents>>
      BY <1>6, <2>1 DEF CompleteLink
    <3>2. /\ linking' \in LinkRecs /\ linking'.phase = "grant" /\ linking'.outcome = "none" /\ linking'.starter = linking.starter
      BY <3>1 DEF Linked, LinkRecs
    <3>3. Linked' BY <2>1, <3>1, <3>2 DEF Linked, SameUser
    <3>4. LinkedAccounts' BY <3>1, <3>2 DEF LinkedAccounts, GrantFollowsConsent
    <3> QED BY <1>b, <3>1, <3>3, <3>4
  <2>2. CASE ~SameUser BY <1>4, <1>6, <2>2 DEF CompleteLink
  <2> QED BY <2>1, <2>2
<1>7. ASSUME GrantReadToken PROVE LinksInv'
  <2> DEFINE v == linking.starter
  <2>1. v \in Users /\ v \in consents /\ linking.phase = "grant" BY <1>7 DEF GrantReadToken, Linked
  <2>2. CASE Live(v)
    <3>1. /\ linking' = [linking EXCEPT !.phase = "status"] /\ UNCHANGED <<import, consents>>
          /\ account' = [account EXCEPT ![v] = [account[v] EXCEPT !.reader = TRUE]]
      BY <1>7, <2>2 DEF GrantReadToken, AddReader
    <3>2. /\ linking' \in LinkRecs /\ linking'.phase = "status" /\ linking'.outcome = "none" /\ linking'.starter = v
      BY <2>1, <3>1 DEF Linked, LinkRecs
    <3>3. /\ account'[v].state = "live" /\ account'[v].reader /\ \A u \in Users : u # v => account'[u] = account[u]
      BY <1>a, <2>1, <2>2, <3>1 DEF AccountsTyped, AccountRecs, Live
    <3>4. Linked' BY <2>1, <3>1, <3>2 DEF Linked
    <3>5. LinkedAccounts' BY <2>1, <3>1, <3>2, <3>3 DEF LinkedAccounts, GrantFollowsConsent
    <3> QED BY <1>b, <3>1, <3>4, <3>5
  <2>3. CASE ~Live(v) BY <1>4, <1>7, <2>1, <2>3 DEF GrantReadToken
  <2> QED BY <2>2, <2>3
<1> QED BY <1>1, <1>2, <1>3, <1>5, <1>6, <1>7

\* The steps of an import.
LEMMA ImportKeeps ==
    ASSUME AccountsTyped, LinksInv,
           \/ \E u \in Users, route \in {"list", "import"} : StartImport(u, route)
           \/ Broker \/ ListFiles \/ FetchMetadata \/ OpenDownload \/ ReadChunk \/ FinishImport \/ ImportFails
    PROVE  LinksInv'
<1> USE DEF LinksInv
<1>a. import \in ImportRecs /\ import.read \in Nat /\ import.size \in Nat BY DEF Fits, ImportRecs
<1>1. UNCHANGED <<account, linking, consents>>
  <2>1. CASE \E u \in Users, route \in {"list", "import"} : StartImport(u, route) BY <2>1 DEF StartImport
  <2>2. CASE Broker \/ ListFiles \/ FetchMetadata BY <2>2 DEF Broker, ListFiles, FetchMetadata
  <2>3. CASE OpenDownload \/ ReadChunk \/ FinishImport \/ ImportFails
    BY <2>3 DEF OpenDownload, ReadChunk, FinishImport, ImportFails
  <2> QED BY <2>1, <2>2, <2>3
<1>2. Linked' /\ LinkedAccounts' BY <1>1 DEF Linked, LinkedAccounts, GrantFollowsConsent
<1>3. ASSUME NEW status \in Nat, Answer(status) PROVE Fits'
  <2>1. /\ import' \in ImportRecs /\ import'.phase = "done" /\ import'.read = import.read
    BY <1>3, <1>a DEF Answer, ImportRecs
  <2> QED BY <2>1 DEF Fits
<1>4. ASSUME NEW u \in Users, NEW route \in {"list", "import"}, StartImport(u, route) PROVE Fits'
  <2>1. /\ import' \in ImportRecs /\ import'.phase = "broker" /\ import'.read = 0
    BY <1>4 DEF StartImport, NoImport, ImportRecs
  <2> QED BY <2>1, CloudAssumption DEF Fits
<1>5. ASSUME NEW phase \in {"metadata", "open"}, import' = [import EXCEPT !.phase = phase] PROVE Fits'
  <2>1. /\ import' \in ImportRecs /\ import'.phase = phase /\ import'.read = import.read
    BY <1>5, <1>a DEF ImportRecs
  <2> QED BY <2>1 DEF Fits
<1>6. ASSUME OpenDownload PROVE Fits'
  <2>1. PICK size \in 0..MaxBytes + 1 : import' = [import EXCEPT !.phase = "stream", !.open = TRUE, !.size = size]
    BY <1>6 DEF OpenDownload
  <2>2. import' \in ImportRecs /\ import'.read = import.read /\ import'.size = size
    <3>1. size \in Nat BY CloudAssumption
    <3> QED BY <1>a, <2>1, <3>1 DEF ImportRecs
  <2>3. size <= MaxBytes + 1 BY CloudAssumption
  <2> QED BY <2>2, <2>3 DEF Fits
<1>7. ASSUME ReadChunk, WithinLimit PROVE Fits'
  <2>1. import' = [import EXCEPT !.read = import.read + 1] BY <1>7 DEF ReadChunk
  <2>2. import' \in ImportRecs /\ import'.read = import.read + 1 /\ import'.size = import.size /\ import'.phase = import.phase
    BY <1>a, <2>1 DEF ImportRecs
  <2> QED BY <1>7, <2>2 DEF Fits, WithinLimit
<1>8. Fits' BY <1>3, <1>4, <1>5, <1>6, <1>7
      DEF Broker, ListFiles, FetchMetadata, ReadChunk, FinishImport, ImportFails
<1> QED BY <1>2, <1>8

LEMMA CloudKeepsLinks == ASSUME AccountsTyped, LinksInv, CloudNext PROVE LinksInv'
BY LinkingKeeps, ImportKeeps DEF CloudNext

-----------------------------------------------------------------------------
(* The tab                                                                 *)

LEMMA TabUnchanged == ASSUME SessionInv, UNCHANGED tabVars PROVE SessionInv'
<1> USE DEF SessionInv, tabVars
<1>1. TabTyped' BY DEF TabTyped, Sid
<1>2. OneAtATime' BY DEF OneAtATime
<1>3. Owned' BY DEF Owned
<1>4. SessionIsHonest' BY DEF SessionIsHonest, ActsAsShown, EndsForCause
<1> QED BY <1>1, <1>2, <1>3, <1>4

\* What the records of the exchanges are before and between them.
LEMMA Defaults ==
    /\ NoSignin \in SigninRecs /\ NoSignout \in SignoutRecs /\ NoRefresh \in RefreshRecs /\ NoCall \in CallRecs
    /\ NoSignin.phase = "none" /\ NoSignout.phase = "none" /\ NoRefresh.phase = "none" /\ NoCall.phase = "none"
BY DEF NoSignin, NoSignout, NoRefresh, NoCall, SigninRecs, SignoutRecs, RefreshRecs, CallRecs, Places

LEMMA CookieFacts ==
    ASSUME TabTyped
    PROVE  session.users \in Seq(Users) /\ Len(session.users) \in Nat /\ cookie \in Nat
<1>1. session.users \in Seq(Users) BY DEF TabTyped
<1>2. Len(session.users) \in Nat BY <1>1
<1> QED BY <1>1, <1>2 DEF TabTyped

\* A session that is ended, and the record it leaves.
LEMMA EndedTab ==
    ASSUME tab \in TabRecs, NEW cause \in {"refused", "signed out"}, EndsForCause
    PROVE  LET to == EndedBy(cause) IN
           /\ to \in TabRecs /\ to.phase = "anonymous" /\ to.token = NoOne /\ to.crossed = tab.crossed
           /\ cause = "refused" /\ to.expired => to.last = "refused"
           /\ to.last # "wrong password"
BY DEF EndedBy, ClearSession, TabRecs, Places, EndsForCause

LEMMA SendRefreshKeeps == ASSUME SessionInv, SendRefresh PROVE SessionInv'
<1> USE DEF SessionInv
<1>1. /\ refresh.phase = "asked" /\ refresh' = [refresh EXCEPT !.phase = "sent", !.sid = cookie]
      /\ UNCHANGED <<tab, cookie, session, signin, signout, call>>
  BY DEF SendRefresh
<1>2. refresh' \in RefreshRecs /\ refresh'.phase = "sent" /\ refresh'.sid = cookie /\ refresh'.boot = refresh.boot
  BY <1>1, CookieFacts DEF TabTyped, RefreshRecs
<1>3. TabTyped' BY <1>1, <1>2 DEF TabTyped, Sid
<1>4. OneAtATime' BY <1>1, <1>2 DEF OneAtATime
<1>5. Owned' BY <1>1, <1>2 DEF Owned
<1>6. SessionIsHonest' BY <1>1 DEF SessionIsHonest, ActsAsShown, EndsForCause
<1> QED BY <1>3, <1>4, <1>5, <1>6

LEMMA RefreshAnswered == ASSUME SessionInv, HandleRefresh \/ RefreshUnavailable PROVE SessionInv'
<1> USE DEF SessionInv
<1>1. /\ refresh.phase \in {"sent", "granted"} /\ UNCHANGED <<tab, cookie, session, signin, signout, call>>
      /\ refresh' \in RefreshRecs /\ refresh'.phase \in {"granted", "denied"}
      /\ refresh'.sid = refresh.sid /\ refresh'.boot = refresh.boot
      /\ refresh'.phase = "granted" => refresh.sid \in session.live
  <2>1. refresh \in RefreshRecs BY DEF TabTyped
  <2>2. CASE HandleRefresh BY <2>1, <2>2 DEF HandleRefresh, RefreshRecs
  <2>3. CASE RefreshUnavailable BY <2>1, <2>3 DEF RefreshUnavailable, RefreshRecs
  <2> QED BY <2>2, <2>3
<1>2. TabTyped' BY <1>1 DEF TabTyped, Sid
<1>3. OneAtATime' BY <1>1 DEF OneAtATime
<1>4. Owned' BY <1>1 DEF Owned
<1>5. SessionIsHonest' BY <1>1 DEF SessionIsHonest, ActsAsShown, EndsForCause
<1> QED BY <1>2, <1>3, <1>4, <1>5

LEMMA RefreshArrivesKeeps == ASSUME SessionInv, RefreshArrives PROVE SessionInv'
<1> USE DEF SessionInv
<1>1. /\ refresh' = NoRefresh /\ refresh'.phase = "none" /\ refresh' \in RefreshRecs /\ refresh'.boot = FALSE
      /\ UNCHANGED <<session, signout, call>>
  BY Defaults DEF RefreshArrives, NoRefresh
<1>2. CASE refresh.phase = "granted"
  <2> DEFINE user == session.users[refresh.sid]
  <2>1. user \in Users /\ refresh.sid \in 1..Len(session.users) BY <1>2 DEF TabTyped, Sid
  <2>2. /\ cookie' = refresh.sid /\ tab' = [tab EXCEPT !.token = user, !.stale = FALSE]
        /\ signin' = IF refresh.boot THEN [NoSignin EXCEPT !.phase = "profile", !.user = user] ELSE signin
    BY <1>2 DEF RefreshArrives, Take
  <2>3. /\ tab' \in TabRecs /\ tab'.token = user /\ tab'.phase = tab.phase /\ tab'.user = tab.user
        /\ tab'.crossed = tab.crossed /\ tab'.expired = tab.expired /\ tab'.last = tab.last
    BY <2>1, <2>2 DEF TabTyped, TabRecs, Places
  <2>4. CASE refresh.boot
    <3>1. signin' \in SigninRecs /\ signin'.phase = "profile" /\ signin'.user = user
      BY <2>1, <2>2, <2>4, Defaults DEF SigninRecs, NoSignin, Places
    <3>2. tab.phase = "starting" BY <1>2, <2>4 DEF OneAtATime
    <3>3. TabTyped' BY <1>1, <2>1, <2>2, <2>3, <3>1 DEF TabTyped, Sid
    <3>4. OneAtATime' BY <1>1, <2>3, <3>1, <3>2 DEF OneAtATime
    <3>5. Owned' BY <1>1, <2>1, <2>2, <2>3, <3>1, <3>2 DEF Owned, OneAtATime
    <3>6. SessionIsHonest' BY <2>3, <3>1, <3>2 DEF SessionIsHonest, ActsAsShown, EndsForCause
    <3> QED BY <3>3, <3>4, <3>5, <3>6
  <2>5. CASE ~refresh.boot
    <3>1. signin' = signin BY <2>2, <2>5
    <3>2. TabTyped' BY <1>1, <2>1, <2>2, <2>3, <3>1 DEF TabTyped, Sid
    <3>3. OneAtATime' BY <1>1, <1>2, <2>3, <2>5, <3>1 DEF OneAtATime
    <3>4. Owned' BY <1>1, <1>2, <2>1, <2>2, <2>3, <2>5, <3>1 DEF Owned
    <3>5. ~tab.crossed => tab.phase = "authenticated" /\ user = tab.user
      <4>1. refresh.sid # 0 BY <2>1
      <4> QED BY <1>2, <2>5, <4>1 DEF Owned
    <3>6. ActsAsShown'
      <4> HIDE DEF user
      <4> QED BY <2>3, <3>5 DEF ActsAsShown
    <3>7. EndsForCause' BY <2>3 DEF SessionIsHonest, EndsForCause
    <3> QED BY <3>2, <3>3, <3>4, <3>6, <3>7 DEF SessionIsHonest
  <2> QED BY <2>4, <2>5
<1>3. CASE refresh.phase = "denied"
  <2>1. /\ cookie' \in {0, cookie} /\ signin' = signin
        /\ tab' = IF refresh.boot THEN [tab EXCEPT !.phase = "anonymous"] ELSE EndedBy("refused")
    BY <1>3 DEF RefreshArrives
  <2>2. /\ tab' \in TabRecs /\ tab'.phase = "anonymous" /\ tab'.crossed = tab.crossed
        /\ refresh.boot => tab'.token = tab.token /\ tab'.expired = tab.expired /\ tab'.last = tab.last
        /\ ~refresh.boot => tab'.token = NoOne /\ (tab'.expired => tab'.last = "refused") /\ tab'.last # "wrong password"
    <3>1. CASE refresh.boot BY <2>1, <3>1 DEF TabTyped, TabRecs
    <3>2. CASE ~refresh.boot BY <2>1, <3>2, EndedTab DEF TabTyped, SessionIsHonest
    <3> QED BY <3>1, <3>2
  <2>3. TabTyped'
    <3>1. cookie' \in 0..Len(session.users) BY <2>1, CookieFacts DEF TabTyped
    <3> QED BY <1>1, <2>1, <2>2, <3>1 DEF TabTyped, Sid
  <2>4. OneAtATime' BY <1>1, <1>3, <2>1, <2>2 DEF OneAtATime
  <2>5. Owned' BY <1>1, <1>3, <2>1, <2>2 DEF Owned, OneAtATime
  <2>6. SessionIsHonest' BY <1>3, <2>1, <2>2 DEF SessionIsHonest, ActsAsShown, EndsForCause, Owned, OneAtATime
  <2> QED BY <2>3, <2>4, <2>5, <2>6
<1> QED BY <1>2, <1>3 DEF RefreshArrives

LEMMA SignInKeeps == ASSUME SessionInv, NEW u \in Users, SignIn(u) PROVE SessionInv'
<1> USE DEF SessionInv
<1>1. /\ tab.phase = "anonymous" /\ signin = NoSignin /\ signout = NoSignout
      /\ signin' \in SigninRecs /\ signin'.phase = "sent" /\ signin'.user = u
      /\ UNCHANGED <<tab, cookie, session, signout, refresh, call>>
  BY DEF SignIn, SigninRecs, Places
<1>2. TabTyped' BY <1>1 DEF TabTyped, Sid
<1>3. OneAtATime' BY <1>1 DEF OneAtATime
<1>4. Owned' BY <1>1 DEF Owned
<1>5. SessionIsHonest' BY <1>1, Defaults DEF SessionIsHonest, ActsAsShown, EndsForCause
<1> QED BY <1>2, <1>3, <1>4, <1>5

\* A sign-in that is dropped, or goes on before its answer.
LEMMA SignInGoesOn ==
    ASSUME SessionInv, signin.phase \in {"sent", "granted", "committed"}, signin' \in SigninRecs,
           signin'.phase = "none" \/ (/\ signin'.phase \in {"granted", "committed"}
                                     /\ signin'.user = signin.user /\ signin'.sid = signin.sid
                                     /\ Sid(signin.sid) /\ session.users[signin.sid] = signin.user),
           UNCHANGED <<tab, cookie, session, signout, refresh, call>>
    PROVE  SessionInv'
<1> USE DEF SessionInv
<1>1. TabTyped' BY DEF TabTyped, Sid
<1>2. OneAtATime' BY DEF OneAtATime
<1>3. Owned' BY DEF Owned, OneAtATime
<1>4. SessionIsHonest' BY DEF SessionIsHonest, ActsAsShown, EndsForCause
<1> QED BY <1>1, <1>2, <1>3, <1>4

LEMMA PasswordGrantKeeps == ASSUME SessionInv, PasswordGrant PROVE SessionInv'
<1> USE DEF SessionInv
<1>1. CASE MayAuthenticate(signin.user)
  <2> DEFINE n == Len(session.users)
  <2>1. /\ signin.phase = "sent" /\ signin' = [signin EXCEPT !.phase = "granted", !.sid = n + 1]
        /\ session' = [users |-> Append(session.users, signin.user), live |-> session.live \cup {n + 1}]
        /\ UNCHANGED <<tab, cookie, signout, refresh, call>>
    BY <1>1 DEF PasswordGrant
  <2>2. n \in Nat /\ signin.user \in Users /\ session.users \in Seq(Users) BY <2>1 DEF TabTyped
  <2>3. signin' \in SigninRecs /\ signin'.phase = "granted" /\ signin'.user = signin.user /\ signin'.sid = n + 1
    <3>1. n + 1 \in Nat BY <2>2
    <3> HIDE DEF n
    <3> QED BY <2>1, <3>1 DEF TabTyped, SigninRecs
  <2>4. /\ session'.users \in Seq(Users) /\ Len(session'.users) = n + 1 /\ session'.users[n + 1] = signin.user
        /\ \A i \in 1..n : session'.users[i] = session.users[i]
    BY <2>1, <2>2
  <2>5. /\ session' \in [users : Seq(Users), live : SUBSET Nat] /\ session'.live \subseteq 1..(n + 1)
    <3>1. session.live \subseteq 1..n BY DEF TabTyped
    <3>2. session'.live = session.live \cup {n + 1} BY <2>1
    <3> QED BY <2>1, <2>2, <2>4, <3>1, <3>2
  <2>6. TabTyped'
    <3>1. cookie \in 0..n + 1 BY <2>2 DEF TabTyped
    <3>2. refresh.phase = "granted" => refresh.sid \in 1..n + 1 BY <2>2 DEF TabTyped, Sid
    <3>3. refresh.phase = "sent" => refresh.sid \in 0..n + 1 BY <2>2 DEF TabTyped
    <3> QED BY <2>1, <2>2, <2>3, <2>4, <2>5, <3>1, <3>2, <3>3 DEF TabTyped, Sid
  <2>7. OneAtATime' BY <2>1, <2>3 DEF OneAtATime
  <2>8. Owned'
    <3>1. cookie # 0 => session'.users[cookie] = session.users[cookie] BY <2>2, <2>4 DEF TabTyped
    <3>2. refresh.phase \in {"sent", "granted"} /\ refresh.sid # 0 => session'.users[refresh.sid] = session.users[refresh.sid]
      BY <2>2, <2>4 DEF TabTyped, Sid
    <3> QED BY <2>1, <2>3, <3>1, <3>2 DEF Owned, OneAtATime
  <2>9. SessionIsHonest' BY <2>1, <2>3 DEF SessionIsHonest, ActsAsShown, EndsForCause
  <2> QED BY <2>6, <2>7, <2>8, <2>9
<1>2. CASE ~MayAuthenticate(signin.user)
  BY <1>2, Defaults, SignInGoesOn DEF PasswordGrant
<1> QED BY <1>1, <1>2

LEMMA LoginCommitsKeeps == ASSUME SessionInv, LoginCommits PROVE SessionInv'
<1>1. /\ signin.phase = "granted" /\ signin' = [signin EXCEPT !.phase = "committed"]
      /\ UNCHANGED <<tab, cookie, session, signout, refresh, call>>
  BY DEF LoginCommits
<1>2. signin' \in SigninRecs /\ signin'.phase = "committed" /\ signin'.user = signin.user /\ signin'.sid = signin.sid
  BY <1>1 DEF SessionInv, TabTyped, SigninRecs
<1>3. Sid(signin.sid) /\ session.users[signin.sid] = signin.user BY <1>1 DEF SessionInv, TabTyped
<1> QED BY <1>1, <1>2, <1>3, SignInGoesOn

LEMMA SignInFailsKeeps == ASSUME SessionInv, SignInFails PROVE SessionInv'
BY Defaults, SignInGoesOn DEF SignInFails

LEMMA SignInArrivesKeeps == ASSUME SessionInv, SignInArrives PROVE SessionInv'
<1> USE DEF SessionInv
<1>1. /\ signin.phase = "committed" /\ cookie' = signin.sid /\ signin' = [signin EXCEPT !.phase = "profile"]
      /\ tab' = [[tab EXCEPT !.token = signin.user, !.stale = FALSE] EXCEPT !.crossed = (tab.crossed \/ Crossing)]
      /\ UNCHANGED <<session, signout, refresh, call>>
  BY DEF SignInArrives, Take
<1>2. Sid(signin.sid) /\ session.users[signin.sid] = signin.user /\ signin.user \in Users BY <1>1 DEF TabTyped
<1>3. signin' \in SigninRecs /\ signin'.phase = "profile" /\ signin'.user = signin.user BY <1>1 DEF TabTyped, SigninRecs
<1>4. /\ tab' \in TabRecs /\ tab'.token = signin.user /\ tab'.phase = tab.phase /\ tab'.user = tab.user
      /\ tab'.expired = tab.expired /\ tab'.last = tab.last /\ tab'.crossed = (tab.crossed \/ Crossing)
  <2>1. Crossing \in BOOLEAN BY DEF Crossing
  <2> QED BY <1>1, <1>2, <2>1 DEF TabTyped, TabRecs, Places
<1>5. tab.phase = "anonymous" BY <1>1 DEF OneAtATime, TabTyped, TabRecs
<1>6. TabTyped' BY <1>1, <1>2, <1>3, <1>4 DEF TabTyped, Sid
<1>7. OneAtATime' BY <1>1, <1>3, <1>4, <1>5 DEF OneAtATime
<1>8. Owned'
  <2> SUFFICES ASSUME ~tab.crossed, ~Crossing
               PROVE  /\ ~(refresh.phase # "none" /\ ~refresh.boot)
                      /\ refresh.phase = "none" /\ call = NoCall /\ cookie' # 0 /\ tab'.token = session.users[cookie']
    BY <1>1, <1>3, <1>4, <1>5 DEF Owned
  <2>1. refresh.phase = "none" /\ call = NoCall BY <1>5 DEF Crossing, OneAtATime
  <2> QED BY <1>1, <1>2, <1>4, <2>1 DEF Sid
<1>9. SessionIsHonest' BY <1>3, <1>4, <1>5 DEF SessionIsHonest, ActsAsShown, EndsForCause
<1> QED BY <1>6, <1>7, <1>8, <1>9

LEMMA AdoptKeeps == ASSUME SessionInv, Adopt PROVE SessionInv'
<1> USE DEF SessionInv
<1> DEFINE status == StatusFor(tab.token)
<1>1. /\ signin.phase = "profile" /\ signin' = NoSignin /\ UNCHANGED <<cookie, session, signout, refresh, call>>
      /\ signin' \in SigninRecs /\ signin'.phase = "none"
  BY Defaults DEF Adopt
<1>2. refresh.phase = "none" \/ ~refresh.boot BY <1>1 DEF OneAtATime
<1>3. CASE status = 200
  <2>1. tab' = [tab EXCEPT !.established = TRUE, !.user = tab.token, !.expired = FALSE,
                           !.phase = "authenticated", !.last = "none"]
    BY <1>3 DEF Adopt
  <2>2. /\ tab' \in TabRecs /\ tab'.phase = "authenticated" /\ tab'.user = tab.token /\ tab'.token = tab.token
        /\ tab'.crossed = tab.crossed /\ ~tab'.expired /\ tab'.last = "none"
    BY <2>1 DEF TabTyped, TabRecs
  <2>3. TabTyped' BY <1>1, <2>2 DEF TabTyped, Sid
  <2>4. OneAtATime' BY <1>1, <1>2, <2>2 DEF OneAtATime
  <2>5. Owned' BY <1>1, <2>2 DEF Owned
  <2>6. SessionIsHonest' BY <2>2 DEF SessionIsHonest, ActsAsShown, EndsForCause
  <2> QED BY <2>3, <2>4, <2>5, <2>6
<1>4. CASE status # 200
  <2> DEFINE from == IF status = 401 THEN EndedBy("refused") ELSE tab
  <2>1. from \in TabRecs /\ from.crossed = tab.crossed /\ (from.expired => from.last = "refused") /\ from.last # "wrong password"
    <3>1. CASE status = 401 BY <3>1, EndedTab DEF TabTyped, SessionIsHonest
    <3>2. CASE status # 401 BY <3>2 DEF TabTyped, SessionIsHonest, EndsForCause
    <3> QED BY <3>1, <3>2
  <2>2. tab' = [from EXCEPT !.token = NoOne, !.phase = "anonymous"] BY <1>4 DEF Adopt
  <2>3. /\ tab' \in TabRecs /\ tab'.phase = "anonymous" /\ tab'.token = NoOne /\ tab'.crossed = tab.crossed
        /\ tab'.expired = from.expired /\ tab'.last = from.last
    <3> HIDE DEF from
    <3> QED BY <2>1, <2>2 DEF TabRecs, Places
  <2> HIDE DEF from
  <2>4. TabTyped' BY <1>1, <2>3 DEF TabTyped, Sid
  <2>5. OneAtATime' BY <1>1, <1>2, <2>3 DEF OneAtATime
  <2>6. Owned' BY <1>1, <2>3 DEF Owned
  <2>7. SessionIsHonest' BY <2>1, <2>3 DEF SessionIsHonest, ActsAsShown, EndsForCause
  <2> QED BY <2>4, <2>5, <2>6, <2>7
<1> QED BY <1>3, <1>4

LEMMA SignOutKeeps == ASSUME SessionInv, SignOut PROVE SessionInv'
<1> USE DEF SessionInv
<1>1. /\ tab.phase = "authenticated" /\ signout' = [phase |-> "sent", sid |-> cookie]
      /\ UNCHANGED <<tab, cookie, session, signin, refresh, call>>
  BY DEF SignOut
<1>2. signout' \in SignoutRecs BY <1>1, CookieFacts DEF SignoutRecs
<1>3. TabTyped' BY <1>1, <1>2 DEF TabTyped, Sid
<1>4. OneAtATime' BY <1>1 DEF OneAtATime
<1>5. Owned' BY <1>1 DEF Owned
<1>6. SessionIsHonest' BY <1>1 DEF SessionIsHonest, ActsAsShown, EndsForCause
<1> QED BY <1>3, <1>4, <1>5, <1>6

LEMMA LogoutAnswered == ASSUME SessionInv, HandleLogout \/ LogoutUnavailable PROVE SessionInv'
<1> USE DEF SessionInv
<1>1. /\ signout.phase = "sent" /\ signout' = [signout EXCEPT !.phase = "answered"]
      /\ session' = session \/ session' = [session EXCEPT !.live = session.live \ {signout.sid}]
      /\ UNCHANGED <<tab, cookie, signin, refresh, call>>
  BY DEF HandleLogout, LogoutUnavailable
<1>2. signout # NoSignout BY <1>1, Defaults
<1>3. signout' \in SignoutRecs BY <1>1 DEF TabTyped, SignoutRecs
<1>4. /\ session' \in [users : Seq(Users), live : SUBSET Nat] /\ session'.users = session.users
      /\ session'.live \subseteq session.live
  BY <1>1 DEF TabTyped
<1>5. TabTyped' BY <1>1, <1>3, <1>4 DEF TabTyped, Sid
<1>6. OneAtATime' BY <1>1, <1>2 DEF OneAtATime
<1>7. Owned' BY <1>1, <1>4 DEF Owned
<1>8. SessionIsHonest' BY <1>1 DEF SessionIsHonest, ActsAsShown, EndsForCause
<1> QED BY <1>5, <1>6, <1>7, <1>8

LEMMA SignedOutKeeps == ASSUME SessionInv, SignedOut PROVE SessionInv'
<1> USE DEF SessionInv
<1>1. /\ signout.phase = "answered" /\ cookie' = 0 /\ signout' = NoSignout
      /\ UNCHANGED <<session, signin, refresh, call>>
  BY DEF SignedOut
<1>2. signout # NoSignout BY <1>1, Defaults
<1>3. /\ tab' \in TabRecs /\ tab'.phase = "anonymous" /\ tab'.token = NoOne /\ ~tab'.expired
      /\ tab'.last = "signed out" /\ tab'.crossed = (tab.crossed \/ Crossing)
  <2>1. Crossing \in BOOLEAN BY DEF Crossing
  <2>2. tab' = [ClearSession(tab, FALSE, "signed out") EXCEPT !.crossed = (tab.crossed \/ Crossing)] BY DEF SignedOut
  <2> QED BY <2>1, <2>2 DEF TabTyped, TabRecs, Places, ClearSession
<1>4. TabTyped'
  <2>1. cookie' \in 0..Len(session.users) BY <1>1, CookieFacts
  <2> QED BY <1>1, <1>3, <2>1, Defaults DEF TabTyped, Sid
<1>5. signin.phase = "none" /\ tab.phase # "starting" BY <1>2 DEF OneAtATime
<1>6. OneAtATime' BY <1>1, <1>3, <1>5 DEF OneAtATime
<1>7. Owned' BY <1>1, <1>3, <1>5 DEF Owned, Crossing
<1>8. SessionIsHonest' BY <1>3 DEF SessionIsHonest, ActsAsShown, EndsForCause
<1> QED BY <1>4, <1>6, <1>7, <1>8

\* An ordinary request, while no renewal waits for it.
LEMMA CallGoesOn ==
    ASSUME SessionInv, tab.phase # "starting" \/ call' = NoCall, call' \in CallRecs,
           signin.phase = "profile" /\ ~tab.crossed => call' = NoCall,
           refresh.phase = "none" \/ refresh.boot \/ call'.phase = "renewing",
           UNCHANGED <<tab, cookie, session, signin, signout, refresh>>
    PROVE  SessionInv'
<1> USE DEF SessionInv
<1>1. TabTyped' BY DEF TabTyped, Sid
<1>2. OneAtATime' BY DEF OneAtATime
<1>3. Owned' BY DEF Owned
<1>4. SessionIsHonest' BY DEF SessionIsHonest, ActsAsShown, EndsForCause
<1> QED BY <1>1, <1>2, <1>3, <1>4

LEMMA StartCallKeeps == ASSUME SessionInv, NEW path \in {"ordinary", "change-password"}, StartCall(path) PROVE SessionInv'
<1>1. /\ tab.phase = "authenticated" /\ call = NoCall /\ call' = [NoCall EXCEPT !.phase = "waiting", !.path = path]
      /\ UNCHANGED <<tab, cookie, session, signin, signout, refresh>>
  BY DEF StartCall
<1>2. call' \in CallRecs BY <1>1, Defaults DEF CallRecs
<1>3. signin.phase = "none" /\ (refresh.phase = "none" \/ refresh.boot)
  BY <1>1, Defaults DEF SessionInv, OneAtATime
<1> QED BY <1>1, <1>2, <1>3, CallGoesOn

LEMMA SendCallKeeps == ASSUME SessionInv, SendCall PROVE SessionInv'
<1>1. /\ call' = [call EXCEPT !.phase = "sent", !.token = tab.token] /\ UNCHANGED <<tab, cookie, session, signin, signout, refresh>>
      /\ call.phase = "waiting" \/ (call.phase = "renewing" /\ refresh = NoRefresh)
  BY DEF SendCall
<1>2. call' \in CallRecs BY <1>1 DEF SessionInv, TabTyped, CallRecs, TabRecs
<1>3. call # NoCall BY <1>1, Defaults
<1>4. tab.phase # "starting" BY <1>3 DEF SessionInv, OneAtATime
<1>5. signin.phase = "profile" => tab.crossed BY <1>3 DEF SessionInv, Owned
<1>6. refresh.phase = "none" \/ refresh.boot BY <1>1, Defaults DEF SessionInv, OneAtATime
<1> QED BY <1>1, <1>2, <1>4, <1>5, <1>6, CallGoesOn

LEMMA CallAnswered == ASSUME SessionInv, HandleCall \/ CallTooLate PROVE SessionInv'
<1>1. PICK status \in Nat : call' = [call EXCEPT !.phase = "answered", !.status = status]
  <2>1. StatusFor(call.token) \in {200, 401, 403} BY DEF StatusFor
  <2>2. CASE HandleCall
    <3>1. PICK status \in {StatusFor(call.token)} \cup (IF call.path = "change-password" THEN {401} ELSE {}) :
             call' = [call EXCEPT !.phase = "answered", !.status = status]
      BY <2>2 DEF HandleCall
    <3>2. status \in Nat BY <2>1, <3>1
    <3> QED BY <3>1, <3>2
  <2>3. CASE CallTooLate
    <3>1. call' = [call EXCEPT !.phase = "answered", !.status = 401] BY <2>3 DEF CallTooLate
    <3>2. 401 \in Nat OBVIOUS
    <3> QED BY <3>1, <3>2
  <2> QED BY <2>2, <2>3
<1>2. call.phase = "sent" /\ UNCHANGED <<tab, cookie, session, signin, signout, refresh>>
  BY DEF HandleCall, CallTooLate
<1>3. call' \in CallRecs BY <1>1 DEF SessionInv, TabTyped, CallRecs
<1>4. call # NoCall BY <1>2, Defaults
<1>5. tab.phase # "starting" BY <1>4 DEF SessionInv, OneAtATime
<1>6. signin.phase = "profile" => tab.crossed BY <1>4 DEF SessionInv, Owned
<1>7. refresh.phase = "none" \/ refresh.boot BY <1>2 DEF SessionInv, OneAtATime
<1> QED BY <1>2, <1>3, <1>5, <1>6, <1>7, CallGoesOn

LEMMA AskRefreshKeeps == ASSUME SessionInv, AskRefresh PROVE SessionInv'
<1> USE DEF SessionInv
<1>1. /\ call.phase = "waiting" /\ call' = [call EXCEPT !.phase = "renewing"] /\ tab.token # NoOne
      /\ refresh' = IF refresh = NoRefresh THEN [NoRefresh EXCEPT !.phase = "asked"] ELSE refresh
      /\ UNCHANGED <<tab, cookie, session, signin, signout>>
  BY DEF AskRefresh, PassesMiddleware, NeedsFreshToken
<1>2. call # NoCall BY <1>1, Defaults
<1>3. tab.phase # "starting" BY <1>2 DEF OneAtATime
<1>4. refresh = NoRefresh BY <1>1, <1>3 DEF OneAtATime, TabTyped
<1>5. refresh' \in RefreshRecs /\ refresh'.phase = "asked" /\ refresh'.boot = FALSE
  BY <1>1, <1>4, Defaults DEF RefreshRecs, NoRefresh
<1>6. call' \in CallRecs /\ call'.phase = "renewing" BY <1>1 DEF TabTyped, CallRecs
<1>7. ~tab.crossed => tab.phase = "authenticated" /\ signin.phase # "profile"
  <2>1. ~tab.crossed => signin.phase # "profile" BY <1>2 DEF Owned
  <2> QED BY <1>1, <1>3, <2>1 DEF SessionIsHonest, ActsAsShown, TabTyped, TabRecs
<1>8. TabTyped' BY <1>1, <1>5, <1>6 DEF TabTyped, Sid
<1>9. OneAtATime' BY <1>1, <1>3, <1>5, <1>6 DEF OneAtATime
<1>10. Owned' BY <1>1, <1>5, <1>7 DEF Owned
<1>11. SessionIsHonest' BY <1>1 DEF SessionIsHonest, ActsAsShown, EndsForCause
<1> QED BY <1>8, <1>9, <1>10, <1>11

LEMMA CallArrivesKeeps == ASSUME SessionInv, CallArrives PROVE SessionInv'
<1> USE DEF SessionInv
<1>1. call.phase = "answered" /\ call' = NoCall /\ UNCHANGED <<cookie, session, signin, signout, refresh>>
  BY DEF CallArrives
<1>2. refresh.phase = "none" \/ refresh.boot BY <1>1 DEF OneAtATime
<1>3. CASE tab' = tab BY <1>1, <1>2, <1>3, Defaults, CallGoesOn
<1>4. CASE tab' = EndedBy("refused")
  <2>1. /\ tab' \in TabRecs /\ tab'.phase = "anonymous" /\ tab'.token = NoOne /\ tab'.crossed = tab.crossed
        /\ (tab'.expired => tab'.last = "refused") /\ tab'.last # "wrong password"
    BY <1>4, EndedTab DEF TabTyped, SessionIsHonest
  <2>2. call # NoCall BY <1>1, Defaults
  <2>3. tab.phase # "starting" /\ (signin.phase = "profile" => tab.crossed) BY <2>2 DEF OneAtATime, Owned
  <2>4. TabTyped' BY <1>1, <2>1, Defaults DEF TabTyped, Sid
  <2>5. OneAtATime' BY <1>1, <1>2, <2>1, <2>3 DEF OneAtATime
  <2>6. Owned' BY <1>1, <1>2, <2>1, <2>3 DEF Owned
  <2>7. SessionIsHonest' BY <2>1 DEF SessionIsHonest, ActsAsShown, EndsForCause
  <2> QED BY <2>4, <2>5, <2>6, <2>7
<1> QED BY <1>3, <1>4 DEF CallArrives, SessionExempt

LEMMA AgeKeeps == ASSUME SessionInv, Age PROVE SessionInv'
<1> USE DEF SessionInv
<1>1. tab' = [tab EXCEPT !.stale = TRUE] /\ UNCHANGED <<cookie, session, signin, signout, refresh, call>>
  BY DEF Age
<1>2. /\ tab' \in TabRecs /\ tab'.phase = tab.phase /\ tab'.token = tab.token /\ tab'.user = tab.user
      /\ tab'.crossed = tab.crossed /\ tab'.expired = tab.expired /\ tab'.last = tab.last
  BY <1>1 DEF TabTyped, TabRecs
<1>3. TabTyped' BY <1>1, <1>2 DEF TabTyped, Sid
<1>4. OneAtATime' BY <1>1, <1>2 DEF OneAtATime
<1>5. Owned' BY <1>1, <1>2 DEF Owned
<1>6. SessionIsHonest' BY <1>1, <1>2 DEF SessionIsHonest, ActsAsShown, EndsForCause
<1> QED BY <1>3, <1>4, <1>5, <1>6

LEMMA BrowserKeepsSession == ASSUME SessionInv, BrowserNext PROVE SessionInv'
BY SendRefreshKeeps, RefreshAnswered, RefreshArrivesKeeps, SignInKeeps, PasswordGrantKeeps, LoginCommitsKeeps,
   SignInFailsKeeps, SignInArrivesKeeps, AdoptKeeps, SignOutKeeps, LogoutAnswered, SignedOutKeeps, StartCallKeeps,
   SendCallKeeps, CallAnswered, AskRefreshKeeps, CallArrivesKeeps, AgeKeeps
   DEF BrowserNext, Answers

\* What the tab does to the rest: it may create the row of the user who signs in, and counts.
LEMMA BrowserKeepsDesks == ASSUME DeskInv, SessionInv, BrowserNext PROVE DeskInv'
<1>a. AccountsTyped BY DEF DeskInv, AccountsInv
<1> DEFINE Counted == flows' \in 0..MaxFlows /\ faults' \in 0..MaxFaults
<1>1. UNCHANGED others
  BY DEF BrowserNext, Answers, SendRefresh, HandleRefresh, RefreshArrives, PasswordGrant, LoginCommits, SignInArrives, Adopt,
         HandleLogout, SignedOut, AskRefresh, SendCall, HandleCall, CallArrives, RefreshUnavailable, SignInFails,
         LogoutUnavailable, CallTooLate, SignIn, SignOut, Age, StartCall, others
<1>2. Counted
  <2>1. /\ UNCHANGED flows \/ (flows < MaxFlows /\ flows' = flows + 1)
        /\ UNCHANGED faults \/ Fault
    BY DEF BrowserNext, Answers, SendRefresh, HandleRefresh, RefreshArrives, PasswordGrant, LoginCommits, SignInArrives, Adopt,
           HandleLogout, SignedOut, AskRefresh, SendCall, HandleCall, CallArrives, RefreshUnavailable, SignInFails,
           LogoutUnavailable, CallTooLate, SignIn, SignOut, Age, StartCall
  <2> QED BY <1>a, <2>1, AccountsAssumption DEF AccountsTyped, Fault
<1> DEFINE Granted(u) == signin.phase = "granted" /\ signin.user = u
<1>3. \A u \in Users : (u \in SigningIn <=> Granted(u)) /\ (u \in SigningIn' <=> Granted(u)') BY DEF SigningIn
<1>4. CASE LoginCommits
  <2>1. /\ signin.phase = "granted" /\ signin' = [signin EXCEPT !.phase = "committed"]
        /\ row' = [row EXCEPT ![signin.user] = Upserted(signin.user)]
    BY <1>4 DEF LoginCommits
  <2>2. signin.user \in Users /\ signin'.phase = "committed" BY <2>1 DEF SessionInv, TabTyped, SigninRecs
  <2>3. Upserted(signin.user) \in {"absent", "active", "disabled"} BY <1>a, <2>2 DEF Upserted, AccountsTyped
  <2>4. row' \in [Users -> {"absent", "active", "disabled"}] BY <1>a, <2>1, <2>3 DEF AccountsTyped
  <2>5. \A u \in Users : row'[u] = row[u] \/ (row[u] = "absent" /\ Granted(u))
    BY <1>a, <2>1, <2>2 DEF AccountsTyped, Upserted
  <2>6. \A u \in Users : u \notin SigningIn' BY <1>3, <2>2
  <2> QED BY <1>1, <1>2, <1>3, <2>4, <2>5, <2>6, TabKeepsDesks
<1>5. CASE ~LoginCommits
  <2>1. row' = row
    BY <1>5 DEF BrowserNext, Answers, SendRefresh, HandleRefresh, RefreshArrives, PasswordGrant, SignInArrives, Adopt,
           HandleLogout, SignedOut, AskRefresh, SendCall, HandleCall, CallArrives, RefreshUnavailable, SignInFails,
           LogoutUnavailable, CallTooLate, SignIn, SignOut, Age, StartCall
  <2>2. \A u \in Users : Closed(u) /\ Granted(u)' => Granted(u)
    <3>1. CASE PasswordGrant
      <4>1. CASE MayAuthenticate(signin.user)
        <5>1. signin'.user = signin.user BY <3>1, <4>1 DEF PasswordGrant, SessionInv, TabTyped, SigninRecs
        <5> QED BY <4>1, <5>1 DEF Closed
      <4>2. CASE ~MayAuthenticate(signin.user) BY <3>1, <4>2, Defaults DEF PasswordGrant
      <4> QED BY <4>1, <4>2
    <3>2. CASE RefreshArrives
      <4>1. signin' = signin \/ signin'.phase = "profile" BY <3>2 DEF RefreshArrives, NoSignin
      <4> QED BY <4>1
    <3>3. CASE \E u \in Users : SignIn(u)
      <4>1. signin'.phase = "sent" BY <3>3 DEF SignIn
      <4> QED BY <4>1
    <3>4. CASE SignInArrives
      <4>1. signin'.phase = "profile" BY <3>4 DEF SignInArrives, SessionInv, TabTyped, SigninRecs
      <4> QED BY <4>1
    <3>5. CASE signin' = signin \/ signin' = NoSignin BY <3>5, Defaults
    <3> QED BY <1>5, <3>1, <3>2, <3>3, <3>4, <3>5
         DEF BrowserNext, Answers, SendRefresh, HandleRefresh, Adopt, HandleLogout, SignedOut, AskRefresh, SendCall, HandleCall,
             CallArrives, RefreshUnavailable, SignInFails, LogoutUnavailable, CallTooLate, SignOut, Age, StartCall
  <2>3. row' \in [Users -> {"absent", "active", "disabled"}] BY <1>a, <2>1 DEF AccountsTyped
  <2> QED BY <1>1, <1>2, <1>3, <2>1, <2>2, <2>3, TabKeepsDesks
<1> QED BY <1>4, <1>5

-----------------------------------------------------------------------------
(* The composition                                                         *)

LEMMA InitHolds == Init => Inv
<1> SUFFICES ASSUME Init PROVE Inv OBVIOUS
<1> USE DEF Init, AccountsInit
<1>1. Never \in AccountRecs /\ Fresh \in AccountRecs /\ [Fresh EXCEPT !.admin = TRUE] \in AccountRecs
  BY DEF Never, Fresh, AccountRecs
<1>2. /\ Never.state = "never" /\ ~Never.linked /\ ~Never.reader
      /\ Fresh.state = "live" /\ Fresh.enabled = TRUE /\ ~Fresh.linked /\ ~Fresh.reader
      /\ [Fresh EXCEPT !.admin = TRUE].state = "live" /\ [Fresh EXCEPT !.admin = TRUE].enabled = TRUE
      /\ ~[Fresh EXCEPT !.admin = TRUE].linked /\ ~[Fresh EXCEPT !.admin = TRUE].reader
  BY DEF Never, Fresh
<1>3. \A u \in Users : /\ account[u] \in AccountRecs
                       /\ account[u] = Never \/ (account[u].state = "live" /\ account[u].enabled = TRUE)
                       /\ ~account[u].linked /\ ~account[u].reader
  BY <1>1, <1>2
<1>4. \A c \in Desks : command[c] = Idle /\ command[c].phase = "idle" BY DEF Idle
<1>5. AccountsTyped
  <2>1. account \in [Users -> AccountRecs] BY <1>3
  <2>2. trail \in [Users -> BOOLEAN]
    <3>1. \A u \in Users : account[u].admin \in BOOLEAN BY <1>3 DEF AccountRecs
    <3> QED BY <3>1
  <2>3. flows \in 0..MaxFlows /\ faults \in 0..MaxFaults BY AccountsAssumption
  <2> QED BY <2>1, <2>2, <2>3 DEF AccountsTyped
<1>6. NeverBare
  <2>1. \A u \in Users : account[u].state = "never" => account[u] = Never BY <1>2, <1>3
  <2> QED BY <2>1 DEF NeverBare
<1>7. Single /\ Mirrored BY <1>4 DEF Single, Mirrored, Busy
<1>8. InOrder BY <1>4 DEF InOrder, InOrderOf, Idle
<1>9. AnAdministratorRemains BY DEF AnAdministratorRemains
<1>10. Told
  <2>1. \A u \in Users : trail[u] = account[u].admin OBVIOUS
  <2> QED BY <1>4, <2>1 DEF Told, Busy
<1>11. Shut
  <2>1. \A u \in Users : ~Closed(u) BY <1>2, <1>3 DEF Closed, MayAuthenticate, Live
  <2> QED BY <2>1 DEF Shut
<1>12. LinksInv
  <2>1. Linked BY DEF Linked, LinkRecs, CloudInit, NoLinking
  <2>2. Fits BY CloudAssumption DEF Fits, ImportRecs, CloudInit, NoImport
  <2>3. LinkedAccounts
    <3>1. linking.phase = "none" /\ linking.outcome = "none" BY DEF CloudInit, NoLinking
    <3> QED BY <1>3, <3>1 DEF LinkedAccounts, GrantFollowsConsent
  <2> QED BY <2>1, <2>2, <2>3 DEF LinksInv
<1>13. SessionInv
  <2> USE DEF BrowserInit
  <2>1. /\ tab \in TabRecs /\ tab.phase = "starting" /\ tab.token = NoOne /\ ~tab.expired /\ tab.last = "none"
    BY DEF TabRecs, Places
  <2>2. /\ signin = NoSignin /\ signout = NoSignout /\ call = NoCall
        /\ refresh \in RefreshRecs /\ refresh.phase = "asked" /\ refresh.boot = TRUE
    BY DEF RefreshRecs, NoRefresh
  <2>3. /\ session \in [users : Seq(Users), live : SUBSET Nat] /\ session.live \subseteq 1..Len(session.users)
        /\ cookie \in 0..Len(session.users)
    <3>1. CASE session = [users |-> <<>>, live |-> {}]
      <4>1. session.users = <<>> /\ session.live = {} /\ Len(session.users) = 0 BY <3>1
      <4> QED BY <3>1, <4>1
    <3>2. CASE \E u \in Users : session = [users |-> <<u>>, live |-> {1}]
      <4>1. PICK u \in Users : session = [users |-> <<u>>, live |-> {1}] BY <3>2
      <4>2. session.users = <<u>> /\ session.live = {1} /\ Len(session.users) = 1 /\ <<u>> \in Seq(Users) BY <4>1
      <4>3. cookie = 1 BY <4>2
      <4> QED BY <4>1, <4>2, <4>3
    <3> QED BY <3>1, <3>2
  <2>4. TabTyped BY <2>1, <2>2, <2>3, Defaults DEF TabTyped
  <2>5. OneAtATime BY <2>1, <2>2, Defaults DEF OneAtATime
  <2>6. Owned BY <2>1, <2>2, Defaults DEF Owned
  <2>7. SessionIsHonest BY <2>1 DEF SessionIsHonest, ActsAsShown, EndsForCause
  <2> QED BY <2>4, <2>5, <2>6, <2>7 DEF SessionInv
<1> QED BY <1>5, <1>6, <1>7, <1>8, <1>9, <1>10, <1>11, <1>12, <1>13 DEF Inv, DeskInv, AccountsInv

LEMMA StepKeeps == Inv /\ [Next]_vars => Inv'
<1> SUFFICES ASSUME Inv, [Next]_vars PROVE Inv' OBVIOUS
<1> USE DEF Inv
<1>a. AccountsTyped /\ Linked /\ LinkedAccounts BY DEF DeskInv, AccountsInv, LinksInv
<1>1. CASE AccountsNext(SigningIn) /\ UNCHANGED <<tabVars, cloudVars>>
  <2>1. DeskInv' BY <1>1, AccountsStepKeeps DEF tabVars
  <2>2. LinkedAccounts' BY <1>a, <1>1, DesksLinkNobody
  <2>3. LinksInv' BY <1>1, <2>2 DEF LinksInv, Linked, Fits, cloudVars
  <2>4. SessionInv' BY <1>1, TabUnchanged
  <2> QED BY <2>1, <2>3, <2>4
<1>2. CASE BrowserNext /\ UNCHANGED cloudVars
  <2>1. DeskInv' BY <1>2, BrowserKeepsDesks
  <2>2. UNCHANGED account
    BY <1>2 DEF BrowserNext, Answers, SendRefresh, HandleRefresh, RefreshArrives, PasswordGrant, LoginCommits, SignInArrives,
           Adopt, HandleLogout, SignedOut, AskRefresh, SendCall, HandleCall, CallArrives, RefreshUnavailable, SignInFails,
           LogoutUnavailable, CallTooLate, SignIn, SignOut, Age, StartCall, others
  <2>3. LinksInv' BY <1>2, <2>2 DEF LinksInv, Linked, LinkedAccounts, GrantFollowsConsent, Fits, cloudVars
  <2>4. SessionInv' BY <1>2, BrowserKeepsSession
  <2> QED BY <2>1, <2>3, <2>4
<1>3. CASE CloudNext /\ UNCHANGED tabVars
  <2>1. UNCHANGED signin BY <1>3 DEF tabVars
  <2>2. DeskInv' BY <1>3, <1>a, <2>1, CloudAccounts, LinkKeepsDesks
  <2>3. LinksInv' BY <1>3, <1>a, CloudKeepsLinks
  <2>4. SessionInv' BY <1>3, TabUnchanged
  <2> QED BY <2>2, <2>3, <2>4
<1>4. CASE UNCHANGED vars
  <2>1. DeskInv'
    <3>1. UNCHANGED <<elsewhere, account, signin, flows, faults>> BY <1>4 DEF vars, accountVars, tabVars, elsewhere
    <3>2. /\ account' \in [Users -> AccountRecs] /\ flows' \in 0..MaxFlows /\ faults' \in 0..MaxFaults
      BY <1>a, <3>1 DEF AccountsTyped
    <3> QED BY <3>1, <3>2, LinkKeepsDesks
  <2>2. LinksInv' BY <1>4 DEF LinksInv, Linked, LinkedAccounts, GrantFollowsConsent, Fits, vars, accountVars, cloudVars
  <2>3. SessionInv' BY <1>4, TabUnchanged DEF vars
  <2> QED BY <2>1, <2>2, <2>3
<1> QED BY <1>1, <1>2, <1>3, <1>4 DEF Next

LEMMA InvHolds == Spec => []Inv
BY InitHolds, StepKeeps, PTL DEF Spec

LEMMA InvImpliesAgreement == Inv => AccountsAgree
<1> SUFFICES ASSUME Inv PROVE AccountsAgree OBVIOUS
<1> USE DEF Inv, DeskInv, AccountsInv
<1>1. TypeOK
  <2>1. import.read \in 0..MaxBytes + 1 BY CloudAssumption DEF LinksInv, Fits, ImportRecs
  <2>2. tab.phase \in {"starting", "anonymous", "authenticated"} /\ tab.token \in Users \cup {NoOne}
    BY DEF SessionInv, TabTyped, TabRecs, Places
  <2>3. cookie \in 0..Len(session.users) /\ session.live \subseteq 1..Len(session.users)
    BY DEF SessionInv, TabTyped
  <2>4. consents \subseteq Users BY DEF LinksInv, Linked
  <2> QED BY <2>1, <2>2, <2>3, <2>4 DEF TypeOK, AccountsTyped, AccountRecs
<1>2. \A u \in Users : Undisturbed(u) => u \notin torn /\ u \notin raced /\ \A c \in Desks : ~Busy(c, u)
  BY DEF Undisturbed, InFlightOn, Busy
<1>3. TrailTellsRoles
  <2> SUFFICES ASSUME NEW u \in Users, Live(u), Undisturbed(u) PROVE trail[u] = account[u].admin BY DEF TrailTellsRoles
  <2> QED BY <1>2 DEF Told, Live
<1>4. ClosedIsRefused
  <2> SUFFICES ASSUME NEW u \in Users, Closed(u), Undisturbed(u) PROVE row[u] # "active" BY DEF ClosedIsRefused, Closed
  <2> QED BY <1>2 DEF Shut, ShutFor
<1> QED BY <1>1, <1>3, <1>4 DEF AccountsAgree

\* Keycloak, the rows and the audit trail agree wherever no request broke off and no two met, and
\* an administrator remains: for any users and desks, whatever the tab and the link do meanwhile.
THEOREM AccountsAlwaysAgree == Spec => []AccountsAgree
BY InvHolds, InvImpliesAgreement, PTL

LEMMA InvImpliesLinks == Inv => LinksAreWhole
<1> SUFFICES ASSUME Inv PROVE LinksAreWhole OBVIOUS
<1>1. LinkedIsUsable BY DEF Inv, LinksInv, LinkedAccounts, LinkedIsUsable
<1>2. GrantFollowsConsent BY DEF Inv, LinksInv, LinkedAccounts
<1>3. NothingOversized BY DEF Inv, LinksInv, Fits, NothingOversized
<1> QED BY <1>1, <1>2, <1>3 DEF LinksAreWhole

\* A link reported as made can be used, the role that reads it follows its owner's own consent,
\* and no import stores more than the limit: for any users and any limit.
THEOREM LinksAlwaysWhole == Spec => []LinksAreWhole
BY InvHolds, InvImpliesLinks, PTL

\* A tab acts for the user it shows, and says a session expired only when one was refused: for any
\* number of sign-ins, renewals and requests.
THEOREM SessionAlwaysHonest == Spec => []SessionIsHonest
<1>1. Inv => SessionIsHonest BY DEF Inv, SessionInv
<1> QED BY <1>1, InvHolds, PTL
============================================================================
