------------------------------- MODULE SignIn -------------------------------
(***************************************************************************)
(* Signing in to the control plane: the admin token, passkeys and browser  *)
(* sign-ins, device codes, sessions and access tokens                      *)
(* (crates/javelin-control/src/control.rs, device.rs, passkey.rs,          *)
(* browser.rs, state.rs).                                                  *)
(*                                                                         *)
(* Every call runs under the state file's lock and saves all of its        *)
(* changes or none, so a call is one step, and a refused call changes      *)
(* nothing.  Secrets and IDs are fresh names: a device code, a ceremony, a *)
(* browser token or a session stands for the secret only its holder knows. *)
(* Any bearer may be presented at any time, however old; a lost reply is a *)
(* secret nobody uses.                                                     *)
(***************************************************************************)
EXTENDS Naturals, FiniteSets

CONSTANTS
    Codes,        \* device codes
    Ceremonies,   \* passkey ceremonies
    Passkeys,     \* credentials of authenticators
    Browsers,     \* browser sign-in tokens
    CeremonyTTL, DeviceTTL, BrowserTTL, AccessTTL, RefreshTTL,
    MaxTime       \* bound: the clock

ASSUME SignInAssumption ==
    /\ {CeremonyTTL, DeviceTTL, BrowserTTL, AccessTTL, RefreshTTL} \subseteq
            Nat \ {0}
    /\ MaxTime \in Nat

VARIABLES
    now,          \* the control plane's clock
    initialized,  \* the signing key and the admin token's hash exist
    code,         \* device_codes: per code its state and expiry
    ceremony,     \* per ceremony its step, expiry and allowed passkeys
    enrolled,     \* passkeys
    browser,      \* browser_sessions: expiry per token, 0 when unknown
    session,      \* sessions: expiry per code that was redeemed, or 0
    tokens        \* the latest access tokens signed, until they expire

signInVars == <<now, initialized, code, ceremony, enrolled, browser, session,
                tokens>>

\* The device an access token names: one per approved code, or the admin's.
AdminDevice == "admin"

\* issue.  A later token of a device for a repository is accepted whenever
\* an earlier one is, so the earlier one is forgotten.
Issue(device, repo) ==
    tokens' = {t \in tokens : t.device # device \/ t.repo # repo} \cup
        {[device |-> device, repo |-> repo, expires |-> now + AccessTTL]}

\* The admin token itself, which never expires.
AdminBearer == [device |-> AdminDevice, repo |-> "*", expires |-> MaxTime + 1]

Bearers == {AdminBearer} \cup tokens

\* Mutant of Live: a token's own expiry is enough.
LiveForever(device) == TRUE

\* A live sign-in of the device exists.
Live(device) == device \in Codes /\ now < session[device]

\* verify: the signature is the control plane's, and the token is current.
Unexpired(b) == now < b.expires

\* authenticate: the admin token, or an unexpired access token whose sign-in
\* is still live.
Authenticate(b) ==
    /\ initialized
    /\ b = AdminBearer \/ (Unexpired(b) /\ Live(b.device))

\* browser_principal: the sign-in is known and not expired.
BrowserLive(w) == now < browser[w]

-----------------------------------------------------------------------------
\* Time passes.  A token that has expired is good for nothing.
Tick ==
    /\ now < MaxTime
    /\ now' = now + 1
    /\ tokens' = {t \in tokens : t.expires > now + 1}
    /\ UNCHANGED <<initialized, code, ceremony, enrolled, browser, session>>

\* bootstrap, once.
Bootstrap ==
    /\ ~initialized
    /\ initialized' = TRUE
    /\ UNCHANGED <<now, code, ceremony, enrolled, browser, session, tokens>>

\* device_start: expired codes are dropped on the way.
DeviceStart(c) ==
    /\ initialized
    /\ code[c].state = "unused"
    /\ code' = [d \in Codes |->
          IF d = c THEN [state |-> "pending", expires |-> now + DeviceTTL]
          ELSE IF code[d].state # "unused" /\ code[d].expires <= now
               THEN [state |-> "dropped", expires |-> 0]
               ELSE code[d]]
    /\ UNCHANGED <<now, initialized, ceremony, enrolled, browser, session,
                   tokens>>

\* device_approve and device_approve_as: the admin token or a live browser
\* sign-in.  Approving an approved code changes nothing.
DeviceApprove(c) ==
    /\ initialized
    /\ code[c].state = "pending"
    /\ now < code[c].expires
    /\ code' = [code EXCEPT ![c].state = "approved"]
    /\ UNCHANGED <<now, initialized, ceremony, enrolled, browser, session,
                   tokens>>

DeviceApproveAs(c, w) ==
    /\ BrowserLive(w)
    /\ DeviceApprove(c)

\* device_poll of an approved code: the session, once.
DevicePoll(c) ==
    /\ code[c].state = "approved"
    /\ now < code[c].expires
    /\ code' = [code EXCEPT ![c].state = "redeemed"]
    /\ session' = [session EXCEPT ![c] = now + RefreshTTL]
    /\ Issue(c, "*")
    /\ UNCHANGED <<now, initialized, ceremony, enrolled, browser>>

\* refresh: the refresh token stays valid until the session ends.
Refresh(c) ==
    /\ now < session[c]
    /\ Issue(c, "*")
    /\ UNCHANGED <<now, initialized, code, ceremony, enrolled, browser,
                   session>>

\* repository_token: a token for one repository, renewed by any token that
\* may act on it.
RepositoryToken(b, r) ==
    /\ Authenticate(b)
    /\ b.repo \in {"*", r}
    /\ Issue(b.device, r)
    /\ UNCHANGED <<now, initialized, code, ceremony, enrolled, browser,
                   session>>

\* insert_ceremony: expired ceremonies are dropped.
InsertCeremony(e, kind, allowed) ==
    /\ ceremony[e].kind = "unused"
    /\ ceremony' = [d \in Ceremonies |->
          IF d = e THEN [kind |-> kind, expires |-> now + CeremonyTTL,
                         allowed |-> allowed]
          ELSE IF ceremony[d].kind # "unused" /\ ceremony[d].expires <= now
               THEN [kind |-> "spent", expires |-> 0, allowed |-> {}]
               ELSE ceremony[d]]

\* take_ceremony, by a finish that succeeds: a refused finish is not saved,
\* so it leaves the ceremony as it was.
TakeCeremony(e, kind) ==
    /\ ceremony[e].kind = kind
    /\ now < ceremony[e].expires
    /\ ceremony' = [ceremony EXCEPT ![e] =
            [kind |-> "spent", expires |-> 0, allowed |-> {}]]

\* passkey_enroll_start, by the admin token or a live browser sign-in.
EnrollStart(e) ==
    /\ initialized
    /\ InsertCeremony(e, "enroll", Passkeys \ enrolled)
    /\ UNCHANGED <<now, initialized, code, enrolled, browser, session, tokens>>

EnrollStartAs(e, w) ==
    /\ BrowserLive(w)
    /\ EnrollStart(e)

\* passkey_enroll_finish, for a response that verifies.
EnrollFinish(e, k) ==
    /\ TakeCeremony(e, "enroll")
    /\ k \notin enrolled
    /\ enrolled' = enrolled \cup {k}
    /\ UNCHANGED <<now, initialized, code, browser, session, tokens>>

\* passkey_signin_start.
SignInStart(e) ==
    /\ initialized
    /\ enrolled # {}
    /\ InsertCeremony(e, "signin", enrolled)
    /\ UNCHANGED <<now, initialized, code, enrolled, browser, session, tokens>>

\* passkey_signin_finish, for a response of a passkey the ceremony allows.
SignInFinish(e, k, w) ==
    /\ k \in ceremony[e].allowed \cap enrolled
    /\ TakeCeremony(e, "signin")
    /\ browser[w] = 0
    /\ browser' = [browser EXCEPT ![w] = now + BrowserTTL]
    /\ UNCHANGED <<now, initialized, code, enrolled, session, tokens>>

-----------------------------------------------------------------------------
SignInInit ==
    /\ now = 0
    /\ initialized = FALSE
    /\ code = [c \in Codes |-> [state |-> "unused", expires |-> 0]]
    /\ ceremony = [e \in Ceremonies |->
          [kind |-> "unused", expires |-> 0, allowed |-> {}]]
    /\ enrolled = {}
    /\ browser = [w \in Browsers |-> 0]
    /\ session = [c \in Codes |-> 0]
    /\ tokens = {}

SignInNext ==
    \/ Tick
    \/ \E c \in Codes :
        \/ DeviceStart(c) \/ DeviceApprove(c) \/ DevicePoll(c) \/ Refresh(c)
        \/ \E w \in Browsers : DeviceApproveAs(c, w)
    \/ \E e \in Ceremonies :
        \/ EnrollStart(e) \/ SignInStart(e)
        \/ \E w \in Browsers : EnrollStartAs(e, w)
        \/ \E k \in Passkeys : EnrollFinish(e, k)
        \/ \E k \in Passkeys, w \in Browsers : SignInFinish(e, k, w)

-----------------------------------------------------------------------------
(* Properties.                                                             *)

\* Access ends with the sign-in: no chain of renewals, through refresh or
\* through tokens for one repository, yields a token for a device that
\* outlives its sign-in by more than one token's life (control.rs
\* authenticate: "Renewing a token needs the sign-in too").
AccessEnds ==
    \A t \in tokens :
        t.device # AdminDevice => t.expires < session[t.device] + AccessTTL
=============================================================================
