------------------------------ MODULE MobileApp ------------------------------
(***************************************************************************)
(* The app on the phone of one user, and the part of the backend it calls: *)
(* the sign-in through Google's consent page, the session token in the     *)
(* phone's keychain, the notification switch and the list of connected     *)
(* accounts with its query cache.  Requests are slow, answers get lost,    *)
(* and the app may be killed at any time; what it asked for happens anyway.*)
(***************************************************************************)
EXTENDS Integers, FiniteSets

CONSTANTS
    None,         \* null, undefined: no token, nothing cached, no fetch under way
    MaxSessions,  \* bound: sessions the backend issues
    MaxPatches,   \* bound: requests of the switch under way at once
    MaxFaults     \* bound: lost answers and keychain errors

Sessions == 1..MaxSessions
Tokens   == Sessions \cup {None}
Statuses == {"none", "active", "reauth_required", "revoked"}
Lists    == [shows: Statuses, stale: BOOLEAN]

ASSUME MobileAssumption ==
    /\ {MaxSessions, MaxPatches, MaxFaults} \subseteq Nat
    /\ None \notin Lists

VARIABLES
    \* The backend
    account,    \* status of the user's mail account
    flag,       \* users.notificationsEnabled
    issued,     \* sessions issued so far
    expired,    \* those older than SESSION_TTL
    callback,   \* the redirect of the consent page to the backend: its state, or "none"
    patches,    \* PATCH requests of the switch
    delete,     \* the DELETE request of the account
    \* The app
    phase,      \* "closed", "restoring" (isLoading), "ready"
    stored,     \* the token in SecureStore
    token,      \* the token in useSession
    flow,       \* OnboardingScreen.connect: its stage, and the token it received
    leaving,    \* signOut: "no", or the await it is at
    switch,     \* SettingsScreen: enabled, saving, and whether a save succeeded
    cache,      \* the cached account list: the status it shows, invalidated or not
    fetch,      \* the request for that list under way, whose answer will be cached
    \* History: the last PATCH that wrote the flag is one whose answer the app
    \* did not see; the statuses of the account since this session saw a disconnect
    \* succeed ({}: it saw none).
    unseen, since,
    faults

backend == <<account, flag, issued, expired>>
wire    == <<callback, patches, delete>>
session == <<phase, stored, token, flow, leaving>>
queries == <<cache, fetch>>
history == <<unseen, since>>
vars == <<backend, wire, session, switch, queries, history, faults>>

(* A request: the token it carries, and how far it got.  The answer of an    *)
(* "orphan" is not waited for: it was lost, or the app or screen is gone.    *)
Patch  == [token: Sessions, next: BOOLEAN, stage: {"sent", "ok", "error", "orphan"}]
Delete == [token: Tokens, stage: {"idle", "sent", "ok", "error", "orphan"}]
Fetch  == [token: Sessions, stage: {"sent", "error"} \cup Statuses]
Flow   == [stage: {"idle", "browser", "refused", "storing", "setting"}, token: Tokens]

NotConnecting == [stage |-> "idle", token |-> None]
NotDeleting   == [stage |-> "idle", token |-> None]
Mounted       == [enabled |-> TRUE, saving |-> FALSE, known |-> FALSE]

TypeOK ==
    /\ account \in Statuses /\ flag \in BOOLEAN
    /\ issued \in 0..MaxSessions /\ expired \subseteq 1..issued
    /\ callback \in {"none", "fresh", "stale"}
    /\ patches \subseteq Patch /\ delete \in Delete
    /\ phase \in {"closed", "restoring", "ready"}
    /\ stored \in Tokens /\ token \in Tokens /\ flow \in Flow
    /\ leaving \in {"no", "deleting", "deleted"}
    /\ phase # "ready" => token = None /\ flow = NotConnecting /\ leaving = "no"
    /\ token # None => stored = token \/ leaving = "deleted"
    /\ switch \in [enabled: BOOLEAN, saving: BOOLEAN, known: BOOLEAN]
    /\ cache \in Lists \cup {None}
    /\ fetch = None \/ fetch \in Fetch
    /\ unseen \in BOOLEAN /\ since \subseteq Statuses
    /\ faults \in 0..MaxFaults

Init ==
    /\ account = "none" /\ flag = TRUE /\ issued = 0 /\ expired = {}
    /\ callback = "none" /\ patches = {} /\ delete = NotDeleting
    /\ phase = "closed" /\ stored = None /\ token = None
    /\ flow = NotConnecting /\ leaving = "no"
    /\ switch = Mounted
    /\ cache = None /\ fetch = None
    /\ unseen = FALSE /\ since = {}
    /\ faults = 0

Fault == faults < MaxFaults /\ faults' = faults + 1
Valid(t) == t \notin expired                             \* SessionService.verifySession
SignedIn == token # None                                 \* RootNavigator shows the tabs

-----------------------------------------------------------------------------
(* The backend besides its endpoints.                                        *)

\* History only.
AddToSince == since' = IF since = {} THEN {} ELSE since \cup {account'}

ExpireSession ==
    /\ \E t \in 1..issued \ expired : expired' = expired \cup {t}
    /\ UNCHANGED <<account, flag, issued, wire, session, switch, queries, history, faults>>

\* By a handler whose grant was refused, whatever the status is by then.
MarkReauthRequired ==
    /\ account # "none"
    /\ account' = "reauth_required"
    /\ AddToSince
    /\ UNCHANGED <<flag, issued, expired, wire, session, switch, queries, unseen, faults>>

-----------------------------------------------------------------------------
(* The session: App, useSession.                                             *)
OpenApp ==
    /\ phase = "closed"
    /\ phase' = "restoring"
    /\ UNCHANGED <<backend, wire, stored, token, flow, leaving, switch, queries, history, faults>>

\* A keychain that cannot be read is one without a token.
Restore ==
    /\ phase = "restoring"
    /\ \/ token' = stored /\ UNCHANGED faults
       \/ token' = None /\ Fault
    /\ phase' = "ready"
    /\ UNCHANGED <<backend, wire, stored, flow, leaving, switch, queries, history>>

Orphans(requests) == {[p EXCEPT !.stage = "orphan"] : p \in {q \in requests : q.stage = "sent"}}
                        \cup {p \in requests : p.stage = "orphan"}
Unseen(requests) == \E p \in requests : p.stage = "ok"

\* The screens are gone, and their state with them.
Unmount ==
    /\ switch' = Mounted
    /\ since' = {}
    /\ patches' = Orphans(patches)
    /\ unseen' = (unseen \/ Unseen(patches))

CloseApp ==
    /\ phase # "closed"
    /\ phase' = "closed" /\ token' = None /\ flow' = NotConnecting /\ leaving' = "no"
    /\ cache' = None /\ fetch' = None
    /\ delete' = IF delete.stage \in {"sent", "orphan"} THEN [delete EXCEPT !.stage = "orphan"]
                 ELSE NotDeleting
    /\ Unmount
    /\ UNCHANGED <<backend, callback, stored, faults>>

SignOut ==
    /\ SignedIn /\ leaving = "no"
    /\ leaving' = "deleting"
    /\ UNCHANGED <<backend, wire, phase, stored, token, flow, switch, queries, history, faults>>

DeleteItem ==
    /\ leaving = "deleting"
    /\ \/ stored' = None /\ leaving' = "deleted" /\ UNCHANGED faults
       \/ leaving' = "no" /\ Fault /\ UNCHANGED stored
    /\ UNCHANGED <<backend, wire, phase, token, flow, switch, queries, history>>

\* The query cache is kept.
ClearToken ==
    /\ leaving = "deleted"
    /\ token' = None /\ leaving' = "no"
    /\ Unmount
    /\ UNCHANGED <<backend, callback, delete, phase, stored, flow, queries, faults>>

-----------------------------------------------------------------------------
(* OnboardingScreen.connect.                                                 *)
At(stage) == flow.stage = stage
Connecting(stage) == flow' = [flow EXCEPT !.stage = stage]

\* The consent page opens, with a new state.
OpenBrowser ==
    /\ phase = "ready" /\ ~ SignedIn /\ At("idle")
    /\ Connecting("browser")
    /\ UNCHANGED <<backend, wire, phase, stored, token, leaving, switch, queries, history, faults>>

\* The user consents, before or after STATE_TTL.
Consent ==
    /\ At("browser") /\ callback = "none"
    /\ callback' \in {"fresh", "stale"}
    /\ UNCHANGED <<backend, patches, delete, session, switch, queries, history, faults>>

\* The callback endpoint and AuthService.connect.  An error is a page in the
\* browser; a session is a redirect that ends it, if it is still open.
Callback ==
    /\ callback # "none"
    /\ callback' = "none"
    /\ IF callback = "stale" \/ account = "active"
       THEN /\ flow' = IF At("browser") /\ callback = "fresh"
                       THEN [flow EXCEPT !.stage = "refused"] ELSE flow
            /\ UNCHANGED <<account, issued, since>>
       ELSE /\ issued < MaxSessions
            /\ issued' = issued + 1
            /\ account' = "active" /\ AddToSince
            /\ flow' = IF At("browser") THEN [stage |-> "storing", token |-> issued']
                       ELSE flow
    /\ UNCHANGED <<flag, expired, patches, delete, phase, stored, token, leaving, switch,
                   queries, unseen, faults>>

\* The user closes the browser, whatever it shows.
CloseBrowser ==
    /\ At("browser") \/ At("refused")
    /\ flow' = NotConnecting
    /\ UNCHANGED <<backend, wire, phase, stored, token, leaving, switch, queries, history, faults>>

\* Mutant: an error of the keychain is swallowed.
SetItemOrNot ==
    /\ At("storing")
    /\ \/ stored' = flow.token /\ UNCHANGED faults
       \/ Fault /\ UNCHANGED stored
    /\ Connecting("setting")
    /\ UNCHANGED <<backend, wire, phase, token, leaving, switch, queries, history>>

\* signIn
SetItem ==
    /\ At("storing")
    /\ \/ stored' = flow.token /\ Connecting("setting") /\ UNCHANGED faults
       \/ flow' = NotConnecting /\ Fault /\ UNCHANGED stored
    /\ UNCHANGED <<backend, wire, phase, token, leaving, switch, queries, history>>

SetToken ==
    /\ At("setting")
    /\ token' = flow.token
    /\ flow' = NotConnecting
    /\ UNCHANGED <<backend, wire, phase, stored, leaving, switch, queries, history, faults>>

-----------------------------------------------------------------------------
(* SettingsScreen.toggle.                                                    *)
Toggle ==
    /\ SignedIn /\ ~ switch.saving
    /\ Cardinality(patches) < MaxPatches
    /\ switch' = [switch EXCEPT !.enabled = ~ @, !.saving = TRUE]
    /\ patches' = patches \cup {[token |-> token, next |-> ~ switch.enabled, stage |-> "sent"]}
    /\ UNCHANGED <<backend, callback, delete, session, queries, history, faults>>

\* UserController.updateNotificationSettings, at any time later.
ServePatch(p) ==
    /\ p.stage \in {"sent", "orphan"}
    /\ flag' = IF Valid(p.token) THEN p.next ELSE flag
    /\ unseen' = IF Valid(p.token) THEN p.stage = "orphan" ELSE unseen
    /\ patches' = (patches \ {p}) \cup
          IF p.stage = "orphan" THEN {}
          ELSE {[p EXCEPT !.stage = IF Valid(p.token) THEN "ok" ELSE "error"]}
    /\ UNCHANGED <<account, issued, expired, callback, delete, session, switch, queries, since, faults>>

Saved(p) ==
    /\ p.stage = "ok"
    /\ switch' = [switch EXCEPT !.saving = FALSE, !.known = TRUE]
    /\ patches' = patches \ {p}
    /\ UNCHANGED <<backend, callback, delete, session, queries, history, faults>>

\* Mutant: only the saving ends.
KeepShown(p) == [switch EXCEPT !.saving = FALSE]

Revert(p) == [switch EXCEPT !.enabled = ~ p.next, !.saving = FALSE]

SaveFailed(p) ==
    /\ p.stage = "error"
    /\ switch' = Revert(p)
    /\ patches' = patches \ {p}
    /\ UNCHANGED <<backend, callback, delete, session, queries, history, faults>>

\* The connection breaks, before or after the backend has answered.
LosePatch(p) ==
    /\ p.stage \in {"sent", "ok"}
    /\ Fault
    /\ switch' = Revert(p)
    /\ patches' = (patches \ {p}) \cup Orphans({p})
    /\ unseen' = (unseen \/ p.stage = "ok")
    /\ UNCHANGED <<backend, callback, delete, session, queries, since>>

DropPatch(p) ==
    /\ p.stage = "orphan"
    /\ patches' = patches \ {p}
    /\ UNCHANGED <<backend, callback, delete, session, switch, queries, history, faults>>

-----------------------------------------------------------------------------
(* useMailAccounts and useDisconnectMailAccount.                             *)
Ask == [token |-> token, stage |-> "sent"]

\* A screen mounts and finds no data, or data that is old or invalidated.
FetchAccounts ==
    /\ SignedIn /\ fetch = None
    /\ fetch' = Ask
    /\ UNCHANGED <<backend, wire, session, switch, cache, history, faults>>

ServeFetch ==
    /\ fetch # None
    /\ fetch.stage = "sent"
    /\ fetch' = [fetch EXCEPT !.stage = IF Valid(fetch.token) THEN account ELSE "error"]
    /\ UNCHANGED <<backend, wire, session, switch, cache, history, faults>>

\* A fetch that fails (and its one retry) leaves the data.
Fetched ==
    /\ fetch # None
    /\ fetch.stage # "sent"
    /\ cache' = IF fetch.stage = "error" THEN cache
                ELSE [shows |-> fetch.stage, stale |-> FALSE]
    /\ fetch' = None
    /\ UNCHANGED <<backend, wire, session, switch, history, faults>>

\* For an account on the list: list leaves the revoked ones out.
Disconnect ==
    /\ SignedIn /\ cache # None /\ delete.stage = "idle"
    /\ cache.shows \in {"active", "reauth_required"}
    /\ delete' = Ask
    /\ UNCHANGED <<backend, callback, patches, session, switch, queries, history, faults>>

\* MailAccountService.disconnect; its steps are in MailAccount.
ServeDelete ==
    /\ delete.stage \in {"sent", "orphan"}
    /\ account' = IF Valid(delete.token) THEN "revoked" ELSE account
    /\ AddToSince
    /\ delete' = IF delete.stage = "orphan" THEN NotDeleting
                 ELSE [delete EXCEPT !.stage = IF Valid(delete.token) THEN "ok" ELSE "error"]
    /\ UNCHANGED <<flag, issued, expired, callback, patches, session, switch, queries, unseen, faults>>

\* Mutant: onSuccess invalidates without ending the fetch under way.
InvalidateOnly ==
    /\ cache' = IF cache = None THEN None ELSE [cache EXCEPT !.stale = TRUE]
    /\ UNCHANGED fetch

\* invalidateQueries: a fetch of what is cached starts anew, if a screen shows it.
Invalidate ==
    /\ cache' = IF cache = None THEN None ELSE [cache EXCEPT !.stale = TRUE]
    /\ fetch' = IF SignedIn /\ (cache # None \/ fetch = None) THEN Ask ELSE fetch

Disconnected ==
    /\ delete.stage = "ok"
    /\ delete' = NotDeleting
    /\ since' = IF SignedIn THEN {account} ELSE {}
    /\ Invalidate
    /\ UNCHANGED <<backend, callback, patches, session, switch, unseen, faults>>

DisconnectFailed ==
    /\ \/ delete.stage = "error" /\ UNCHANGED faults
       \/ delete.stage = "ok" /\ Fault                   \* the answer is lost
    /\ delete' = NotDeleting
    /\ UNCHANGED <<backend, callback, patches, session, switch, queries, history>>

-----------------------------------------------------------------------------
Next ==
    \/ ExpireSession \/ MarkReauthRequired
    \/ OpenApp \/ Restore \/ CloseApp \/ SignOut \/ DeleteItem \/ ClearToken
    \/ OpenBrowser \/ Consent \/ Callback \/ CloseBrowser \/ SetItem \/ SetToken
    \/ Toggle
    \/ \E p \in patches : ServePatch(p) \/ Saved(p) \/ SaveFailed(p) \/ LosePatch(p) \/ DropPatch(p)
    \/ FetchAccounts \/ ServeFetch \/ Fetched
    \/ Disconnect \/ ServeDelete \/ Disconnected \/ DisconnectFailed

Spec == Init /\ [][Next]_vars

-----------------------------------------------------------------------------
(* Once a save of the screen succeeded, its switch shows what dispatches go  *)
(* by whenever it is not saving: requests that overtake each other, errors,  *)
(* sign-outs and restarts in between leave the two apart only where the      *)
(* last request to reach the database is one the app had given up.           *)
SwitchShowsFlag == switch.known /\ ~ switch.saving => switch.enabled = flag \/ unseen

(* In the session that saw a disconnect succeed, a list that counts as       *)
(* current shows a status the account has had since, never the one before:   *)
(* not from a request that was under way, either.  The account may be listed *)
(* again all the same, where a connect, or the mark of a handler whose grant *)
(* was refused, came after the disconnect: then it is what the row says.     *)
(* (The cache outlives a sign-out, and then may show what was fetched late.) *)
DisconnectIsShown ==
    since # {} /\ cache # None /\ ~ cache.stale => cache.shows \in since

(* What the documentation says, and the code does not do: the consent page   *)
(* is how one signs in.                                                      *)
ConsentSignsIn == ~ At("refused")

=============================================================================
