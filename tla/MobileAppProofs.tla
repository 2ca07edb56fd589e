-------------------------- MODULE MobileAppProofs --------------------------
(* Theorems about MobileApp for every number of sessions, of requests under  *)
(* way and of faults.                                                        *)
EXTENDS MobileApp, TLAPS

USE MobileAssumption

(* A sign-in runs in the app of a user who is signed out, with the session   *)
(* it was given; a sign-out in that of one who is signed in.                 *)
TypeInv ==
    /\ TypeOK
    /\ flow.stage # "idle" => token = None
    /\ flow.stage \in {"storing", "setting"} => flow.token \in Sessions
    /\ flow.stage = "setting" => stored = flow.token
    /\ leaving # "no" => token # None

(* The app waits for one PATCH at most, the one its switch shows: answered,  *)
(* that is the flag; refused or not served, it is what the flag was not when *)
(* a save of the screen had succeeded.                                       *)
Awaited(p) == p \in patches /\ p.stage # "orphan"

SwitchInv ==
    /\ \A p, q \in patches : Awaited(p) /\ Awaited(q) => p = q
    /\ \A p \in patches : Awaited(p) => switch.saving /\ switch.enabled = p.next
    /\ \A p \in patches : p.stage = "ok" => flag = p.next \/ unseen
    /\ \A p \in patches :
          p.stage \in {"sent", "error"} /\ switch.known => flag = ~ p.next \/ unseen
    /\ SwitchShowsFlag

(* Who deletes an account has a list of accounts, and after a disconnect the *)
(* session saw succeed, no fetch brings the app an answer from before.       *)
ListInv ==
    /\ delete.stage \in {"sent", "ok", "error"} => cache # None
    /\ since # {} => /\ account \in since
                     /\ fetch = None \/ fetch.stage \in {"sent", "error"} \cup since
    /\ DisconnectIsShown

-----------------------------------------------------------------------------
(* The records the actions build.                                            *)
LEMMA OrphanFacts ==
    ASSUME NEW requests \in SUBSET Patch
    PROVE  /\ Orphans(requests) \subseteq Patch
           /\ \A p \in Orphans(requests) : p.stage = "orphan"
BY DEF Orphans, Patch

LEMMA RecordFacts ==
    /\ NotConnecting \in Flow /\ NotConnecting.stage = "idle"
    /\ NotDeleting \in Delete /\ NotDeleting.stage = "idle"
    /\ Mounted \in [enabled: BOOLEAN, saving: BOOLEAN, known: BOOLEAN]
    /\ Mounted.known = FALSE
BY DEF NotConnecting, NotDeleting, Mounted, Flow, Delete, Tokens

LEMMA AskFacts ==
    ASSUME TypeInv
    PROVE  /\ Ask \in Delete /\ Ask.stage = "sent"
           /\ SignedIn => Ask \in Fetch
BY DEF TypeInv, TypeOK, Ask, Delete, Fetch, SignedIn, Tokens

LEMMA FlowFacts ==
    ASSUME TypeInv, NEW s \in {"idle", "browser", "refused", "storing", "setting"}
    PROVE  /\ [flow EXCEPT !.stage = s] \in Flow
           /\ [flow EXCEPT !.stage = s].stage = s
           /\ [flow EXCEPT !.stage = s].token = flow.token
BY DEF TypeInv, TypeOK, Flow

LEMMA DeleteFacts ==
    ASSUME TypeInv, NEW s \in {"idle", "sent", "ok", "error", "orphan"}
    PROVE  /\ [delete EXCEPT !.stage = s] \in Delete
           /\ [delete EXCEPT !.stage = s].stage = s
BY DEF TypeInv, TypeOK, Delete

LEMMA FetchFacts ==
    ASSUME TypeInv, fetch # None, NEW s \in {"sent", "error"} \cup Statuses
    PROVE  /\ [fetch EXCEPT !.stage = s] \in Fetch
           /\ [fetch EXCEPT !.stage = s].stage = s
BY DEF TypeInv, TypeOK, Fetch

LEMMA PatchFacts ==
    ASSUME NEW p \in Patch, NEW s \in {"sent", "ok", "error", "orphan"}
    PROVE  /\ [p EXCEPT !.stage = s] \in Patch
           /\ [p EXCEPT !.stage = s].stage = s
           /\ [p EXCEPT !.stage = s].next = p.next
BY DEF Patch

LEMMA StaleFacts ==
    ASSUME TypeInv, cache # None
    PROVE  /\ [cache EXCEPT !.stale = TRUE] \in Lists
           /\ [cache EXCEPT !.stale = TRUE].stale
BY DEF TypeInv, TypeOK, Lists

LEMMA ToggleFacts ==
    ASSUME TypeInv, Toggle
    PROVE  /\ \E p \in Patch : /\ patches' = patches \cup {p}
                              /\ p.next = ~ switch.enabled /\ p.stage = "sent"
           /\ switch' \in [enabled: BOOLEAN, saving: BOOLEAN, known: BOOLEAN]
           /\ switch'.enabled = ~ switch.enabled /\ switch'.saving /\ ~ switch.saving
           /\ switch'.known = switch.known
<1>1. token \in Sessions /\ switch.enabled \in BOOLEAN
  BY DEF Toggle, SignedIn, TypeInv, TypeOK, Tokens
<1>2. PICK off \in BOOLEAN : off = ~ switch.enabled
  BY <1>1
<1>3. /\ patches' = patches \cup {[token |-> token, next |-> off, stage |-> "sent"]}
      /\ switch' = [switch EXCEPT !.enabled = off, !.saving = TRUE] /\ ~ switch.saving
  BY <1>2 DEF Toggle
<1>4. [token |-> token, next |-> off, stage |-> "sent"] \in Patch
  BY <1>1 DEF Patch
<1> QED
  BY <1>2, <1>3, <1>4 DEF TypeInv, TypeOK

LEMMA RevertFacts ==
    ASSUME TypeInv, NEW p \in Patch
    PROVE  /\ Revert(p) \in [enabled: BOOLEAN, saving: BOOLEAN, known: BOOLEAN]
           /\ Revert(p).enabled = ~ p.next /\ Revert(p).saving = FALSE
           /\ Revert(p).known = switch.known
BY DEF TypeInv, TypeOK, Revert, Patch

LEMMA SinceFacts ==
    ASSUME TypeInv, AddToSince, account' \in Statuses
    PROVE  /\ since \subseteq since' /\ since' \subseteq Statuses
           /\ since = {} => since' = {}
           /\ since # {} => account' \in since'
BY DEF AddToSince, TypeInv, TypeOK

-----------------------------------------------------------------------------
(* The types, in parts: one for the actions of each screen to disturb.       *)
LEMMA TypeInit == Init => TypeInv
<1> SUFFICES ASSUME Init PROVE TypeInv
  OBVIOUS
<1>1. /\ flow \in Flow /\ flow.stage = "idle" /\ delete \in Delete
      /\ switch \in [enabled: BOOLEAN, saving: BOOLEAN, known: BOOLEAN]
  BY RecordFacts DEF Init
<1>2. /\ account \in Statuses /\ flag \in BOOLEAN /\ unseen \in BOOLEAN /\ since \subseteq Statuses
      /\ issued \in 0..MaxSessions /\ expired \subseteq 1..issued /\ faults \in 0..MaxFaults
  <2>1. account \in Statuses /\ flag \in BOOLEAN /\ unseen \in BOOLEAN /\ since \subseteq Statuses
    BY DEF Init, Statuses
  <2>2. issued \in 0..MaxSessions /\ faults \in 0..MaxFaults
    <3>1. MaxSessions \in Nat /\ MaxFaults \in Nat
      OBVIOUS
    <3> QED
      BY <3>1 DEF Init
  <2>3. expired \subseteq 1..issued
    BY DEF Init
  <2> QED
    BY <2>1, <2>2, <2>3
<1>3. /\ stored \in Tokens /\ token \in Tokens /\ token = None
  BY DEF Init, Tokens
<1>4. /\ callback = "none" /\ patches = {} /\ phase = "closed" /\ flow = NotConnecting
      /\ leaving = "no" /\ cache = None /\ fetch = None
  BY DEF Init
<1>5. TypeOK
  BY <1>1, <1>2, <1>3, <1>4 DEF TypeOK
<1> QED
  BY <1>1, <1>3, <1>4, <1>5 DEF TypeInv

(* The backend, the lists and the disconnect know nothing of the session.    *)
LEMMA TypeOfSession ==
    ASSUME TypeInv,
           \/ OpenApp \/ Restore \/ CloseApp \/ SignOut \/ DeleteItem \/ ClearToken
           \/ OpenBrowser \/ Consent \/ Callback \/ CloseBrowser \/ SetItem \/ SetToken
    PROVE  TypeInv'
<1> USE DEF TypeInv
<1>1. CASE OpenApp
  BY <1>1 DEF OpenApp, TypeOK, backend, wire, queries, history
<1>2. CASE Restore
  BY <1>2, RecordFacts DEF Restore, Fault, TypeOK, backend, wire, queries, history
<1>3. ASSUME Unmount PROVE /\ patches' \subseteq Patch /\ unseen' \in BOOLEAN /\ since' = {}
                           /\ switch' \in [enabled: BOOLEAN, saving: BOOLEAN, known: BOOLEAN]
  <2>1. patches' \subseteq Patch
    BY <1>3, OrphanFacts DEF Unmount, TypeOK
  <2>2. unseen' \in BOOLEAN
    BY <1>3 DEF Unmount, Unseen, TypeOK
  <2> QED
    BY <1>3, <2>1, <2>2, RecordFacts DEF Unmount
<1>4. CASE CloseApp
  <2>1. delete' \in Delete
    BY <1>4, DeleteFacts, RecordFacts DEF CloseApp, TypeOK
  <2>2. flow' = NotConnecting /\ flow'.stage = "idle" /\ flow' \in Flow
    BY <1>4, RecordFacts DEF CloseApp
  <2>3. /\ patches' \subseteq Patch /\ unseen' \in BOOLEAN /\ since' = {}
        /\ switch' \in [enabled: BOOLEAN, saving: BOOLEAN, known: BOOLEAN]
    BY <1>3, <1>4 DEF CloseApp
  <2> QED
    BY <1>4, <2>1, <2>2, <2>3 DEF CloseApp, TypeOK, backend, Tokens
<1>5. CASE SignOut
  BY <1>5 DEF SignOut, SignedIn, TypeOK, backend, wire, queries, history
<1>6. CASE DeleteItem
  BY <1>6 DEF DeleteItem, Fault, TypeOK, Tokens, backend, wire, queries, history
<1>7. CASE ClearToken
  <2>1. /\ patches' \subseteq Patch /\ unseen' \in BOOLEAN /\ since' = {}
        /\ switch' \in [enabled: BOOLEAN, saving: BOOLEAN, known: BOOLEAN]
    BY <1>3, <1>7 DEF ClearToken
  <2> QED
    BY <1>7, <2>1 DEF ClearToken, TypeOK, backend, queries, Tokens
<1>8. CASE OpenBrowser
  <2>1. flow' \in Flow /\ flow'.stage = "browser" /\ phase = "ready"
    BY <1>8, FlowFacts DEF OpenBrowser, Connecting
  <2> QED
    BY <1>8, <2>1 DEF OpenBrowser, SignedIn, TypeOK, backend, wire, queries, history
<1>9. CASE Consent
  BY <1>9 DEF Consent, TypeOK, backend, session, queries, history
<1>10. CASE Callback
  <2>1. CASE callback = "stale" \/ account = "active"
    <3>1. UNCHANGED <<account, issued, since>>
      BY <1>10, <2>1 DEF Callback
    <3>2. flow' = flow \/ (flow' = [flow EXCEPT !.stage = "refused"] /\ At("browser"))
      BY <1>10, <2>1 DEF Callback
    <3>3. /\ flow' \in Flow /\ (flow'.stage # "idle" => flow.stage # "idle")
          /\ flow'.stage \in {"storing", "setting"} => flow' = flow
          /\ flow = NotConnecting => flow' = NotConnecting
      BY <3>2, FlowFacts, RecordFacts DEF At, TypeOK
    <3> QED
      BY <1>10, <3>1, <3>3 DEF Callback, TypeOK, queries
  <2>2. CASE ~ (callback = "stale" \/ account = "active")
    <3>1. /\ issued < MaxSessions /\ issued' = issued + 1 /\ account' = "active"
          /\ AddToSince /\ expired' = expired
          /\ flow' = flow \/ (At("browser") /\ flow' = [stage |-> "storing", token |-> issued'])
      BY <1>10, <2>2 DEF Callback
    <3>4. account' \in Statuses /\ since' \subseteq Statuses
      BY <3>1, SinceFacts DEF Statuses
    <3>2. issued' \in Sessions /\ issued' \in 0..MaxSessions /\ expired' \subseteq 1..issued'
      BY <3>1 DEF TypeOK, Sessions
    <3>3. /\ flow' \in Flow /\ (flow'.stage # "idle" => flow.stage # "idle")
          /\ flow'.stage \in {"storing", "setting"} => flow'.token \in Sessions
          /\ flow'.stage = "setting" => flow' = flow
          /\ flow = NotConnecting => flow' = NotConnecting
      BY <3>1, <3>2, RecordFacts DEF At, TypeOK, Flow, Tokens
    <3> QED
      BY <1>10, <3>1, <3>2, <3>3, <3>4, ZenonT(60) DEF Callback, TypeOK, queries
  <2> QED
    BY <2>1, <2>2
<1>11. CASE CloseBrowser
  BY <1>11, RecordFacts DEF CloseBrowser, TypeOK, backend, wire, queries, history
<1>12. CASE SetItem
  <2>1. flow.stage = "storing" /\ flow.token \in Sessions /\ token = None /\ leaving = "no"
    BY <1>12 DEF SetItem, At, TypeOK
  <2>2. stored' \in Tokens /\ faults' \in 0..MaxFaults
    BY <1>12, <2>1 DEF SetItem, Fault, TypeOK, Tokens
  <2>3. \/ flow' = NotConnecting
        \/ flow' = [flow EXCEPT !.stage = "setting"] /\ stored' = flow.token
    BY <1>12 DEF SetItem, Connecting
  <2>4. flow' \in Flow /\ flow'.stage \in {"idle", "setting"}
        /\ (flow'.stage = "setting" => flow'.token = flow.token /\ stored' = flow.token)
    BY <2>3, FlowFacts, RecordFacts
  <2>5. phase = "ready"
    BY <2>1, RecordFacts DEF TypeOK
  <2> QED
    BY <1>12, <2>1, <2>2, <2>4, <2>5 DEF SetItem, TypeOK, backend, wire, queries, history
<1>13. CASE SetToken
  <2>1. flow.stage = "setting" /\ flow.token \in Sessions /\ stored = flow.token /\ leaving = "no"
    BY <1>13 DEF SetToken, At, TypeOK
  <2>2. phase = "ready"
    BY <2>1, RecordFacts DEF TypeOK
  <2> QED
    BY <1>13, <2>1, <2>2, RecordFacts DEF SetToken, TypeOK, Tokens, backend, wire, queries, history
<1> QED
  BY <1>1, <1>2, <1>4, <1>5, <1>6, <1>7, <1>8, <1>9, <1>10, <1>11, <1>12, <1>13

LEMMA TypeOfScreens ==
    ASSUME TypeInv,
           \/ ExpireSession \/ MarkReauthRequired \/ Toggle
           \/ \E p \in patches :
                 ServePatch(p) \/ Saved(p) \/ SaveFailed(p) \/ LosePatch(p) \/ DropPatch(p)
           \/ FetchAccounts \/ ServeFetch \/ Fetched
           \/ Disconnect \/ ServeDelete \/ Disconnected \/ DisconnectFailed
    PROVE  TypeInv'
<1> USE DEF TypeInv
<1>1. CASE ExpireSession
  BY <1>1 DEF ExpireSession, TypeOK, wire, session, queries, history
<1>2. CASE MarkReauthRequired
  <2>1. account' \in Statuses /\ since' \subseteq Statuses
    BY <1>2, SinceFacts DEF MarkReauthRequired, Statuses
  <2> QED
    BY <1>2, <2>1 DEF MarkReauthRequired, TypeOK, wire, session, queries
<1>3. CASE Toggle
  <2>1. patches' \subseteq Patch
    BY <1>3, ToggleFacts DEF TypeOK
  <2>2. switch' \in [enabled: BOOLEAN, saving: BOOLEAN, known: BOOLEAN]
    BY <1>3, ToggleFacts
  <2> QED
    BY <1>3, <2>1, <2>2 DEF Toggle, TypeOK, backend, session, queries, history
<1>4. ASSUME NEW p \in patches, ServePatch(p) PROVE TypeInv'
  <2>1. p \in Patch
    BY DEF TypeOK
  <2>2. patches' \subseteq Patch
    BY <1>4, <2>1, PatchFacts DEF ServePatch, TypeOK
  <2>3. flag' \in BOOLEAN /\ unseen' \in BOOLEAN
    BY <1>4, <2>1 DEF ServePatch, TypeOK, Patch
  <2> QED
    BY <1>4, <2>2, <2>3 DEF ServePatch, TypeOK, session, queries
<1>5. ASSUME NEW p \in patches, Saved(p) PROVE TypeInv'
  <2>1. switch' \in [enabled: BOOLEAN, saving: BOOLEAN, known: BOOLEAN]
    BY <1>5 DEF Saved, TypeOK
  <2> QED
    BY <1>5, <2>1 DEF Saved, TypeOK, backend, session, queries, history
<1>6. ASSUME NEW p \in patches, SaveFailed(p) PROVE TypeInv'
  <2>1. switch' \in [enabled: BOOLEAN, saving: BOOLEAN, known: BOOLEAN]
    BY <1>6, RevertFacts DEF SaveFailed, TypeOK
  <2> QED
    BY <1>6, <2>1 DEF SaveFailed, TypeOK, backend, session, queries, history
<1>7. ASSUME NEW p \in patches, LosePatch(p) PROVE TypeInv'
  <2>1. switch' \in [enabled: BOOLEAN, saving: BOOLEAN, known: BOOLEAN]
    BY <1>7, RevertFacts DEF LosePatch, TypeOK
  <2>2. patches' \subseteq Patch
    <3>1. {p} \in SUBSET Patch
      BY DEF TypeOK
    <3> QED
      BY <1>7, <3>1, OrphanFacts DEF LosePatch, TypeOK
  <2>3. unseen' \in BOOLEAN /\ faults' \in 0..MaxFaults
    BY <1>7 DEF LosePatch, Fault, TypeOK
  <2> QED
    BY <1>7, <2>1, <2>2, <2>3 DEF LosePatch, TypeOK, backend, session, queries
<1>8. ASSUME NEW p \in patches, DropPatch(p) PROVE TypeInv'
  BY <1>8 DEF DropPatch, TypeOK, backend, session, queries, history
<1>9. CASE FetchAccounts
  BY <1>9, AskFacts DEF FetchAccounts, TypeOK, backend, wire, session, history
<1>10. CASE ServeFetch
  <2>1. fetch' \in Fetch
    BY <1>10, FetchFacts DEF ServeFetch, TypeOK
  <2> QED
    BY <1>10, <2>1 DEF ServeFetch, TypeOK, backend, wire, session, history
<1>11. CASE Fetched
  <2>1. cache' \in Lists \cup {None}
    BY <1>11 DEF Fetched, TypeOK, Lists, Fetch
  <2> QED
    BY <1>11, <2>1 DEF Fetched, TypeOK, backend, wire, session, history
<1>12. CASE Disconnect
  BY <1>12, AskFacts DEF Disconnect, TypeOK, backend, session, queries, history
<1>13. CASE ServeDelete
  <2>1. delete' \in Delete
    BY <1>13, DeleteFacts, RecordFacts DEF ServeDelete
  <2>2. account' \in Statuses
    BY <1>13 DEF ServeDelete, TypeOK, Statuses
  <2>3. since' \subseteq Statuses
    BY <1>13, <2>2, SinceFacts DEF ServeDelete
  <2> QED
    BY <1>13, <2>1, <2>2, <2>3 DEF ServeDelete, TypeOK, session, queries
<1>14. CASE Disconnected
  <2>1. cache' \in Lists \cup {None}
    BY <1>14, StaleFacts DEF Disconnected, Invalidate
  <2>2. fetch' = None \/ fetch' \in Fetch
    BY <1>14, AskFacts DEF Disconnected, Invalidate, TypeOK
  <2>3. since' \subseteq Statuses
    BY <1>14 DEF Disconnected, TypeOK
  <2> QED
    BY <1>14, <2>1, <2>2, <2>3, RecordFacts DEF Disconnected, TypeOK, backend, session
<1>15. CASE DisconnectFailed
  BY <1>15, RecordFacts DEF DisconnectFailed, Fault, TypeOK, backend, session, queries, history
<1> QED
  BY <1>1, <1>2, <1>3, <1>4, <1>5, <1>6, <1>7, <1>8, <1>9, <1>10, <1>11, <1>12, <1>13,
     <1>14, <1>15

LEMMA TypeStep == TypeInv /\ [Next]_vars => TypeInv'
<1> SUFFICES ASSUME TypeInv, [Next]_vars PROVE TypeInv'
  OBVIOUS
<1>1. CASE UNCHANGED vars
  BY <1>1 DEF vars, backend, wire, session, queries, history, TypeInv, TypeOK
<1>2. CASE Next
  BY <1>2, TypeOfSession, TypeOfScreens DEF Next
<1> QED
  BY <1>1, <1>2

(* A sign-in under way is that of a user who is signed out and has the       *)
(* session it was given in the keychain before the app goes by it; a         *)
(* sign-out is that of a user who is signed in.                              *)
THEOREM TypeCorrect == Spec => []TypeInv
<1>1. Init => TypeInv
  BY TypeInit
<1>2. TypeInv /\ [Next]_vars => TypeInv'
  BY TypeStep
<1> QED
  BY <1>1, <1>2, PTL DEF Spec

(* The backend, the requests and the app keep their types; a signed-in app's *)
(* token is the one in the keychain, but between the two steps of signOut.   *)
THEOREM TypesHold == Spec => []TypeOK
<1>1. TypeInv => TypeOK
  BY DEF TypeInv
<1> QED
  BY <1>1, TypeCorrect, PTL

-----------------------------------------------------------------------------
LEMMA SwitchInit == Init => SwitchInv
<1> SUFFICES ASSUME Init PROVE SwitchInv
  OBVIOUS
<1>1. patches = {} /\ switch.known = FALSE
  BY RecordFacts DEF Init
<1> QED
  BY <1>1 DEF SwitchInv, SwitchShowsFlag

(* With its screen gone the app waits for no request, and knows nothing.     *)
LEMMA UnmountStep == TypeInv /\ Unmount => SwitchInv'
<1> SUFFICES ASSUME TypeInv, Unmount PROVE SwitchInv'
  OBVIOUS
<1>1. \A p \in patches' : p.stage = "orphan"
  BY OrphanFacts DEF Unmount, TypeInv, TypeOK
<1>2. switch'.known = FALSE
  BY RecordFacts DEF Unmount
<1> QED
  BY <1>1, <1>2 DEF SwitchInv, SwitchShowsFlag, Awaited

LEMMA ToggleStep ==
    ASSUME TypeInv, SwitchInv, Toggle
    PROVE  SwitchInv'
<1>1. PICK new \in Patch : /\ patches' = patches \cup {new}
                           /\ new.next = ~ switch.enabled /\ new.stage = "sent"
  BY ToggleFacts
<1>2. /\ switch'.enabled = new.next /\ switch'.saving /\ ~ switch.saving
      /\ switch'.known = switch.known
  BY <1>1, ToggleFacts
<1>3. \A p \in patches : p.stage = "orphan"
  BY <1>2 DEF SwitchInv, Awaited
<1>4. flag' = flag /\ unseen' = unseen
  BY DEF Toggle, backend, history
<1>5. switch.known => switch.enabled = flag \/ unseen
  BY <1>2 DEF SwitchInv, SwitchShowsFlag
<1>6. switch'.known => flag' = ~ new.next \/ unseen'
  <2>1. switch.enabled \in BOOLEAN /\ flag \in BOOLEAN
    BY DEF TypeInv, TypeOK
  <2>2. ASSUME switch.known, ~ unseen PROVE flag = ~ new.next
    BY <1>1, <1>5, <2>1, <2>2, Zenon
  <2> QED
    BY <1>2, <1>4, <2>2
<1>7. \A p \in patches' : p.stage = "orphan" \/ p = new
  BY <1>1, <1>3
<1>8. \A p, q \in patches' : Awaited(p)' /\ Awaited(q)' => p = q
  BY <1>7 DEF Awaited
<1>9. \A p \in patches' : Awaited(p)' => switch'.saving /\ switch'.enabled = p.next
  BY <1>2, <1>7 DEF Awaited
<1>10. \A p \in patches' : p.stage # "ok"
  BY <1>1, <1>7
<1>11. \A p \in patches' : p.stage \in {"sent", "error"} /\ switch'.known
                              => flag' = ~ p.next \/ unseen'
  BY <1>6, <1>7
<1>12. SwitchShowsFlag'
  BY <1>2 DEF SwitchShowsFlag
<1> QED
  BY <1>8, <1>9, <1>10, <1>11, <1>12 DEF SwitchInv

(* When the answer the switch waits for has come, or will not come.          *)
LEMMA AnsweredStep ==
    ASSUME TypeInv, SwitchInv, NEW p \in patches, Awaited(p),
           \A q \in patches' : q.stage # "orphan" => q \in patches \ {p},
           switch'.known => switch'.enabled = flag' \/ unseen'
    PROVE  SwitchInv'
<1>1. \A q \in patches' : q.stage = "orphan"
  BY DEF SwitchInv, Awaited
<1> QED
  BY <1>1 DEF SwitchInv, SwitchShowsFlag, Awaited

LEMMA ServeStep ==
    ASSUME TypeInv, SwitchInv, NEW p \in patches, ServePatch(p)
    PROVE  SwitchInv'
<1>1. p \in Patch /\ switch' = switch
  BY DEF ServePatch, TypeInv, TypeOK
<1>2. CASE p.stage = "orphan"
  <2>1. /\ patches' \subseteq patches
        /\ UNCHANGED <<flag, unseen>> \/ unseen'
    BY <1>2 DEF ServePatch
  <2>2. CASE unseen'
    BY <1>1, <2>1, <2>2 DEF SwitchInv, SwitchShowsFlag, Awaited
  <2>3. CASE UNCHANGED <<flag, unseen>>
    BY <1>1, <2>1, <2>3 DEF SwitchInv, SwitchShowsFlag, Awaited
  <2> QED
    BY <2>1, <2>2, <2>3
<1>3. CASE p.stage # "orphan"
  <2>1. Awaited(p) /\ p.stage = "sent"
    BY <1>3 DEF ServePatch, Awaited
  <2>2. PICK answered \in Patch :
           /\ patches' = (patches \ {p}) \cup {answered} /\ answered.next = p.next
           /\ \/ answered.stage = "ok" /\ flag' = p.next
              \/ answered.stage = "error" /\ UNCHANGED <<flag, unseen>>
    <3>1. CASE Valid(p.token)
      <4>1. /\ patches' = (patches \ {p}) \cup {[p EXCEPT !.stage = "ok"]}
            /\ flag' = p.next
        BY <1>3, <3>1 DEF ServePatch
      <4> QED
        BY <1>1, <4>1, PatchFacts
    <3>2. CASE ~ Valid(p.token)
      <4>1. /\ patches' = (patches \ {p}) \cup {[p EXCEPT !.stage = "error"]}
            /\ UNCHANGED <<flag, unseen>>
        BY <1>3, <3>2 DEF ServePatch
      <4> QED
        BY <1>1, <4>1, PatchFacts
    <3> QED
      BY <3>1, <3>2
  <2>3. \A q \in patches' : q.stage = "orphan" \/ q = answered
    BY <2>1, <2>2 DEF SwitchInv, Awaited
  <2>4. switch.saving /\ switch.enabled = answered.next
    BY <2>1, <2>2 DEF SwitchInv
  <2>5. answered.stage = "error" /\ switch.known => flag' = ~ answered.next \/ unseen'
    BY <2>1, <2>2 DEF SwitchInv
  <2>6. answered.stage = "ok" => flag' = answered.next \/ unseen'
    BY <2>2
  <2>7. \A q, r \in patches' : Awaited(q)' /\ Awaited(r)' => q = r
    BY <2>3 DEF Awaited
  <2>8. \A q \in patches' : Awaited(q)' => switch'.saving /\ switch'.enabled = q.next
    BY <1>1, <2>3, <2>4 DEF Awaited
  <2>9. \A q \in patches' : q.stage = "ok" => flag' = q.next \/ unseen'
    BY <2>3, <2>6
  <2>10. \A q \in patches' :
            q.stage \in {"sent", "error"} /\ switch'.known => flag' = ~ q.next \/ unseen'
    BY <1>1, <2>2, <2>3, <2>5
  <2>11. SwitchShowsFlag'
    BY <1>1, <2>4 DEF SwitchShowsFlag
  <2> QED
    BY <2>7, <2>8, <2>9, <2>10, <2>11 DEF SwitchInv
<1> QED
  BY <1>2, <1>3

LEMMA AnswerSteps ==
    ASSUME TypeInv, SwitchInv, NEW p \in patches,
           Saved(p) \/ SaveFailed(p) \/ LosePatch(p)
    PROVE  SwitchInv'
<1>1. Awaited(p) /\ p \in Patch
  BY DEF Saved, SaveFailed, LosePatch, Awaited, TypeInv, TypeOK
<1>2. switch.saving /\ switch.enabled = p.next
  BY <1>1 DEF SwitchInv
<1>3. CASE Saved(p)
  <2>1. patches' = patches \ {p} /\ UNCHANGED <<flag, unseen>>
    BY <1>3 DEF Saved, backend, history
  <2>2. switch'.enabled = p.next
    BY <1>2, <1>3 DEF Saved, TypeInv, TypeOK
  <2>3. flag = p.next \/ unseen
    BY <1>3 DEF Saved, SwitchInv
  <2>4. switch'.enabled = flag' \/ unseen'
    BY <2>1, <2>2, <2>3
  <2> QED
    BY <1>1, <2>1, <2>4, AnsweredStep
<1>4. CASE SaveFailed(p)
  <2>1. patches' = patches \ {p} /\ UNCHANGED <<flag, unseen>> /\ p.stage = "error"
    BY <1>4 DEF SaveFailed, backend, history
  <2>2. switch'.enabled = ~ p.next /\ switch'.known = switch.known
    BY <1>1, <1>4, RevertFacts DEF SaveFailed
  <2>3. switch.known => flag = ~ p.next \/ unseen
    BY <2>1 DEF SwitchInv
  <2>4. switch'.known => switch'.enabled = flag' \/ unseen'
    BY <2>1, <2>2, <2>3
  <2> QED
    BY <1>1, <2>1, <2>4, AnsweredStep
<1>5. CASE LosePatch(p)
  <2>1. /\ patches' = (patches \ {p}) \cup Orphans({p}) /\ flag' = flag
        /\ unseen' = (unseen \/ p.stage = "ok") /\ p.stage \in {"sent", "ok"}
    BY <1>5 DEF LosePatch, backend
  <2>2. \A q \in patches' : q.stage # "orphan" => q \in patches \ {p}
    <3>1. {p} \in SUBSET Patch
      BY <1>1
    <3> QED
      BY <2>1, <3>1, OrphanFacts
  <2>3. switch'.enabled = ~ p.next /\ switch'.known = switch.known
    BY <1>1, <1>5, RevertFacts DEF LosePatch
  <2>4. p.stage = "sent" /\ switch.known => flag = ~ p.next \/ unseen
    BY DEF SwitchInv
  <2>5. switch'.known => switch'.enabled = flag' \/ unseen'
    <3>1. CASE p.stage = "ok"
      BY <2>1, <3>1
    <3>2. CASE p.stage = "sent"
      BY <2>1, <2>3, <2>4, <3>2
    <3> QED
      BY <2>1, <3>1, <3>2
  <2> QED
    BY <1>1, <2>2, <2>5, AnsweredStep
<1> QED
  BY <1>3, <1>4, <1>5

LEMMA SwitchStep == TypeInv /\ SwitchInv /\ [Next]_vars => SwitchInv'
<1> SUFFICES ASSUME TypeInv, SwitchInv, [Next]_vars PROVE SwitchInv'
  OBVIOUS
<1>1. ASSUME patches' \subseteq patches, UNCHANGED <<flag, switch, unseen>> PROVE SwitchInv'
  BY <1>1 DEF SwitchInv, SwitchShowsFlag, Awaited
<1>2. CASE UNCHANGED vars
  BY <1>1, <1>2 DEF vars, backend, wire, history
<1>3. CASE ExpireSession \/ MarkReauthRequired \/ OpenApp \/ Restore \/ SignOut \/ DeleteItem
  BY <1>1, <1>3 DEF ExpireSession, MarkReauthRequired, OpenApp, Restore, SignOut, DeleteItem,
                    backend, wire, history
<1>4. CASE CloseApp \/ ClearToken
  BY <1>4, UnmountStep DEF CloseApp, ClearToken
<1>5. CASE OpenBrowser \/ Consent \/ Callback \/ CloseBrowser \/ SetItem \/ SetToken
  BY <1>1, <1>5 DEF OpenBrowser, Consent, Callback, CloseBrowser, SetItem, SetToken,
                    backend, wire, history
<1>6. CASE Toggle
  BY <1>6, ToggleStep
<1>7. ASSUME NEW p \in patches,
             ServePatch(p) \/ Saved(p) \/ SaveFailed(p) \/ LosePatch(p) \/ DropPatch(p)
      PROVE  SwitchInv'
  <2>1. CASE DropPatch(p)
    BY <1>1, <2>1 DEF DropPatch, backend, history
  <2> QED
    BY <1>7, <2>1, ServeStep, AnswerSteps
<1>8. CASE FetchAccounts \/ ServeFetch \/ Fetched \/ Disconnect \/ ServeDelete
           \/ Disconnected \/ DisconnectFailed
  BY <1>1, <1>8 DEF FetchAccounts, ServeFetch, Fetched, Disconnect, ServeDelete,
                    Disconnected, DisconnectFailed, backend, wire, history
<1> QED
  BY <1>2, <1>3, <1>4, <1>5, <1>6, <1>7, <1>8 DEF Next

-----------------------------------------------------------------------------
LEMMA ListInit == Init => ListInv
BY RecordFacts DEF Init, ListInv, DisconnectIsShown

LEMMA ListStep == TypeInv /\ ListInv /\ [Next]_vars => ListInv'
<1> SUFFICES ASSUME TypeInv, ListInv, [Next]_vars PROVE ListInv'
  OBVIOUS
<1> USE DEF ListInv, DisconnectIsShown
<1>1. ASSUME UNCHANGED <<cache, fetch, delete, since, account>> PROVE ListInv'
  BY <1>1
<1>2. CASE UNCHANGED vars
  BY <1>1, <1>2 DEF vars, backend, wire, queries, history
<1>3. CASE ExpireSession \/ OpenApp \/ Restore \/ SignOut \/ DeleteItem
           \/ OpenBrowser \/ Consent \/ CloseBrowser \/ SetItem \/ SetToken
  BY <1>1, <1>3 DEF ExpireSession, OpenApp, Restore, SignOut, DeleteItem, OpenBrowser,
                    Consent, CloseBrowser, SetItem, SetToken, backend, wire, queries, history
<1>4. CASE MarkReauthRequired
  <2>1. account' \in Statuses /\ AddToSince /\ UNCHANGED <<cache, fetch, delete>>
    BY <1>4 DEF MarkReauthRequired, Statuses, wire, queries
  <2> QED
    BY <2>1, SinceFacts
<1>5. CASE CloseApp
  <2>1. delete'.stage \in {"idle", "orphan"} /\ since' = {}
    BY <1>5, DeleteFacts, RecordFacts DEF CloseApp, Unmount
  <2> QED
    BY <2>1
<1>6. CASE ClearToken
  BY <1>6 DEF ClearToken, Unmount, queries
<1>7. CASE Callback
  <2>1. UNCHANGED <<cache, fetch, delete>>
    BY <1>7 DEF Callback, queries
  <2>2. UNCHANGED <<account, since>> \/ (account' \in Statuses /\ AddToSince)
    BY <1>7 DEF Callback, Statuses
  <2> QED
    BY <1>1, <2>1, <2>2, SinceFacts
<1>8. CASE Toggle \/ \E p \in patches : ServePatch(p) \/ Saved(p) \/ SaveFailed(p)
                                        \/ LosePatch(p) \/ DropPatch(p)
  BY <1>1, <1>8 DEF Toggle, ServePatch, Saved, SaveFailed, LosePatch, DropPatch,
                    backend, queries, history
<1>9. CASE FetchAccounts
  BY <1>9, AskFacts DEF FetchAccounts, backend, wire, history
<1>10. CASE ServeFetch
  <2>1. fetch'.stage \in {account, "error"}
    <3>1. PICK s \in {account, "error"} : fetch' = [fetch EXCEPT !.stage = s]
      BY <1>10 DEF ServeFetch
    <3>2. s \in {"sent", "error"} \cup Statuses
      BY DEF TypeInv, TypeOK
    <3> QED
      BY <1>10, <3>1, <3>2, FetchFacts DEF ServeFetch
  <2> QED
    BY <1>10, <2>1 DEF ServeFetch, backend, wire, history
<1>11. CASE Fetched
  <2>1. CASE fetch.stage = "error"
    BY <1>11, <2>1 DEF Fetched, backend, wire, history
  <2>2. CASE fetch.stage # "error"
    <3>1. /\ cache' = [shows |-> fetch.stage, stale |-> FALSE] /\ fetch.stage \in Statuses
          /\ fetch # None /\ fetch.stage # "sent"
      BY <1>11, <2>2 DEF Fetched, TypeInv, TypeOK, Fetch
    <3>2. cache' # None
      <4>1. [shows |-> fetch.stage, stale |-> FALSE] \in Lists
        BY <3>1 DEF Lists
      <4> QED
        BY <3>1, <4>1
    <3>3. fetch' = None /\ UNCHANGED <<delete, since, account>>
      BY <1>11 DEF Fetched, backend, wire, history
    <3>4. since # {} => fetch.stage \in since
      BY <2>2, <3>1
    <3> QED
      BY <3>1, <3>2, <3>3, <3>4
  <2> QED
    BY <2>1, <2>2
<1>12. CASE Disconnect
  BY <1>12 DEF Disconnect, backend, queries, history
<1>13. CASE ServeDelete
  <2>1. delete'.stage \in {"idle", "ok", "error"} /\ (delete'.stage # "idle" => delete.stage = "sent")
    BY <1>13, DeleteFacts, RecordFacts DEF ServeDelete
  <2>2. account' \in Statuses /\ AddToSince /\ UNCHANGED <<cache, fetch>>
    BY <1>13 DEF ServeDelete, Statuses, TypeInv, TypeOK, queries
  <2> QED
    BY <2>1, <2>2, SinceFacts
<1>14. CASE Disconnected
  <2>1. cache # None /\ delete'.stage = "idle" /\ account' = account
    BY <1>14, RecordFacts DEF Disconnected, backend
  <2>2. cache' = [cache EXCEPT !.stale = TRUE] /\ cache'.stale
    BY <1>14, <2>1, StaleFacts DEF Disconnected, Invalidate
  <2>3. since' # {} => fetch' = Ask /\ since' = {account}
    BY <1>14, <2>1 DEF Disconnected, Invalidate
  <2> QED
    BY <2>1, <2>2, <2>3, AskFacts
<1>15. CASE DisconnectFailed
  BY <1>15, RecordFacts DEF DisconnectFailed, backend, queries, history
<1> QED
  BY <1>2, <1>3, <1>4, <1>5, <1>6, <1>7, <1>8, <1>9, <1>10, <1>11, <1>12, <1>13, <1>14, <1>15
  DEF Next

-----------------------------------------------------------------------------
(* The inductive invariant of the switch: the app waits for one PATCH at     *)
(* most, and knows what the flag is when it is answered, refused or given up.*)
THEOREM SwitchInvariant == Spec => []SwitchInv
<1>1. Init => SwitchInv
  BY SwitchInit
<1>2. TypeInv /\ SwitchInv /\ [Next]_vars => SwitchInv'
  BY SwitchStep
<1> QED
  BY <1>1, <1>2, TypeCorrect, PTL DEF Spec

(* Once a save of the screen succeeded, the switch and users.notifications-  *)
(* Enabled are apart only while it saves or after a PATCH the app gave up.   *)
THEOREM SwitchIsTheFlag == Spec => []SwitchShowsFlag
<1>1. SwitchInv => SwitchShowsFlag
  BY DEF SwitchInv
<1> QED
  BY <1>1, SwitchInvariant, PTL

(* The inductive invariant of the account list: no fetch that began before   *)
(* a disconnect the session saw succeed reaches its cache.                   *)
THEOREM ListInvariant == Spec => []ListInv
<1>1. Init => ListInv
  BY ListInit
<1>2. TypeInv /\ ListInv /\ [Next]_vars => ListInv'
  BY ListStep
<1> QED
  BY <1>1, <1>2, TypeCorrect, PTL DEF Spec

(* In the session that saw a disconnect succeed, a list that counts as       *)
(* current shows a status the account has had since, never the one before.   *)
THEOREM DisconnectsAreShown == Spec => []DisconnectIsShown
<1>1. ListInv => DisconnectIsShown
  BY DEF ListInv
<1> QED
  BY <1>1, ListInvariant, PTL

=============================================================================
