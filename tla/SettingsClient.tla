--------------------------- MODULE SettingsClient ---------------------------
(* The settings of one user in the browsers of several devices: the cached   *)
(* copy every page reads (useEffectiveSettings), the optimistic switches of  *)
(* the layout, the column switches of the tables, and the settings page with *)
(* its form and its list of language model profiles, over the map the server *)
(* keeps (settings_service.go).                                              *)
(*                                                                           *)
(* Keys: "theme" stands for the plain keys; "secret" for those the server    *)
(* masks; "side" for a key that a device may override under a name of its    *)
(* own, Own(d); "profiles" for llm_profiles.                                 *)
EXTENDS Naturals, Sequences, FiniteSets, SequencesExt

CONSTANTS Devices, Profiles, Requests, Unset, Asked, Mask,
          NoList, \* the stored profiles could not be read
          Scopes  \* the kinds of clicks and failed reads a behaviour is about,
                  \* and how many there are of them (a bound)

VARIABLES
    stored,   \* the server's map
    data,     \* data[d]: what the query cache of d holds under ['settings']
    fetch,    \* fetch[d]: Unset, Asked, or the answer on its way
    changes,  \* changes[d]: settingsChanges of the settings page
    profiles, \* profiles[d]: its list of profiles
    editing,  \* editing[d]: the profile whose form is open
    req,      \* req[r]: a PATCH and what its mutation keeps
    removed,  \* profiles that the server no longer held at some time
    misread,  \* profiles that came in masked when the stored ones could not be read
    orphaned, \* a form was saved whose profile had left the list
    unseen,   \* unseen[d]: a write was made that d has no reason to know of, or
              \* its query failed
    scope

settingsVars == <<stored, data, fetch, changes, profiles, editing, req, removed, misread,
                  orphaned, unseen, scope>>

\* The key client.<d>.side is written as the device itself.
Own(d)   == d
Keys     == {"theme", "secret", "side", "profiles"} \cup {Own(d) : d \in Devices}
FormKeys == {"theme", "secret", "profiles"}

\* A part of the map: one key.
Only(k, v) == [j \in Keys |-> IF j = k THEN v ELSE Unset]

\* A profile: its token is one somebody typed, the mask, or lost.
Profile  == [id : Profiles, token : {"typed", "retyped", Mask, "lost"}, active : BOOLEAN]

\* The values of a key. A device has its own one or none.
Value(k) ==
    CASE k = "theme"    -> 0..2
      [] k = "secret"   -> {0, 1, Mask}
      [] k = "side"     -> {0, 1}
      [] k = "profiles" -> Seq(Profile)
      [] OTHER          -> {0, 1, Unset}
AnyValue == UNION {Value(k) : k \in Keys}

\* A PATCH with the part of the map it carries, the copy it found, the keys that
\* were edited in the form, those the server has still to write, and the stored
\* profiles it has read to merge them.
Request == [dev : Devices, kind : {"toggle", "column", "save"}, part : [Keys -> AnyValue \cup {Unset}],
            before : [Keys -> AnyValue], edited : SUBSET FormKeys,
            todo : SUBSET Keys, got : {Unset, NoList} \cup Seq(Profile)]

\* What stands for "not there", "asked for" and "masked" is told from values.
ASSUME MarksAssumption ==
    /\ Unset \notin Profiles \cup Seq(Profile) \cup {0, 1, 2, Asked, Mask}
    /\ NoList \notin {Unset} \cup Seq(Profile)
    /\ Mask \notin {0, 1, "typed", "retyped", "lost"}
    /\ {Unset, Asked} \cap [Keys -> AnyValue] = {} /\ Unset \notin Request
ASSUME NamesAssumption == Devices \cap {"theme", "secret", "side", "profiles"} = {}
ASSUME BoundsAssumption ==
    /\ Requests \subseteq Nat /\ IsFiniteSet(Profiles)
    /\ \A s \in Scopes : s = [clicks |-> s.clicks, left |-> s.left] /\ s.left \in Nat

Ids(list) == {list[i].id : i \in DOMAIN list}

\* p with the entries of q that q has.
Merge(p, q) == [k \in Keys |-> IF q[k] = Unset THEN p[k] ELSE q[k]]

\* SettingsService.GetAllMasked. The token of a profile is masked unless empty.
MaskedList(list) ==
    [i \in DOMAIN list |-> [list[i] EXCEPT !.token = IF @ = "lost" THEN @ ELSE Mask]]
Masked(s) ==
    [k \in Keys |-> CASE k = "secret"   -> Mask
                      [] k = "profiles" -> MaskedList(s[k])
                      [] OTHER          -> s[k]]

\* mergeEffectiveSettings: the device's own value stands in for the shared one.
Effective(d, s) == [s EXCEPT !["side"] = IF s[Own(d)] = Unset THEN @ ELSE s[Own(d)]]

\* No profiles yet, or some of them in any order, the first one active.
StoredLists ==
    {<< >>} \cup {[i \in DOMAIN ids |-> [id |-> ids[i], token |-> "typed", active |-> i = 1]] :
                     ids \in SetToAllKPermutations(Profiles) \ {<< >>}}

SettingsInit ==
    /\ \E list \in StoredLists :
         stored = [k \in Keys |-> CASE k \in {"theme", "side", "secret"} -> 0
                                    [] k = "profiles" -> list
                                    [] OTHER -> Unset]
    /\ data = [d \in Devices |-> Masked(stored)]
    /\ fetch = [d \in Devices |-> Unset]
    /\ changes = [d \in Devices |-> [k \in FormKeys |-> Unset]]
    /\ profiles = [d \in Devices |-> data[d]["profiles"]]
    /\ editing = [d \in Devices |-> Unset]
    /\ req = [r \in Requests |-> Unset]
    /\ removed = {}
    /\ misread = {}
    /\ orphaned = FALSE
    /\ unseen = [d \in Devices |-> FALSE]
    /\ scope \in Scopes

Click(kind) ==
    /\ kind \in scope.clicks /\ scope.left > 0
    /\ scope' = [scope EXCEPT !.left = @ - 1]

\* The first free slot: which one carries a request makes no difference.
FreeSlot(r) == req[r] = Unset /\ \A q \in Requests : req[q] = Unset => r <= q

\* What the form shows and would send.
Params(d) == [k \in Keys |-> IF k \in FormKeys /\ changes[d][k] # Unset
                             THEN changes[d][k] ELSE Effective(d, data[d])[k]]

\* Mutated: the mask of a secret is written.
MutSends(part) == {k \in Keys : part[k] # Unset}

\* The keys of a request that the server writes: a masked secret is passed over.
Sends(part) == {k \in Keys : part[k] # Unset /\ (k = "secret" => part[k] # Mask)}

Send(r, d, kind, part) ==
    /\ FreeSlot(r)
    /\ req' = [req EXCEPT ![r] = [dev |-> d, kind |-> kind, part |-> part, before |-> data[d],
                                  edited |-> {k \in FormKeys : changes[d][k] # Unset},
                                  todo |-> Sends(part), got |-> Unset]]

----------------------------------------------------------------------------
(* The query ['settings'] *)

\* Setting the cached copy runs the effect of the settings page that takes the
\* profiles over whenever their text changed.
SetData(d, new) ==
    /\ data' = [data EXCEPT ![d] = new]
    /\ profiles' = [profiles EXCEPT ![d] = IF new["profiles"] = data[d]["profiles"] THEN @ ELSE new["profiles"]]

\* invalidateQueries: the query is asked anew, an answer on its way is dropped.
Invalidate(d) == fetch' = [fetch EXCEPT ![d] = Asked]

\* Focus of the window, or another page that mounts the query.
Refetch(d) ==
    /\ Click("refetch")
    /\ fetch[d] = Unset
    /\ Invalidate(d)
    /\ UNCHANGED <<editing, orphaned, stored, data, changes, profiles, req, removed, misread, unseen>>

Read(d) ==
    /\ fetch[d] = Asked
    /\ fetch' = [fetch EXCEPT ![d] = Masked(stored)]
    /\ unseen' = [unseen EXCEPT ![d] = FALSE]
    /\ UNCHANGED <<editing, orphaned, stored, data, changes, profiles, req, removed, misread, scope>>

\* The query library gives up after its retries.
ReadFails(d) ==
    /\ Click("failure")
    /\ fetch[d] = Asked
    /\ fetch' = [fetch EXCEPT ![d] = Unset]
    /\ unseen' = [unseen EXCEPT ![d] = TRUE]
    /\ UNCHANGED <<editing, orphaned, stored, data, changes, profiles, req, removed, misread>>

Receive(d) ==
    /\ fetch[d] \notin {Unset, Asked}
    /\ SetData(d, fetch[d])
    /\ fetch' = [fetch EXCEPT ![d] = Unset]
    /\ UNCHANGED <<editing, orphaned, stored, changes, req, removed, misread, unseen, scope>>

----------------------------------------------------------------------------
(* The layout and the tables *)

\* Mutated: the copy is replaced by the changed keys.
MutOptimistic(r, d, part) ==
    /\ Click("switch")
    /\ Send(r, d, "toggle", part)
    /\ fetch' = [fetch EXCEPT ![d] = Unset]
    /\ data' = [data EXCEPT ![d] = part]
    /\ UNCHANGED <<stored, profiles, editing, orphaned, changes, removed, misread, unseen>>

\* settingsMut of the layout: the query is cancelled, the copy kept for a
\* rollback, and changed before the server answers.
Optimistic(r, d, part) ==
    /\ Click("switch")
    /\ Send(r, d, "toggle", part)
    /\ fetch' = [fetch EXCEPT ![d] = Unset]
    /\ SetData(d, Merge(data[d], part))
    /\ UNCHANGED <<editing, orphaned, stored, changes, removed, misread, unseen>>

CycleTheme(r, d) == Optimistic(r, d, Only("theme", (data[d]["theme"] + 1) % 3))

ToggleSidebar(r, d) ==
    Optimistic(r, d, Only(Own(d), 1 - Effective(d, data[d])["side"]))

\* A column switch of a table: the same key space, the answer awaited. The
\* table switches its own copy of the columns, which need not be the cached one.
ToggleColumn(r, d) ==
    /\ Click("switch")
    /\ \E v \in {0, 1} : Send(r, d, "column", Only(Own(d), v))
    /\ UNCHANGED <<editing, orphaned, stored, data, fetch, changes, profiles, removed, misread, unseen>>

----------------------------------------------------------------------------
(* The settings page *)

Change(d, k, v) == changes' = [changes EXCEPT ![d][k] = v]

\* A field of the form: plain ones, or a secret that is typed anew.
EditField(d) ==
    /\ Click("field")
    /\ Change(d, "theme", (Params(d)["theme"] + 1) % 3)
    /\ UNCHANGED <<stored, data, fetch, profiles, editing, req, removed, misread, orphaned, unseen>>

EditSecret(d) ==
    /\ Click("field")
    /\ Change(d, "secret", 1)
    /\ UNCHANGED <<stored, data, fetch, profiles, editing, req, removed, misread, orphaned, unseen>>

\* handleProfilesChange.
SetProfiles(d, list) ==
    /\ Click("profiles")
    /\ profiles' = [profiles EXCEPT ![d] = list]
    /\ Change(d, "profiles", list)
    /\ UNCHANGED <<stored, data, fetch, req, removed, misread, unseen>>

OnlyActive(list, id) == [i \in DOMAIN list |-> [list[i] EXCEPT !.active = (list[i].id = id)]]
NoneActive(list)     == \A i \in DOMAIN list : ~list[i].active
WithActive(list)     == IF list # << >> /\ NoneActive(list) THEN [list EXCEPT ![1].active = TRUE] ELSE list

\* handleSave of a new profile, with the choice whether it is active.
AddProfile(d) ==
    /\ \E id \in Profiles, active \in BOOLEAN :
        LET list == Append(profiles[d], [id |-> id, token |-> "typed", active |-> active]) IN
        /\ id \notin Ids(profiles[d])
        /\ SetProfiles(d, IF active THEN OnlyActive(list, id) ELSE WithActive(list))
    /\ editing' = [editing EXCEPT ![d] = Unset]
    /\ UNCHANGED orphaned

\* handleEdit opens the form with the mask for the token.
StartEdit(d) ==
    /\ Click("profiles")
    /\ \E id \in Ids(profiles[d]) : editing' = [editing EXCEPT ![d] = id]
    /\ UNCHANGED <<stored, data, fetch, changes, profiles, req, removed, misread, orphaned, unseen>>

\* handleSave of the form puts the list's token in the place of the mask unless
\* another one was typed. It does not ask whether the list still has the profile.
Edited(list, id, retype, active) ==
    [i \in DOMAIN list |->
        IF list[i].id # id THEN list[i]
        ELSE [id |-> id, token |-> IF retype THEN "retyped" ELSE list[i].token, active |-> active]]

EditProfile(d) ==
    LET id == editing[d] IN
    /\ id # Unset
    /\ \E retype, active \in BOOLEAN :
        LET list == Edited(profiles[d], id, retype, active) IN
        SetProfiles(d, IF active THEN OnlyActive(list, id) ELSE WithActive(list))
    /\ editing' = [editing EXCEPT ![d] = Unset]
    /\ orphaned' = (orphaned \/ id \notin Ids(profiles[d]))

\* The form is given up.
CancelEdit(d) ==
    /\ editing[d] # Unset
    /\ editing' = [editing EXCEPT ![d] = Unset]
    /\ UNCHANGED <<stored, data, fetch, changes, profiles, req, removed, misread, orphaned, unseen, scope>>

\* Mutated: the active profile leaves the list without a successor.
MutDeleteProfile(d) ==
    /\ \E n \in DOMAIN profiles[d] : SetProfiles(d, RemoveAt(profiles[d], n))
    /\ UNCHANGED <<editing, orphaned>>

DeleteProfile(d) ==
    /\ \E n \in DOMAIN profiles[d] : SetProfiles(d, WithActive(RemoveAt(profiles[d], n)))
    /\ UNCHANGED <<editing, orphaned>>

ToggleActive(d) ==
    /\ \E n \in DOMAIN profiles[d] : SetProfiles(d, OnlyActive(profiles[d], profiles[d][n].id))
    /\ UNCHANGED <<editing, orphaned>>

\* The floating button sends the whole form, one request at a time.
Save(r, d) ==
    /\ Click("save")
    /\ \A q \in Requests : req[q] # Unset => ~(req[q].dev = d /\ req[q].kind = "save")
    /\ Send(r, d, "save", Params(d))
    /\ UNCHANGED <<editing, orphaned, stored, data, fetch, changes, profiles, removed, misread, unseen>>

\* Leaving the page and coming back: the form starts from the cached copy.
Reopen(d) ==
    /\ Click("reopen")
    /\ changes' = [changes EXCEPT ![d] = [k \in FormKeys |-> Unset]]
    /\ profiles' = [profiles EXCEPT ![d] = data[d]["profiles"]]
    /\ editing' = [editing EXCEPT ![d] = Unset]
    /\ fetch' = [fetch EXCEPT ![d] = IF @ = Unset THEN Asked ELSE @]
    /\ UNCHANGED <<orphaned, stored, data, req, removed, misread, unseen>>

----------------------------------------------------------------------------
(* The server *)

\* Mutated: profiles are matched by their position.
MutUnmasked(list, old) ==
    [i \in DOMAIN list |->
        [list[i] EXCEPT !.token =
            IF @ = Mask THEN (IF i \in DOMAIN old THEN old[i].token ELSE "lost") ELSE @]]

\* The tokens of the stored profiles for those that come back masked.
Unmasked(list, old) ==
    [i \in DOMAIN list |->
        [list[i] EXCEPT !.token =
            IF @ # Mask THEN @
            ELSE IF \E j \in DOMAIN old : old[j].id = list[i].id
                 THEN old[CHOOSE j \in DOMAIN old : old[j].id = list[i].id].token
            ELSE "lost"]]

\* What UpdateMultiple writes for a key of a request. Profiles are merged with
\* those it has read; an error of that read is dropped and nothing is merged.
Updated(q, k) ==
    IF k = "profiles" /\ q.got # NoList THEN Unmasked(q.part[k], q.got) ELSE q.part[k]

\* repo.Get of UpdateMultiple.
ReadProfiles(r) ==
    /\ req[r] # Unset /\ "profiles" \in req[r].todo /\ req[r].got = Unset
    /\ \/ req' = [req EXCEPT ![r].got = stored["profiles"]] /\ UNCHANGED scope
       \/ req' = [req EXCEPT ![r].got = NoList] /\ Click("failure")
    /\ UNCHANGED <<editing, orphaned, stored, data, fetch, changes, profiles, removed, misread, unseen>>

MaskedIds(list) == {list[i].id : i \in {i \in DOMAIN list : list[i].token = Mask}}

\* repo.Set: one statement for each key, in any order. Other devices do not know
\* of it.
WriteKey(r, k) ==
    LET q   == req[r]
        new == Updated(q, k) IN
    /\ q # Unset /\ k \in q.todo
    /\ (k = "profiles") = (q.got # Unset)
    /\ stored' = [stored EXCEPT ![k] = new]
    /\ req' = [req EXCEPT ![r].todo = @ \ {k}, ![r].got = Unset]
    /\ removed' = IF k = "profiles" THEN removed \cup (Ids(stored[k]) \ Ids(new)) ELSE removed
    /\ misread' = IF q.got = NoList THEN misread \cup MaskedIds(new) ELSE misread
    /\ unseen' = [d \in Devices |-> unseen[d] \/ (new # stored[k] /\ d # q.dev)]
    /\ UNCHANGED <<editing, orphaned, data, fetch, changes, profiles, scope>>

----------------------------------------------------------------------------
(* The answers *)

\* The answer that every key is written.
Succeeded(r, kind) ==
    /\ req[r] # Unset /\ req[r].kind = kind /\ req[r].todo = {}
    /\ req' = [req EXCEPT ![r] = Unset]

\* An error, or no answer: any of the keys may be written, and no more will be.
Failed(r, kind) ==
    /\ req[r] # Unset /\ req[r].kind = kind
    /\ req' = [req EXCEPT ![r] = Unset]

\* A failed request has changed something.
SomeWritten(q) == q.todo # Sends(q.part)

\* Mutated: the query is not asked anew.
MutToggleSettled(r) ==
    /\ \/ Succeeded(r, "toggle") /\ UNCHANGED <<data, profiles>>
       \/ Failed(r, "toggle") /\ SetData(req[r].dev, req[r].before)
    /\ UNCHANGED <<stored, fetch, changes, editing, removed, misread, orphaned, unseen, scope>>

\* onSettled of the layout's mutation; after an error the copy is rolled back.
ToggleSettled(r) ==
    LET d == req[r].dev IN
    /\ \/ Succeeded(r, "toggle") /\ UNCHANGED <<data, profiles>>
       \/ Failed(r, "toggle") /\ SetData(d, req[r].before)
    /\ Invalidate(d)
    /\ UNCHANGED <<editing, orphaned, stored, changes, removed, misread, unseen, scope>>

\* Nothing tells a device what a failed request of its own has written.
Missed(r) == unseen' = [unseen EXCEPT ![req[r].dev] = @ \/ SomeWritten(req[r])]

ColumnSettled(r) ==
    LET d == req[r].dev IN
    /\ \/ Succeeded(r, "column") /\ Invalidate(d) /\ UNCHANGED unseen
       \/ Failed(r, "column") /\ Missed(r) /\ UNCHANGED fetch
    /\ UNCHANGED <<editing, orphaned, stored, data, changes, profiles, removed, misread, scope>>

\* onSuccess forgets the changes, also those made since the click; onError
\* leaves form and cache as they are.
SaveSettled(r) ==
    LET d == req[r].dev IN
    /\ \/ /\ Succeeded(r, "save")
          /\ changes' = [changes EXCEPT ![d] = [k \in FormKeys |-> Unset]]
          /\ Invalidate(d) /\ UNCHANGED unseen
       \/ Failed(r, "save") /\ Missed(r) /\ UNCHANGED <<changes, fetch>>
    /\ UNCHANGED <<editing, orphaned, stored, data, profiles, removed, misread, scope>>

----------------------------------------------------------------------------
SettingsNext ==
    \/ \E d \in Devices :
        \/ Refetch(d) \/ Read(d) \/ ReadFails(d) \/ Receive(d)
        \/ EditField(d) \/ EditSecret(d) \/ Reopen(d)
        \/ AddProfile(d) \/ StartEdit(d) \/ EditProfile(d) \/ CancelEdit(d)
        \/ DeleteProfile(d) \/ ToggleActive(d)
        \/ \E r \in Requests : CycleTheme(r, d) \/ ToggleSidebar(r, d) \/ ToggleColumn(r, d) \/ Save(r, d)
    \/ \E r \in Requests :
        \/ ReadProfiles(r) \/ \E k \in Keys : WriteKey(r, k)
        \/ ToggleSettled(r) \/ ColumnSettled(r) \/ SaveSettled(r)

SettingsSpec == SettingsInit /\ [][SettingsNext]_settingsVars

\* A map of all settings, as the server keeps it or answers with it, and the
\* part of one that a request carries.
IsSettings(m) == m = [k \in Keys |-> m[k]] /\ \A k \in Keys : m[k] \in Value(k)
IsPart(m)     == m = [k \in Keys |-> m[k]] /\ \A k \in Keys : m[k] = Unset \/ m[k] \in Value(k)

IsRequest(q) ==
    /\ q = [dev |-> q.dev, kind |-> q.kind, part |-> q.part, before |-> q.before,
            edited |-> q.edited, todo |-> q.todo, got |-> q.got]
    /\ q.dev \in Devices /\ q.kind \in {"toggle", "column", "save"}
    /\ IsPart(q.part) /\ IsSettings(q.before)
    /\ q.edited \subseteq FormKeys /\ q.todo \subseteq Sends(q.part)
    /\ q.got \in {Unset, NoList} \/ q.got \in Seq(Profile)
    /\ q.got # Unset => "profiles" \in q.todo

SettingsTypeOK ==
    /\ IsSettings(stored)
    /\ data = [d \in Devices |-> data[d]] /\ \A d \in Devices : IsSettings(data[d])
    /\ fetch = [d \in Devices |-> fetch[d]]
    /\ \A d \in Devices : fetch[d] \in {Unset, Asked} \/ IsSettings(fetch[d])
    /\ changes = [d \in Devices |-> [k \in FormKeys |-> changes[d][k]]]
    /\ \A d \in Devices, k \in FormKeys : changes[d][k] = Unset \/ changes[d][k] \in Value(k)
    /\ profiles \in [Devices -> Seq(Profile)]
    /\ editing \in [Devices -> Profiles \cup {Unset}]
    /\ req = [r \in Requests |-> req[r]]
    /\ \A r \in Requests : req[r] = Unset \/ IsRequest(req[r])
    /\ removed \subseteq Profiles /\ misread \subseteq Profiles
    /\ orphaned \in BOOLEAN
    /\ unseen \in [Devices -> BOOLEAN]
    /\ \E s \in Scopes : scope = [s EXCEPT !.left = scope.left] /\ scope.left \in 0..s.left

----------------------------------------------------------------------------
(* Properties *)

\* The mask is stored for the token of a profile only when a list of profiles was
\* saved masked while the stored one could not be read (settings_service.go:127
\* drops that error), and a token is lost only with a profile that the server had
\* dropped before the list that still held it was merged: through editing,
\* reordering of saves and refetches the mask always finds its token again
\* (LLMProfileManager.tsx:69 and settings_service.go:139).
TokensSurvive ==
    /\ stored["secret"] # Mask
    /\ \A i \in DOMAIN stored["profiles"] :
         LET p == stored["profiles"][i] IN
         /\ p.token = Mask => p.id \in misread
         /\ p.token = "lost" => p.id \in removed

\* Of the stored profiles never two are active, whichever lists overwrite each
\* other, and none only after the form of a profile was saved that had left the
\* list meanwhile (LLMProfileManager.tsx:77-90, 101, 109).
OneProfileActive ==
    LET list == stored["profiles"]
        active == {i \in DOMAIN list : list[i].active} IN
    /\ Cardinality(active) <= 1
    /\ active = {} => list = << >> \/ orphaned

\* The settings page sends every key, yet changes only those that were edited,
\* those whose cached copy is outdated when they are written, and the shared value
\* of a key that its own device overrides (SettingsPage.tsx:254, 295); and the
\* profiles when another save changes them between the read of UpdateMultiple and
\* its write, or when that read fails (settings_service.go:127, 158).
SaveChangesOnlyEdited ==
    [][\A r \in Requests, k \in Keys :
        (/\ req[r] # Unset /\ req[r].kind = "save" /\ req'[r] # Unset
         /\ k \in req[r].todo \ req'[r].todo /\ stored'[k] # stored[k])
        => \/ k \in req[r].edited
           \/ req[r].before[k] # Masked(stored)[k]
           \/ k = "side" /\ req[r].before[Own(req[r].dev)] # Unset
           \/ k = "profiles" /\ req[r].got # stored[k]]_settingsVars

\* Once nothing of a device is under way its copy is the server's, whatever
\* optimistic changes, rollbacks and refetches crossed each other, unless its
\* query failed or a write was made that it was not told of (Layout.tsx:113-129).
QuietShowsStored ==
    \A d \in Devices :
        (fetch[d] = Unset /\ ~unseen[d] /\ \A r \in Requests : req[r] # Unset => req[r].dev # d)
        => data[d] = Masked(stored)

============================================================================
