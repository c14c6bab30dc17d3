--------------------------- MODULE MCClientAccount ---------------------------
(* One instance for the two halves of a user's account in the browser: the   *)
(* sessions (ClientSession) and the settings (SettingsClient). They share no *)
(* state, so a behaviour is about one of them: part says which, and the      *)
(* other one stays as it begins. The settings are checked twice: with the    *)
(* clicks on the list of profiles, and with those on all other settings.     *)
EXTENDS ClientSession, SettingsClient, TLC

VARIABLE part

\* The clicks on the list of profiles, and those on all other settings. Reads
\* that fail are counted with them.
ListScope  == [clicks |-> {"refetch", "profiles", "save", "failure"}, left |-> 4]
FieldScope == [clicks |-> {"refetch", "switch", "field", "save", "reopen", "failure"}, left |-> 3]
BothScopes == {ListScope, FieldScope}

allVars == <<vars, part, settingsVars>>

InitAll ==
    /\ Init
    /\ SettingsInit
    /\ part \in {"session", "settings"}
    /\ part = "session" => scope = ListScope /\ stored["profiles"] = << >>

Sessions(step) == part = "session"  /\ step /\ UNCHANGED <<settingsVars, part>>
Settings(step) == part = "settings" /\ step /\ UNCHANGED <<vars, part>>

NextAll ==
    \/ \E t \in Tabs : Sessions(Navigate(t)) \/ Sessions(Open(t)) \/ Sessions(ChangePassword(t))
    \/ \E c \in Calls, t \in Tabs :
        \/ Sessions(Get(c, t)) \/ Sessions(Logout(c, t))
        \/ \E u \in Users : Sessions(Login(c, t, u))
    \/ \E c \in Calls :
        \/ Sessions(ServeRefresh(c)) \/ Sessions(ServeLogout(c)) \/ Sessions(Lose(c))
        \/ Sessions(Arrive(c)) \/ Sessions(Denied(c)) \/ Sessions(Refreshed(c))
        \/ Sessions(Refused(c)) \/ Sessions(Entered(c)) \/ Sessions(LoggedOut(c))
    \/ \E u \in Users : Sessions(ResetPassword(u))
    \/ Sessions(Expire)
    \/ \E d \in Devices :
        \/ Settings(Refetch(d)) \/ Settings(Read(d))
        \/ Settings(ReadFails(d)) \/ Settings(Receive(d))
        \/ Settings(EditField(d)) \/ Settings(EditSecret(d)) \/ Settings(Reopen(d))
        \/ Settings(AddProfile(d)) \/ Settings(StartEdit(d)) \/ Settings(EditProfile(d))
        \/ Settings(CancelEdit(d)) \/ Settings(DeleteProfile(d)) \/ Settings(ToggleActive(d))
    \/ \E r \in Requests, d \in Devices :
        \/ Settings(CycleTheme(r, d)) \/ Settings(ToggleSidebar(r, d))
        \/ Settings(ToggleColumn(r, d)) \/ Settings(Save(r, d))
    \/ \E r \in Requests :
        \/ Settings(ReadProfiles(r)) \/ Settings(ToggleSettled(r))
        \/ Settings(ColumnSettled(r)) \/ Settings(SaveSettled(r))
        \/ \E k \in Keys : Settings(WriteKey(r, k))

SpecAll == InitAll /\ [][NextAll]_allVars

\* Tabs, devices and profiles are interchangeable.
Interchangeable == Permutations(Tabs) \cup Permutations(Devices) \cup Permutations(Profiles)

==============================================================================
