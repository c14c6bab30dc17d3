--------------------------- MODULE BankConnection ---------------------------
(***************************************************************************)
(* The life of a bank connection (bank_service.go, the provider's adapter, *)
(* the expiry notifier of main.go).  Creating or refreshing a connection   *)
(* hands out an authorisation link; the bank answers by a callback that    *)
(* carries the state the link was made with, the connection's reference.   *)
(* FinishConnection then walks through two calls of the provider and five  *)
(* statements of the database, none of them in one transaction.  A worker  *)
(* mails a warning some days before the recorded expiry.                   *)
(***************************************************************************)
EXTENDS Naturals

CONSTANTS
    Conns,       \* connections, which are also their reference ids
    Flows,       \* authorisations: a link, its callback, the session it gives
    Validity,    \* days an authorisation lasts (90 in the code)
    WarningDays, \* days before the expiry that the warning is due (7)
    Horizon,     \* the last day of the run: bounds the clock
    MaxMails,    \* bounds the warnings mailed for a connection and again
    Unset

ASSUME TimeAssumption ==
    /\ Validity \in Nat /\ WarningDays \in Nat /\ Horizon \in Nat
    /\ MaxMails \in Nat
    /\ WarningDays < Validity
ASSUME IdsAssumption == Conns \cap Flows = {} /\ Unset \notin Conns

VARIABLES
    day,         \* CURRENT_DATE
    status,      \* of a connection; "none" before, "deleted" after its row
    requisition, \* requisition_id: the reference at first, a session later
    expires,     \* expires_at
    notified,    \* expiry_notified_at # NULL
    accounts,    \* the sessions whose accounts are in bank_accounts
    empty,       \* history: authorisations whose session had no accounts
    pc,          \* where a flow is
    conn,        \* the connection it is for
    up,          \* the process runs
    checked,     \* the notifier has looked today
    todo,        \* connections the notifier has listed and not handled
    sent,        \* the one it has mailed and not marked yet, or Unset
    mails,       \* history: warnings mailed
    again,       \* history: reasons to mail once more
    excused      \* history: connections whose warning day was missed

vars == <<day, status, requisition, expires, notified, accounts, empty, pc,
          conn, up, checked, todo, sent, mails, again, excused>>

table    == <<status, requisition, expires, notified, accounts, empty>>
notifier == <<checked, todo, sent, mails, again, excused>>

Exists(c) == status[c] \in {"initialized", "linked"}
Goto(f, l) == pc' = [pc EXCEPT ![f] = l]

\* One more reason to mail again, counted as far as it can matter.
Bumped(c) == [again EXCEPT ![c] = IF @ < MaxMails THEN @ + 1 ELSE @]

\* Mutated: counted from the wrong end of the day.
MutExpiring(c) == expires[c] + 1 = day + WarningDays

\* The condition of GetExpiringConnections on the dates: exactly that day.
Expiring(c) == expires[c] = day + WarningDays

-----------------------------------------------------------------------------
Init ==
    /\ day = 0
    /\ status = [c \in Conns |-> "none"]
    /\ requisition = [c \in Conns |-> c]
    /\ expires = [c \in Conns |-> 0]
    /\ notified = [c \in Conns |-> FALSE]
    /\ accounts = [c \in Conns |-> {}]
    /\ empty = {}
    /\ pc = [f \in Flows |-> "unused"]
    /\ conn \in [Flows -> Conns]
    /\ up = TRUE
    /\ checked = FALSE
    /\ todo = {}
    /\ sent = Unset
    /\ mails = [c \in Conns |-> 0]
    /\ again = [c \in Conns |-> 0]
    /\ excused = {}

\* Mutated: the expiry is left NULL.
MutCreateConnection(f) ==
    LET c == conn[f] IN
    /\ up /\ pc[f] = "unused" /\ status[c] = "none"
    /\ status' = [status EXCEPT ![c] = "initialized"]
    /\ expires' = [expires EXCEPT ![c] = Unset]
    /\ Goto(f, "authorising")
    /\ UNCHANGED <<day, requisition, notified, accounts, empty, conn, up, notifier>>

\* CreateConnection: the provider's link, then one insertion.
CreateConnection(f) ==
    LET c == conn[f] IN
    /\ up /\ pc[f] = "unused" /\ status[c] = "none"
    /\ status' = [status EXCEPT ![c] = "initialized"]
    /\ expires' = [expires EXCEPT ![c] = day + Validity]
    /\ Goto(f, "authorising")
    /\ UNCHANGED <<day, requisition, notified, accounts, empty, conn, up, notifier>>

\* RefreshConnection: a new link for the reference; the table stays as it is.
RefreshConnection(f) ==
    /\ up /\ pc[f] = "unused" /\ Exists(conn[f])
    /\ Goto(f, "authorising")
    /\ UNCHANGED <<day, table, conn, up, notifier>>

\* FinishConnection, called with the reference the callback carries: no
\* connection of that requisition, no effect.
Lookup(f) ==
    /\ up /\ pc[f] = "authorising"
    /\ Goto(f, IF Exists(conn[f]) /\ requisition[conn[f]] = conn[f]
               THEN "exchange" ELSE "failed")
    /\ UNCHANGED <<day, table, conn, up, notifier>>

\* ExchangeCodeForSession: the code becomes a session of its own.
Exchange(f) ==
    /\ up /\ pc[f] = "exchange"
    /\ Goto(f, "session")
    /\ UNCHANGED <<day, table, conn, up, notifier>>

UpdateRequisitionID(f) ==
    LET c == conn[f] IN
    /\ up /\ pc[f] = "session"
    /\ requisition' = IF Exists(c) THEN [requisition EXCEPT ![c] = f] ELSE requisition
    /\ Goto(f, "reset")
    /\ UNCHANGED <<day, status, expires, notified, accounts, empty, conn, up, notifier>>

\* UpdateExpiryNotifiedAt(nil); its failure is only logged.
ResetNotified(f) ==
    LET c == conn[f] IN
    /\ up /\ pc[f] = "reset"
    /\ \/ /\ notified' = [notified EXCEPT ![c] = FALSE]
          /\ again' = IF notified[c] THEN Bumped(c) ELSE again
       \/ UNCHANGED <<notified, again>>
    /\ Goto(f, "accounts")
    /\ UNCHANGED <<day, status, requisition, expires, accounts, empty, conn, up,
                   checked, todo, sent, mails, excused>>

\* Mutated: the insertion does not ask for the connection any more.
MutUpsertAccounts(f) ==
    LET c == conn[f] IN
    /\ up /\ pc[f] = "accounts"
    /\ accounts' = [accounts EXCEPT ![c] = @ \cup {f}]
    /\ empty' = empty
    /\ Goto(f, "status")
    /\ UNCHANGED <<day, status, requisition, expires, notified, conn, up, notifier>>

\* FetchAccounts, whose list may be empty, and UpsertAccounts, which inserts
\* nothing for a connection that is gone.
UpsertAccounts(f) ==
    LET c == conn[f] IN
    /\ up /\ pc[f] = "accounts"
    /\ \/ /\ accounts' = IF Exists(c) THEN [accounts EXCEPT ![c] = @ \cup {f}]
                                      ELSE accounts
          /\ empty' = empty
       \/ /\ empty' = empty \cup {f}
          /\ accounts' = accounts
    /\ Goto(f, "status")
    /\ UNCHANGED <<day, status, requisition, expires, notified, conn, up, notifier>>

LinkConnection(f) ==
    LET c == conn[f] IN
    /\ up /\ pc[f] = "status"
    /\ status' = IF Exists(c) THEN [status EXCEPT ![c] = "linked"] ELSE status
    /\ Goto(f, "done")
    /\ UNCHANGED <<day, requisition, expires, notified, accounts, empty, conn, up,
                   notifier>>

\* The provider or the database fails: FinishConnection returns where it is.
FinishFails(f) ==
    /\ up /\ pc[f] \in {"exchange", "session", "accounts", "status"}
    /\ Goto(f, "failed")
    /\ UNCHANGED <<day, table, conn, up, notifier>>

\* DeleteConnection; the accounts go along (ON DELETE CASCADE).
DeleteConnection(c) ==
    /\ up /\ Exists(c)
    /\ status' = [status EXCEPT ![c] = "deleted"]
    /\ accounts' = [accounts EXCEPT ![c] = {}]
    /\ UNCHANGED <<day, requisition, expires, notified, empty, pc, conn, up, notifier>>

-----------------------------------------------------------------------------
Due(c) == Exists(c) /\ ~notified[c] /\ Expiring(c)

\* The notifier wakes up, every four hours, and lists what is due; when it
\* cannot it sleeps again.
ListExpiring ==
    /\ up /\ todo = {} /\ sent = Unset
    /\ \/ /\ todo' = {c \in Conns : Due(c)}
          /\ todo' # {} \/ ~checked
          /\ excused' = excused
       \/ /\ ~checked
          /\ todo' = todo
          /\ excused' = excused \cup {c \in Conns : Due(c)}
    /\ checked' = TRUE
    /\ UNCHANGED <<day, table, pc, conn, up, sent, mails, again>>

\* One round of the loop up to the mail.  A user without an address is passed
\* as mailed; without the user, or when the mail fails, the loop goes on.
SendWarning(c) ==
    /\ up /\ c \in todo /\ sent = Unset
    /\ todo' = todo \ {c}
    /\ \/ /\ mails[c] < MaxMails
          /\ sent' = c
          /\ mails' = [mails EXCEPT ![c] = @ + 1]
          /\ excused' = excused
       \/ /\ sent' \in {c, Unset}
          /\ excused' = excused \cup {c}
          /\ mails' = mails
    /\ UNCHANGED <<day, table, pc, conn, up, checked, again>>

\* Mutated: the mark is lost.
MutMarkNotified ==
    /\ up /\ sent # Unset
    /\ sent' = Unset
    /\ UNCHANGED <<day, table, pc, conn, up, checked, todo, mails, again, excused>>

\* UpdateExpiryNotifiedAt(now), or its failure.
MarkNotified ==
    /\ up /\ sent # Unset
    /\ sent' = Unset
    /\ \/ /\ notified' = [notified EXCEPT ![sent] = TRUE]
          /\ again' = again
       \/ /\ again' = Bumped(sent)
          /\ notified' = notified
    /\ UNCHANGED <<day, status, requisition, expires, accounts, empty, pc, conn, up,
                   checked, todo, mails, excused>>

\* Midnight.  The notifier looks several times a day unless the process is down.
Tick ==
    /\ day < Horizon
    /\ up => checked
    /\ day' = day + 1
    /\ checked' = FALSE
    /\ excused' = IF checked THEN excused ELSE excused \cup {c \in Conns : Due(c)}
    /\ UNCHANGED <<table, pc, conn, up, todo, sent, mails, again>>

\* The process stops: requests and the notifier's round end where they are.
Stop ==
    /\ up
    /\ up' = FALSE
    /\ pc' = [f \in Flows |-> IF pc[f] \in {"unused", "authorising", "done"}
                              THEN pc[f] ELSE "failed"]
    /\ excused' = excused \cup todo
    /\ again' = IF sent = Unset THEN again ELSE Bumped(sent)
    /\ todo' = {}
    /\ sent' = Unset
    /\ checked' = FALSE
    /\ UNCHANGED <<day, table, conn, mails>>

Start ==
    /\ ~up
    /\ up' = TRUE
    /\ UNCHANGED <<day, table, pc, conn, notifier>>

FinishStep(f) ==
    \/ Lookup(f) \/ Exchange(f) \/ UpdateRequisitionID(f) \/ ResetNotified(f)
    \/ UpsertAccounts(f) \/ LinkConnection(f) \/ FinishFails(f)

Next ==
    \/ \E f \in Flows : CreateConnection(f) \/ RefreshConnection(f) \/ FinishStep(f)
    \/ \E c \in Conns : DeleteConnection(c) \/ SendWarning(c)
    \/ ListExpiring \/ MarkNotified \/ Tick \/ Stop \/ Start

Spec == Init /\ [][Next]_vars

-----------------------------------------------------------------------------
TypeOK ==
    /\ day \in 0..Horizon
    /\ status \in [Conns -> {"none", "initialized", "linked", "deleted"}]
    /\ \A c \in Conns : requisition[c] \in {c} \cup Flows
    /\ expires \in [Conns -> Nat]
    /\ notified \in [Conns -> BOOLEAN]
    /\ accounts \in [Conns -> SUBSET Flows]
    /\ empty \subseteq Flows
    /\ pc \in [Flows -> {"unused", "authorising", "exchange", "session", "reset",
                         "accounts", "status", "done", "failed"}]
    /\ conn \in [Flows -> Conns]
    /\ up \in BOOLEAN /\ checked \in BOOLEAN
    /\ todo \subseteq Conns
    /\ sent \in Conns \cup {Unset}
    /\ mails \in [Conns -> Nat] /\ again \in [Conns -> Nat]
    /\ excused \subseteq Conns
    /\ ~up => todo = {} /\ sent = Unset

\* A linked connection has a session and accounts, unless the bank reported a
\* session without any, and only an existing connection has accounts, whatever
\* failed, was deleted or ran side by side in FinishConnection.
LinkedIsComplete ==
    \A c \in Conns :
        /\ status[c] = "linked" =>
               /\ requisition[c] \in Flows
               /\ accounts[c] # {} \/ \E f \in empty : conn[f] = c
        /\ accounts[c] # {} => Exists(c)

\* The warning day of a connection does not pass without a warning, unless the
\* worker was down all day or a query, the user or the mail failed.
WarnedInTime ==
    \A c \in Conns :
        Exists(c) /\ day + WarningDays > expires[c] /\ c \notin excused =>
            mails[c] > 0 \/ c \in todo

\* One warning per connection, and one more for every mark that failed, got
\* lost in a crash, or was reset by FinishConnection.
WarnedOnce == \A c \in Conns : mails[c] <= 1 + again[c]

\* What the reauthentication is for ("allowing users to renew bank access
\* without deleting and recreating connections"): the bank's callback finds the
\* linked connection it renews.
CallbackFindsConnection ==
    [][\A f \in Flows :
          Lookup(f) /\ status[conn[f]] = "linked" => pc'[f] # "failed"]_vars

=============================================================================
