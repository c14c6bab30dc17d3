---------------------------- MODULE Subscriptions ----------------------------
(***************************************************************************)
(* Subscriptions and the transactions linked to them (discovery_service,   *)
(* discovery_matching, discovery_cancellation, discovery_enrichment,       *)
(* subscription_repository).  A subscription lists the hashes that always  *)
(* belong to it and those that never do.  Every call reads whole           *)
(* subscriptions, works on the copies, perhaps for minutes while a         *)
(* language model or a mail server answers, and writes a whole row back;   *)
(* the transactions are updated one by one after that.                     *)
(*                                                                         *)
(* One user.  The normalised name and the amount class a transaction is    *)
(* compared by are one value, its profile.  The log of events is left out. *)
(***************************************************************************)
EXTENDS FiniteSets

CONSTANTS
    Subs,        \* ids of subscriptions
    Txs,         \* transactions, by content hash
    Profiles,    \* what the fuzzy match compares
    Description, \* the profile of a transaction's description
    Counterparty,\* the profile of its counterparty, or Unset
    Idents,      \* mandate references and IBANs
    Mandate,     \* of a transaction, or Unset
    Iban,        \* of a transaction, or Unset
    OtherStatus, \* the further values of a status
    Calls,       \* identities of calls
    Unset,       \* NULL, the empty string
    Absent,      \* the link of a transaction that is not in the table
    Unborn, Gone \* a subscription before its creation and after its deletion

ASSUME TxAssumption ==
    /\ Description \in [Txs -> Profiles]
    /\ Counterparty \in [Txs -> Profiles \cup {Unset}]
    /\ Mandate \in [Txs -> Idents \cup {Unset}]
    /\ Iban \in [Txs -> Idents \cup {Unset}]
    /\ Unset \notin Profiles \cup Idents

Status == {"active", "cancellation_pending"} \cup OtherStatus
Subscription == [status : Status, profile : Profiles, idents : SUBSET Idents,
                 matching : SUBSET Txs, ignored : SUBSET Txs]
ASSUME MarkerAssumption ==
    /\ Unset \notin Subs /\ Absent \notin Subs /\ Unset # Absent
    /\ Unborn \notin Subscription /\ Gone \notin Subscription /\ Unborn # Gone

VARIABLES
    subs,       \* the table of subscriptions
    link,       \* subscription_id of each transaction
    call,       \* per call: where it is, the subscription and the transactions
                \* it is about, and the subscriptions as it read or wrote them
    overridden, \* history: the pairs whose last finished request was an unlink
    mailed,     \* history: cancelled by mail with the status written, and
                \* not edited since
    disturbed   \* history: written from a copy that was out of date

vars == <<subs, link, call, overridden, mailed, disturbed>>
history == <<overridden, mailed, disturbed>>

Table == [Subs -> Subscription \cup {Unborn, Gone}]
Nothing == [s \in Subs |-> Unborn]
Call == [at : {"idle", "link", "point", "unlink", "clear", "edit", "enrich",
               "cancel", "create", "reported", "match", "done"},
         sub : Subs \cup {Unset}, txs : SUBSET Txs, view : Table]

Exists(s) == subs[s] \in Subscription
InTable(t) == link[t] # Absent
Unlinked == {t \in Txs : link[t] = Unset}
Resembling(p) == {t \in Txs : p \in {Description[t], Counterparty[t]}}
IdentsOf(T) == ({Mandate[t] : t \in T} \cup {Iban[t] : t \in T}) \ {Unset}

-----------------------------------------------------------------------------
(* What MatchTransactions decides for a transaction, given the subscriptions *)
(* it read: the subscriptions it may pick, several when the order the query  *)
(* returns them in decides.                                                  *)

Read(v) == {s \in Subs : v[s] \in Subscription}
Listing(v, t) == {s \in Read(v) : t \in v[s].matching}
Bound(v, i) == {s \in Read(v) : i # Unset /\ i \in v[s].idents}
Alike(v, p) == {s \in Read(v) : p # Unset /\ v[s].profile = p}
Allowed(v, S, t) == {s \in S : t \notin v[s].ignored}

\* Mutated: the loop over the candidates forgets the ignored hashes.
MutFuzzy(v, t) ==
    IF Alike(v, Description[t]) # {} THEN Alike(v, Description[t])
    ELSE Alike(v, Counterparty[t])

\* By description, then by counterparty.
Fuzzy(v, t) ==
    IF Allowed(v, Alike(v, Description[t]), t) # {}
    THEN Allowed(v, Alike(v, Description[t]), t)
    ELSE Allowed(v, Alike(v, Counterparty[t]), t)

\* The maps keep one subscription per identifier: when that one ignores the
\* transaction, the next way of matching is tried.
ByIban(v, t) ==
    LET B == Bound(v, Iban[t])  A == Allowed(v, B, t) IN
    A \cup IF B = A /\ B # {} THEN {} ELSE Fuzzy(v, t)
ByMandate(v, t) ==
    LET B == Bound(v, Mandate[t])  A == Allowed(v, B, t) IN
    A \cup IF B = A /\ B # {} THEN {} ELSE ByIban(v, t)

\* Mutated: the deterministic identifiers go first.
MutTargets(v, t) ==
    IF ByMandate(v, t) # {} THEN ByMandate(v, t) ELSE Listing(v, t)

Targets(v, t) == IF Listing(v, t) # {} THEN Listing(v, t) ELSE ByMandate(v, t)

-----------------------------------------------------------------------------
Blank == [at |-> "idle", sub |-> Unset, txs |-> {}, view |-> Nothing]

\* A new subscription with the hashes it was made from.
Created(p, T, marked) ==
    [status |-> "active", profile |-> p, idents |-> IdentsOf(marked),
     matching |-> T, ignored |-> {}]

\* The process starts on a table that holds one subscription, or none.
Init ==
    /\ \E s \in Subs, T \in SUBSET Txs, p \in Profiles :
          /\ subs \in {Nothing, [Nothing EXCEPT ![s] = Created(p, T, T)]}
          /\ link \in [Txs -> {Absent, Unset, s}]
          /\ \A t \in Txs : link[t] = s <=> t \in T /\ Exists(s)
    /\ call = [c \in Calls |-> Blank]
    /\ overridden = {} /\ mailed = {} /\ disturbed = {}

At(c, label) == call[c].at = label
Done(c) == call' = [call EXCEPT ![c] = [Blank EXCEPT !.at = "done"]]

\* A call ends half-way: the database, the model or the mail server fails, or
\* the process stops.
Fails(c) ==
    /\ call[c].at \notin {"idle", "done"}
    /\ Done(c)
    /\ UNCHANGED <<subs, link, history>>

\* GetByID at the head of a call about subscription s and transactions T.
Fetch(c, label, s, T) ==
    /\ At(c, "idle")
    /\ Exists(s)
    /\ call' = [call EXCEPT ![c] = [at |-> label, sub |-> s, txs |-> T,
                                    view |-> [Nothing EXCEPT ![s] = subs[s]]]]
    /\ UNCHANGED <<subs, link, history>>

\* The subscription a call is about, as the call knows it.
Copy(c) == call[c].view[call[c].sub]
OutOfDate(c, S) == {s \in S \cap Subs : call[c].view[s] # subs[s]}

\* Update: the whole row as the call has it.  A subscription that is gone is
\* not missed.
Write(c, new) ==
    LET s == call[c].sub IN
    /\ subs' = IF Exists(s) THEN [subs EXCEPT ![s] = new] ELSE subs
    /\ disturbed' = disturbed \cup OutOfDate(c, {s})
WriteAndGo(c, new, label) ==
    /\ Write(c, new)
    /\ call' = [call EXCEPT ![c].at = label, ![c].view[call[c].sub] = new]

\* UpdateTransactionSubscription: the row must be there, and the foreign key
\* wants the subscription.
CanPoint(t, s) == InTable(t) /\ Exists(s)

\* Mutated: the hash stays on the list of ignored ones.
MutWriteLinked(c) ==
    /\ At(c, "link")
    /\ WriteAndGo(c, [Copy(c) EXCEPT !.matching = @ \cup call[c].txs], "point")
    /\ overridden' = overridden \ ({call[c].sub} \X call[c].txs)
    /\ UNCHANGED <<link, mailed>>

\* LinkTransaction, LinkTransactions: first the lists, then each transaction.
WriteLinked(c) ==
    /\ At(c, "link")
    /\ WriteAndGo(c, [Copy(c) EXCEPT !.matching = @ \cup call[c].txs,
                                     !.ignored = @ \ call[c].txs], "point")
    /\ overridden' = overridden \ ({call[c].sub} \X call[c].txs)
    /\ UNCHANGED <<link, mailed>>

\* A transaction that cannot be linked is skipped.
PointLinked(c) ==
    /\ At(c, "point")
    /\ \E t \in call[c].txs :
        /\ IF call[c].txs = {t} THEN Done(c)
           ELSE call' = [call EXCEPT ![c].txs = @ \ {t}]
        /\ \/ /\ CanPoint(t, call[c].sub)
              /\ link' = [link EXCEPT ![t] = call[c].sub]
              /\ disturbed' = disturbed \cup OutOfDate(c, {call[c].sub})
           \/ UNCHANGED <<link, disturbed>>
    /\ UNCHANGED <<subs, overridden, mailed>>

\* UnlinkTransaction: the lists, then the one transaction, whatever it points to.
WriteUnlinked(c) ==
    /\ At(c, "unlink")
    /\ WriteAndGo(c, [Copy(c) EXCEPT !.matching = @ \ call[c].txs,
                                     !.ignored = @ \cup call[c].txs], "clear")
    /\ UNCHANGED <<link, overridden, mailed>>

ClearUnlinked(c) ==
    /\ At(c, "clear")
    /\ \A t \in call[c].txs : InTable(t)
    /\ link' = [t \in Txs |-> IF t \in call[c].txs THEN Unset ELSE link[t]]
    /\ overridden' = IF Exists(call[c].sub)
                     THEN overridden \cup ({call[c].sub} \X call[c].txs) ELSE overridden
    /\ disturbed' = disturbed \cup OutOfDate(c, {call[c].sub})
    /\ Done(c)
    /\ UNCHANGED <<subs, mailed>>

\* UpdateSubscription: the fields a user edits, the status among them.
WriteEdited(c) ==
    /\ At(c, "edit")
    /\ \E st \in Status, p \in Profiles :
           Write(c, [Copy(c) EXCEPT !.status = st, !.profile = p])
    /\ mailed' = mailed \ {call[c].sub}
    /\ Done(c)
    /\ UNCHANGED <<link, overridden>>

\* Mutated: the record is built anew around the answer.
MutWriteEnriched(c) ==
    /\ At(c, "enrich")
    /\ \E p \in Profiles : Write(c, [Copy(c) EXCEPT !.profile = p, !.status = "active"])
    /\ Done(c)
    /\ UNCHANGED <<link, overridden, mailed>>

\* EnrichSubscription, after the language model answered.
WriteEnriched(c) ==
    /\ At(c, "enrich")
    /\ \E p \in Profiles : Write(c, [Copy(c) EXCEPT !.profile = p])
    /\ Done(c)
    /\ UNCHANGED <<link, overridden, mailed>>

\* CancelSubscription, after the mail was sent.
WriteCancelled(c) ==
    /\ At(c, "cancel")
    /\ Write(c, [Copy(c) EXCEPT !.status = "cancellation_pending"])
    /\ mailed' = IF Exists(call[c].sub) THEN mailed \cup {call[c].sub} ELSE mailed
    /\ Done(c)
    /\ UNCHANGED <<link, overridden>>

\* A subscription that is to be created under a new id.
Prepare(c, s, p, T, marked) ==
    /\ At(c, "idle")
    /\ subs[s] = Unborn
    /\ \A d \in Calls : call[d].sub # s
    /\ call' = [call EXCEPT ![c] =
           [at |-> "create", sub |-> s, txs |-> T,
            view |-> [Nothing EXCEPT ![s] = Created(p, T, marked)]]]
    /\ UNCHANGED <<subs, link, history>>

\* ApproveSubscription: the hashes of the request, as the client sends them,
\* and what resembles the subscription and is free now, which the identifiers
\* are taken from.  It goes on without the latter when the query fails.
ApproveSubscription(c, s, T) ==
    \E p \in Profiles : \E found \in {Unlinked \cap Resembling(p), {}} :
        Prepare(c, s, p, T \cup found, found)

\* CreateSubscriptionFromTransaction: the source transaction must be free.
CreateFromTransaction(c, s, t) ==
    /\ t \in Unlinked
    /\ \E p \in Profiles :
           LET T == {t} \cup (Unlinked \cap Resembling(p)) IN Prepare(c, s, p, T, T)

\* CreateWithBackfill, one database transaction.
CreateWithBackfill(c) ==
    /\ At(c, "create")
    /\ subs' = [subs EXCEPT ![call[c].sub] = Copy(c)]
    /\ link' = [t \in Txs |-> IF t \in call[c].txs /\ InTable(t) THEN call[c].sub ELSE link[t]]
    /\ Done(c)
    /\ UNCHANGED history

\* Mutated: the transactions keep their link.
MutDelete(c, s) ==
    /\ At(c, "idle")
    /\ Exists(s)
    /\ subs' = [subs EXCEPT ![s] = Gone]
    /\ Done(c)
    /\ UNCHANGED <<link, history>>

\* Delete; the foreign key clears the links.
Delete(c, s) ==
    /\ At(c, "idle")
    /\ Exists(s)
    /\ subs' = [subs EXCEPT ![s] = Gone]
    /\ link' = [t \in Txs |-> IF link[t] = s THEN Unset ELSE link[t]]
    /\ overridden' = {o \in overridden : o[1] # s}
    /\ mailed' = mailed \ {s}
    /\ disturbed' = disturbed \ {s}
    /\ Done(c)

\* A synchronisation stores the transactions the bank reports, those it
\* reported before included; an import stores the new ones of a statement.
Report(c, T) ==
    /\ At(c, "idle")
    /\ call' = [call EXCEPT ![c] = [Blank EXCEPT !.at = "reported", !.txs = T]]
    /\ link' = [t \in Txs |-> IF t \in T /\ link[t] = Absent THEN Unset ELSE link[t]]
    /\ UNCHANGED <<subs, history>>

\* MatchTransactions reads the subscriptions, and matches all that was reported.
ReadSubscriptions(c) ==
    /\ At(c, "reported")
    /\ call' = [call EXCEPT ![c].at = "match", ![c].view = subs]
    /\ UNCHANGED <<subs, link, history>>

\* An update that fails is ignored.
Match(c) ==
    /\ At(c, "match")
    /\ \E t \in call[c].txs :
        /\ IF call[c].txs = {t} THEN Done(c)
           ELSE call' = [call EXCEPT ![c].txs = @ \ {t}]
        /\ \/ \E s \in Targets(call[c].view, t) :
                 /\ CanPoint(t, s)
                 /\ link' = [link EXCEPT ![t] = s]
                 /\ disturbed' = disturbed \cup OutOfDate(c, {s, link[t]})
           \/ UNCHANGED <<link, disturbed>>
    /\ UNCHANGED <<subs, overridden, mailed>>

\* Transactions go with their statement or account.
DeleteTransaction(c, t) ==
    /\ At(c, "idle")
    /\ InTable(t)
    /\ link' = [link EXCEPT ![t] = Absent]
    /\ Done(c)
    /\ UNCHANGED <<subs, history>>

Request(c) ==
    \/ \E s \in Subs : \/ \E T \in SUBSET Txs \ {{}} : Fetch(c, "link", s, T)
                       \/ \E T \in SUBSET Txs : ApproveSubscription(c, s, T)
                       \/ \E t \in Txs : Fetch(c, "unlink", s, {t}) \/ CreateFromTransaction(c, s, t)
                       \/ \E label \in {"edit", "enrich", "cancel"} : Fetch(c, label, s, {})
                       \/ Delete(c, s)
    \/ \E t \in Txs : DeleteTransaction(c, t)
    \/ \E T \in SUBSET Txs \ {{}} : Report(c, T)

Next ==
    \/ \E c \in Calls :
          \/ Request(c) \/ Fails(c)
          \/ WriteLinked(c) \/ PointLinked(c) \/ WriteUnlinked(c) \/ ClearUnlinked(c)
          \/ WriteEdited(c) \/ WriteEnriched(c) \/ WriteCancelled(c)
          \/ CreateWithBackfill(c)
          \/ ReadSubscriptions(c) \/ Match(c)

Spec == Init /\ [][Next]_vars

-----------------------------------------------------------------------------
\* Links lead to subscriptions that exist.
TypeOK ==
    /\ subs \in Table
    /\ link \in [Txs -> Subs \cup {Unset, Absent}]
    /\ call \in [Calls -> Call]
    /\ overridden \subseteq Subs \X Txs
    /\ mailed \subseteq Subs
    /\ disturbed \subseteq Subs
    /\ \A t \in Txs : link[t] \in Subs => Exists(link[t])

\* No hash is both to be always and never linked to one subscription, whatever
\* old copies the calls write back: the lists change together.
ListsAreDisjoint ==
    \A s \in Subs : Exists(s) => subs[s].matching \cap subs[s].ignored = {}

\* What a user took out of a subscription stays out of it: no later import or
\* synchronisation links it again by its hash, mandate, IBAN or name, and no
\* other request about the subscription forgets it, until the user links it.
\* Unless a call writes back a copy that another call has outdated.
OverrideKept ==
    \A s \in Subs, t \in Txs : <<s, t>> \in overridden /\ s \notin disturbed =>
        t \in subs[s].ignored /\ link[t] # s

\* A subscription cancelled by mail stays so until a user edits it; again
\* unless a copy was outdated.
CancellationKept ==
    \A s \in mailed \ disturbed : subs[s].status = "cancellation_pending"

\* The matching of a synchronisation takes no transaction away from the only
\* subscription that lists it.
ListedFirst ==
    [][\A c \in Calls, t \in Txs :
          /\ At(c, "match") /\ call'[c] # call[c]
          /\ link[t] \in Subs
          /\ {s \in Subs : Exists(s) /\ t \in subs[s].matching} = {link[t]}
          => link'[t] \in {link[t], Unset, Absent} \/ {link[t], link'[t]} \cap disturbed' # {}]_vars
=============================================================================
