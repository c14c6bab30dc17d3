-------------------------- MODULE SubscriptionPages --------------------------
(* The page of subscriptions with its discovery inbox, and the page of one   *)
(* subscription with its form, its letter of cancellation and its            *)
(* transactions. Late answers navigate: the router shows two subscriptions   *)
(* one after the other in the same page, which keeps its form and letter.    *)
(*                                                                           *)
(* Of a subscription, "text" stands for the fields the form and the language *)
(* model write alike. A transaction is listed under one subscription.        *)
EXTENDS Naturals, FiniteSets

CONSTANTS Subs, Merchants, Txns, Accounts, Requests, None, Asked, Unborn, Gone,
          Faint,     \* the merchants only a tolerant discovery suggests
          Scopes     \* the kinds of clicks a behaviour is about, how many there
                     \* are of them, and the kinds of queries it follows (bounds)

VARIABLES
    subs,       \* the table of subscriptions
    link,       \* link[t]: the subscription of t
    log,        \* log[s]: the length of its audit trail
    declined,   \* merchants
    tolerant,   \* the settings of the discovery
    enriching,  \* approved ones the server asks the language model about
    page,       \* where the browser is, of which subscription
    form,       \* editForm while isEditing, and the subscription it was copied of
    letter,     \* cancellationDraft: the subscription it was written for
    modal,      \* showCancelModal
    cache, fetch, \* of each query: the last answer; None, Asked or the answer on its way
    behind,     \* queries whose answer misses something the page was not told of
    req,        \* req[r]: a mutation on its way
    sent,       \* history: <<s, of>>: what was written for "of" has been sent to s
    jumped,     \* history: one page has shown two subscriptions
    scope

server == <<subs, link, log, declined, tolerant, enriching>>
view   == <<page, form, letter, modal, jumped>>
vars   == <<server, view, cache, fetch, behind, req, sent, scope>>

Sub  == [of : Merchants, text : {"found", "enriched", "edited"}, account : Accounts \cup {None},
         status : {"active", "pending", "cancelled"}]
Page == [at : {"list", "other"}, id : {None}] \cup [at : {"detail"}, id : Subs]
ListPage  == [at |-> "list", id |-> None]
OtherPage == [at |-> "other", id |-> None]
Detail(s) == [at |-> "detail", id |-> s]

Form == [of : Subs, text : {"found", "enriched", "edited"}, account : Accounts \cup {None},
         status : {"active", "pending", "cancelled"}]
FormOf(s, sub) == [of |-> s, text |-> sub.text, account |-> sub.account, status |-> sub.status]
Edited(sub, f) == [of |-> sub.of, text |-> f.text, account |-> f.account, status |-> f.status]

Stored(s) == subs[s] \notin {Unborn, Gone}
Tracked   == {s \in Subs : Stored(s)}

\* The queries, which of them a page uses, and what the server answers.
ListKeys     == {<<"subs">>, <<"suggested">>, <<"declined">>}
KeysOf(s)    == {<<"sub", s>>, <<"txs", s>>, <<"log", s>>}
Keys         == ListKeys \cup UNION {KeysOf(s) : s \in Subs}
Used(p)      == {k \in Keys : /\ k[1] \in scope.queries
                              /\ IF p.at = "detail" THEN k \in KeysOf(p.id) ELSE p.at = "list" /\ k \in ListKeys}

Suggested ==
    {m \in Merchants : /\ m \notin declined
                       /\ m \in Faint => tolerant
                       /\ \A s \in Tracked : subs[s].of # m}

Answer(k) ==
    CASE k[1] = "subs"      -> [s \in Tracked |-> subs[s]]
      [] k[1] = "suggested" -> Suggested
      [] k[1] = "declined"  -> declined
      [] k[1] = "sub"       -> subs[k[2]]
      [] k[1] = "txs"       -> {t \in Txns : link[t] = k[2]}
      [] k[1] = "log"       -> log[k[2]]

Shown(k, default) == IF cache[k] = None THEN default ELSE cache[k]
Rows == Shown(<<"subs">>, [s \in {} |-> None])

Click(kind) ==
    /\ kind \in scope.clicks /\ scope.left > 0
    /\ scope' = [scope EXCEPT !.left = @ - 1]

Init ==
    /\ scope \in Scopes
    /\ \E T \in SUBSET Subs, m \in Merchants \ Faint, a \in Accounts \cup {None} :
          subs = [s \in Subs |-> IF s \in T THEN [of |-> m, text |-> "found", account |-> a, status |-> "active"]
                                 ELSE Unborn]
    /\ link \in [Txns -> {None} \cup Tracked]
    /\ log = [s \in Subs |-> 0]
    /\ declined = {} /\ tolerant = FALSE /\ enriching = {}
    /\ page = ListPage
    /\ form = None /\ letter = None /\ modal = FALSE /\ jumped = FALSE
    /\ cache = [k \in Keys |-> None]
    /\ fetch = [k \in Keys |-> IF k \in Used(page) THEN Asked ELSE None]
    /\ behind = {}
    /\ req = [r \in Requests |-> None]
    /\ sent = {}

-----------------------------------------------------------------------------
(* Queries and navigation *)

\* Of a deleted subscription the page keeps what it has.
Known(k) == k[1] = "sub" => Stored(k[2])

Read(k) ==
    /\ fetch[k] = Asked
    /\ fetch' = [fetch EXCEPT ![k] = IF Known(k) THEN Answer(k) ELSE None]
    /\ behind' = IF Known(k) THEN behind \ {k} ELSE behind \cup {k}
    /\ UNCHANGED <<server, view, cache, req, sent, scope>>

Receive(k) ==
    /\ fetch[k] \notin {None, Asked}
    /\ cache' = [cache EXCEPT ![k] = fetch[k]]
    /\ fetch' = [fetch EXCEPT ![k] = None]
    /\ UNCHANGED <<server, view, behind, req, sent, scope>>

\* A page that is left loses its state; its mutations go on without it. The
\* element of the route is the same for all subscriptions.
Same(p) == page.at = "detail" /\ p.at = "detail"

\* Mutant: the form and the letter outlive the page.
MutLand(p) ==
    /\ page' = p
    /\ jumped' = (jumped \/ (Same(p) /\ p # page))
    /\ UNCHANGED <<form, letter, modal>>

Land(p) ==
    /\ page' = p
    /\ jumped' = (jumped \/ (Same(p) /\ p # page))
    /\ IF Same(p) THEN UNCHANGED <<form, letter, modal>> ELSE form' = None /\ letter' = None /\ modal' = FALSE

Left(m) == [m EXCEPT !.here = FALSE]
Leave(p, requests) == [r \in Requests |-> IF requests[r] # None /\ ~Same(p) THEN Left(requests[r]) ELSE requests[r]]

\* An answer on its way that an invalidation does not replace: of a query that
\* no page uses, or the first one that a page waits for.
Kept(k) == fetch[k] \notin {None, Asked} /\ (k \notin Used(page) \/ cache[k] = None)

\* What was invalidated is asked for anew if the page uses it, then what the
\* next page uses unless that is on its way.
Asking(p, invalid) ==
    fetch' = [k \in Keys |-> IF \/ k \in invalid \cap Used(page) /\ ~Kept(k)
                                \/ k \in Used(p) \ Used(page) /\ fetch[k] = None
                             THEN Asked ELSE fetch[k]]

Go(p) ==
    /\ Click("go")
    /\ p # page
    /\ p.at = "detail" => page.at = "list" /\ p.id \in DOMAIN Rows
    /\ Land(p)
    /\ Asking(p, {})
    /\ req' = Leave(p, req)
    /\ UNCHANGED <<server, cache, behind, sent>>

-----------------------------------------------------------------------------
(* Mutations *)

\* What a call is about, and what it carries.
OfMerchant == {"approve", "decline", "undecline", "discover"}
Kinds == OfMerchant \cup {"drop", "delete", "enrich", "enrichRow", "update", "cancel", "link", "unlink", "preview"}
About(kind) ==
    CASE kind = "discover" -> {None} [] kind \in OfMerchant \ {"discover"} -> Merchants [] OTHER -> Subs
What(kind) ==
    CASE kind = "discover"           -> BOOLEAN
      [] kind = "update"             -> Form
      [] kind = "cancel"             -> Subs
      [] kind \in {"link", "unlink"} -> SUBSET Txns
      [] OTHER                       -> {None}
Call(kind) == [kind : {kind}, about : About(kind), what : What(kind), here : BOOLEAN,
               stage : {"sent", "done", "failed"}]

Sent(kind, about, what) == [kind |-> kind, about |-> about, what |-> what, here |-> TRUE, stage |-> "sent"]
Answered(m, stage)      == [m EXCEPT !.stage = stage]

Free(r) == req[r] = None /\ \A q \in Requests : req[q] = None => r <= q
Pending(kinds) == \E r \in Requests : req[r] # None /\ req[r].here /\ req[r].kind \in kinds

\* One mutation of a kind at a time, as long as its page is shown.
Send(r, kind, about, what) ==
    /\ Free(r)
    /\ kind # "preview" => ~Pending({kind})
    /\ req' = [req EXCEPT ![r] = Sent(kind, about, what)]
    /\ UNCHANGED <<server, cache, fetch, behind, sent>>

Approve(r) ==
    /\ Click("inbox") /\ page = ListPage
    /\ \E m \in Shown(<<"suggested">>, {}) : Send(r, "approve", m, None)
    /\ UNCHANGED view

Decline(r) ==
    /\ Click("inbox") /\ page = ListPage
    /\ \E m \in Shown(<<"suggested">>, {}) : Send(r, "decline", m, None)
    /\ UNCHANGED view

Undecline(r) ==
    /\ Click("inbox") /\ page = ListPage
    /\ \E m \in Shown(<<"declined">>, {}) : Send(r, "undecline", m, None)
    /\ UNCHANGED view

\* DiscoverySettings: all four preferences, edited or not.
Discover(r) ==
    /\ Click("inbox") /\ page = ListPage
    /\ Send(r, "discover", None, ~tolerant)
    /\ UNCHANGED view

DropRow(r) ==
    /\ Click("row") /\ page = ListPage
    /\ \E s \in DOMAIN Rows : Send(r, "drop", s, None)
    /\ UNCHANGED view

EnrichRow(r) ==
    /\ Click("row") /\ page = ListPage
    /\ \E s \in DOMAIN Rows : Rows[s].status # "cancelled" /\ Send(r, "enrichRow", s, None)
    /\ UNCHANGED view

\* The row's button opens the page with ?cancel=true, whatever its status but
\* "cancelled": the page asks for a letter and opens the modal at once.
CancelRow(r) ==
    /\ Click("letter") /\ page = ListPage
    /\ Free(r)
    /\ \E s \in DOMAIN Rows :
        /\ Rows[s].status # "cancelled"
        /\ page' = Detail(s) /\ modal' = TRUE /\ form' = None /\ letter' = None
        /\ Asking(Detail(s), {})
        /\ req' = [Leave(Detail(s), req) EXCEPT ![r] = Sent("preview", s, None)]
    /\ UNCHANGED <<server, cache, behind, sent, jumped>>

\* The page of a subscription shows nothing before it has it.
Loaded == page.at = "detail" /\ cache[<<"sub", page.id>>] \in Sub
This   == cache[<<"sub", page.id>>]

StartEdit ==
    /\ Click("form") /\ Loaded /\ form = None
    /\ form' = FormOf(page.id, This)
    /\ UNCHANGED <<server, page, letter, modal, jumped, cache, fetch, behind, req, sent>>

Edit ==
    /\ Click("form") /\ Loaded /\ form # None
    /\ \/ form' = [form EXCEPT !.text = "edited"]
       \/ \E a \in Accounts \cup {None} : form' = [form EXCEPT !.account = a]
       \/ \E c \in {"active", "cancelled"} : form' = [form EXCEPT !.status = c]
    /\ UNCHANGED <<server, page, letter, modal, jumped, cache, fetch, behind, req, sent>>

CancelEdit ==
    /\ form # None /\ Loaded
    /\ form' = None
    /\ UNCHANGED <<server, page, letter, modal, jumped, cache, fetch, behind, req, sent, scope>>

Save(r) ==
    /\ Click("form") /\ Loaded /\ form # None
    /\ Send(r, "update", page.id, form)
    /\ UNCHANGED view

Enrich(r) ==
    /\ Click("enrich") /\ Loaded /\ form = None
    /\ Send(r, "enrich", page.id, None)
    /\ UNCHANGED view

OpenLetter(r) ==
    /\ Click("letter") /\ Loaded /\ This.status = "active"
    /\ modal' = TRUE
    /\ Send(r, "preview", page.id, None)
    /\ UNCHANGED <<page, form, letter, jumped>>

CloseLetter ==
    /\ modal /\ Loaded
    /\ modal' = FALSE
    /\ UNCHANGED <<server, page, form, letter, jumped, cache, fetch, behind, req, sent, scope>>

\* The modal shows the letter unless another one is being written.
SendLetter(r) ==
    /\ Click("letter") /\ Loaded /\ modal /\ letter # None /\ ~Pending({"preview"})
    /\ Send(r, "cancel", page.id, letter)
    /\ UNCHANGED view

\* LinkTransactionModal offers what no subscription has.
Link(r) ==
    /\ Click("link") /\ Loaded
    /\ \E T \in SUBSET {t \in Txns : link[t] = None} : T # {} /\ Send(r, "link", page.id, T)
    /\ UNCHANGED view

Unlink(r) ==
    /\ Click("link") /\ Loaded
    /\ \E t \in Shown(<<"txs", page.id>>, {}) : Send(r, "unlink", page.id, {t})
    /\ UNCHANGED view

Delete(r) ==
    /\ Click("row") /\ Loaded
    /\ Send(r, "delete", page.id, None)
    /\ UNCHANGED view

-----------------------------------------------------------------------------
(* The server *)

Enriched(s) == subs' = [subs EXCEPT ![s].text = "enriched"] /\ log' = [log EXCEPT ![s] = @ + 1]

\* A form without an account sends "" for an id, which no id is decoded from.
Accepted(m) ==
    /\ m.kind = "approve" => \E s \in Subs : subs[s] = Unborn
    /\ m.kind \notin OfMerchant => Stored(m.about)
    /\ m.kind = "update" => m.what.account # None

Served(m) ==
    CASE m.kind = "approve" ->
           LET s == CHOOSE x \in Subs : subs[x] = Unborn IN
           /\ subs' = [subs EXCEPT ![s] = [of |-> m.about, text |-> "found", account |-> None, status |-> "active"]]
           /\ log' = [log EXCEPT ![s] = 1]
           /\ enriching' = enriching \cup {s}
           /\ UNCHANGED <<link, declined, tolerant>>
      [] m.kind = "decline"   -> declined' = declined \cup {m.about} /\ UNCHANGED <<subs, link, log, tolerant, enriching>>
      [] m.kind = "undecline" -> declined' = declined \ {m.about} /\ UNCHANGED <<subs, link, log, tolerant, enriching>>
      [] m.kind = "discover"  -> tolerant' = m.what /\ UNCHANGED <<subs, link, log, declined, enriching>>
      [] m.kind \in {"drop", "delete"} ->
           /\ subs' = [subs EXCEPT ![m.about] = Gone]
           /\ link' = [t \in Txns |-> IF link[t] = m.about THEN None ELSE link[t]]
           /\ enriching' = enriching \ {m.about}
           /\ UNCHANGED <<log, declined, tolerant>>
      [] m.kind \in {"enrich", "enrichRow"} -> Enriched(m.about) /\ UNCHANGED <<link, declined, tolerant, enriching>>
      [] m.kind = "update" ->
           /\ subs' = [subs EXCEPT ![m.about] = Edited(@, m.what)]
           /\ log' = IF m.what.status # subs[m.about].status THEN [log EXCEPT ![m.about] = @ + 1] ELSE log
           /\ UNCHANGED <<link, declined, tolerant, enriching>>
      [] m.kind = "cancel" ->
           /\ subs' = [subs EXCEPT ![m.about].status = "pending"]
           /\ log' = [log EXCEPT ![m.about] = @ + 1]
           /\ UNCHANGED <<link, declined, tolerant, enriching>>
      [] m.kind \in {"link", "unlink"} ->
           /\ link' = [t \in Txns |-> IF t \notin m.what THEN link[t] ELSE IF m.kind = "link" THEN m.about ELSE None]
           /\ log' = [log EXCEPT ![m.about] = @ + 1]
           /\ UNCHANGED <<subs, declined, tolerant, enriching>>
      [] m.kind = "preview" -> UNCHANGED server

\* What a call changes and the callback of its answer leaves out: the suggestions
\* of a merchant whose subscription is deleted; the list, for a letter or an
\* enrichment of the page of one subscription; that page, for an enrichment of
\* the list; the transactions of another one that a link takes them from; and
\* the audit trail, but for a letter.
Untold(m) ==
    CASE m.kind \in {"drop", "delete"}   -> {<<"suggested">>}
      [] m.kind = "cancel"              -> {<<"subs">>}
      [] m.kind = "enrich"              -> {<<"subs">>, <<"log", m.about>>}
      [] m.kind = "enrichRow"           -> {<<"sub", m.about>>, <<"log", m.about>>}
      [] m.kind = "update"              -> {<<"log", m.about>>}
      [] m.kind \in {"link", "unlink"}  -> {<<"log", m.about>>} \cup {<<"txs", s>> : s \in Subs \ {m.about}}
      [] OTHER                          -> {}

\* The queries that a step of the server gives another answer.
Changed == {k \in Keys : Answer(k)' # Answer(k)}

\* A call is written or fails, and its answer may be lost; then the page does
\* not ask again.
Serve(r) ==
    /\ req[r] # None /\ req[r].stage = "sent"
    /\ \/ /\ Accepted(req[r])
          /\ Served(req[r])
          /\ sent' = IF req[r].kind = "update" THEN sent \cup {<<req[r].about, req[r].what.of>>}
                     ELSE IF req[r].kind = "cancel" THEN sent \cup {<<req[r].about, req[r].what>>}
                     ELSE sent
          /\ \E answered \in BOOLEAN :
              /\ req' = [req EXCEPT ![r] = Answered(@, IF answered THEN "done" ELSE "failed")]
              /\ behind' = behind \cup (IF answered THEN Changed \cap Untold(req[r]) ELSE Changed)
       \/ /\ req' = [req EXCEPT ![r] = Answered(@, "failed")]
          /\ UNCHANGED <<server, sent, behind>>
    /\ UNCHANGED <<view, cache, fetch, scope>>

\* The language model's answer about an approved one, minutes later.
BackgroundEnrich(s) ==
    /\ s \in enriching
    /\ enriching' = enriching \ {s}
    /\ Enriched(s)
    /\ UNCHANGED <<link, declined, tolerant>>
    /\ behind' = behind \cup Changed
    /\ UNCHANGED <<view, cache, fetch, req, sent, scope>>

-----------------------------------------------------------------------------
(* The answers: onSuccess of each mutation; none has an onError *)

\* Mutant: an approval leaves the suggestions as they are.
MutInvalid(m, s) ==
    CASE m.kind = "approve"               -> {<<"subs">>}
      [] m.kind \in {"decline", "undecline"} -> {<<"suggested">>, <<"declined">>}
      [] m.kind = "discover"              -> {<<"suggested">>}
      [] m.kind \in {"drop", "delete", "enrichRow"} -> {<<"subs">>}
      [] m.kind = "enrich"                -> {<<"sub", s>>}
      [] m.kind = "update"                -> {<<"sub", s>>, <<"subs">>}
      [] m.kind = "cancel"                -> {<<"sub", s>>, <<"log", s>>}
      [] m.kind \in {"link", "unlink"}    -> {<<"sub", s>>, <<"txs", s>>}
      [] m.kind = "preview"               -> {}

\* What the callback of a mutation invalidates, of the subscription s.
Invalid(m, s) ==
    CASE m.kind = "approve"               -> {<<"subs">>, <<"suggested">>}
      [] m.kind \in {"decline", "undecline"} -> {<<"suggested">>, <<"declined">>}
      [] m.kind = "discover"              -> {<<"suggested">>}
      [] m.kind \in {"drop", "delete", "enrichRow"} -> {<<"subs">>}
      [] m.kind = "enrich"                -> {<<"sub", s>>}
      [] m.kind = "update"                -> {<<"sub", s>>, <<"subs">>}
      [] m.kind = "cancel"                -> {<<"sub", s>>, <<"log", s>>}
      [] m.kind \in {"link", "unlink"}    -> {<<"sub", s>>, <<"txs", s>>}
      [] m.kind = "preview"               -> {}

\* The callbacks of a page that is still there use the id it shows by now.
Turned(m) == IF m.here /\ page.at = "detail" THEN page.id ELSE m.about

\* Where it leads: the page of a deleted one to the list, an enrichment that
\* the list began to the page of the subscription.
Leads(m) == CASE m.kind = "delete" -> ListPage [] m.kind = "enrichRow" -> Detail(m.about) [] OTHER -> page

\* Mutant: the answers of a page that was left reach the next one.
MutClosing(m) ==
    CASE m.kind = "update"    -> form' = None /\ UNCHANGED <<letter, modal>>
      [] m.kind = "cancel"    -> letter' = None /\ modal' = FALSE /\ UNCHANGED form
      [] m.kind = "preview"   -> letter' = m.about /\ UNCHANGED <<form, modal>>
      [] OTHER                -> UNCHANGED <<form, letter, modal>>

\* What else it does to the page that began it, while that is shown.
Closing(m) ==
    IF ~m.here THEN UNCHANGED <<form, letter, modal>>
    ELSE CASE m.kind = "update"  -> form' = None /\ UNCHANGED <<letter, modal>>
           [] m.kind = "cancel"  -> letter' = None /\ modal' = FALSE /\ UNCHANGED form
           [] m.kind = "preview" -> letter' = m.about /\ UNCHANGED <<form, modal>>
           [] OTHER              -> UNCHANGED <<form, letter, modal>>

Settle(r) ==
    /\ req[r] # None /\ req[r].stage \in {"done", "failed"}
    /\ LET m == req[r]  p == Leads(m)  left == [req EXCEPT ![r] = None] IN
       IF m.stage = "failed"
       THEN req' = left /\ UNCHANGED <<view, fetch, behind>>
       ELSE /\ Asking(p, Invalid(m, Turned(m)))
            /\ behind' = behind \cup {k \in Invalid(m, Turned(m)) \cup Invalid(m, m.about) : Kept(k)}
            /\ IF p # page THEN Land(p) /\ req' = Leave(p, left)
               ELSE Closing(m) /\ req' = left /\ UNCHANGED <<page, jumped>>
    /\ UNCHANGED <<server, cache, sent, scope>>

-----------------------------------------------------------------------------
Next ==
    \/ \E k \in Keys : Read(k) \/ Receive(k)
    \/ \E p \in Page : Go(p)
    \/ StartEdit \/ Edit \/ CancelEdit \/ CloseLetter
    \/ \E r \in Requests :
        \/ Approve(r) \/ Decline(r) \/ Undecline(r) \/ Discover(r)
        \/ DropRow(r) \/ EnrichRow(r) \/ CancelRow(r)
        \/ Save(r) \/ Enrich(r) \/ OpenLetter(r) \/ SendLetter(r) \/ Link(r) \/ Unlink(r) \/ Delete(r)
        \/ Serve(r) \/ Settle(r)
    \/ \E s \in Subs : BackgroundEnrich(s)

Spec == Init /\ [][Next]_vars

-----------------------------------------------------------------------------
(* Properties *)

Fits(k, answer) ==
    CASE k[1] = "subs"                     -> answer \in UNION {[T -> Sub] : T \in SUBSET Subs}
      [] k[1] \in {"suggested", "declined"} -> answer \subseteq Merchants
      [] k[1] = "sub"                      -> answer \in Sub
      [] k[1] = "txs"                      -> answer \subseteq Txns
      [] k[1] = "log"                      -> answer \in Nat

TypeOK ==
    /\ subs \in [Subs -> Sub \cup {Unborn, Gone}]
    /\ link \in [Txns -> Subs \cup {None}] /\ log \in [Subs -> Nat]
    /\ declined \subseteq Merchants /\ tolerant \in BOOLEAN /\ enriching \subseteq Tracked
    /\ page \in Page /\ form \in Form \cup {None} /\ letter \in Subs \cup {None} /\ modal \in BOOLEAN
    /\ page.at # "detail" => form = None /\ letter = None /\ ~modal
    /\ behind \subseteq Keys /\ sent \subseteq Subs \X Subs
    /\ DOMAIN cache = Keys /\ DOMAIN fetch = Keys /\ DOMAIN req = Requests
    /\ \A k \in Keys : /\ cache[k] = None \/ Fits(k, cache[k])
                       /\ fetch[k] \in {None, Asked} \/ Fits(k, fetch[k])
    /\ \A r \in Requests : req[r] = None \/ \E kind \in Kinds : req[r] \in Call(kind)
    /\ scope = [clicks |-> scope.clicks, left |-> scope.left, queries |-> scope.queries]

\* Once nothing is under way the page of a subscription that is still there, or
\* the list, shows what the server has, except, until it is asked for again,
\*  - what was changed by a call whose answer was lost, or by the enrichment of
\*    an approved suggestion, of which the page is not told;
\*  - what the callback of the call leaves out (Untold): above all the list keeps
\*    its suggestions when a subscription is deleted;
\*  - what was asked for before the change, if its answer was on its way when the
\*    callback invalidated it (Kept).
\* (SubscriptionsPage.tsx:60-101, SubscriptionDetailPage.tsx:99-148, 182-189).
QuietShowsServer ==
    (\A r \in Requests : req[r] = None) /\ (page.at = "detail" => Stored(page.id)) =>
        \A k \in Used(page) \ behind : fetch[k] = None => cache[k] = Answer(k)

\* A form is saved to the subscription it was filled in for, and a letter goes
\* to the one it was written for, unless a late answer has turned the page to
\* another subscription (SubscriptionDetailPage.tsx:94-125, App.tsx:68).
SentAsWritten == jumped \/ \A p \in sent : p[1] = p[2]

==============================================================================
