------------------------ MODULE SubscriptionsProofs ------------------------
(* Proofs about Subscriptions, for any subscriptions, transactions and calls. *)
EXTENDS Subscriptions, TLAPS

\* Where a call is about one subscription, of which it has a copy.
Working == {"link", "point", "unlink", "clear", "edit", "enrich", "cancel", "create"}

HasCopy(c) == call[c].sub \in Subs /\ Copy(c) \in Subscription
Busy == \A c \in Calls : call[c].at \in Working => HasCopy(c)
Shape == TypeOK /\ Busy

-----------------------------------------------------------------------------
\* A call that ends holds nothing.
LEMMA DoneShape ==
    ASSUME Shape, NEW c \in Calls, Done(c)
    PROVE  /\ call' \in [Calls -> Call] /\ Busy'
           /\ call'[c].at = "done" /\ call'[c].sub = Unset /\ call'[c].view = Nothing
           /\ \A d \in Calls \ {c} : call'[d] = call[d]
<1>1. Nothing \in Table
      BY DEF Nothing, Table
<1>2. [Blank EXCEPT !.at = "done"] = [at |-> "done", sub |-> Unset, txs |-> {}, view |-> Nothing]
      BY DEF Blank
<1>3. [Blank EXCEPT !.at = "done"] \in Call
      BY <1>1, <1>2 DEF Call
<1>4. call' = [call EXCEPT ![c] = [Blank EXCEPT !.at = "done"]]
      BY DEF Done
<1>5. call' \in [Calls -> Call] /\ \A d \in Calls \ {c} : call'[d] = call[d]
      BY <1>3, <1>4 DEF Shape, TypeOK
<1>6. call'[c] = [at |-> "done", sub |-> Unset, txs |-> {}, view |-> Nothing]
      BY <1>2, <1>4 DEF Shape, TypeOK
<1>7. Busy'
  <2> SUFFICES ASSUME NEW d \in Calls, call'[d].at \in Working PROVE HasCopy(d)'
      BY DEF Busy
  <2>1. d # c
        BY <1>6 DEF Working
  <2> QED BY <1>5, <2>1 DEF Shape, Busy, HasCopy, Copy
<1> QED BY <1>5, <1>6, <1>7

\* A call that begins, or moves on, with a copy of its subscription.
LEMMA HoldsCopy ==
    ASSUME Shape, NEW c \in Calls, NEW label \in Working, NEW s \in Subs,
           NEW T \in SUBSET Txs, NEW v \in Table, v[s] \in Subscription,
           call' = [call EXCEPT ![c] = [at |-> label, sub |-> s, txs |-> T, view |-> v]]
    PROVE  /\ call' \in [Calls -> Call] /\ Busy'
           /\ call'[c] = [at |-> label, sub |-> s, txs |-> T, view |-> v]
           /\ \A d \in Calls \ {c} : call'[d] = call[d]
<1>1. [at |-> label, sub |-> s, txs |-> T, view |-> v] \in Call
      BY DEF Call, Working
<1>2. /\ call' \in [Calls -> Call]
      /\ call'[c] = [at |-> label, sub |-> s, txs |-> T, view |-> v]
      /\ \A d \in Calls \ {c} : call'[d] = call[d]
      BY <1>1 DEF Shape, TypeOK
<1> QED BY <1>2 DEF Shape, Busy, HasCopy, Copy

\* A table with one subscription in it.
LEMMA OneCopy ==
    ASSUME NEW s \in Subs, NEW r \in Subscription
    PROVE  /\ [Nothing EXCEPT ![s] = r] \in Table
           /\ [Nothing EXCEPT ![s] = r][s] = r
           /\ \A o \in Subs \ {s} : [Nothing EXCEPT ![s] = r][o] = Unborn
BY DEF Nothing, Table

\* What the update of a subscription does to the table.
LEMMA WriteShape ==
    ASSUME Shape, NEW c \in Calls, call[c].at \in Working,
           NEW new \in Subscription, Write(c, new)
    PROVE  /\ subs' \in Table
           /\ \A s \in Subs : Exists(s)' <=> Exists(s)
           /\ \A s \in Subs : s # call[c].sub => subs'[s] = subs[s]
           /\ Exists(call[c].sub) => subs'[call[c].sub] = new
           /\ ~Exists(call[c].sub) => subs' = subs
           /\ disturbed' = disturbed \cup OutOfDate(c, {call[c].sub})
           /\ disturbed' \subseteq Subs
<1>1. call[c].sub \in Subs
      BY DEF Shape, Busy, HasCopy
<1> QED BY <1>1 DEF Write, Exists, Shape, TypeOK, Table, OutOfDate

\* A call that has written its copy goes on with what it wrote.
LEMMA WriteAndGoShape ==
    ASSUME Shape, NEW c \in Calls, call[c].at \in Working,
           NEW new \in Subscription, NEW label \in Working, WriteAndGo(c, new, label)
    PROVE  /\ call' \in [Calls -> Call] /\ Busy'
           /\ call'[c].at = label /\ call'[c].sub = call[c].sub
           /\ call'[c].txs = call[c].txs
           /\ call'[c].view = [call[c].view EXCEPT ![call[c].sub] = new]
           /\ \A d \in Calls \ {c} : call'[d] = call[d]
<1> DEFINE v == [call[c].view EXCEPT ![call[c].sub] = new]
           r == [call[c] EXCEPT !.at = label, !.view = v]
<1>1. call[c] \in Call /\ call[c].sub \in Subs
      BY DEF Shape, TypeOK, Busy, HasCopy
<1>2. v \in Table /\ v[call[c].sub] \in Subscription
      BY <1>1 DEF Call, Table
<1>3. call' = [call EXCEPT ![c] = r]
      BY <1>1 DEF WriteAndGo, Call, Shape, TypeOK
<1> HIDE DEF v
<1>4. r \in Call /\ r.at = label /\ r.sub = call[c].sub /\ r.txs = call[c].txs /\ r.view = v
      BY <1>1, <1>2 DEF Call, Working
<1> HIDE DEF r
<1>5. call' \in [Calls -> Call] /\ call'[c] = r /\ \A d \in Calls \ {c} : call'[d] = call[d]
      BY <1>3, <1>4 DEF Shape, TypeOK
<1>6. Busy'
      BY <1>1, <1>2, <1>4, <1>5 DEF Shape, Busy, HasCopy, Copy
<1> QED BY <1>4, <1>5, <1>6 DEF v

\* A call that has dealt with one of its transactions.
LEMMA OneLess ==
    ASSUME Shape, NEW c \in Calls, NEW t \in Txs,
           call' = [call EXCEPT ![c].txs = @ \ {t}]
    PROVE  /\ call' \in [Calls -> Call] /\ Busy'
           /\ call'[c].at = call[c].at /\ call'[c].sub = call[c].sub
           /\ call'[c].view = call[c].view /\ call'[c].txs = call[c].txs \ {t}
           /\ \A d \in Calls \ {c} : call'[d] = call[d]
<1> DEFINE r == [call[c] EXCEPT !.txs = @ \ {t}]
<1>1. call[c] \in Call
      BY DEF Shape, TypeOK
<1>2. /\ r \in Call /\ r.at = call[c].at /\ r.sub = call[c].sub
      /\ r.view = call[c].view /\ r.txs = call[c].txs \ {t}
      BY <1>1 DEF Call
<1>3. call' = [call EXCEPT ![c] = r]
      BY <1>1 DEF Call, Shape, TypeOK
<1> HIDE DEF r
<1>4. call' \in [Calls -> Call] /\ call'[c] = r /\ \A d \in Calls \ {c} : call'[d] = call[d]
      BY <1>2, <1>3 DEF Shape, TypeOK
<1>5. Busy'
      BY <1>2, <1>4 DEF Shape, Busy, HasCopy, Copy
<1> QED BY <1>2, <1>4, <1>5

\* The records that requests build.
LEMMA CreatedIsSubscription ==
    ASSUME NEW p \in Profiles, NEW T \in SUBSET Txs, NEW M \in SUBSET Txs
    PROVE  Created(p, T, M) \in Subscription /\ Created(p, T, M).ignored = {}
<1>1. IdentsOf(M) \subseteq Idents
      BY TxAssumption DEF IdentsOf
<1> QED BY <1>1 DEF Created, Subscription, Status

-----------------------------------------------------------------------------
LEMMA InitShape == Init => Shape
<1> SUFFICES ASSUME Init PROVE Shape
    OBVIOUS
<1>1. PICK s \in Subs, T \in SUBSET Txs, p \in Profiles :
          /\ subs \in {Nothing, [Nothing EXCEPT ![s] = Created(p, T, T)]}
          /\ link \in [Txs -> {Absent, Unset, s}]
          /\ \A t \in Txs : link[t] = s <=> t \in T /\ Exists(s)
      BY DEF Init
<1>2. subs \in Table
  <2>1. Created(p, T, T) \in Subscription
        BY CreatedIsSubscription
  <2>2. [Nothing EXCEPT ![s] = Created(p, T, T)] \in Table
        BY <2>1, OneCopy
  <2> QED BY <1>1, <2>2 DEF Nothing, Table
<1>3. Blank \in Call
      BY DEF Blank, Call, Nothing, Table
<1>4. call \in [Calls -> Call] /\ \A c \in Calls : call[c].at = "idle"
      BY <1>3 DEF Init, Blank
<1>5. \A t \in Txs : link[t] \in Subs => Exists(link[t])
      BY <1>1, MarkerAssumption
<1>6. TypeOK
      BY <1>1, <1>2, <1>4, <1>5 DEF TypeOK, Init
<1>7. Busy
      BY <1>4 DEF Busy, Working
<1> QED BY <1>6, <1>7 DEF Shape

LEMMA NextShape == Shape /\ [Next]_vars => Shape'
<1> SUFFICES ASSUME Shape, [Next]_vars PROVE Shape'
    OBVIOUS
<1> USE DEF Shape
<1>1. ASSUME NEW c \in Calls, Fails(c) PROVE Shape'
      BY <1>1, DoneShape DEF Fails, TypeOK, history, Exists
<1>2. ASSUME NEW c \in Calls, NEW l \in Working, NEW s \in Subs, NEW T \in SUBSET Txs,
             Fetch(c, l, s, T)
      PROVE  Shape'
  <2>1. [Nothing EXCEPT ![s] = subs[s]] \in Table /\ [Nothing EXCEPT ![s] = subs[s]][s] = subs[s]
        BY <1>2, OneCopy DEF Fetch, Exists
  <2> DEFINE v == [Nothing EXCEPT ![s] = subs[s]]
  <2>2. call' = [call EXCEPT ![c] = [at |-> l, sub |-> s, txs |-> T, view |-> v]]
        BY <1>2 DEF Fetch
  <2>3. v \in Table /\ v[s] \in Subscription
        BY <1>2, <2>1 DEF Fetch, Exists
  <2> HIDE DEF v
  <2>4. call' \in [Calls -> Call] /\ Busy'
        BY <2>2, <2>3, HoldsCopy
  <2> QED BY <1>2, <2>4 DEF Fetch, TypeOK, history, Exists
<1>3. ASSUME NEW c \in Calls, NEW s \in Subs, NEW p \in Profiles,
             NEW T \in SUBSET Txs, NEW M \in SUBSET Txs, Prepare(c, s, p, T, M)
      PROVE  Shape'
  <2> DEFINE v == [Nothing EXCEPT ![s] = Created(p, T, M)]
  <2>1. v \in Table /\ v[s] \in Subscription
    <3>1. Created(p, T, M) \in Subscription
          BY CreatedIsSubscription
    <3> QED BY <3>1, OneCopy
  <2>2. call' = [call EXCEPT ![c] = [at |-> "create", sub |-> s, txs |-> T, view |-> v]]
        BY <1>3 DEF Prepare
  <2> HIDE DEF v
  <2>3. call' \in [Calls -> Call] /\ Busy'
        BY <2>1, <2>2, HoldsCopy DEF Working
  <2> QED BY <1>3, <2>3 DEF Prepare, TypeOK, history, Exists
<1>4. ASSUME NEW c \in Calls, NEW s \in Subs, NEW T \in SUBSET Txs, ApproveSubscription(c, s, T)
      PROVE  Shape'
  <2>1. PICK p \in Profiles : \E found \in {Unlinked \cap Resembling(p), {}} :
            Prepare(c, s, p, T \cup found, found)
        BY <1>4 DEF ApproveSubscription
  <2>2. PICK found \in {Unlinked \cap Resembling(p), {}} : Prepare(c, s, p, T \cup found, found)
        BY <2>1
  <2>3. found \in SUBSET Txs
        BY DEF Unlinked
  <2> QED BY <1>3, <2>2, <2>3
<1>5. ASSUME NEW c \in Calls, NEW s \in Subs, NEW t \in Txs, CreateFromTransaction(c, s, t)
      PROVE  Shape'
  <2>1. PICK p \in Profiles :
            LET T == {t} \cup (Unlinked \cap Resembling(p)) IN Prepare(c, s, p, T, T)
        BY <1>5 DEF CreateFromTransaction
  <2>2. {t} \cup (Unlinked \cap Resembling(p)) \in SUBSET Txs
        BY DEF Unlinked
  <2> QED BY <1>3, <2>1, <2>2
<1>6. ASSUME NEW c \in Calls, WriteLinked(c) PROVE Shape'
  <2> DEFINE new == [Copy(c) EXCEPT !.matching = @ \cup call[c].txs, !.ignored = @ \ call[c].txs]
  <2>1. call[c].at \in Working /\ call[c] \in Call /\ Copy(c) \in Subscription
        BY <1>6 DEF WriteLinked, At, Working, TypeOK, Busy, HasCopy
  <2>2. new \in Subscription
        BY <2>1 DEF Call, Subscription
  <2>3. WriteAndGo(c, new, "point") /\ overridden' \subseteq overridden /\ UNCHANGED <<link, mailed>>
        BY <1>6 DEF WriteLinked
  <2> HIDE DEF new
  <2>4. Write(c, new)
        BY <2>3 DEF WriteAndGo
  <2>5. call' \in [Calls -> Call] /\ Busy'
        BY <2>1, <2>2, <2>3, WriteAndGoShape DEF Working
  <2> QED BY <2>1, <2>2, <2>3, <2>4, <2>5, WriteShape DEF TypeOK
<1>7. ASSUME NEW c \in Calls, PointLinked(c) PROVE Shape'
  <2>1. PICK t \in call[c].txs :
          /\ IF call[c].txs = {t} THEN Done(c)
             ELSE call' = [call EXCEPT ![c].txs = @ \ {t}]
          /\ \/ /\ CanPoint(t, call[c].sub)
                /\ link' = [link EXCEPT ![t] = call[c].sub]
                /\ disturbed' = disturbed \cup OutOfDate(c, {call[c].sub})
             \/ UNCHANGED <<link, disturbed>>
        BY <1>7 DEF PointLinked
  <2>2. t \in Txs /\ call[c].sub \in Subs
        BY <1>7, <2>1 DEF TypeOK, Call, PointLinked, At, Working, Busy, HasCopy
  <2>3. call' \in [Calls -> Call] /\ Busy'
        BY <2>1, <2>2, DoneShape, OneLess
  <2>4. disturbed' \subseteq Subs
        BY <2>1 DEF OutOfDate, TypeOK
  <2> QED BY <1>7, <2>1, <2>2, <2>3, <2>4 DEF TypeOK, PointLinked, CanPoint, Exists
<1>8. ASSUME NEW c \in Calls, WriteUnlinked(c) PROVE Shape'
  <2> DEFINE new == [Copy(c) EXCEPT !.matching = @ \ call[c].txs, !.ignored = @ \cup call[c].txs]
  <2>1. call[c].at \in Working /\ call[c] \in Call /\ Copy(c) \in Subscription
        BY <1>8 DEF WriteUnlinked, At, Working, TypeOK, Busy, HasCopy
  <2>2. new \in Subscription
        BY <2>1 DEF Call, Subscription
  <2>3. WriteAndGo(c, new, "clear") /\ UNCHANGED <<link, overridden, mailed>>
        BY <1>8 DEF WriteUnlinked
  <2> HIDE DEF new
  <2>4. Write(c, new)
        BY <2>3 DEF WriteAndGo
  <2>5. call' \in [Calls -> Call] /\ Busy'
        BY <2>1, <2>2, <2>3, WriteAndGoShape DEF Working
  <2> QED BY <2>1, <2>2, <2>3, <2>4, <2>5, WriteShape DEF TypeOK
<1>9. ASSUME NEW c \in Calls, ClearUnlinked(c) PROVE Shape'
  <2>1. call[c].sub \in Subs /\ call[c].txs \subseteq Txs
        BY <1>9 DEF TypeOK, Call, ClearUnlinked, At, Working, Busy, HasCopy
  <2>2. call' \in [Calls -> Call] /\ Busy'
        BY <1>9, DoneShape DEF ClearUnlinked
  <2>3. overridden' \subseteq Subs \X Txs
    <3>1. {call[c].sub} \X call[c].txs \subseteq Subs \X Txs
          BY <2>1
    <3>2. overridden' \in {overridden, overridden \cup ({call[c].sub} \X call[c].txs)}
          BY <1>9 DEF ClearUnlinked
    <3> QED BY <3>1, <3>2 DEF TypeOK
  <2>4. disturbed' \subseteq Subs
        BY <1>9 DEF ClearUnlinked, OutOfDate, TypeOK
  <2>5. link' \in [Txs -> Subs \cup {Unset, Absent}]
        BY <1>9 DEF ClearUnlinked, TypeOK
  <2>6. \A t \in Txs : link'[t] \in Subs => link'[t] = link[t]
        BY <1>9, MarkerAssumption DEF ClearUnlinked, TypeOK
  <2>7. subs' = subs /\ mailed' = mailed
        BY <1>9 DEF ClearUnlinked
  <2>8. (\A t \in Txs : link[t] \in Subs => Exists(link[t]))'
        BY <2>6, <2>7 DEF TypeOK, Exists
  <2> QED BY <2>2, <2>3, <2>4, <2>5, <2>7, <2>8 DEF TypeOK
<1>10. ASSUME NEW c \in Calls, call[c].at \in Working, NEW new \in Subscription,
              Write(c, new), Done(c), UNCHANGED <<link, overridden>>, mailed' \subseteq Subs
       PROVE  Shape'
       BY <1>10, WriteShape, DoneShape DEF TypeOK
<1>11. ASSUME NEW c \in Calls, WriteEdited(c) PROVE Shape'
  <2>1. call[c].at \in Working /\ Copy(c) \in Subscription
        BY <1>11 DEF WriteEdited, At, Working, Busy, HasCopy
  <2>2. PICK st \in Status, p \in Profiles :
            Write(c, [Copy(c) EXCEPT !.status = st, !.profile = p])
        BY <1>11 DEF WriteEdited
  <2>3. [Copy(c) EXCEPT !.status = st, !.profile = p] \in Subscription
        BY <2>1 DEF Subscription
  <2> QED BY <1>10, <1>11, <2>1, <2>2, <2>3 DEF WriteEdited, TypeOK
<1>12. ASSUME NEW c \in Calls, WriteEnriched(c) PROVE Shape'
  <2>1. call[c].at \in Working /\ Copy(c) \in Subscription
        BY <1>12 DEF WriteEnriched, At, Working, Busy, HasCopy
  <2>2. PICK p \in Profiles : Write(c, [Copy(c) EXCEPT !.profile = p])
        BY <1>12 DEF WriteEnriched
  <2>3. [Copy(c) EXCEPT !.profile = p] \in Subscription
        BY <2>1 DEF Subscription
  <2> QED BY <1>10, <1>12, <2>1, <2>2, <2>3 DEF WriteEnriched, TypeOK
<1>13. ASSUME NEW c \in Calls, WriteCancelled(c) PROVE Shape'
  <2>1. call[c].at \in Working /\ Copy(c) \in Subscription /\ call[c].sub \in Subs
        BY <1>13 DEF WriteCancelled, At, Working, Busy, HasCopy
  <2>2. [Copy(c) EXCEPT !.status = "cancellation_pending"] \in Subscription
        BY <2>1 DEF Subscription, Status
  <2> QED BY <1>10, <1>13, <2>1, <2>2 DEF WriteCancelled, TypeOK
<1>14. ASSUME NEW c \in Calls, CreateWithBackfill(c) PROVE Shape'
  <2>1. HasCopy(c)
        BY <1>14 DEF CreateWithBackfill, At, Working, Busy
  <2>2. call' \in [Calls -> Call] /\ Busy'
        BY <1>14, DoneShape DEF CreateWithBackfill
  <2>3. /\ subs' = [subs EXCEPT ![call[c].sub] = Copy(c)]
        /\ link' = [t \in Txs |-> IF t \in call[c].txs /\ InTable(t) THEN call[c].sub ELSE link[t]]
        /\ UNCHANGED history
        BY <1>14 DEF CreateWithBackfill
  <2>4. /\ subs' \in Table /\ subs'[call[c].sub] \in Subscription
        /\ \A s \in Subs : Exists(s) => Exists(s)'
        BY <2>1, <2>3 DEF HasCopy, TypeOK, Table, Exists
  <2>5. link' \in [Txs -> Subs \cup {Unset, Absent}]
        BY <2>1, <2>3 DEF HasCopy, TypeOK
  <2>6. \A t \in Txs : link'[t] \in {call[c].sub, link[t]}
        BY <2>3
  <2>7. (\A t \in Txs : link[t] \in Subs => Exists(link[t]))'
        BY <2>4, <2>6 DEF TypeOK, Exists
  <2> QED BY <2>2, <2>3, <2>4, <2>5, <2>7 DEF TypeOK, history
<1>15. ASSUME NEW c \in Calls, NEW s \in Subs, Delete(c, s) PROVE Shape'
  <2>1. call' \in [Calls -> Call] /\ Busy'
        BY <1>15, DoneShape DEF Delete
  <2>2. \A t \in Txs : link'[t] \in Subs => link'[t] = link[t] /\ link[t] # s
        BY <1>15, MarkerAssumption DEF Delete, TypeOK
  <2>3. subs' = [subs EXCEPT ![s] = Gone]
        BY <1>15 DEF Delete
  <2>4. subs' \in Table /\ \A o \in Subs \ {s} : subs'[o] = subs[o]
        BY <2>3 DEF TypeOK, Table
  <2>5. (\A t \in Txs : link[t] \in Subs => Exists(link[t]))'
        BY <2>2, <2>4 DEF TypeOK, Exists
  <2>6. link' \in [Txs -> Subs \cup {Unset, Absent}]
        BY <1>15 DEF Delete, TypeOK
  <2>7. overridden' \subseteq overridden /\ mailed' \subseteq mailed /\ disturbed' \subseteq disturbed
        BY <1>15 DEF Delete
  <2> QED BY <2>1, <2>4, <2>5, <2>6, <2>7 DEF TypeOK
<1>16. ASSUME NEW c \in Calls, NEW T \in SUBSET Txs, Report(c, T) PROVE Shape'
  <2> DEFINE r == [Blank EXCEPT !.at = "reported", !.txs = T]
  <2>1. Blank \in Call
        BY DEF Blank, Call, Nothing, Table
  <2>2. r \in Call /\ r.at \notin Working
        BY <2>1 DEF Call, Working
  <2>3. call' = [call EXCEPT ![c] = r]
        BY <1>16 DEF Report
  <2> HIDE DEF r
  <2>4. call' \in [Calls -> Call] /\ Busy'
        BY <2>2, <2>3 DEF TypeOK, Busy, HasCopy, Copy
  <2> QED BY <1>16, <2>4, MarkerAssumption DEF Report, TypeOK, history, Exists
<1>17. ASSUME NEW c \in Calls, ReadSubscriptions(c) PROVE Shape'
  <2> DEFINE r == [call[c] EXCEPT !.at = "match", !.view = subs]
  <2>1. r \in Call /\ r.at = "match"
        BY DEF Call, TypeOK
  <2>2. call' = [call EXCEPT ![c] = r]
        BY <1>17 DEF ReadSubscriptions, TypeOK, Call
  <2> HIDE DEF r
  <2>3. call' \in [Calls -> Call] /\ Busy'
        BY <2>1, <2>2 DEF TypeOK, Busy, HasCopy, Copy, Working
  <2> QED BY <1>17, <2>3 DEF ReadSubscriptions, TypeOK, history, Exists
<1>18. ASSUME NEW c \in Calls, Match(c) PROVE Shape'
  <2>1. PICK t \in call[c].txs :
          /\ IF call[c].txs = {t} THEN Done(c)
             ELSE call' = [call EXCEPT ![c].txs = @ \ {t}]
          /\ \/ \E s \in Targets(call[c].view, t) :
                   /\ CanPoint(t, s)
                   /\ link' = [link EXCEPT ![t] = s]
                   /\ disturbed' = disturbed \cup OutOfDate(c, {s, link[t]})
             \/ UNCHANGED <<link, disturbed>>
        BY <1>18 DEF Match
  <2>2. t \in Txs
        BY <2>1 DEF TypeOK, Call
  <2>3. call' \in [Calls -> Call] /\ Busy'
        BY <2>1, <2>2, DoneShape, OneLess
  <2>4. disturbed' \subseteq Subs
        BY <2>1 DEF OutOfDate, TypeOK
  <2>5. Targets(call[c].view, t) \subseteq Subs
        BY DEF Targets, Listing, ByMandate, ByIban, Fuzzy, Alike, Bound, Allowed, Read
  <2> QED BY <1>18, <2>1, <2>2, <2>3, <2>4, <2>5 DEF TypeOK, Match, CanPoint, Exists
<1>19. ASSUME NEW c \in Calls, NEW t \in Txs, DeleteTransaction(c, t) PROVE Shape'
  <2>1. call' \in [Calls -> Call] /\ Busy'
        BY <1>19, DoneShape DEF DeleteTransaction
  <2> QED BY <1>19, <2>1, MarkerAssumption DEF DeleteTransaction, TypeOK, history, Exists
<1>20. CASE UNCHANGED vars
       BY <1>20 DEF vars, TypeOK, Exists, Busy, HasCopy, Copy
<1>21. ASSUME NEW c \in Calls, Request(c) PROVE Shape'
  <2>1. CASE \E s \in Subs : \E T \in SUBSET Txs \ {{}} : Fetch(c, "link", s, T)
        BY <2>1, <1>2 DEF Working
  <2>2. CASE \E s \in Subs : \E T \in SUBSET Txs : ApproveSubscription(c, s, T)
        BY <2>2, <1>4
  <2>3. CASE \E s \in Subs : \E t \in Txs : Fetch(c, "unlink", s, {t})
    <3>1. PICK s \in Subs, t \in Txs : Fetch(c, "unlink", s, {t})
          BY <2>3
    <3>2. {t} \in SUBSET Txs /\ "unlink" \in Working
          BY DEF Working
    <3> QED BY <3>1, <3>2, <1>2
  <2>4. CASE \E s \in Subs : \E t \in Txs : CreateFromTransaction(c, s, t)
        BY <2>4, <1>5
  <2>5. CASE \E s \in Subs : \E l \in {"edit", "enrich", "cancel"} : Fetch(c, l, s, {})
    <3>1. PICK s \in Subs, l \in {"edit", "enrich", "cancel"} : Fetch(c, l, s, {})
          BY <2>5
    <3>2. {} \in SUBSET Txs /\ l \in Working
          BY DEF Working
    <3> QED BY <3>1, <3>2, <1>2
  <2>6. CASE \E s \in Subs : Delete(c, s)
        BY <2>6, <1>15
  <2>7. CASE \E t \in Txs : DeleteTransaction(c, t)
        BY <2>7, <1>19
  <2>8. CASE \E T \in SUBSET Txs \ {{}} : Report(c, T)
        BY <2>8, <1>16
  <2> QED BY <1>21, <2>1, <2>2, <2>3, <2>4, <2>5, <2>6, <2>7, <2>8 DEF Request
<1> QED BY <1>1, <1>6, <1>7, <1>8, <1>9, <1>11, <1>12, <1>13, <1>14, <1>17, <1>18,
          <1>20, <1>21 DEF Next

\* Whatever subscriptions, transactions and calls there are: every value keeps
\* its type, and no transaction is linked to a subscription that does not exist.
THEOREM TypeCorrect == Spec => []TypeOK
<1>1. Init => Shape
      BY InitShape
<1>2. Shape /\ [Next]_vars => Shape'
      BY NextShape
<1>3. Shape => TypeOK
      BY DEF Shape
<1> QED BY <1>1, <1>2, <1>3, PTL DEF Spec

-----------------------------------------------------------------------------
(* What users decided is kept.  The invariant speaks of the copies as well:  *)
(* what is written back is a copy, and what is linked was decided on one.    *)

Disjoint(r) == r \in Subscription => r.matching \cap r.ignored = {}

CopiesAreDisjoint == \A c \in Calls, s \in Subs : Disjoint(call[c].view[s])

\* Nobody else knows a subscription before it is created.
Fresh ==
    \A c \in Calls : call[c].at = "create" =>
        /\ subs[call[c].sub] = Unborn
        /\ \A d \in Calls \ {c} : call[d].sub # call[c].sub

\* Between the two writes of a link or an unlink, the copy is the row it wrote.
Halfway ==
    \A c \in Calls :
        /\ call[c].at = "point" => call[c].txs \subseteq Copy(c).matching
        /\ call[c].at = "clear" => call[c].txs \subseteq Copy(c).ignored

\* The history is about subscriptions that exist.
Known ==
    /\ \A s \in Subs, t \in Txs : <<s, t>> \in overridden => Exists(s)
    /\ \A s \in mailed : Exists(s)

InFlight == CopiesAreDisjoint /\ Fresh /\ Halfway
Promises == Known /\ ListsAreDisjoint /\ OverrideKept /\ CancellationKept
IInv == Shape /\ InFlight /\ Promises

LEMMA InitIInv == Init => IInv
<1> SUFFICES ASSUME Init PROVE IInv
    OBVIOUS
<1>1. Shape
      BY InitShape
<1>2. InFlight
      BY MarkerAssumption
      DEF Init, Blank, Nothing, InFlight, CopiesAreDisjoint, Disjoint, Fresh, Halfway
<1>3. ListsAreDisjoint
  <2>1. PICK s \in Subs, T \in SUBSET Txs, p \in Profiles :
            subs \in {Nothing, [Nothing EXCEPT ![s] = Created(p, T, T)]}
        BY DEF Init
  <2>2. Created(p, T, T) \in Subscription /\ Created(p, T, T).ignored = {}
        BY CreatedIsSubscription
  <2>3. \A o \in Subs : subs[o] = Unborn \/ subs[o] = Created(p, T, T)
        BY <2>1, <2>2, OneCopy DEF Nothing
  <2> QED BY <2>2, <2>3, MarkerAssumption DEF ListsAreDisjoint, Exists
<1>4. overridden = {} /\ mailed = {}
      BY DEF Init
<1>5. Known /\ OverrideKept /\ CancellationKept
      BY <1>4 DEF Known, OverrideKept, CancellationKept
<1> QED BY <1>1, <1>2, <1>3, <1>5 DEF IInv, Promises

\* What a step of one call owes to the copies of all.
LEMMA CallsKeep ==
    ASSUME IInv, Shape', NEW c \in Calls,
           \A d \in Calls \ {c} : call'[d] = call[d],
           \A s \in Subs : subs[s] = Unborn =>
               subs'[s] = Unborn \/ (call[c].at = "create" /\ s = call[c].sub),
           call'[c].at # "create",
           call'[c].sub \in {Unset, call[c].sub} \/ Exists(call'[c].sub),
           \A s \in Subs : Disjoint(call'[c].view[s]),
           call'[c].at = "point" => call'[c].txs \subseteq call'[c].view[call'[c].sub].matching,
           call'[c].at = "clear" => call'[c].txs \subseteq call'[c].view[call'[c].sub].ignored
    PROVE  InFlight'
<1> USE DEF IInv, InFlight
<1>1. CopiesAreDisjoint'
      BY DEF CopiesAreDisjoint, Disjoint
<1>2. Halfway'
      BY DEF Halfway, Copy
<1>3. ASSUME NEW d \in Calls, call'[d].at = "create"
      PROVE  /\ subs'[call'[d].sub] = Unborn
             /\ \A e \in Calls \ {d} : call'[e].sub # call'[d].sub
  <2>1. d # c /\ call'[d] = call[d] /\ call[d].sub \in Subs
        BY <1>3 DEF Shape, Busy, HasCopy, Working
  <2>2. subs[call[d].sub] = Unborn /\ \A e \in Calls \ {d} : call[e].sub # call[d].sub
        BY <1>3, <2>1 DEF Fresh
  <2>3. subs'[call[d].sub] = Unborn
        BY <2>1, <2>2
  <2>4. call'[c].sub # call[d].sub
        BY <2>1, <2>2, MarkerAssumption DEF Exists
  <2> QED BY <2>1, <2>2, <2>3, <2>4
<1>4. Fresh'
      BY <1>3 DEF Fresh
<1> QED BY <1>1, <1>2, <1>4

\* A call that ends.
LEMMA DoneKeeps ==
    ASSUME IInv, Shape', NEW c \in Calls, Done(c),
           \A s \in Subs : subs[s] = Unborn =>
               subs'[s] = Unborn \/ (call[c].at = "create" /\ s = call[c].sub)
    PROVE  InFlight'
<1>1. /\ call'[c].at = "done" /\ call'[c].sub = Unset /\ call'[c].view = Nothing
      /\ \A d \in Calls \ {c} : call'[d] = call[d]
      BY DoneShape DEF IInv
<1>2. \A s \in Subs : Disjoint(Nothing[s])
      BY MarkerAssumption DEF Disjoint, Nothing
<1> QED BY <1>1, <1>2, CallsKeep

\* A call that goes on to its next transaction, or ends.
LEMMA NextTransaction ==
    ASSUME IInv, Shape', NEW c \in Calls, NEW t \in call[c].txs, subs' = subs,
           call[c].at # "create",
           IF call[c].txs = {t} THEN Done(c) ELSE call' = [call EXCEPT ![c].txs = @ \ {t}]
    PROVE  InFlight'
<1>1. t \in Txs
      BY DEF IInv, Shape, TypeOK, Call
<1>2. CASE Done(c)
      BY <1>2, DoneKeeps
<1>3. CASE call' = [call EXCEPT ![c].txs = @ \ {t}]
  <2>1. /\ call'[c].at = call[c].at /\ call'[c].sub = call[c].sub
        /\ call'[c].view = call[c].view /\ call'[c].txs = call[c].txs \ {t}
        /\ \A d \in Calls \ {c} : call'[d] = call[d]
        BY <1>1, <1>3, OneLess DEF IInv
  <2>2. \A s \in Subs : Disjoint(call[c].view[s])
        BY DEF IInv, InFlight, CopiesAreDisjoint
  <2>3. /\ call[c].at = "point" => call[c].txs \subseteq call[c].view[call[c].sub].matching
        /\ call[c].at = "clear" => call[c].txs \subseteq call[c].view[call[c].sub].ignored
        BY DEF IInv, InFlight, Halfway, Copy
  <2> QED BY <2>1, <2>2, <2>3, CallsKeep
<1> QED BY <1>2, <1>3

\* Steps that write no subscription and make no link.
LEMMA NothingLinked ==
    ASSUME IInv, UNCHANGED <<subs, history>>,
           \A t \in Txs : link'[t] \in {link[t], Unset, Absent}
    PROVE  Promises'
<1> USE DEF IInv, Promises
<1>1. subs' = subs /\ overridden' = overridden /\ mailed' = mailed /\ disturbed' = disturbed
      BY DEF history
<1>2. Known' /\ ListsAreDisjoint' /\ CancellationKept'
      BY <1>1 DEF Known, ListsAreDisjoint, CancellationKept, Exists
<1>3. OverrideKept'
      BY <1>1, MarkerAssumption DEF OverrideKept
<1> QED BY <1>2, <1>3

\* Steps that link one transaction, to a subscription that does not ignore it
\* or that was outdated.
LEMMA OneLinked ==
    ASSUME IInv, NEW t \in Txs, NEW s \in Subs,
           UNCHANGED <<subs, overridden, mailed>>, disturbed \subseteq disturbed',
           link' = [link EXCEPT ![t] = s],
           s \in disturbed' \/ t \notin subs[s].ignored
    PROVE  Promises'
<1> USE DEF IInv, Promises
<1>1. Known' /\ ListsAreDisjoint' /\ CancellationKept'
      BY DEF Known, ListsAreDisjoint, CancellationKept, Exists
<1>2. OverrideKept'
      BY DEF OverrideKept, Shape, TypeOK
<1> QED BY <1>1, <1>2

\* Steps that write a subscription: what the copy ignores stays ignored, apart
\* from what the request is about, and so does a status.
LEMMA WriteKeeps ==
    ASSUME IInv, NEW c \in Calls, call[c].at \in Working,
           NEW new \in Subscription, Write(c, new), Disjoint(new),
           link' = link, overridden' \subseteq overridden,
           mailed' \subseteq mailed \cup {call[c].sub},
           call[c].sub \in mailed' => Exists(call[c].sub),
           \A t \in Txs : <<call[c].sub, t>> \in overridden' /\ t \in Copy(c).ignored
                             => t \in new.ignored,
           call[c].sub \in mailed' =>
               \/ new.status = "cancellation_pending"
               \/ call[c].sub \in mailed /\ new.status = Copy(c).status
    PROVE  Promises'
<1> USE DEF IInv, Promises
<1> DEFINE s == call[c].sub
<1>1. /\ s \in Subs
      /\ \A o \in Subs : Exists(o)' <=> Exists(o)
      /\ \A o \in Subs : o # s => subs'[o] = subs[o]
      /\ Exists(s) => subs'[s] = new
      /\ ~Exists(s) => subs' = subs
      /\ disturbed' = disturbed \cup OutOfDate(c, {s})
      BY WriteShape DEF Shape, Busy, HasCopy
<1>2. s \notin disturbed' => s \notin disturbed /\ Copy(c) = subs[s]
      BY <1>1 DEF OutOfDate, Copy
<1>3. \A o \in Subs : o # s => (o \in disturbed' <=> o \in disturbed)
      BY <1>1 DEF OutOfDate
<1> HIDE DEF s
<1>4. Known'
      BY <1>1 DEF Known, s, Shape, TypeOK
<1>5. ListsAreDisjoint'
      BY <1>1 DEF ListsAreDisjoint, Exists, Disjoint
<1>6. OverrideKept'
      BY <1>1, <1>2, <1>3 DEF OverrideKept, Known, s
<1>7. CancellationKept'
      BY <1>1, <1>2, <1>3 DEF CancellationKept, Known, s, Shape, TypeOK
<1> QED BY <1>4, <1>5, <1>6, <1>7

\* A copy that was read is a row, or no subscription at all.
LEMMA RowsAreDisjoint ==
    ASSUME ListsAreDisjoint PROVE \A s \in Subs : Disjoint(subs[s])
BY DEF ListsAreDisjoint, Disjoint, Exists

\* A call that begins with a copy.
LEMMA FetchKeeps ==
    ASSUME IInv, Shape', NEW c \in Calls, NEW l \in Working \ {"create", "point", "clear"},
           NEW s \in Subs, NEW T \in SUBSET Txs, Fetch(c, l, s, T)
    PROVE  IInv'
<1> DEFINE v == [Nothing EXCEPT ![s] = subs[s]]
<1>1. /\ call' = [call EXCEPT ![c] = [at |-> l, sub |-> s, txs |-> T, view |-> v]]
      /\ subs[s] \in Subscription /\ UNCHANGED <<subs, link, history>>
      BY DEF Fetch, Exists
<1>2. v \in Table /\ v[s] = subs[s] /\ \A o \in Subs \ {s} : v[o] = Unborn
      BY <1>1, OneCopy
<1>3. \A o \in Subs : Disjoint(v[o])
      BY <1>2, RowsAreDisjoint, MarkerAssumption DEF IInv, Promises, Disjoint
<1> HIDE DEF v
<1>4. /\ call'[c] = [at |-> l, sub |-> s, txs |-> T, view |-> v]
      /\ \A d \in Calls \ {c} : call'[d] = call[d]
      BY <1>1, <1>2, HoldsCopy DEF IInv
<1>5. InFlight'
      BY <1>1, <1>3, <1>4, CallsKeep DEF Exists
<1>6. Promises'
      BY <1>1, NothingLinked
<1> QED BY <1>5, <1>6 DEF IInv

\* A call that prepares a new subscription.
LEMMA PrepareKeeps ==
    ASSUME IInv, Shape', NEW c \in Calls, NEW s \in Subs, NEW p \in Profiles,
           NEW T \in SUBSET Txs, NEW M \in SUBSET Txs, Prepare(c, s, p, T, M)
    PROVE  IInv'
<1> DEFINE v == [Nothing EXCEPT ![s] = Created(p, T, M)]
<1>1. /\ call' = [call EXCEPT ![c] = [at |-> "create", sub |-> s, txs |-> T, view |-> v]]
      /\ subs[s] = Unborn /\ \A d \in Calls : call[d].sub # s
      /\ UNCHANGED <<subs, link, history>>
      BY DEF Prepare
<1>2. Created(p, T, M) \in Subscription /\ Created(p, T, M).ignored = {}
      BY CreatedIsSubscription
<1>3. v \in Table /\ v[s] = Created(p, T, M) /\ \A o \in Subs \ {s} : v[o] = Unborn
      BY <1>2, OneCopy
<1>4. \A o \in Subs : Disjoint(v[o])
      BY <1>2, <1>3, MarkerAssumption DEF Disjoint
<1>5. v[s] \in Subscription /\ "create" \in Working
      BY <1>2, <1>3 DEF Working
<1> HIDE DEF v
<1>6. /\ call'[c] = [at |-> "create", sub |-> s, txs |-> T, view |-> v]
      /\ \A d \in Calls \ {c} : call'[d] = call[d]
      BY <1>1, <1>3, <1>5, HoldsCopy DEF IInv
<1>7. CopiesAreDisjoint'
      BY <1>4, <1>6 DEF IInv, InFlight, CopiesAreDisjoint, Disjoint
<1>8. Halfway'
      BY <1>6 DEF IInv, InFlight, Halfway, Copy
<1>9. Fresh'
      BY <1>1, <1>6 DEF IInv, InFlight, Fresh
<1>10. Promises'
      BY <1>1, NothingLinked
<1> QED BY <1>7, <1>8, <1>9, <1>10 DEF IInv, InFlight

\* A call that has written its copy and goes on with it.
LEMMA WriteAndGoKeeps ==
    ASSUME IInv, Shape', NEW c \in Calls, call[c].at \in Working,
           NEW new \in Subscription, NEW label \in {"point", "clear"},
           WriteAndGo(c, new, label), Disjoint(new),
           label = "point" => call[c].txs \subseteq new.matching,
           label = "clear" => call[c].txs \subseteq new.ignored
    PROVE  InFlight'
<1> DEFINE v == [call[c].view EXCEPT ![call[c].sub] = new]
<1>1. label \in Working /\ Write(c, new) /\ call[c].sub \in Subs /\ call[c].view \in Table
      BY DEF Working, WriteAndGo, IInv, Shape, TypeOK, Call, Busy, HasCopy
<1>2. /\ call'[c].at = label /\ call'[c].sub = call[c].sub
      /\ call'[c].txs = call[c].txs /\ call'[c].view = v
      /\ \A d \in Calls \ {c} : call'[d] = call[d]
      BY <1>1, WriteAndGoShape DEF IInv
<1>3. v[call[c].sub] = new /\ \A o \in Subs \ {call[c].sub} : v[o] = call[c].view[o]
      BY <1>1 DEF Table
<1>4. \A o \in Subs : Disjoint(v[o])
      BY <1>3 DEF IInv, InFlight, CopiesAreDisjoint
<1>5. \A o \in Subs : subs[o] = Unborn => subs'[o] = Unborn
      BY <1>1, WriteShape, MarkerAssumption DEF IInv, Exists
<1> HIDE DEF v
<1> QED BY <1>2, <1>3, <1>4, <1>5, CallsKeep

\* A call that has written its copy and ends.
LEMMA WriteAndEndKeeps ==
    ASSUME IInv, Shape', NEW c \in Calls, call[c].at \in Working,
           NEW new \in Subscription, Write(c, new), Done(c)
    PROVE  InFlight'
<1>1. \A o \in Subs : subs[o] = Unborn => subs'[o] = Unborn
      BY WriteShape, MarkerAssumption DEF IInv, Exists
<1> QED BY <1>1, DoneKeeps

LEMMA RequestIInv == ASSUME IInv, Shape', NEW c \in Calls, Request(c) PROVE IInv'
<1>1. ASSUME NEW s \in Subs, NEW T \in SUBSET Txs \ {{}}, Fetch(c, "link", s, T) PROVE IInv'
      BY <1>1, FetchKeeps DEF Working
<1>2. ASSUME NEW s \in Subs, NEW t \in Txs, Fetch(c, "unlink", s, {t}) PROVE IInv'
  <2>1. {t} \in SUBSET Txs /\ "unlink" \in Working \ {"create", "point", "clear"}
        BY DEF Working
  <2> QED BY <1>2, <2>1, FetchKeeps
<1>3. ASSUME NEW s \in Subs, NEW l \in {"edit", "enrich", "cancel"}, Fetch(c, l, s, {}) PROVE IInv'
  <2>1. {} \in SUBSET Txs /\ l \in Working \ {"create", "point", "clear"}
        BY DEF Working
  <2> QED BY <1>3, <2>1, FetchKeeps
<1>4. ASSUME NEW s \in Subs, NEW T \in SUBSET Txs, ApproveSubscription(c, s, T) PROVE IInv'
  <2>1. PICK p \in Profiles : \E found \in {Unlinked \cap Resembling(p), {}} :
            Prepare(c, s, p, T \cup found, found)
        BY <1>4 DEF ApproveSubscription
  <2>2. PICK found \in {Unlinked \cap Resembling(p), {}} : Prepare(c, s, p, T \cup found, found)
        BY <2>1
  <2>3. found \in SUBSET Txs
        BY DEF Unlinked
  <2> QED BY <2>2, <2>3, PrepareKeeps
<1>5. ASSUME NEW s \in Subs, NEW t \in Txs, CreateFromTransaction(c, s, t) PROVE IInv'
  <2>1. PICK p \in Profiles :
            LET T == {t} \cup (Unlinked \cap Resembling(p)) IN Prepare(c, s, p, T, T)
        BY <1>5 DEF CreateFromTransaction
  <2>2. {t} \cup (Unlinked \cap Resembling(p)) \in SUBSET Txs
        BY DEF Unlinked
  <2> QED BY <2>1, <2>2, PrepareKeeps
<1>6. ASSUME NEW s \in Subs, Delete(c, s) PROVE IInv'
  <2>1. /\ subs[s] \in Subscription /\ subs' = [subs EXCEPT ![s] = Gone] /\ Done(c)
        /\ link' = [t \in Txs |-> IF link[t] = s THEN Unset ELSE link[t]]
        /\ overridden' = {o \in overridden : o[1] # s}
        /\ mailed' = mailed \ {s} /\ disturbed' = disturbed \ {s}
        BY <1>6 DEF Delete, Exists
  <2>2. subs'[s] = Gone /\ \A o \in Subs \ {s} : subs'[o] = subs[o]
        BY <2>1 DEF IInv, Shape, TypeOK, Table
  <2>3. InFlight'
        BY <2>1, <2>2, DoneKeeps, MarkerAssumption
  <2>4. Known'
        BY <2>1, <2>2 DEF IInv, Promises, Known, Exists, Shape, TypeOK
  <2>5. ListsAreDisjoint'
        BY <2>2, MarkerAssumption DEF IInv, Promises, ListsAreDisjoint, Exists
  <2>6. OverrideKept'
        BY <2>1, <2>2, MarkerAssumption DEF IInv, Promises, OverrideKept
  <2>7. CancellationKept'
        BY <2>1, <2>2 DEF IInv, Promises, CancellationKept, Shape, TypeOK
  <2> QED BY <2>3, <2>4, <2>5, <2>6, <2>7 DEF IInv, Promises
<1>7. ASSUME NEW t \in Txs, DeleteTransaction(c, t) PROVE IInv'
  <2>1. InFlight'
        BY <1>7, DoneKeeps DEF DeleteTransaction
  <2>2. Promises'
        BY <1>7, NothingLinked DEF DeleteTransaction, IInv, Shape, TypeOK
  <2> QED BY <2>1, <2>2 DEF IInv
<1>8. ASSUME NEW T \in SUBSET Txs \ {{}}, Report(c, T) PROVE IInv'
  <2> DEFINE r == [Blank EXCEPT !.at = "reported", !.txs = T]
  <2>1. r.at = "reported" /\ r.sub = Unset /\ r.view = Nothing
        BY DEF Blank
  <2>2. call' = [call EXCEPT ![c] = r]
        BY <1>8 DEF Report
  <2> HIDE DEF r
  <2>3. call'[c] = r /\ \A d \in Calls \ {c} : call'[d] = call[d]
        BY <2>2 DEF IInv, Shape, TypeOK
  <2>4. \A s \in Subs : Disjoint(Nothing[s])
        BY MarkerAssumption DEF Disjoint, Nothing
  <2>5. InFlight'
        BY <1>8, <2>1, <2>3, <2>4, CallsKeep DEF Report
  <2>6. Promises'
        BY <1>8, NothingLinked DEF Report, IInv, Shape, TypeOK
  <2> QED BY <2>5, <2>6 DEF IInv
<1> QED BY <1>1, <1>2, <1>3, <1>4, <1>5, <1>6, <1>7, <1>8 DEF Request

\* A subscription that the matching picks does not ignore the transaction.
LEMMA TargetsAllow ==
    ASSUME NEW v \in Table, \A o \in Subs : Disjoint(v[o]),
           NEW t \in Txs, NEW s \in Targets(v, t)
    PROVE  s \in Subs /\ t \notin v[s].ignored
<1>1. CASE s \in Listing(v, t)
      BY <1>1 DEF Listing, Read, Disjoint
<1>2. CASE s \in ByMandate(v, t)
  <2>1. Fuzzy(v, t) \subseteq {o \in Subs : t \notin v[o].ignored}
        BY DEF Fuzzy, Allowed, Alike, Read
  <2>2. ByIban(v, t) \subseteq {o \in Subs : t \notin v[o].ignored}
        BY <2>1 DEF ByIban, Allowed, Bound, Read
  <2> QED BY <1>2, <2>2 DEF ByMandate, Allowed, Bound, Read
<1> QED BY <1>1, <1>2 DEF Targets

LEMMA NextIInv == IInv /\ [Next]_vars => IInv'
<1> SUFFICES ASSUME IInv, [Next]_vars PROVE IInv'
    OBVIOUS
<1>0. Shape'
      BY NextShape DEF IInv
<1>1. ASSUME NEW c \in Calls, Fails(c) PROVE IInv'
  <2>1. InFlight'
        BY <1>0, <1>1, DoneKeeps DEF Fails
  <2>2. Promises'
        BY <1>1, NothingLinked DEF Fails
  <2> QED BY <1>0, <2>1, <2>2 DEF IInv
<1>2. ASSUME NEW c \in Calls, WriteLinked(c) PROVE IInv'
  <2> DEFINE new == [Copy(c) EXCEPT !.matching = @ \cup call[c].txs, !.ignored = @ \ call[c].txs]
  <2>1. /\ call[c].at \in Working /\ call[c].txs \subseteq Txs /\ call[c].sub \in Subs
        /\ Copy(c) \in Subscription /\ Disjoint(Copy(c))
        BY <1>2 DEF WriteLinked, At, Working, IInv, Shape, TypeOK, Call, Busy, HasCopy, Copy,
                    InFlight, CopiesAreDisjoint
  <2>2. /\ new \in Subscription /\ new.status = Copy(c).status
        /\ new.matching = Copy(c).matching \cup call[c].txs
        /\ new.ignored = Copy(c).ignored \ call[c].txs
        BY <2>1 DEF Subscription
  <2>3. /\ WriteAndGo(c, new, "point") /\ UNCHANGED <<link, mailed>>
        /\ overridden' = overridden \ ({call[c].sub} \X call[c].txs)
        BY <1>2 DEF WriteLinked
  <2> HIDE DEF new
  <2>4. Disjoint(new) /\ Write(c, new)
        BY <2>1, <2>2, <2>3 DEF Disjoint, WriteAndGo
  <2>5. InFlight'
        BY <1>0, <2>1, <2>2, <2>3, <2>4, WriteAndGoKeeps
  <2>6. Promises'
        BY <2>1, <2>2, <2>3, <2>4, WriteKeeps DEF IInv, Promises, Known
  <2> QED BY <1>0, <2>5, <2>6 DEF IInv
<1>3. ASSUME NEW c \in Calls, PointLinked(c) PROVE IInv'
  <2>1. PICK t \in call[c].txs :
          /\ IF call[c].txs = {t} THEN Done(c)
             ELSE call' = [call EXCEPT ![c].txs = @ \ {t}]
          /\ \/ /\ CanPoint(t, call[c].sub)
                /\ link' = [link EXCEPT ![t] = call[c].sub]
                /\ disturbed' = disturbed \cup OutOfDate(c, {call[c].sub})
             \/ UNCHANGED <<link, disturbed>>
        BY <1>3 DEF PointLinked
  <2>2. /\ call[c].at = "point" /\ t \in Txs /\ call[c].sub \in Subs
        /\ UNCHANGED <<subs, overridden, mailed>>
        BY <1>3, <2>1 DEF PointLinked, At, IInv, Shape, TypeOK, Call, Busy, HasCopy, Working
  <2>3. InFlight'
        BY <1>0, <2>1, <2>2, NextTransaction
  <2>4. CASE UNCHANGED <<link, disturbed>>
        BY <2>2, <2>3, <2>4, <1>0, NothingLinked DEF IInv, history
  <2>5. CASE /\ CanPoint(t, call[c].sub)
             /\ link' = [link EXCEPT ![t] = call[c].sub]
             /\ disturbed' = disturbed \cup OutOfDate(c, {call[c].sub})
    <3>1. t \in Copy(c).matching
          BY <2>1, <2>2 DEF IInv, InFlight, Halfway
    <3>2. Copy(c) \in Subscription /\ Disjoint(Copy(c))
          BY <2>2 DEF IInv, InFlight, CopiesAreDisjoint, Copy, Shape, Busy, HasCopy, Working
    <3>3. call[c].sub \in disturbed' \/ t \notin subs[call[c].sub].ignored
          BY <2>2, <2>5, <3>1, <3>2 DEF OutOfDate, Copy, Disjoint
    <3> QED BY <1>0, <2>2, <2>3, <2>5, <3>3, OneLinked DEF IInv
  <2> QED BY <2>1, <2>4, <2>5
<1>4. ASSUME NEW c \in Calls, WriteUnlinked(c) PROVE IInv'
  <2> DEFINE new == [Copy(c) EXCEPT !.matching = @ \ call[c].txs, !.ignored = @ \cup call[c].txs]
  <2>1. /\ call[c].at \in Working /\ call[c].txs \subseteq Txs /\ call[c].sub \in Subs
        /\ Copy(c) \in Subscription /\ Disjoint(Copy(c))
        BY <1>4 DEF WriteUnlinked, At, Working, IInv, Shape, TypeOK, Call, Busy, HasCopy, Copy,
                    InFlight, CopiesAreDisjoint
  <2>2. /\ new \in Subscription /\ new.status = Copy(c).status
        /\ new.matching = Copy(c).matching \ call[c].txs
        /\ new.ignored = Copy(c).ignored \cup call[c].txs
        BY <2>1 DEF Subscription
  <2>3. WriteAndGo(c, new, "clear") /\ UNCHANGED <<link, overridden, mailed>>
        BY <1>4 DEF WriteUnlinked
  <2> HIDE DEF new
  <2>4. Disjoint(new) /\ Write(c, new)
        BY <2>1, <2>2, <2>3 DEF Disjoint, WriteAndGo
  <2>5. InFlight'
        BY <1>0, <2>1, <2>2, <2>3, <2>4, WriteAndGoKeeps
  <2>6. Promises'
        BY <2>1, <2>2, <2>3, <2>4, WriteKeeps DEF IInv, Promises, Known
  <2> QED BY <1>0, <2>5, <2>6 DEF IInv
<1>5. ASSUME NEW c \in Calls, ClearUnlinked(c) PROVE IInv'
  <2>1. /\ call[c].at = "clear" /\ Done(c) /\ UNCHANGED <<subs, mailed>>
        /\ link' = [t \in Txs |-> IF t \in call[c].txs THEN Unset ELSE link[t]]
        /\ overridden' = IF Exists(call[c].sub)
                         THEN overridden \cup ({call[c].sub} \X call[c].txs) ELSE overridden
        /\ disturbed' = disturbed \cup OutOfDate(c, {call[c].sub})
        BY <1>5 DEF ClearUnlinked, At
  <2>2. call[c].sub \in Subs /\ call[c].txs \subseteq Copy(c).ignored
        BY <2>1 DEF IInv, InFlight, Halfway, Shape, Busy, HasCopy, Working
  <2>3. InFlight'
        BY <1>0, <2>1, DoneKeeps
  <2>4. Known' /\ ListsAreDisjoint' /\ CancellationKept'
        BY <2>1 DEF IInv, Promises, Known, ListsAreDisjoint, CancellationKept, Exists
  <2>5. OverrideKept'
        BY <2>1, <2>2, MarkerAssumption DEF IInv, Promises, OverrideKept, OutOfDate, Copy
  <2> QED BY <1>0, <2>3, <2>4, <2>5 DEF IInv, Promises
<1>6. ASSUME NEW c \in Calls, WriteEdited(c) PROVE IInv'
  <2>1. call[c].at \in Working /\ Copy(c) \in Subscription /\ call[c].sub \in Subs /\ Disjoint(Copy(c))
        BY <1>6 DEF WriteEdited, At, Working, IInv, Shape, Busy, HasCopy, Copy, InFlight, CopiesAreDisjoint
  <2>2. PICK st \in Status, p \in Profiles :
            Write(c, [Copy(c) EXCEPT !.status = st, !.profile = p])
        BY <1>6 DEF WriteEdited
  <2> DEFINE new == [Copy(c) EXCEPT !.status = st, !.profile = p]
  <2>3. new \in Subscription /\ new.matching = Copy(c).matching /\ new.ignored = Copy(c).ignored
        BY <2>1 DEF Subscription
  <2>4. Done(c) /\ UNCHANGED <<link, overridden>> /\ mailed' = mailed \ {call[c].sub} /\ Write(c, new)
        BY <1>6, <2>2 DEF WriteEdited
  <2> HIDE DEF new
  <2>5. Disjoint(new)
        BY <2>1, <2>3 DEF Disjoint
  <2>6. InFlight' /\ Promises'
        BY <1>0, <2>1, <2>3, <2>4, <2>5, WriteAndEndKeeps, WriteKeeps
  <2> QED BY <1>0, <2>6 DEF IInv
<1>7. ASSUME NEW c \in Calls, WriteEnriched(c) PROVE IInv'
  <2>1. call[c].at \in Working /\ Copy(c) \in Subscription /\ call[c].sub \in Subs /\ Disjoint(Copy(c))
        BY <1>7 DEF WriteEnriched, At, Working, IInv, Shape, Busy, HasCopy, Copy, InFlight, CopiesAreDisjoint
  <2>2. PICK p \in Profiles : Write(c, [Copy(c) EXCEPT !.profile = p])
        BY <1>7 DEF WriteEnriched
  <2> DEFINE new == [Copy(c) EXCEPT !.profile = p]
  <2>3. /\ new \in Subscription /\ new.matching = Copy(c).matching
        /\ new.ignored = Copy(c).ignored /\ new.status = Copy(c).status
        BY <2>1 DEF Subscription
  <2>4. Done(c) /\ UNCHANGED <<link, overridden, mailed>> /\ Write(c, new)
        BY <1>7, <2>2 DEF WriteEnriched
  <2> HIDE DEF new
  <2>5. Disjoint(new) /\ (call[c].sub \in mailed => Exists(call[c].sub))
        BY <2>1, <2>3 DEF Disjoint, IInv, Promises, Known
  <2>6. InFlight' /\ Promises'
        BY <1>0, <2>1, <2>3, <2>4, <2>5, WriteAndEndKeeps, WriteKeeps
  <2> QED BY <1>0, <2>6 DEF IInv
<1>8. ASSUME NEW c \in Calls, WriteCancelled(c) PROVE IInv'
  <2>1. call[c].at \in Working /\ Copy(c) \in Subscription /\ call[c].sub \in Subs /\ Disjoint(Copy(c))
        BY <1>8 DEF WriteCancelled, At, Working, IInv, Shape, Busy, HasCopy, Copy, InFlight, CopiesAreDisjoint
  <2> DEFINE new == [Copy(c) EXCEPT !.status = "cancellation_pending"]
  <2>2. /\ new \in Subscription /\ new.matching = Copy(c).matching
        /\ new.ignored = Copy(c).ignored /\ new.status = "cancellation_pending"
        BY <2>1 DEF Subscription, Status
  <2>3. /\ Done(c) /\ UNCHANGED <<link, overridden>> /\ Write(c, new)
        /\ mailed' = IF Exists(call[c].sub) THEN mailed \cup {call[c].sub} ELSE mailed
        BY <1>8 DEF WriteCancelled
  <2> HIDE DEF new
  <2>4. Disjoint(new) /\ (call[c].sub \in mailed' => Exists(call[c].sub))
        BY <2>1, <2>2, <2>3 DEF Disjoint, IInv, Promises, Known
  <2>5. InFlight' /\ Promises'
        BY <1>0, <2>1, <2>2, <2>3, <2>4, WriteAndEndKeeps, WriteKeeps
  <2> QED BY <1>0, <2>5 DEF IInv
<1>9. ASSUME NEW c \in Calls, CreateWithBackfill(c) PROVE IInv'
  <2> DEFINE s == call[c].sub
  <2>1. /\ call[c].at = "create" /\ Done(c) /\ UNCHANGED history
        /\ subs' = [subs EXCEPT ![s] = Copy(c)]
        /\ link' = [t \in Txs |-> IF t \in call[c].txs /\ InTable(t) THEN s ELSE link[t]]
        BY <1>9 DEF CreateWithBackfill, At
  <2>2. s \in Subs /\ subs[s] = Unborn /\ Copy(c) \in Subscription /\ Disjoint(Copy(c))
        BY <2>1 DEF IInv, InFlight, Fresh, CopiesAreDisjoint, Copy, Shape, Busy, HasCopy, Working
  <2>3. subs'[s] = Copy(c) /\ \A o \in Subs \ {s} : subs'[o] = subs[o]
        BY <2>1, <2>2 DEF IInv, Shape, TypeOK, Table
  <2>4. (\A t \in Txs : <<s, t>> \notin overridden) /\ s \notin mailed
        BY <2>2, MarkerAssumption DEF IInv, Promises, Known, Exists
  <2>5. InFlight'
        BY <1>0, <2>1, <2>3, DoneKeeps
  <2> HIDE DEF s
  <2>6. Known'
        BY <2>1, <2>2, <2>3, <2>4 DEF history, IInv, Promises, Known, Exists, Shape, TypeOK
  <2>7. ListsAreDisjoint'
        BY <2>2, <2>3 DEF IInv, Promises, ListsAreDisjoint, Exists, Disjoint
  <2>8. OverrideKept'
        BY <2>1, <2>3, <2>4 DEF history, IInv, Promises, OverrideKept
  <2>9. CancellationKept'
        BY <2>1, <2>3, <2>4 DEF history, IInv, Promises, CancellationKept, Shape, TypeOK
  <2> QED BY <1>0, <2>5, <2>6, <2>7, <2>8, <2>9 DEF IInv, Promises
<1>10. ASSUME NEW c \in Calls, ReadSubscriptions(c) PROVE IInv'
  <2>1. /\ call' = [call EXCEPT ![c].at = "match", ![c].view = subs]
        /\ UNCHANGED <<subs, link, history>>
        BY <1>10 DEF ReadSubscriptions
  <2>2. /\ call'[c].at = "match" /\ call'[c].view = subs /\ call'[c].sub = call[c].sub
        /\ \A d \in Calls \ {c} : call'[d] = call[d]
        BY <2>1 DEF IInv, Shape, TypeOK, Call
  <2>3. InFlight'
        BY <1>0, <2>1, <2>2, RowsAreDisjoint, CallsKeep DEF IInv, Promises
  <2>4. Promises'
        BY <2>1, NothingLinked
  <2> QED BY <1>0, <2>3, <2>4 DEF IInv
<1>11. ASSUME NEW c \in Calls, Match(c) PROVE IInv'
  <2>1. PICK t \in call[c].txs :
          /\ IF call[c].txs = {t} THEN Done(c)
             ELSE call' = [call EXCEPT ![c].txs = @ \ {t}]
          /\ \/ \E s \in Targets(call[c].view, t) :
                   /\ CanPoint(t, s)
                   /\ link' = [link EXCEPT ![t] = s]
                   /\ disturbed' = disturbed \cup OutOfDate(c, {s, link[t]})
             \/ UNCHANGED <<link, disturbed>>
        BY <1>11 DEF Match
  <2>2. /\ call[c].at = "match" /\ t \in Txs /\ call[c].view \in Table
        /\ UNCHANGED <<subs, overridden, mailed>>
        BY <1>11, <2>1 DEF Match, At, IInv, Shape, TypeOK, Call
  <2>3. InFlight'
        BY <1>0, <2>1, <2>2, NextTransaction
  <2>4. CASE UNCHANGED <<link, disturbed>>
        BY <2>2, <2>3, <2>4, <1>0, NothingLinked DEF IInv, history
  <2>5. ASSUME NEW s \in Targets(call[c].view, t),
               link' = [link EXCEPT ![t] = s],
               disturbed' = disturbed \cup OutOfDate(c, {s, link[t]})
        PROVE  IInv'
    <3>1. \A o \in Subs : Disjoint(call[c].view[o])
          BY DEF IInv, InFlight, CopiesAreDisjoint
    <3>2. s \in Subs /\ t \notin call[c].view[s].ignored
          BY <2>2, <3>1, TargetsAllow
    <3>3. s \in disturbed' \/ t \notin subs[s].ignored
          BY <2>5, <3>2 DEF OutOfDate
    <3> QED BY <1>0, <2>2, <2>3, <2>5, <3>2, <3>3, OneLinked DEF IInv
  <2> QED BY <2>1, <2>4, <2>5
<1>12. CASE UNCHANGED vars
  <2>1. call' = call /\ subs' = subs /\ UNCHANGED history /\ link' = link
        BY <1>12 DEF vars, history
  <2>2. InFlight'
        BY <2>1 DEF IInv, InFlight, CopiesAreDisjoint, Disjoint, Fresh, Halfway, Copy
  <2>3. Promises'
        BY <2>1, NothingLinked
  <2> QED BY <1>0, <2>2, <2>3 DEF IInv
<1> QED BY <1>0, <1>1, <1>2, <1>3, <1>4, <1>5, <1>6, <1>7, <1>8, <1>9, <1>10, <1>11,
          <1>12, RequestIInv DEF Next

LEMMA Invariance == Spec => []IInv
<1>1. Init => IInv
      BY InitIInv
<1>2. IInv /\ [Next]_vars => IInv'
      BY NextIInv
<1> QED BY <1>1, <1>2, PTL DEF Spec

\* The lists of a subscription never contradict each other.
THEOREM ListsDisjoint == Spec => []ListsAreDisjoint
<1>1. IInv => ListsAreDisjoint
      BY DEF IInv, Promises
<1> QED BY <1>1, Invariance, PTL

\* What a user unlinked stays unlinked, as long as no outdated copy is used.
THEOREM OverridesKept == Spec => []OverrideKept
<1>1. IInv => OverrideKept
      BY DEF IInv, Promises
<1> QED BY <1>1, Invariance, PTL

\* A mailed cancellation stays recorded, as long as no outdated copy is used.
THEOREM CancellationsKept == Spec => []CancellationKept
<1>1. IInv => CancellationKept
      BY DEF IInv, Promises
<1> QED BY <1>1, Invariance, PTL

-----------------------------------------------------------------------------
\* Every step that is not a step of call c leaves call c alone.
LEMMA OthersStay ==
    ASSUME IInv, NEW c \in Calls, NEW d \in Calls, call'[c] # call[c],
           Request(d) \/ Fails(d) \/ WriteLinked(d) \/ PointLinked(d) \/ WriteUnlinked(d)
           \/ ClearUnlinked(d) \/ WriteEdited(d) \/ WriteEnriched(d) \/ WriteCancelled(d)
           \/ CreateWithBackfill(d) \/ ReadSubscriptions(d) \/ Match(d)
    PROVE  d = c
BY DEF IInv, Shape, TypeOK, Request, Fetch, ApproveSubscription, CreateFromTransaction, Prepare,
       Delete, DeleteTransaction, Report, Fails, WriteLinked, PointLinked, WriteUnlinked,
       ClearUnlinked, WriteEdited, WriteEnriched, WriteCancelled, CreateWithBackfill,
       ReadSubscriptions, Match, WriteAndGo, Done

\* One transaction, matched against an up-to-date view.
LEMMA ListedStays ==
    ASSUME IInv, NEW c \in Calls, NEW t \in Txs, Match(c), link[t] \in Subs,
           {s \in Subs : Exists(s) /\ t \in subs[s].matching} = {link[t]}
    PROVE  link'[t] = link[t] \/ {link[t], link'[t]} \cap disturbed' # {}
<1>1. PICK u \in call[c].txs :
          \/ \E s \in Targets(call[c].view, u) :
                /\ link' = [link EXCEPT ![u] = s]
                /\ disturbed' = disturbed \cup OutOfDate(c, {s, link[u]})
          \/ UNCHANGED <<link, disturbed>>
      BY DEF Match
<1>2. CASE UNCHANGED <<link, disturbed>>
      BY <1>2
<1>3. ASSUME NEW s \in Targets(call[c].view, u),
             link' = [link EXCEPT ![u] = s],
             disturbed' = disturbed \cup OutOfDate(c, {s, link[u]})
      PROVE  link'[t] = link[t] \/ {link[t], link'[t]} \cap disturbed' # {}
  <2>1. CASE u # t
        BY <1>3, <2>1 DEF IInv, Shape, TypeOK
  <2>2. CASE u = t
    <3> DEFINE v == call[c].view
    <3>1. link'[t] = s
          BY <1>3, <2>2 DEF IInv, Shape, TypeOK
    <3>2. Targets(v, t) \subseteq Subs
          BY DEF Targets, Listing, ByMandate, ByIban, Fuzzy, Alike, Bound, Allowed, Read
    <3>3. SUFFICES ASSUME v[s] = subs[s], v[link[t]] = subs[link[t]] PROVE s = link[t]
          BY <1>3, <2>2, <3>1, <3>2 DEF OutOfDate
    <3>4. link[t] \in Listing(v, t)
          BY <3>3 DEF Listing, Read, Exists
    <3>5. s \in Listing(v, t)
          BY <1>3, <2>2, <3>4 DEF Targets
    <3> QED BY <3>3, <3>5 DEF Listing, Read, Exists
  <2> QED BY <2>1, <2>2
<1> QED BY <1>1, <1>2, <1>3

\* The matching leaves a transaction with the only subscription that lists it.
THEOREM ListedGoFirst == Spec => ListedFirst
<1> DEFINE P == \A c \in Calls, t \in Txs :
          /\ At(c, "match") /\ call'[c] # call[c]
          /\ link[t] \in Subs
          /\ {s \in Subs : Exists(s) /\ t \in subs[s].matching} = {link[t]}
          => link'[t] \in {link[t], Unset, Absent} \/ {link[t], link'[t]} \cap disturbed' # {}
<1>1. ASSUME IInv, [Next]_vars PROVE [P]_vars
  <2>1. SUFFICES ASSUME Next, NEW c \in Calls, NEW t \in Txs,
                        At(c, "match"), call'[c] # call[c], link[t] \in Subs,
                        {s \in Subs : Exists(s) /\ t \in subs[s].matching} = {link[t]}
                 PROVE  link'[t] = link[t] \/ {link[t], link'[t]} \cap disturbed' # {}
        BY <1>1
  <2>2. PICK d \in Calls :
            Request(d) \/ Fails(d) \/ WriteLinked(d) \/ PointLinked(d) \/ WriteUnlinked(d)
            \/ ClearUnlinked(d) \/ WriteEdited(d) \/ WriteEnriched(d) \/ WriteCancelled(d)
            \/ CreateWithBackfill(d) \/ ReadSubscriptions(d) \/ Match(d)
        BY <2>1 DEF Next
  <2>3. d = c
        BY <1>1, <2>1, <2>2, OthersStay
  <2>4. Fails(c) \/ Match(c)
        BY <2>1, <2>2, <2>3
        DEF At, Request, Fetch, ApproveSubscription, CreateFromTransaction, Prepare, Delete,
            DeleteTransaction, Report, WriteLinked, PointLinked, WriteUnlinked, ClearUnlinked,
            WriteEdited, WriteEnriched, WriteCancelled, CreateWithBackfill, ReadSubscriptions
  <2>5. CASE Fails(c)
        BY <2>5 DEF Fails
  <2>6. CASE Match(c)
        BY <1>1, <2>1, <2>6, ListedStays
  <2> QED BY <2>4, <2>5, <2>6
<1>2. ListedFirst <=> [][P]_vars
      BY DEF ListedFirst
<1> QED BY <1>1, <1>2, Invariance, PTL DEF Spec
=============================================================================
