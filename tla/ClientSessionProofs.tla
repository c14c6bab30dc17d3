------------------------ MODULE ClientSessionProofs ------------------------
(* Proofs about ClientSession, for any users, tabs, calls and tokens.       *)
EXTENDS ClientSession, TLAPS

\* What a request that is under way carries.
Carries(r) ==
    /\ r.kind # "none" => r.tab \in Tabs
    /\ r.kind \in {"answered", "refreshed", "entered"} => r.user \in Users
    /\ r.kind \in {"refresh", "refreshed", "entered"} => r.token \in Tokens
    /\ r.token # None => owner[r.token] # None

CallsCarry == \A c \in Calls : Carries(call[c])

TypeInv == TypeOK /\ CallsCarry

-----------------------------------------------------------------------------
(* Type correctness *)

LEMMA InitTypes == Init => TypeInv
BY NoneAssumption DEF Init, TypeInv, TypeOK, CallsCarry, Carries, Idle, CallRecord, Kinds, Pages

\* A record with a new kind, which carries what the kind asks for.
LEMMA Retyped ==
    ASSUME TypeInv, NEW c \in Calls, NEW kind \in Kinds,
           kind = "none" \/ call[c].kind # "none",
           kind \in {"answered", "refreshed", "entered"} => call[c].user \in Users,
           kind \in {"refresh", "refreshed", "entered"} => call[c].token \in Tokens
    PROVE  /\ [call[c] EXCEPT !.kind = kind] \in CallRecord
           /\ Carries([call[c] EXCEPT !.kind = kind])
BY DEF TypeInv, TypeOK, CallsCarry, Carries, CallRecord

LEMMA IdleCarries == Idle \in CallRecord /\ Carries(Idle)
BY DEF Idle, CallRecord, Kinds, Carries

\* Calls that are replaced by records that carry what they should keep the types.
LEMMA CallsKept ==
    ASSUME TypeInv, UNCHANGED owner, NEW f,
           call' = [c \in Calls |-> f[c]],
           \A c \in Calls : f[c] \in CallRecord /\ Carries(f[c])
    PROVE  call' \in [Calls -> CallRecord] /\ CallsCarry'
BY DEF TypeInv, CallsCarry, Carries

\* One call is answered.
LEMMA OneCall ==
    ASSUME TypeInv, UNCHANGED owner, NEW c \in Calls, NEW r \in CallRecord, Carries(r),
           call' = [call EXCEPT ![c] = r]
    PROVE  call' \in [Calls -> CallRecord] /\ CallsCarry'
BY DEF TypeInv, TypeOK, CallsCarry, Carries

\* The calls of a tab are dropped.
LEMMA CallsDropped ==
    ASSUME TypeInv, UNCHANGED owner, NEW t \in Tabs,
           call' = [c \in Calls |-> Dropped(t, c)]
    PROVE  call' \in [Calls -> CallRecord] /\ CallsCarry'
<1>1. \A c \in Calls : Dropped(t, c) \in CallRecord /\ Carries(Dropped(t, c))
      BY IdleCarries DEF TypeInv, TypeOK, CallsCarry, Dropped
<1> QED BY <1>1 DEF TypeInv, CallsCarry, Carries

LEMMA PagesKeepTypes ==
    ASSUME TypeInv, NEW t \in Tabs, Navigate(t) \/ Open(t) PROVE TypeInv'
<1>1. CASE Navigate(t)
      BY <1>1 DEF Navigate, TypeInv, TypeOK, CallsCarry, Carries, Pages
<1>2. CASE Open(t)
  <2>1. call' \in [Calls -> CallRecord] /\ CallsCarry'
        BY <1>2, CallsDropped DEF Open
  <2>2. /\ at' \in [Tabs -> Pages] /\ cached' \in [Tabs -> SUBSET Users]
        /\ UNCHANGED <<owner, revoked, cookie, saved, changed, over>>
        BY <1>2 DEF Open, TypeInv, TypeOK, Pages
  <2> QED BY <2>1, <2>2 DEF TypeInv, TypeOK
<1> QED BY <1>1, <1>2

LEMMA ClicksKeepTypes ==
    ASSUME TypeInv, NEW c \in Calls, NEW t \in Tabs, Get(c, t) \/ Logout(c, t) PROVE TypeInv'
<1>1. CASE Get(c, t)
  <2>1. Query(t) \in CallRecord /\ Carries(Query(t))
        BY DEF Query, Idle, CallRecord, Kinds, Carries, TypeInv, TypeOK
  <2>2. call' \in [Calls -> CallRecord] /\ CallsCarry'
        BY <1>1, <2>1, OneCall DEF Get
  <2> QED BY <1>1, <2>2 DEF Get, TypeInv, TypeOK
<1>2. CASE Logout(c, t)
  <2> DEFINE r == [Idle EXCEPT !.kind = "logout", !.tab = t, !.token = saved]
  <2>1. r \in CallRecord /\ Carries(r)
        BY DEF Idle, CallRecord, Kinds, Carries, TypeInv, TypeOK
  <2>2. call' = [call EXCEPT ![c] = r] /\ saved' = None /\ over' \in {over, "disturbed"}
        /\ UNCHANGED <<owner, revoked, cookie, at, cached, changed>>
        BY <1>2 DEF Logout
  <2>3. call' \in [Calls -> CallRecord] /\ CallsCarry'
        BY <2>1, <2>2, OneCall
  <2> QED BY <2>2, <2>3 DEF TypeInv, TypeOK
<1> QED BY <1>1, <1>2

LEMMA LoginKeepsTypes ==
    ASSUME TypeInv, NEW c \in Calls, NEW t \in Tabs, NEW u \in Users, Login(c, t, u)
    PROVE  TypeInv'
<1>1. PICK k \in Tokens :
        /\ owner[k] = None /\ owner' = [owner EXCEPT ![k] = u]
        /\ call' = [call EXCEPT ![c] = [Idle EXCEPT !.kind = "entered", !.tab = t, !.user = u, !.token = k]]
        /\ UNCHANGED <<revoked, cookie, saved, at, cached, changed, over>>
      BY DEF Login
<1>2. /\ u # None /\ \A l \in Tokens : owner[l] # None => owner'[l] # None
      /\ owner'[k] # None /\ owner' \in [Tokens -> Users \cup {None}]
      BY <1>1, NoneAssumption DEF TypeInv, TypeOK
<1> DEFINE r == [Idle EXCEPT !.kind = "entered", !.tab = t, !.user = u, !.token = k]
<1>3. r \in CallRecord /\ Carries(r)'
      BY <1>1, <1>2 DEF Idle, CallRecord, Kinds, Carries
<1>4. \A d \in Calls : Carries(call[d])'
  <2> SUFFICES ASSUME NEW d \in Calls PROVE Carries(call[d])'
      OBVIOUS
  <2>1. CASE d = c
        BY <1>1, <1>3, <2>1 DEF TypeInv, TypeOK, Carries
  <2>2. CASE d # c
    <3>1. call'[d] = call[d] /\ call[d].token \in Tokens \cup {None}
          BY <1>1, <2>2 DEF TypeInv, TypeOK, CallRecord
    <3> QED BY <1>2, <3>1 DEF TypeInv, CallsCarry, Carries
  <2> QED BY <2>1, <2>2
<1> QED BY <1>1, <1>2, <1>3, <1>4 DEF TypeInv, TypeOK, CallsCarry

LEMMA ServerKeepsTypes ==
    ASSUME TypeInv, NEW c \in Calls, ServeRefresh(c) \/ ServeLogout(c) \/ Lose(c)
    PROVE  TypeInv'
<1>1. CASE ServeRefresh(c)
  <2>1. PICK r \in CallRecord : Carries(r) /\ call' = [call EXCEPT ![c] = r]
    <3>1. CASE Valid(call[c].token)
      <4> DEFINE r == [call[c] EXCEPT !.kind = "refreshed", !.user = owner[call[c].token]]
      <4>1. owner[call[c].token] \in Users
            BY <3>1 DEF Valid, TypeInv, TypeOK
      <4>2. r \in CallRecord /\ Carries(r)
            BY <1>1, <4>1 DEF ServeRefresh, TypeInv, TypeOK, CallsCarry, Carries, CallRecord, Kinds
      <4> QED BY <1>1, <3>1, <4>2 DEF ServeRefresh, Answer
    <3>2. CASE ~Valid(call[c].token)
      <4>1. call' = [call EXCEPT ![c] = [call[c] EXCEPT !.kind = "refused"]] /\ call[c].kind # "none"
            BY <1>1, <3>2 DEF ServeRefresh, Answer
      <4> QED BY <4>1, Retyped DEF Kinds
    <3> QED BY <3>1, <3>2
  <2>2. call' \in [Calls -> CallRecord] /\ CallsCarry'
        BY <1>1, <2>1, OneCall DEF ServeRefresh
  <2> QED BY <1>1, <2>2 DEF ServeRefresh, TypeInv, TypeOK
<1>2. CASE ServeLogout(c)
  <2>1. call' = [call EXCEPT ![c] = [call[c] EXCEPT !.kind = "gone"]] /\ call[c].kind # "none"
        BY <1>2 DEF ServeLogout, Answer
  <2>2. [call[c] EXCEPT !.kind = "gone"] \in CallRecord /\ Carries([call[c] EXCEPT !.kind = "gone"])
        BY <2>1, Retyped DEF Kinds
  <2>3. call' \in [Calls -> CallRecord] /\ CallsCarry'
        BY <1>2, <2>1, <2>2, OneCall DEF ServeLogout
  <2>4. revoked' \subseteq {k \in Tokens : owner[k] # None}
        BY <1>2 DEF ServeLogout, TypeInv, TypeOK, CallsCarry, Carries, CallRecord
  <2> QED BY <1>2, <2>3, <2>4 DEF ServeLogout, TypeInv, TypeOK
<1>3. CASE Lose(c)
  <2>1. PICK r \in CallRecord : Carries(r) /\ call' = [call EXCEPT ![c] = r]
    <3>1. CASE call[c].kind = "refresh"
          BY <1>3, <3>1, Retyped DEF Lose, Answer, Kinds
    <3>2. CASE call[c].kind = "logout"
          BY <1>3, <3>2, Retyped DEF Lose, Answer, Kinds
    <3>3. CASE call[c].kind \notin {"refresh", "logout"}
          BY <1>3, <3>3, IdleCarries DEF Lose, Answer
    <3> QED BY <3>1, <3>2, <3>3
  <2>2. call' \in [Calls -> CallRecord] /\ CallsCarry'
        BY <1>3, <2>1, OneCall DEF Lose
  <2> QED BY <1>3, <2>2 DEF Lose, TypeInv, TypeOK
<1> QED BY <1>1, <1>2, <1>3

LEMMA RevokingKeepsTypes ==
    ASSUME TypeInv, NEW u \in Users, RevokeAll(u) PROVE TypeInv'
<1>1. revoked' \subseteq {k \in Tokens : owner[k] # None}
      BY NoneAssumption DEF RevokeAll, TypeInv, TypeOK
<1> QED BY <1>1 DEF RevokeAll, TypeInv, TypeOK, CallsCarry, Carries

LEMMA ExpiryKeepsTypes == TypeInv /\ Expire => TypeInv'
BY DEF Expire, TypeInv, TypeOK, CallsCarry, Carries

LEMMA ForcedOut ==
    ASSUME TypeInv, NEW t \in Tabs, ForceOut(t), UNCHANGED owner
    PROVE  /\ call' \in [Calls -> CallRecord] /\ CallsCarry'
           /\ at' \in [Tabs -> Pages] /\ cached' \in [Tabs -> SUBSET Users]
BY CallsDropped DEF ForceOut, TypeInv, TypeOK, Pages

LEMMA AnswersKeepTypes ==
    ASSUME TypeInv, NEW c \in Calls, Arrive(c) \/ Denied(c) \/ Refreshed(c) \/ Refused(c)
    PROVE  TypeInv'
<1>1. CASE Arrive(c)
  <2>1. call' \in [Calls -> CallRecord] /\ CallsCarry'
        BY <1>1, IdleCarries, OneCall DEF Arrive
  <2>2. cached' \in [Tabs -> SUBSET Users]
        BY <1>1 DEF Arrive, TypeInv, TypeOK, CallsCarry, Carries
  <2> QED BY <1>1, <2>1, <2>2 DEF Arrive, TypeInv, TypeOK
<1>2. CASE Denied(c)
  <2>1. UNCHANGED <<owner, revoked, cookie, saved, changed, over>>
        BY <1>2 DEF Denied
  <2>2. CASE Answer(c, Idle) /\ UNCHANGED <<at, cached>>
    <3>1. call' \in [Calls -> CallRecord] /\ CallsCarry'
          BY <2>1, <2>2, IdleCarries, OneCall DEF Answer
    <3> QED BY <2>1, <2>2, <3>1 DEF TypeInv, TypeOK
  <2>3. CASE /\ saved # None /\ UNCHANGED <<at, cached>>
             /\ Answer(c, [call[c] EXCEPT !.kind = "refresh", !.token = saved])
    <3> DEFINE r == [call[c] EXCEPT !.kind = "refresh", !.token = saved]
    <3>1. r \in CallRecord /\ Carries(r)
          BY <1>2, <2>3 DEF Denied, TypeInv, TypeOK, CallsCarry, Carries, CallRecord, Kinds
    <3>2. call' \in [Calls -> CallRecord] /\ CallsCarry'
          BY <2>1, <2>3, <3>1, OneCall DEF Answer
    <3> QED BY <2>1, <2>3, <3>2 DEF TypeInv, TypeOK
  <2>4. CASE ForceOut(call[c].tab)
    <3>1. call[c].tab \in Tabs
          BY <1>2 DEF Denied, TypeInv, CallsCarry, Carries
    <3> QED BY <2>1, <2>4, <3>1, ForcedOut DEF TypeInv, TypeOK
  <2> QED BY <1>2, <2>2, <2>3, <2>4 DEF Denied
<1>3. CASE Refreshed(c)
  <2>1. /\ call[c].user \in Users /\ call[c].tab \in Tabs /\ call[c].token \in Tokens
        /\ owner[call[c].token] # None /\ call[c].awaited \in BOOLEAN
        BY <1>3, NoneAssumption DEF Refreshed, TypeInv, TypeOK, CallsCarry, Carries, CallRecord
  <2> DEFINE r == [Idle EXCEPT !.kind = "answered", !.tab = call[c].tab, !.user = call[c].user,
                               !.again = TRUE, !.awaited = call[c].awaited]
  <2>2. r \in CallRecord /\ Carries(r)
        BY <2>1 DEF Idle, CallRecord, Kinds, Carries
  <2>3. /\ call' = [call EXCEPT ![c] = r] /\ cookie' = call[c].user /\ saved' = call[c].token
        /\ UNCHANGED <<owner, revoked, at, cached, changed, over>>
        BY <1>3 DEF Refreshed, Answer
  <2>4. call' \in [Calls -> CallRecord] /\ CallsCarry'
        BY <2>2, <2>3, OneCall
  <2> QED BY <2>1, <2>3, <2>4 DEF TypeInv, TypeOK
<1>4. CASE Refused(c)
  <2>1. call[c].tab \in Tabs
        BY <1>4 DEF Refused, TypeInv, CallsCarry, Carries
  <2> QED BY <1>4, <2>1, ForcedOut DEF Refused, TypeInv, TypeOK
<1> QED BY <1>1, <1>2, <1>3, <1>4

LEMMA EnteringKeepsTypes ==
    ASSUME TypeInv, NEW c \in Calls, Entered(c) PROVE TypeInv'
<1>1. /\ call[c].user \in Users /\ call[c].tab \in Tabs /\ call[c].token \in Tokens
      /\ owner[call[c].token] # None
      BY NoneAssumption DEF Entered, TypeInv, CallsCarry, Carries
<1>2. call' \in [Calls -> CallRecord] /\ CallsCarry'
      BY IdleCarries, OneCall DEF Entered
<1> QED BY <1>1, <1>2 DEF Entered, TypeInv, TypeOK, Pages

LEMMA LeavingKeepsTypes ==
    ASSUME TypeInv, NEW c \in Calls, LoggedOut(c) PROVE TypeInv'
<1> DEFINE t == call[c].tab
           f == [d \in Calls |-> CASE d = c           -> Idle
                                   [] d # c /\ call[d].tab = t -> [call[d] EXCEPT !.awaited = FALSE]
                                   [] OTHER           -> call[d]]
<1>1. t \in Tabs /\ call' = f
      BY DEF LoggedOut, TypeInv, CallsCarry, Carries
<1>2. \A d \in Calls : f[d] \in CallRecord /\ Carries(f[d])
  <2> SUFFICES ASSUME NEW d \in Calls PROVE f[d] \in CallRecord /\ Carries(f[d])
      OBVIOUS
  <2>1. call[d] \in CallRecord /\ Carries(call[d])
        BY DEF TypeInv, TypeOK, CallsCarry
  <2>2. CASE d = c
        BY <2>2, IdleCarries
  <2>3. CASE d # c /\ call[d].tab = t
    <3>1. f[d] = [call[d] EXCEPT !.awaited = FALSE]
          BY <2>3
    <3> HIDE DEF f
    <3> QED BY <2>1, <3>1 DEF CallRecord, Carries
  <2>4. CASE d # c /\ call[d].tab # t
        BY <2>1, <2>4
  <2> QED BY <2>2, <2>3, <2>4
<1>3. call' \in [Calls -> CallRecord] /\ CallsCarry'
  <2> HIDE DEF f
  <2>1. owner' = owner /\ call' = [d \in Calls |-> f[d]]
        BY <1>1 DEF LoggedOut, f
  <2> QED BY <1>1, <1>2, <2>1, CallsKept
<1>4. /\ at' \in [Tabs -> Pages] /\ cached' \in [Tabs -> SUBSET Users]
      /\ cookie' \in Users \cup {None} /\ over' \in {"ended", "disturbed"}
      /\ UNCHANGED <<owner, revoked, saved, changed>>
      BY <1>1 DEF LoggedOut, TypeInv, TypeOK, Pages
<1> QED BY <1>3, <1>4 DEF TypeInv, TypeOK

\* A password can only be changed by the user the cookie names.
LEMMA Revoking ==
    ASSUME TypeInv, NEW t \in Tabs, ChangePassword(t) PROVE \E u \in Users : RevokeAll(u)
BY DEF ChangePassword, TypeInv, TypeOK

LEMMA NextTypes == TypeInv /\ [Next]_vars => TypeInv'
<1> SUFFICES ASSUME TypeInv, [Next]_vars PROVE TypeInv'
    OBVIOUS
<1>1. ASSUME NEW t \in Tabs, Navigate(t) \/ Open(t) PROVE TypeInv'
      BY <1>1, PagesKeepTypes
<1>2. ASSUME NEW t \in Tabs, ChangePassword(t) PROVE TypeInv'
      BY <1>2, Revoking, RevokingKeepsTypes
<1>3. ASSUME NEW c \in Calls, NEW t \in Tabs, Get(c, t) \/ Logout(c, t) PROVE TypeInv'
      BY <1>3, ClicksKeepTypes
<1>4. ASSUME NEW c \in Calls, NEW t \in Tabs, NEW u \in Users, Login(c, t, u) PROVE TypeInv'
      BY <1>4, LoginKeepsTypes
<1>5. ASSUME NEW c \in Calls, ServeRefresh(c) \/ ServeLogout(c) \/ Lose(c) PROVE TypeInv'
      BY <1>5, ServerKeepsTypes
<1>6. ASSUME NEW c \in Calls, Arrive(c) \/ Denied(c) \/ Refreshed(c) \/ Refused(c) PROVE TypeInv'
      BY <1>6, AnswersKeepTypes
<1>7. ASSUME NEW c \in Calls, Entered(c) PROVE TypeInv'
      BY <1>7, EnteringKeepsTypes
<1>8. ASSUME NEW c \in Calls, LoggedOut(c) PROVE TypeInv'
      BY <1>8, LeavingKeepsTypes
<1>9. ASSUME NEW u \in Users, ResetPassword(u) PROVE TypeInv'
      BY <1>9, RevokingKeepsTypes DEF ResetPassword
<1>10. CASE Expire
       BY <1>10, ExpiryKeepsTypes
<1>11. CASE UNCHANGED vars
       BY <1>11 DEF vars, TypeInv, TypeOK, CallsCarry, Carries
<1> QED BY <1>1, <1>2, <1>3, <1>4, <1>5, <1>6, <1>7, <1>8, <1>9, <1>10, <1>11 DEF Next

\* The state has its types, and every request on its way carries what the code
\* that awaits it will read (client.ts:9-31, Layout.tsx:143-151).
THEOREM TypesHold == Spec => []TypeOK
<1>1. TypeInv => TypeOK
      BY DEF TypeInv
<1> QED BY <1>1, InitTypes, NextTypes, PTL DEF Spec

LEMMA CarriedHolds == Spec => []TypeInv
BY InitTypes, NextTypes, PTL DEF Spec

-----------------------------------------------------------------------------
(* How requests end *)

\* A request goes on towards its end: nothing else begins in its place.
Recedes(d) ==
    /\ \/ call'[d].kind \in {call[d].kind, "none"}
       \/ call[d].kind = "refresh" /\ call'[d].kind \in {"refreshed", "refused"}
       \/ call[d].kind = "logout" /\ call'[d].kind \in {"gone", "lost"}
       \/ call[d].kind = "refreshed" /\ call'[d].kind = "answered"
    /\ call'[d].token \in {call[d].token, None}
    /\ call'[d].kind # "none" => call'[d].tab = call[d].tab /\ (call'[d].awaited => call[d].awaited)

AllRecede == \A d \in Calls : Recedes(d)

LEMMA SameCalls == UNCHANGED call => AllRecede
BY DEF AllRecede, Recedes

LEMMA DroppedRecede ==
    ASSUME NEW t, call' = [c \in Calls |-> Dropped(t, c)] PROVE AllRecede
BY DEF Dropped, Idle, AllRecede, Recedes

LEMMA ForcedRecede ==
    ASSUME NEW t, ForceOut(t) PROVE AllRecede
BY DroppedRecede DEF ForceOut

LEMMA EndedRecedes ==
    ASSUME TypeInv, NEW c \in Calls, call' = [call EXCEPT ![c] = Idle] PROVE AllRecede
BY DEF TypeInv, TypeOK, Idle, AllRecede, Recedes

LEMMA RekindedRecedes ==
    ASSUME TypeInv, NEW c \in Calls, NEW kind,
           call' = [call EXCEPT ![c] = [call[c] EXCEPT !.kind = kind]],
           \/ call[c].kind = "refresh" /\ kind = "refused"
           \/ call[c].kind = "logout" /\ kind \in {"gone", "lost"}
    PROVE  AllRecede
<1>1. /\ call'[c].kind = kind /\ call'[c].token = call[c].token
      /\ call'[c].tab = call[c].tab /\ call'[c].awaited = call[c].awaited
      BY DEF TypeInv, TypeOK, CallRecord
<1>2. \A d \in Calls : d # c => call'[d] = call[d]
      BY DEF TypeInv, TypeOK
<1> QED BY <1>1, <1>2 DEF AllRecede, Recedes

LEMMA ServedRecede ==
    ASSUME TypeInv, NEW c \in Calls, ServeRefresh(c) PROVE AllRecede
<1>1. CASE Valid(call[c].token)
  <2>1. call' = [call EXCEPT ![c] = [call[c] EXCEPT !.kind = "refreshed", !.user = owner[call[c].token]]]
        BY <1>1 DEF ServeRefresh, Answer
  <2>2. /\ call'[c].kind = "refreshed" /\ call'[c].token = call[c].token
        /\ call'[c].tab = call[c].tab /\ call'[c].awaited = call[c].awaited
        BY <2>1 DEF TypeInv, TypeOK, CallRecord
  <2>3. \A d \in Calls : d # c => call'[d] = call[d]
        BY <2>1 DEF TypeInv, TypeOK
  <2> QED BY <2>2, <2>3 DEF AllRecede, Recedes, ServeRefresh
<1>2. CASE ~Valid(call[c].token)
      BY <1>2, RekindedRecedes DEF ServeRefresh, Answer
<1> QED BY <1>1, <1>2

LEMMA LostRecede ==
    ASSUME TypeInv, NEW c \in Calls, Lose(c) PROVE AllRecede
<1>1. CASE call[c].kind = "refresh"
      BY <1>1, RekindedRecedes DEF Lose, Answer
<1>2. CASE call[c].kind = "logout"
      BY <1>2, RekindedRecedes DEF Lose, Answer
<1>3. CASE call[c].kind \notin {"refresh", "logout"}
      BY <1>3, EndedRecedes DEF Lose, Answer
<1> QED BY <1>1, <1>2, <1>3

LEMMA RefreshedRecede ==
    ASSUME TypeInv, NEW c \in Calls, Refreshed(c) PROVE AllRecede
<1>1. call' = [call EXCEPT ![c] = [Idle EXCEPT !.kind = "answered", !.tab = call[c].tab,
                                     !.user = cookie', !.again = TRUE, !.awaited = call[c].awaited]]
      BY DEF Refreshed, Answer
<1>2. /\ call'[c].kind = "answered" /\ call'[c].token = None
      /\ call'[c].tab = call[c].tab /\ call'[c].awaited = call[c].awaited
      BY <1>1 DEF Idle, TypeInv, TypeOK
<1>3. \A d \in Calls : d # c => call'[d] = call[d]
      BY <1>1 DEF TypeInv, TypeOK
<1> QED BY <1>2, <1>3 DEF AllRecede, Recedes, Refreshed

LEMMA LoggedOutRecede ==
    ASSUME TypeInv, NEW c \in Calls, LoggedOut(c) PROVE AllRecede
<1> SUFFICES ASSUME NEW d \in Calls PROVE Recedes(d)
    BY DEF AllRecede
<1>1. CASE d = c
      BY <1>1 DEF LoggedOut, Idle, Recedes
<1>2. CASE d # c /\ call[d].tab = call[c].tab
  <2>1. call'[d] = [call[d] EXCEPT !.awaited = FALSE]
        BY <1>2 DEF LoggedOut
  <2>2. /\ call'[d].kind = call[d].kind /\ call'[d].token = call[d].token
        /\ call'[d].tab = call[d].tab /\ ~call'[d].awaited
        BY <2>1 DEF TypeInv, TypeOK, CallRecord
  <2> QED BY <2>2 DEF Recedes
<1>3. CASE d # c /\ call[d].tab # call[c].tab
      BY <1>3 DEF LoggedOut, Recedes
<1> QED BY <1>1, <1>2, <1>3

\* All steps but clicks and renewals let every request recede.
Ends ==
    \/ \E t \in Tabs : Navigate(t) \/ Open(t)
    \/ \E u \in Users : RevokeAll(u)
    \/ \E c \in Calls : ServeRefresh(c) \/ Lose(c) \/ Arrive(c) \/ Refused(c)
    \/ \E c \in Calls : Denied(c) /\ (call'[c] = Idle \/ ForceOut(call[c].tab))
    \/ Expire
    \/ UNCHANGED vars

\* What those steps have in common: they store nothing and revoke nothing that
\* is not accounted for by a new password.
LEMMA EndsRecede ==
    ASSUME TypeInv, Ends
    PROVE  /\ AllRecede
           /\ saved' \in {saved, None} /\ cookie' \in {cookie, None} /\ over' = over
           /\ owner' = owner /\ changed \subseteq changed'
           /\ \A k \in revoked' \ revoked : owner[k] \in changed'
<1>1. ASSUME NEW t \in Tabs, Navigate(t) \/ Open(t) PROVE AllRecede
      BY <1>1, SameCalls, DroppedRecede DEF Navigate, Open
<1>2. ASSUME NEW u \in Users, RevokeAll(u) PROVE AllRecede
      BY <1>2, SameCalls DEF RevokeAll
<1>3. ASSUME NEW c \in Calls, ServeRefresh(c) \/ Lose(c) \/ Arrive(c) \/ Refused(c) PROVE AllRecede
      BY <1>3, ServedRecede, LostRecede, EndedRecedes, ForcedRecede DEF Arrive, Refused
<1>4. ASSUME NEW c \in Calls, Denied(c), call'[c] = Idle \/ ForceOut(call[c].tab) PROVE AllRecede
  <2>1. CASE ForceOut(call[c].tab)
        BY <2>1, ForcedRecede
  <2>2. CASE call'[c] = Idle /\ call' = [call EXCEPT ![c] = Idle]
        BY <2>2, EndedRecedes
  <2>3. CASE call'[c] = Idle /\ call' = [call EXCEPT ![c] = [call[c] EXCEPT !.kind = "refresh", !.token = saved]]
        BY <2>3 DEF Idle, TypeInv, TypeOK, CallRecord
  <2> QED BY <1>4, <2>1, <2>2, <2>3 DEF Denied, Answer
<1>5. CASE Expire \/ UNCHANGED vars
      BY <1>5, SameCalls DEF Expire, vars
<1>6. AllRecede
      BY <1>1, <1>2, <1>3, <1>4, <1>5 DEF Ends
<1>7. /\ saved' \in {saved, None} /\ cookie' \in {cookie, None} /\ over' = over
      /\ owner' = owner /\ changed \subseteq changed'
      /\ \A k \in revoked' \ revoked : owner[k] \in changed'
  <2>1. CASE \E t \in Tabs : Navigate(t) \/ Open(t)
        BY <2>1 DEF Navigate, Open
  <2>2. CASE \E u \in Users : RevokeAll(u)
        BY <2>2 DEF RevokeAll
  <2>3. CASE \E c \in Calls : ServeRefresh(c) \/ Lose(c) \/ Arrive(c) \/ Refused(c)
        BY <2>3 DEF ServeRefresh, Lose, Arrive, Refused
  <2>4. CASE \E c \in Calls : Denied(c)
        BY <2>4 DEF Denied
  <2>5. CASE Expire \/ UNCHANGED vars
        BY <2>5 DEF Expire, vars
  <2> QED BY <2>1, <2>2, <2>3, <2>4, <2>5 DEF Ends
<1> QED BY <1>6, <1>7

\* A denied request is answered, thrown away with its tab, or renewed.
Renews(c) ==
    /\ saved # None
    /\ call[c].kind = "denied" /\ ~AtLogin(call[c].tab)
    /\ call' = [call EXCEPT ![c] = [call[c] EXCEPT !.kind = "refresh", !.token = saved]]
    /\ UNCHANGED <<owner, revoked, cookie, saved, at, cached, changed, over>>

LEMMA StepKinds ==
    ASSUME TypeInv, [Next]_vars
    PROVE  \/ Ends
           \/ \E c \in Calls, t \in Tabs : Get(c, t) \/ Logout(c, t) \/ \E u \in Users : Login(c, t, u)
           \/ \E c \in Calls : ServeLogout(c) \/ Renews(c) \/ Refreshed(c) \/ Entered(c) \/ LoggedOut(c)
<1>1. ASSUME NEW c \in Calls, Denied(c) PROVE Ends \/ Renews(c)
  <2>1. CASE Answer(c, Idle)
    <3>1. call'[c] = Idle
          BY <2>1 DEF Answer, TypeInv, TypeOK
    <3> QED BY <1>1, <3>1 DEF Ends
  <2>2. CASE ForceOut(call[c].tab)
        BY <1>1, <2>2 DEF Ends
  <2>3. CASE /\ ~AtLogin(call[c].tab) /\ saved # None
             /\ Answer(c, [call[c] EXCEPT !.kind = "refresh", !.token = saved])
             /\ UNCHANGED <<at, cached>>
        BY <1>1, <2>3 DEF Denied, Answer, Renews
  <2> QED BY <1>1, <2>1, <2>2, <2>3 DEF Denied
<1>2. ASSUME NEW t \in Tabs, ChangePassword(t) PROVE Ends
      BY <1>2, Revoking DEF Ends
<1>3. ASSUME NEW u \in Users, ResetPassword(u) PROVE Ends
      BY <1>3 DEF Ends, ResetPassword
<1> QED BY <1>1, <1>2, <1>3 DEF Next, Ends

-----------------------------------------------------------------------------
(* The end of a session *)

\* While a logout that nothing overlapped is under way nothing is stored and
\* nothing is renewed.
LeavesNothing == over # "disturbed" /\ Leaving # {} => saved = None /\ Renewing = {}

FinalInv == LeavesNothing /\ LogoutIsFinal

NoneBegins == Renewing' \subseteq Renewing /\ Leaving' \subseteq Leaving

LEMMA RecedingBeginsNone == AllRecede => NoneBegins
BY DEF AllRecede, Recedes, NoneBegins, Renewing, Leaving

LEMMA InitFinal == Init => FinalInv
BY DEF Init, FinalInv, LeavesNothing, LogoutIsFinal, Leaving, Idle

\* A step that begins nothing and stores nothing.
LEMMA QuietStep ==
    ASSUME FinalInv, NoneBegins, saved' \in {saved, None}, cookie' \in {cookie, None},
           over' \in {over, "disturbed"}
    PROVE  FinalInv'
<1>1. CASE over' = "disturbed"
      BY <1>1 DEF FinalInv, LeavesNothing, LogoutIsFinal
<1>2. CASE over' = over
  <2>1. LeavesNothing'
        BY <1>2 DEF FinalInv, LeavesNothing, NoneBegins
  <2>2. LogoutIsFinal'
        BY <1>2 DEF FinalInv, LogoutIsFinal, NoneBegins
  <2> QED BY <2>1, <2>2 DEF FinalInv
<1> QED BY <1>1, <1>2

\* A call that is replaced by one that neither renews nor leaves.
LEMMA OtherCall ==
    ASSUME TypeInv, NEW c \in Calls, NEW r, call' = [call EXCEPT ![c] = r],
           r.kind \notin {"refresh", "refreshed", "logout", "gone", "lost"}
    PROVE  NoneBegins
BY DEF TypeInv, TypeOK, NoneBegins, Renewing, Leaving

LEMMA LogoutFinal ==
    ASSUME TypeInv, FinalInv, NEW c \in Calls, NEW t \in Tabs, Logout(c, t)
    PROVE  FinalInv'
<1>1. /\ saved' = None /\ cookie' = cookie
      /\ over' = IF Renewing = {} THEN over ELSE "disturbed"
      /\ call' = [call EXCEPT ![c] = [Idle EXCEPT !.kind = "logout", !.tab = t, !.token = saved]]
      BY DEF Logout
<1>2. Renewing' \subseteq Renewing
      BY <1>1 DEF Renewing, Idle, TypeInv, TypeOK
<1>3. CASE Renewing = {}
      BY <1>1, <1>2, <1>3 DEF FinalInv, LeavesNothing, LogoutIsFinal
<1>4. CASE Renewing # {}
      BY <1>1, <1>4 DEF FinalInv, LeavesNothing, LogoutIsFinal
<1> QED BY <1>3, <1>4

\* A renewal starts only with a stored token: no undisturbed logout is under
\* way or over.
LEMMA RenewsFinal ==
    ASSUME TypeInv, FinalInv, NEW c \in Calls, Renews(c)
    PROVE  FinalInv'
<1>1. saved # None /\ UNCHANGED <<saved, over, cookie>>
      BY DEF Renews
<1>2. Leaving' \subseteq Leaving
  <2>1. call' = [call EXCEPT ![c] = [call[c] EXCEPT !.kind = "refresh", !.token = saved]]
        BY DEF Renews
  <2>2. call'[c].kind = "refresh" /\ \A d \in Calls : d # c => call'[d] = call[d]
        BY <2>1 DEF TypeInv, TypeOK, CallRecord
  <2> QED BY <2>2 DEF Leaving
<1>3. over # "ended" /\ (over = "disturbed" \/ Leaving = {})
      BY <1>1 DEF FinalInv, LeavesNothing, LogoutIsFinal
<1> QED BY <1>1, <1>2, <1>3 DEF FinalInv, LeavesNothing, LogoutIsFinal

\* The answer to a renewal stores a token, but it was on its way before.
LEMMA RefreshedFinal ==
    ASSUME TypeInv, FinalInv, NEW c \in Calls, Refreshed(c)
    PROVE  FinalInv'
<1>1. c \in Renewing /\ over' = over
      BY DEF Refreshed, Renewing
<1>2. Leaving' \subseteq Leaving
      BY RefreshedRecede, RecedingBeginsNone DEF NoneBegins
<1>3. over # "ended" /\ (over = "disturbed" \/ Leaving = {})
      BY <1>1 DEF FinalInv, LeavesNothing, LogoutIsFinal
<1> QED BY <1>1, <1>2, <1>3 DEF FinalInv, LeavesNothing, LogoutIsFinal

LEMMA EnteredFinal ==
    ASSUME TypeInv, FinalInv, NEW c \in Calls, Entered(c)
    PROVE  FinalInv'
<1>1. NoneBegins
  <2>1. call' = [call EXCEPT ![c] = Idle] /\ Idle.kind = "none"
        BY DEF Entered, Idle
  <2> QED BY <2>1, OtherCall
<1>2. \/ over' = "disturbed"
      \/ over' = "no" /\ Leaving = {}
      BY DEF Entered
<1> QED BY <1>1, <1>2 DEF FinalInv, LeavesNothing, LogoutIsFinal, NoneBegins

LEMMA LoggedOutFinal ==
    ASSUME TypeInv, FinalInv, NEW c \in Calls, LoggedOut(c)
    PROVE  FinalInv'
<1>1. NoneBegins
      BY LoggedOutRecede, RecedingBeginsNone
<1>2. c \in Leaving /\ saved' = saved
      BY DEF LoggedOut, Leaving
<1>3. \/ over' = "disturbed"
      \/ over' = "ended" /\ over # "disturbed" /\ cookie' = None
      BY DEF LoggedOut
<1>4. over # "disturbed" => saved = None /\ Renewing = {}
      BY <1>2 DEF FinalInv, LeavesNothing
<1> QED BY <1>1, <1>2, <1>3, <1>4 DEF FinalInv, LeavesNothing, LogoutIsFinal, NoneBegins

LEMMA NextFinal == TypeInv /\ FinalInv /\ [Next]_vars => FinalInv'
<1> SUFFICES ASSUME TypeInv, FinalInv, [Next]_vars PROVE FinalInv'
    OBVIOUS
<1>1. CASE Ends
      BY <1>1, EndsRecede, RecedingBeginsNone, QuietStep
<1>2. ASSUME NEW c \in Calls, NEW t \in Tabs, Get(c, t) PROVE FinalInv'
  <2>1. call' = [call EXCEPT ![c] = Query(t)] /\ Query(t).kind \in {"answered", "denied"}
        BY <1>2 DEF Get, Query, Idle
  <2>2. NoneBegins
        BY <2>1, OtherCall
  <2> QED BY <1>2, <2>2, QuietStep DEF Get
<1>3. ASSUME NEW c \in Calls, NEW t \in Tabs, NEW u \in Users, Login(c, t, u) PROVE FinalInv'
  <2>1. PICK k \in Tokens :
          call' = [call EXCEPT ![c] = [Idle EXCEPT !.kind = "entered", !.tab = t, !.user = u, !.token = k]]
        BY <1>3 DEF Login
  <2> DEFINE r == [Idle EXCEPT !.kind = "entered", !.tab = t, !.user = u, !.token = k]
  <2>2. r.kind = "entered"
        BY DEF Idle
  <2>3. NoneBegins
        BY <2>1, <2>2, OtherCall
  <2> QED BY <1>3, <2>3, QuietStep DEF Login
<1>4. ASSUME NEW c \in Calls, NEW t \in Tabs, Logout(c, t) PROVE FinalInv'
      BY <1>4, LogoutFinal
<1>5. ASSUME NEW c \in Calls, ServeLogout(c) PROVE FinalInv'
  <2>1. AllRecede
        BY <1>5, RekindedRecedes DEF ServeLogout, Answer
  <2> QED BY <1>5, <2>1, RecedingBeginsNone, QuietStep DEF ServeLogout
<1>6. ASSUME NEW c \in Calls, Renews(c) PROVE FinalInv'
      BY <1>6, RenewsFinal
<1>7. ASSUME NEW c \in Calls, Refreshed(c) PROVE FinalInv'
      BY <1>7, RefreshedFinal
<1>8. ASSUME NEW c \in Calls, Entered(c) PROVE FinalInv'
      BY <1>8, EnteredFinal
<1>9. ASSUME NEW c \in Calls, LoggedOut(c) PROVE FinalInv'
      BY <1>9, LoggedOutFinal
<1> QED BY StepKinds, <1>1, <1>2, <1>3, <1>4, <1>5, <1>6, <1>7, <1>8, <1>9

LEMMA FinalHolds == Spec => []FinalInv
BY CarriedHolds, InitFinal, NextFinal, PTL DEF Spec

\* After a logout that no login and no renewal overlapped, nothing is left in
\* the browser that opens the application again, and no answer is under way
\* that would bring it: handleLogout takes the refresh token away before it
\* asks the server (Layout.tsx:143-151), and the interceptor renews only with
\* a stored token (client.ts:17-21).
THEOREM LogoutEnds == Spec => []LogoutIsFinal
<1>1. FinalInv => LogoutIsFinal
      BY DEF FinalInv
<1> QED BY <1>1, FinalHolds, PTL

-----------------------------------------------------------------------------
(* The query cache behind the login page *)

\* The queries whose answers would still reach the cache of a tab.
Waits(t) == {c \in Calls : /\ call[c].tab = t /\ call[c].awaited
                           /\ call[c].kind \in {"answered", "denied", "refresh", "refreshed"}}

Clean(t) == at[t] \in {"loaded", "logout", "forced"} => cached[t] = {} /\ Waits(t) = {}

CleanInv == \A t \in Tabs : Clean(t)

LEMMA InitClean == Init => CleanInv
BY DEF Init, CleanInv, Clean, Waits, Idle

LEMMA RecedingWaits ==
    ASSUME AllRecede, NEW t PROVE Waits(t)' \subseteq Waits(t)
BY DEF AllRecede, Recedes, Waits

\* A call that is replaced by one no query waits for.
LEMMA UnawaitedCall ==
    ASSUME TypeInv, NEW c \in Calls, NEW r, call' = [call EXCEPT ![c] = r],
           r.kind \notin {"answered", "denied", "refresh", "refreshed"}, NEW t
    PROVE  Waits(t)' \subseteq Waits(t)
BY DEF TypeInv, TypeOK, Waits

\* A step after which no tab waits for more, and no tab has more or moves.
LEMMA SameTabs ==
    ASSUME CleanInv, \A t \in Tabs : Waits(t)' \subseteq Waits(t), UNCHANGED <<at, cached>>
    PROVE  CleanInv'
BY DEF CleanInv, Clean

\* A step that touches one tab only.
LEMMA OneTab ==
    ASSUME CleanInv, NEW t \in Tabs, Clean(t)',
           \A u \in Tabs : u # t => /\ Waits(u)' \subseteq Waits(u)
                                    /\ at'[u] = at[u] /\ cached'[u] = cached[u]
    PROVE  CleanInv'
BY DEF CleanInv, Clean

\* The calls of a tab that is loaded anew are gone.
LEMMA DroppedWaits ==
    ASSUME NEW t, call' = [c \in Calls |-> Dropped(t, c)] PROVE Waits(t)' = {}
BY DEF Dropped, Idle, Waits

LEMMA ForcedClean ==
    ASSUME TypeInv, CleanInv, NEW t \in Tabs, ForceOut(t) PROVE CleanInv'
<1>1. AllRecede /\ Waits(t)' = {}
      BY ForcedRecede, DroppedWaits DEF ForceOut
<1>2. cached'[t] = {} /\ \A u \in Tabs : u # t => at'[u] = at[u] /\ cached'[u] = cached[u]
      BY DEF ForceOut, TypeInv, TypeOK
<1>3. Clean(t)'
      BY <1>1, <1>2 DEF Clean
<1> QED BY <1>1, <1>2, <1>3, RecedingWaits, OneTab

LEMMA PagesClean ==
    ASSUME TypeInv, CleanInv, NEW t \in Tabs, Navigate(t) \/ Open(t) PROVE CleanInv'
<1>1. AllRecede
      BY SameCalls, DroppedRecede DEF Navigate, Open
<1>2. Clean(t)'
  <2>1. CASE Navigate(t)
        BY <2>1 DEF Navigate, Clean, TypeInv, TypeOK
  <2>2. CASE Open(t)
        BY <2>2, DroppedWaits DEF Open, Clean, TypeInv, TypeOK
  <2> QED BY <2>1, <2>2
<1>3. \A u \in Tabs : u # t => at'[u] = at[u] /\ cached'[u] = cached[u]
      BY DEF Navigate, Open, TypeInv, TypeOK
<1> QED BY <1>1, <1>2, <1>3, RecedingWaits, OneTab

LEMMA ArriveClean ==
    ASSUME TypeInv, CleanInv, NEW c \in Calls, Arrive(c) PROVE CleanInv'
<1>1. AllRecede
      BY EndedRecedes DEF Arrive
<1>2. PICK t \in Tabs : t = call[c].tab /\ at' = at
      BY DEF Arrive, TypeInv, CallsCarry, Carries
<1>3. CASE ~call[c].awaited
      BY <1>1, <1>2, <1>3, RecedingWaits, SameTabs DEF Arrive
<1>4. CASE call[c].awaited
  <2>1. c \in Waits(t)
        BY <1>2, <1>4 DEF Arrive, Waits
  <2>2. Clean(t)'
        BY <1>2, <2>1 DEF CleanInv, Clean
  <2>3. \A u \in Tabs : u # t => cached'[u] = cached[u]
        BY <1>2, <1>4 DEF Arrive, TypeInv, TypeOK
  <2> QED BY <1>1, <1>2, <2>2, <2>3, RecedingWaits, OneTab
<1> QED BY <1>3, <1>4

LEMMA GetClean ==
    ASSUME TypeInv, CleanInv, NEW c \in Calls, NEW t \in Tabs, Get(c, t) PROVE CleanInv'
<1>1. at[t] = "app" /\ UNCHANGED <<at, cached>>
      BY DEF Get
<1>2. call' = [call EXCEPT ![c] = Query(t)] /\ Query(t).tab = t
      BY DEF Get, Query, Idle
<1>3. \A u \in Tabs : u # t => Waits(u)' \subseteq Waits(u)
      BY <1>2 DEF Waits, TypeInv, TypeOK
<1>4. Clean(t)'
      BY <1>1 DEF Clean
<1> QED BY <1>1, <1>3, <1>4, OneTab

\* A renewal takes the place of the request it renews the session for.
LEMMA RenewsClean ==
    ASSUME TypeInv, CleanInv, NEW c \in Calls, Renews(c) PROVE CleanInv'
<1>1. call' = [call EXCEPT ![c] = [call[c] EXCEPT !.kind = "refresh", !.token = saved]]
      BY DEF Renews
<1>2. call'[c].tab = call[c].tab /\ call'[c].awaited = call[c].awaited
      BY <1>1 DEF TypeInv, TypeOK, CallRecord
<1>3. \A d \in Calls : d # c => call'[d] = call[d]
      BY <1>1 DEF TypeInv, TypeOK
<1>4. \A t \in Tabs : Waits(t)' \subseteq Waits(t)
      BY <1>2, <1>3 DEF Waits, Renews
<1> QED BY <1>4, SameTabs DEF Renews

LEMMA EnteredClean ==
    ASSUME TypeInv, CleanInv, NEW c \in Calls, Entered(c) PROVE CleanInv'
<1>1. PICK t \in Tabs :
        t = call[c].tab /\ call' = [call EXCEPT ![c] = Idle] /\ Idle.kind = "none"
      BY DEF Entered, TypeInv, CallsCarry, Carries, Idle
<1>2. at' = [at EXCEPT ![t] = "app"] /\ cached' = cached
      BY <1>1 DEF Entered
<1>3. Clean(t)'
      BY <1>1, <1>2 DEF Clean, TypeInv, TypeOK
<1>4. \A u \in Tabs : Waits(u)' \subseteq Waits(u)
      BY <1>1, UnawaitedCall
<1>5. \A u \in Tabs : u # t => at'[u] = at[u]
      BY <1>2 DEF TypeInv, TypeOK
<1> QED BY <1>1, <1>2, <1>3, <1>4, <1>5, OneTab

LEMMA LoggedOutClean ==
    ASSUME TypeInv, CleanInv, NEW c \in Calls, LoggedOut(c) PROVE CleanInv'
<1>1. PICK t \in Tabs : t = call[c].tab
      BY DEF LoggedOut, TypeInv, CallsCarry, Carries
<1>2. \A d \in Calls : call'[d].tab = t => ~call'[d].awaited \/ call'[d].kind = "none"
  <2> SUFFICES ASSUME NEW d \in Calls, call'[d].tab = t
               PROVE  ~call'[d].awaited \/ call'[d].kind = "none"
      OBVIOUS
  <2>1. CASE d = c
        BY <2>1 DEF LoggedOut, Idle
  <2>2. CASE d # c /\ call[d].tab = t
        BY <1>1, <2>2 DEF LoggedOut, TypeInv, TypeOK, CallRecord
  <2>3. CASE d # c /\ call[d].tab # t
        BY <1>1, <2>3 DEF LoggedOut
  <2> QED BY <2>1, <2>2, <2>3
<1>3. Waits(t)' = {}
      BY <1>2 DEF Waits
<1>4. cached'[t] = {} /\ \A u \in Tabs : u # t => at'[u] = at[u] /\ cached'[u] = cached[u]
      BY <1>1 DEF LoggedOut, TypeInv, TypeOK
<1>5. Clean(t)'
      BY <1>3, <1>4 DEF Clean
<1>6. \A u \in Tabs : Waits(u)' \subseteq Waits(u)
      BY LoggedOutRecede, RecedingWaits
<1> QED BY <1>4, <1>5, <1>6, OneTab

LEMMA NextClean == TypeInv /\ CleanInv /\ [Next]_vars => CleanInv'
<1> SUFFICES ASSUME TypeInv, CleanInv, [Next]_vars PROVE CleanInv'
    OBVIOUS
<1>1. CASE Ends
  <2>1. AllRecede
        BY <1>1, EndsRecede
  <2>2. CASE UNCHANGED <<at, cached>>
        BY <2>1, <2>2, RecedingWaits, SameTabs
  <2>3. ASSUME NEW t \in Tabs, Navigate(t) \/ Open(t) PROVE CleanInv'
        BY <2>3, PagesClean
  <2>4. ASSUME NEW c \in Calls, ServeRefresh(c) \/ Lose(c) PROVE CleanInv'
        BY <2>2, <2>4 DEF ServeRefresh, Lose
  <2>5. ASSUME NEW c \in Calls, Arrive(c) PROVE CleanInv'
        BY <2>5, ArriveClean
  <2>6. ASSUME NEW c \in Calls, Refused(c) \/ Denied(c) PROVE CleanInv'
    <3>1. call[c].tab \in Tabs
          BY <2>6 DEF Refused, Denied, TypeInv, CallsCarry, Carries
    <3>2. ForceOut(call[c].tab) \/ UNCHANGED <<at, cached>>
          BY <2>6 DEF Refused, Denied
    <3> QED BY <2>2, <3>1, <3>2, ForcedClean
  <2>7. ASSUME NEW u \in Users, RevokeAll(u) PROVE CleanInv'
        BY <2>2, <2>7 DEF RevokeAll
  <2>8. CASE Expire \/ UNCHANGED vars
        BY <2>2, <2>8 DEF Expire, vars
  <2> QED BY <1>1, <2>3, <2>4, <2>5, <2>6, <2>7, <2>8 DEF Ends
<1>2. ASSUME NEW c \in Calls, NEW t \in Tabs, Get(c, t) PROVE CleanInv'
      BY <1>2, GetClean
<1>3. ASSUME NEW c \in Calls, NEW t \in Tabs, NEW u \in Users, Login(c, t, u) PROVE CleanInv'
  <2>1. PICK k \in Tokens :
          call' = [call EXCEPT ![c] = [Idle EXCEPT !.kind = "entered", !.tab = t, !.user = u, !.token = k]]
        BY <1>3 DEF Login
  <2>2. [Idle EXCEPT !.kind = "entered", !.tab = t, !.user = u, !.token = k].kind = "entered"
        BY DEF Idle
  <2>3. \A v \in Tabs : Waits(v)' \subseteq Waits(v)
        BY <2>1, <2>2, UnawaitedCall
  <2> QED BY <1>3, <2>3, SameTabs DEF Login
<1>4. ASSUME NEW c \in Calls, NEW t \in Tabs, Logout(c, t) PROVE CleanInv'
  <2>1. /\ call' = [call EXCEPT ![c] = [Idle EXCEPT !.kind = "logout", !.tab = t, !.token = saved]]
        /\ [Idle EXCEPT !.kind = "logout", !.tab = t, !.token = saved].kind = "logout"
        BY <1>4 DEF Logout, Idle
  <2>2. \A v \in Tabs : Waits(v)' \subseteq Waits(v)
        BY <2>1, UnawaitedCall
  <2> QED BY <1>4, <2>2, SameTabs DEF Logout
<1>5. ASSUME NEW c \in Calls, ServeLogout(c) PROVE CleanInv'
  <2>1. AllRecede
        BY <1>5, RekindedRecedes DEF ServeLogout, Answer
  <2> QED BY <1>5, <2>1, RecedingWaits, SameTabs DEF ServeLogout
<1>6. ASSUME NEW c \in Calls, Refreshed(c) PROVE CleanInv'
      BY <1>6, RefreshedRecede, RecedingWaits, SameTabs DEF Refreshed
<1>7. ASSUME NEW c \in Calls, Renews(c) \/ Entered(c) \/ LoggedOut(c) PROVE CleanInv'
      BY <1>7, RenewsClean, EnteredClean, LoggedOutClean
<1> QED BY StepKinds, <1>1, <1>2, <1>3, <1>4, <1>5, <1>6, <1>7

\* A login page that was loaded, or reached by a logout or by the interceptor,
\* has an empty query cache, and no answer under way will fill it, whatever was
\* sent before the page was left: a full page load ends the code that awaits
\* (client.ts:25-27), a logout clears the cache together with the queries it
\* waits for (Layout.tsx:143-151).
THEOREM LoginStartsClean == Spec => []LoginPageIsClean
<1>1. CleanInv => LoginPageIsClean
      BY DEF CleanInv, Clean, LoginPageIsClean
<1> QED BY <1>1, CarriedHolds, InitClean, NextClean, PTL DEF Spec

-----------------------------------------------------------------------------
(* The stored refresh token *)

\* The server accepts the token, or refuses it because of a new password.
Works(k) == k \in revoked => owner[k] \in changed

Entering == {c \in Calls : call[c].kind = "entered"}

StoredWorks  == over # "disturbed" /\ saved # None => Works(saved)
RenewedWork  == over # "disturbed" => \A c \in Renewing : Works(call[c].token)
EnteredWork  == \A c \in Entering : Works(call[c].token) /\ call[c].token # saved
EnteredApart == \A c \in Entering, d \in Calls : d # c => call[d].token # call[c].token

\* The token of a login is in nobody else's hands until its answer is stored:
\* a logout can only revoke it after that, and then disturbs what renews it.
TokenInv == StoredWorks /\ RenewedWork /\ EnteredWork /\ EnteredApart

LEMMA InitTokens == Init => TokenInv
BY DEF Init, TokenInv, StoredWorks, RenewedWork, EnteredWork, EnteredApart, Renewing, Entering, Idle

LEMMA WorksOn ==
    ASSUME NEW k, Works(k), owner' = owner, changed \subseteq changed',
           \A l \in revoked' \ revoked : owner[l] \in changed'
    PROVE  Works(k)'
BY DEF Works

\* Requests that go on carry the token they carried.
LEMMA RecedingTokens ==
    ASSUME TypeInv, TypeInv', AllRecede
    PROVE  /\ \A c \in Renewing' : c \in Renewing /\ call'[c].token = call[c].token
           /\ \A c \in Entering' : c \in Entering /\ call'[c].token = call[c].token
           /\ EnteredApart => EnteredApart'
<1>1. \A c \in Renewing' : c \in Renewing /\ call'[c].token = call[c].token
      BY NoneAssumption DEF AllRecede, Recedes, Renewing, TypeInv, CallsCarry, Carries
<1>2. \A c \in Entering' : /\ c \in Entering /\ call'[c].token = call[c].token
                           /\ call'[c].token # None
      BY NoneAssumption DEF AllRecede, Recedes, Entering, TypeInv, CallsCarry, Carries
<1>3. \A d \in Calls : call'[d].token \in {call[d].token, None}
      BY DEF AllRecede, Recedes
<1>4. EnteredApart => EnteredApart'
      BY <1>2, <1>3 DEF EnteredApart
<1> QED BY <1>1, <1>2, <1>4

LEMMA EndsTokens ==
    ASSUME TypeInv, TypeInv', TokenInv, Ends PROVE TokenInv'
<1>1. /\ AllRecede /\ saved' \in {saved, None} /\ over' = over
      /\ \A k : Works(k) => Works(k)'
      BY EndsRecede, WorksOn
<1>2. StoredWorks'
      BY <1>1 DEF TokenInv, StoredWorks
<1>3. RenewedWork'
      BY <1>1, RecedingTokens DEF TokenInv, RenewedWork
<1>4. EnteredWork' /\ EnteredApart'
  <2>1. ASSUME NEW c \in Entering' PROVE Works(call[c].token)' /\ call'[c].token # saved'
    <3>1. PICK k \in Tokens : k = call[c].token /\ k = call'[c].token /\ Works(k) /\ k # saved
          BY <1>1, RecedingTokens DEF TokenInv, EnteredWork, Entering, TypeInv, CallsCarry, Carries
    <3> QED BY <1>1, <3>1, NoneAssumption
  <2> QED BY <1>1, <2>1, RecedingTokens DEF TokenInv, EnteredWork
<1> QED BY <1>2, <1>3, <1>4 DEF TokenInv

\* A query or a logout takes a free slot, and no token but the stored one.
LEMMA ClicksTokens ==
    ASSUME TypeInv, TypeInv', TokenInv, NEW c \in Calls, NEW r,
           call' = [call EXCEPT ![c] = r], r.token \in {saved, None},
           r.kind \notin {"refresh", "refreshed", "entered"},
           saved' \in {saved, None}, over' \in {over, "disturbed"},
           UNCHANGED <<owner, revoked, changed>>
    PROVE  TokenInv'
<1>1. \A k : Works(k) => Works(k)'
      BY DEF Works
<1>2. /\ call'[c] = r
      /\ \A d \in Calls : d # c => call'[d] = call[d]
      BY DEF TypeInv, TypeOK
<1>3. Renewing' \subseteq Renewing \ {c} /\ Entering' \subseteq Entering \ {c}
      BY <1>2 DEF Renewing, Entering
<1>4. \A d \in Entering : call[d].token \in Tokens /\ call[d].token # None
      BY NoneAssumption DEF Entering, TypeInv, CallsCarry, Carries
<1>5. StoredWorks'
      BY <1>1 DEF TokenInv, StoredWorks
<1>6. RenewedWork'
      BY <1>1, <1>2, <1>3 DEF TokenInv, RenewedWork, Renewing
<1>7. EnteredWork'
      BY <1>1, <1>2, <1>3, <1>4 DEF TokenInv, EnteredWork, Entering
<1>8. EnteredApart'
  <2> SUFFICES ASSUME NEW d \in Entering', NEW e \in Calls, e # d
               PROVE  call'[e].token # call'[d].token
      BY DEF EnteredApart
  <2>1. d \in Entering \ {c} /\ call'[d] = call[d]
        BY <1>2, <1>3 DEF Entering
  <2>2. CASE e = c
        BY <1>2, <1>4, <2>1, <2>2 DEF TokenInv, EnteredWork
  <2>3. CASE e # c
        BY <1>2, <2>1, <2>3 DEF TokenInv, EnteredApart
  <2> QED BY <2>2, <2>3
<1> QED BY <1>5, <1>6, <1>7, <1>8 DEF TokenInv

\* A login gets a token no one has been given.
LEMMA LoginTokens ==
    ASSUME TypeInv, TypeInv', TokenInv, NEW c \in Calls, NEW t \in Tabs, NEW u \in Users, Login(c, t, u)
    PROVE  TokenInv'
<1>1. PICK k \in Tokens :
        /\ owner[k] = None /\ owner' = [owner EXCEPT ![k] = u]
        /\ call' = [call EXCEPT ![c] = [Idle EXCEPT !.kind = "entered", !.tab = t, !.user = u, !.token = k]]
        /\ UNCHANGED <<revoked, cookie, saved, at, cached, changed, over>>
      BY DEF Login
<1>2. /\ call'[c].kind = "entered" /\ call'[c].token = k
      /\ \A d \in Calls : d # c => call'[d] = call[d]
      BY <1>1 DEF Idle, TypeInv, TypeOK
<1>3. k \notin revoked /\ saved # k /\ k # None
      BY <1>1, NoneAssumption DEF TypeInv, TypeOK
<1>4. \A d \in Calls : call[d].token # k
      BY <1>1, <1>3 DEF TypeInv, CallsCarry, Carries
<1>5. \A l : Works(l) => Works(l)'
      BY <1>1, <1>3 DEF Works, TypeInv, TypeOK
<1>6. Works(k)'
      BY <1>1, <1>3 DEF Works
<1>7. Renewing' \subseteq Renewing \ {c} /\ Entering' \subseteq Entering \cup {c}
      BY <1>2 DEF Renewing, Entering
<1>8. StoredWorks'
      BY <1>1, <1>5 DEF TokenInv, StoredWorks
<1>9. RenewedWork'
      BY <1>1, <1>2, <1>5, <1>7 DEF TokenInv, RenewedWork, Renewing
<1>10. EnteredWork'
  <2> SUFFICES ASSUME NEW d \in Entering' PROVE Works(call[d].token)' /\ call'[d].token # saved'
      BY DEF EnteredWork
  <2>1. CASE d = c
        BY <1>1, <1>2, <1>3, <1>6, <2>1
  <2>2. CASE d # c
        BY <1>1, <1>2, <1>5, <1>7, <2>2 DEF TokenInv, EnteredWork, Entering
  <2> QED BY <2>1, <2>2
<1>11. EnteredApart'
  <2> SUFFICES ASSUME NEW d \in Entering', NEW e \in Calls, e # d
               PROVE  call'[e].token # call'[d].token
      BY DEF EnteredApart
  <2>1. CASE d = c \/ e = c
        BY <1>2, <1>4, <2>1 DEF Entering
  <2>2. CASE d # c /\ e # c
        BY <1>2, <1>7, <2>2 DEF TokenInv, EnteredApart, Entering
  <2> QED BY <2>1, <2>2
<1> QED BY <1>8, <1>9, <1>10, <1>11 DEF TokenInv

\* A logout revokes a token that no login on its way was given, and unless it
\* was overlapped none is stored and none is renewed.
LEMMA ServeLogoutTokens ==
    ASSUME TypeInv, TypeInv', TokenInv, FinalInv, NEW c \in Calls, ServeLogout(c)
    PROVE  TokenInv'
<1>1. AllRecede
      BY RekindedRecedes DEF ServeLogout, Answer
<1>2. over # "disturbed" => saved = None /\ Renewing = {}
      BY DEF FinalInv, LeavesNothing, Leaving, ServeLogout
<1>3. UNCHANGED <<owner, saved, changed, over>> /\ revoked' \subseteq revoked \cup {call[c].token}
      BY DEF ServeLogout
<1>4. StoredWorks' /\ RenewedWork'
      BY <1>1, <1>2, <1>3, RecedingTokens DEF StoredWorks, RenewedWork
<1>5. EnteredWork'
  <2> SUFFICES ASSUME NEW d \in Entering' PROVE Works(call[d].token)' /\ call'[d].token # saved'
      BY DEF EnteredWork
  <2>1. d \in Entering /\ call'[d].token = call[d].token /\ d # c
        BY <1>1, RecedingTokens DEF Entering, ServeLogout
  <2>2. call[c].token # call[d].token
        BY <2>1 DEF TokenInv, EnteredApart
  <2> QED BY <1>3, <2>1, <2>2 DEF TokenInv, EnteredWork, Works
<1>6. EnteredApart'
      BY <1>1, RecedingTokens DEF TokenInv
<1> QED BY <1>4, <1>5, <1>6 DEF TokenInv

LEMMA RenewsTokens ==
    ASSUME TypeInv, TokenInv, NEW c \in Calls, Renews(c)
    PROVE  TokenInv'
<1>1. /\ call' = [call EXCEPT ![c] = [call[c] EXCEPT !.kind = "refresh", !.token = saved]]
      /\ saved # None /\ UNCHANGED <<owner, revoked, saved, changed, over>>
      BY DEF Renews
<1>2. /\ call'[c].kind = "refresh" /\ call'[c].token = saved
      /\ \A d \in Calls : d # c => call'[d] = call[d]
      BY <1>1 DEF TypeInv, TypeOK, CallRecord
<1>3. \A k : Works(k) => Works(k)'
      BY <1>1 DEF Works
<1>4. Renewing' \subseteq Renewing \cup {c} /\ Entering' \subseteq Entering \ {c}
      BY <1>2 DEF Renewing, Entering
<1>5. StoredWorks'
      BY <1>1, <1>3 DEF TokenInv, StoredWorks
<1>6. RenewedWork'
  <2> SUFFICES ASSUME over # "disturbed", NEW d \in Renewing' PROVE Works(call[d].token)'
      BY <1>1 DEF RenewedWork
  <2>1. CASE d = c
        BY <1>1, <1>2, <1>3, <2>1 DEF TokenInv, StoredWorks
  <2>2. CASE d # c
        BY <1>2, <1>3, <1>4, <2>2 DEF TokenInv, RenewedWork, Renewing
  <2> QED BY <2>1, <2>2
<1>7. EnteredWork'
      BY <1>1, <1>2, <1>3, <1>4 DEF TokenInv, EnteredWork, Entering
<1>8. EnteredApart'
  <2> SUFFICES ASSUME NEW d \in Entering', NEW e \in Calls, e # d
               PROVE  call'[e].token # call'[d].token
      BY DEF EnteredApart
  <2>1. d \in Entering \ {c} /\ call'[d] = call[d]
        BY <1>2, <1>4 DEF Entering
  <2>2. CASE e = c
        BY <1>2, <2>1, <2>2 DEF TokenInv, EnteredWork
  <2>3. CASE e # c
        BY <1>2, <2>1, <2>3 DEF TokenInv, EnteredApart
  <2> QED BY <2>2, <2>3
<1> QED BY <1>5, <1>6, <1>7, <1>8 DEF TokenInv

\* The answers that store a token, and the end of a logout.
LEMMA StoringTokens ==
    ASSUME TypeInv, TypeInv', TokenInv, NEW c \in Calls,
           Refreshed(c) \/ Entered(c) \/ LoggedOut(c)
    PROVE  TokenInv'
<1>1. AllRecede
      BY RefreshedRecede, EndedRecedes, LoggedOutRecede DEF Entered
<1>2. UNCHANGED <<owner, revoked, changed>> /\ \A k : Works(k) => Works(k)'
      BY DEF Refreshed, Entered, LoggedOut, Works
<1>3. \/ saved' = saved /\ ~Entered(c) /\ (over' # "disturbed" => over # "disturbed")
      \/ /\ saved' = call[c].token /\ over' = over /\ c \in Renewing
      \/ /\ saved' = call[c].token /\ c \in Entering
         /\ over' # "disturbed" => Renewing = {}
  <2>1. CASE Refreshed(c)
        BY <2>1 DEF Refreshed, Renewing
  <2>2. CASE Entered(c)
        BY <2>2 DEF Entered, Entering
  <2>3. CASE LoggedOut(c)
        BY <2>3 DEF LoggedOut, Entered
  <2> QED BY <2>1, <2>2, <2>3
<1>4. StoredWorks'
  <2> SUFFICES ASSUME over' # "disturbed", saved' # None PROVE Works(saved)'
      BY DEF StoredWorks
  <2>1. PICK k : k = saved'
        OBVIOUS
  <2>2. Works(k)
        BY <1>3, <2>1 DEF TokenInv, StoredWorks, RenewedWork, EnteredWork
  <2> QED BY <1>2, <2>1, <2>2
<1>5. RenewedWork'
  <2> SUFFICES ASSUME over' # "disturbed", NEW d \in Renewing' PROVE Works(call[d].token)'
      BY DEF RenewedWork
  <2>1. d \in Renewing /\ call'[d].token = call[d].token
        BY <1>1, RecedingTokens
  <2>2. over # "disturbed"
        BY <1>3, <2>1
  <2> QED BY <1>2, <2>1, <2>2 DEF TokenInv, RenewedWork
<1>6. EnteredWork'
  <2> SUFFICES ASSUME NEW d \in Entering' PROVE Works(call[d].token)' /\ call'[d].token # saved'
      BY DEF EnteredWork
  <2>1. d \in Entering /\ call'[d].token = call[d].token
        BY <1>1, RecedingTokens
  <2>2. Works(call[d].token)'
        BY <1>2, <2>1 DEF TokenInv, EnteredWork
  <2>3. CASE saved' = saved
        BY <2>1, <2>2, <2>3 DEF TokenInv, EnteredWork
  <2>4. CASE saved' = call[c].token /\ c \in Renewing
        BY <2>1, <2>2, <2>4 DEF TokenInv, EnteredApart, Entering, Renewing
  <2>5. CASE Entered(c)
    <3>1. d # c /\ saved' = call[c].token
          BY <2>5 DEF Entered, Entering, Idle, TypeInv, TypeOK
    <3> QED BY <2>1, <2>2, <3>1 DEF TokenInv, EnteredApart, Entering
  <2>6. saved' = saved \/ (saved' = call[c].token /\ c \in Renewing) \/ Entered(c)
        BY DEF Refreshed, LoggedOut, Renewing
  <2> QED BY <2>2, <2>3, <2>4, <2>5, <2>6
<1>7. EnteredApart'
      BY <1>1, RecedingTokens DEF TokenInv
<1> QED BY <1>4, <1>5, <1>6, <1>7 DEF TokenInv

LEMMA NextTokens == TypeInv /\ TypeInv' /\ FinalInv /\ TokenInv /\ [Next]_vars => TokenInv'
<1> SUFFICES ASSUME TypeInv, TypeInv', FinalInv, TokenInv, [Next]_vars PROVE TokenInv'
    OBVIOUS
<1>1. CASE Ends
      BY <1>1, EndsTokens
<1>2. ASSUME NEW c \in Calls, NEW t \in Tabs, Get(c, t) PROVE TokenInv'
  <2>1. /\ call' = [call EXCEPT ![c] = Query(t)]
        /\ Query(t).kind \in {"answered", "denied"} /\ Query(t).token = None
        BY <1>2 DEF Get, Query, Idle
  <2> QED BY <1>2, <2>1, ClicksTokens DEF Get
<1>3. ASSUME NEW c \in Calls, NEW t \in Tabs, Logout(c, t) PROVE TokenInv'
  <2> DEFINE r == [Idle EXCEPT !.kind = "logout", !.tab = t, !.token = saved]
  <2>1. /\ call' = [call EXCEPT ![c] = r] /\ r.kind = "logout" /\ r.token = saved
        /\ saved' = None /\ over' \in {over, "disturbed"} /\ UNCHANGED <<owner, revoked, changed>>
        BY <1>3 DEF Logout, Idle
  <2> HIDE DEF r
  <2> QED BY <2>1, ClicksTokens
<1>4. ASSUME NEW c \in Calls, NEW t \in Tabs, NEW u \in Users, Login(c, t, u) PROVE TokenInv'
      BY <1>4, LoginTokens
<1>5. ASSUME NEW c \in Calls, ServeLogout(c) PROVE TokenInv'
      BY <1>5, ServeLogoutTokens
<1>6. ASSUME NEW c \in Calls, Renews(c) PROVE TokenInv'
      BY <1>6, RenewsTokens
<1>7. ASSUME NEW c \in Calls, Refreshed(c) \/ Entered(c) \/ LoggedOut(c) PROVE TokenInv'
      BY <1>7, StoringTokens
<1> QED BY StepKinds, <1>1, <1>2, <1>3, <1>4, <1>5, <1>6, <1>7

\* The stored refresh token is one the server accepts, unless a new password
\* revoked it or a logout was overlapped, however many requests of however many
\* tabs renew the session at once: a renewal is answered with the token it came
\* with (auth_service.go:113), so no answer can store a token that another
\* renewal used up (client.ts:17-28).
THEOREM SavedTokenWorks == Spec => []StoredTokenWorks
<1>1. TokenInv => StoredTokenWorks
      BY DEF TokenInv, StoredWorks, Works, StoredTokenWorks
<1>2. TypeInv /\ [Next]_vars => TypeInv'
      BY NextTypes
<1>3. TypeInv /\ FinalInv /\ TokenInv /\ [Next]_vars => TokenInv'
      BY <1>2, NextTokens
<1> QED BY <1>1, <1>3, CarriedHolds, FinalHolds, InitTokens, PTL DEF Spec

=============================================================================
