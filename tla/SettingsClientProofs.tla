------------------------ MODULE SettingsClientProofs ------------------------
(* Proofs about SettingsClient, for any devices, profiles, requests and      *)
(* scopes.                                                                    *)
EXTENDS SettingsClient, SequenceTheorems, FiniteSetTheorems, TLAPS

\* What an answer, a list and a request of the browser may hold, given the ids
\* the server has (here) and those it had (gone). Ids are told apart, a masked
\* token is of a profile the server has or had, a lost one of one it had.
Named(list, here, gone) ==
    /\ \A i, j \in DOMAIN list : list[i].id = list[j].id => i = j
    /\ \A i \in DOMAIN list :
        /\ list[i].token = "lost" => list[i].id \in gone
        /\ list[i].token = Mask => list[i].id \in here \cup gone

FewActive(list) ==
    \A i, j \in DOMAIN list : list[i].active = TRUE /\ list[j].active = TRUE => i = j

\* None is active only after a form was saved without its profile (orph).
FitTo(list, here, gone, orph) ==
    /\ Named(list, here, gone)
    /\ FewActive(list)
    /\ list = << >> \/ orph \/ \E i \in DOMAIN list : list[i].active = TRUE

Fit(list) == FitTo(list, Ids(stored["profiles"]), removed, orphaned)

\* The mask stands for the token of a misread profile only.
MasksKnown(list, mis) == \A i \in DOMAIN list : list[i].token = Mask => list[i].id \in mis

StoredIsPlain == stored["secret"] # Mask /\ MasksKnown(stored["profiles"], misread)

\* What the server has read for a list it has a token for each mask of, or the
\* profile was dropped.
FitsRead(list, old, gone, mis) ==
    /\ MasksKnown(old, mis)
    /\ \A i \in DOMAIN old : old[i].token = "lost" => old[i].id \in gone
    /\ \A i \in DOMAIN list : list[i].token = Mask => list[i].id \in Ids(old) \cup gone

GotFits(q) ==
    q.got \in {Unset, NoList} \/ FitsRead(q.part["profiles"], q.got, removed, misread)

FitRequest(q) ==
    /\ Fit(q.before["profiles"])
    /\ q.part["profiles"] = Unset \/ Fit(q.part["profiles"])

ListsFit ==
    /\ Fit(stored["profiles"])
    /\ \A d \in Devices :
        /\ Fit(data[d]["profiles"]) /\ Fit(profiles[d])
        /\ fetch[d] \in {Unset, Asked} \/ Fit(fetch[d]["profiles"])
        /\ changes[d]["profiles"] = Unset \/ Fit(changes[d]["profiles"])
    /\ \A r \in Requests : req[r] # Unset => FitRequest(req[r])

\* A request whose end makes its device ask anew.
Asks(d, q) == q # Unset /\ q.dev = d /\ (q.kind = "toggle" \/ SomeWritten(q))

\* What a device holds or is about to get is the server's, or it will ask.
CopiesCurrent ==
    \A d \in Devices :
        \/ fetch[d] = Asked \/ unseen[d] \/ \E r \in Requests : Asks(d, req[r])
        \/ (IF fetch[d] = Unset THEN data[d] ELSE fetch[d]) = Masked(stored)

\* A save sends what the form showed.
SentForm(q) ==
    q.kind = "save" =>
        \A k \in Keys \ q.edited : q.part[k] = Effective(q.dev, q.before)[k]

SavesSendForm == \A r \in Requests : req[r] # Unset => SentForm(req[r])

ReadsFit == \A r \in Requests : req[r] # Unset => GotFits(req[r])

\* The inductive invariant.
SettingsInv ==
    /\ SettingsTypeOK
    /\ StoredIsPlain /\ ListsFit /\ CopiesCurrent /\ SavesSendForm /\ ReadsFit

-----------------------------------------------------------------------------
(* Lists of profiles *)

\* A list that is made element by element.
LEMMA MadeList ==
    ASSUME NEW list \in Seq(Profile), NEW f, f = [i \in DOMAIN list |-> f[i]],
           \A i \in DOMAIN list : f[i] \in Profile
    PROVE  /\ f \in Seq(Profile) /\ DOMAIN f = DOMAIN list /\ Len(f) = Len(list)
           /\ f = << >> <=> list = << >>
<1>1. DOMAIN list = 1..Len(list) /\ Len(list) \in Nat
      BY LenProperties
<1>2. f \in [1..Len(list) -> Profile]
      BY <1>1
<1>3. f \in Seq(Profile)
      BY <1>1, <1>2, SeqDef
<1>4. DOMAIN f = 1..Len(f) /\ Len(f) \in Nat
      BY <1>3, LenProperties
<1>5. Len(f) = Len(list)
      BY <1>1, <1>2, <1>4
<1> QED BY <1>1, <1>2, <1>3, <1>5, EmptySeq

LEMMA ListTypes ==
    ASSUME NEW list \in Seq(Profile)
    PROVE  /\ DOMAIN list = 1..Len(list) /\ Len(list) \in Nat
           /\ \A i \in DOMAIN list :
                  /\ i \in Nat /\ list[i] \in Profile
                  /\ list[i] = [id |-> list[i].id, token |-> list[i].token, active |-> list[i].active]
                  /\ list[i].id \in Profiles /\ list[i].active \in BOOLEAN
                  /\ list[i].token \in {"typed", "retyped", Mask, "lost"}
           /\ list # << >> => 1 \in DOMAIN list
           /\ list = << >> => DOMAIN list = {}
<1>1. DOMAIN list = 1..Len(list) /\ Len(list) \in Nat
      BY LenProperties
<1>2. ASSUME NEW i \in DOMAIN list
      PROVE  /\ i \in Nat /\ list[i] \in Profile
             /\ list[i] = [id |-> list[i].id, token |-> list[i].token, active |-> list[i].active]
             /\ list[i].id \in Profiles /\ list[i].active \in BOOLEAN
             /\ list[i].token \in {"typed", "retyped", Mask, "lost"}
  <2>1. i \in Nat /\ list[i] \in Profile
        BY <1>1, ElementOfSeq
  <2> QED BY <2>1 DEF Profile
<1>3. list # << >> => 1 \in DOMAIN list
      BY <1>1, EmptySeq
<1>4. list = << >> => DOMAIN list = {}
      OBVIOUS
<1> QED BY <1>1, <1>2, <1>3, <1>4

LEMMA FitGrows ==
    ASSUME NEW list, NEW here, NEW gone, NEW orph, NEW here2, NEW gone2, NEW orph2,
           FitTo(list, here, gone, orph),
           here \cup gone \subseteq here2 \cup gone2, gone \subseteq gone2, orph => orph2
    PROVE  FitTo(list, here2, gone2, orph2)
<1>1. Named(list, here2, gone2)
      BY DEF FitTo, Named
<1> QED BY <1>1 DEF FitTo

\* A profile that is made active or not.
LEMMA ProfileWith ==
    ASSUME NEW p \in Profile, NEW a \in BOOLEAN, NEW q, q = [p EXCEPT !.active = a]
    PROVE  q \in Profile /\ q.id = p.id /\ q.token = p.token /\ q.active = a
<1>1. q = [id |-> p.id, token |-> p.token, active |-> a]
      BY DEF Profile
<1> QED BY <1>1 DEF Profile

\* Which profile is active changes, nothing else.
LEMMA OnlyActiveFits ==
    ASSUME NEW list \in Seq(Profile), NEW id, NEW here, NEW gone, NEW orph,
           Named(list, here, gone),
           (\E i \in DOMAIN list : list[i].id = id) \/ list = << >> \/ orph
    PROVE  /\ OnlyActive(list, id) \in Seq(Profile)
           /\ FitTo(OnlyActive(list, id), here, gone, orph)
<1> DEFINE new == OnlyActive(list, id)
<1>1. ASSUME NEW i \in DOMAIN list
      PROVE  /\ new[i] \in Profile /\ new[i].id = list[i].id /\ new[i].token = list[i].token
             /\ (list[i].id = id => new[i].active = TRUE)
             /\ (list[i].id # id => new[i].active = FALSE)
  <2>1. list[i] \in Profile
        BY ListTypes
  <2>2. CASE list[i].id = id
    <3>1. new[i] = [list[i] EXCEPT !.active = TRUE]
          BY <2>2 DEF OnlyActive
    <3> HIDE DEF new
    <3> QED BY <2>1, <2>2, <3>1, ProfileWith
  <2>3. CASE list[i].id # id
    <3>1. new[i] = [list[i] EXCEPT !.active = FALSE]
          BY <2>3 DEF OnlyActive
    <3> HIDE DEF new
    <3> QED BY <2>1, <2>3, <3>1, ProfileWith
  <2> QED BY <2>2, <2>3
<1>2. new = [i \in DOMAIN list |-> new[i]]
      BY DEF OnlyActive
<1> HIDE DEF new
<1>3. new \in Seq(Profile) /\ DOMAIN new = DOMAIN list /\ (new = << >> <=> list = << >>)
      BY <1>1, <1>2, MadeList
<1>4. \A i \in DOMAIN list : new[i].active = TRUE => list[i].id = id
      BY <1>1
<1>5. Named(new, here, gone)
      BY <1>1, <1>3 DEF Named
<1>6. FewActive(new)
  <2> SUFFICES ASSUME NEW i \in DOMAIN list, NEW j \in DOMAIN list,
                      new[i].active = TRUE, new[j].active = TRUE
               PROVE  i = j
      BY <1>3 DEF FewActive
  <2>1. list[i].id = id /\ list[j].id = id
        BY <1>4
  <2> QED BY <2>1 DEF Named
<1>7. new = << >> \/ orph \/ \E i \in DOMAIN new : new[i].active = TRUE
      BY <1>1, <1>3
<1>8. FitTo(new, here, gone, orph)
      BY <1>5, <1>6, <1>7 DEF FitTo
<1> QED BY <1>3, <1>8 DEF new

LEMMA WithActiveFits ==
    ASSUME NEW list \in Seq(Profile), NEW here, NEW gone, NEW orph,
           Named(list, here, gone), FewActive(list)
    PROVE  WithActive(list) \in Seq(Profile) /\ FitTo(WithActive(list), here, gone, orph)
<1>1. CASE list # << >> /\ NoneActive(list)
  <2> DEFINE new == [list EXCEPT ![1].active = TRUE]
  <2>1. 1 \in DOMAIN list
        BY <1>1, ListTypes
  <2>2. ASSUME NEW i \in DOMAIN list
        PROVE  /\ new[i] \in Profile /\ new[i].id = list[i].id /\ new[i].token = list[i].token
               /\ (i = 1 => new[i].active = TRUE)
               /\ (i # 1 => new[i] = list[i])
    <3>1. list[i] \in Profile
          BY ListTypes
    <3>2. CASE i = 1
      <4>1. new[i] = [list[i] EXCEPT !.active = TRUE]
            BY <3>2
      <4> HIDE DEF new
      <4> QED BY <3>1, <3>2, <4>1, ProfileWith
    <3>3. CASE i # 1
      <4>1. new[i] = list[i]
            BY <3>3
      <4> HIDE DEF new
      <4> QED BY <3>1, <3>3, <4>1
    <3> QED BY <3>2, <3>3
  <2>3. new = [i \in DOMAIN list |-> new[i]]
        OBVIOUS
  <2>4. WithActive(list) = new
        BY <1>1 DEF WithActive
  <2> HIDE DEF new
  <2>5. new \in Seq(Profile) /\ DOMAIN new = DOMAIN list
        BY <2>2, <2>3, MadeList
  <2>6. \A i \in DOMAIN list : new[i].active = TRUE => i = 1
    <3>1. \A i \in DOMAIN list : list[i].active # TRUE
          BY <1>1, ListTypes DEF NoneActive
    <3> QED BY <2>2, <3>1
  <2>7. Named(new, here, gone)
        BY <2>2, <2>5 DEF Named
  <2>8. FewActive(new) /\ \E i \in DOMAIN new : new[i].active = TRUE
        BY <2>1, <2>2, <2>5, <2>6 DEF FewActive
  <2> QED BY <2>4, <2>5, <2>7, <2>8 DEF FitTo
<1>2. CASE ~(list # << >> /\ NoneActive(list))
  <2>1. WithActive(list) = list
        BY <1>2 DEF WithActive
  <2>2. list = << >> \/ \E i \in DOMAIN list : list[i].active = TRUE
        BY <1>2, ListTypes DEF NoneActive
  <2>3. FitTo(list, here, gone, orph)
        BY <2>2 DEF FitTo
  <2> QED BY <2>1, <2>3
<1> QED BY <1>1, <1>2

LEMMA RemoveFits ==
    ASSUME NEW list \in Seq(Profile), NEW n \in DOMAIN list, NEW here, NEW gone,
           Named(list, here, gone), FewActive(list)
    PROVE  /\ RemoveAt(list, n) \in Seq(Profile)
           /\ Named(RemoveAt(list, n), here, gone) /\ FewActive(RemoveAt(list, n))
<1> DEFINE a   == SubSeq(list, 1, n - 1)
           b   == SubSeq(list, n + 1, Len(list))
           new == a \o b
           at(i) == IF i < n THEN i ELSE i + 1
<1>1. /\ DOMAIN list = 1..Len(list) /\ Len(list) \in Nat
      /\ n \in 1..Len(list) /\ n \in Nat
      /\ \A i \in 1..Len(list) : list[i] \in Profile
      BY ListTypes
<1>2. /\ a \in Seq(Profile) /\ Len(a) = n - 1 /\ n - 1 \in Nat
      /\ \A i \in 1..(n - 1) : a[i] = list[i]
  <2>1. \A i \in 1..(n - 1) : list[i] \in Profile
        BY <1>1
  <2>2. 1 \in Int /\ n - 1 \in Int
        BY <1>1
  <2>4. (n - 1) - 1 + 1 = n - 1 /\ n - 1 \in Nat /\ \A i \in 1..(n - 1) : 1 + i - 1 = i
        BY <1>1
  <2>3. /\ a \in Seq(Profile)
        /\ Len(a) = IF 1 <= n - 1 THEN (n - 1) - 1 + 1 ELSE 0
        /\ \A i \in 1..((n - 1) - 1 + 1) : a[i] = list[1 + i - 1]
        BY <2>1, <2>2, SubSeqProperties
  <2> HIDE DEF a
  <2>5. Len(a) = n - 1
        BY <1>1, <2>3
  <2>6. ASSUME NEW i \in 1..(n - 1) PROVE a[i] = list[i]
        BY <2>3, <2>4
  <2> QED BY <2>3, <2>4, <2>5, <2>6
<1>3. /\ b \in Seq(Profile) /\ Len(b) = Len(list) - n
      /\ \A i \in 1..(Len(list) - n) : b[i] = list[n + i]
  <2>1. \A i \in (n + 1)..Len(list) : list[i] \in Profile
        BY <1>1
  <2>2. n + 1 \in Int /\ Len(list) \in Int
        BY <1>1
  <2>3. /\ b \in Seq(Profile)
        /\ Len(b) = IF n + 1 <= Len(list) THEN Len(list) - (n + 1) + 1 ELSE 0
        /\ \A i \in 1..(Len(list) - (n + 1) + 1) : b[i] = list[n + 1 + i - 1]
        BY <2>1, <2>2, SubSeqProperties
  <2> HIDE DEF b
  <2>4. Len(list) - (n + 1) + 1 = Len(list) - n
        BY <1>1
  <2>5. Len(b) = Len(list) - n
        BY <1>1, <2>3
  <2>6. ASSUME NEW i \in 1..(Len(list) - n) PROVE b[i] = list[n + i]
    <3>1. n + 1 + i - 1 = n + i
          BY <1>1
    <3> QED BY <2>3, <2>4, <3>1
  <2> QED BY <2>3, <2>5, <2>6
<1> HIDE DEF a, b
<1>4. /\ new \in Seq(Profile) /\ Len(new) = Len(list) - 1
      /\ \A i \in 1..(Len(list) - 1) :
             new[i] = IF i <= n - 1 THEN a[i] ELSE b[i - (n - 1)]
  <2>1. /\ new \in Seq(Profile) /\ Len(new) = Len(a) + Len(b)
        /\ \A i \in 1..(Len(a) + Len(b)) :
               new[i] = IF i <= Len(a) THEN a[i] ELSE b[i - Len(a)]
        BY <1>2, <1>3, ConcatProperties
  <2>2. Len(a) + Len(b) = Len(list) - 1
        BY <1>1, <1>2, <1>3
  <2> HIDE DEF new
  <2> QED BY <1>2, <2>1, <2>2
<1>5. DOMAIN new = 1..(Len(list) - 1)
      BY <1>4, ListTypes
<1> HIDE DEF new
<1>6. ASSUME NEW i \in 1..(Len(list) - 1)
      PROVE  new[i] = list[at(i)] /\ at(i) \in DOMAIN list
  <2>1. CASE i < n
    <3>1. i <= n - 1 /\ i \in 1..(n - 1)
          BY <1>1, <2>1
    <3> QED BY <1>1, <1>2, <1>4, <2>1, <3>1
  <2>2. CASE ~(i < n)
    <3>1. ~(i <= n - 1) /\ i - (n - 1) \in 1..(Len(list) - n) /\ n + (i - (n - 1)) = i + 1
          BY <1>1, <2>2
    <3>2. new[i] = b[i - (n - 1)]
          BY <1>4, <3>1
    <3>3. b[i - (n - 1)] = list[n + (i - (n - 1))]
          BY <1>3, <3>1
    <3>4. i + 1 \in 1..Len(list)
          BY <1>1, <2>2
    <3> QED BY <1>1, <2>2, <3>1, <3>2, <3>3, <3>4
  <2> QED BY <2>1, <2>2
<1>7. \A i, j \in 1..(Len(list) - 1) : at(i) = at(j) => i = j
      BY <1>1
<1> HIDE DEF at
<1>8. Named(new, here, gone)
  <2>1. \A i \in DOMAIN new : at(i) \in DOMAIN list /\ new[i] = list[at(i)]
        BY <1>5, <1>6
  <2>2. ASSUME NEW i \in DOMAIN new, NEW j \in DOMAIN new, new[i].id = new[j].id
        PROVE  i = j
    <3>1. at(i) = at(j)
          BY <2>1, <2>2 DEF Named
    <3> QED BY <1>5, <1>7, <3>1
  <2>3. ASSUME NEW i \in DOMAIN new
        PROVE  /\ new[i].token = "lost" => new[i].id \in gone
               /\ new[i].token = Mask => new[i].id \in here \cup gone
        BY <2>1 DEF Named
  <2> QED BY <2>2, <2>3 DEF Named
<1>9. FewActive(new)
      BY <1>5, <1>6, <1>7 DEF FewActive
<1> QED BY <1>4, <1>8, <1>9 DEF new, a, b, RemoveAt

LEMMA AppendFits ==
    ASSUME NEW list \in Seq(Profile), NEW here, NEW gone,
           Named(list, here, gone), FewActive(list),
           NEW p \in Profile, p.id \notin Ids(list), p.token = "typed"
    PROVE  /\ Append(list, p) \in Seq(Profile)
           /\ Named(Append(list, p), here, gone) /\ (p.active = FALSE => FewActive(Append(list, p)))
           /\ \E i \in DOMAIN Append(list, p) : Append(list, p)[i].id = p.id
<1> DEFINE new == Append(list, p)
           n == Len(list) + 1
<1>2. /\ new \in Seq(Profile) /\ Len(new) = n
      /\ \A i \in 1..Len(list) : new[i] = list[i]
      /\ new[n] = p
      BY AppendProperties
<1> HIDE DEF new
<1>3. DOMAIN list = 1..Len(list) /\ Len(list) \in Nat /\ DOMAIN new = 1..Len(new)
      BY <1>2, ListTypes
<1>4. \A i \in DOMAIN new : i \in DOMAIN list \/ i = n
      BY <1>2, <1>3
<1>5. \A i \in DOMAIN list : new[i] = list[i] /\ new[i].id # p.id
      BY <1>2, <1>3 DEF Ids
<1>6. \A i, j \in DOMAIN new : new[i].id = new[j].id => i = j
      BY <1>2, <1>4, <1>5 DEF Named
<1>7. \A i \in DOMAIN new : new[i].token \in {"lost", Mask} => i \in DOMAIN list
      BY <1>2, <1>4, MarksAssumption
<1>8. Named(new, here, gone)
      BY <1>5, <1>6, <1>7 DEF Named
<1>9. ASSUME p.active = FALSE PROVE FewActive(new)
  <2>1. new[n].active # TRUE
        BY <1>2, <1>9
  <2> QED BY <1>4, <1>5, <2>1 DEF FewActive
<1>10. n \in DOMAIN new
      BY <1>2, <1>3
<1> QED BY <1>2, <1>8, <1>9, <1>10 DEF new

-----------------------------------------------------------------------------
(* The maps of settings *)

LEMMA KeyFacts ==
    /\ {"theme", "secret", "side", "profiles"} \subseteq Keys
    /\ FormKeys = {"theme", "secret", "profiles"} /\ FormKeys \subseteq Keys
    /\ \A d \in Devices : Own(d) = d /\ d \in Keys /\ d \notin {"theme", "secret", "side", "profiles"}
    /\ \A k \in Keys : k \in {"theme", "secret", "side", "profiles"} \/ k \in Devices
BY NamesAssumption DEF Keys, FormKeys, Own

LEMMA ValueFacts ==
    /\ Value("theme") = 0..2 /\ Value("secret") = {0, 1, Mask} /\ Value("side") = {0, 1}
    /\ Value("profiles") = Seq(Profile)
    /\ \A d \in Devices : Value(d) = {0, 1, Unset}
BY NamesAssumption DEF Value

\* A map is neither of the marks of a query.
LEMMA SettingsAreNoMark ==
    ASSUME NEW m, IsSettings(m)
    PROVE  m \notin {Unset, Asked} /\ m \in [Keys -> AnyValue]
<1>1. \A k \in Keys : m[k] \in AnyValue
      BY DEF IsSettings, AnyValue
<1>2. m = [k \in Keys |-> m[k]]
      BY DEF IsSettings
<1>3. m \in [Keys -> AnyValue]
      BY <1>1, <1>2
<1> QED BY <1>3, MarksAssumption

\* What the keys of a map hold.
LEMMA SettingsHold ==
    ASSUME NEW m, IsSettings(m)
    PROVE  /\ m["theme"] \in 0..2 /\ m["secret"] \in {0, 1, Mask} /\ m["side"] \in {0, 1}
           /\ m["profiles"] \in Seq(Profile)
           /\ \A d \in Devices : m[d] \in {0, 1, Unset}
BY KeyFacts, ValueFacts DEF IsSettings

\* A map that is made key by key.
LEMMA MadeSettings ==
    ASSUME NEW m, m = [k \in Keys |-> m[k]],
           m["theme"] \in 0..2, m["secret"] \in {0, 1, Mask}, m["side"] \in {0, 1},
           m["profiles"] \in Seq(Profile),
           \A d \in Devices : m[d] \in {0, 1, Unset}
    PROVE  IsSettings(m)
<1>1. \A k \in Keys : m[k] \in Value(k)
      BY KeyFacts, ValueFacts
<1> QED BY <1>1 DEF IsSettings

\* Masking a list changes the tokens only.
LEMMA MaskedFits ==
    ASSUME NEW list \in Seq(Profile), NEW here, NEW gone, NEW orph,
           FitTo(list, here, gone, orph), Ids(list) \subseteq here \cup gone
    PROVE  /\ MaskedList(list) \in Seq(Profile)
           /\ FitTo(MaskedList(list), here, gone, orph)
<1> DEFINE new == MaskedList(list)
<1>1. ASSUME NEW i \in DOMAIN list
      PROVE  /\ new[i] \in Profile /\ new[i].id = list[i].id /\ new[i].active = list[i].active
             /\ (new[i].token = "lost" => list[i].token = "lost")
  <2>1. list[i] \in Profile /\ list[i].id \in Profiles /\ list[i].active \in BOOLEAN
        BY ListTypes
  <2> DEFINE t == IF list[i].token = "lost" THEN list[i].token ELSE Mask
  <2>2. new[i] = [list[i] EXCEPT !.token = t]
        BY DEF MaskedList
  <2>3. t \in {"lost", Mask} /\ (t = "lost" => list[i].token = "lost")
        BY MarksAssumption
  <2> HIDE DEF new, t
  <2>4. new[i] = [id |-> list[i].id, token |-> t, active |-> list[i].active]
        BY <2>1, <2>2 DEF Profile
  <2>5. new[i].id = list[i].id /\ new[i].active = list[i].active /\ new[i].token = t
        BY <2>4
  <2>6. new[i] \in Profile
        BY <2>1, <2>3, <2>4 DEF Profile
  <2> QED BY <2>3, <2>5, <2>6
<1>2. new = [i \in DOMAIN list |-> new[i]]
      BY DEF MaskedList
<1> HIDE DEF new
<1>3. /\ new \in Seq(Profile) /\ DOMAIN new = DOMAIN list /\ (new = << >> <=> list = << >>)
      BY <1>1, <1>2, MadeList
<1>4. Named(list, here, gone) /\ FewActive(list)
      BY DEF FitTo
<1>5. \A i \in DOMAIN new : i \in DOMAIN list /\ new[i].id = list[i].id /\ new[i].active = list[i].active
      BY <1>1, <1>3
<1>6. \A i, j \in DOMAIN new : new[i].id = new[j].id => i = j
      BY <1>4, <1>5, Zenon DEF Named
<1>7. \A i \in DOMAIN new : new[i].token = "lost" => new[i].id \in gone
      BY <1>1, <1>3, <1>4 DEF Named
<1>8. \A i \in DOMAIN new : new[i].id \in here \cup gone
      BY <1>5 DEF Ids
<1>9. FewActive(new)
      BY <1>4, <1>5, Zenon DEF FewActive
<1>10. new = << >> \/ orph \/ \E i \in DOMAIN new : new[i].active = TRUE
      BY <1>3, <1>5, Zenon DEF FitTo
<1>11. FitTo(new, here, gone, orph)
      BY <1>6, <1>7, <1>8, <1>9, <1>10 DEF FitTo, Named
<1> QED BY <1>3, <1>11 DEF new

LEMMA MaskedIs ==
    ASSUME NEW s, IsSettings(s)
    PROVE  /\ Masked(s) = [k \in Keys |-> Masked(s)[k]]
           /\ Masked(s)["secret"] = Mask
           /\ Masked(s)["profiles"] = MaskedList(s["profiles"])
           /\ \A k \in Keys \ {"secret", "profiles"} : Masked(s)[k] = s[k]
BY KeyFacts DEF Masked

\* An answer of the server is a map of settings whose list fits.
LEMMA AnswerIs ==
    ASSUME SettingsTypeOK, Fit(stored["profiles"])
    PROVE  IsSettings(Masked(stored)) /\ Fit(Masked(stored)["profiles"])
<1>1. IsSettings(stored)
      BY DEF SettingsTypeOK
<1>2. stored["profiles"] \in Seq(Profile)
      BY <1>1, SettingsHold
<1>3. /\ MaskedList(stored["profiles"]) \in Seq(Profile)
      /\ Fit(MaskedList(stored["profiles"]))
      BY <1>2, MaskedFits DEF Fit
<1>4. IsSettings(Masked(stored))
  <2> DEFINE m == Masked(stored)
  <2>1. /\ m = [k \in Keys |-> m[k]] /\ m["secret"] = Mask /\ m["profiles"] \in Seq(Profile)
        /\ \A k \in Keys \ {"secret", "profiles"} : m[k] = stored[k]
        BY <1>1, <1>3, MaskedIs
  <2>2. m["theme"] = stored["theme"] /\ m["side"] = stored["side"]
        /\ \A d \in Devices : m[d] = stored[d]
        BY <2>1, KeyFacts
  <2> HIDE DEF m
  <2>3. IsSettings(m)
        BY <1>1, <2>1, <2>2, SettingsHold, MadeSettings
  <2> QED BY <2>3 DEF m
<1> QED BY <1>1, <1>3, <1>4, MaskedIs

-----------------------------------------------------------------------------
(* The server's side of a masked list *)

LEMMA UnmaskedFits ==
    ASSUME NEW list \in Seq(Profile), NEW old \in Seq(Profile), NEW here, NEW gone, NEW orph, NEW mis,
           FitTo(list, here, gone, orph), FitsRead(list, old, gone, mis),
           NEW new, new = Unmasked(list, old)
    PROVE  /\ new \in Seq(Profile) /\ Ids(new) = Ids(list)
           /\ MasksKnown(new, mis) /\ FitTo(new, Ids(new), gone, orph)
<1>1. Named(list, here, gone) /\ FewActive(list)
      BY DEF FitTo
<1>2. ASSUME NEW i \in DOMAIN list
      PROVE  /\ new[i] \in Profile /\ new[i].id = list[i].id /\ new[i].active = list[i].active
             /\ (new[i].token = Mask => list[i].id \in mis)
             /\ (new[i].token = "lost" => list[i].id \in gone)
  <2>1. list[i] \in Profile /\ list[i].id \in Profiles /\ list[i].active \in BOOLEAN
        /\ list[i].token \in {"typed", "retyped", Mask, "lost"}
        BY ListTypes
  <2> DEFINE found == \E j \in DOMAIN old : old[j].id = list[i].id
             j == CHOOSE j \in DOMAIN old : old[j].id = list[i].id
             t == IF list[i].token # Mask THEN list[i].token
                  ELSE IF found THEN old[j].token ELSE "lost"
  <2>2. new[i] = [list[i] EXCEPT !.token = t]
        BY DEF Unmasked
  <2>3. /\ t \in {"typed", "retyped", Mask, "lost"}
        /\ (t = "lost" => list[i].id \in gone) /\ (t = Mask => list[i].id \in mis)
    <3>1. CASE list[i].token # Mask
          BY <1>1, <2>1, <3>1 DEF Named
    <3>2. CASE list[i].token = Mask /\ found
      <4>1. j \in DOMAIN old /\ old[j].id = list[i].id
            BY <3>2
      <4>2. t = old[j].token
            BY <3>2
      <4> HIDE DEF j, t
      <4>3. old[j].token \in {"typed", "retyped", Mask, "lost"}
            BY <4>1, ListTypes
      <4> QED BY <4>1, <4>2, <4>3 DEF FitsRead, MasksKnown
    <3>3. CASE list[i].token = Mask /\ ~found
      <4>1. t = "lost"
            BY <3>3
      <4>2. list[i].id \in Ids(old) \cup gone
            BY <3>3 DEF FitsRead
      <4>3. list[i].id \notin Ids(old)
            BY <3>3 DEF Ids
      <4> HIDE DEF t
      <4> QED BY <4>1, <4>2, <4>3, MarksAssumption
    <3> QED BY <3>1, <3>2, <3>3
  <2> HIDE DEF t, found, j
  <2>5. new[i] = [id |-> list[i].id, token |-> t, active |-> list[i].active]
        BY <2>1, <2>2 DEF Profile
  <2>6. new[i].id = list[i].id /\ new[i].active = list[i].active /\ new[i].token = t
        BY <2>5
  <2>7. new[i] \in Profile
        BY <2>1, <2>3, <2>5 DEF Profile
  <2> QED BY <2>3, <2>6, <2>7
<1>3. new = [i \in DOMAIN list |-> new[i]]
      BY DEF Unmasked
<1>4. /\ new \in Seq(Profile) /\ DOMAIN new = DOMAIN list /\ (new = << >> <=> list = << >>)
  <2>1. \A i \in DOMAIN list : new[i] \in Profile
        BY <1>2
  <2>2. new \in Seq(Profile) /\ DOMAIN new = DOMAIN list
        BY <1>3, <2>1, MadeList
  <2>3. \A l \in Seq(Profile) : l = << >> <=> DOMAIN l = {}
        BY ListTypes
  <2> QED BY <2>2, <2>3
<1>5. \A i \in DOMAIN new : i \in DOMAIN list /\ new[i].id = list[i].id /\ new[i].active = list[i].active
      BY <1>2, <1>4
<1>6. Ids(new) = Ids(list)
      BY <1>4, <1>5 DEF Ids
<1>7. \A i, j \in DOMAIN new : new[i].id = new[j].id => i = j
      BY <1>1, <1>5, Zenon DEF Named
<1>8. /\ \A i \in DOMAIN new : new[i].token = "lost" => new[i].id \in gone
      /\ MasksKnown(new, mis)
      BY <1>2, <1>4 DEF MasksKnown
<1>9. FewActive(new)
      BY <1>1, <1>5, Zenon DEF FewActive
<1>10. new = << >> \/ orph \/ \E i \in DOMAIN new : new[i].active = TRUE
      BY <1>4, <1>5, Zenon DEF FitTo
<1>11. Named(new, Ids(new), gone)
      BY <1>7, <1>8 DEF Named, Ids
<1>12. FitTo(new, Ids(new), gone, orph)
      BY <1>9, <1>10, <1>11 DEF FitTo
<1> QED BY <1>4, <1>6, <1>8, <1>12

\* A list that is stored as it was sent.
LEMMA StoredAsSent ==
    ASSUME NEW list, NEW here, NEW gone, NEW orph, FitTo(list, here, gone, orph)
    PROVE  /\ MasksKnown(list, MaskedIds(list)) /\ FitTo(list, Ids(list), gone, orph)
<1>1. \A i \in DOMAIN list : list[i].id \in Ids(list)
      BY DEF Ids
<1>2. Named(list, Ids(list), gone)
      BY <1>1 DEF FitTo, Named
<1> QED BY <1>2 DEF FitTo, MasksKnown, MaskedIds

\* A masked list that comes back as it was leaves the stored one as it is.
LEMMA MaskedComesBack ==
    ASSUME NEW list \in Seq(Profile), \A i, j \in DOMAIN list : list[i].id = list[j].id => i = j
    PROVE  Unmasked(MaskedList(list), list) = list
<1> DEFINE m   == MaskedList(list)
           new == Unmasked(m, list)
<1>1. DOMAIN m = DOMAIN list /\ new = [i \in DOMAIN list |-> new[i]]
      BY DEF MaskedList, Unmasked
<1>2. ASSUME NEW i \in DOMAIN list PROVE new[i] = list[i]
  <2>1. list[i] \in Profile
        BY ListTypes
  <2> DEFINE t == IF list[i].token = "lost" THEN list[i].token ELSE Mask
  <2>2. m[i] = [list[i] EXCEPT !.token = t]
        BY DEF MaskedList
  <2>3. m[i] = [id |-> list[i].id, token |-> t, active |-> list[i].active]
        BY <2>1, <2>2 DEF Profile
  <2>4. m[i].id = list[i].id /\ m[i].token = t /\ m[i].active = list[i].active
        BY <2>3
  <2> DEFINE j == CHOOSE j \in DOMAIN list : list[j].id = m[i].id
             u == IF m[i].token # Mask THEN m[i].token
                  ELSE IF \E k \in DOMAIN list : list[k].id = m[i].id THEN list[j].token ELSE "lost"
  <2>5. new[i] = [m[i] EXCEPT !.token = u]
        BY <1>1 DEF Unmasked
  <2>6. j = i
    <3>1. j \in DOMAIN list /\ list[j].id = m[i].id
          BY <2>4
    <3> HIDE DEF j, m
    <3> QED BY <2>4, <3>1
  <2>7. u = list[i].token
    <3> HIDE DEF m, j
    <3>1. CASE list[i].token = "lost"
      <4>1. m[i].token = "lost" /\ "lost" # Mask
            BY <2>4, <3>1, MarksAssumption
      <4> QED BY <3>1, <4>1
    <3>2. CASE list[i].token # "lost"
      <4>1. m[i].token = Mask /\ list[i].id = m[i].id
            BY <2>4, <3>2
      <4> QED BY <2>6, <4>1
    <3> QED BY <3>1, <3>2
  <2> HIDE DEF m, new, u, j, t
  <2>8. new[i] = [list[i] EXCEPT !.token = list[i].token]
        BY <2>1, <2>3, <2>5, <2>7 DEF Profile
  <2> QED BY <2>1, <2>8 DEF Profile
<1>3. list = [i \in DOMAIN list |-> list[i]]
      BY ListTypes
<1> QED BY <1>1, <1>2, <1>3

-----------------------------------------------------------------------------
(* The invariant of the next state, part by part *)

FitNext(list) == FitTo(list, Ids(stored'["profiles"]), removed', orphaned')

\* What the server has and had is only added to.
Grows ==
    /\ Ids(stored["profiles"]) \cup removed \subseteq Ids(stored'["profiles"]) \cup removed'
    /\ removed \subseteq removed' /\ misread \subseteq misread'
    /\ orphaned => orphaned'

LEMMA FitStays ==
    ASSUME NEW list, Fit(list), Grows
    PROVE  FitNext(list)
BY FitGrows DEF Fit, FitNext, Grows

\* The same when a form was saved in this step whose profile had left the list.
FitAt(list, orph) == FitTo(list, Ids(stored["profiles"]), removed, orph)

LEMMA FitAtStays ==
    ASSUME NEW list, FitAt(list, orphaned'), Grows
    PROVE  FitNext(list)
BY FitGrows DEF FitAt, FitNext, Grows

LEMMA ListsFitNext ==
    ASSUME FitNext(stored'["profiles"]),
           \A d \in Devices :
               /\ FitNext(data'[d]["profiles"]) /\ FitNext(profiles'[d])
               /\ fetch'[d] \in {Unset, Asked} \/ FitNext(fetch'[d]["profiles"])
               /\ changes'[d]["profiles"] = Unset \/ FitNext(changes'[d]["profiles"]),
           \A r \in Requests : req'[r] # Unset =>
               /\ FitNext(req'[r].before["profiles"])
               /\ req'[r].part["profiles"] = Unset \/ FitNext(req'[r].part["profiles"])
    PROVE  ListsFit'
<1>1. Fit(stored["profiles"])'
      BY DEF FitNext, Fit, FitTo, Named, FewActive, Ids
<1>2. ASSUME NEW d \in Devices
      PROVE  /\ Fit(data[d]["profiles"])' /\ Fit(profiles[d])'
             /\ fetch'[d] \in {Unset, Asked} \/ Fit(fetch[d]["profiles"])'
             /\ changes'[d]["profiles"] = Unset \/ Fit(changes[d]["profiles"])'
  <2>1. FitNext(data'[d]["profiles"]) => Fit(data[d]["profiles"])'
        BY DEF FitNext, Fit, FitTo, Named, FewActive, Ids
  <2>2. FitNext(profiles'[d]) => Fit(profiles[d])'
        BY DEF FitNext, Fit, FitTo, Named, FewActive, Ids
  <2>3. FitNext(fetch'[d]["profiles"]) => Fit(fetch[d]["profiles"])'
        BY DEF FitNext, Fit, FitTo, Named, FewActive, Ids
  <2>4. FitNext(changes'[d]["profiles"]) => Fit(changes[d]["profiles"])'
        BY DEF FitNext, Fit, FitTo, Named, FewActive, Ids
  <2> QED BY <2>1, <2>2, <2>3, <2>4
<1>3. ASSUME NEW r \in Requests, req'[r] # Unset
      PROVE  FitRequest(req[r])'
  <2>1. FitNext(req'[r].before["profiles"]) => Fit(req[r].before["profiles"])'
        BY DEF FitNext, Fit, FitTo, Named, FewActive, Ids
  <2>2. FitNext(req'[r].part["profiles"]) => Fit(req[r].part["profiles"])'
        BY DEF FitNext, Fit, FitTo, Named, FewActive, Ids
  <2> QED BY <1>3, <2>1, <2>2 DEF FitRequest
<1> QED BY <1>1, <1>2, <1>3 DEF ListsFit

LEMMA CopiesNext ==
    ASSUME \A d \in Devices :
               \/ fetch'[d] = Asked \/ unseen'[d] \/ \E r \in Requests : Asks(d, req'[r])
               \/ (IF fetch'[d] = Unset THEN data'[d] ELSE fetch'[d]) = Masked(stored')
    PROVE  CopiesCurrent'
<1>1. Masked(stored') = Masked(stored)'
      BY DEF Masked, MaskedList
<1>2. \A d \in Devices : (\E r \in Requests : Asks(d, req'[r])) => \E r \in Requests : Asks(d, req[r])'
      BY DEF Asks, SomeWritten, Sends, Keys, Own
<1> QED BY <1>1, <1>2 DEF CopiesCurrent

LEMMA SavesNext ==
    ASSUME \A r \in Requests : req'[r] # Unset => SentForm(req'[r])
    PROVE  SavesSendForm'
BY DEF SavesSendForm, SentForm, Effective, Own

LEMMA GotStays ==
    ASSUME NEW q, GotFits(q), removed \subseteq removed', misread \subseteq misread'
    PROVE  q.got \in {Unset, NoList} \/ FitsRead(q.part["profiles"], q.got, removed', misread')
BY DEF GotFits, FitsRead, MasksKnown

LEMMA ReadsNext ==
    ASSUME \A r \in Requests : req'[r] # Unset =>
               \/ req'[r].got \in {Unset, NoList}
               \/ FitsRead(req'[r].part["profiles"], req'[r].got, removed', misread')
    PROVE  ReadsFit'
BY DEF ReadsFit, GotFits, FitsRead, MasksKnown, Ids

Counted == \E s \in Scopes : scope = [s EXCEPT !.left = scope.left] /\ scope.left \in 0..s.left

LEMMA ScopeNext ==
    ASSUME Counted, scope' = scope \/ \E kind : Click(kind)
    PROVE  Counted'
<1>1. CASE scope' = scope
      BY <1>1 DEF Counted
<1>2. CASE \E kind : Click(kind)
  <2>1. PICK s \in Scopes : scope = [s EXCEPT !.left = scope.left] /\ scope.left \in 0..s.left
        BY DEF Counted
  <2>2. s = [clicks |-> s.clicks, left |-> s.left] /\ s.left \in Nat
        BY BoundsAssumption
  <2>3. scope = [clicks |-> s.clicks, left |-> scope.left]
        BY <2>1, <2>2
  <2>4. scope.left > 0 /\ scope' = [scope EXCEPT !.left = @ - 1]
        BY <1>2 DEF Click
  <2>5. scope' = [clicks |-> s.clicks, left |-> scope.left - 1]
        BY <2>3, <2>4
  <2>6. scope'.left = scope.left - 1 /\ scope' = [s EXCEPT !.left = scope'.left]
        BY <2>2, <2>5
  <2>7. scope'.left \in 0..s.left
        BY <2>1, <2>2, <2>4, <2>6
  <2> QED BY <2>6, <2>7 DEF Counted
<1> QED BY <1>1, <1>2

LEMMA TypeNext ==
    ASSUME SettingsTypeOK, scope' = scope \/ \E kind : Click(kind),
           IsSettings(stored'),
           data' = [d \in Devices |-> data'[d]], \A d \in Devices : IsSettings(data'[d]),
           fetch' = [d \in Devices |-> fetch'[d]],
           \A d \in Devices : fetch'[d] \in {Unset, Asked} \/ IsSettings(fetch'[d]),
           changes' = [d \in Devices |-> [k \in FormKeys |-> changes'[d][k]]],
           \A d \in Devices, k \in FormKeys : changes'[d][k] = Unset \/ changes'[d][k] \in Value(k),
           profiles' \in [Devices -> Seq(Profile)],
           editing' \in [Devices -> Profiles \cup {Unset}],
           req' = [r \in Requests |-> req'[r]],
           \A r \in Requests : req'[r] = Unset \/ IsRequest(req'[r]),
           removed' \subseteq Profiles, misread' \subseteq Profiles,
           orphaned' \in BOOLEAN,
           unseen' \in [Devices -> BOOLEAN]
    PROVE  SettingsTypeOK'
<1>1. Counted'
      BY ScopeNext DEF SettingsTypeOK, Counted
<1>2. IsSettings(stored)'
      BY DEF IsSettings
<1>3. \A d \in Devices : IsSettings(data[d])'
      BY DEF IsSettings
<1>4. \A d \in Devices : fetch'[d] \in {Unset, Asked} \/ IsSettings(fetch[d])'
      BY DEF IsSettings
<1>5. \A r \in Requests : req'[r] = Unset \/ IsRequest(req[r])'
  <2>1. ASSUME NEW r \in Requests PROVE IsRequest(req'[r]) => IsRequest(req[r])'
        BY DEF IsRequest, IsPart, IsSettings, Sends
  <2> QED BY <2>1
<1> QED BY <1>1, <1>2, <1>3, <1>4, <1>5 DEF SettingsTypeOK, Counted

-----------------------------------------------------------------------------
(* What the actions share *)

\* What the invariant says of the value of a variable, while the server's map
\* is the one of this state.
GoodData(f) ==
    /\ f = [d \in Devices |-> f[d]]
    /\ \A d \in Devices : IsSettings(f[d]) /\ Fit(f[d]["profiles"])

GoodFetch(f) ==
    /\ f = [d \in Devices |-> f[d]]
    /\ \A d \in Devices : f[d] \in {Unset, Asked} \/ (IsSettings(f[d]) /\ Fit(f[d]["profiles"]))

GoodChanges(f, orph) ==
    /\ f = [d \in Devices |-> [k \in FormKeys |-> f[d][k]]]
    /\ \A d \in Devices, k \in FormKeys : f[d][k] = Unset \/ f[d][k] \in Value(k)
    /\ \A d \in Devices : f[d]["profiles"] = Unset \/ FitAt(f[d]["profiles"], orph)

GoodProfiles(f, orph) == f \in [Devices -> Seq(Profile)] /\ \A d \in Devices : FitAt(f[d], orph)

GoodReq(f) ==
    /\ f = [r \in Requests |-> f[r]]
    /\ \A r \in Requests : f[r] = Unset \/ (IsRequest(f[r]) /\ FitRequest(f[r]) /\ SentForm(f[r]) /\ GotFits(f[r]))

LEMMA GoodNow ==
    ASSUME SettingsInv
    PROVE  /\ GoodData(data) /\ GoodFetch(fetch) /\ GoodChanges(changes, orphaned) /\ GoodProfiles(profiles, orphaned)
           /\ GoodReq(req)
           /\ IsSettings(stored) /\ Fit(stored["profiles"]) /\ StoredIsPlain /\ SettingsTypeOK
           /\ editing \in [Devices -> Profiles \cup {Unset}]
           /\ removed \subseteq Profiles /\ misread \subseteq Profiles
           /\ orphaned \in BOOLEAN /\ unseen \in [Devices -> BOOLEAN]
<1>1. SettingsTypeOK /\ StoredIsPlain /\ ListsFit /\ SavesSendForm /\ ReadsFit
      BY DEF SettingsInv
<1>2. GoodData(data)
      BY <1>1 DEF SettingsTypeOK, ListsFit, GoodData
<1>3. GoodFetch(fetch)
  <2>1. fetch = [d \in Devices |-> fetch[d]]
        BY <1>1 DEF SettingsTypeOK
  <2>2. \A d \in Devices : fetch[d] \in {Unset, Asked} \/ IsSettings(fetch[d])
        BY <1>1 DEF SettingsTypeOK
  <2>3. \A d \in Devices : fetch[d] \in {Unset, Asked} \/ Fit(fetch[d]["profiles"])
        BY <1>1 DEF ListsFit
  <2>4. ASSUME NEW d \in Devices
        PROVE  fetch[d] \in {Unset, Asked} \/ (IsSettings(fetch[d]) /\ Fit(fetch[d]["profiles"]))
        BY <2>2, <2>3
  <2> QED BY <2>1, <2>4, Zenon DEF GoodFetch
<1>4. GoodChanges(changes, orphaned)
  <2>1. /\ changes = [d \in Devices |-> [k \in FormKeys |-> changes[d][k]]]
        /\ \A d \in Devices, k \in FormKeys : changes[d][k] = Unset \/ changes[d][k] \in Value(k)
        BY <1>1 DEF SettingsTypeOK
  <2>2. \A d \in Devices : changes[d]["profiles"] = Unset \/ Fit(changes[d]["profiles"])
        BY <1>1 DEF ListsFit, Fit, FitAt
  <2>3. \A d \in Devices : changes[d]["profiles"] = Unset \/ FitAt(changes[d]["profiles"], orphaned)
        BY <2>2 DEF Fit, FitAt
  <2> QED BY <2>1, <2>3, Zenon DEF GoodChanges
<1>5. GoodProfiles(profiles, orphaned)
      BY <1>1 DEF SettingsTypeOK, ListsFit, GoodProfiles, Fit, FitAt
<1>6. GoodReq(req)
  <2>1. req = [r \in Requests |-> req[r]] /\ \A r \in Requests : req[r] = Unset \/ IsRequest(req[r])
        BY <1>1 DEF SettingsTypeOK
  <2>2. \A r \in Requests : req[r] # Unset => FitRequest(req[r]) /\ SentForm(req[r]) /\ GotFits(req[r])
        BY <1>1 DEF ListsFit, SavesSendForm, ReadsFit
  <2>3. ASSUME NEW r \in Requests
        PROVE  req[r] = Unset \/ (IsRequest(req[r]) /\ FitRequest(req[r]) /\ SentForm(req[r]) /\ GotFits(req[r]))
        BY <2>1, <2>2
  <2> QED BY <2>1, <2>3, Zenon DEF GoodReq
<1>7. /\ IsSettings(stored) /\ Fit(stored["profiles"])
      /\ editing \in [Devices -> Profiles \cup {Unset}]
      /\ removed \subseteq Profiles /\ misread \subseteq Profiles
      /\ orphaned \in BOOLEAN /\ unseen \in [Devices -> BOOLEAN]
      BY <1>1 DEF SettingsTypeOK, ListsFit
<1> QED BY <1>1, <1>2, <1>3, <1>4, <1>5, <1>6, <1>7

LEMMA InvNext ==
    ASSUME SettingsInv, scope' = scope \/ \E kind : Click(kind),
           Grows, IsSettings(stored'), FitNext(stored'["profiles"]), StoredIsPlain',
           removed' \subseteq Profiles, misread' \subseteq Profiles, orphaned' \in BOOLEAN,
           unseen' \in [Devices -> BOOLEAN], editing' \in [Devices -> Profiles \cup {Unset}],
           GoodData(data'), GoodFetch(fetch'), GoodChanges(changes', orphaned'), GoodProfiles(profiles', orphaned'), GoodReq(req'),
           \A d \in Devices :
               \/ fetch'[d] = Asked \/ unseen'[d] \/ \E r \in Requests : Asks(d, req'[r])
               \/ (IF fetch'[d] = Unset THEN data'[d] ELSE fetch'[d]) = Masked(stored')
    PROVE  SettingsInv'
<1>1. SettingsTypeOK'
  <2>1. SettingsTypeOK
        BY DEF SettingsInv
  <2>2. data' = [d \in Devices |-> data'[d]] /\ \A d \in Devices : IsSettings(data'[d])
        BY DEF GoodData
  <2>3. /\ fetch' = [d \in Devices |-> fetch'[d]]
        /\ \A d \in Devices : fetch'[d] \in {Unset, Asked} \/ IsSettings(fetch'[d])
        BY DEF GoodFetch
  <2>4. /\ changes' = [d \in Devices |-> [k \in FormKeys |-> changes'[d][k]]]
        /\ \A d \in Devices, k \in FormKeys : changes'[d][k] = Unset \/ changes'[d][k] \in Value(k)
        BY DEF GoodChanges
  <2>5. profiles' \in [Devices -> Seq(Profile)]
        BY DEF GoodProfiles
  <2>6. req' = [r \in Requests |-> req'[r]] /\ \A r \in Requests : req'[r] = Unset \/ IsRequest(req'[r])
        BY DEF GoodReq
  <2> QED BY <2>1, <2>2, <2>3, <2>4, <2>5, <2>6, TypeNext
<1>2. ListsFit'
  <2>1. ASSUME NEW d \in Devices
        PROVE  /\ FitNext(data'[d]["profiles"]) /\ FitNext(profiles'[d])
               /\ fetch'[d] \in {Unset, Asked} \/ FitNext(fetch'[d]["profiles"])
               /\ changes'[d]["profiles"] = Unset \/ FitNext(changes'[d]["profiles"])
    <3>1. /\ Fit(data'[d]["profiles"])
          /\ fetch'[d] \in {Unset, Asked} \/ Fit(fetch'[d]["profiles"])
          BY DEF GoodData, GoodFetch
    <3>2. /\ FitAt(profiles'[d], orphaned')
          /\ changes'[d]["profiles"] = Unset \/ FitAt(changes'[d]["profiles"], orphaned')
          BY DEF GoodProfiles, GoodChanges
    <3> QED BY <3>1, <3>2, FitStays, FitAtStays
  <2>2. ASSUME NEW r \in Requests, req'[r] # Unset
        PROVE  /\ FitNext(req'[r].before["profiles"])
               /\ req'[r].part["profiles"] = Unset \/ FitNext(req'[r].part["profiles"])
    <3>1. FitRequest(req'[r])
          BY <2>2 DEF GoodReq
    <3>2. /\ Fit(req'[r].before["profiles"])
          /\ req'[r].part["profiles"] = Unset \/ Fit(req'[r].part["profiles"])
          BY <3>1 DEF FitRequest
    <3> QED BY <3>2, FitStays
  <2> QED BY <2>1, <2>2, ListsFitNext
<1>3. CopiesCurrent'
      BY CopiesNext
<1>4. SavesSendForm'
  <2>1. \A r \in Requests : req'[r] # Unset => SentForm(req'[r])
        BY DEF GoodReq
  <2> QED BY <2>1, SavesNext
<1>5. ReadsFit'
  <2>1. \A r \in Requests : req'[r] # Unset => GotFits(req'[r])
        BY DEF GoodReq
  <2>2. removed \subseteq removed' /\ misread \subseteq misread'
        BY DEF Grows
  <2> QED BY <2>1, <2>2, GotStays, ReadsNext
<1> QED BY <1>1, <1>2, <1>3, <1>4, <1>5 DEF SettingsInv

\* The same for an action that leaves the server alone.
LEMMA InvNextHere ==
    ASSUME SettingsInv, scope' = scope \/ \E kind : Click(kind),
           stored' = stored, removed' = removed, misread' = misread, orphaned => orphaned', orphaned' \in BOOLEAN,
           unseen' \in [Devices -> BOOLEAN], editing' \in [Devices -> Profiles \cup {Unset}],
           GoodData(data'), GoodFetch(fetch'), GoodChanges(changes', orphaned'), GoodProfiles(profiles', orphaned'), GoodReq(req'),
           \A d \in Devices :
               \/ fetch'[d] = Asked \/ unseen'[d] \/ \E r \in Requests : Asks(d, req'[r])
               \/ (IF fetch'[d] = Unset THEN data'[d] ELSE fetch'[d]) = Masked(stored)
    PROVE  SettingsInv'
<1>1. Grows
      BY DEF Grows
<1>2. IsSettings(stored') /\ removed' \subseteq Profiles /\ misread' \subseteq Profiles
      BY GoodNow
<1>3. FitNext(stored'["profiles"])
  <2>1. Fit(stored["profiles"])
        BY GoodNow
  <2> QED BY <1>1, <2>1, FitStays
<1>4. StoredIsPlain'
      BY GoodNow DEF StoredIsPlain, MasksKnown
<1>5. \A d \in Devices :
          \/ fetch'[d] = Asked \/ unseen'[d] \/ \E r \in Requests : Asks(d, req'[r])
          \/ (IF fetch'[d] = Unset THEN data'[d] ELSE fetch'[d]) = Masked(stored')
      OBVIOUS
<1> QED BY <1>1, <1>2, <1>3, <1>4, <1>5, InvNext

\* A request is told from the mark of a free slot.
LEMMA RequestIsNoMark ==
    ASSUME NEW q, IsRequest(q)
    PROVE  q # Unset
<1>1. q.part \in [Keys -> AnyValue \cup {Unset}]
  <2>1. \A k \in Keys : q.part[k] \in AnyValue \cup {Unset}
        BY DEF IsRequest, IsPart, AnyValue
  <2>2. q.part = [k \in Keys |-> q.part[k]]
        BY DEF IsRequest, IsPart
  <2> QED BY <2>1, <2>2
<1>2. q.before \in [Keys -> AnyValue]
      BY SettingsAreNoMark DEF IsRequest
<1>3. q.todo \subseteq Keys
      BY DEF IsRequest, Sends
<1>4. q.got \in {Unset, NoList} \cup Seq(Profile)
      BY DEF IsRequest
<1>5. q \in Request
      BY <1>1, <1>2, <1>3, <1>4 DEF IsRequest, Request
<1> QED BY <1>5, MarksAssumption

\* A request is added; the others stay.
LEMMA SendAdds ==
    ASSUME SettingsInv, NEW r \in Requests, NEW d \in Devices, NEW part,
           NEW kind \in {"toggle", "column", "save"}, Send(r, d, kind, part), IsPart(part),
           part["profiles"] = Unset \/ Fit(part["profiles"]),
           kind = "save" => \A k \in Keys : changes[d][k] = Unset \/ k \notin FormKeys
                                => part[k] = Effective(d, data[d])[k]
    PROVE  /\ GoodReq(req')
           /\ \A q \in Requests : req[q] # Unset => req'[q] = req[q]
           /\ req'[r] # Unset /\ req'[r].dev = d /\ req'[r].kind = kind
<1> DEFINE edited == {k \in FormKeys : changes[d][k] # Unset}
           new == [dev |-> d, kind |-> kind, part |-> part, before |-> data[d],
                   edited |-> edited, todo |-> Sends(part), got |-> Unset]
<1>1. /\ req = [q \in Requests |-> req[q]] /\ IsSettings(data[d])
      /\ \A q \in Requests : req[q] = Unset \/ IsRequest(req[q])
      BY DEF SettingsInv, SettingsTypeOK
<1>2. req[r] = Unset /\ req' = [req EXCEPT ![r] = new]
      BY DEF Send, FreeSlot
<1>3. edited \subseteq FormKeys
      OBVIOUS
<1>4. \A k \in Keys \ edited : changes[d][k] = Unset \/ k \notin FormKeys
      OBVIOUS
<1>5. new = [dev |-> d, kind |-> kind, part |-> part, before |-> data[d],
             edited |-> edited, todo |-> Sends(part), got |-> Unset]
      OBVIOUS
<1> HIDE DEF new, edited
<1>6. /\ new.dev = d /\ new.kind = kind /\ new.part = part /\ new.before = data[d]
      /\ new.edited = edited /\ new.todo = Sends(part) /\ new.got = Unset
      BY <1>5
<1>7. IsRequest(new)
      BY <1>1, <1>3, <1>5, <1>6 DEF IsRequest
<1>8. new # Unset
      BY <1>7, RequestIsNoMark
<1>9. FitRequest(new)
      BY <1>6 DEF FitRequest, SettingsInv, ListsFit
<1>10. SentForm(new) /\ GotFits(new)
      BY <1>4, <1>6 DEF SentForm, GotFits
<1>11. \A q \in Requests : req'[q] = IF q = r THEN new ELSE req[q]
      BY <1>1, <1>2
<1>12. req' = [q \in Requests |-> req'[q]]
      BY <1>1, <1>2
<1>13. \A q \in Requests : req[q] # Unset => FitRequest(req[q]) /\ SentForm(req[q]) /\ GotFits(req[q])
      BY DEF SettingsInv, ListsFit, SavesSendForm, ReadsFit
<1>14. ASSUME NEW q \in Requests
       PROVE  req'[q] = Unset \/ (IsRequest(req'[q]) /\ FitRequest(req'[q]) /\ SentForm(req'[q]) /\ GotFits(req'[q]))
  <2>1. CASE q = r
        BY <1>7, <1>9, <1>10, <1>11, <2>1
  <2>2. CASE q # r
        BY <1>1, <1>11, <1>13, <2>2
  <2> QED BY <2>1, <2>2
<1>15. GoodReq(req')
      BY <1>12, <1>14, Zenon DEF GoodReq
<1>16. \A q \in Requests : req[q] # Unset => req'[q] = req[q]
      BY <1>2, <1>11
<1> QED BY <1>6, <1>8, <1>11, <1>15, <1>16

\* A request ends; the others stay.
LEMMA SettledEnds ==
    ASSUME SettingsInv, NEW r \in Requests, NEW kind, Succeeded(r, kind) \/ Failed(r, kind)
    PROVE  /\ GoodReq(req') /\ req'[r] = Unset
           /\ \A q \in Requests : q # r => req'[q] = req[q]
           /\ req[r] # Unset /\ IsRequest(req[r]) /\ FitRequest(req[r])
           /\ req[r].kind = kind
<1>1. req = [q \in Requests |-> req[q]] /\ \A q \in Requests : req[q] = Unset \/ IsRequest(req[q])
      BY DEF SettingsInv, SettingsTypeOK
<1>2. /\ req[r] # Unset /\ req[r].kind = kind
      /\ req' = [req EXCEPT ![r] = Unset]
      BY DEF Succeeded, Failed
<1>3. \A q \in Requests : req'[q] = IF q = r THEN Unset ELSE req[q]
      BY <1>1, <1>2
<1>4. req' = [q \in Requests |-> req'[q]]
      BY <1>1, <1>2
<1>5. \A q \in Requests : req[q] # Unset => FitRequest(req[q]) /\ SentForm(req[q]) /\ GotFits(req[q])
      BY DEF SettingsInv, ListsFit, SavesSendForm, ReadsFit
<1>6. ASSUME NEW q \in Requests
      PROVE  req'[q] = Unset \/ (IsRequest(req'[q]) /\ FitRequest(req'[q]) /\ SentForm(req'[q]) /\ GotFits(req'[q]))
  <2>1. req'[q] = Unset \/ req'[q] = req[q]
        BY <1>3
  <2> QED BY <1>1, <1>5, <2>1
<1>7. GoodReq(req')
      BY <1>4, <1>6, Zenon DEF GoodReq
<1> QED BY <1>1, <1>2, <1>3, <1>5, <1>7

\* The cached copy of a device is set.
LEMMA DataSet ==
    ASSUME SettingsInv, NEW d \in Devices, NEW new, SetData(d, new),
           IsSettings(new), Fit(new["profiles"])
    PROVE  /\ GoodData(data') /\ GoodProfiles(profiles', orphaned) /\ data'[d] = new
           /\ \A e \in Devices : e # d => data'[e] = data[e]
<1>1. /\ data = [e \in Devices |-> data[e]] /\ profiles \in [Devices -> Seq(Profile)]
      /\ \A e \in Devices : IsSettings(data[e]) /\ Fit(data[e]["profiles"]) /\ Fit(profiles[e])
      BY DEF SettingsInv, SettingsTypeOK, ListsFit
<1>2. /\ data' = [data EXCEPT ![d] = new]
      /\ profiles' = [profiles EXCEPT ![d] = IF new["profiles"] = data[d]["profiles"]
                                             THEN profiles[d] ELSE new["profiles"]]
      BY DEF SetData
<1>3. new["profiles"] \in Seq(Profile)
      BY SettingsHold
<1> DEFINE list == IF new["profiles"] = data[d]["profiles"] THEN profiles[d] ELSE new["profiles"]
<1>4. list \in Seq(Profile) /\ Fit(list)
      BY <1>1, <1>3
<1>5. profiles' = [profiles EXCEPT ![d] = list]
      BY <1>2
<1> HIDE DEF list
<1>6. /\ data' = [e \in Devices |-> data'[e]]
      /\ \A e \in Devices : data'[e] = IF e = d THEN new ELSE data[e]
      BY <1>1, <1>2
<1>7. /\ profiles' \in [Devices -> Seq(Profile)]
      /\ \A e \in Devices : profiles'[e] = IF e = d THEN list ELSE profiles[e]
      BY <1>1, <1>4, <1>5
<1> QED BY <1>1, <1>4, <1>6, <1>7 DEF GoodData, GoodProfiles, Fit, FitAt

\* The query of a device is marked.
LEMMA FetchSet ==
    ASSUME SettingsInv, NEW d \in Devices, NEW mark \in {Unset, Asked}, fetch' = [fetch EXCEPT ![d] = mark]
    PROVE  /\ GoodFetch(fetch') /\ fetch'[d] = mark
           /\ \A e \in Devices : e # d => fetch'[e] = fetch[e]
<1>1. /\ fetch = [e \in Devices |-> fetch[e]]
      /\ \A e \in Devices : fetch[e] \in {Unset, Asked} \/ IsSettings(fetch[e])
      /\ \A e \in Devices : fetch[e] \in {Unset, Asked} \/ Fit(fetch[e]["profiles"])
      BY DEF SettingsInv, SettingsTypeOK, ListsFit
<1>2. \A e \in Devices : fetch'[e] = IF e = d THEN mark ELSE fetch[e]
      BY <1>1
<1>3. fetch' = [e \in Devices |-> fetch'[e]]
      BY <1>1
<1>4. ASSUME NEW e \in Devices
      PROVE  fetch'[e] \in {Unset, Asked} \/ (IsSettings(fetch'[e]) /\ Fit(fetch'[e]["profiles"]))
  <2>1. fetch'[e] \in {Unset, Asked} \/ fetch'[e] = fetch[e]
        BY <1>2
  <2> QED BY <1>1, <2>1
<1>5. GoodFetch(fetch')
      BY <1>3, <1>4, Zenon DEF GoodFetch
<1> QED BY <1>2, <1>5

\* The changes of the form are set.
LEMMA ChangesSet ==
    ASSUME SettingsInv, NEW d \in Devices, NEW k \in FormKeys, NEW v \in Value(k), Change(d, k, v),
           k = "profiles" => Fit(v)
    PROVE  GoodChanges(changes', orphaned)
<1>1. /\ changes = [e \in Devices |-> [i \in FormKeys |-> changes[e][i]]]
      /\ \A e \in Devices, i \in FormKeys : changes[e][i] = Unset \/ changes[e][i] \in Value(i)
      /\ \A e \in Devices : changes[e]["profiles"] = Unset \/ Fit(changes[e]["profiles"])
      BY DEF SettingsInv, SettingsTypeOK, ListsFit
<1>2. changes' = [changes EXCEPT ![d] = [changes[d] EXCEPT ![k] = v]]
      BY DEF Change
<1> DEFINE new == [changes[d] EXCEPT ![k] = v]
<1>3. changes[d] = [i \in FormKeys |-> changes[d][i]]
      BY <1>1
<1>4. /\ new = [i \in FormKeys |-> new[i]]
      /\ \A i \in FormKeys : new[i] = IF i = k THEN v ELSE changes[d][i]
      BY <1>3
<1> HIDE DEF new
<1>5. \A e \in Devices : changes'[e] = IF e = d THEN new ELSE changes[e]
      BY <1>1, <1>2 DEF new
<1>6. \A e \in Devices : changes'[e] = [i \in FormKeys |-> changes'[e][i]]
      BY <1>1, <1>4, <1>5
<1>7. changes' = [e \in Devices |-> changes'[e]]
      BY <1>1, <1>2
<1>8. \A e \in Devices, i \in FormKeys : changes'[e][i] = Unset \/ changes'[e][i] \in Value(i)
      BY <1>1, <1>4, <1>5
<1>9. \A e \in Devices : changes'[e]["profiles"] = Unset \/ Fit(changes'[e]["profiles"])
      BY <1>1, <1>4, <1>5, KeyFacts
<1> QED BY <1>6, <1>7, <1>8, <1>9 DEF GoodChanges, Fit, FitAt

\* The form is emptied.
LEMMA ChangesForgotten ==
    ASSUME SettingsInv, NEW d \in Devices, changes' = [changes EXCEPT ![d] = [k \in FormKeys |-> Unset]]
    PROVE  GoodChanges(changes', orphaned)
<1>1. /\ changes = [e \in Devices |-> [i \in FormKeys |-> changes[e][i]]]
      /\ \A e \in Devices, i \in FormKeys : changes[e][i] = Unset \/ changes[e][i] \in Value(i)
      /\ \A e \in Devices : changes[e]["profiles"] = Unset \/ Fit(changes[e]["profiles"])
      BY DEF SettingsInv, SettingsTypeOK, ListsFit
<1> DEFINE none == [k \in FormKeys |-> Unset]
<1>2. none = [i \in FormKeys |-> none[i]] /\ \A i \in FormKeys : none[i] = Unset
      OBVIOUS
<1> HIDE DEF none
<1>3. \A e \in Devices : changes'[e] = IF e = d THEN none ELSE changes[e]
      BY <1>1 DEF none
<1>4. changes' = [e \in Devices |-> changes'[e]]
      BY <1>1
<1>5. \A e \in Devices : changes'[e] = [i \in FormKeys |-> changes'[e][i]]
      BY <1>1, <1>2, <1>3
<1> QED BY <1>1, <1>2, <1>3, <1>4, <1>5, KeyFacts DEF GoodChanges, Fit, FitAt

-----------------------------------------------------------------------------
(* The query *)

LEMMA RefetchKeeps ==
    ASSUME SettingsInv, NEW d \in Devices, Refetch(d)
    PROVE  SettingsInv'
<1>1. fetch' = [fetch EXCEPT ![d] = Asked]
      BY DEF Refetch, Invalidate
<1>2. GoodFetch(fetch') /\ fetch'[d] = Asked /\ \A e \in Devices : e # d => fetch'[e] = fetch[e]
      BY <1>1, FetchSet
<1>3. \E kind : Click(kind)
      BY DEF Refetch
<1>4. UNCHANGED <<editing, orphaned, stored, data, changes, profiles, req, removed, misread, unseen>>
      BY DEF Refetch
<1>5. \A e \in Devices :
          \/ fetch'[e] = Asked \/ unseen'[e] \/ \E r \in Requests : Asks(e, req'[r])
          \/ (IF fetch'[e] = Unset THEN data'[e] ELSE fetch'[e]) = Masked(stored)
      BY <1>2, <1>4 DEF SettingsInv, CopiesCurrent
<1> QED BY <1>2, <1>3, <1>4, <1>5, GoodNow, InvNextHere

LEMMA ReadKeeps ==
    ASSUME SettingsInv, NEW d \in Devices, Read(d)
    PROVE  SettingsInv'
<1>1. /\ fetch' = [fetch EXCEPT ![d] = Masked(stored)] /\ unseen' = [unseen EXCEPT ![d] = FALSE]
      /\ UNCHANGED <<editing, orphaned, stored, data, changes, profiles, req, removed, misread, scope>>
      BY DEF Read
<1>2. IsSettings(Masked(stored)) /\ Fit(Masked(stored)["profiles"])
      BY GoodNow, AnswerIs
<1>3. Masked(stored) # Unset
      BY <1>2, SettingsAreNoMark
<1>4. fetch = [e \in Devices |-> fetch[e]] /\ unseen \in [Devices -> BOOLEAN]
      BY GoodNow DEF GoodFetch
<1>5. /\ \A e \in Devices : fetch'[e] = IF e = d THEN Masked(stored) ELSE fetch[e]
      /\ fetch' = [e \in Devices |-> fetch'[e]]
      BY <1>1, <1>4
<1>6. \A e \in Devices : e # d => unseen'[e] = unseen[e]
      BY <1>1, <1>4
<1>7. unseen' \in [Devices -> BOOLEAN]
      BY <1>1, <1>4
<1>8. GoodFetch(fetch')
  <2>1. GoodFetch(fetch)
        BY GoodNow
  <2>2. ASSUME NEW e \in Devices
        PROVE  fetch'[e] \in {Unset, Asked} \/ (IsSettings(fetch'[e]) /\ Fit(fetch'[e]["profiles"]))
    <3>1. CASE e = d
          BY <1>2, <1>5, <3>1
    <3>2. CASE e # d
          BY <1>5, <2>1, <3>2 DEF GoodFetch
    <3> QED BY <3>1, <3>2
  <2> QED BY <1>5, <2>2, Zenon DEF GoodFetch
<1>9. ASSUME NEW e \in Devices
      PROVE  \/ fetch'[e] = Asked \/ unseen'[e] \/ \E r \in Requests : Asks(e, req'[r])
             \/ (IF fetch'[e] = Unset THEN data'[e] ELSE fetch'[e]) = Masked(stored)
  <2>1. CASE e = d
        BY <1>3, <1>5, <2>1
  <2>2. CASE e # d
        BY <1>1, <1>5, <1>6, <2>2 DEF SettingsInv, CopiesCurrent
  <2> QED BY <2>1, <2>2
<1> QED BY <1>1, <1>7, <1>8, <1>9, GoodNow, InvNextHere

LEMMA ReadFailsKeeps ==
    ASSUME SettingsInv, NEW d \in Devices, ReadFails(d)
    PROVE  SettingsInv'
<1>1. /\ fetch' = [fetch EXCEPT ![d] = Unset] /\ unseen' = [unseen EXCEPT ![d] = TRUE]
      /\ UNCHANGED <<editing, orphaned, stored, data, changes, profiles, req, removed, misread>>
      /\ \E kind : Click(kind)
      BY DEF ReadFails
<1>2. GoodFetch(fetch') /\ \A e \in Devices : e # d => fetch'[e] = fetch[e]
      BY <1>1, FetchSet
<1>3. /\ unseen' \in [Devices -> BOOLEAN] /\ unseen'[d] = TRUE
      /\ \A e \in Devices : e # d => unseen'[e] = unseen[e]
      BY <1>1, GoodNow
<1>4. \A e \in Devices :
          \/ fetch'[e] = Asked \/ unseen'[e] \/ \E r \in Requests : Asks(e, req'[r])
          \/ (IF fetch'[e] = Unset THEN data'[e] ELSE fetch'[e]) = Masked(stored)
      BY <1>1, <1>2, <1>3 DEF SettingsInv, CopiesCurrent
<1> QED BY <1>1, <1>2, <1>3, <1>4, GoodNow, InvNextHere

LEMMA ReceiveKeeps ==
    ASSUME SettingsInv, NEW d \in Devices, Receive(d)
    PROVE  SettingsInv'
<1>1. /\ fetch[d] \notin {Unset, Asked} /\ SetData(d, fetch[d])
      /\ fetch' = [fetch EXCEPT ![d] = Unset]
      /\ UNCHANGED <<editing, orphaned, stored, changes, req, removed, misread, unseen, scope>>
      BY DEF Receive
<1>2. IsSettings(fetch[d]) /\ Fit(fetch[d]["profiles"])
      BY <1>1, GoodNow DEF GoodFetch
<1>3. /\ GoodData(data') /\ GoodProfiles(profiles', orphaned) /\ data'[d] = fetch[d]
      /\ \A e \in Devices : e # d => data'[e] = data[e]
      BY <1>1, <1>2, DataSet
<1>4. GoodFetch(fetch') /\ fetch'[d] = Unset /\ \A e \in Devices : e # d => fetch'[e] = fetch[e]
      BY <1>1, FetchSet
<1>5. ASSUME NEW e \in Devices
      PROVE  \/ fetch'[e] = Asked \/ unseen'[e] \/ \E r \in Requests : Asks(e, req'[r])
             \/ (IF fetch'[e] = Unset THEN data'[e] ELSE fetch'[e]) = Masked(stored)
  <2>1. CASE e = d
        BY <1>1, <1>3, <1>4, <2>1 DEF SettingsInv, CopiesCurrent
  <2>2. CASE e # d
        BY <1>1, <1>3, <1>4, <2>2 DEF SettingsInv, CopiesCurrent
  <2> QED BY <2>1, <2>2
<1> QED BY <1>1, <1>3, <1>4, <1>5, GoodNow, InvNextHere

-----------------------------------------------------------------------------
(* The layout and the tables *)

\* A part of a map with one key.
LEMMA OneKey ==
    ASSUME NEW k \in Keys, NEW v \in Value(k)
    PROVE  /\ IsPart(Only(k, v)) /\ Only(k, v)[k] = v
           /\ \A j \in Keys : j # k => Only(k, v)[j] = Unset
<1>1. \A j \in Keys : Only(k, v)[j] = IF j = k THEN v ELSE Unset
      BY DEF Only
<1>2. Only(k, v) = [j \in Keys |-> Only(k, v)[j]]
      BY DEF Only
<1> QED BY <1>1, <1>2 DEF IsPart

LEMMA MergedIs ==
    ASSUME NEW s, IsSettings(s), NEW part, IsPart(part), part["profiles"] = Unset
    PROVE  IsSettings(Merge(s, part)) /\ Merge(s, part)["profiles"] = s["profiles"]
<1> DEFINE m == Merge(s, part)
<1>1. \A k \in Keys : m[k] = IF part[k] = Unset THEN s[k] ELSE part[k]
      BY DEF Merge
<1>2. m = [k \in Keys |-> m[k]]
      BY DEF Merge
<1> HIDE DEF m
<1>3. \A k \in Keys : m[k] \in Value(k)
      BY <1>1 DEF IsSettings, IsPart
<1>4. IsSettings(m)
      BY <1>2, <1>3 DEF IsSettings
<1>5. m["profiles"] = s["profiles"]
      BY <1>1, KeyFacts
<1> QED BY <1>4, <1>5 DEF m

LEMMA OptimisticKeeps ==
    ASSUME SettingsInv, NEW r \in Requests, NEW d \in Devices, NEW part,
           IsPart(part), part["profiles"] = Unset, Optimistic(r, d, part)
    PROVE  SettingsInv'
<1>1. /\ Send(r, d, "toggle", part) /\ SetData(d, Merge(data[d], part))
      /\ fetch' = [fetch EXCEPT ![d] = Unset]
      /\ UNCHANGED <<editing, orphaned, stored, changes, removed, misread, unseen>>
      BY DEF Optimistic
<1>2. /\ GoodReq(req') /\ \A q \in Requests : req[q] # Unset => req'[q] = req[q]
      /\ req'[r] # Unset /\ req'[r].dev = d /\ req'[r].kind = "toggle"
      BY <1>1, SendAdds
<1>3. IsSettings(data[d]) /\ Fit(data[d]["profiles"])
      BY GoodNow DEF GoodData
<1>4. IsSettings(Merge(data[d], part)) /\ Fit(Merge(data[d], part)["profiles"])
      BY <1>3, MergedIs
<1>5. /\ GoodData(data') /\ GoodProfiles(profiles', orphaned)
      /\ \A e \in Devices : e # d => data'[e] = data[e]
      BY <1>1, <1>4, DataSet
<1>6. GoodFetch(fetch') /\ \A e \in Devices : e # d => fetch'[e] = fetch[e]
      BY <1>1, FetchSet
<1>7. ASSUME NEW e \in Devices
      PROVE  \/ fetch'[e] = Asked \/ unseen'[e] \/ \E q \in Requests : Asks(e, req'[q])
             \/ (IF fetch'[e] = Unset THEN data'[e] ELSE fetch'[e]) = Masked(stored)
  <2>1. CASE e = d
        BY <1>2, <2>1 DEF Asks
  <2>2. CASE e # d
    <3>1. \A q \in Requests : Asks(e, req[q]) => Asks(e, req'[q])
          BY <1>2 DEF Asks
    <3> QED BY <1>1, <1>5, <1>6, <2>2, <3>1 DEF SettingsInv, CopiesCurrent
  <2> QED BY <2>1, <2>2
<1>8. \E kind : Click(kind)
      BY DEF Optimistic
<1> QED BY <1>1, <1>2, <1>5, <1>6, <1>7, <1>8, GoodNow, InvNextHere

LEMMA CycleThemeKeeps ==
    ASSUME SettingsInv, NEW r \in Requests, NEW d \in Devices, CycleTheme(r, d)
    PROVE  SettingsInv'
<1> DEFINE v == (data[d]["theme"] + 1) % 3
           part == Only("theme", v)
<1>1. data[d]["theme"] \in 0..2
      BY GoodNow, SettingsHold DEF GoodData
<1>2. v \in Value("theme")
      BY <1>1, ValueFacts
<1>3. Optimistic(r, d, part)
      BY DEF CycleTheme
<1> HIDE DEF v
<1>4. IsPart(part) /\ part["profiles"] = Unset
      BY <1>2, OneKey, KeyFacts
<1> HIDE DEF part
<1> QED BY <1>3, <1>4, OptimisticKeeps

LEMMA SideIs ==
    ASSUME SettingsInv, NEW d \in Devices
    PROVE  Effective(d, data[d])["side"] \in {0, 1}
<1>1. IsSettings(data[d])
      BY GoodNow DEF GoodData
<1>2. data[d]["side"] \in {0, 1} /\ data[d][d] \in {0, 1, Unset} /\ data[d] = [k \in Keys |-> data[d][k]]
      BY <1>1, SettingsHold DEF IsSettings
<1> QED BY <1>2, KeyFacts DEF Effective, Own

LEMMA ToggleSidebarKeeps ==
    ASSUME SettingsInv, NEW r \in Requests, NEW d \in Devices, ToggleSidebar(r, d)
    PROVE  SettingsInv'
<1> DEFINE v == 1 - Effective(d, data[d])["side"]
           part == Only(Own(d), v)
<1>1. v \in {0, 1}
      BY SideIs
<1>2. v \in Value(Own(d)) /\ Own(d) \in Keys /\ Own(d) # "profiles" /\ "profiles" \in Keys
      BY <1>1, ValueFacts, KeyFacts
<1>3. Optimistic(r, d, part)
      BY DEF ToggleSidebar
<1> HIDE DEF v
<1>a. IsPart(part)
      BY <1>2, OneKey
<1>b. part["profiles"] = Unset
      BY <1>2, OneKey
<1>4. IsPart(part) /\ part["profiles"] = Unset
      BY <1>a, <1>b
<1> HIDE DEF part
<1> QED BY <1>3, <1>4, OptimisticKeeps

LEMMA ToggleColumnKeeps ==
    ASSUME SettingsInv, NEW r \in Requests, NEW d \in Devices, ToggleColumn(r, d)
    PROVE  SettingsInv'
<1>1. PICK v \in {0, 1} : Send(r, d, "column", Only(Own(d), v))
      BY DEF ToggleColumn
<1> DEFINE part == Only(Own(d), v)
<1>2. v \in Value(Own(d)) /\ Own(d) \in Keys /\ Own(d) # "profiles" /\ "profiles" \in Keys
      BY ValueFacts, KeyFacts
<1>a. IsPart(part)
      BY <1>2, OneKey
<1>b. part["profiles"] = Unset
      BY <1>2, OneKey
<1>3. IsPart(part) /\ part["profiles"] = Unset
      BY <1>a, <1>b
<1>4. /\ UNCHANGED <<editing, orphaned, stored, data, fetch, changes, profiles, removed, misread, unseen>>
      /\ \E kind : Click(kind)
      BY DEF ToggleColumn
<1>5. Send(r, d, "column", part)
      BY <1>1
<1> HIDE DEF part
<1>6. GoodReq(req') /\ \A q \in Requests : req[q] # Unset => req'[q] = req[q]
      BY <1>3, <1>5, SendAdds
<1>7. \A e \in Devices, q \in Requests : Asks(e, req[q]) => Asks(e, req'[q])
      BY <1>6 DEF Asks
<1>8. \A e \in Devices :
          \/ fetch'[e] = Asked \/ unseen'[e] \/ \E q \in Requests : Asks(e, req'[q])
          \/ (IF fetch'[e] = Unset THEN data'[e] ELSE fetch'[e]) = Masked(stored)
      BY <1>4, <1>7 DEF SettingsInv, CopiesCurrent
<1> QED BY <1>4, <1>6, <1>8, GoodNow, InvNextHere

-----------------------------------------------------------------------------
(* The settings page *)

LEMMA EffectiveIs ==
    ASSUME NEW d \in Devices, NEW s, IsSettings(s)
    PROVE  /\ IsSettings(Effective(d, s))
           /\ \A k \in Keys \ {"side"} : Effective(d, s)[k] = s[k]
<1>1. s = [k \in Keys |-> s[k]] /\ \A k \in Keys : s[k] \in Value(k)
      BY DEF IsSettings
<1>2. s["side"] \in {0, 1} /\ s[d] \in {0, 1, Unset}
      BY SettingsHold
<1> DEFINE v == IF s[Own(d)] = Unset THEN s["side"] ELSE s[Own(d)]
<1>3. v \in {0, 1}
      BY <1>2, KeyFacts
<1>4. Effective(d, s) = [s EXCEPT !["side"] = v]
      BY DEF Effective
<1> HIDE DEF v
<1>5. \A k \in Keys : Effective(d, s)[k] = IF k = "side" THEN v ELSE s[k]
      BY <1>1, <1>4
<1>6. Effective(d, s) = [k \in Keys |-> Effective(d, s)[k]]
      BY <1>1, <1>4
<1>7. \A k \in Keys : Effective(d, s)[k] \in Value(k)
      BY <1>1, <1>3, <1>5, ValueFacts
<1> QED BY <1>5, <1>6, <1>7 DEF IsSettings

LEMMA ParamsAre ==
    ASSUME SettingsInv, NEW d \in Devices
    PROVE  /\ IsSettings(Params(d)) /\ Fit(Params(d)["profiles"])
           /\ \A k \in Keys : changes[d][k] = Unset \/ k \notin FormKeys
                                  => Params(d)[k] = Effective(d, data[d])[k]
<1>1. IsSettings(data[d]) /\ Fit(data[d]["profiles"])
      BY GoodNow DEF GoodData
<1>2. /\ IsSettings(Effective(d, data[d]))
      /\ \A k \in Keys \ {"side"} : Effective(d, data[d])[k] = data[d][k]
      BY <1>1, EffectiveIs
<1>3. GoodChanges(changes, orphaned)
      BY GoodNow
<1>4. \A k \in Keys : Params(d)[k] = IF k \in FormKeys /\ changes[d][k] # Unset
                                     THEN changes[d][k] ELSE Effective(d, data[d])[k]
      BY DEF Params
<1>5. Params(d) = [k \in Keys |-> Params(d)[k]]
      BY DEF Params
<1>6. ASSUME NEW k \in Keys PROVE Params(d)[k] \in Value(k)
      BY <1>2, <1>3, <1>4 DEF GoodChanges, IsSettings
<1>7. Fit(Params(d)["profiles"])
  <2>1. changes[d]["profiles"] = Unset \/ Fit(changes[d]["profiles"])
        BY <1>3 DEF GoodChanges, FitAt, Fit
  <2>2. "profiles" \in Keys \ {"side"}
        BY KeyFacts
  <2>3. \/ Params(d)["profiles"] = changes[d]["profiles"] /\ changes[d]["profiles"] # Unset
        \/ Params(d)["profiles"] = data[d]["profiles"]
        BY <1>2, <1>4, <2>2
  <2> QED BY <1>1, <2>1, <2>3
<1> QED BY <1>4, <1>5, <1>6, <1>7 DEF IsSettings

\* The form or the field that is open, and nothing that is sent or cached.
LEMMA FormKeeps ==
    ASSUME SettingsInv, scope' = scope \/ \E kind : Click(kind),
           UNCHANGED <<stored, data, fetch, req, removed, misread, unseen>>,
           orphaned => orphaned', orphaned' \in BOOLEAN,
           editing' \in [Devices -> Profiles \cup {Unset}], 
           GoodChanges(changes', orphaned'), GoodProfiles(profiles', orphaned')
    PROVE  SettingsInv'
<1>1. \A e \in Devices :
          \/ fetch'[e] = Asked \/ unseen'[e] \/ \E q \in Requests : Asks(e, req'[q])
          \/ (IF fetch'[e] = Unset THEN data'[e] ELSE fetch'[e]) = Masked(stored)
      BY DEF SettingsInv, CopiesCurrent
<1> QED BY <1>1, GoodNow, InvNextHere

LEMMA EditFieldKeeps ==
    ASSUME SettingsInv, NEW d \in Devices, EditField(d)
    PROVE  SettingsInv'
<1> DEFINE v == (Params(d)["theme"] + 1) % 3
<1>1. Params(d)["theme"] \in 0..2
      BY ParamsAre, SettingsHold
<1>2. v \in Value("theme")
      BY <1>1, ValueFacts
<1>3. Change(d, "theme", v)
      BY DEF EditField
<1> HIDE DEF v
<1>4. GoodChanges(changes', orphaned)
  <2>1. "theme" \in FormKeys /\ "theme" # "profiles"
        BY KeyFacts
  <2> QED BY <1>2, <1>3, <2>1, ChangesSet
<1>5. /\ \E kind : Click(kind)
      /\ UNCHANGED <<stored, data, fetch, profiles, editing, req, removed, misread, orphaned, unseen>>
      BY DEF EditField
<1> QED BY <1>4, <1>5, GoodNow, FormKeeps

LEMMA EditSecretKeeps ==
    ASSUME SettingsInv, NEW d \in Devices, EditSecret(d)
    PROVE  SettingsInv'
<1>1. Change(d, "secret", 1) /\ 1 \in Value("secret")
      BY ValueFacts DEF EditSecret
<1>2. GoodChanges(changes', orphaned)
  <2>1. "secret" \in FormKeys /\ "secret" # "profiles"
        BY KeyFacts
  <2> QED BY <1>1, <2>1, ChangesSet
<1>3. /\ \E kind : Click(kind)
      /\ UNCHANGED <<stored, data, fetch, profiles, editing, req, removed, misread, orphaned, unseen>>
      BY DEF EditSecret
<1> QED BY <1>2, <1>3, GoodNow, FormKeeps

LEMMA StartEditKeeps ==
    ASSUME SettingsInv, NEW d \in Devices, StartEdit(d)
    PROVE  SettingsInv'
<1>1. PICK id \in Ids(profiles[d]) : editing' = [editing EXCEPT ![d] = id]
      BY DEF StartEdit
<1>2. profiles[d] \in Seq(Profile)
      BY GoodNow DEF GoodProfiles
<1>3. id \in Profiles
      BY <1>2, ListTypes DEF Ids
<1>4. editing' \in [Devices -> Profiles \cup {Unset}]
      BY <1>1, <1>3, GoodNow
<1>5. /\ \E kind : Click(kind)
      /\ UNCHANGED <<stored, data, fetch, changes, profiles, req, removed, misread, orphaned, unseen>>
      BY DEF StartEdit
<1> QED BY <1>4, <1>5, GoodNow, FormKeeps

LEMMA CancelEditKeeps ==
    ASSUME SettingsInv, NEW d \in Devices, CancelEdit(d)
    PROVE  SettingsInv'
<1>1. editing' \in [Devices -> Profiles \cup {Unset}]
      BY GoodNow DEF CancelEdit
<1>2. UNCHANGED <<stored, data, fetch, changes, profiles, req, removed, misread, orphaned, unseen, scope>>
      BY DEF CancelEdit
<1> QED BY <1>1, <1>2, GoodNow, FormKeeps

LEMMA SetProfilesKeeps ==
    ASSUME SettingsInv, NEW d \in Devices, NEW list \in Seq(Profile), SetProfiles(d, list),
           orphaned => orphaned', orphaned' \in BOOLEAN,
           FitTo(list, Ids(stored["profiles"]), removed, orphaned'),
           editing' \in [Devices -> Profiles \cup {Unset}]
    PROVE  SettingsInv'
<1>1. /\ profiles' = [profiles EXCEPT ![d] = list] /\ Change(d, "profiles", list)
      /\ UNCHANGED <<stored, data, fetch, req, removed, misread, unseen>> /\ \E kind : Click(kind)
      BY DEF SetProfiles
<1>2. GoodProfiles(profiles, orphaned) /\ GoodChanges(changes, orphaned)
      BY GoodNow
<1>3. ASSUME NEW l, FitAt(l, orphaned) PROVE FitAt(l, orphaned')
      BY <1>3, FitGrows DEF FitAt
<1>4. FitAt(list, orphaned')
      BY DEF FitAt
<1>5. profiles \in [Devices -> Seq(Profile)] /\ \A e \in Devices : FitAt(profiles[e], orphaned')
      BY <1>2, <1>3 DEF GoodProfiles
<1>6. GoodProfiles(profiles', orphaned')
  <2>1. \A e \in Devices : profiles'[e] = IF e = d THEN list ELSE profiles[e]
        BY <1>1, <1>5
  <2>2. profiles' \in [Devices -> Seq(Profile)]
        BY <1>1, <1>5
  <2>3. ASSUME NEW e \in Devices PROVE FitAt(profiles'[e], orphaned')
        BY <1>4, <1>5, <2>1
  <2> QED BY <2>2, <2>3 DEF GoodProfiles
<1>7. GoodChanges(changes', orphaned')
  <2>1. changes' = [changes EXCEPT ![d] = [changes[d] EXCEPT !["profiles"] = list]]
        BY <1>1 DEF Change
  <2> DEFINE new == [changes[d] EXCEPT !["profiles"] = list]
  <2>2. changes = [e \in Devices |-> [i \in FormKeys |-> changes[e][i]]]
        BY <1>2 DEF GoodChanges
  <2>3. changes[d] = [i \in FormKeys |-> changes[d][i]]
        BY <2>2
  <2>4. /\ new = [i \in FormKeys |-> new[i]]
        /\ \A i \in FormKeys : new[i] = IF i = "profiles" THEN list ELSE changes[d][i]
        BY <2>3
  <2> HIDE DEF new
  <2>5. \A e \in Devices : changes'[e] = IF e = d THEN new ELSE changes[e]
        BY <2>1, <2>2 DEF new
  <2>6. changes' = [e \in Devices |-> changes'[e]]
        BY <2>1, <2>2
  <2>7. \A e \in Devices : changes'[e] = [i \in FormKeys |-> changes'[e][i]]
        BY <2>2, <2>4, <2>5
  <2>8. ASSUME NEW e \in Devices, NEW i \in FormKeys
        PROVE  changes'[e][i] = Unset \/ changes'[e][i] \in Value(i)
    <3>1. changes[e][i] = Unset \/ changes[e][i] \in Value(i)
          BY <1>2 DEF GoodChanges
    <3>2. list \in Value("profiles")
          BY ValueFacts
    <3> QED BY <2>4, <2>5, <3>1, <3>2
  <2>9. ASSUME NEW e \in Devices
        PROVE  changes'[e]["profiles"] = Unset \/ FitAt(changes'[e]["profiles"], orphaned')
    <3>1. changes[e]["profiles"] = Unset \/ FitAt(changes[e]["profiles"], orphaned')
          BY <1>2, <1>3 DEF GoodChanges
    <3>2. "profiles" \in FormKeys
          BY KeyFacts
    <3> QED BY <1>4, <2>4, <2>5, <3>1, <3>2
  <2>10. changes' = [e \in Devices |-> [i \in FormKeys |-> changes'[e][i]]]
        BY <2>6, <2>7
  <2> QED BY <2>8, <2>9, <2>10, Zenon DEF GoodChanges
<1> QED BY <1>1, <1>6, <1>7, FormKeeps

LEMMA ListFits ==
    ASSUME SettingsInv, NEW d \in Devices
    PROVE  /\ profiles[d] \in Seq(Profile)
           /\ Named(profiles[d], Ids(stored["profiles"]), removed) /\ FewActive(profiles[d])
           /\ FitTo(profiles[d], Ids(stored["profiles"]), removed, orphaned)
BY GoodNow DEF GoodProfiles, FitAt, FitTo

LEMMA AddProfileKeeps ==
    ASSUME SettingsInv, NEW d \in Devices, AddProfile(d)
    PROVE  SettingsInv'
<1>1. PICK id \in Profiles : \E active \in BOOLEAN :
          LET list == Append(profiles[d], [id |-> id, token |-> "typed", active |-> active]) IN
          /\ id \notin Ids(profiles[d])
          /\ SetProfiles(d, IF active THEN OnlyActive(list, id) ELSE WithActive(list))
      BY DEF AddProfile
<1>2. PICK active \in BOOLEAN :
          LET list == Append(profiles[d], [id |-> id, token |-> "typed", active |-> active]) IN
          /\ id \notin Ids(profiles[d])
          /\ SetProfiles(d, IF active THEN OnlyActive(list, id) ELSE WithActive(list))
      BY <1>1
<1> DEFINE p == [id |-> id, token |-> "typed", active |-> active]
           list == Append(profiles[d], p)
           here == Ids(stored["profiles"])
<1>4. /\ (active = TRUE => SetProfiles(d, OnlyActive(list, id)))
      /\ (active = FALSE => SetProfiles(d, WithActive(list)))
      BY <1>2
<1>0. p \in Profile /\ p.id = id /\ p.token = "typed" /\ p.active = active /\ id \notin Ids(profiles[d])
      BY <1>2 DEF Profile
<1> HIDE DEF p
<1>3. /\ list \in Seq(Profile) /\ Named(list, here, removed) /\ (active = FALSE => FewActive(list))
      /\ \E i \in DOMAIN list : list[i].id = id
  <2>1. /\ profiles[d] \in Seq(Profile) /\ Named(profiles[d], here, removed) /\ FewActive(profiles[d])
        BY ListFits
  <2> QED BY <1>0, <2>1, AppendFits
<1> HIDE DEF list
<1>5. orphaned' = orphaned /\ editing' = [editing EXCEPT ![d] = Unset] /\ orphaned' \in BOOLEAN
      BY GoodNow DEF AddProfile
<1>6. editing' \in [Devices -> Profiles \cup {Unset}]
      BY <1>5, GoodNow
<1>7. CASE active = TRUE
  <2>1. OnlyActive(list, id) \in Seq(Profile) /\ FitTo(OnlyActive(list, id), here, removed, orphaned')
        BY <1>3, OnlyActiveFits
  <2> QED BY <1>4, <1>5, <1>6, <1>7, <2>1, SetProfilesKeeps
<1>8. CASE active = FALSE
  <2>1. WithActive(list) \in Seq(Profile) /\ FitTo(WithActive(list), here, removed, orphaned')
        BY <1>3, <1>8, WithActiveFits
  <2> QED BY <1>4, <1>5, <1>6, <1>8, <2>1, SetProfilesKeeps
<1> QED BY <1>7, <1>8

\* The form of a profile: its token and whether it is active.
LEMMA EditFits ==
    ASSUME SettingsInv, NEW d \in Devices, NEW retype \in BOOLEAN, NEW active \in BOOLEAN
    PROVE  /\ Edited(profiles[d], editing[d], retype, active) \in Seq(Profile)
           /\ Ids(Edited(profiles[d], editing[d], retype, active)) = Ids(profiles[d])
           /\ Named(Edited(profiles[d], editing[d], retype, active), Ids(stored["profiles"]), removed)
           /\ active = FALSE => FewActive(Edited(profiles[d], editing[d], retype, active))
<1> DEFINE list == profiles[d]
           id == editing[d]
           here == Ids(stored["profiles"])
           gone == removed
<1>0. list \in Seq(Profile) /\ Named(list, here, gone) /\ FewActive(list)
      BY ListFits
<1> HIDE DEF list, id, here, gone
<1> DEFINE new == Edited(list, id, retype, active)
<1>1. ASSUME NEW i \in DOMAIN list
      PROVE  /\ new[i] \in Profile /\ new[i].id = list[i].id
             /\ new[i].token \in {"retyped", list[i].token}
             /\ active = FALSE /\ new[i].active = TRUE => list[i].active = TRUE
  <2>1. list[i] \in Profile /\ list[i].id \in Profiles /\ list[i].token \in {"typed", "retyped", Mask, "lost"}
        BY <1>0, ListTypes
  <2>2. CASE list[i].id # id
    <3>1. new[i] = list[i]
          BY <2>2 DEF Edited
    <3> QED BY <2>1, <3>1
  <2>3. CASE list[i].id = id
    <3> DEFINE t == IF retype THEN "retyped" ELSE list[i].token
    <3>1. new[i] = [id |-> id, token |-> t, active |-> active]
          BY <2>3 DEF Edited
    <3>2. t \in {"retyped", list[i].token}
          OBVIOUS
    <3> HIDE DEF t
    <3>3. new[i].id = list[i].id /\ new[i].token = t /\ new[i].active = active
          BY <2>3, <3>1
    <3>4. new[i] \in Profile
          BY <2>1, <2>3, <3>1, <3>2 DEF Profile
    <3> QED BY <3>2, <3>3, <3>4
  <2> QED BY <2>2, <2>3
<1>2. new = [i \in DOMAIN list |-> new[i]]
      BY DEF Edited
<1>3. new \in Seq(Profile) /\ DOMAIN new = DOMAIN list
      BY <1>0, <1>1, <1>2, MadeList
<1>4. Ids(new) = Ids(list)
  <2>1. \A i \in DOMAIN list : new[i].id = list[i].id
        BY <1>1
  <2> QED BY <1>3, <2>1 DEF Ids
<1>5. ASSUME NEW i \in DOMAIN new
      PROVE  /\ new[i].token = "lost" => list[i].token = "lost"
             /\ new[i].token = Mask => list[i].token = Mask
  <2>1. new[i].token = "retyped" \/ new[i].token = list[i].token
        BY <1>1, <1>3
  <2> QED BY <2>1, MarksAssumption
<1>6. Named(new, here, gone)
  <2>4. \A i \in DOMAIN new : i \in DOMAIN list /\ new[i].id = list[i].id
        BY <1>1, <1>3
  <2>5. Named(list, here, gone)
        BY <1>0
  <2>1. \A i, j \in DOMAIN new : new[i].id = new[j].id => i = j
        BY <2>4, <2>5, Zenon DEF Named
  <2> HIDE DEF Edited
  <2>6. \A i \in DOMAIN new : (new[i].token = "lost" => new[i].id \in gone)
                             /\ (new[i].token = Mask => new[i].id \in here \cup gone)
        BY <1>5, <2>4, <2>5, Zenon DEF Named
  <2> QED BY <2>1, <2>6 DEF Named
<1>7. active = FALSE => FewActive(new)
      BY <1>0, <1>1, <1>3 DEF FewActive
<1> HIDE DEF new
<1>8. new = Edited(profiles[d], editing[d], retype, active)
      BY DEF new, list, id
<1> QED BY <1>3, <1>4, <1>6, <1>7, <1>8 DEF list, here, gone

LEMMA EditProfileKeeps ==
    ASSUME SettingsInv, NEW d \in Devices, EditProfile(d)
    PROVE  SettingsInv'
<1> DEFINE id == editing[d]
           here == Ids(stored["profiles"])
<1>1. PICK retype \in BOOLEAN : \E active \in BOOLEAN :
          SetProfiles(d, IF active THEN OnlyActive(Edited(profiles[d], id, retype, active), id)
                         ELSE WithActive(Edited(profiles[d], id, retype, active)))
      BY DEF EditProfile
<1>2. PICK active \in BOOLEAN :
          SetProfiles(d, IF active THEN OnlyActive(Edited(profiles[d], id, retype, active), id)
                         ELSE WithActive(Edited(profiles[d], id, retype, active)))
      BY <1>1
<1> DEFINE list == Edited(profiles[d], id, retype, active)
<1>4. /\ (active = TRUE => SetProfiles(d, OnlyActive(list, id)))
      /\ (active = FALSE => SetProfiles(d, WithActive(list)))
      BY <1>2
<1> HIDE DEF list, id
<1>3. /\ list \in Seq(Profile) /\ Ids(list) = Ids(profiles[d])
      /\ Named(list, here, removed) /\ (active = FALSE => FewActive(list))
  <2>1. /\ Edited(profiles[d], editing[d], retype, active) \in Seq(Profile)
        /\ Ids(Edited(profiles[d], editing[d], retype, active)) = Ids(profiles[d])
        /\ Named(Edited(profiles[d], editing[d], retype, active), Ids(stored["profiles"]), removed)
        /\ active = FALSE => FewActive(Edited(profiles[d], editing[d], retype, active))
        BY EditFits
  <2> QED BY <2>1 DEF list, id
<1>5. /\ orphaned' = (orphaned \/ id \notin Ids(profiles[d]))
      /\ editing' = [editing EXCEPT ![d] = Unset] /\ orphaned \in BOOLEAN
      BY GoodNow DEF EditProfile, id
<1>6. editing' \in [Devices -> Profiles \cup {Unset}]
      BY <1>5, GoodNow
<1>7. orphaned' \in BOOLEAN /\ (orphaned => orphaned') /\ (id \notin Ids(profiles[d]) => orphaned')
      BY <1>5
<1>8. CASE active = TRUE
  <2>1. (\E i \in DOMAIN list : list[i].id = id) \/ orphaned'
        BY <1>3, <1>7 DEF Ids
  <2>2. OnlyActive(list, id) \in Seq(Profile) /\ FitTo(OnlyActive(list, id), here, removed, orphaned')
        BY <1>3, <2>1, OnlyActiveFits
  <2> QED BY <1>4, <1>6, <1>7, <1>8, <2>2, SetProfilesKeeps
<1>9. CASE active = FALSE
  <2>1. WithActive(list) \in Seq(Profile) /\ FitTo(WithActive(list), here, removed, orphaned')
        BY <1>3, <1>9, WithActiveFits
  <2> QED BY <1>4, <1>6, <1>7, <1>9, <2>1, SetProfilesKeeps
<1> QED BY <1>8, <1>9

LEMMA DeleteProfileKeeps ==
    ASSUME SettingsInv, NEW d \in Devices, DeleteProfile(d)
    PROVE  SettingsInv'
<1> DEFINE here == Ids(stored["profiles"])
<1>1. PICK n \in DOMAIN profiles[d] : SetProfiles(d, WithActive(RemoveAt(profiles[d], n)))
      BY DEF DeleteProfile
<1> DEFINE list == RemoveAt(profiles[d], n)
<1>2. list \in Seq(Profile) /\ Named(list, here, removed) /\ FewActive(list)
      BY ListFits, RemoveFits
<1>3. SetProfiles(d, WithActive(list))
      BY <1>1
<1> HIDE DEF list
<1>4. WithActive(list) \in Seq(Profile) /\ FitTo(WithActive(list), here, removed, orphaned)
      BY <1>2, WithActiveFits
<1>5. UNCHANGED <<editing, orphaned>>
      BY DEF DeleteProfile
<1> QED BY <1>3, <1>4, <1>5, GoodNow, SetProfilesKeeps

LEMMA ToggleActiveKeeps ==
    ASSUME SettingsInv, NEW d \in Devices, ToggleActive(d)
    PROVE  SettingsInv'
<1> DEFINE here == Ids(stored["profiles"])
           list == profiles[d]
<1>1. PICK n \in DOMAIN list : SetProfiles(d, OnlyActive(list, list[n].id))
      BY DEF ToggleActive
<1>2. list \in Seq(Profile) /\ Named(list, here, removed)
      BY ListFits
<1> HIDE DEF list
<1>3. OnlyActive(list, list[n].id) \in Seq(Profile) /\ FitTo(OnlyActive(list, list[n].id), here, removed, orphaned)
      BY <1>2, OnlyActiveFits
<1>4. UNCHANGED <<editing, orphaned>>
      BY DEF ToggleActive
<1> QED BY <1>1, <1>3, <1>4, GoodNow, SetProfilesKeeps

LEMMA SaveKeeps ==
    ASSUME SettingsInv, NEW r \in Requests, NEW d \in Devices, Save(r, d)
    PROVE  SettingsInv'
<1>1. /\ Send(r, d, "save", Params(d)) /\ \E kind : Click(kind)
      /\ UNCHANGED <<editing, orphaned, stored, data, fetch, changes, profiles, removed, misread, unseen>>
      BY DEF Save
<1>2. /\ IsSettings(Params(d)) /\ Fit(Params(d)["profiles"])
      /\ \A k \in Keys : changes[d][k] = Unset \/ k \notin FormKeys
                             => Params(d)[k] = Effective(d, data[d])[k]
      BY ParamsAre
<1>3. IsPart(Params(d))
      BY <1>2 DEF IsPart, IsSettings
<1>4. GoodReq(req') /\ \A q \in Requests : req[q] # Unset => req'[q] = req[q]
      BY <1>1, <1>2, <1>3, SendAdds
<1>5. \A e \in Devices, q \in Requests : Asks(e, req[q]) => Asks(e, req'[q])
      BY <1>4 DEF Asks
<1>6. \A e \in Devices :
          \/ fetch'[e] = Asked \/ unseen'[e] \/ \E q \in Requests : Asks(e, req'[q])
          \/ (IF fetch'[e] = Unset THEN data'[e] ELSE fetch'[e]) = Masked(stored)
      BY <1>1, <1>5 DEF SettingsInv, CopiesCurrent
<1> QED BY <1>1, <1>4, <1>6, GoodNow, InvNextHere

LEMMA ReopenKeeps ==
    ASSUME SettingsInv, NEW d \in Devices, Reopen(d)
    PROVE  SettingsInv'
<1>1. /\ changes' = [changes EXCEPT ![d] = [k \in FormKeys |-> Unset]]
      /\ profiles' = [profiles EXCEPT ![d] = data[d]["profiles"]]
      /\ editing' = [editing EXCEPT ![d] = Unset]
      /\ fetch' = [fetch EXCEPT ![d] = IF fetch[d] = Unset THEN Asked ELSE fetch[d]]
      /\ UNCHANGED <<orphaned, stored, data, req, removed, misread, unseen>> /\ \E kind : Click(kind)
      BY DEF Reopen
<1>2. GoodChanges(changes', orphaned)
      BY <1>1, ChangesForgotten
<1>3. data[d]["profiles"] \in Seq(Profile) /\ Fit(data[d]["profiles"])
      BY GoodNow, SettingsHold DEF GoodData
<1>4. GoodProfiles(profiles', orphaned)
  <2>1. GoodProfiles(profiles, orphaned)
        BY GoodNow
  <2>2. FitAt(data[d]["profiles"], orphaned)
        BY <1>3 DEF Fit, FitAt
  <2> QED BY <1>1, <1>3, <2>1, <2>2 DEF GoodProfiles
<1>5. editing' \in [Devices -> Profiles \cup {Unset}]
      BY <1>1, GoodNow
<1>6. fetch = [e \in Devices |-> fetch[e]]
      BY GoodNow DEF GoodFetch
<1>7. GoodFetch(fetch') /\ (fetch'[d] = Asked \/ (fetch'[d] = fetch[d] /\ fetch[d] # Unset))
      /\ \A e \in Devices : e # d => fetch'[e] = fetch[e]
  <2>1. CASE fetch[d] = Unset
    <3>1. fetch' = [fetch EXCEPT ![d] = Asked]
          BY <1>1, <2>1
    <3> QED BY <3>1, FetchSet
  <2>2. CASE fetch[d] # Unset
    <3>1. fetch' = fetch
          BY <1>1, <1>6, <2>2
    <3> QED BY <2>2, <3>1, GoodNow
  <2> QED BY <2>1, <2>2
<1>8. \A e \in Devices :
          \/ fetch'[e] = Asked \/ unseen'[e] \/ \E q \in Requests : Asks(e, req'[q])
          \/ (IF fetch'[e] = Unset THEN data'[e] ELSE fetch'[e]) = Masked(stored)
      BY <1>1, <1>7 DEF SettingsInv, CopiesCurrent
<1> QED BY <1>1, <1>2, <1>4, <1>5, <1>7, <1>8, GoodNow, InvNextHere

-----------------------------------------------------------------------------
(* The server *)

\* A request goes on: fewer keys are left, or the stored profiles are read.
LEMMA RequestGoesOn ==
    ASSUME SettingsInv, NEW r \in Requests, req[r] # Unset, NEW todo, NEW got,
           todo \subseteq req[r].todo, got \in {Unset, NoList} \/ got \in Seq(Profile),
           got # Unset => "profiles" \in todo,
           got \in {Unset, NoList} \/ FitsRead(req[r].part["profiles"], got, removed, misread),
           NEW new, new = [req[r] EXCEPT !.todo = todo, !.got = got],
           req' = [req EXCEPT ![r] = new]
    PROVE  /\ GoodReq(req') /\ \A q \in Requests : q # r => req'[q] = req[q]
           /\ req'[r] # Unset /\ req'[r].dev = req[r].dev /\ req'[r].kind = req[r].kind
           /\ req'[r].part = req[r].part /\ req'[r].todo = todo
<1>1. GoodReq(req)
      BY GoodNow
<1>2. req = [q \in Requests |-> req[q]]
      BY <1>1 DEF GoodReq
<1>3. IsRequest(req[r]) /\ FitRequest(req[r]) /\ SentForm(req[r])
      BY <1>1 DEF GoodReq
<1>4. new = [dev |-> req[r].dev, kind |-> req[r].kind, part |-> req[r].part,
             before |-> req[r].before, edited |-> req[r].edited, todo |-> todo, got |-> got]
      BY <1>3 DEF IsRequest
<1>5. /\ new.dev = req[r].dev /\ new.kind = req[r].kind /\ new.part = req[r].part
      /\ new.before = req[r].before /\ new.edited = req[r].edited
      /\ new.todo = todo /\ new.got = got
      BY <1>4
<1>6. IsRequest(new)
      BY <1>3, <1>4, <1>5 DEF IsRequest
<1>7. FitRequest(new) /\ SentForm(new) /\ GotFits(new)
      BY <1>3, <1>5 DEF FitRequest, SentForm, GotFits
<1>8. new # Unset
      BY <1>6, RequestIsNoMark
<1>9. \A q \in Requests : req'[q] = IF q = r THEN new ELSE req[q]
      BY <1>2
<1>10. req' = [q \in Requests |-> req'[q]]
      BY <1>2
<1>11. ASSUME NEW q \in Requests
       PROVE  req'[q] = Unset \/ (IsRequest(req'[q]) /\ FitRequest(req'[q]) /\ SentForm(req'[q]) /\ GotFits(req'[q]))
  <2>1. CASE q = r
        BY <1>6, <1>7, <1>9, <2>1
  <2>2. CASE q # r
        BY <1>1, <1>9, <2>2 DEF GoodReq
  <2> QED BY <2>1, <2>2
<1>12. GoodReq(req')
      BY <1>10, <1>11, Zenon DEF GoodReq
<1> QED BY <1>5, <1>8, <1>9, <1>12

\* What a request under way says of itself.
LEMMA RequestIs ==
    ASSUME SettingsInv, NEW r \in Requests, req[r] # Unset
    PROVE  /\ IsRequest(req[r]) /\ FitRequest(req[r]) /\ SentForm(req[r]) /\ GotFits(req[r])
           /\ req[r].dev \in Devices
           /\ \A k \in req[r].todo :
                  /\ k \in Keys /\ req[r].part[k] # Unset /\ req[r].part[k] \in Value(k)
                  /\ k = "secret" => req[r].part[k] # Mask
                  /\ k = "profiles" => req[r].part[k] \in Seq(Profile) /\ Fit(req[r].part[k])
<1>1. IsRequest(req[r]) /\ FitRequest(req[r]) /\ SentForm(req[r]) /\ GotFits(req[r])
      BY GoodNow DEF GoodReq
<1>2. ASSUME NEW k \in req[r].todo
      PROVE  /\ k \in Keys /\ req[r].part[k] # Unset /\ req[r].part[k] \in Value(k)
             /\ k = "secret" => req[r].part[k] # Mask
             /\ k = "profiles" => req[r].part[k] \in Seq(Profile) /\ Fit(req[r].part[k])
  <2>1. k \in Keys /\ req[r].part[k] # Unset /\ (k = "secret" => req[r].part[k] # Mask)
        BY <1>1 DEF IsRequest, Sends
  <2>2. req[r].part[k] \in Value(k)
        BY <1>1, <2>1 DEF IsRequest, IsPart
  <2> QED BY <1>1, <2>1, <2>2, ValueFacts DEF FitRequest
<1>3. req[r].dev \in Devices
      BY <1>1 DEF IsRequest
<1> QED BY <1>1, <1>2, <1>3

LEMMA ReadProfilesKeeps ==
    ASSUME SettingsInv, NEW r \in Requests, ReadProfiles(r)
    PROVE  SettingsInv'
<1>1. /\ req[r] # Unset /\ "profiles" \in req[r].todo
      /\ UNCHANGED <<editing, orphaned, stored, data, fetch, changes, profiles, removed, misread, unseen>>
      /\ scope' = scope \/ \E kind : Click(kind)
      BY DEF ReadProfiles
<1>2. PICK got \in {stored["profiles"], NoList} : req' = [req EXCEPT ![r] = [req[r] EXCEPT !.got = got]]
      BY DEF ReadProfiles
<1>3. /\ IsRequest(req[r]) /\ Fit(req[r].part["profiles"])
      BY <1>1, RequestIs
<1>4. /\ stored["profiles"] \in Seq(Profile) /\ Fit(stored["profiles"])
      /\ MasksKnown(stored["profiles"], misread)
      BY GoodNow, SettingsHold DEF StoredIsPlain
<1>5. FitsRead(req[r].part["profiles"], stored["profiles"], removed, misread)
      BY <1>3, <1>4 DEF FitsRead, Fit, FitTo, Named
<1> DEFINE new == [req[r] EXCEPT !.todo = req[r].todo, !.got = got]
<1>6. [req[r] EXCEPT !.got = got] = new
      BY <1>3 DEF IsRequest
<1>7. req' = [req EXCEPT ![r] = new]
      BY <1>2, <1>6
<1>8. new = [req[r] EXCEPT !.todo = req[r].todo, !.got = got]
      OBVIOUS
<1> HIDE DEF new
<1>9. /\ got \in {Unset, NoList} \/ got \in Seq(Profile)
      /\ got \in {Unset, NoList} \/ FitsRead(req[r].part["profiles"], got, removed, misread)
      BY <1>2, <1>4, <1>5
<1>10. /\ GoodReq(req') /\ \A q \in Requests : q # r => req'[q] = req[q]
       /\ req'[r] # Unset /\ req'[r].dev = req[r].dev /\ req'[r].kind = req[r].kind
       /\ req'[r].part = req[r].part /\ req'[r].todo = req[r].todo
      BY <1>1, <1>7, <1>8, <1>9, RequestGoesOn
<1>11. \A e \in Devices, q \in Requests : Asks(e, req[q]) => Asks(e, req'[q])
      BY <1>10 DEF Asks, SomeWritten
<1>12. \A e \in Devices :
          \/ fetch'[e] = Asked \/ unseen'[e] \/ \E q \in Requests : Asks(e, req'[q])
          \/ (IF fetch'[e] = Unset THEN data'[e] ELSE fetch'[e]) = Masked(stored)
      BY <1>1, <1>11 DEF SettingsInv, CopiesCurrent
<1> QED BY <1>1, <1>10, <1>12, GoodNow, InvNextHere

\* The profiles that are written, with those that were dropped and misread.
LEMMA WrittenListFits ==
    ASSUME SettingsInv, NEW r \in Requests, WriteKey(r, "profiles"),
           NEW new, new = Updated(req[r], "profiles")
    PROVE  /\ new \in Seq(Profile)
           /\ MasksKnown(new, misread') /\ FitTo(new, Ids(new), removed, orphaned)
<1> DEFINE q == req[r]
           list == q.part["profiles"]
<1>1. /\ q # Unset /\ "profiles" \in q.todo /\ q.got # Unset
      /\ misread' = IF q.got = NoList THEN misread \cup MaskedIds(new) ELSE misread
      BY DEF WriteKey
<1>2. IsRequest(q) /\ GotFits(q) /\ list \in Seq(Profile) /\ Fit(list)
      BY <1>1, RequestIs
<1>3. CASE q.got = NoList
  <2>1. new = list /\ misread' = misread \cup MaskedIds(list)
        BY <1>1, <1>3 DEF Updated
  <2>2. MasksKnown(list, MaskedIds(list)) /\ FitTo(list, Ids(list), removed, orphaned)
        BY <1>2, StoredAsSent DEF Fit
  <2> QED BY <1>2, <2>1, <2>2 DEF MasksKnown
<1>4. CASE q.got # NoList
  <2>1. new = Unmasked(list, q.got) /\ misread' = misread
        BY <1>1, <1>4 DEF Updated
  <2>2. q.got \in Seq(Profile) /\ FitsRead(list, q.got, removed, misread)
        BY <1>1, <1>2, <1>4 DEF IsRequest, GotFits
  <2>3. FitTo(list, Ids(stored["profiles"]), removed, orphaned)
        BY <1>2 DEF Fit
  <2> HIDE DEF list, q
  <2> QED BY <1>2, <2>1, <2>2, <2>3, UnmaskedFits
<1> QED BY <1>3, <1>4

LEMMA WriteKeyKeeps ==
    ASSUME SettingsInv, NEW r \in Requests, NEW k \in Keys, WriteKey(r, k)
    PROVE  SettingsInv'
<1> DEFINE q    == req[r]
           new  == Updated(q, k)
           list == stored["profiles"]
<1>1. /\ q # Unset /\ k \in q.todo /\ (k = "profiles") = (q.got # Unset)
      /\ stored' = [stored EXCEPT ![k] = new]
      /\ req' = [req EXCEPT ![r] = [req[r] EXCEPT !.todo = req[r].todo \ {k}, !.got = Unset]]
      /\ removed' = IF k = "profiles" THEN removed \cup (Ids(stored[k]) \ Ids(new)) ELSE removed
      /\ misread' = IF q.got = NoList THEN misread \cup MaskedIds(new) ELSE misread
      /\ unseen' = [d \in Devices |-> unseen[d] \/ (new # stored[k] /\ d # q.dev)]
      /\ UNCHANGED <<editing, orphaned, data, fetch, changes, profiles, scope>>
      BY DEF WriteKey
<1>2. IsRequest(q) /\ q.dev \in Devices /\ q.part[k] \in Value(k) /\ (k = "secret" => q.part[k] # Mask)
      BY <1>1, RequestIs
<1>3. /\ IsSettings(stored) /\ StoredIsPlain /\ Fit(list) /\ list \in Seq(Profile)
      /\ removed \subseteq Profiles /\ misread \subseteq Profiles /\ orphaned \in BOOLEAN
      BY GoodNow, SettingsHold
<1>4. k # "profiles" => new = q.part[k] /\ removed' = removed /\ misread' = misread
      BY <1>1, MarksAssumption DEF Updated
<1>5. k = "profiles" => /\ new \in Seq(Profile) /\ MasksKnown(new, misread')
                        /\ FitTo(new, Ids(new), removed, orphaned)
                        /\ removed' = removed \cup (Ids(list) \ Ids(new))
      BY <1>1, WrittenListFits
<1> HIDE DEF new, list, q
<1>6. new \in Value(k)
      BY <1>2, <1>4, <1>5, ValueFacts
<1>7. IsSettings(stored')
  <2>1. stored = [j \in Keys |-> stored[j]] /\ \A j \in Keys : stored[j] \in Value(j)
        BY <1>3 DEF IsSettings
  <2>2. stored' = [j \in Keys |-> stored'[j]] /\ \A j \in Keys : stored'[j] = IF j = k THEN new ELSE stored[j]
        BY <1>1, <2>1
  <2>3. ASSUME NEW j \in Keys PROVE stored'[j] \in Value(j)
        BY <1>6, <2>1, <2>2
  <2> QED BY <2>2, <2>3 DEF IsSettings
<1>8. \A j \in Keys : stored'[j] = IF j = k THEN new ELSE stored[j]
      BY <1>1, <1>3 DEF IsSettings
<1>9. "secret" \in Keys /\ "profiles" \in Keys
      BY KeyFacts
<1>10. misread \subseteq misread' /\ removed \subseteq removed'
      BY <1>1, <1>4, <1>5
<1>11. /\ stored'["secret"] # Mask
       /\ MasksKnown(stored'["profiles"], misread') 
       /\ FitTo(stored'["profiles"], Ids(stored'["profiles"]), removed', orphaned)
       /\ Ids(list) \cup removed \subseteq Ids(stored'["profiles"]) \cup removed'
  <2>1. stored'["secret"] # Mask
        BY <1>2, <1>3, <1>4, <1>8, <1>9 DEF StoredIsPlain
  <2>2. CASE k = "profiles"
    <3>1. stored'["profiles"] = new
          BY <1>8, <1>9, <2>2
    <3>2. FitTo(new, Ids(new), removed', orphaned)
      <4>1. FitTo(new, Ids(new), removed, orphaned)
            BY <1>5, <2>2
      <4> QED BY <1>10, <4>1, FitGrows
    <3> QED BY <1>5, <2>1, <2>2, <3>1, <3>2
  <2>3. CASE k # "profiles"
    <3>1. stored'["profiles"] = list /\ removed' = removed /\ misread' = misread
          BY <1>4, <1>8, <1>9, <2>3 DEF list
    <3>2. MasksKnown(list, misread) /\ FitTo(list, Ids(list), removed, orphaned)
          BY <1>3 DEF StoredIsPlain, Fit, list
    <3> QED BY <2>1, <3>1, <3>2
  <2> QED BY <2>2, <2>3
<1>12. StoredIsPlain'
      BY <1>11 DEF StoredIsPlain, MasksKnown
<1>13. Grows /\ FitNext(stored'["profiles"])
  <2>1. orphaned' = orphaned
        BY <1>1
  <2>2. Grows
        BY <1>10, <1>11, <2>1 DEF Grows, list
  <2> QED BY <1>11, <2>1, <2>2 DEF FitNext
<1>14. removed' \subseteq Profiles /\ misread' \subseteq Profiles
  <2>1. Ids(list) \subseteq Profiles
        BY <1>3, ListTypes DEF Ids
  <2>2. k = "profiles" => MaskedIds(new) \subseteq Profiles
        BY <1>5, ListTypes DEF MaskedIds
  <2> QED BY <1>1, <1>3, <1>4, <1>5, <2>1, <2>2
<1>15. unseen' \in [Devices -> BOOLEAN]
      BY <1>1
<1>16. /\ GoodReq(req') /\ \A p \in Requests : p # r => req'[p] = req[p]
       /\ req'[r] # Unset /\ req'[r].dev = q.dev
       /\ req'[r].part = q.part /\ req'[r].todo = q.todo \ {k}
  <2> DEFINE next == [req[r] EXCEPT !.todo = req[r].todo \ {k}, !.got = Unset]
             todo == req[r].todo \ {k}
  <2>1. next = [req[r] EXCEPT !.todo = todo, !.got = Unset] /\ req' = [req EXCEPT ![r] = next]
        BY <1>1
  <2>2. todo \subseteq req[r].todo
        OBVIOUS
  <2>3. req[r] # Unset /\ todo = q.todo \ {k}
        BY <1>1 DEF q
  <2> HIDE DEF next, todo
  <2> QED BY <2>1, <2>2, <2>3, RequestGoesOn DEF q
<1>17. SomeWritten(req'[r])
  <2>1. k \in Sends(q.part)
        BY <1>1, <1>2 DEF IsRequest
  <2> QED BY <1>16, <2>1 DEF SomeWritten
<1>18. \A e \in Devices, p \in Requests : Asks(e, req[p]) => Asks(e, req'[p])
  <2> SUFFICES ASSUME NEW e \in Devices, NEW p \in Requests, Asks(e, req[p])
               PROVE  Asks(e, req'[p])
      OBVIOUS
  <2>1. CASE p = r
    <3>1. q.dev = e
          BY <2>1 DEF Asks, q
    <3> QED BY <1>16, <1>17, <2>1, <3>1 DEF Asks
  <2>2. CASE p # r
        BY <1>16, <2>2
  <2> QED BY <2>1, <2>2
<1>19. ASSUME NEW e \in Devices
       PROVE  \/ fetch'[e] = Asked \/ unseen'[e] \/ \E p \in Requests : Asks(e, req'[p])
              \/ (IF fetch'[e] = Unset THEN data'[e] ELSE fetch'[e]) = Masked(stored')
  <2>1. CASE new = stored[k]
    <3>1. stored' = stored
          BY <1>1, <1>3, <2>1 DEF IsSettings
    <3>2. unseen[e] => unseen'[e]
          BY <1>1
    <3> QED BY <1>1, <1>18, <3>1, <3>2 DEF SettingsInv, CopiesCurrent
  <2>2. CASE new # stored[k] /\ e # q.dev
        BY <1>1, <2>2
  <2>3. CASE e = q.dev
    <3>1. Asks(e, req'[r])
          BY <1>16, <1>17, <2>3 DEF Asks
    <3> QED BY <3>1
  <2> QED BY <2>1, <2>2, <2>3
<1>20. /\ GoodData(data') /\ GoodFetch(fetch') /\ GoodChanges(changes', orphaned')
       /\ GoodProfiles(profiles', orphaned') /\ editing' \in [Devices -> Profiles \cup {Unset}]
       /\ orphaned' \in BOOLEAN /\ scope' = scope
      BY <1>1, GoodNow
<1> QED BY <1>7, <1>12, <1>13, <1>14, <1>15, <1>16, <1>19, <1>20, InvNext

-----------------------------------------------------------------------------
(* The answers *)

LEMMA ToggleSettledKeeps ==
    ASSUME SettingsInv, NEW r \in Requests, ToggleSettled(r)
    PROVE  SettingsInv'
<1> DEFINE d == req[r].dev
<1>1. /\ \/ Succeeded(r, "toggle") /\ UNCHANGED <<data, profiles>>
         \/ Failed(r, "toggle") /\ SetData(d, req[r].before)
      /\ fetch' = [fetch EXCEPT ![d] = Asked]
      /\ UNCHANGED <<editing, orphaned, stored, changes, removed, misread, unseen, scope>>
      BY DEF ToggleSettled, Invalidate
<1>2. Succeeded(r, "toggle") \/ Failed(r, "toggle")
      BY <1>1
<1>3. /\ GoodReq(req') /\ \A q \in Requests : q # r => req'[q] = req[q]
      /\ IsRequest(req[r]) /\ FitRequest(req[r])
      BY <1>2, SettledEnds
<1>4. d \in Devices /\ IsSettings(req[r].before) /\ Fit(req[r].before["profiles"])
      BY <1>3 DEF IsRequest, FitRequest
<1>5. GoodFetch(fetch') /\ fetch'[d] = Asked /\ \A e \in Devices : e # d => fetch'[e] = fetch[e]
  <2> HIDE DEF d
  <2> QED BY <1>1, <1>4, FetchSet
<1>6. GoodData(data') /\ GoodProfiles(profiles', orphaned) /\ \A e \in Devices : e # d => data'[e] = data[e]
  <2>1. CASE UNCHANGED <<data, profiles>>
        BY <2>1, GoodNow
  <2>2. CASE SetData(d, req[r].before)
    <3> HIDE DEF d
    <3> QED BY <1>4, <2>2, DataSet
  <2> QED BY <1>1, <2>1, <2>2
<1>7. ASSUME NEW e \in Devices
      PROVE  \/ fetch'[e] = Asked \/ unseen'[e] \/ \E q \in Requests : Asks(e, req'[q])
             \/ (IF fetch'[e] = Unset THEN data'[e] ELSE fetch'[e]) = Masked(stored)
  <2>1. CASE e = d
        BY <1>5, <2>1
  <2>2. CASE e # d
    <3>1. \A q \in Requests : Asks(e, req[q]) => Asks(e, req'[q])
          BY <1>3, <2>2 DEF Asks
    <3> QED BY <1>1, <1>5, <1>6, <2>2, <3>1 DEF SettingsInv, CopiesCurrent
  <2> QED BY <2>1, <2>2
<1> QED BY <1>1, <1>3, <1>5, <1>6, <1>7, GoodNow, InvNextHere

\* A request ends and its device asks anew, or it failed and nobody waits for it.
LEMMA EndKeeps ==
    ASSUME SettingsInv, NEW r \in Requests, NEW kind \in {"column", "save"},
           \/ Succeeded(r, kind) /\ Invalidate(req[r].dev) /\ UNCHANGED unseen
           \/ Failed(r, kind) /\ Missed(r) /\ UNCHANGED fetch,
           GoodChanges(changes', orphaned),
           UNCHANGED <<editing, orphaned, stored, data, profiles, removed, misread, scope>>
    PROVE  SettingsInv'
<1> DEFINE d == req[r].dev
<1>1. /\ GoodReq(req') /\ \A q \in Requests : q # r => req'[q] = req[q]
      /\ IsRequest(req[r]) /\ req[r].kind = kind
      BY SettledEnds
<1>2. d \in Devices
      BY <1>1 DEF IsRequest
<1>3. /\ GoodFetch(fetch') /\ unseen' \in [Devices -> BOOLEAN]
      /\ \A e \in Devices : fetch'[e] = Asked \/ fetch'[e] = fetch[e]
      /\ \A e \in Devices : unseen[e] => unseen'[e]
      /\ \A e \in Devices : Asks(e, req[r]) => fetch'[e] = Asked \/ unseen'[e]
  <2>1. CASE Succeeded(r, kind) /\ Invalidate(d) /\ UNCHANGED unseen
    <3>1. fetch' = [fetch EXCEPT ![d] = Asked]
          BY <2>1 DEF Invalidate
    <3>2. \A e \in Devices : Asks(e, req[r]) => e = d
          BY DEF Asks
    <3> HIDE DEF d
    <3>3. GoodFetch(fetch') /\ fetch'[d] = Asked /\ \A e \in Devices : e # d => fetch'[e] = fetch[e]
          BY <1>2, <3>1, FetchSet
    <3> QED BY <2>1, <3>2, <3>3, GoodNow
  <2>2. CASE Failed(r, kind) /\ Missed(r) /\ UNCHANGED fetch
    <3>1. unseen' = [unseen EXCEPT ![d] = unseen[d] \/ SomeWritten(req[r])]
          BY <2>2 DEF Missed
    <3>2. SomeWritten(req[r]) \in BOOLEAN
          BY DEF SomeWritten
    <3>3. \A e \in Devices : Asks(e, req[r]) => e = d /\ SomeWritten(req[r])
          BY <1>1 DEF Asks
    <3> HIDE DEF d
    <3>4. /\ unseen' \in [Devices -> BOOLEAN] /\ unseen'[d] = (unseen[d] \/ SomeWritten(req[r]))
          /\ \A e \in Devices : e # d => unseen'[e] = unseen[e]
          BY <1>2, <3>1, <3>2, GoodNow
    <3> QED BY <2>2, <3>3, <3>4, GoodNow
  <2> QED BY <2>1, <2>2
<1>4. ASSUME NEW e \in Devices
      PROVE  \/ fetch'[e] = Asked \/ unseen'[e] \/ \E q \in Requests : Asks(e, req'[q])
             \/ (IF fetch'[e] = Unset THEN data'[e] ELSE fetch'[e]) = Masked(stored)
  <2>1. \A q \in Requests : q # r => req'[q] = req[q]
        BY <1>1
  <2>2. \/ fetch'[e] = Asked \/ unseen'[e]
        \/ \A q \in Requests : Asks(e, req[q]) => Asks(e, req'[q])
        BY <1>3, <2>1
  <2> QED BY <1>3, <2>2 DEF SettingsInv, CopiesCurrent
<1> QED BY <1>1, <1>3, <1>4, GoodNow, InvNextHere

LEMMA ColumnSettledKeeps ==
    ASSUME SettingsInv, NEW r \in Requests, ColumnSettled(r)
    PROVE  SettingsInv'
<1>1. GoodChanges(changes', orphaned)
      BY GoodNow DEF ColumnSettled
<1> QED BY <1>1, EndKeeps DEF ColumnSettled

LEMMA SaveSettledKeeps ==
    ASSUME SettingsInv, NEW r \in Requests, SaveSettled(r)
    PROVE  SettingsInv'
<1> DEFINE d == req[r].dev
<1>1. \/ /\ Succeeded(r, "save") /\ Invalidate(d) /\ UNCHANGED unseen
         /\ changes' = [changes EXCEPT ![d] = [k \in FormKeys |-> Unset]]
      \/ Failed(r, "save") /\ Missed(r) /\ UNCHANGED <<changes, fetch>>
      BY DEF SaveSettled
<1>2. d \in Devices
      BY <1>1, SettledEnds DEF IsRequest
<1>3. GoodChanges(changes', orphaned)
  <2> HIDE DEF d
  <2>1. CASE changes' = [changes EXCEPT ![d] = [k \in FormKeys |-> Unset]]
        BY <1>2, <2>1, ChangesForgotten
  <2>2. CASE UNCHANGED changes
        BY <2>2, GoodNow
  <2> QED BY <1>1, <2>1, <2>2
<1>4. UNCHANGED <<editing, orphaned, stored, data, profiles, removed, misread, scope>>
      BY DEF SaveSettled
<1>5. \/ Succeeded(r, "save") /\ Invalidate(req[r].dev) /\ UNCHANGED unseen
      \/ Failed(r, "save") /\ Missed(r) /\ UNCHANGED fetch
      BY <1>1
<1> QED BY <1>3, <1>4, <1>5, EndKeeps

-----------------------------------------------------------------------------
(* The invariant *)

\* The lists the server may have at the start.
LEMMA StoredListsFit ==
    ASSUME NEW list \in StoredLists, NEW here, NEW gone, NEW orph
    PROVE  /\ list \in Seq(Profile) /\ FitTo(list, here, gone, orph)
           /\ \A i \in DOMAIN list : list[i].token # Mask
<1>1. CASE list = << >>
  <2>1. list \in Seq(Profile) /\ DOMAIN list = {}
        BY <1>1, EmptySeq
  <2> QED BY <1>1, <2>1 DEF FitTo, Named, FewActive
<1>2. CASE list # << >>
  <2>1. PICK ids \in SetToAllKPermutations(Profiles) \ {<< >>} :
            list = [i \in DOMAIN ids |-> [id |-> ids[i], token |-> "typed", active |-> i = 1]]
        BY <1>2 DEF StoredLists
  <2>2. PICK S \in SUBSET Profiles : ids \in SetToSeqs(S)
        BY DEF SetToAllKPermutations
  <2> DEFINE n == Cardinality(S)
  <2>3. n \in Nat
    <3>1. IsFiniteSet(S)
          BY BoundsAssumption, FS_Subset
    <3> QED BY <3>1, FS_CardinalityType
  <2>4. ids \in [1..n -> S] /\ \A i, j \in 1..n : i # j => ids[i] # ids[j]
        BY <2>2 DEF SetToSeqs
  <2> HIDE DEF n
  <2>5. DOMAIN ids = 1..n /\ \A i \in 1..n : ids[i] \in Profiles
        BY <2>4
  <2>6. ASSUME NEW i \in 1..n
        PROVE  /\ list[i] \in Profile /\ list[i].id = ids[i] /\ list[i].token = "typed"
               /\ list[i].active = (i = 1)
    <3>1. list[i] = [id |-> ids[i], token |-> "typed", active |-> i = 1]
          BY <2>1, <2>5
    <3>2. (i = 1) \in BOOLEAN /\ ids[i] \in Profiles
          BY <2>5
    <3> QED BY <3>1, <3>2 DEF Profile
  <2>7. DOMAIN list = 1..n /\ list = [i \in 1..n |-> list[i]]
        BY <2>1, <2>5
  <2>8. list \in [1..n -> Profile]
        BY <2>6, <2>7
  <2>9. list \in Seq(Profile)
        BY <2>3, <2>8, SeqDef
  <2>10. 1 \in DOMAIN list
        BY <1>2, <2>9, ListTypes
  <2>11. Named(list, here, gone)
    <3>1. \A i, j \in DOMAIN list : list[i].id = list[j].id => i = j
          BY <2>4, <2>6, <2>7
    <3>2. \A i \in DOMAIN list : list[i].token # "lost" /\ list[i].token # Mask
          BY <2>6, <2>7, MarksAssumption
    <3> QED BY <3>1, <3>2 DEF Named
  <2>12. \A i \in DOMAIN list : list[i].active = TRUE <=> i = 1
        BY <2>6, <2>7
  <2>13. FewActive(list)
        BY <2>12 DEF FewActive
  <2>14. \A i \in DOMAIN list : list[i].token # Mask
        BY <2>6, <2>7, MarksAssumption
  <2>15. \E i \in DOMAIN list : list[i].active = TRUE
        BY <2>10, <2>12
  <2> QED BY <2>9, <2>11, <2>13, <2>14, <2>15 DEF FitTo
<1> QED BY <1>1, <1>2

LEMMA SettingsInvInit == SettingsInit => SettingsInv
<1> SUFFICES ASSUME SettingsInit PROVE SettingsInv
    OBVIOUS
<1>1. PICK list \in StoredLists :
        stored = [k \in Keys |-> CASE k \in {"theme", "side", "secret"} -> 0
                                   [] k = "profiles" -> list
                                   [] OTHER -> Unset]
      BY DEF SettingsInit
<1>2. /\ stored = [k \in Keys |-> stored[k]]
      /\ stored["theme"] = 0 /\ stored["side"] = 0 /\ stored["secret"] = 0
      /\ stored["profiles"] = list /\ \A d \in Devices : stored[d] = Unset
      BY <1>1, KeyFacts
<1>3. /\ list \in Seq(Profile) /\ Fit(list)
      /\ \A i \in DOMAIN list : list[i].token # Mask
      BY StoredListsFit DEF Fit
<1>4. IsSettings(stored)
      BY <1>2, <1>3, MadeSettings
<1>5. StoredIsPlain /\ Fit(stored["profiles"])
      BY <1>2, <1>3, MarksAssumption DEF StoredIsPlain, MasksKnown
<1>6. /\ data = [d \in Devices |-> Masked(stored)]
      /\ fetch = [d \in Devices |-> Unset]
      /\ changes = [d \in Devices |-> [k \in FormKeys |-> Unset]]
      /\ profiles = [d \in Devices |-> data[d]["profiles"]]
      /\ editing = [d \in Devices |-> Unset]
      /\ req = [r \in Requests |-> Unset]
      /\ removed = {} /\ misread = {} /\ orphaned = FALSE
      /\ unseen = [d \in Devices |-> FALSE]
      /\ scope \in Scopes
      BY DEF SettingsInit
<1>7. IsSettings(Masked(stored)) /\ Fit(Masked(stored)["profiles"])
  <2>1. MaskedList(list) \in Seq(Profile) /\ Fit(MaskedList(list))
        BY <1>2, <1>3, MaskedFits DEF Fit
  <2>2. /\ Masked(stored) = [k \in Keys |-> Masked(stored)[k]]
        /\ Masked(stored)["secret"] = Mask /\ Masked(stored)["profiles"] = MaskedList(list)
        /\ \A k \in Keys \ {"secret", "profiles"} : Masked(stored)[k] = stored[k]
        BY <1>2, <1>4, MaskedIs
  <2>3. Masked(stored)["theme"] = 0 /\ Masked(stored)["side"] = 0 /\ \A d \in Devices : Masked(stored)[d] = Unset
        BY <1>2, <2>2, KeyFacts
  <2>4. IsSettings(Masked(stored))
        BY <2>1, <2>2, <2>3, MadeSettings
  <2> QED BY <2>1, <2>2, <2>4
<1>8. /\ \A d \in Devices : data[d] = Masked(stored) /\ profiles[d] = Masked(stored)["profiles"]
      /\ \A d \in Devices : fetch[d] = Unset /\ \A k \in FormKeys : changes[d][k] = Unset
      /\ \A r \in Requests : req[r] = Unset
      BY <1>6
<1>9. Masked(stored)["profiles"] \in Seq(Profile)
      BY <1>7, SettingsHold
<1>10. SettingsTypeOK
  <2>1. data = [d \in Devices |-> data[d]] /\ \A d \in Devices : IsSettings(data[d])
        BY <1>6, <1>7, <1>8
  <2>2. profiles \in [Devices -> Seq(Profile)]
        BY <1>6, <1>8, <1>9
  <2>3. /\ fetch = [d \in Devices |-> fetch[d]]
        /\ \A d \in Devices : fetch[d] \in {Unset, Asked} \/ IsSettings(fetch[d])
        BY <1>6
  <2>4. /\ changes = [d \in Devices |-> [k \in FormKeys |-> changes[d][k]]]
        /\ \A d \in Devices, k \in FormKeys : changes[d][k] = Unset \/ changes[d][k] \in Value(k)
        BY <1>6
  <2>5. /\ editing \in [Devices -> Profiles \cup {Unset}] /\ unseen \in [Devices -> BOOLEAN]
        /\ req = [r \in Requests |-> req[r]] /\ orphaned \in BOOLEAN
        /\ removed \subseteq Profiles /\ misread \subseteq Profiles
        BY <1>6
  <2>6. \E s \in Scopes : scope = [s EXCEPT !.left = scope.left] /\ scope.left \in 0..s.left
    <3>1. scope = [clicks |-> scope.clicks, left |-> scope.left] /\ scope.left \in Nat
          BY <1>6, BoundsAssumption
    <3>2. scope = [scope EXCEPT !.left = scope.left] /\ scope.left \in 0..scope.left
          BY <3>1
    <3> QED BY <1>6, <3>2
  <2> QED BY <1>4, <1>8, <2>1, <2>2, <2>3, <2>4, <2>5, <2>6 DEF SettingsTypeOK
<1>11. ListsFit
  <2>1. \A d \in Devices : changes[d]["profiles"] = Unset
        BY <1>8, KeyFacts
  <2> QED BY <1>5, <1>7, <1>8, <2>1 DEF ListsFit
<1>12. CopiesCurrent /\ SavesSendForm /\ ReadsFit
      BY <1>8 DEF CopiesCurrent, SavesSendForm, ReadsFit
<1> QED BY <1>5, <1>10, <1>11, <1>12 DEF SettingsInv

LEMMA SettingsInvNext ==
    ASSUME SettingsInv, SettingsNext
    PROVE  SettingsInv'
<1>1. ASSUME NEW d \in Devices,
             \/ Refetch(d) \/ Read(d) \/ ReadFails(d) \/ Receive(d)
             \/ EditField(d) \/ EditSecret(d) \/ Reopen(d)
             \/ AddProfile(d) \/ StartEdit(d) \/ EditProfile(d) \/ CancelEdit(d)
             \/ DeleteProfile(d) \/ ToggleActive(d)
      PROVE  SettingsInv'
      BY <1>1, RefetchKeeps, ReadKeeps, ReadFailsKeeps, ReceiveKeeps, EditFieldKeeps, EditSecretKeeps, ReopenKeeps,
         AddProfileKeeps, StartEditKeeps, EditProfileKeeps, CancelEditKeeps, DeleteProfileKeeps,
         ToggleActiveKeeps
<1>2. ASSUME NEW d \in Devices, NEW r \in Requests,
             CycleTheme(r, d) \/ ToggleSidebar(r, d) \/ ToggleColumn(r, d) \/ Save(r, d)
      PROVE  SettingsInv'
      BY <1>2, CycleThemeKeeps, ToggleSidebarKeeps, ToggleColumnKeeps, SaveKeeps
<1>3. ASSUME NEW r \in Requests,
             \/ ReadProfiles(r) \/ \E k \in Keys : WriteKey(r, k)
             \/ ToggleSettled(r) \/ ColumnSettled(r) \/ SaveSettled(r)
      PROVE  SettingsInv'
      BY <1>3, ReadProfilesKeeps, WriteKeyKeeps, ToggleSettledKeeps, ColumnSettledKeeps, SaveSettledKeeps
<1> QED BY <1>1, <1>2, <1>3 DEF SettingsNext

LEMMA SettingsInvStays ==
    ASSUME SettingsInv, UNCHANGED settingsVars
    PROVE  SettingsInv'
<1>1. \A d \in Devices :
          \/ fetch'[d] = Asked \/ unseen'[d] \/ \E r \in Requests : Asks(d, req'[r])
          \/ (IF fetch'[d] = Unset THEN data'[d] ELSE fetch'[d]) = Masked(stored)
      BY DEF SettingsInv, CopiesCurrent, settingsVars
<1> QED BY <1>1, GoodNow, InvNextHere DEF settingsVars

\* What the devices hold, what is on its way and what the server keeps fit
\* together in every reachable state.
THEOREM SettingsInvHolds == SettingsSpec => []SettingsInv
<1>1. SettingsInit => SettingsInv
      BY SettingsInvInit
<1>2. SettingsInv /\ [SettingsNext]_settingsVars => SettingsInv'
      BY SettingsInvNext, SettingsInvStays
<1> QED BY <1>1, <1>2, PTL DEF SettingsSpec

-----------------------------------------------------------------------------
(* What follows *)

\* The variables hold what their comments say, for any settings pages, tables
\* and layouts on any number of devices.
THEOREM SettingsTypes == SettingsSpec => []SettingsTypeOK
<1>1. SettingsInv => SettingsTypeOK
      BY DEF SettingsInv
<1> QED BY <1>1, SettingsInvHolds, PTL

\* The mask is never stored for a secret, for the token of a profile only when the
\* stored profiles could not be read for the save that brought it, and a token is
\* lost only with a profile the server had dropped (settings_service.go:127, 139).
THEOREM TokensKept == SettingsSpec => []TokensSurvive
<1>1. SettingsInv => TokensSurvive
  <2> SUFFICES ASSUME SettingsInv PROVE TokensSurvive
      OBVIOUS
  <2>1. StoredIsPlain /\ Named(stored["profiles"], Ids(stored["profiles"]), removed)
        BY GoodNow DEF Fit, FitTo
  <2> QED BY <2>1 DEF StoredIsPlain, MasksKnown, Named, TokensSurvive
<1> QED BY <1>1, SettingsInvHolds, PTL

\* Never are two of the stored profiles active, and none only after a form was
\* saved whose profile had left the list (LLMProfileManager.tsx:77-109).
THEOREM ActiveIsUnique == SettingsSpec => []OneProfileActive
<1>1. SettingsInv => OneProfileActive
  <2> SUFFICES ASSUME SettingsInv PROVE OneProfileActive
      OBVIOUS
  <2> DEFINE list == stored["profiles"]
             active == {i \in DOMAIN list : list[i].active}
  <2>1. list \in Seq(Profile) /\ FitTo(list, Ids(list), removed, orphaned)
        BY GoodNow, SettingsHold DEF Fit
  <2> HIDE DEF list
  <2>2. \A i \in DOMAIN list : list[i].active \in BOOLEAN
        BY <2>1, ListTypes
  <2>3. \A i \in active : i \in DOMAIN list /\ list[i].active = TRUE
        BY <2>2
  <2>4. \A i \in DOMAIN list : list[i].active = TRUE => i \in active
        OBVIOUS
  <2> HIDE DEF active
  <2>5. \A i, j \in active : i = j
        BY <2>1, <2>3 DEF FitTo, FewActive
  <2>6. active = {} \/ \E i : active = {i}
    <3>1. CASE active # {}
      <4>1. PICK i : i \in active
            BY <3>1
      <4>2. active = {i}
            BY <2>5, <4>1
      <4> QED BY <4>2
    <3> QED BY <3>1
  <2>7. Cardinality(active) = 0 \/ Cardinality(active) = 1
        BY <2>6, FS_EmptySet, FS_Singleton, Zenon
  <2>8. Cardinality(active) <= 1
        BY <2>7
  <2>9. active = {} => list = << >> \/ orphaned
        BY <2>1, <2>4 DEF FitTo
  <2> QED BY <2>8, <2>9 DEF OneProfileActive, list, active
<1> QED BY <1>1, SettingsInvHolds, PTL

\* A device with nothing under way shows what the server has, unless its query
\* failed or it was not told of a write (Layout.tsx:113-129).
THEOREM QuietCopies == SettingsSpec => []QuietShowsStored
<1>1. SettingsInv => QuietShowsStored
  <2> SUFFICES ASSUME SettingsInv, NEW d \in Devices, fetch[d] = Unset, unseen[d] = FALSE,
                      \A r \in Requests : req[r] # Unset => req[r].dev # d
               PROVE  data[d] = Masked(stored)
    <3>1. SettingsInv => \A d \in Devices : unseen[d] \in BOOLEAN
          BY GoodNow
    <3> QED BY <3>1 DEF QuietShowsStored
  <2>1. \A r \in Requests : ~Asks(d, req[r])
        BY DEF Asks
  <2>2. fetch[d] # Asked
        BY MarksAssumption
  <2>3. (IF fetch[d] = Unset THEN data[d] ELSE fetch[d]) = Masked(stored)
        BY <2>1, <2>2 DEF SettingsInv, CopiesCurrent
  <2> QED BY <2>3
<1> QED BY <1>1, SettingsInvHolds, PTL

\* Only the write of a key takes it from those a request has still to write.
LEMMA OnlyWritten ==
    ASSUME SettingsInv, SettingsNext, NEW r \in Requests, req[r] # Unset, req'[r] # Unset,
           NEW k \in Keys, k \in req[r].todo, k \notin req'[r].todo
    PROVE  WriteKey(r, k)
<1>0. req[r] # req'[r]
      OBVIOUS
<1>1. \A d \in Devices :
        ~(\/ Refetch(d) \/ Read(d) \/ ReadFails(d) \/ Receive(d) \/ EditField(d) \/ EditSecret(d) \/ Reopen(d)
          \/ AddProfile(d) \/ StartEdit(d) \/ EditProfile(d) \/ CancelEdit(d)
          \/ DeleteProfile(d) \/ ToggleActive(d))
  <2> SUFFICES ASSUME NEW d \in Devices
               PROVE  ~(\/ Refetch(d) \/ Read(d) \/ ReadFails(d) \/ Receive(d) \/ EditField(d) \/ EditSecret(d) \/ Reopen(d)
                        \/ AddProfile(d) \/ StartEdit(d) \/ EditProfile(d) \/ CancelEdit(d)
                        \/ DeleteProfile(d) \/ ToggleActive(d))
      OBVIOUS
  <2>1. ~Refetch(d) /\ ~Read(d) /\ ~ReadFails(d) /\ ~Receive(d)
        BY <1>0 DEF Refetch, Read, ReadFails, Receive
  <2>2. ~EditField(d) /\ ~EditSecret(d) /\ ~Reopen(d)
        BY <1>0 DEF EditField, EditSecret, Reopen
  <2>3. ~StartEdit(d) /\ ~CancelEdit(d)
        BY <1>0 DEF StartEdit, CancelEdit
  <2>4. \A list : ~SetProfiles(d, list)
        BY <1>0 DEF SetProfiles
  <2>5. ~AddProfile(d)
        BY <2>4 DEF AddProfile
  <2>6. ~EditProfile(d)
        BY <2>4 DEF EditProfile
  <2>7. ~DeleteProfile(d)
        BY <2>4 DEF DeleteProfile
  <2>8. ~ToggleActive(d)
        BY <2>4 DEF ToggleActive
  <2> QED BY <2>1, <2>2, <2>3, <2>5, <2>6, <2>7, <2>8
<1>2. ASSUME NEW d \in Devices, NEW q \in Requests, NEW kind, NEW part, Send(q, d, kind, part)
      PROVE  FALSE
  <2>1. req[q] = Unset /\ q # r
        BY <1>2 DEF Send, FreeSlot
  <2> QED BY <1>0, <1>2, <2>1, GoodNow DEF Send, GoodReq
<1>3. \A d \in Devices, q \in Requests :
        ~(CycleTheme(q, d) \/ ToggleSidebar(q, d) \/ ToggleColumn(q, d) \/ Save(q, d))
      BY <1>2 DEF CycleTheme, ToggleSidebar, ToggleColumn, Save, Optimistic
<1>4. \A q \in Requests : ~(ToggleSettled(q) \/ ColumnSettled(q) \/ SaveSettled(q))
  <2>1. ASSUME NEW q \in Requests, NEW kind, Succeeded(q, kind) \/ Failed(q, kind)
        PROVE  FALSE
        BY <1>0, <2>1, SettledEnds
  <2> QED BY <2>1 DEF ToggleSettled, ColumnSettled, SaveSettled
<1>5. req = [q \in Requests |-> req[q]] /\ IsRequest(req[r])
      BY GoodNow DEF GoodReq
<1>6. \A q \in Requests : ~ReadProfiles(q)
  <2> SUFFICES ASSUME NEW q \in Requests, ReadProfiles(q)
               PROVE  FALSE
      OBVIOUS
  <2>1. PICK got : req' = [req EXCEPT ![q] = [req[q] EXCEPT !.got = got]]
        BY DEF ReadProfiles
  <2>2. req'[r] = req[r] \/ req'[r] = [req[r] EXCEPT !.got = got]
        BY <1>5, <2>1
  <2>3. req'[r].todo = req[r].todo
        BY <1>5, <2>2 DEF IsRequest
  <2> QED BY <2>3
<1>7. \A q \in Requests, j \in Keys : WriteKey(q, j) => q = r /\ j = k
  <2> SUFFICES ASSUME NEW q \in Requests, NEW j \in Keys, WriteKey(q, j)
               PROVE  q = r /\ j = k
      OBVIOUS
  <2>1. req' = [req EXCEPT ![q] = [req[q] EXCEPT !.todo = req[q].todo \ {j}, !.got = Unset]]
        BY DEF WriteKey
  <2>2. q = r
        BY <1>0, <1>5, <2>1
  <2>3. req'[r] = [req[r] EXCEPT !.todo = req[r].todo \ {j}, !.got = Unset]
        BY <1>5, <2>1, <2>2
  <2>4. req'[r].todo = req[r].todo \ {j}
        BY <1>5, <2>3 DEF IsRequest
  <2> QED BY <2>2, <2>4
<1>8. PICK q \in Requests : \E j \in Keys : WriteKey(q, j)
      BY <1>1, <1>3, <1>4, <1>6 DEF SettingsNext
<1> QED BY <1>7, <1>8

\* What a save sends of a key that was not edited and whose copy was current
\* leaves the server's value as it is.
LEMMA SavedAsShown ==
    ASSUME SettingsInv, NEW r \in Requests, NEW k \in Keys, WriteKey(r, k), req[r].kind = "save",
           k \notin req[r].edited, req[r].before[k] = Masked(stored)[k],
           ~(k = "side" /\ req[r].before[Own(req[r].dev)] # Unset),
           k = "profiles" => req[r].got = stored[k]
    PROVE  stored'[k] = stored[k]
<1> DEFINE q == req[r]
           v == q.part[k]
<1>1. /\ q # Unset /\ k \in q.todo
      /\ stored' = [stored EXCEPT ![k] = Updated(q, k)]
      BY DEF WriteKey
<1>2. IsRequest(q) /\ SentForm(q) /\ (k = "secret" => v # Mask)
      BY <1>1, RequestIs
<1>3. v = Effective(q.dev, q.before)[k]
      BY <1>2 DEF SentForm
<1>4. q.dev \in Devices /\ IsSettings(q.before)
      BY <1>2 DEF IsRequest
<1>5. v = Masked(stored)[k]
  <2> HIDE DEF q
  <2>1. CASE k # "side"
        BY <1>3, <1>4, <2>1, EffectiveIs DEF q
  <2>2. CASE k = "side"
    <3>1. q.before[Own(q.dev)] = Unset
          BY <2>2 DEF q
    <3>2. Effective(q.dev, q.before)[k] = q.before[k]
          BY <1>4, <2>2, <3>1 DEF Effective, IsSettings
    <3> QED BY <1>3, <3>2 DEF q
  <2> QED BY <2>1, <2>2
<1>6. IsSettings(stored) /\ StoredIsPlain /\ Fit(stored["profiles"])
      BY GoodNow
<1>7. Updated(q, k) = stored[k]
  <2>0. Updated(q, k) = IF k = "profiles" /\ q.got # NoList THEN Unmasked(v, q.got) ELSE v
        BY DEF Updated
  <2>00. k = "profiles" => q.got = stored[k]
        OBVIOUS
  <2> HIDE DEF v, q
  <2>1. CASE k = "profiles"
    <3>1. v = MaskedList(stored["profiles"])
          BY <1>5, <1>6, <2>1, MaskedIs
    <3>2. stored["profiles"] \in Seq(Profile)
          BY <1>6, SettingsHold
    <3>3. Unmasked(v, stored["profiles"]) = stored["profiles"]
          BY <1>6, <3>1, <3>2, MaskedComesBack DEF StoredIsPlain, Fit, FitTo, Named
    <3>4. q.got = stored["profiles"] /\ q.got # NoList
          BY <2>00, <2>1, <3>2, MarksAssumption
    <3> QED BY <2>0, <2>1, <3>3, <3>4
  <2>2. CASE k = "secret"
    <3>1. v = Mask
          BY <1>5, <1>6, <2>2, MaskedIs
    <3> QED BY <1>2, <2>2, <3>1
  <2>3. CASE k # "profiles" /\ k # "secret"
    <3>1. v = stored[k]
          BY <1>5, <1>6, <2>3, MaskedIs
    <3> QED BY <2>0, <2>3, <3>1
  <2> QED BY <2>1, <2>2, <2>3
<1> HIDE DEF q, v
<1> QED BY <1>1, <1>6, <1>7 DEF IsSettings

\* A save of the whole form changes a key that was not edited only when its copy
\* was outdated or the device overrides it, and the profiles also when another save
\* changed them since it read them, or it could not (settings_service.go:127, 158).
THEOREM SavesTouchOnlyEdited == SettingsSpec => SaveChangesOnlyEdited
<1> DEFINE A == \A r \in Requests, k \in Keys :
                  (/\ req[r] # Unset /\ req[r].kind = "save" /\ req'[r] # Unset
                   /\ k \in req[r].todo \ req'[r].todo /\ stored'[k] # stored[k])
                  => \/ k \in req[r].edited
                     \/ req[r].before[k] # Masked(stored)[k]
                     \/ k = "side" /\ req[r].before[Own(req[r].dev)] # Unset
                     \/ k = "profiles" /\ req[r].got # stored[k]
<1>1. SettingsInv /\ [SettingsNext]_settingsVars => [A]_settingsVars
  <2> SUFFICES ASSUME SettingsInv, SettingsNext,
                      NEW r \in Requests, NEW k \in Keys,
                      req[r] # Unset, req[r].kind = "save", req'[r] # Unset,
                      k \in req[r].todo \ req'[r].todo, stored'[k] # stored[k],
                      k \notin req[r].edited, req[r].before[k] = Masked(stored)[k],
                      ~(k = "side" /\ req[r].before[Own(req[r].dev)] # Unset),
                      ~(k = "profiles" /\ req[r].got # stored[k])
               PROVE  FALSE
      OBVIOUS
  <2>1. WriteKey(r, k)
        BY OnlyWritten
  <2> QED BY <2>1, SavedAsShown
<1> QED BY <1>1, SettingsInvHolds, PTL DEF SettingsSpec, SaveChangesOnlyEdited

=============================================================================
