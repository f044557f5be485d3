--------------------------- MODULE ChatWindow_proofs ---------------------------
(***************************************************************************)
(* Proofs about ChatWindow: the members of a room as its window shows them *)
(* and waits for them, and the call of a meeting's window.                 *)
(*                                                                         *)
(* MembersSound speaks of the moments at which nothing is under way; the   *)
(* invariant says what every moment of it owes to what is: of a contact    *)
(* whose record is not the service's, the newest record is on its way as a *)
(* push, or a page that is being fetched will list it.  CallServed needs   *)
(* what the screen of the library may do to a window that holds a view or  *)
(* a share.                                                                *)
(***************************************************************************)
EXTENDS ChatWindow, WellFoundedInduction, TLAPS

-----------------------------------------------------------------------------
(* The members.                                                            *)

\* A page of the present opening, being fetched, that will list c as she is.
Listing(f, c) ==
  f.visit = visit /\ c \in f.left /\ f.since[c] = srv[c] /\ f.active = Active(srv[c])

\* What is known of c: her record, or that it comes.
Known(c) ==
  members[c] = srv[c] \/ srv[c] \in pushes[c] \/ \E f \in fetches : Listing(f, c)

\* No record is newer than the service's; the window shows what the room has; no
\* two fetches of an opening are for the same members.
Records ==
  /\ \A c \in Contacts : members[c] <= srv[c] /\ \A n \in pushes[c] : n <= srv[c]
  /\ \A f \in fetches : f.visit <= visit /\ \A c \in Contacts : f.since[c] <= srv[c]
  /\ shown = {c \in Contacts : Active(members[c])}
  /\ \A f, g \in fetches : f.visit = g.visit /\ f.active = g.active => f = g

MembersInv ==
  /\ RoomTypeOK /\ Records
  /\ opens = 1 /\ ~missed => \A c \in Contacts \ regressed : Known(c)

\* Whoever never was a member is no active one.
LEMMA NeverActive == ~Active(0) /\ \A n : Active(n) \in BOOLEAN
BY DEF Active

\* Records that the service had, of some contacts, go into the room and its window.
LEMMA AddKeeps ==
  ASSUME MembersInv, NEW T \in SUBSET Contacts, NEW news \in [T -> Record],
         \A c \in T : news[c] <= srv[c], AddMembers(news)
  PROVE  /\ members' \in [Contacts -> Record] /\ shown' \subseteq Contacts
         /\ regressed' \subseteq Contacts
         /\ \A c \in Contacts : members'[c] <= srv[c]
         /\ shown' = {c \in Contacts : Active(members'[c])}
         /\ opens = 1 =>
              /\ \A c \in Contacts : members'[c] = IF c \in T THEN news[c] ELSE members[c]
              /\ regressed \subseteq regressed'
              /\ \A c \in T : news[c] < members[c] => c \in regressed'
<1>0. DOMAIN news = T /\ \A c \in T : news[c] \in Record
  OBVIOUS
<1>1. CASE opens = 0
  BY <1>1 DEF AddMembers, MembersInv, RoomTypeOK, Records
<1>2. CASE opens # 0
  <2>1. /\ members' = [c \in Contacts |-> IF c \in T THEN news[c] ELSE members[c]]
        /\ shown' = Shown(news)
        /\ regressed' = regressed \cup {c \in T : news[c] < members[c]}
    BY <1>0, <1>2 DEF AddMembers
  <2>2. \A c \in Contacts : /\ members'[c] = IF c \in T THEN news[c] ELSE members[c]
                            /\ members'[c] \in Record /\ members'[c] <= srv[c]
    BY <1>0, <2>1 DEF MembersInv, RoomTypeOK, Records
  <2>3. shown' = {c \in Contacts : Active(members'[c])}
    BY <1>0, <2>1, <2>2 DEF Shown, MembersInv, Records
  <2>4. members' \in [Contacts -> Record]
    BY <2>1, <2>2
  <2>5. regressed' \subseteq Contacts
    BY <2>1 DEF MembersInv, RoomTypeOK
  <2> QED BY <2>1, <2>2, <2>3, <2>4, <2>5
<1> QED BY <1>1, <1>2

\* Records of contacts, or one record, leave known what is known of everybody of whom
\* no older record comes last, if the fetches stay or end with what they owed.
LEMMA KnownKeeps ==
  ASSUME MembersInv, NEW T \in SUBSET Contacts, NEW news \in [T -> Record],
         \A c \in T : news[c] <= srv[c], AddMembers(news),
         NEW c \in Contacts, opens = 1, ~missed, c \notin regressed',
         UNCHANGED srv,
         srv[c] \in pushes[c] =>
           srv[c] \in pushes'[c] \/ (c \in T /\ news[c] = srv[c]),
         \A f \in fetches : Listing(f, c) =>
           \/ c \in T /\ news[c] = srv[c]
           \/ \E g \in fetches' : Listing(g, c)'
  PROVE  Known(c)'
<1>1. /\ members'[c] = IF c \in T THEN news[c] ELSE members[c]
      /\ c \notin regressed /\ (c \in T => ~(news[c] < members[c]))
  BY AddKeeps
<1>2. /\ members[c] \in Nat /\ srv[c] \in Nat /\ members[c] <= srv[c]
      /\ c \in T => news[c] \in Nat /\ news[c] <= srv[c]
  BY DEF MembersInv, RoomTypeOK, Records, Record
<1>3. Known(c)
  BY <1>1 DEF MembersInv
<1>4. CASE members[c] = srv[c]
  BY <1>1, <1>2, <1>4 DEF Known
<1>5. CASE srv[c] \in pushes[c]
  BY <1>1, <1>5 DEF Known
<1>6. CASE \E f \in fetches : Listing(f, c)
  BY <1>1, <1>6 DEF Known
<1> QED BY <1>3, <1>4, <1>5, <1>6 DEF Known

\* The service's records and its bounds are natural numbers.
LEMMA RecordsAreNat ==
  ASSUME MembersInv
  PROVE  /\ Record \subseteq Nat /\ visit \in Nat /\ opens \in 0 .. 1 /\ MaxOpenings \in Nat
         /\ \A c \in Contacts : members[c] \in Nat /\ srv[c] \in Nat /\ srv[c] \in Record
         /\ \A f \in fetches : f \in Fetch /\ f.visit \in Nat /\ f.active \in BOOLEAN
BY RoomBounds DEF MembersInv, RoomTypeOK, Record, Fetch

\* The room is opened: everybody is listed by one of the two first pages.
LEMMA OpenKeeps ==
  ASSUME MembersInv, NEW kinds, kinds = BOOLEAN \/ (kinds = {} /\ srv = Nobody), OpenRoom(kinds)
  PROVE  MembersInv'
<1> DEFINE first == {FirstPage(active, visit') : active \in kinds}
<1>1. /\ opens' = 1 /\ visit' = visit + 1 /\ visit < MaxOpenings
      /\ members' = Nobody /\ shown' = {} /\ regressed' = {} /\ fetches' = fetches \cup first
      /\ missed' = FALSE /\ UNCHANGED <<heard, done, srv, pushes, changes, tainted>>
  BY DEF OpenRoom
<1>2. visit' \in 1 .. MaxOpenings /\ visit' > visit /\ kinds \subseteq BOOLEAN
  BY <1>1, RecordsAreNat
<1>3. \A f \in first : /\ f \in Fetch /\ f.visit = visit' /\ f.left = Contacts
                       /\ f.since = srv /\ f.active \in kinds /\ f = FirstPage(f.active, visit')
  BY <1>2 DEF FirstPage, Fetch, MembersInv, RoomTypeOK
<1>4. \A active \in kinds : \E f \in first : f.active = active
  <2>1. \A active \in kinds : FirstPage(active, visit').active = active
    BY DEF FirstPage
  <2> QED BY <2>1
<1> HIDE DEF first
<1>5. /\ members' \in [Contacts -> Record]
      /\ \A c \in Contacts : members'[c] = 0
  BY <1>1, RoomBounds DEF Nobody, Record
<1>6. RoomTypeOK'
  <2>1. opens' \in 0 .. 1 /\ visit' \in 0 .. MaxOpenings
    BY <1>1, <1>2, RecordsAreNat
  <2>2. {heard', missed', tainted'} \subseteq BOOLEAN
    BY <1>1 DEF MembersInv, RoomTypeOK
  <2>3. fetches' \subseteq Fetch
    BY <1>1, <1>3 DEF MembersInv, RoomTypeOK
  <2> QED BY <1>1, <1>5, <2>1, <2>2, <2>3 DEF MembersInv, RoomTypeOK
<1>7. Records'
  <2>1. \A c \in Contacts : members'[c] <= srv'[c] /\ \A n \in pushes'[c] : n <= srv'[c]
    BY <1>1, <1>5, RecordsAreNat DEF MembersInv, Records
  <2>2. \A f \in fetches' : f.visit <= visit' /\ \A c \in Contacts : f.since[c] <= srv'[c]
    BY <1>1, <1>2, <1>3, RecordsAreNat DEF MembersInv, Records
  <2>3. shown' = {c \in Contacts : Active(members'[c])}
    BY <1>1, <1>5, NeverActive
  <2>4. \A f, g \in fetches' : f.visit = g.visit /\ f.active = g.active => f = g
    <3>1. \A f \in fetches, g \in first : f.visit # g.visit
      BY <1>1, <1>3, RecordsAreNat DEF MembersInv, Records
    <3> QED BY <1>1, <1>3, <3>1 DEF MembersInv, Records
  <2> QED BY <2>1, <2>2, <2>3, <2>4 DEF Records
<1>8. ASSUME NEW c \in Contacts PROVE Known(c)'
  <2>1. CASE srv = Nobody
    BY <1>1, <1>5, <2>1 DEF Known, Nobody
  <2>2. CASE kinds = BOOLEAN
    <3>1. Active(srv[c]) \in kinds
      BY <2>2, NeverActive
    <3>2. PICK f \in first : f.active = Active(srv[c])
      BY <1>4, <3>1
    <3>3. Listing(f, c)'
      BY <1>1, <1>3, <3>2 DEF Listing
    <3> QED BY <1>1, <3>3 DEF Known
  <2> QED BY <2>1, <2>2
<1> QED BY <1>6, <1>7, <1>8 DEF MembersInv

\* The room is closed; its fetches go on or are cancelled.
LEMMA CloseKeeps ==
  ASSUME MembersInv, CloseRoom, fetches' \subseteq fetches
  PROVE  MembersInv'
<1>1. /\ opens' = 0 /\ heard' = FALSE /\ members' = Nobody /\ shown' = {} /\ regressed' = {}
      /\ done' = NotDone /\ tainted' = FALSE /\ pushes' = [c \in Contacts |-> {}]
      /\ UNCHANGED <<visit, srv, changes, missed>>
  BY DEF CloseRoom
<1>2. members' \in [Contacts -> Record] /\ \A c \in Contacts : members'[c] = 0 /\ pushes'[c] = {}
  BY <1>1, RoomBounds DEF Nobody, Record
<1>3. RoomTypeOK'
  <2>1. {heard', missed', tainted'} \subseteq BOOLEAN
    BY <1>1 DEF MembersInv, RoomTypeOK
  <2>2. done' \in [BOOLEAN -> BOOLEAN] /\ pushes' \in [Contacts -> SUBSET Record]
    BY <1>1 DEF NotDone
  <2> QED BY <1>1, <1>2, <2>1, <2>2 DEF MembersInv, RoomTypeOK
<1>4. Records'
  BY <1>1, <1>2, NeverActive, RecordsAreNat DEF MembersInv, Records
<1> QED BY <1>1, <1>3, <1>4 DEF MembersInv

\* A page may list a contact by a record the service had since it was asked for, and
\* lists her if it owes her.
LEMMA PageOwes ==
  ASSUME MembersInv, NEW f \in fetches, NEW S \in SUBSET f.left, NEW news \in Pages(f, S)
  PROVE  /\ DOMAIN news \subseteq S /\ DOMAIN news \subseteq Contacts
         /\ news \in [DOMAIN news -> Record] /\ \A c \in DOMAIN news : news[c] <= srv[c]
         /\ \A c \in S : Listing(f, c) /\ srv[c] # 0 => c \in DOMAIN news /\ news[c] = srv[c]
<1>1. PICK T \in SUBSET S : /\ \A c \in S \ T : Passable(f, c)
                            /\ news \in [T -> Record] /\ \A c \in T : news[c] \in Read(f, c)
  BY DEF Pages
<1>2. DOMAIN news = T /\ T \subseteq Contacts /\ f \in Fetch
  BY <1>1, RecordsAreNat DEF Fetch
<1>3. \A c \in Contacts : srv[c] \in Nat /\ f.since[c] \in Nat
  BY <1>2, RecordsAreNat DEF Fetch
<1>4. \A c \in T : news[c] \in Nat /\ news[c] <= srv[c]
  <2>1. TAKE c \in T
  <2>2. news[c] \in f.since[c] .. srv[c] /\ c \in Contacts
    BY <1>1, <1>2 DEF Read
  <2>3. srv[c] \in Nat /\ f.since[c] \in Nat
    BY <1>3, <2>2
  <2> QED BY <2>2, <2>3
<1>5. ASSUME NEW c \in S, Listing(f, c), srv[c] # 0 PROVE c \in T /\ news[c] = srv[c]
  <2>1. c \in Contacts /\ f.since[c] .. srv[c] = {srv[c]} /\ f.active = Active(srv[c])
    BY <1>2, <1>3, <1>5 DEF Fetch, Listing
  <2>2. ~Passable(f, c)
    BY <1>5, <2>1 DEF Passable
  <2>3. c \in T
    BY <1>1, <2>2
  <2> QED BY <1>1, <2>1, <2>3 DEF Read
<1> QED BY <1>1, <1>2, <1>4, <1>5

\* A fetch ends, with its last page or without.
LEMMA EndKeeps ==
  ASSUME MembersInv, NEW f, LastPage(f) \/ FetchFails(f)
  PROVE  MembersInv'
<1>1. /\ f \in fetches /\ fetches' = fetches \ {f} /\ done' = [done EXCEPT ![f.active] = TRUE]
      /\ tainted' = (tainted \/ f.visit # visit \/ opens = 0)
      /\ UNCHANGED <<opens, visit, heard, srv, pushes, changes>>
  BY DEF LastPage, FetchFails, FetchEnds, roomService
<1>2. f \in Fetch /\ f.active \in BOOLEAN
  BY <1>1, RecordsAreNat
<1>3. done' \in [BOOLEAN -> BOOLEAN] /\ tainted' \in BOOLEAN
  BY <1>1, <1>2 DEF MembersInv, RoomTypeOK
<1>4. CASE FetchFails(f)
  <2>1. missed' = (missed \/ f.visit = visit) /\ UNCHANGED <<members, shown, regressed>>
    BY <1>4 DEF FetchFails
  <2>2. RoomTypeOK' /\ Records'
    BY <1>1, <1>3, <2>1 DEF MembersInv, RoomTypeOK, Records
  <2>3. ASSUME opens = 1, ~missed', NEW c \in Contacts \ regressed PROVE Known(c)'
    <3>1. Known(c) /\ f.visit # visit
      BY <2>1, <2>3 DEF MembersInv, RoomTypeOK
    <3> QED BY <1>1, <2>1, <3>1 DEF Known, Listing
  <2> QED BY <1>1, <2>1, <2>2, <2>3 DEF MembersInv
<1>5. CASE LastPage(f)
  <2>1. missed' = missed /\ \E news \in Pages(f, f.left) : AddMembers(news)
    BY <1>5 DEF LastPage
  <2>2. PICK news \in Pages(f, f.left) : AddMembers(news)
    BY <2>1
  <2>3. /\ DOMAIN news \in SUBSET Contacts /\ news \in [DOMAIN news -> Record]
        /\ \A c \in DOMAIN news : news[c] <= srv[c]
        /\ \A c \in f.left : Listing(f, c) /\ srv[c] # 0 => c \in DOMAIN news /\ news[c] = srv[c]
    BY <1>1, PageOwes
  <2>4. RoomTypeOK' /\ Records'
    BY <1>1, <1>3, <2>1, <2>2, <2>3, AddKeeps DEF MembersInv, RoomTypeOK, Records
  <2>5. ASSUME opens = 1, ~missed, NEW c \in Contacts \ regressed' PROVE Known(c)'
    <3>1. CASE srv[c] = 0
      BY <1>1, <2>4, <3>1 DEF Records, Known, RoomTypeOK, Record
    <3>2. CASE srv[c] # 0
      <4>1. \A g \in fetches : Listing(g, c) =>
              \/ c \in DOMAIN news /\ news[c] = srv[c]
              \/ \E h \in fetches' : Listing(h, c)'
        BY <1>1, <2>3, <3>2 DEF Listing
      <4> QED BY <1>1, <2>2, <2>3, <2>5, <4>1, KnownKeeps
    <3> QED BY <3>1, <3>2
  <2> QED BY <1>1, <2>1, <2>4, <2>5 DEF MembersInv
<1> QED BY <1>4, <1>5

\* A page, and the next one is asked for.
LEMMA NextKeeps ==
  ASSUME MembersInv, NEW f, NextPage(f)
  PROVE  MembersInv'
<1>1. PICK S \in (SUBSET f.left) \ {f.left} :
        /\ \E news \in Pages(f, S) : AddMembers(news)
        /\ fetches' = (fetches \ {f}) \cup {[f EXCEPT !.left = @ \ S, !.since = srv]}
  BY DEF NextPage
<1>2. /\ f \in fetches /\ f \in Fetch
      /\ UNCHANGED <<opens, visit, done, tainted, heard, srv, pushes, changes, missed>>
  BY RecordsAreNat DEF NextPage, roomService
<1>3. PICK g \in Fetch : /\ fetches' = (fetches \ {f}) \cup {g}
                        /\ g.visit = f.visit /\ g.active = f.active /\ g.since = srv
                        /\ g.left = f.left \ S
  <2> DEFINE h == [f EXCEPT !.left = @ \ S, !.since = srv]
  <2>1. /\ h \in Fetch /\ h.visit = f.visit /\ h.active = f.active /\ h.since = srv
        /\ h.left = f.left \ S
    BY <1>2 DEF Fetch, MembersInv, RoomTypeOK
  <2> QED BY <1>1, <2>1
<1>4. PICK news \in Pages(f, S) : AddMembers(news)
  BY <1>1
<1>5. /\ DOMAIN news \in SUBSET Contacts /\ news \in [DOMAIN news -> Record]
      /\ \A c \in DOMAIN news : news[c] <= srv[c]
      /\ \A c \in S : Listing(f, c) /\ srv[c] # 0 => c \in DOMAIN news /\ news[c] = srv[c]
  BY <1>2, PageOwes
<1>6. RoomTypeOK'
  <2>1. /\ members' \in [Contacts -> Record] /\ shown' \subseteq Contacts
        /\ regressed' \subseteq Contacts
    BY <1>4, <1>5, AddKeeps
  <2>2. fetches' \subseteq Fetch
    BY <1>3 DEF MembersInv, RoomTypeOK
  <2> QED BY <1>2, <2>1, <2>2 DEF MembersInv, RoomTypeOK
<1>7. Records'
  <2>1. \A c \in Contacts : members'[c] <= srv'[c] /\ \A n \in pushes'[c] : n <= srv'[c]
    BY <1>2, <1>4, <1>5, AddKeeps DEF MembersInv, Records
  <2>2. \A h \in fetches' : h.visit <= visit' /\ \A c \in Contacts : h.since[c] <= srv'[c]
    BY <1>2, <1>3, RecordsAreNat DEF MembersInv, Records
  <2>3. shown' = {c \in Contacts : Active(members'[c])}
    BY <1>4, <1>5, AddKeeps
  <2>4. \A h, k \in fetches' : h.visit = k.visit /\ h.active = k.active => h = k
    BY <1>2, <1>3 DEF MembersInv, Records
  <2> QED BY <2>1, <2>2, <2>3, <2>4 DEF Records
<1>8. ASSUME opens = 1, ~missed, NEW c \in Contacts \ regressed' PROVE Known(c)'
  <2>1. CASE srv[c] = 0
    BY <1>2, <1>6, <1>7, <2>1 DEF Records, Known, RoomTypeOK, Record
  <2>2. CASE srv[c] # 0
    <3>1. Listing(f, c) /\ c \notin S => Listing(g, c)'
      BY <1>2, <1>3 DEF Listing
    <3>2. \A h \in fetches : Listing(h, c) =>
            \/ c \in DOMAIN news /\ news[c] = srv[c]
            \/ \E k \in fetches' : Listing(k, c)'
      BY <1>2, <1>3, <1>5, <2>2, <3>1 DEF Listing
    <3> QED BY <1>2, <1>4, <1>5, <1>8, <3>2, KnownKeeps
  <2> QED BY <2>1, <2>2
<1> QED BY <1>2, <1>6, <1>7, <1>8 DEF MembersInv

\* One record, of a push or of an answer.
LEMMA OneKeeps ==
  ASSUME MembersInv, NEW x \in Contacts, NEW n \in Record, n <= srv[x], AddMembers(One(x, n)),
         UNCHANGED <<opens, visit, done, fetches, tainted, heard, srv, changes, missed>>,
         pushes' = pushes \/ pushes' = [pushes EXCEPT ![x] = @ \ {n}]
  PROVE  MembersInv'
<1> DEFINE news == One(x, n)
<1>1. news \in [{x} -> Record] /\ news[x] = n /\ {x} \in SUBSET Contacts
  BY DEF One
<1>2. AddMembers(news)
  OBVIOUS
<1> HIDE DEF news
<1>3. \A c \in {x} : news[c] <= srv[c]
  BY <1>1
<1>4. /\ pushes' \in [Contacts -> SUBSET Record]
      /\ \A c \in Contacts : pushes'[c] \subseteq pushes[c]
      /\ \A c \in Contacts : \A k \in pushes[c] : k \in pushes'[c] \/ (c = x /\ k = n)
  BY DEF MembersInv, RoomTypeOK
<1>5. RoomTypeOK'
  <2>1. /\ members' \in [Contacts -> Record] /\ shown' \subseteq Contacts
        /\ regressed' \subseteq Contacts
    BY <1>1, <1>2, <1>3, AddKeeps
  <2> QED BY <1>4, <2>1 DEF MembersInv, RoomTypeOK
<1>6. Records'
  BY <1>1, <1>2, <1>3, <1>4, AddKeeps DEF MembersInv, Records
<1>7. ASSUME opens = 1, ~missed, NEW c \in Contacts \ regressed' PROVE Known(c)'
  <2>1. srv[c] \in pushes[c] => srv[c] \in pushes'[c] \/ (c \in {x} /\ news[c] = srv[c])
    BY <1>1, <1>4
  <2>2. \A f \in fetches : Listing(f, c) => \E g \in fetches' : Listing(g, c)'
    BY DEF Listing
  <2> QED BY <1>1, <1>2, <1>3, <1>7, <2>1, <2>2, KnownKeeps
<1> QED BY <1>5, <1>6, <1>7 DEF MembersInv

\* The oldest push of a contact comes.
LEMMA PushedKeeps ==
  ASSUME MembersInv, NEW c \in Contacts, MembershipPushed(c)
  PROVE  MembersInv'
<1> DEFINE n == CHOOSE k \in pushes[c] : \A j \in pushes[c] : k <= j
<1>1. /\ pushes[c] # {} /\ pushes[c] \subseteq Nat /\ pushes[c] \subseteq Record
      /\ \A k \in pushes[c] : k <= srv[c]
  BY RecordsAreNat DEF MembershipPushed, MembersInv, RoomTypeOK, Records
<1>2. \E k \in pushes[c] : \A j \in pushes[c] : k <= j
  <2> DEFINE R == {p \in Nat \X Nat : p[1] < p[2]}
  <2>1. IsWellFoundedOn(R, Nat)
    BY NatLessThanWellFounded DEF OpToRel
  <2>2. \A j, k \in Nat : <<j, k>> \in R <=> j < k
    OBVIOUS
  <2> HIDE DEF R
  <2>3. PICK k \in pushes[c] : \A j \in pushes[c] : ~(<<j, k>> \in R)
    BY <1>1, <2>1, WFMin
  <2>4. ASSUME NEW j \in pushes[c] PROVE k <= j
    <3>1. j \in Nat /\ k \in Nat /\ ~(j < k)
      BY <1>1, <2>2, <2>3
    <3> QED BY <3>1
  <2> QED BY <2>4
<1>3. n \in pushes[c]
  BY <1>2
<1>4. /\ AddMembers(One(c, n)) /\ pushes' = [pushes EXCEPT ![c] = @ \ {n}]
      /\ UNCHANGED <<opens, visit, done, fetches, tainted, heard, srv, changes, missed>>
  BY DEF MembershipPushed
<1> HIDE DEF n
<1> QED BY <1>1, <1>3, <1>4, OneKeeps

\* A contact joins or leaves: the record is pushed, or it is missed.
LEMMA ChangedKeeps ==
  ASSUME MembersInv, NEW x \in Contacts, Changed(x)
  PROVE  /\ MembersInv' /\ srv'[x] = srv[x] + 1 /\ UNCHANGED room
         /\ \A c \in Contacts : srv[c] <= srv'[c]
<1>1. /\ srv' = [srv EXCEPT ![x] = srv[x] + 1] /\ srv[x] <= MaxChanges
      /\ changes < MaxChanges /\ changes' = changes + 1
      /\ pushes' = IF heard THEN [pushes EXCEPT ![x] = @ \cup {srv'[x]}] ELSE pushes
      /\ missed' = (missed \/ (opens = 1 /\ ~heard)) /\ UNCHANGED room /\ heard' = heard
  BY DEF Changed
<1>2. /\ opens' = opens /\ visit' = visit /\ members' = members /\ done' = done
      /\ fetches' = fetches /\ shown' = shown /\ regressed' = regressed /\ tainted' = tainted
  BY <1>1 DEF room
<1>3. /\ srv'[x] = srv[x] + 1 /\ srv' \in [Contacts -> Record]
      /\ \A c \in Contacts : c # x => srv'[c] = srv[c]
  BY <1>1, RoomBounds, RecordsAreNat DEF MembersInv, RoomTypeOK, Record
<1>4. /\ pushes' \in [Contacts -> SUBSET Record]
      /\ \A c \in Contacts : /\ pushes[c] \subseteq pushes'[c]
                             /\ \A n \in pushes'[c] : n \in pushes[c] \/ (c = x /\ n = srv'[x])
      /\ heard => srv'[x] \in pushes'[x]
  <2>1. CASE heard
    BY <1>1, <1>3, <2>1 DEF MembersInv, RoomTypeOK
  <2>2. CASE ~heard
    BY <1>1, <2>2 DEF MembersInv, RoomTypeOK
  <2> QED BY <2>1, <2>2
<1>5. \A c \in Contacts : srv[c] <= srv'[c]
  BY <1>3, RecordsAreNat
<1>6. RoomTypeOK'
  <2>1. {heard', missed', tainted'} \subseteq BOOLEAN /\ changes' \in 0 .. MaxChanges
    BY <1>1, <1>2, RoomBounds DEF MembersInv, RoomTypeOK
  <2> QED BY <1>2, <1>3, <1>4, <2>1 DEF MembersInv, RoomTypeOK
<1>7. Records'
  <2>1. \A c \in Contacts : members'[c] <= srv'[c]
    BY <1>2, <1>3, <1>5, RecordsAreNat DEF MembersInv, Records
  <2>2. \A c \in Contacts : \A n \in pushes'[c] : n <= srv'[c]
    <3>1. \A c \in Contacts : \A n \in pushes[c] : n \in Nat /\ n <= srv[c]
      BY RecordsAreNat DEF MembersInv, RoomTypeOK, Records
    <3> QED BY <1>3, <1>4, <1>5, <3>1, RecordsAreNat
  <2>3. \A f \in fetches' : f.visit <= visit' /\ \A c \in Contacts : f.since[c] <= srv'[c]
    <3>1. \A f \in fetches : \A c \in Contacts : f.since[c] \in Nat
      BY RecordsAreNat DEF Fetch
    <3> QED BY <1>2, <1>3, <1>5, <3>1, RecordsAreNat DEF MembersInv, Records
  <2> QED BY <1>2, <2>1, <2>2, <2>3 DEF MembersInv, Records
<1>8. ASSUME opens = 1, ~missed', NEW c \in Contacts \ regressed PROVE Known(c)'
  <2>1. heard /\ ~missed
    BY <1>1, <1>8 DEF MembersInv, RoomTypeOK
  <2>2. CASE c = x
    BY <1>4, <2>1, <2>2 DEF Known
  <2>3. CASE c # x
    BY <1>2, <1>3, <1>4, <1>8, <2>1, <2>3 DEF MembersInv, Known, Listing
  <2> QED BY <2>2, <2>3
<1> QED BY <1>1, <1>2, <1>3, <1>5, <1>6, <1>7, <1>8 DEF MembersInv

\* The subscription reaches the service, or the push channel is lost.
LEMMA ChannelKeeps ==
  ASSUME MembersInv, Subscribed \/ PushesLost
  PROVE  MembersInv' /\ UNCHANGED <<room, srv>>
<1>1. UNCHANGED <<room, srv, changes>> /\ heard' \in BOOLEAN /\ missed' \in BOOLEAN
  BY DEF Subscribed, PushesLost, MembersInv, RoomTypeOK
<1>2. UNCHANGED <<opens, visit, members, done, fetches, shown, regressed, tainted>>
  BY <1>1 DEF room
<1>3. CASE Subscribed
  <2>1. pushes' = pushes /\ missed' = missed
    BY <1>3 DEF Subscribed
  <2> QED BY <1>1, <1>2, <2>1 DEF MembersInv, RoomTypeOK, Records, Known, Listing
<1>4. CASE PushesLost
  <2>1. pushes' = [c \in Contacts |-> {}] /\ missed' = TRUE
    BY <1>4 DEF PushesLost
  <2> QED BY <1>1, <1>2, <2>1 DEF MembersInv, RoomTypeOK, Records
<1> QED BY <1>1, <1>3, <1>4

\* Nothing else touches the members.
LEMMA MembersStutter ==
  ASSUME MembersInv, UNCHANGED roomVars
  PROVE  MembersInv'
BY DEF roomVars, room, roomService, MembersInv, RoomTypeOK, Records, Known, Listing

-----------------------------------------------------------------------------
(* What the window waits for, and what the user asked for.                 *)

\* Unless a fetch of an earlier opening has ended in members_done, the window waits
\* for the fetches of this opening that have not ended.
DoneInv ==
  ~meeting /\ ~tainted =>
    IF opens = 1
    THEN /\ \A active \in BOOLEAN :
              done[active] <=> \A f \in fetches : f.visit = visit => f.active # active
         /\ chat.ready <=> \A active \in BOOLEAN : done[active]
    ELSE done = NotDone /\ ~chat.ready

\* A record that an answer brings is one the service has had; the members of a
\* meeting's room are left out.
RequestInv ==
  /\ phase \in {"up", "down"} /\ meeting \in BOOLEAN /\ request \in Requests \cup {NoRequest}
  /\ request.kind = "add" => request.record <= srv[request.who]
  /\ meeting => srv = Nobody /\ fetches = {} /\ request.kind \notin {"find", "add"}

\* A window of a room is opened with both fetches under way.
LEMMA DoneOpens ==
  ASSUME MembersInv, DoneInv, OpenRoom(Listings), meeting' = meeting, meeting \in BOOLEAN,
         chat' = chat \/ meeting
  PROVE  DoneInv'
<1> SUFFICES ASSUME ~meeting, ~tainted PROVE DoneInv'
  BY DEF DoneInv, OpenRoom
<1>1. /\ opens = 0 /\ opens' = 1 /\ visit' = visit + 1 /\ tainted' = tainted /\ done' = done
      /\ fetches' = fetches \cup {FirstPage(active, visit') : active \in BOOLEAN}
      /\ chat' = chat /\ meeting' = meeting
  BY DEF OpenRoom, Listings
<1>2. done' = NotDone /\ ~chat'.ready
  BY <1>1 DEF DoneInv
<1>3. \A active \in BOOLEAN : \E f \in fetches' : f.visit = visit' /\ f.active = active
  <2>1. \A active \in BOOLEAN : FirstPage(active, visit').visit = visit'
                                /\ FirstPage(active, visit').active = active
    BY DEF FirstPage
  <2> QED BY <1>1, <2>1
<1> QED BY <1>1, <1>2, <1>3 DEF DoneInv, NotDone

\* A fetch ends, and the window is told if it was the last.
LEMMA DoneEnds ==
  ASSUME MembersInv, DoneInv, chat \in Chat, NEW f, LastPage(f) \/ FetchFails(f), Ready(f),
         meeting' = meeting
  PROVE  DoneInv'
<1>1. /\ f \in fetches /\ fetches' = fetches \ {f} /\ done' = [done EXCEPT ![f.active] = TRUE]
      /\ tainted' = (tainted \/ f.visit # visit \/ opens = 0)
      /\ opens' = opens /\ visit' = visit
  BY DEF LastPage, FetchFails, FetchEnds
<1>2. f.active \in BOOLEAN /\ (~f.active) \in BOOLEAN /\ done \in [BOOLEAN -> BOOLEAN]
  BY <1>1, RecordsAreNat DEF MembersInv, RoomTypeOK
<1> SUFFICES ASSUME ~meeting, ~tainted, f.visit = visit, opens # 0 PROVE DoneInv'
  BY <1>1 DEF DoneInv
<1>3. opens = 1
  BY RecordsAreNat
<1>4. /\ \A active \in BOOLEAN :
           done[active] <=> \A g \in fetches : g.visit = visit => g.active # active
      /\ chat.ready <=> \A active \in BOOLEAN : done[active]
  BY <1>3 DEF DoneInv
<1>5. \A active \in BOOLEAN : done'[active] <=> (active = f.active \/ done[active])
  BY <1>1, <1>2
<1>6. ASSUME NEW active \in BOOLEAN
      PROVE  done'[active] <=> \A g \in fetches' : g.visit = visit => g.active # active
  <2>1. CASE active = f.active
    BY <1>1, <1>5, <2>1 DEF MembersInv, Records
  <2>2. CASE active # f.active
    BY <1>1, <1>4, <1>5, <2>2
  <2> QED BY <2>1, <2>2
<1>7. chat'.ready <=> (chat.ready \/ done[~f.active])
  <2>1. [chat EXCEPT !.ready = TRUE].ready = TRUE
    BY DEF Chat
  <2>2. chat.ready \in BOOLEAN
    BY DEF Chat
  <2> QED BY <1>3, <2>1, <2>2 DEF Ready, Open, SignalsDone
<1>8. \A active \in BOOLEAN : active = f.active \/ active = ~f.active
  BY <1>2
<1>9. chat'.ready <=> \A active \in BOOLEAN : done'[active]
  BY <1>2, <1>4, <1>5, <1>7, <1>8
<1> QED BY <1>1, <1>3, <1>6, <1>9 DEF DoneInv

\* A fetch goes on with its next page.
LEMMA DoneGoesOn ==
  ASSUME MembersInv, DoneInv, NEW f, NextPage(f), UNCHANGED <<meeting, chat>>
  PROVE  DoneInv'
<1>1. PICK S : fetches' = (fetches \ {f}) \cup {[f EXCEPT !.left = @ \ S, !.since = srv]}
  BY DEF NextPage
<1>2. f \in fetches /\ f \in Fetch /\ UNCHANGED <<opens, visit, done, tainted>>
  BY RecordsAreNat DEF NextPage
<1>3. PICK g : fetches' = (fetches \ {f}) \cup {g} /\ g.visit = f.visit /\ g.active = f.active
  <2>1. /\ [f EXCEPT !.left = @ \ S, !.since = srv].visit = f.visit
        /\ [f EXCEPT !.left = @ \ S, !.since = srv].active = f.active
    BY <1>2 DEF Fetch
  <2> QED BY <1>1, <2>1
<1>4. \A active \in BOOLEAN :
        (\A h \in fetches' : h.visit = visit => h.active # active) <=>
        (\A h \in fetches : h.visit = visit => h.active # active)
  BY <1>2, <1>3
<1> QED BY <1>2, <1>4 DEF DoneInv

\* The window is closed.
LEMMA DoneCloses ==
  ASSUME CloseRoom, chat' = NoChat
  PROVE  DoneInv'
BY DEF CloseRoom, NoChat, DoneInv

\* Nothing else is waited for.
LEMMA DoneStutters ==
  ASSUME DoneInv, UNCHANGED <<opens, visit, done, fetches, tainted, meeting, chat.ready>>
  PROVE  DoneInv'
BY DEF DoneInv

\* The service's records only get newer.
LEMMA RequestStutters ==
  ASSUME MembersInv, MembersInv', RequestInv, UNCHANGED <<phase, meeting, request>>,
         \A c \in Contacts : srv[c] <= srv'[c],
         meeting => srv' = srv /\ fetches' \subseteq fetches
  PROVE  RequestInv'
<1>1. request.kind = "add" => request.who \in Contacts /\ request.record \in Record
  BY DEF RequestInv, Requests, NoRequest
<1>2. request.kind = "add" => request.record <= srv'[request.who]
  <2>1. \A c \in Contacts : srv[c] \in Nat /\ srv'[c] \in Nat
    BY RecordsAreNat DEF MembersInv, RoomTypeOK, Record
  <2> QED BY <1>1, <2>1, RecordsAreNat DEF RequestInv
<1> QED BY <1>2 DEF RequestInv

\* The service is asked to add c.
LEMMA AddingKeeps ==
  ASSUME MembersInv, RequestInv, ~meeting, NEW c \in Contacts, Adding(c),
         UNCHANGED <<phase, meeting, chat>>, DoneInv
  PROVE  MembersInv' /\ RequestInv' /\ DoneInv'
<1>1. PICK record \in {0, srv[c], srv[c] + 1} :
        /\ request' = [kind |-> "add", visit |-> visit, who |-> c, record |-> record]
        /\ IF record = srv[c] + 1 THEN Active(record) /\ Changed(c)
           ELSE (record = 0 \/ Active(record)) /\ UNCHANGED roomVars
  BY DEF Adding
<1>2. MembersInv' /\ record <= srv'[c] /\ record \in Record
      /\ UNCHANGED <<opens, visit, done, fetches, tainted>>
  <2>1. CASE record = srv[c] + 1
    <3>1. MembersInv' /\ srv'[c] = srv[c] + 1 /\ UNCHANGED room
      BY <1>1, <2>1, ChangedKeeps
    <3>2. record \in Record /\ record <= srv'[c]
      BY <2>1, <3>1, RecordsAreNat DEF MembersInv, RoomTypeOK
    <3> QED BY <3>1, <3>2 DEF room
  <2>2. CASE record # srv[c] + 1
    <3>1. record \in {0, srv[c]} /\ UNCHANGED roomVars
      BY <1>1, <2>2
    <3>2. MembersInv'
      BY <3>1, MembersStutter
    <3>3. record \in Record /\ record <= srv'[c]
      BY <3>1, RecordsAreNat, RoomBounds DEF roomVars, roomService, Record
    <3> QED BY <3>1, <3>2, <3>3 DEF roomVars, room
  <2> QED BY <2>1, <2>2
<1>3. /\ request'.kind = "add" /\ request'.record = record /\ request'.who = c
      /\ request' \in Requests
  BY <1>1, <1>2, RecordsAreNat DEF Requests
<1>4. RequestInv'
  BY <1>2, <1>3 DEF RequestInv
<1> QED BY <1>2, <1>4, DoneStutters

-----------------------------------------------------------------------------
(* The screen of the library.                                              *)

Elements == Views \cup Shares

\* The values of Now.
Rec == [screen : {"none", "connecting", "failed", "connected", "viewing", "sending"},
        src : Views \cup {None}, sink : Shares \cup {None},
        notify : SUBSET Elements, told : SUBSET {"viewer", "presenter"}]

Up(state) == state \in {"connected", "viewing", "sending"}

\* One element is served at a time, the screen is up with its websocket, and it is
\* connecting while that is being made.
ScreenInv ==
  /\ ScreenTypeOK
  /\ src = None \/ sink = None
  /\ bithub = "open" <=> Up(screen)
  /\ opening => screen = "connecting"

USE ScreenAssumption, WindowAssumption

\* What the notify of e makes of r.
Ended(e, r, d) ==
  /\ d.notify = r.notify \ {e}
  /\ d.screen = IF \/ e \in Views /\ r.screen = "viewing"
                   \/ e \in Shares /\ r.screen = "sending" THEN "connected" ELSE r.screen
  /\ d.src = IF e \in Views /\ r.screen \in {"viewing", "failed"} THEN None ELSE r.src
  /\ d.sink = IF e \in Shares /\ r.screen \in {"sending", "failed"} THEN None ELSE r.sink

\* A notify ends what its kind of element does, when the screen does that.
LEMMA DestroyedEnds ==
  ASSUME NEW r \in Rec, NEW e
  PROVE  Destroyed(e, r) \in Rec /\ Ended(e, r, Destroyed(e, r))
<1> DEFINE q == [r EXCEPT !.notify = @ \ {e}]
           d == Destroyed(e, r)
           a == [q EXCEPT !.told = @ \ {"viewer"}, !.src = None, !.screen = "connected"]
           b == [q EXCEPT !.src = None]
           c == [q EXCEPT !.told = @ \ {"presenter"}, !.sink = None, !.screen = "connected"]
           f == [q EXCEPT !.sink = None]
<1>1. /\ q \in Rec /\ q.notify = r.notify \ {e} /\ q.screen = r.screen /\ q.src = r.src
      /\ q.sink = r.sink
  BY DEF Rec
<1> HIDE DEF q
<1>2. /\ a \in Rec /\ a.notify = q.notify /\ a.screen = "connected" /\ a.src = None
      /\ a.sink = q.sink
  BY <1>1 DEF Rec
<1>3. b \in Rec /\ b.notify = q.notify /\ b.screen = q.screen /\ b.src = None /\ b.sink = q.sink
  BY <1>1 DEF Rec
<1>4. /\ c \in Rec /\ c.notify = q.notify /\ c.screen = "connected" /\ c.sink = None
      /\ c.src = q.src
  BY <1>1 DEF Rec
<1>5. f \in Rec /\ f.notify = q.notify /\ f.screen = q.screen /\ f.sink = None /\ f.src = q.src
  BY <1>1 DEF Rec
<1>6. CASE e \in Views /\ r.screen = "viewing"
  <2>1. d = a /\ e \notin Shares
    BY <1>6 DEF Destroyed, q
  <2> HIDE DEF a, d
  <2> QED BY <1>1, <1>2, <1>6, <2>1 DEF Ended, d
<1>7. CASE e \in Views /\ r.screen = "failed"
  <2>1. d = b /\ e \notin Shares
    BY <1>7 DEF Destroyed, q
  <2> HIDE DEF b, d
  <2> QED BY <1>1, <1>3, <1>7, <2>1 DEF Ended, d
<1>8. CASE e \in Shares /\ r.screen = "sending"
  <2>1. d = c /\ e \notin Views
    BY <1>8 DEF Destroyed, q
  <2> HIDE DEF c, d
  <2> QED BY <1>1, <1>4, <1>8, <2>1 DEF Ended, d
<1>9. CASE e \in Shares /\ r.screen = "failed"
  <2>1. d = f /\ e \notin Views
    BY <1>9 DEF Destroyed, q
  <2> HIDE DEF f, d
  <2> QED BY <1>1, <1>5, <1>9, <2>1 DEF Ended, d
<1>10. CASE /\ ~(e \in Views /\ r.screen \in {"viewing", "failed"})
            /\ ~(e \in Shares /\ r.screen \in {"sending", "failed"})
  <2>1. d = q
    BY <1>10 DEF Destroyed, q
  <2> HIDE DEF d
  <2> QED BY <1>1, <1>10, <2>1 DEF Ended, d
<1> QED BY <1>6, <1>7, <1>8, <1>9, <1>10

\* So does what replaces the callbacks of an element, or clears them.
LEMMA ClearedEnds ==
  ASSUME NEW r \in Rec, NEW e
  PROVE  /\ Cleared(e, r) \in Rec
         /\ IF e \in r.notify THEN Ended(e, r, Cleared(e, r)) ELSE Cleared(e, r) = r
BY DestroyedEnds DEF Cleared

\* An element that is dropped ends what the screen does with it.
LEMMA DropsEnd ==
  ASSUME NEW r \in Rec
  PROVE  /\ DropSrc(r) \in Rec /\ DropSrc(r).src = None /\ DropSrc(r).sink = r.sink
         /\ DropSrc(r).notify \subseteq r.notify
         /\ DropSrc(r).screen = IF r.src \in r.notify /\ r.screen = "viewing"
                                THEN "connected" ELSE r.screen
         /\ DropSink(r) \in Rec /\ DropSink(r).sink = None /\ DropSink(r).src = r.src
         /\ DropSink(r).notify \subseteq r.notify
         /\ DropSink(r).screen = IF r.sink \in r.notify /\ r.screen = "sending"
                                 THEN "connected" ELSE r.screen
<1> DEFINE x == Cleared(r.src, r)
           y == Cleared(r.sink, r)
           u == [x EXCEPT !.src = None]
           v == [y EXCEPT !.sink = None]
<1>1. /\ r.src \in r.notify => r.src \in Views /\ r.src \notin Shares
      /\ r.sink \in r.notify => r.sink \in Shares /\ r.sink \notin Views
  BY DEF Rec, Elements
<1>2. x \in Rec /\ IF r.src \in r.notify THEN Ended(r.src, r, x) ELSE x = r
  BY ClearedEnds
<1>3. y \in Rec /\ IF r.sink \in r.notify THEN Ended(r.sink, r, y) ELSE y = r
  BY ClearedEnds
<1>4. DropSrc(r) = u /\ DropSink(r) = v
  BY DEF DropSrc, DropSink
<1> HIDE DEF x, y
<1>5. /\ u \in Rec /\ u.src = None /\ u.notify = x.notify /\ u.screen = x.screen
      /\ u.sink = x.sink
  BY <1>2 DEF Rec
<1>6. /\ v \in Rec /\ v.sink = None /\ v.notify = y.notify /\ v.screen = y.screen
      /\ v.src = y.src
  BY <1>3 DEF Rec
<1> HIDE DEF u, v
<1>7. /\ x.sink = r.sink /\ x.notify \subseteq r.notify
      /\ x.screen = IF r.src \in r.notify /\ r.screen = "viewing" THEN "connected" ELSE r.screen
  BY <1>1, <1>2 DEF Ended
<1>8. /\ y.src = r.src /\ y.notify \subseteq r.notify
      /\ y.screen = IF r.sink \in r.notify /\ r.screen = "sending" THEN "connected" ELSE r.screen
  BY <1>1, <1>3 DEF Ended
<1> QED BY <1>4, <1>5, <1>6, <1>7, <1>8

\* A new element to view is the one that is served, and it alone.
LEMMA SrcInstalled ==
  ASSUME NEW r \in Rec, NEW v \in Views, NEW open \in BOOLEAN,
         v \notin r.notify \/ r.screen = "connecting",
         IF open THEN Up(r.screen) \/ r.screen = "connecting" ELSE r.screen = "connecting"
  PROVE  /\ InstallSrc(v, open, r) \in Rec
         /\ InstallSrc(v, open, r).notify \subseteq r.notify \cup {v}
         /\ InstallSrc(v, open, r).src = v /\ InstallSrc(v, open, r).sink = None
         /\ InstallSrc(v, open, r).screen = IF open THEN "viewing" ELSE "connecting"
<1> DEFINE r0 == [r EXCEPT !.src = v]
           k == Cleared(v, r0)
           a == [k EXCEPT !.notify = @ \cup {v}]
           b == IF a.screen = "sending" THEN [a EXCEPT !.told = @ \ {"presenter"}] ELSE a
           c == DropSink(b)
           z == [c EXCEPT !.told = @ \cup {"viewer"}, !.screen = "viewing"]
<1>1. InstallSrc(v, open, r) = IF open THEN z ELSE c
  BY DEF InstallSrc, Set
<1>2. r0 \in Rec /\ r0.screen = r.screen /\ r0.src = v /\ r0.notify = r.notify
  BY DEF Rec
<1> HIDE DEF r0
<1>3. k \in Rec /\ IF v \in r0.notify THEN Ended(v, r0, k) ELSE k = r0
  BY <1>2, ClearedEnds
<1> HIDE DEF k
<1>4. k.screen = r.screen /\ k.src = v /\ k.notify \subseteq r.notify
  BY <1>2, <1>3 DEF Ended
<1>5. /\ a \in Rec /\ a.screen = r.screen /\ a.src = v /\ a.notify \subseteq r.notify \cup {v}
  BY <1>3, <1>4 DEF Rec, Elements
<1> HIDE DEF a
<1>6. b \in Rec /\ b.screen = r.screen /\ b.notify = a.notify /\ b.src = v
  BY <1>5 DEF Rec
<1> HIDE DEF b
<1>7. /\ c \in Rec /\ c.sink = None /\ c.src = v /\ c.notify \subseteq r.notify \cup {v}
      /\ r.screen = "connecting" => c.screen = "connecting"
  BY <1>5, <1>6, DropsEnd
<1> HIDE DEF c
<1>8. /\ z \in Rec /\ z.screen = "viewing" /\ z.notify = c.notify /\ z.src = c.src
      /\ z.sink = c.sink
  BY <1>7 DEF Rec
<1> HIDE DEF z
<1> QED BY <1>1, <1>7, <1>8

\* The same of a share.
LEMMA SinkInstalled ==
  ASSUME NEW r \in Rec, NEW s \in Shares, NEW open \in BOOLEAN,
         s \notin r.notify \/ r.screen = "connecting",
         IF open THEN Up(r.screen) \/ r.screen = "connecting" ELSE r.screen = "connecting"
  PROVE  /\ InstallSink(s, open, r) \in Rec
         /\ InstallSink(s, open, r).notify \subseteq r.notify \cup {s}
         /\ InstallSink(s, open, r).sink = s /\ InstallSink(s, open, r).src = None
         /\ InstallSink(s, open, r).screen = IF open THEN "sending" ELSE "connecting"
<1> DEFINE r0 == [r EXCEPT !.sink = s]
           k == Cleared(s, r0)
           a == [k EXCEPT !.notify = @ \cup {s}]
           b == IF a.screen = "viewing" THEN [a EXCEPT !.told = @ \ {"viewer"}] ELSE a
           c == DropSrc(b)
           z == [c EXCEPT !.told = @ \cup {"presenter"}, !.screen = "sending"]
<1>1. InstallSink(s, open, r) = IF open THEN z ELSE c
  BY DEF InstallSink, Set
<1>2. r0 \in Rec /\ r0.screen = r.screen /\ r0.sink = s /\ r0.notify = r.notify
  BY DEF Rec
<1> HIDE DEF r0
<1>3. k \in Rec /\ IF s \in r0.notify THEN Ended(s, r0, k) ELSE k = r0
  BY <1>2, ClearedEnds
<1> HIDE DEF k
<1>4. k.screen = r.screen /\ k.sink = s /\ k.notify \subseteq r.notify
  BY <1>2, <1>3 DEF Ended
<1>5. /\ a \in Rec /\ a.screen = r.screen /\ a.sink = s /\ a.notify \subseteq r.notify \cup {s}
  BY <1>3, <1>4 DEF Rec, Elements
<1> HIDE DEF a
<1>6. b \in Rec /\ b.screen = r.screen /\ b.notify = a.notify /\ b.sink = s
  BY <1>5 DEF Rec
<1> HIDE DEF b
<1>7. /\ c \in Rec /\ c.src = None /\ c.sink = s /\ c.notify \subseteq r.notify \cup {s}
      /\ r.screen = "connecting" => c.screen = "connecting"
  BY <1>5, <1>6, DropsEnd
<1> HIDE DEF c
<1>8. /\ z \in Rec /\ z.screen = "sending" /\ z.notify = c.notify /\ z.sink = c.sink
      /\ z.src = c.src
  BY <1>7 DEF Rec
<1> HIDE DEF z
<1> QED BY <1>1, <1>7, <1>8

\* A screen that is opened is connecting, or is up.
LEMMA OpenedIs ==
  ASSUME NEW r \in Rec
  PROVE  /\ Opened(r) \in Rec /\ Opened(r).notify \subseteq r.notify
         /\ Opened(r).screen = IF r.screen \in {"none", "failed"} THEN "connecting" ELSE r.screen
<1> DEFINE w == DropSink(DropSrc(r))
           x == [r EXCEPT !.screen = "connecting", !.told = {}]
           y == [w EXCEPT !.screen = "connecting", !.told = {}]
<1>1. x \in Rec /\ x.screen = "connecting" /\ x.notify = r.notify
  BY DEF Rec
<1>2. w \in Rec /\ w.notify \subseteq r.notify
  BY DropsEnd
<1> HIDE DEF w
<1>3. y \in Rec /\ y.screen = "connecting" /\ y.notify = w.notify
  BY <1>2 DEF Rec
<1>4. Opened(r) = IF r.screen = "none" THEN x ELSE IF r.screen = "failed" THEN y ELSE r
  BY DEF Opened, w
<1> HIDE DEF x, y
<1> QED BY <1>1, <1>2, <1>3, <1>4

\* The screen after a handler.
LEMMA BecomesHolds ==
  ASSUME NEW r \in Rec, Becomes(r), alive' \subseteq Elements, r.notify \subseteq alive',
         opening' \in BOOLEAN, bithub' \in {"none", "open", "closed"},
         r.src = None \/ r.sink = None, bithub' = "open" <=> Up(r.screen),
         opening' => r.screen = "connecting"
  PROVE  ScreenInv' /\ screen' = r.screen /\ src' = r.src /\ sink' = r.sink
<1>1. ScreenTypeOK'
  BY DEF Becomes, Rec, ScreenTypeOK, Elements
<1>2. screen' = r.screen /\ src' = r.src /\ sink' = r.sink
  BY DEF Becomes
<1> QED BY <1>1, <1>2 DEF ScreenInv, Up

\* What the invariant says of Now.
LEMMA NowKnown ==
  ASSUME ScreenInv
  PROVE  /\ Now \in Rec /\ alive \subseteq Elements /\ notify \subseteq alive
         /\ Now.screen = screen /\ Now.src = src /\ Now.sink = sink /\ Now.notify = notify
         /\ opening \in BOOLEAN /\ bithub \in {"none", "open", "closed"}
         /\ src = None \/ sink = None
BY DEF ScreenInv, ScreenTypeOK, Now, Rec, Elements

\* What a step of the library does to an element that it serves, or will: it serves
\* it, or the state of the screen changes and tells that it does not.
SrcFate ==
  src # None /\ screen \in {"connecting", "viewing"} =>
    \/ src' = src /\ screen' \in {screen, "viewing"}
    \/ screen' # screen /\ screen' \in {"connected", "failed"}
SinkFate ==
  sink # None /\ screen \in {"connecting", "sending"} =>
    \/ sink' = sink /\ screen' \in {screen, "sending"}
    \/ screen' # screen /\ screen' \in {"connected", "failed"}

\* The websocket is there, for the element that waits for it.
LEMMA ScreenWsConnectedKeeps ==
  ASSUME ScreenInv, ScreenWsConnected
  PROVE  ScreenInv' /\ SrcFate /\ SinkFate
<1> DEFINE w == [Now EXCEPT !.screen = "connected"]
<1>1. /\ opening /\ Usable /\ opening' = FALSE /\ bithub' = "open" /\ alive' = alive
      /\ Becomes(IF src # None THEN InstallSrc(src, TRUE, Now)
                 ELSE IF sink # None THEN InstallSink(sink, TRUE, Now) ELSE w)
  BY DEF ScreenWsConnected
<1>2. screen = "connecting"
  BY <1>1 DEF ScreenInv
<1>3. src \in Views \cup {None} /\ sink \in Shares \cup {None}
      /\ src \in alive \cup {None} /\ sink \in alive \cup {None}
  BY <1>1 DEF Usable, ScreenInv, ScreenTypeOK
<1>4. /\ w \in Rec /\ w.screen = "connected" /\ w.src = src /\ w.sink = sink /\ w.notify = notify
  BY NowKnown DEF Rec
<1> HIDE DEF w
<1>5. CASE src # None
  <2> DEFINE i == InstallSrc(src, TRUE, Now)
  <2>1. src \in Views /\ src \in alive /\ sink = None
    BY <1>3, <1>5, NowKnown
  <2>2. /\ i \in Rec /\ i.notify \subseteq Now.notify \cup {src}
        /\ i.src = src /\ i.sink = None /\ i.screen = "viewing"
    <3>1. Now \in Rec /\ Now.screen = "connecting"
      BY <1>2, NowKnown
    <3> QED BY <2>1, <3>1, SrcInstalled
  <2>3. Becomes(i)
    BY <1>1, <1>5
  <2> HIDE DEF i
  <2>4. i.notify \subseteq alive
    BY <2>1, <2>2, NowKnown
  <2>5. ScreenInv' /\ src' = src /\ screen' = "viewing"
    BY <1>1, <2>2, <2>3, <2>4, NowKnown, BecomesHolds DEF Up
  <2> QED BY <2>1, <2>5 DEF SrcFate, SinkFate
<1>6. CASE src = None /\ sink # None
  <2> DEFINE j == InstallSink(sink, TRUE, Now)
  <2>1. sink \in Shares /\ sink \in alive
    BY <1>3, <1>6
  <2>2. /\ j \in Rec /\ j.notify \subseteq Now.notify \cup {sink}
        /\ j.sink = sink /\ j.src = None /\ j.screen = "sending"
    <3>1. Now \in Rec /\ Now.screen = "connecting"
      BY <1>2, NowKnown
    <3> QED BY <2>1, <3>1, SinkInstalled
  <2>3. Becomes(j)
    BY <1>1, <1>6
  <2> HIDE DEF j
  <2>4. j.notify \subseteq alive
    BY <2>1, <2>2, NowKnown
  <2>5. ScreenInv' /\ sink' = sink /\ screen' = "sending"
    BY <1>1, <2>2, <2>3, <2>4, NowKnown, BecomesHolds DEF Up
  <2> QED BY <1>6, <2>5 DEF SrcFate, SinkFate
<1>7. CASE src = None /\ sink = None
  <2>1. Becomes(w)
    BY <1>1, <1>7
  <2>2. ScreenInv'
    BY <1>1, <1>4, <1>7, <2>1, NowKnown, BecomesHolds DEF Up
  <2> QED BY <1>7, <2>2 DEF SrcFate, SinkFate
<1> QED BY <1>5, <1>6, <1>7

\* There is no websocket, or not any more.
LEMMA ScreenWsGoneKeeps ==
  ASSUME ScreenInv, ScreenWsFails \/ ScreenWsClosed
  PROVE  ScreenInv' /\ SrcFate /\ SinkFate
<1>1. CASE ScreenWsFails
  BY <1>1 DEF ScreenWsFails, ScreenInv, ScreenTypeOK, Up, SrcFate, SinkFate
<1>2. CASE ScreenWsClosed
  <2> DEFINE w == [Now EXCEPT !.screen = "failed", !.told = {}]
             d == DropSink(DropSrc(w))
  <2>1. bithub = "open" /\ bithub' = "closed" /\ Becomes(d) /\ UNCHANGED <<opening, alive>>
    BY <1>2 DEF ScreenWsClosed
  <2>2. w \in Rec /\ w.screen = "failed" /\ w.notify = notify
    BY NowKnown DEF Rec
  <2> HIDE DEF w
  <2>3. DropSrc(w) \in Rec /\ DropSrc(w).screen = "failed" /\ DropSrc(w).notify \subseteq notify
    BY <2>2, DropsEnd
  <2>4. d \in Rec /\ d.screen = "failed" /\ d.sink = None /\ d.notify \subseteq notify
    BY <2>3, DropsEnd
  <2> HIDE DEF d
  <2>5. ~opening /\ screen # "failed"
    BY <2>1 DEF ScreenInv, Up
  <2>6. ScreenInv' /\ screen' = "failed"
    BY <2>1, <2>4, <2>5, NowKnown, BecomesHolds DEF Up
  <2> QED BY <2>5, <2>6 DEF SrcFate, SinkFate
<1> QED BY <1>1, <1>2

\* The service ends a share.
LEMMA StreamStopKeeps ==
  ASSUME ScreenInv, StreamStop
  PROVE  ScreenInv' /\ SrcFate /\ SinkFate
<1> DEFINE w == [Now EXCEPT !.told = @ \ {"presenter"}]
           k == DropSink(w)
           d == [k EXCEPT !.screen = "connected"]
<1>1. bithub = "open" /\ sink # None /\ Becomes(d) /\ UNCHANGED <<opening, bithub, alive>>
  BY DEF StreamStop
<1>2. src = None /\ ~opening /\ Up(screen)
  BY <1>1, NowKnown DEF ScreenInv, Up
<1>3. w \in Rec /\ w.notify = notify
  BY NowKnown DEF Rec
<1> HIDE DEF w
<1>4. k \in Rec /\ k.sink = None /\ k.notify \subseteq notify
  BY <1>3, DropsEnd
<1> HIDE DEF k
<1>5. d \in Rec /\ d.screen = "connected" /\ d.sink = None /\ d.notify \subseteq notify
  BY <1>4 DEF Rec
<1> HIDE DEF d
<1>6. ScreenInv' /\ screen' = "connected"
  BY <1>1, <1>2, <1>5, NowKnown, BecomesHolds DEF Up
<1> QED BY <1>2, <1>6 DEF SrcFate, SinkFate, Up

\* A pipeline goes, and the notify of its element finds the screen as it is.
LEMMA TearDownKeeps ==
  ASSUME ScreenInv, NEW e, TearDown(e)
  PROVE  ScreenInv' /\ SrcFate /\ SinkFate
<1> DEFINE d == Cleared(e, Now)
<1>1. alive' = alive \ {e} /\ Becomes(d) /\ UNCHANGED <<opening, bithub>>
  BY DEF TearDown
<1>2. /\ d \in Rec /\ d.notify \subseteq alive \ {e}
      /\ d = Now \/ Ended(e, Now, d)
  BY NowKnown, ClearedEnds DEF Ended
<1> HIDE DEF d
<1>3. /\ d.src \in {src, None} /\ d.sink \in {sink, None}
      /\ Up(d.screen) <=> Up(screen)
      /\ screen = "connecting" => d.screen = "connecting" /\ d.src = src /\ d.sink = sink
      /\ screen = "viewing" => d.screen = "connected" \/ (d.screen = screen /\ d.src = src)
      /\ screen = "sending" => d.screen = "connected" \/ (d.screen = screen /\ d.sink = sink)
  BY <1>2, NowKnown DEF Ended, Up
<1>4. ScreenInv' /\ screen' = d.screen /\ src' = d.src /\ sink' = d.sink
  BY <1>1, <1>2, <1>3, NowKnown, BecomesHolds DEF ScreenInv
<1> QED BY <1>3, <1>4 DEF SrcFate, SinkFate

\* Nothing is left of a screen that is closed.
LEMMA ScreenCloseKeeps ==
  ASSUME ScreenInv, ScreenClose
  PROVE  ScreenInv'
BY DEF ScreenClose, ScreenInv, ScreenTypeOK, Up

\* Nothing else touches the screen.
LEMMA ScreenStutters ==
  ASSUME ScreenInv, UNCHANGED screenVars
  PROVE  ScreenInv'
BY DEF screenVars, ScreenInv, ScreenTypeOK

-----------------------------------------------------------------------------
(* The call.                                                               *)

\* A window without a call has nothing of one; what is asked is asked of a presenter,
\* and a share is chosen while there is none.
ChatOK(c) ==
  /\ c \in Chat
  /\ ~c.call => /\ c.media = "none" /\ c.presenter = None /\ c.view = None /\ c.share = None
                /\ ~c.ask /\ ~c.select /\ ~c.list /\ ~c.follows
  /\ c.select => c.share = None
  /\ c.ask => c.presenter # None

\* The window holds at most one of a view and a share, and that is what the library
\* serves or will serve when the screen is up.
ScreenHeld ==
  /\ live = Held(chat)
  /\ chat.view # None => /\ chat.share = None /\ src = chat.view /\ chat.presenter # None
                         /\ screen \in {"connecting", "viewing"}
  /\ chat.share # None => sink = chat.share /\ screen \in {"connecting", "sending"}

CallInv ==
  /\ ChatOK(chat) /\ live \subseteq Media
  /\ silent \in BOOLEAN /\ audio \in AudioStates /\ presenter \in Presenters \cup {None}
  /\ unasked \in BOOLEAN /\ again \in BOOLEAN
  /\ chat.call => opens = 1 /\ meeting
  /\ AudioServed
  /\ ~again => ScreenHeld

\* The fields of d that are not media of screens are those of c, and it holds no others.
Loses(c, d) ==
  /\ d \in Chat /\ d.ready = c.ready /\ d.call = c.call /\ d.media = c.media
  /\ d.presenter = c.presenter /\ d.ask = c.ask /\ d.select = c.select /\ d.list = c.list
  /\ d.follows = c.follows /\ d.view \in {c.view, None} /\ d.share \in {c.share, None}

\* A window that loses media is none the worse.
LEMMA LosesKeeps ==
  ASSUME NEW c, NEW d, Loses(c, d), ChatOK(c)
  PROVE  ChatOK(d)
BY DEF Loses, ChatOK

\* The signal of a state ends what is no longer served.
LEMMA StateHeard ==
  ASSUME NEW c \in Chat, NEW state
  PROVE  /\ Loses(c, OnScreenState(state, c))
         /\ OnScreenState(state, c).share =
              IF state \in {"connecting", "sending"} THEN c.share ELSE None
         /\ OnScreenState(state, c).view =
              IF c.share # None \/ state \in {"connecting", "viewing"} THEN c.view ELSE None
<1> DEFINE a == [c EXCEPT !.share = None]
           b == [c EXCEPT !.view = None]
           d == OnScreenState(state, c)
<1>1. Loses(c, c)
  BY DEF Loses, Chat
<1>2. Loses(c, a) /\ a.share = None /\ a.view = c.view
  BY DEF Loses, Chat
<1>3. Loses(c, b) /\ b.view = None /\ b.share = c.share
  BY DEF Loses, Chat
<1>4. d = IF c.share # None
          THEN IF state \in {"connecting", "sending"} THEN c ELSE a
          ELSE IF state \in {"connecting", "viewing"} THEN c ELSE b
  BY DEF OnScreenState
<1> HIDE DEF a, b, d
<1>5. /\ Loses(c, d)
      /\ d.share = IF state \in {"connecting", "sending"} THEN c.share ELSE None
      /\ d.view = IF c.share # None \/ state \in {"connecting", "viewing"} THEN c.view ELSE None
  BY <1>1, <1>2, <1>3, <1>4
<1> QED BY <1>5 DEF d

\* The audio stays as served as it is if nothing of it changes.
LEMMA AudioStays ==
  ASSUME AudioServed, chat'.media = chat.media, chat'.call = chat.call,
         UNCHANGED <<silent, audio, unasked>>
  PROVE  AudioServed'
BY DEF AudioServed

\* The window hears of a step of the library and ends what that does not serve.
LEMMA HearsKeeps ==
  ASSUME CallInv, ScreenInv, ScreenInv', SrcFate, SinkFate, HearsScreen
  PROVE  CallInv' /\ chat'.ready = chat.ready
<1>1. /\ chat' = IF chat.call /\ screen' # screen THEN OnScreenState(screen', chat) ELSE chat
      /\ live' = live \ (Held(chat) \ Held(chat'))
      /\ UNCHANGED <<opens, meeting, silent, audio, presenter, unasked, again>>
  BY DEF HearsScreen, EndsMedia, roomVars, room
<1>2. Loses(chat, OnScreenState(screen', chat)) /\ Loses(chat, chat)
  BY StateHeard DEF CallInv, ChatOK, Loses
<1>3. Loses(chat, chat')
  BY <1>1, <1>2
<1>4. ChatOK(chat') /\ AudioServed' /\ live' \subseteq Media
  BY <1>1, <1>3, LosesKeeps, AudioStays DEF CallInv, Loses
<1>5. ASSUME ~again PROVE ScreenHeld'
  <2>1. ScreenHeld /\ live' = Held(chat')
    BY <1>1, <1>3, <1>5 DEF CallInv, ScreenHeld, Held, Loses
  <2>2. CASE chat.view = None /\ chat.share = None
    BY <1>3, <2>1, <2>2 DEF ScreenHeld, Loses
  <2>3. CASE chat.view # None
    <3>1. /\ chat.share = None /\ chat.call /\ src = chat.view /\ src # None
          /\ screen \in {"connecting", "viewing"} /\ chat.presenter # None
      BY <2>1, <2>3 DEF ScreenHeld, CallInv, ChatOK
    <3>2. CASE src' = src /\ screen' \in {screen, "viewing"}
      BY <1>3, <2>1, <3>1, <3>2 DEF ScreenHeld, Loses
    <3>3. CASE screen' # screen /\ screen' \in {"connected", "failed"}
      <4>1. chat' = OnScreenState(screen', chat) /\ chat \in Chat
        BY <1>1, <3>1, <3>3 DEF CallInv, ChatOK
      <4>2. chat'.view = None /\ chat'.share = None
        BY <3>1, <3>3, <4>1, StateHeard
      <4> QED BY <2>1, <4>2 DEF ScreenHeld
    <3> QED BY <3>1, <3>2, <3>3 DEF SrcFate
  <2>4. CASE chat.share # None
    <3>1. /\ chat.view = None /\ chat.call /\ sink = chat.share /\ sink # None
          /\ screen \in {"connecting", "sending"}
      BY <2>1, <2>4 DEF ScreenHeld, CallInv, ChatOK
    <3>2. CASE sink' = sink /\ screen' \in {screen, "sending"}
      BY <1>3, <2>1, <3>1, <3>2 DEF ScreenHeld, Loses
    <3>3. CASE screen' # screen /\ screen' \in {"connected", "failed"}
      <4>1. chat' = OnScreenState(screen', chat) /\ chat \in Chat
        BY <1>1, <3>1, <3>3 DEF CallInv, ChatOK
      <4>2. chat'.view = None /\ chat'.share = None
        BY <3>1, <3>3, <4>1, StateHeard
      <4> QED BY <2>1, <4>2 DEF ScreenHeld
    <3> QED BY <3>1, <3>2, <3>3 DEF SinkFate
  <2> QED BY <2>2, <2>3, <2>4
<1> QED BY <1>1, <1>3, <1>4, <1>5 DEF CallInv, Loses

\* A step of the library, and what the window hears of it.
LEMMA SignalsKeep ==
  ASSUME CallInv, ScreenInv, ScreenSignals
  PROVE  CallInv' /\ ScreenInv' /\ chat'.ready = chat.ready
<1>1. ScreenInv' /\ SrcFate /\ SinkFate
  BY ScreenWsConnectedKeeps, ScreenWsGoneKeeps, StreamStopKeeps, TearDownKeeps DEF ScreenSignals
<1> QED BY <1>1, HearsKeeps DEF ScreenSignals

-----------------------------------------------------------------------------
(* The audio.                                                              *)

\* A media for the audio is made, or accepted, or none can be made.
LEMMA MediaSet ==
  ASSUME NEW c, ChatOK(c), c.call, NEW m \in {"none", "pending", "accepted"}
  PROVE  /\ ChatOK([c EXCEPT !.media = m])
         /\ [c EXCEPT !.media = m].media = m /\ [c EXCEPT !.media = m].call
         /\ [c EXCEPT !.media = m].ready = c.ready
         /\ [c EXCEPT !.media = m].view = c.view /\ [c EXCEPT !.media = m].share = c.share
         /\ [c EXCEPT !.media = m].presenter = c.presenter
         /\ Held([c EXCEPT !.media = m]) = Held(c)
<1> DEFINE d == [c EXCEPT !.media = m]
<1>1. /\ d \in Chat /\ d.ready = c.ready /\ d.call = c.call /\ d.media = m
      /\ d.presenter = c.presenter /\ d.ask = c.ask /\ d.select = c.select /\ d.list = c.list
      /\ d.follows = c.follows /\ d.view = c.view /\ d.share = c.share
  BY DEF ChatOK, Chat
<1> HIDE DEF d
<1>2. ChatOK(d) /\ Held(d) = Held(c) /\ d.media = m /\ d.call
  BY <1>1 DEF ChatOK, Held
<1> QED BY <1>1, <1>2 DEF d

\* The window of a call whose audio changes.
LEMMA AudioKeeps ==
  ASSUME CallInv, ScreenInv, AudioStep
  PROVE  /\ CallInv' /\ chat'.ready = chat.ready
         /\ UNCHANGED <<roomVars, screenVars, phase, meeting, request>>
<1>1. UNCHANGED <<roomVars, screenVars, phase, meeting, live, presenter, request, again>>
  BY DEF AudioStep, AudioConnects, AudioReconnects, AudioFailsUnseen, JoinAudio, Muted, AudioBecomes
<1>2. \/ chat' = chat
      \/ /\ ChatOK(chat') /\ chat'.call /\ chat.call /\ chat'.ready = chat.ready
         /\ chat'.view = chat.view /\ chat'.share = chat.share
         /\ chat'.presenter = chat.presenter /\ Held(chat') = Held(chat)
  <2>1. ASSUME chat.call, SetUp(chat) \/ OnAudioState(audio', chat), chat' # chat
        PROVE  \E m \in {"none", "pending", "accepted"} : chat' = [chat EXCEPT !.media = m]
    BY <2>1 DEF SetUp, OnAudioState
  <2>2. ChatOK(chat)
    BY DEF CallInv
  <2>3. chat' # chat => chat.call /\ (SetUp(chat) \/ OnAudioState(audio', chat))
    BY DEF AudioStep, AudioConnects, AudioReconnects, AudioFailsUnseen, JoinAudio, Muted,
           AudioBecomes, Menu
  <2>4. CASE chat' # chat
    <3>1. chat.call /\ \E m \in {"none", "pending", "accepted"} : chat' = [chat EXCEPT !.media = m]
      BY <2>1, <2>3, <2>4
    <3>2. PICK m \in {"none", "pending", "accepted"} : chat' = [chat EXCEPT !.media = m]
      BY <3>1
    <3> DEFINE d == [chat EXCEPT !.media = m]
    <3>3. /\ ChatOK(d) /\ d.call /\ d.ready = chat.ready /\ d.view = chat.view
          /\ d.share = chat.share /\ d.presenter = chat.presenter /\ Held(d) = Held(chat)
      BY <2>2, <3>1, MediaSet
    <3> HIDE DEF d
    <3> QED BY <3>1, <3>2, <3>3 DEF d
  <2> QED BY <2>4
<1>3. silent' \in BOOLEAN /\ audio' \in AudioStates /\ unasked' \in BOOLEAN
  BY DEF CallInv, AudioStates, AudioStep, AudioConnects, AudioReconnects, AudioFailsUnseen,
         JoinAudio, Muted, AudioBecomes, SetUp, OnAudioState
<1>4. AudioServed'
  <2>1. ASSUME audio' \in AudioStates,
               IF chat.call THEN OnAudioState(audio', chat) ELSE UNCHANGED <<chat, silent>>,
               unasked' = unasked
        PROVE  AudioServed'
    <3>1. CASE ~chat.call
      BY <2>1, <3>1 DEF CallInv, ChatOK, AudioServed
    <3>2. CASE chat.call
      <4>1. /\ [chat EXCEPT !.media = "pending"].media = "pending"
            /\ [chat EXCEPT !.media = "pending"].call
            /\ [chat EXCEPT !.media = "accepted"].media = "accepted"
            /\ [chat EXCEPT !.media = "accepted"].call
        BY <3>2, MediaSet DEF CallInv
      <4>2. CASE audio' = "connecting" /\ chat.media = "none" /\ ~silent
        BY <2>1, <3>2, <4>1, <4>2 DEF OnAudioState, SetUp, AudioServed
      <4>3. CASE audio' = "audio" /\ chat.media # "none"
        BY <2>1, <3>2, <4>1, <4>3 DEF OnAudioState, AudioServed, CallInv
      <4>4. CASE /\ ~(audio' = "connecting" /\ chat.media = "none" /\ ~silent)
                 /\ ~(audio' = "audio" /\ chat.media # "none")
        <5>1. chat' = chat /\ silent' = silent
          BY <2>1, <3>2, <4>4 DEF OnAudioState
        <5> QED BY <2>1, <3>2, <4>4, <5>1 DEF AudioServed, CallInv
      <4> QED BY <4>2, <4>3, <4>4
    <3> QED BY <3>1, <3>2
  <2>2. CASE \E state \in AudioStates : AudioBecomes(state)
    BY <2>1, <2>2 DEF AudioBecomes
  <2>3. CASE AudioFailsUnseen
    BY <2>3 DEF AudioFailsUnseen, AudioServed, CallInv
  <2>4. CASE JoinAudio
    <3>1. chat.call /\ silent /\ audio' = "connecting" /\ chat.media = "none"
      BY <2>4 DEF JoinAudio, Menu, CallInv, AudioServed
    <3>2. /\ [chat EXCEPT !.media = "pending"].media = "pending"
          /\ [chat EXCEPT !.media = "pending"].call
      BY <3>1, MediaSet DEF CallInv
    <3> QED BY <2>4, <3>1, <3>2 DEF JoinAudio, SetUp, AudioServed
  <2> QED BY <2>2, <2>3, <2>4 DEF AudioStep, AudioConnects, AudioReconnects, Muted, AudioStates
<1>5. UNCHANGED <<opens, meeting, screen, src, sink, live, presenter, again>>
  BY <1>1 DEF roomVars, room, screenVars
<1>6. ~again => ScreenHeld'
  BY <1>2, <1>5 DEF CallInv, ScreenHeld
<1> QED BY <1>1, <1>2, <1>3, <1>4, <1>5, <1>6 DEF CallInv

-----------------------------------------------------------------------------
(* The screens that are viewed and shared.                                 *)

\* An element comes.  Whatever the screen served before, it serves this one now, or
\* will; the window holds it unless the one that is replaced ended it on its way.
LEMMA AttachKeeps ==
  ASSUME ScreenInv, NEW e \in Elements, NEW c0, NEW c \in Chat, NEW r \in Rec,
         NEW gone \in SUBSET Elements,
         r.notify \subseteq notify \ gone,
         IF bithub = "open" THEN Up(r.screen) ELSE r.screen = screen,
         AttachFrom(e, c0, c, r, gone)
  PROVE  /\ ScreenInv' /\ Loses(c, chat')
         /\ live' = ((live \ (Held(chat) \ Held(c0))) \cup {e}) \ (Held(c) \ Held(chat'))
         /\ e \in Views => src' = e /\ screen' \in {"connecting", "viewing"}
         /\ e \notin Views => sink' = e /\ screen' \in {"connecting", "sending"}
<1> DEFINE fresh   == r.screen \in {"none", "failed"}
           open    == bithub = "open"
           o       == Opened(r)
           other   == IF e \in Views THEN o.sink ELSE o.src
           dropped == other \in o.notify /\ o.screen = IF e \in Views THEN "sending" ELSE "viewing"
           i       == InstallSrc(e, open, o)
           j       == InstallSink(e, open, o)
           s       == IF e \in Views THEN i ELSE j
           mid     == IF dropped THEN OnScreenState("connected", c) ELSE c
           last    == IF dropped \/ s.screen # o.screen THEN OnScreenState(s.screen, mid) ELSE mid
<1>1. /\ e \notin alive /\ alive' = (alive \ gone) \cup {e} /\ opening' = (opening \/ fresh)
      /\ bithub' = (IF fresh THEN "none" ELSE bithub) /\ Becomes(s) /\ chat' = last
      /\ live' = ((live \ (Held(chat) \ Held(c0))) \cup {e}) \ (Held(c) \ Held(last))
  BY DEF AttachFrom
<1>2. Loses(c, last)
  <2>1. Loses(c, mid) /\ mid \in Chat
    BY StateHeard DEF Loses, Chat
  <2> HIDE DEF mid
  <2>2. Loses(mid, last)
    <3>1. Loses(mid, OnScreenState(s.screen, mid)) /\ Loses(mid, mid)
      BY <2>1, StateHeard DEF Loses
    <3> QED BY <3>1
  <2> HIDE DEF last
  <2> QED BY <2>1, <2>2 DEF Loses
<1> HIDE DEF mid, last, dropped, other
<1>3. /\ o \in Rec /\ o.notify \subseteq notify \ gone
      /\ o.screen = IF fresh THEN "connecting" ELSE r.screen
  BY OpenedIs
<1> HIDE DEF o
<1>4. /\ open \in BOOLEAN /\ (open => Up(o.screen) /\ ~fresh)
      /\ ~open => o.screen = "connecting"
  BY <1>3, NowKnown DEF ScreenInv, Up, ScreenTypeOK
<1>5. e \notin o.notify
  BY <1>1, <1>3, NowKnown
<1> HIDE DEF open
<1>6. /\ s \in Rec /\ s.notify \subseteq (notify \ gone) \cup {e}
      /\ s.src = None \/ s.sink = None
      /\ e \in Views => s.src = e /\ s.screen = IF open THEN "viewing" ELSE "connecting"
      /\ e \notin Views => s.sink = e /\ s.screen = IF open THEN "sending" ELSE "connecting"
  <2>1. CASE e \in Views
    <3>1. /\ i \in Rec /\ i.notify \subseteq o.notify \cup {e} /\ i.src = e /\ i.sink = None
          /\ i.screen = IF open THEN "viewing" ELSE "connecting"
      BY <1>3, <1>4, <1>5, <2>1, SrcInstalled
    <3> HIDE DEF i, j
    <3> QED BY <1>3, <2>1, <3>1
  <2>2. CASE e \notin Views
    <3>1. e \in Shares
      BY <2>2 DEF Elements
    <3>2. /\ j \in Rec /\ j.notify \subseteq o.notify \cup {e} /\ j.sink = e /\ j.src = None
          /\ j.screen = IF open THEN "sending" ELSE "connecting"
      BY <1>3, <1>4, <1>5, <3>1, SinkInstalled
    <3> HIDE DEF i, j
    <3> QED BY <1>3, <2>2, <3>2
  <2> QED BY <2>1, <2>2
<1> HIDE DEF s
<1>7. /\ alive' \subseteq Elements /\ s.notify \subseteq alive'
      /\ opening' \in BOOLEAN /\ bithub' \in {"none", "open", "closed"}
  BY <1>1, <1>6, NowKnown
<1>8. /\ bithub' = "open" <=> Up(s.screen)
      /\ opening' => s.screen = "connecting"
  <2>1. CASE open
    <3>1. ~fresh /\ bithub = "open" /\ ~opening
      BY <1>4, <2>1 DEF open, ScreenInv, Up
    <3> QED BY <1>1, <1>6, <2>1, <3>1 DEF Up
  <2>2. CASE ~open
    <3>1. bithub' # "open"
      BY <1>1, <2>2 DEF open
    <3> QED BY <1>6, <2>2, <3>1 DEF Up
  <2> QED BY <2>1, <2>2
<1>9. ScreenInv' /\ screen' = s.screen /\ src' = s.src /\ sink' = s.sink
  BY <1>1, <1>6, <1>7, <1>8, BecomesHolds
<1> QED BY <1>1, <1>2, <1>6, <1>9

\* The call of the window as its screens change.
LEMMA ScreensChange ==
  ASSUME CallInv, ChatOK(chat'), chat'.call = chat.call, chat'.media = chat.media,
         live' \subseteq Media, presenter' \in Presenters \cup {None}, again' \in BOOLEAN,
         UNCHANGED <<opens, meeting, silent, audio, unasked>>, ~again' => ScreenHeld'
  PROVE  CallInv'
BY AudioStays DEF CallInv

\* Nobody presents any more, or somebody does.
LEMMA PresenterHeard ==
  ASSUME NEW c, ChatOK(c), c.call, NEW p \in Presenters \cup {None}
  PROVE  /\ ChatOK(OnCallPresenter(p, c))
         /\ OnCallPresenter(p, c).ready = c.ready /\ OnCallPresenter(p, c).call
         /\ OnCallPresenter(p, c).media = c.media /\ OnCallPresenter(p, c).share = c.share
         /\ OnCallPresenter(p, c).view \in {c.view, None}
         /\ OnCallPresenter(p, c).select = c.select
         /\ OnCallPresenter(p, c).view # None => OnCallPresenter(p, c).presenter # None
         /\ p = None => OnCallPresenter(p, c).view = None
<1> DEFINE q == IF c.share # None /\ p = Me THEN None ELSE p
           a == [c EXCEPT !.ask = FALSE, !.view = None, !.presenter = None]
           d == IF q = None \/ c.presenter # q THEN a ELSE c
           b == [d EXCEPT !.presenter = q, !.ask = TRUE]
           z == OnCallPresenter(p, c)
<1>1. z = IF q = None THEN d ELSE b
  BY DEF OnCallPresenter
<1>2. q \in Presenters \cup {None} /\ (p = None => q = None)
  OBVIOUS
<1>3. /\ a \in Chat /\ a.ready = c.ready /\ a.call = c.call /\ a.media = c.media
      /\ a.presenter = None /\ a.ask = FALSE /\ a.select = c.select /\ a.list = c.list
      /\ a.follows = c.follows /\ a.view = None /\ a.share = c.share
  BY DEF ChatOK, Chat
<1> HIDE DEF a, q
<1>4. /\ ChatOK(d) /\ d.ready = c.ready /\ d.call /\ d.media = c.media /\ d.share = c.share
      /\ d.view \in {c.view, None} /\ d.select = c.select
      /\ q = None => d.view = None
  BY <1>3 DEF ChatOK
<1> HIDE DEF d
<1>5. /\ b \in Chat /\ b.ready = d.ready /\ b.call = d.call /\ b.media = d.media
      /\ b.presenter = q /\ b.ask = TRUE /\ b.select = d.select /\ b.list = d.list
      /\ b.follows = d.follows /\ b.view = d.view /\ b.share = d.share
  BY <1>2, <1>4 DEF ChatOK, Chat
<1> HIDE DEF b
<1>6. q # None => ChatOK(b)
  BY <1>4, <1>5 DEF ChatOK
<1> HIDE DEF z
<1>7. /\ ChatOK(z) /\ z.ready = c.ready /\ z.call /\ z.media = c.media /\ z.share = c.share
      /\ z.view \in {c.view, None} /\ z.select = c.select
      /\ z.view # None => z.presenter # None
      /\ p = None => z.view = None
  BY <1>1, <1>2, <1>4, <1>5, <1>6
<1> QED BY <1>7 DEF z

\* The roster tells who presents, and who takes part.
LEMMA RosterKeeps ==
  ASSUME CallInv, ScreenInv, NEW p \in Presenters \cup {None}, Roster(p)
  PROVE  CallInv' /\ ScreenInv' /\ chat'.ready = chat.ready
<1> DEFINE c == IF p # presenter THEN OnCallPresenter(p, chat) ELSE chat
           d == [c EXCEPT !.list = @ \/ c.follows]
<1>1. /\ chat.call /\ presenter' = p /\ chat' = d /\ live' = live \ (Held(chat) \ Held(d))
      /\ UNCHANGED <<roomVars, screenVars, phase, meeting, silent, audio, unasked, again>>
  BY DEF Roster, EndsMedia
<1>2. /\ ChatOK(c) /\ c.ready = chat.ready /\ c.call /\ c.media = chat.media
      /\ c.share = chat.share /\ c.view \in {chat.view, None}
      /\ c.view # None => c.presenter # None \/ c = chat
  BY <1>1, PresenterHeard DEF CallInv
<1> HIDE DEF c
<1>3. /\ d \in Chat /\ d.ready = c.ready /\ d.call = c.call /\ d.media = c.media
      /\ d.presenter = c.presenter /\ d.ask = c.ask /\ d.select = c.select
      /\ d.follows = c.follows /\ d.view = c.view /\ d.share = c.share
  BY <1>2 DEF ChatOK, Chat
<1> HIDE DEF d
<1>4. ChatOK(d)
  BY <1>2, <1>3 DEF ChatOK
<1>5. UNCHANGED <<opens, screen, src, sink>> /\ ScreenInv'
  BY <1>1, ScreenStutters DEF roomVars, room, screenVars
<1>6. ASSUME ~again PROVE ScreenHeld'
  <2>1. ScreenHeld /\ Held(d) \subseteq Held(chat)
    BY <1>2, <1>3, <1>6 DEF CallInv, Held
  <2> QED BY <1>1, <1>2, <1>3, <1>5, <2>1 DEF ScreenHeld
<1>7. live' \subseteq Media /\ again' \in BOOLEAN
  BY <1>1 DEF CallInv
<1>8. CallInv'
  BY <1>1, <1>2, <1>3, <1>4, <1>5, <1>6, <1>7, ScreensChange
<1> QED BY <1>1, <1>2, <1>3, <1>5, <1>8

\* The user views what is presented.
LEMMA ViewKeeps ==
  ASSUME CallInv, ScreenInv, ViewScreen
  PROVE  CallInv' /\ ScreenInv' /\ chat'.ready = chat.ready
<1> DEFINE c == [chat EXCEPT !.ask = FALSE]
           n == [c EXCEPT !.view = None]
<1>1. /\ \/ \E v \in Views : AttachFrom(v, c, [c EXCEPT !.view = v], Now, {})
         \/ NoMedia(c, n)
      /\ again' = (again \/ Held(chat) # {})
      /\ UNCHANGED <<roomVars, phase, meeting, silent, audio, presenter, request, unasked>>
  BY DEF ViewScreen
<1>2. chat.call /\ chat.presenter # None /\ ChatOK(chat)
  BY DEF ViewScreen, Menu, CallInv, ChatOK
<1>3. /\ c \in Chat /\ c.ready = chat.ready /\ c.call /\ c.media = chat.media
      /\ c.presenter = chat.presenter /\ ~c.ask /\ c.select = chat.select /\ c.list = chat.list
      /\ c.follows = chat.follows /\ c.view = chat.view /\ c.share = chat.share
  BY <1>2 DEF ChatOK, Chat
<1>4. ChatOK(c) /\ Held(c) = Held(chat)
  BY <1>2, <1>3 DEF ChatOK, Held
<1> HIDE DEF c
<1>5. UNCHANGED <<opens, meeting, silent, audio, presenter, unasked>> /\ again' \in BOOLEAN
  BY <1>1 DEF roomVars, room, CallInv
<1>6. ASSUME ~again'
      PROVE  ~again /\ ScreenHeld /\ chat.view = None /\ chat.share = None /\ live = {}
    BY <1>1, <1>6 DEF CallInv, Held, ScreenHeld
<1>7. ASSUME NEW v \in Views, AttachFrom(v, c, [c EXCEPT !.view = v], Now, {})
      PROVE  CallInv' /\ ScreenInv' /\ chat'.ready = chat.ready
  <2> DEFINE w == [c EXCEPT !.view = v]
  <2>1. /\ w \in Chat /\ w.ready = c.ready /\ w.call = c.call /\ w.media = c.media
        /\ w.presenter = c.presenter /\ w.ask = c.ask /\ w.select = c.select /\ w.list = c.list
        /\ w.follows = c.follows /\ w.view = v /\ w.share = c.share
    BY <1>3 DEF Chat
  <2>2. AttachFrom(v, c, w, Now, {})
    BY <1>7
  <2> HIDE DEF w
  <2>3. ChatOK(w)
    BY <1>3, <1>4, <2>1 DEF ChatOK
  <2>4. v \in Elements /\ IF bithub = "open" THEN Up(Now.screen) ELSE Now.screen = screen
    BY NowKnown DEF Elements, ScreenInv
  <2>5. /\ ScreenInv' /\ Loses(w, chat') /\ src' = v /\ screen' \in {"connecting", "viewing"}
        /\ live' = ((live \ (Held(chat) \ Held(c))) \cup {v}) \ (Held(w) \ Held(chat'))
    BY <2>1, <2>2, <2>4, NowKnown, AttachKeeps
  <2>6. ChatOK(chat')
    BY <2>3, <2>5, LosesKeeps
  <2>7. ~again' => ScreenHeld'
    BY <1>2, <1>3, <1>6, <2>1, <2>5 DEF ScreenHeld, Held, Loses
  <2>8. live' \subseteq Media
    BY <2>5 DEF CallInv, Media
  <2>9. CallInv'
    BY <1>2, <1>3, <1>5, <2>1, <2>5, <2>6, <2>7, <2>8, ScreensChange DEF Loses, CallInv
  <2> QED BY <1>3, <2>1, <2>5, <2>9 DEF Loses
<1>8. CASE NoMedia(c, n)
  <2>1. chat' = n /\ live' = live \ (Held(chat) \ Held(c)) /\ UNCHANGED screenVars
    BY <1>8 DEF NoMedia
  <2>2. /\ n \in Chat /\ n.ready = c.ready /\ n.call = c.call /\ n.media = c.media
        /\ n.presenter = c.presenter /\ n.ask = c.ask /\ n.select = c.select /\ n.list = c.list
        /\ n.follows = c.follows /\ n.view = None /\ n.share = c.share
    BY <1>3 DEF Chat
  <2> HIDE DEF n
  <2>3. ChatOK(n) /\ live' \subseteq Media /\ ScreenInv'
    BY <1>3, <1>4, <2>1, <2>2, ScreenStutters DEF ChatOK, CallInv
  <2>4. ~again' => ScreenHeld'
    BY <1>3, <1>6, <2>1, <2>2 DEF ScreenHeld, Held
  <2>5. CallInv'
    BY <1>2, <1>3, <1>5, <2>1, <2>2, <2>3, <2>4, ScreensChange DEF CallInv
  <2> QED BY <1>3, <2>1, <2>2, <2>3, <2>5
<1> QED BY <1>1, <1>7, <1>8

\* The user shares a screen: what was viewed ends.
LEMMA ShareKeeps ==
  ASSUME CallInv, ScreenInv, ShareScreen
  PROVE  CallInv' /\ ScreenInv' /\ chat'.ready = chat.ready
<1> DEFINE quit == [chat EXCEPT !.select = FALSE]
           c == OnCallPresenter(None, quit)
<1>1. /\ chat.select
      /\ \/ chat' = quit /\ UNCHANGED <<screenVars, live>>
         \/ \E s \in Shares, gone \in SUBSET ({chat.view} \ {None}) :
              AttachFrom(s, c, [c EXCEPT !.share = s],
                         IF gone = {} THEN Now ELSE Cleared(chat.view, Now), gone)
         \/ NoMedia(c, c)
      /\ UNCHANGED <<roomVars, phase, meeting, silent, audio, presenter, request, unasked, again>>
  BY DEF ShareScreen
<1>2. chat.call /\ chat.share = None /\ ChatOK(chat)
  BY <1>1 DEF CallInv, ChatOK
<1>3. /\ quit \in Chat /\ quit.ready = chat.ready /\ quit.call /\ quit.media = chat.media
      /\ quit.presenter = chat.presenter /\ quit.ask = chat.ask /\ ~quit.select
      /\ quit.list = chat.list /\ quit.follows = chat.follows /\ quit.view = chat.view
      /\ quit.share = chat.share
  BY <1>2 DEF ChatOK, Chat
<1> HIDE DEF quit
<1>4. ChatOK(quit) /\ Held(quit) = Held(chat)
  BY <1>2, <1>3 DEF ChatOK, Held
<1>5. /\ ChatOK(c) /\ c.ready = chat.ready /\ c.call /\ c.media = chat.media
      /\ c.share = None /\ c.view = None /\ ~c.select
  BY <1>2, <1>3, <1>4, PresenterHeard
<1> HIDE DEF c
<1>6. UNCHANGED <<opens, meeting, silent, audio, presenter, unasked, again>>
      /\ again \in BOOLEAN /\ presenter \in Presenters \cup {None}
  BY <1>1 DEF roomVars, room, CallInv
<1>7. Held(c) = {} /\ (~again => ScreenHeld /\ live = Held(chat))
  BY <1>5 DEF Held, CallInv, ScreenHeld
<1>8. CASE chat' = quit /\ UNCHANGED <<screenVars, live>>
  <2>1. UNCHANGED <<screen, src, sink, live>> /\ ScreenInv' /\ live' \subseteq Media
    BY <1>8, ScreenStutters DEF screenVars, CallInv
  <2>2. ~again => ScreenHeld'
    BY <1>3, <1>4, <1>7, <1>8, <2>1 DEF ScreenHeld
  <2>3. CallInv'
    BY <1>2, <1>3, <1>4, <1>6, <1>8, <2>1, <2>2, ScreensChange
  <2> QED BY <1>3, <1>8, <2>1, <2>3
<1>9. ASSUME NEW s \in Shares, NEW gone \in SUBSET ({chat.view} \ {None}),
             AttachFrom(s, c, [c EXCEPT !.share = s],
                        IF gone = {} THEN Now ELSE Cleared(chat.view, Now), gone)
      PROVE  CallInv' /\ ScreenInv' /\ chat'.ready = chat.ready
  <2> DEFINE w == [c EXCEPT !.share = s]
             x == Cleared(chat.view, Now)
             r == IF gone = {} THEN Now ELSE x
  <2>1. /\ w \in Chat /\ w.ready = c.ready /\ w.call = c.call /\ w.media = c.media
        /\ w.presenter = c.presenter /\ w.ask = c.ask /\ w.select = c.select /\ w.list = c.list
        /\ w.follows = c.follows /\ w.view = c.view /\ w.share = s
    BY <1>5 DEF ChatOK, Chat
  <2>2. AttachFrom(s, c, w, r, gone)
    BY <1>9
  <2> HIDE DEF w
  <2>3. ChatOK(w) /\ s # None /\ s \notin Views /\ s \in Elements
    BY <1>5, <2>1 DEF ChatOK, Elements
  <2>4. /\ x \in Rec /\ x.notify \subseteq notify \ {chat.view}
        /\ x = Now \/ Ended(chat.view, Now, x)
    BY NowKnown, ClearedEnds DEF Ended
  <2> HIDE DEF x
  <2>5. /\ r \in Rec /\ r.notify \subseteq notify \ gone /\ gone \in SUBSET Elements
        /\ IF bithub = "open" THEN Up(r.screen) ELSE r.screen = screen
    <3>1. gone = {} \/ gone = {chat.view}
      OBVIOUS
    <3>2. gone \in SUBSET Elements
      BY <1>2 DEF ChatOK, Chat, Elements
    <3>3. IF bithub = "open" THEN Up(x.screen) ELSE x.screen = screen
      BY <2>4, NowKnown DEF Ended, ScreenInv, Up
    <3>4. IF bithub = "open" THEN Up(Now.screen) ELSE Now.screen = screen
      BY NowKnown DEF ScreenInv
    <3>5. CASE gone = {}
      BY <3>2, <3>4, <3>5, NowKnown
    <3>6. CASE gone = {chat.view}
      BY <2>4, <3>2, <3>3, <3>6
    <3> QED BY <3>1, <3>5, <3>6
  <2> HIDE DEF r
  <2>6. /\ ScreenInv' /\ Loses(w, chat') /\ sink' = s /\ screen' \in {"connecting", "sending"}
        /\ live' = ((live \ (Held(chat) \ Held(c))) \cup {s}) \ (Held(w) \ Held(chat'))
    BY <2>1, <2>2, <2>3, <2>5, AttachKeeps
  <2>7. ChatOK(chat')
    BY <2>3, <2>6, LosesKeeps
  <2>8. ~again => ScreenHeld'
    BY <1>5, <1>7, <2>1, <2>3, <2>6 DEF ScreenHeld, Held, Loses
  <2>9. live' \subseteq Media
    BY <2>6 DEF CallInv, Media
  <2>10. CallInv'
    BY <1>2, <1>5, <1>6, <2>1, <2>6, <2>7, <2>8, <2>9, ScreensChange DEF Loses
  <2> QED BY <1>5, <2>1, <2>6, <2>10 DEF Loses
<1>10. CASE NoMedia(c, c)
  <2>1. chat' = c /\ live' = live \ (Held(chat) \ Held(c)) /\ UNCHANGED screenVars
    BY <1>10 DEF NoMedia
  <2>2. ScreenInv' /\ live' \subseteq Media
    BY <2>1, ScreenStutters DEF CallInv
  <2>3. ~again => ScreenHeld'
    BY <1>5, <1>7, <2>1 DEF ScreenHeld
  <2>4. CallInv'
    BY <1>2, <1>5, <1>6, <2>1, <2>2, <2>3, ScreensChange
  <2> QED BY <1>5, <2>1, <2>2, <2>4
<1> QED BY <1>1, <1>8, <1>9, <1>10

\* The user asks for a share, or to view nothing; or looks at the list of those who
\* take part.
LEMMA DialogKeeps ==
  ASSUME CallInv, ScreenInv, IgnoreScreen \/ SelectShare \/ ListClosed \/ ShowList
  PROVE  CallInv' /\ ScreenInv' /\ chat'.ready = chat.ready
<1>1. UNCHANGED <<roomVars, screenVars, phase, meeting, callVars, request>>
  BY DEF IgnoreScreen, SelectShare, ListClosed, ShowList
<1>2. chat.call /\ ChatOK(chat)
  BY DEF IgnoreScreen, SelectShare, ListClosed, ShowList, Menu, CallInv, ChatOK
<1>3. /\ ChatOK(chat') /\ chat'.ready = chat.ready /\ chat'.call = chat.call
      /\ chat'.media = chat.media /\ chat'.view = chat.view /\ chat'.share = chat.share
      /\ chat'.presenter = chat.presenter
  <2> DEFINE a == [chat EXCEPT !.ask = FALSE]
             b == [chat EXCEPT !.select = TRUE]
             l == [chat EXCEPT !.list = FALSE, !.follows = FALSE]
             m == [chat EXCEPT !.list = TRUE, !.follows = TRUE]
  <2>1. CASE IgnoreScreen
    <3>1. chat' = a
      BY <2>1 DEF IgnoreScreen
    <3> QED BY <1>2, <3>1 DEF ChatOK, Chat
  <2>2. CASE SelectShare
    <3>1. chat' = b /\ chat.share = None
      BY <2>2 DEF SelectShare
    <3> QED BY <1>2, <3>1 DEF ChatOK, Chat
  <2>3. CASE ListClosed
    <3>1. chat' = l
      BY <2>3 DEF ListClosed
    <3> QED BY <1>2, <3>1 DEF ChatOK, Chat
  <2>4. CASE ShowList
    <3>1. chat' = m
      BY <2>4 DEF ShowList
    <3> QED BY <1>2, <3>1 DEF ChatOK, Chat
  <2> QED BY <2>1, <2>2, <2>3, <2>4
<1>4. UNCHANGED <<opens, screen, src, sink, live, silent, audio, presenter, unasked, again>>
      /\ ScreenInv'
  BY <1>1, ScreenStutters DEF roomVars, room, screenVars, callVars
<1>5. ~again => ScreenHeld'
  BY <1>3, <1>4 DEF CallInv, ScreenHeld, Held
<1> QED BY <1>1, <1>3, <1>4, <1>5, ScreensChange DEF CallInv

\* The user ends a media of a screen.
LEMMA MediaEndKeeps ==
  ASSUME CallInv, ScreenInv, NEW e \in Media, ScreenMediaEnds(e)
  PROVE  CallInv' /\ ScreenInv' /\ chat'.ready = chat.ready
<1> DEFINE v == [chat EXCEPT !.view = None]
           s == [chat EXCEPT !.share = None]
<1>1. /\ chat.call /\ e \in live /\ live' = live \ {e}
      /\ chat' = IF e \in Views THEN v ELSE s
      /\ UNCHANGED <<roomVars, screenVars, meeting, silent, audio, presenter, unasked, again>>
  BY DEF ScreenMediaEnds
<1>2. Loses(chat, v) /\ v.view = None /\ v.share = chat.share
  BY DEF CallInv, ChatOK, Chat, Loses
<1>3. Loses(chat, s) /\ s.share = None /\ s.view = chat.view
  BY DEF CallInv, ChatOK, Chat, Loses
<1> HIDE DEF v, s
<1>4. ChatOK(chat') /\ Loses(chat, chat')
  BY <1>1, <1>2, <1>3, LosesKeeps DEF CallInv
<1>5. UNCHANGED <<opens, screen, src, sink>> /\ ScreenInv' /\ live' \subseteq Media
  BY <1>1, ScreenStutters DEF roomVars, room, screenVars, CallInv
<1>6. ASSUME ~again PROVE ScreenHeld'
  <2>1. ScreenHeld /\ e \in Held(chat) /\ e # None
    BY <1>1, <1>6 DEF CallInv, ScreenHeld, Held
  <2>2. chat.view \in Views \cup {None} /\ chat.share \in Shares \cup {None}
    BY DEF CallInv, ChatOK, Chat
  <2>3. CASE e \in Views
    <3>1. e = chat.view /\ chat.share = None /\ live = {e}
      BY <2>1, <2>2, <2>3 DEF ScreenHeld, Held
    <3> QED BY <1>1, <1>2, <2>3, <3>1 DEF ScreenHeld, Held
  <2>4. CASE e \notin Views
    <3>1. e = chat.share /\ chat.view = None /\ live = {e}
      BY <2>1, <2>2, <2>4 DEF ScreenHeld, Held
    <3> QED BY <1>1, <1>3, <2>4, <3>1 DEF ScreenHeld, Held
  <2> QED BY <2>3, <2>4
<1>7. CallInv'
  BY <1>1, <1>4, <1>5, <1>6, ScreensChange DEF CallInv, Loses
<1> QED BY <1>4, <1>5, <1>7 DEF Loses

-----------------------------------------------------------------------------
(* The window.                                                             *)

\* An empty window.
LEMMA NoChatIs ==
  /\ ChatOK(NoChat) /\ Held(NoChat) = {} /\ ~NoChat.ready /\ ~NoChat.call
  /\ NoChat.media = "none" /\ NoChat.view = None /\ NoChat.share = None
BY DEF NoChat, ChatOK, Chat, Held

\* The window of a meeting is opened.
LEMMA MeetingKeeps ==
  ASSUME CallInv, ScreenInv, JoinMeeting
  PROVE  CallInv' /\ ScreenInv'
<1> DEFINE c == [NoChat EXCEPT !.call = TRUE, !.follows = TRUE]
<1>1. /\ meeting /\ opens = 0 /\ opens' = 1 /\ audio' = "connecting" /\ presenter' = None
      /\ (silent' = TRUE /\ chat' = c) \/ SetUp(c)
      /\ unasked' = FALSE /\ UNCHANGED <<screenVars, meeting, live, again>>
  BY DEF JoinMeeting, OpenRoom
<1>2. /\ ChatOK(c) /\ c.call /\ c.media = "none" /\ c.view = None /\ c.share = None
      /\ Held(c) = {}
  BY DEF NoChat, ChatOK, Chat, Held
<1> HIDE DEF c
<1>3. /\ ChatOK(chat') /\ chat'.call /\ chat'.view = None /\ chat'.share = None
      /\ (chat'.media = "none" <=> silent') /\ silent' \in BOOLEAN
      /\ Held(chat') = {}
  <2> DEFINE d == [c EXCEPT !.media = "pending"]
  <2>1. /\ ChatOK(d) /\ d.call /\ d.media = "pending" /\ d.view = None /\ d.share = None
        /\ Held(d) = {}
    BY <1>2, MediaSet
  <2>2. (silent' = TRUE /\ chat' = c) \/ (silent' = FALSE /\ chat' = d)
    BY <1>1 DEF SetUp
  <2> HIDE DEF d
  <2> QED BY <1>2, <2>1, <2>2
<1>4. AudioServed'
  BY <1>1, <1>3 DEF AudioServed
<1>5. ASSUME ~again PROVE ScreenHeld'
  <2>1. ~chat.call /\ live = Held(chat)
    BY <1>1, <1>5 DEF CallInv, ScreenHeld
  <2>2. live = {}
    BY <2>1 DEF CallInv, ChatOK, Held
  <2> QED BY <1>1, <1>3, <2>2 DEF ScreenHeld
<1>6. ScreenInv'
  BY <1>1, ScreenStutters
<1>7. /\ live' \subseteq Media /\ audio' \in AudioStates /\ presenter' \in Presenters \cup {None}
      /\ unasked' \in BOOLEAN /\ again' \in BOOLEAN
  BY <1>1 DEF CallInv, AudioStates
<1>8. meeting' /\ opens' = 1
  BY <1>1
<1> QED BY <1>1, <1>3, <1>4, <1>5, <1>6, <1>7, <1>8 DEF CallInv

\* The window is closed, and its media with it.
LEMMA DestroyKeeps ==
  ASSUME CallInv, ScreenInv, DestroyChat, UNCHANGED <<meeting, unasked, again>>
  PROVE  CallInv' /\ ScreenInv'
<1>1. /\ chat' = NoChat /\ live' = live \ Held(chat) /\ silent' = TRUE /\ audio' = "none"
      /\ presenter' = None /\ (ScreenClose \/ UNCHANGED screenVars)
  BY DEF DestroyChat
<1>2. ScreenInv'
  BY <1>1, ScreenCloseKeeps, ScreenStutters
<1>3. AudioServed'
  BY <1>1, NoChatIs DEF AudioServed
<1>4. ~again => ScreenHeld'
  BY <1>1, NoChatIs DEF CallInv, ScreenHeld
<1>5. /\ live' \subseteq Media /\ audio' \in AudioStates /\ presenter' \in Presenters \cup {None}
      /\ unasked' \in BOOLEAN /\ again' \in BOOLEAN /\ silent' \in BOOLEAN
  BY <1>1 DEF CallInv, AudioStates
<1>6. ChatOK(chat') /\ ~chat'.call
  BY <1>1, NoChatIs
<1> QED BY <1>1, <1>2, <1>3, <1>4, <1>5, <1>6 DEF CallInv

\* The rest leaves the call alone, and of its window at most tells that the members
\* are complete.
LEMMA CallStutters ==
  ASSUME CallInv, ScreenInv, UNCHANGED <<screenVars, meeting, callVars>>,
         opens' = opens \/ ~chat.call,
         chat' = chat \/ chat' = [chat EXCEPT !.ready = TRUE]
  PROVE  CallInv' /\ ScreenInv'
<1>1. /\ UNCHANGED <<screen, src, sink, live, silent, audio, presenter, unasked, again>>
      /\ ScreenInv'
  BY ScreenStutters DEF screenVars, callVars
<1>2. /\ ChatOK(chat') /\ chat'.call = chat.call /\ chat'.media = chat.media
      /\ chat'.view = chat.view /\ chat'.share = chat.share /\ chat'.presenter = chat.presenter
  <2> DEFINE d == [chat EXCEPT !.ready = TRUE]
  <2>1. /\ d \in Chat /\ d.ready = TRUE /\ d.call = chat.call /\ d.media = chat.media
        /\ d.presenter = chat.presenter /\ d.ask = chat.ask /\ d.select = chat.select
        /\ d.list = chat.list /\ d.follows = chat.follows /\ d.view = chat.view
        /\ d.share = chat.share
    BY DEF CallInv, ChatOK, Chat
  <2>2. chat' = chat \/ chat' = d
    OBVIOUS
  <2> HIDE DEF d
  <2> QED BY <2>1, <2>2 DEF CallInv, ChatOK
<1>3. ~again => ScreenHeld'
  BY <1>1, <1>2 DEF CallInv, ScreenHeld, Held
<1>4. AudioServed'
  BY <1>1, <1>2, AudioStays DEF CallInv
<1> QED BY <1>1, <1>2, <1>3, <1>4 DEF CallInv

-----------------------------------------------------------------------------
(* The steps.                                                              *)

WindowInv == MembersInv /\ DoneInv /\ RequestInv /\ CallInv /\ ScreenInv

\* A step of the call alone.
LEMMA CallStepKeeps ==
  ASSUME WindowInv, AudioStep \/ ScreenStep \/ ListClosed \/ ShowList
  PROVE  WindowInv'
<1>1. UNCHANGED <<roomVars, phase, meeting, request>>
  BY AudioKeeps DEF WindowInv, ScreenStep, ScreenSignals, HearsScreen, ViewScreen, IgnoreScreen,
     SelectShare, ShareScreen, ScreenMediaEnds, Roster, ListClosed, ShowList
<1>2. CallInv' /\ ScreenInv' /\ chat'.ready = chat.ready
  <2>1. CASE AudioStep
    BY <2>1, AudioKeeps, ScreenStutters DEF WindowInv
  <2>2. CASE ScreenStep
    BY <2>2, SignalsKeep, ViewKeeps, DialogKeeps, ShareKeeps, MediaEndKeeps, RosterKeeps
       DEF WindowInv, ScreenStep
  <2>3. CASE ListClosed \/ ShowList
    BY <2>3, DialogKeeps DEF WindowInv
  <2> QED BY <2>1, <2>2, <2>3
<1>3. UNCHANGED <<opens, visit, done, fetches, tainted, srv>>
  BY <1>1 DEF roomVars, room, roomService
<1>4. MembersInv'
  BY <1>1, MembersStutter DEF WindowInv
<1>5. DoneInv'
  BY <1>1, <1>2, <1>3, DoneStutters DEF WindowInv
<1>6. RequestInv'
  BY <1>1, <1>3 DEF WindowInv, RequestInv
<1> QED BY <1>2, <1>4, <1>5, <1>6 DEF WindowInv

\* The room is opened.
LEMMA JoinKeeps ==
  ASSUME WindowInv, JoinRoom \/ JoinMeeting
  PROVE  WindowInv'
<1>1. /\ OpenRoom(Listings) /\ UNCHANGED <<phase, meeting, request>>
      /\ chat' = chat \/ meeting
  BY DEF JoinRoom, JoinMeeting, windowVars
<1>2. /\ opens = 0 /\ srv' = srv /\ (meeting => fetches' = fetches)
      /\ Listings = BOOLEAN \/ (Listings = {} /\ srv = Nobody)
  BY <1>1 DEF OpenRoom, Listings, WindowInv, RequestInv
<1>3. MembersInv'
  BY <1>1, <1>2, OpenKeeps DEF WindowInv
<1>4. DoneInv'
  BY <1>1, DoneOpens DEF WindowInv, RequestInv
<1>5. RequestInv'
  BY <1>1, <1>2 DEF WindowInv, RequestInv
<1>6. CallInv' /\ ScreenInv'
  <2>1. CASE JoinRoom
    <3>1. ~chat.call /\ UNCHANGED <<screenVars, meeting, callVars, chat>>
      BY <1>2, <2>1 DEF JoinRoom, windowVars, WindowInv, CallInv
    <3> QED BY <3>1, CallStutters DEF WindowInv
  <2>2. CASE JoinMeeting
    BY <2>2, MeetingKeeps DEF WindowInv
  <2> QED BY <2>1, <2>2
<1> QED BY <1>3, <1>4, <1>5, <1>6 DEF WindowInv

\* The window is closed: by the user, with the media of the audio, with the meeting
\* that was ended, or with the account.
LEMMA LeaveKeeps ==
  ASSUME WindowInv, Leave \/ AudioMediaEnds \/ MeetingEnded \/ CloseAccount
  PROVE  WindowInv'
<1>1. /\ DestroyChat /\ fetches' \subseteq fetches /\ UNCHANGED <<meeting, unasked, again>>
      /\ request' \in {request, NoRequest} /\ phase' \in {phase, "down"}
  BY DEF Leave, AudioMediaEnds, MeetingEnded, CloseAccount
<1>2. CloseRoom /\ chat' = NoChat /\ srv' = srv
  BY <1>1 DEF DestroyChat, CloseRoom
<1>3. MembersInv' /\ DoneInv' /\ CallInv' /\ ScreenInv'
  BY <1>1, <1>2, CloseKeeps, DoneCloses, DestroyKeeps DEF WindowInv
<1>4. RequestInv'
  <2>1. NoRequest.kind = "none"
    BY DEF NoRequest
  <2> QED BY <1>1, <1>2, <2>1 DEF WindowInv, RequestInv
<1> QED BY <1>3, <1>4 DEF WindowInv

\* The members change, or are listed.
LEMMA MemberStepKeeps ==
  ASSUME WindowInv, MemberStep
  PROVE  WindowInv'
<1>1. CASE \E f \in fetches : FetchEnded(f)
  <2>1. PICK f \in fetches : FetchEnded(f)
    BY <1>1
  <2>2. /\ LastPage(f) \/ FetchFails(f)
        /\ Ready(f)
        /\ UNCHANGED <<screenVars, phase, meeting, callVars, request>>
    BY <2>1 DEF FetchEnded
  <2>3. MembersInv' /\ DoneInv'
    BY <2>1, <2>2, EndKeeps, DoneEnds DEF WindowInv, CallInv, ChatOK, FetchEnded
  <2>4. srv' = srv /\ fetches' \subseteq fetches /\ opens' = opens
    BY <2>1 DEF FetchEnded, LastPage, FetchFails, FetchEnds, roomService
  <2>5. RequestInv'
    BY <2>2, <2>4 DEF WindowInv, RequestInv
  <2>6. CallInv' /\ ScreenInv'
    BY <2>1, <2>2, <2>4, CallStutters DEF WindowInv, FetchEnded, Ready
  <2> QED BY <2>3, <2>5, <2>6 DEF WindowInv
<1>2. CASE /\ ~meeting
           /\ \/ \E f \in fetches : NextPage(f)
              \/ \E c \in Contacts : MembershipPushed(c) \/ Changed(c)
              \/ Subscribed \/ PushesLost
           /\ UNCHANGED <<screenVars, windowVars>>
  <2>1. UNCHANGED <<screenVars, phase, meeting, callVars, request, chat>>
    BY <1>2 DEF windowVars
  <2>2. MembersInv'
    BY <1>2, NextKeeps, PushedKeeps, ChangedKeeps, ChannelKeeps DEF WindowInv
  <2>3. DoneInv'
    <3>1. CASE \E f \in fetches : NextPage(f)
      BY <2>1, <3>1, DoneGoesOn DEF WindowInv
    <3>2. CASE \/ \E c \in Contacts : MembershipPushed(c) \/ Changed(c)
               \/ Subscribed \/ PushesLost
      <4>1. UNCHANGED <<opens, visit, done, fetches, tainted>>
        BY <3>2 DEF MembershipPushed, Changed, Subscribed, PushesLost, room
      <4> QED BY <2>1, <4>1, DoneStutters DEF WindowInv
    <3> QED BY <1>2, <3>1, <3>2
  <2>4. opens' = opens /\ \A c \in Contacts : srv[c] <= srv'[c]
    <3>1. CASE \E c \in Contacts : Changed(c)
      BY <3>1, ChangedKeeps DEF WindowInv, room
    <3>2. CASE UNCHANGED <<opens, srv>>
      BY <3>2, RecordsAreNat DEF WindowInv
    <3> QED BY <1>2, <3>1, <3>2
        DEF NextPage, MembershipPushed, Subscribed, PushesLost, roomService, room
  <2>5. RequestInv'
    BY <1>2, <2>1, <2>2, <2>4, RequestStutters DEF WindowInv
  <2>6. CallInv' /\ ScreenInv'
    BY <2>1, <2>4, CallStutters DEF WindowInv
  <2> QED BY <2>2, <2>3, <2>5, <2>6 DEF WindowInv
<1> QED BY <1>1, <1>2 DEF MemberStep

\* What the user asks the service for, and its answers that leave the window open.
LEMMA RequestStepKeeps ==
  ASSUME WindowInv, RequestStep, ~MeetingEnded
  PROVE  WindowInv'
<1>1. UNCHANGED <<screenVars, phase, meeting, chat, callVars>>
  BY DEF RequestStep, Invite, AskToEnd, MemberAdded, ContactFound, AddRefused, LeaveAnswered,
         EndRefused
<1>2. (\E c \in Contacts : Adding(c) /\ ~meeting) \/ MemberAdded \/ UNCHANGED roomVars
  BY DEF RequestStep, Invite, AskToEnd, MemberAdded, ContactFound, AddRefused, LeaveAnswered,
         EndRefused, WindowInv, RequestInv, Requests, NoRequest
<1>3. CASE \E c \in Contacts : Adding(c) /\ ~meeting
  <2>1. PICK c \in Contacts : Adding(c) /\ ~meeting
    BY <1>3
  <2>2. MembersInv' /\ RequestInv' /\ DoneInv'
    BY <1>1, <2>1, AddingKeeps DEF WindowInv
  <2>3. opens' = opens
    BY <2>1 DEF Adding, Changed, room, roomVars
  <2>4. CallInv' /\ ScreenInv'
    BY <1>1, <2>3, CallStutters DEF WindowInv
  <2> QED BY <2>2, <2>4 DEF WindowInv
<1>4. CASE MemberAdded
  <2>1. /\ request.kind = "add" /\ request' = NoRequest
        /\ AddMembers(One(request.who, request.record))
        /\ UNCHANGED <<opens, visit, done, fetches, tainted, roomService, missed>>
    BY <1>4 DEF MemberAdded
  <2>2. /\ request.who \in Contacts /\ request.record \in Record
        /\ request.record <= srv[request.who] /\ NoRequest.kind = "none"
    BY <2>1 DEF WindowInv, RequestInv, Requests, NoRequest
  <2>3. MembersInv'
    BY <2>1, <2>2, OneKeeps DEF WindowInv, roomService
  <2>4. DoneInv'
    BY <1>1, <2>1, DoneStutters DEF WindowInv
  <2>5. RequestInv'
    BY <1>1, <2>1, <2>2 DEF WindowInv, RequestInv, roomService
  <2>6. CallInv' /\ ScreenInv'
    BY <1>1, <2>1, CallStutters DEF WindowInv
  <2> QED BY <2>3, <2>4, <2>5, <2>6 DEF WindowInv
<1>5. CASE UNCHANGED roomVars
  <2>1. UNCHANGED <<opens, visit, done, fetches, tainted, srv>>
    BY <1>5 DEF roomVars, room, roomService
  <2>2. MembersInv' /\ DoneInv' /\ CallInv' /\ ScreenInv'
    BY <1>1, <1>5, <2>1, MembersStutter, DoneStutters, CallStutters DEF WindowInv
  <2>3. RequestInv'
    <3>1. visit \in Nat
      BY RecordsAreNat DEF WindowInv
    <3>2. CASE \E c \in Contacts : Adding(c) /\ ~meeting
      BY <1>1, <3>2, AddingKeeps DEF WindowInv
    <3>3. CASE request' = NoRequest
      BY <1>1, <2>1, <3>3 DEF WindowInv, RequestInv, NoRequest
    <3>4. CASE \E kind \in {"end", "leave"} : request' = [kind |-> kind, visit |-> visit]
      <4>1. request' \in Requests /\ request'.kind \in {"end", "leave"}
        BY <3>1, <3>4 DEF Requests
      <4> QED BY <1>1, <2>1, <4>1 DEF WindowInv, RequestInv
    <3>5. CASE ~meeting /\ \E c \in Contacts :
                 request' = [kind |-> "find", visit |-> visit, who |-> c]
      <4>1. request' \in Requests /\ request'.kind = "find"
        BY <3>1, <3>5 DEF Requests
      <4> QED BY <1>1, <3>5, <4>1 DEF WindowInv, RequestInv
    <3>6. \/ \E c \in Contacts : Invite(c)
          \/ AskToEnd \/ request' = NoRequest \/ ContactFound
      BY DEF RequestStep, MemberAdded, AddRefused, LeaveAnswered, EndRefused
    <3>7. CASE ContactFound
      <4>1. \E c \in Contacts : Adding(c) /\ ~meeting
        BY <3>7 DEF ContactFound, WindowInv, RequestInv, Requests, NoRequest
      <4> QED BY <3>2, <4>1
    <3> QED BY <3>2, <3>3, <3>4, <3>5, <3>6, <3>7 DEF Invite, AskToEnd
  <2> QED BY <2>2, <2>3 DEF WindowInv
<1> QED BY <1>2, <1>3, <1>4, <1>5

\* Whatever comes in whatever order, the window keeps its invariant.
LEMMA WindowInvariant == Spec => []WindowInv
<1>1. Init => WindowInv
  <2> SUFFICES ASSUME Init PROVE WindowInv
    OBVIOUS
  <2>1. MembersInv
    <3>1. /\ srv \in [Contacts -> 0 .. 1] /\ opens = 0 /\ visit \in 0 .. MaxOpenings
          /\ heard = FALSE /\ members = Nobody /\ done = NotDone /\ fetches = {} /\ shown = {}
          /\ pushes = [c \in Contacts |-> {}] /\ missed = FALSE /\ regressed = {}
          /\ tainted = FALSE /\ changes = 0
      BY RoomBounds DEF Init, RoomInit
    <3>2. /\ members \in [Contacts -> Record] /\ srv \in [Contacts -> Record]
          /\ \A c \in Contacts : members[c] = 0 /\ srv[c] \in Nat /\ pushes[c] = {}
      BY <3>1, RoomBounds DEF Nobody, Record
    <3>3. RoomTypeOK
      <4>1. changes \in 0 .. MaxChanges /\ opens \in 0 .. 1
        BY <3>1, RoomBounds
      <4>2. done \in [BOOLEAN -> BOOLEAN] /\ pushes \in [Contacts -> SUBSET Record]
        BY <3>1 DEF NotDone
      <4>3. {heard, missed, tainted} \subseteq BOOLEAN
        BY <3>1
      <4> QED BY <3>1, <3>2, <4>1, <4>2, <4>3 DEF RoomTypeOK
    <3>4. Records
      BY <3>1, <3>2, NeverActive DEF Records
    <3> QED BY <3>1, <3>3, <3>4 DEF MembersInv
  <2>2. DoneInv /\ RequestInv
    BY NoChatIs DEF Init, RoomInit, DoneInv, RequestInv, NoRequest
  <2>3. ScreenInv
    BY DEF Init, ScreenInit, ScreenInv, ScreenTypeOK, Up
  <2>4. CallInv
    BY NoChatIs DEF Init, CallInv, AudioServed, AudioStates, ScreenHeld
  <2> QED BY <2>1, <2>2, <2>3, <2>4 DEF WindowInv
<1>2. WindowInv /\ [Next]_vars => WindowInv'
  <2> SUFFICES ASSUME WindowInv, [Next]_vars PROVE WindowInv'
    OBVIOUS
  <2>1. CASE UNCHANGED vars
    <3>1. UNCHANGED <<roomVars, screenVars, phase, meeting, chat, callVars, request>>
      BY <2>1 DEF vars, windowVars
    <3>2. UNCHANGED <<opens, visit, done, fetches, tainted, srv>>
      BY <3>1 DEF roomVars, room, roomService
    <3>3. MembersInv' /\ DoneInv' /\ CallInv' /\ ScreenInv'
      BY <3>1, <3>2, MembersStutter, DoneStutters, CallStutters DEF WindowInv
    <3> QED BY <3>1, <3>2, <3>3 DEF WindowInv, RequestInv
  <2>2. CASE Next
    BY <2>2, CallStepKeeps, JoinKeeps, LeaveKeeps, MemberStepKeeps, RequestStepKeeps
       DEF Next, WindowStep, RequestStep
  <2> QED BY <2>1, <2>2
<1> QED BY <1>1, <1>2, PTL DEF Spec

\* When nothing is under way the window shows the active members of its room and knows
\* that they are complete, but for the changes and the fetches excused by name
\* (chime-room.c:732-884, chat.c:486-513).
THEOREM MembersShown == Spec => []MembersSound
<1>1. WindowInv => ShowsMembers
  <2> SUFFICES ASSUME WindowInv, NEW c \in Contacts, Settled(c), ~missed, c \notin regressed
               PROVE  c \in shown <=> Active(srv[c])
    BY DEF ShowsMembers
  <2>1. opens = 1 /\ pushes[c] = {} /\ \A f \in fetches : f.visit # visit
    BY DEF Settled
  <2>2. Known(c)
    BY <2>1 DEF WindowInv, MembersInv
  <2>3. members[c] = srv[c]
    BY <2>1, <2>2 DEF Known, Listing
  <2> QED BY <2>3 DEF WindowInv, MembersInv, Records
<1>2. WindowInv => MembersDone
  BY DEF WindowInv, DoneInv, MembersDone, DoneOfThisOpening, Open
<1>3. WindowInv => MembersSound
  BY <1>1, <1>2 DEF MembersSound
<1> QED BY <1>3, WindowInvariant, PTL

\* The window and the library agree about the call, whatever ends first, but for the
\* second view or share and the audio joined too early that are excused by name
\* (chat.c:363-812).
THEOREM CallKept == Spec => []CallServed
<1>1. WindowInv => TypeOK
  BY DEF WindowInv, MembersInv, RequestInv, CallInv, ScreenInv, ChatOK, TypeOK
<1>2. WindowInv => AudioServed /\ ScreenServed
  BY DEF WindowInv, CallInv, ScreenHeld, ScreenServed
<1>3. WindowInv => CallServed
  BY <1>1, <1>2 DEF CallServed
<1> QED BY <1>3, WindowInvariant, PTL
==============================================================================
