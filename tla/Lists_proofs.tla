----------------------------- MODULE Lists_proofs -----------------------------
(***************************************************************************)
(* Proofs about the lists of the client, for any objects, pages and        *)
(* bounds: the collections they are kept in (ObjectCollection), and the    *)
(* two lists built on their fetching (RoomList, ContactList).              *)
(***************************************************************************)
EXTENDS ObjectCollection, RoomList, ContactList, TLAPS

-----------------------------------------------------------------------------
(* ObjectCollection: what it owns and what names find.                      *)

\* What is in the tables exists, and nothing else does before the collection is
\* destroyed: chime_object_dispose takes the object out of both.
Existence ==
  /\ \A o \in hashed : Exists(o)
  /\ up => \A o \in Objects : Exists(o) => o \in hashed

\* Two that bear one name have made it a shared one.
Sharing == \A o, p \in hashed : o # p /\ nameOf[o] = nameOf[p] => nameOf[o] \in shared

\* by_name holds the pointer of a bearer, even where its key is spoiled; a name
\* without an entry has no key; and only shared names are spoiled.
Entries ==
  /\ \A n \in Names : IF byName[n] = Nobody THEN keyed[n] = Nobody
                       ELSE byName[n] \in hashed /\ nameOf[byName[n]] = n
  /\ spoiled \subseteq shared

CollectionInv == TablesSound /\ Existence /\ Sharing /\ Entries

USE NobodyIsNoObject, HoldsBounded

-----------------------------------------------------------------------------
(* The operations on the tables.                                           *)

\* What names find, by keys of whose, and whom they may pass over.
Finds(h, name, by, key, bad, sh) ==
  /\ by \in [Names -> Objects \cup {Nobody}] /\ key \in [Names -> Objects \cup {Nobody}]
  /\ bad \subseteq sh /\ sh \subseteq Names
  /\ \A n \in Names : by[n] = Nobody => key[n] = Nobody
  /\ \A n \in Names \ bad : by[n] # Nobody => key[n] \in h /\ name[key[n]] = n
  /\ \A n \in Names : by[n] # Nobody => by[n] \in h /\ name[by[n]] = n
  /\ \A o \in h : name[o] \notin sh => by[name[o]] = o
  /\ \A o, p \in h : o # p /\ name[o] = name[p] => name[o] \in sh

\* The invariant says so of the tables.
LEMMA FindsNow ==
  ASSUME CollectionInv
  PROVE  Finds(hashed, nameOf, byName, keyed, spoiled, shared)
<1>1. /\ byName \in [Names -> Objects \cup {Nobody}] /\ keyed \in [Names -> Objects \cup {Nobody}]
      /\ hashed \subseteq Objects /\ nameOf \in [Objects -> Names] /\ shared \subseteq Names
  BY DEF CollectionInv, TablesSound, OwnsLive, CollectionTypeOK
<1>2. \A o \in hashed : nameOf[o] \notin shared => byName[nameOf[o]] = o
  BY <1>1 DEF CollectionInv, TablesSound, NamesFind, Found, Entries
<1>3. \A n \in Names \ spoiled : byName[n] # Nobody => keyed[n] \in hashed /\ nameOf[keyed[n]] = n
  BY DEF CollectionInv, TablesSound, NamesFind
<1> QED BY <1>1, <1>2, <1>3 DEF CollectionInv, Sharing, Entries, Finds

\* It is all that the invariant needs to know of names.
LEMMA FindsAfter ==
  ASSUME CollectionTypeOK', Finds(hashed', nameOf', byName', keyed', spoiled', shared'),
         \A o \in Objects : refs'[o] = holds'[o] + (IF o \in hashed' \ dead' THEN 1 ELSE 0),
         Existence'
  PROVE  CollectionInv'
<1>1. OwnsLive'
  BY DEF OwnsLive
<1>2. NamesFind'
  <2>1. \A n \in Names \ spoiled' : \A o \in Found(n)' \ {Nobody} :
          o \in hashed' /\ Exists(o)' /\ nameOf'[o] = n
    BY DEF Finds, Found, Existence
  <2>2. \A n \in Names \ spoiled' : byName'[n] # Nobody =>
          keyed'[n] \in hashed' /\ nameOf'[keyed'[n]] = n
    BY DEF Finds
  <2>3. \A o \in hashed' : nameOf'[o] \notin shared' => Found(nameOf[o])' = {o}
    BY DEF Finds, Found
  <2> QED BY <2>1, <2>2, <2>3 DEF NamesFind
<1>3. Sharing' /\ Entries'
  BY DEF Finds, Sharing, Entries
<1> QED BY <1>1, <1>2, <1>3 DEF CollectionInv, TablesSound

\* A new or renamed object takes its name over, and leaves the one it had.
LEMMA NamedFinds ==
  ASSUME CollectionInv, NEW o \in Objects, NEW n \in Names, Named(o, n),
         o \in hashed => nameOf[o] # n
  PROVE  /\ nameOf' \in [Objects -> Names] /\ shared' \subseteq Names
         /\ Finds(hashed \cup {o}, nameOf', byName', keyed', spoiled', shared')
<1> DEFINE h == hashed \cup {o}
<1>1. /\ hashed \subseteq Objects /\ nameOf \in [Objects -> Names] /\ shared \subseteq Names
      /\ Finds(hashed, nameOf, byName, keyed, spoiled, shared)
  BY FindsNow DEF CollectionInv, TablesSound, OwnsLive, CollectionTypeOK
<1>2. /\ nameOf' \in [Objects -> Names]
      /\ nameOf'[o] = n /\ \A p \in Objects \ {o} : nameOf'[p] = nameOf[p]
  BY <1>1 DEF Named
<1>3. /\ shared \subseteq shared' /\ shared' \subseteq Names
      /\ \A p \in hashed \ {o} : nameOf[p] = n => n \in shared'
  BY <1>1 DEF Named, Shares
<1> DEFINE out(m) == o \in hashed /\ m = nameOf[o] /\ byName[m] = o
<1>4. \A m \in Names : byName'[m] = IF m = n THEN o ELSE IF out(m) THEN Nobody ELSE byName[m]
  BY DEF Named, Without
<1>5. byName' \in [Names -> Objects \cup {Nobody}] /\ keyed' \in [Names -> Objects \cup {Nobody}]
  BY <1>1 DEF Named, Without, Finds
<1>9. /\ \A m \in Names \ {n} : keyed'[m] = IF out(m) THEN Nobody ELSE keyed[m]
      /\ keyed'[n] = IF byName[n] = Nobody THEN o ELSE keyed[n]
  BY <1>1 DEF Named, Without, Finds
<1>10. \A m \in Names : m \in spoiled' <=>
         m \in spoiled \/ (o \in hashed /\ m = nameOf[o] /\ byName[m] # o /\ keyed[m] = o)
  BY DEF Named
<1>11. spoiled' \subseteq shared'
  <2>1. ASSUME o \in hashed, byName[nameOf[o]] # o, keyed[nameOf[o]] = o
        PROVE  nameOf[o] \in shared
    \* The entry is somebody else's, who bears the name too.
    <3>1. byName[nameOf[o]] # Nobody /\ nameOf[o] \in Names
      BY <1>1, <2>1 DEF Finds
    <3>2. byName[nameOf[o]] \in hashed /\ nameOf[byName[nameOf[o]]] = nameOf[o]
      BY <1>1, <3>1 DEF Finds
    <3> QED BY <1>1, <2>1, <3>2 DEF Finds
  <2>2. spoiled' \subseteq Names
    BY <1>1 DEF Named, Finds
  <2> QED BY <1>1, <1>3, <1>10, <2>1, <2>2 DEF Finds
<1>12. \A m \in Names : byName'[m] = Nobody => keyed'[m] = Nobody
  BY <1>1, <1>4, <1>9 DEF Finds
<1>13. ASSUME NEW m \in Names \ spoiled', byName'[m] # Nobody
       PROVE  keyed'[m] \in h /\ nameOf'[keyed'[m]] = m
  <2>1. CASE m = n /\ byName[n] = Nobody
    BY <1>2, <1>9, <2>1
  <2>2. CASE m = n /\ byName[n] # Nobody
    <3>1. keyed[n] \in hashed /\ nameOf[keyed[n]] = n /\ keyed'[n] = keyed[n]
      BY <1>1, <1>9, <1>10, <1>13, <2>2 DEF Finds
    <3> QED BY <1>1, <1>2, <2>2, <3>1
  <2>3. CASE m # n
    <3>1. byName[m] # Nobody /\ ~out(m) /\ keyed'[m] = keyed[m] /\ m \notin spoiled
      BY <1>4, <1>9, <1>10, <1>13, <2>3
    <3>2. keyed[m] \in hashed /\ nameOf[keyed[m]] = m
      BY <1>1, <3>1 DEF Finds
    <3>3. keyed[m] # o
      BY <1>10, <1>13, <3>1, <3>2
    <3> QED BY <1>1, <1>2, <3>1, <3>2, <3>3
  <2> QED BY <2>1, <2>2, <2>3
<1>6. ASSUME NEW m \in Names, byName'[m] # Nobody
      PROVE  byName'[m] \in h /\ nameOf'[byName'[m]] = m
  <2>1. CASE m = n
    BY <1>2, <1>4, <2>1
  <2>2. CASE m # n
    <3>1. byName'[m] = byName[m] /\ byName[m] # Nobody
      BY <1>4, <1>6, <2>2
    <3>2. byName[m] \in hashed /\ nameOf[byName[m]] = m
      BY <1>1, <3>1 DEF Finds
    <3>3. byName[m] # o
      BY <1>4, <2>2, <1>6, <3>1, <3>2
    <3> QED BY <1>1, <1>2, <3>1, <3>2, <3>3
  <2> QED BY <2>1, <2>2
<1>7. ASSUME NEW p \in h, nameOf'[p] \notin shared'
      PROVE  byName'[nameOf'[p]] = p
  <2>1. CASE p = o
    BY <1>2, <1>4, <2>1
  <2>2. CASE p # o
    <3>1. p \in hashed /\ p \in Objects /\ nameOf'[p] = nameOf[p] /\ nameOf[p] \in Names
      BY <1>1, <1>2, <2>2
    <3>2. nameOf[p] # n /\ nameOf[p] \notin shared
      BY <1>3, <1>7, <2>2, <3>1
    <3>3. byName[nameOf[p]] = p
      BY <1>1, <3>1, <3>2 DEF Finds
    <3> QED BY <1>4, <2>2, <3>1, <3>2, <3>3
  <2> QED BY <2>1, <2>2
<1>8. ASSUME NEW p \in h, NEW q \in h, p # q, nameOf'[p] = nameOf'[q]
      PROVE  nameOf'[p] \in shared'
  <2>1. CASE p # o /\ q # o
    <3>1. p \in hashed /\ q \in hashed /\ nameOf[p] = nameOf[q] /\ nameOf'[p] = nameOf[p]
      BY <1>1, <1>2, <1>8, <2>1
    <3>2. nameOf[p] \in shared
      BY <1>1, <1>8, <3>1 DEF Finds
    <3> QED BY <1>3, <3>1, <3>2
  <2>2. CASE p = o \/ q = o
    BY <1>1, <1>2, <1>3, <1>8, <2>2
  <2> QED BY <2>1, <2>2
<1> QED BY <1>2, <1>3, <1>5, <1>6, <1>7, <1>8, <1>11, <1>12, <1>13 DEF Finds

\* Objects that go with their last reference are not found any more, and the names
\* of those that stay still find them.
LEMMA DroppedFinds ==
  ASSUME CollectionInv, NEW S \in SUBSET Objects, Dropped(S), UNCHANGED <<nameOf, spoiled, shared>>
  PROVE  /\ hashed' = {o \in hashed : o \in S => refs[o] # 1}
         /\ Finds(hashed', nameOf', byName', keyed', spoiled', shared')
<1> DEFINE gone == {o \in S : refs[o] = 1}
<1>1. /\ hashed \subseteq Objects /\ nameOf \in [Objects -> Names]
      /\ Finds(hashed, nameOf, byName, keyed, spoiled, shared)
  BY FindsNow DEF CollectionInv, TablesSound, OwnsLive, CollectionTypeOK
<1>2. /\ hashed' = hashed \ gone /\ nameOf' = nameOf /\ shared' = shared
      /\ spoiled' = spoiled
  BY DEF Dropped
<1>3. /\ byName' = [n \in Names |->
                      IF \E o \in gone \cap hashed : nameOf[o] = n THEN Nobody ELSE byName[n]]
      /\ keyed' = [n \in Names |->
                      IF \E o \in gone \cap hashed : nameOf[o] = n THEN Nobody ELSE keyed[n]]
  BY DEF Dropped, Without
<1>4. byName' \in [Names -> Objects \cup {Nobody}] /\ keyed' \in [Names -> Objects \cup {Nobody}]
  BY <1>1, <1>3 DEF Finds
<1> HIDE DEF gone
<1>5. \A n \in Names : byName'[n] # Nobody => byName'[n] \in hashed' /\ nameOf[byName'[n]] = n
  BY <1>1, <1>2, <1>3 DEF Finds
<1>6. \A o \in hashed' : nameOf[o] \notin shared => byName'[nameOf[o]] = o
  BY <1>1, <1>2, <1>3 DEF Finds
<1>7. \A o, p \in hashed' : o # p /\ nameOf[o] = nameOf[p] => nameOf[o] \in shared
  BY <1>1, <1>2 DEF Finds
<1>8. hashed' = {o \in hashed : o \in S => refs[o] # 1}
  BY <1>2 DEF gone
<1>9. \A n \in Names \ spoiled : byName'[n] # Nobody => keyed'[n] \in hashed' /\ nameOf[keyed'[n]] = n
  BY <1>1, <1>2, <1>3 DEF Finds
<1>10. \A n \in Names : byName'[n] = Nobody => keyed'[n] = Nobody
  BY <1>1, <1>3 DEF Finds
<1> QED BY <1>1, <1>2, <1>4, <1>5, <1>6, <1>7, <1>8, <1>9, <1>10 DEF Finds

-----------------------------------------------------------------------------
(* Its steps.                                                              *)

LEMMA CollectionInitInv == CollectionInit => CollectionInv
BY DEF CollectionInit, CollectionInv, TablesSound, OwnsLive, CollectionTypeOK, NamesFind,
       Existence, Exists, Sharing, Entries, Found

\* An object the service names for the first time: nobody knew it.
LEMMA CreateInv ==
  ASSUME CollectionInv, NEW o \in Objects, NEW n \in Names, NEW lv \in BOOLEAN, Create(o, n, lv)
  PROVE  CollectionInv'
<1>1. CollectionTypeOK /\ OwnsLive /\ Existence
  BY DEF CollectionInv, TablesSound, OwnsLive
<1>2. /\ up /\ up' = up /\ refs[o] = 0 /\ o \notin hashed /\ hashed' = hashed \cup {o}
      /\ current' = current \cup {o} /\ dead' = IF lv THEN dead \ {o} ELSE dead \cup {o}
      /\ refs' = [refs EXCEPT ![o] = 1]
      /\ holds' = [holds EXCEPT ![o] = IF lv THEN 0 ELSE 1]
  BY <1>1 DEF Create, Exists, Existence, CollectionTypeOK
<1>3. Finds(hashed', nameOf', byName', keyed', spoiled', shared') /\ nameOf' \in [Objects -> Names]
      /\ shared' \subseteq Names
  BY <1>2, NamedFinds DEF Create
<1>4. CollectionTypeOK'
  BY <1>1, <1>2, <1>3 DEF CollectionTypeOK, Finds
<1>5. \A p \in Objects : refs'[p] = holds'[p] + (IF p \in hashed' \ dead' THEN 1 ELSE 0)
  BY <1>1, <1>2 DEF OwnsLive, CollectionTypeOK
<1>6. Existence'
  BY <1>1, <1>2 DEF Existence, Exists, CollectionTypeOK
<1> QED BY <1>3, <1>4, <1>5, <1>6, FindsAfter

\* A known object is named again, perhaps by another name.
LEMMA UpdateInv ==
  ASSUME CollectionInv, NEW o \in Objects, NEW n \in Names, Update(o, n) \/ Mention(o, n)
  PROVE  CollectionInv'
<1>1. CollectionTypeOK /\ OwnsLive /\ Existence
  BY DEF CollectionInv, TablesSound, OwnsLive
<1>2. up' = up /\ hashed' = hashed /\ o \in hashed /\ o \in Objects
  BY DEF Update, Mention
<1>3. Finds(hashed', nameOf', byName', keyed', spoiled', shared') /\ nameOf' \in [Objects -> Names]
      /\ shared' \subseteq Names
  <2>1. CASE UNCHANGED nameVars
    BY <1>1, <1>2, <2>1, FindsNow DEF nameVars, CollectionTypeOK
  <2>2. CASE Named(o, n) /\ n # nameOf[o]
    <3>1. hashed \cup {o} = hashed
      BY <1>2
    <3> QED BY <1>2, <2>2, <3>1, NamedFinds
  <2> QED BY <2>1, <2>2 DEF Update, Mention
<1>4. CASE Update(o, n)
  <2>1. /\ refs' = IF o \in dead THEN [refs EXCEPT ![o] = @ + 1] ELSE refs
        /\ dead' = dead \ {o} /\ current' = current \cup {o} /\ holds' = holds
    BY <1>4 DEF Update, Revive
  <2>2. CollectionTypeOK'
    BY <1>1, <1>2, <1>3, <2>1 DEF CollectionTypeOK, Finds
  <2>3. \A p \in Objects : refs'[p] = holds'[p] + (IF p \in hashed' \ dead' THEN 1 ELSE 0)
    BY <1>1, <1>2, <2>1 DEF OwnsLive, CollectionTypeOK
  <2>4. Existence'
    BY <1>1, <1>2, <2>1 DEF Existence, Exists, CollectionTypeOK
  <2> QED BY <1>3, <2>2, <2>3, <2>4, FindsAfter
<1>5. CASE Mention(o, n)
  <2>1. /\ refs' = [refs EXCEPT ![o] = @ + 1] /\ holds' = [holds EXCEPT ![o] = @ + 1]
        /\ dead' = dead /\ current' = current
    BY <1>5 DEF Mention
  <2>2. CollectionTypeOK'
    BY <1>1, <1>2, <1>3, <2>1 DEF CollectionTypeOK, Finds
  <2>3. \A p \in Objects : refs'[p] = holds'[p] + (IF p \in hashed' \ dead' THEN 1 ELSE 0)
    BY <1>1, <1>2, <2>1 DEF OwnsLive, CollectionTypeOK
  <2>4. Existence'
    BY <1>1, <1>2, <2>1 DEF Existence, Exists, CollectionTypeOK
  <2> QED BY <1>3, <2>2, <2>3, <2>4, FindsAfter
<1> QED BY <1>4, <1>5

\* A user takes a reference.
LEMMA HoldInv ==
  ASSUME CollectionInv, NEW o \in Objects, Hold(o)
  PROVE  CollectionInv'
<1>1. CollectionTypeOK /\ OwnsLive /\ Existence
  BY DEF CollectionInv, TablesSound, OwnsLive
<1>2. /\ refs' = [refs EXCEPT ![o] = @ + 1] /\ holds' = [holds EXCEPT ![o] = @ + 1]
      /\ UNCHANGED <<up, hashed, dead, current, nameOf, byName, keyed, spoiled, shared>>
  BY DEF Hold, nameVars
<1>3. CollectionTypeOK'
  BY <1>1, <1>2 DEF CollectionTypeOK
<1>4. \A p \in Objects : refs'[p] = holds'[p] + (IF p \in hashed' \ dead' THEN 1 ELSE 0)
  BY <1>1, <1>2 DEF OwnsLive, CollectionTypeOK
<1>5. Existence'
  <2>1. /\ \A p \in Objects : refs[p] \in Nat /\ (p # o => refs'[p] = refs[p])
        /\ refs'[o] = refs[o] + 1
    BY <1>1, <1>2 DEF CollectionTypeOK
  <2>2. o \in hashed /\ refs[o] > 0
    BY <1>1 DEF Hold, Existence, Exists
  <2> QED BY <1>1, <1>2, <2>1, <2>2 DEF Existence, Exists, CollectionTypeOK
<1> QED BY <1>2, <1>3, <1>4, <1>5, FindsNow, FindsAfter

\* References are dropped: the collection's of live objects that die, or a user's of
\* an object whatever it is.
LEMMA DroppedInv ==
  ASSUME CollectionInv, NEW S \in SUBSET Objects, Dropped(S), UNCHANGED <<up, nameOf, spoiled, shared>>,
         current' \subseteq Objects,
         \/ S \subseteq hashed \ dead /\ dead' = dead \cup S /\ holds' = holds
         \/ \E o \in Objects : /\ S = {o} /\ holds[o] > 0 /\ dead' = dead
                               /\ holds' = [holds EXCEPT ![o] = @ - 1]
  PROVE  CollectionInv'
<1>1. CollectionTypeOK /\ OwnsLive /\ Existence
  BY DEF CollectionInv, TablesSound, OwnsLive
<1>2. /\ hashed' = {o \in hashed : o \in S => refs[o] # 1}
      /\ Finds(hashed', nameOf', byName', keyed', spoiled', shared')
  BY DroppedFinds
<1>3. refs' = [o \in Objects |-> IF o \in S THEN refs[o] - 1 ELSE refs[o]]
  BY DEF Dropped
<1>4. \A o \in S : refs[o] \in Nat /\ refs[o] >= 1
  BY <1>1 DEF OwnsLive, CollectionTypeOK
<1>5. refs' \in [Objects -> Nat]
  BY <1>1, <1>3, <1>4 DEF CollectionTypeOK
<1>6. CollectionTypeOK'
  BY <1>1, <1>2, <1>5 DEF CollectionTypeOK, Finds
<1>7. \A p \in Objects : refs'[p] = holds'[p] + (IF p \in hashed' \ dead' THEN 1 ELSE 0)
  <2>1. CASE S \subseteq hashed \ dead /\ dead' = dead \cup S /\ holds' = holds
    BY <1>1, <1>2, <1>3, <1>4, <2>1 DEF OwnsLive, CollectionTypeOK
  <2>2. ASSUME NEW o \in Objects, S = {o}, holds[o] > 0, dead' = dead,
               holds' = [holds EXCEPT ![o] = @ - 1]
        PROVE  \A p \in Objects : refs'[p] = holds'[p] + (IF p \in hashed' \ dead' THEN 1 ELSE 0)
    \* The last reference is not the collection's: the object was dead.
    BY <1>1, <1>2, <1>3, <1>4, <2>2 DEF OwnsLive, CollectionTypeOK
  <2> QED BY <2>1, <2>2
<1>8. Existence'
  BY <1>1, <1>2, <1>3, <1>4, <1>5 DEF Existence, Exists, CollectionTypeOK
<1> QED BY <1>2, <1>6, <1>7, <1>8, FindsAfter

\* A contact is removed, a user lets go, a fetch of the list ends.
LEMMA DropsInv ==
  ASSUME CollectionInv,
         (\E o \in Objects : Remove(o) \/ Release(o)) \/ ExpireOutdated
  PROVE  CollectionInv'
<1>1. CollectionTypeOK /\ OwnsLive /\ Existence
  BY DEF CollectionInv, TablesSound, OwnsLive
<1>2. ASSUME NEW o \in Objects, Remove(o)
      PROVE  CollectionInv'
  <2>1. /\ o \in hashed /\ current' = current \cup {o} /\ dead' = dead \cup {o}
        /\ UNCHANGED <<up, holds, nameOf, spoiled, shared>>
    BY <1>2 DEF Remove
  <2>2. CASE o \in dead
    <3>1. UNCHANGED <<refs, hashed, byName, keyed, dead>>
      BY <1>2, <2>1, <2>2 DEF Remove
    <3>2. CollectionTypeOK' /\ OwnsLive' /\ Existence'
      BY <1>1, <2>1, <3>1 DEF CollectionTypeOK, OwnsLive, Existence, Exists
    <3> QED BY <2>1, <3>1, <3>2, FindsNow, FindsAfter DEF OwnsLive
  <2>3. CASE o \notin dead
    <3>1. Dropped({o}) /\ {o} \subseteq hashed \ dead
      BY <1>2, <2>1, <2>3 DEF Remove
    <3>2. current' \subseteq Objects
      BY <1>1, <2>1 DEF CollectionTypeOK
    <3> QED BY <2>1, <3>1, <3>2, DroppedInv
  <2> QED BY <2>2, <2>3
<1>3. ASSUME NEW o \in Objects, Release(o)
      PROVE  CollectionInv'
  <2>1. current' \subseteq Objects
    BY <1>1, <1>3 DEF Release, CollectionTypeOK
  <2> QED BY <1>3, <2>1, DroppedInv DEF Release
<1>4. CASE ExpireOutdated
  <2>1. Outdated \subseteq hashed \ dead /\ Outdated \subseteq Objects /\ current' \subseteq Objects
    BY <1>1, <1>4 DEF ExpireOutdated, Outdated, CollectionTypeOK
  <2> QED BY <1>4, <2>1, DroppedInv DEF ExpireOutdated
<1> QED BY <1>2, <1>3, <1>4

\* A fetch of the list begins; the collection is destroyed, and nothing is found in it.
LEMMA OthersInv ==
  ASSUME CollectionInv, Generation \/ Destroy \/ UNCHANGED collectionVars
  PROVE  CollectionInv'
<1>1. CollectionTypeOK /\ OwnsLive /\ Existence
  BY DEF CollectionInv, TablesSound, OwnsLive
<1>2. CASE Generation \/ UNCHANGED collectionVars
  <2>1. /\ UNCHANGED <<up, refs, holds, hashed, dead, nameOf, byName, keyed, spoiled, shared>>
        /\ current' \subseteq Objects
    BY <1>1, <1>2 DEF Generation, collectionVars, nameVars, CollectionTypeOK
  <2>2. CollectionTypeOK' /\ OwnsLive' /\ Existence'
    BY <1>1, <2>1 DEF CollectionTypeOK, OwnsLive, Existence, Exists
  <2> QED BY <2>1, <2>2, FindsNow, FindsAfter DEF OwnsLive
<1>3. CASE Destroy
  <2>1. /\ up' = FALSE /\ hashed' = {} /\ dead' = dead \cup hashed
        /\ byName' = [n \in Names |-> Nobody] /\ keyed' = byName' /\ spoiled' = {}
        /\ refs' = [o \in Objects |-> IF o \in hashed \ dead THEN refs[o] - 1 ELSE refs[o]]
        /\ UNCHANGED <<holds, current, nameOf, shared>>
    BY <1>3 DEF Destroy
  <2>2. \A o \in Objects : refs'[o] = holds[o] /\ holds[o] \in Nat
    BY <1>1, <2>1 DEF OwnsLive, CollectionTypeOK
  <2>3. CollectionTypeOK'
    BY <1>1, <2>1, <2>2 DEF CollectionTypeOK
  <2>4. Existence' /\ Finds(hashed', nameOf', byName', keyed', spoiled', shared')
    BY <1>1, <2>1 DEF CollectionTypeOK, Existence, Finds
  <2> QED BY <2>1, <2>2, <2>3, <2>4, FindsAfter
<1> QED BY <1>2, <1>3

\* Every step.
LEMMA CollectionNextInv == CollectionInv /\ [CollectionNext]_collectionVars => CollectionInv'
<1> SUFFICES ASSUME CollectionInv, [CollectionNext]_collectionVars PROVE CollectionInv'
  OBVIOUS
<1>1. ASSUME NEW o \in Objects, NEW n \in Names, Create(o, n, TRUE) \/ Create(o, n, FALSE)
      PROVE  CollectionInv'
  BY <1>1, CreateInv
<1> QED BY <1>1, UpdateInv, HoldInv, DropsInv, OthersInv DEF CollectionNext

-----------------------------------------------------------------------------
(* What follows of collections.                                            *)

\* The collection owns each live object once, and a name finds who bears it, whatever
\* is renamed, removed, expired and released (chime-object.c:63-83, 149-168, 262-343).
THEOREM TablesKept == CollectionSpec => []TablesSound
<1>1. CollectionInv => TablesSound
  BY DEF CollectionInv
<1> QED BY <1>1, CollectionInitInv, CollectionNextInv, PTL DEF CollectionSpec

\* To the code that fills it the collection is a LiveList.
THEOREM CollectionRefines == CollectionSpec => IsLiveList
<1> DEFINE lv == hashed \ dead
           fr == lv \cap current
<1>1. CollectionInit => List!Empty
  BY DEF CollectionInit, List!Empty
<1>2. CollectionInv /\ [CollectionNext]_collectionVars => [List!LiveNext]_<<lv, fr>>
  <2> SUFFICES ASSUME CollectionInv, [CollectionNext]_collectionVars
               PROVE  List!LiveNext \/ UNCHANGED <<lv, fr>>
    OBVIOUS
  <2>1. CollectionTypeOK /\ OwnsLive /\ Existence
    BY DEF CollectionInv, TablesSound, OwnsLive
  <2>2. ASSUME NEW o \in Objects, NEW n \in Names, Create(o, n, TRUE)
        PROVE  List!Hash({o})
    BY <2>2 DEF Create, List!Hash
  <2>3. ASSUME NEW o \in Objects, NEW n \in Names, Create(o, n, FALSE)
        PROVE  UNCHANGED <<lv, fr>>
    <3>1. o \notin hashed
      BY <2>1, <2>3 DEF Create, Existence, Exists
    <3> QED BY <2>3, <3>1 DEF Create
  <2>4. ASSUME NEW o \in Objects, NEW n \in Names, Update(o, n)
        PROVE  List!Hash({o})
    BY <2>4 DEF Update, Revive, List!Hash
  <2>5. ASSUME NEW o \in Objects, Remove(o)
        PROVE  List!Unhash({o}) \/ UNCHANGED <<lv, fr>>
    BY <2>5 DEF Remove, Dropped, List!Unhash
  <2>6. ASSUME NEW o \in Objects, Release(o)
        PROVE  UNCHANGED <<lv, fr>>
    \* Only a dead object goes when a user lets go of it.
    <3>1. refs[o] = 1 => o \notin lv
      BY <2>1, <2>6 DEF Release, OwnsLive, CollectionTypeOK
    <3>2. lv' = lv /\ current' = current
      BY <2>6, <3>1 DEF Release, Dropped
    <3> QED BY <3>2
  <2>7. ASSUME \E o \in Objects : Hold(o) \/ \E n \in Names : Mention(o, n)
        PROVE  UNCHANGED <<lv, fr>>
    BY <2>7 DEF Hold, Mention
  <2>8. CASE Generation
    BY <2>8 DEF Generation, List!LiveNext, List!NewGeneration
  <2>9. CASE ExpireOutdated
    <3>1. List!Expire
      BY <2>9 DEF ExpireOutdated, Outdated, Dropped, List!Expire
    <3> QED BY <3>1 DEF List!LiveNext
  <2>10. CASE Destroy
    BY <2>10 DEF Destroy, List!LiveNext, List!Clear
  <2>11. CASE UNCHANGED collectionVars
    BY <2>11 DEF collectionVars
  <2> QED BY <2>2, <2>3, <2>4, <2>5, <2>6, <2>7, <2>8, <2>9, <2>10, <2>11
      DEF CollectionNext, List!LiveNext
<1> QED BY <1>1, <1>2, CollectionInitInv, CollectionNextInv, PTL
    DEF CollectionSpec, IsLiveList, List!LiveSpec

-----------------------------------------------------------------------------
(* ListSync: what the code that fetches any list keeps.                    *)

\* The pages of its fetch that a request for a page has left behind, its own
\* included once the service has read it.
Passed(r) == IF r.answer.kind = "page" THEN r.page ELSE r.page - 1

\* What the fetch has named when it has come to the request r.
NamedBy(r, fr) == fr \cup (IF r.answer.kind = "page" THEN r.answer.items ELSE {})

\* What each page answer under way stands for, when the service lists sv: every
\* object on a page passed was named or is excused by miss, and what was named is
\* listed or excused by extra.
FetchFits(rs, fr, sv, miss, extra) ==
  \A r \in rs :
    /\ \A i \in sv : PageOf[i] <= Passed(r) => i \in NamedBy(r, fr) \cup miss
    /\ NamedBy(r, fr) \subseteq sv \cup extra

\* The same of a list at rest.
RestFits(lv, fr, sv, miss, extra) ==
  /\ lv = fr
  /\ sv \subseteq lv \cup miss
  /\ lv \subseteq sv \cup extra

\* Fetches follow each other, and each waits for one page.
OneFetch ==
  /\ ~ended /\ sync = "idle" => requests = {}
  /\ ~ended /\ sync # "idle" => \E r \in Request : requests = {r}

\* A list whose connection has ended has nothing in it, nor will it.
Over == ended => live = {} /\ fresh = {} /\ \A r \in requests : r.answer = Failure

ListInv == ListTypeOK /\ OneFetch /\ Over

USE PagesPaged

\* A request is unread, failed or holds a page.
LEMMA AnswerIs ==
  ASSUME NEW r \in Request
  PROVE  /\ r.page \in 1..Pages /\ r.answer \in Answer
         /\ r = [page |-> r.page, answer |-> r.answer]
         /\ \/ r.answer = Unread /\ r.answer # Failure /\ r.answer.kind # "page"
            \/ r.answer = Failure /\ r.answer # Unread /\ r.answer.kind # "page"
            \/ /\ r.answer \in [kind : {"page"}, items : SUBSET Items]
               /\ r.answer.kind = "page" /\ r.answer.items \subseteq Items
               /\ r.answer # Unread /\ r.answer # Failure
<1>1. r.page \in 1..Pages /\ r.answer \in Answer /\ r = [page |-> r.page, answer |-> r.answer]
  BY DEF Request
<1>2. \A a \in [kind : {"page"}, items : SUBSET Items] :
        a.kind = "page" /\ a.items \subseteq Items /\ a # Unread /\ a # Failure
  BY DEF Unread, Failure
<1>3. Unread # Failure /\ Unread.kind # "page" /\ Failure.kind # "page"
  BY DEF Unread, Failure
<1> QED BY <1>1, <1>2, <1>3 DEF Answer

\* What asking for a page makes.
LEMMA AskIs ==
  ASSUME NEW p \in 1..Pages
  PROVE  Ask(p) \in Request /\ Ask(p).page = p /\ Ask(p).answer = Unread
         /\ Ask(p).answer.kind # "page"
BY DEF Ask, Request, Answer, Unread

\* A fetch that begins has passed no page and named nothing (fetch_rooms).
LEMMA StartFits ==
  ASSUME NEW sv \in SUBSET Items, NEW miss, NEW extra
  PROVE  FetchFits({Ask(1)}, {}, sv, miss, extra)
<1>1. 1 \in 1..Pages
  OBVIOUS
<1>2. Passed(Ask(1)) = 0 /\ NamedBy(Ask(1), {}) = {}
  BY <1>1, AskIs DEF Passed, NamedBy
<1>3. \A i \in sv : ~(PageOf[i] <= 0)
  OBVIOUS
<1> QED BY <1>2, <1>3 DEF FetchFits

\* To be excused for more is no harder.
LEMMA FitsMore ==
  ASSUME NEW rs, NEW fr, NEW lv, NEW sv, NEW miss, NEW extra,
         NEW more, miss \subseteq more, NEW further, extra \subseteq further
  PROVE  /\ FetchFits(rs, fr, sv, miss, extra) => FetchFits(rs, fr, sv, more, further)
         /\ RestFits(lv, fr, sv, miss, extra) => RestFits(lv, fr, sv, more, further)
<1>1. FetchFits(rs, fr, sv, miss, extra) => FetchFits(rs, fr, sv, more, further)
  BY DEF FetchFits
<1>2. RestFits(lv, fr, sv, miss, extra) => RestFits(lv, fr, sv, more, further)
  BY DEF RestFits
<1> QED BY <1>1, <1>2

\* The service reads a page as it is at that moment, so that nothing is missed.
LEMMA ReadFits ==
  ASSUME ListInv, NEW r \in requests, ReadPage(r)
  PROVE  /\ ListInv'
         /\ \A miss, extra : FetchFits(requests, fresh, srv, miss, extra)
                             => FetchFits(requests', fresh', srv', miss, extra)
<1>1. r \in Request /\ r.answer = Unread
  BY DEF ListInv, ListTypeOK, ReadPage
<1>2. r.answer # Failure /\ r.answer.kind # "page"
  BY <1>1, AnswerIs
<1>3. ~ended
  BY <1>1, <1>2 DEF ListInv, Over
<1>4. requests = {r}
  BY <1>3 DEF ListInv, OneFetch
<1>5. PICK a \in {Failure, [kind |-> "page", items |-> {i \in srv : PageOf[i] = r.page}]} :
        requests' = (requests \ {r}) \cup {[r EXCEPT !.answer = a]}
  BY DEF ReadPage
<1> DEFINE q == [r EXCEPT !.answer = a]
<1>6. a \in Answer
  BY DEF ListInv, ListTypeOK, Answer
<1>7. q \in Request /\ q.page = r.page /\ q.answer = a
  BY <1>1, <1>6 DEF Request
<1>8. requests' = {q}
  BY <1>4, <1>5
<1>9. UNCHANGED <<sync, live, fresh, online, ended, srv>>
  BY DEF ReadPage
<1>10. ListInv'
  BY <1>3, <1>4, <1>7, <1>8, <1>9 DEF ListInv, ListTypeOK, OneFetch, Over
<1> SUFFICES ASSUME NEW miss, NEW extra, FetchFits(requests, fresh, srv, miss, extra)
             PROVE  FetchFits({q}, fresh, srv, miss, extra)
  BY <1>8, <1>9, <1>10
<1>11. /\ \A i \in srv : PageOf[i] <= r.page - 1 => i \in fresh \cup miss
       /\ fresh \subseteq srv \cup extra
  BY <1>2, <1>4 DEF FetchFits, Passed, NamedBy
<1>12. CASE a = Failure
  <2>1. Passed(q) = r.page - 1 /\ NamedBy(q, fresh) = fresh
    BY <1>7, <1>12, AnswerIs DEF Passed, NamedBy
  <2> HIDE DEF q
  <2> QED BY <1>11, <2>1 DEF FetchFits
<1>13. CASE a = [kind |-> "page", items |-> {i \in srv : PageOf[i] = r.page}]
  <2>1. Passed(q) = r.page /\ NamedBy(q, fresh) = fresh \cup {i \in srv : PageOf[i] = r.page}
    BY <1>7, <1>13 DEF Passed, NamedBy
  <2>2. \A i \in srv : PageOf[i] <= r.page => PageOf[i] <= r.page - 1 \/ PageOf[i] = r.page
    BY <1>1, AnswerIs DEF ListInv, ListTypeOK
  <2> HIDE DEF q
  <2> QED BY <1>11, <2>1, <2>2 DEF FetchFits
<1> QED BY <1>12, <1>13

\* A fetch may begin whenever the list is not being fetched; nothing is sent once
\* the connection is gone.
LEMMA StartKeeps ==
  ASSUME ListInv, NEW rs \in SUBSET requests, ~ended => rs = {},
         Start(rs), UNCHANGED <<live, online, ended, srv>>
  PROVE  /\ ListInv'
         /\ ~ended => /\ sync' = "fetching"
                      /\ \A miss, extra : FetchFits(requests', fresh', srv', miss, extra)
<1>1. 1 \in 1..Pages
  OBVIOUS
<1>2. Ask(1) \in Request
  BY <1>1, AskIs
<1>3. CASE ended
  BY <1>3 DEF ListInv, ListTypeOK, OneFetch, Over, Start
<1>4. CASE ~ended
  <2>1. sync' = "fetching" /\ fresh' = {} /\ requests' = {Ask(1)} /\ ended' = ended
    BY <1>4 DEF Start
  <2>2. ListInv'
    BY <1>2, <1>4, <2>1 DEF ListInv, ListTypeOK, OneFetch, Over, Start
  <2>3. srv' \in SUBSET Items
    BY <2>2 DEF ListInv, ListTypeOK
  <2> QED BY <2>1, <2>2, <2>3, StartFits
<1> QED BY <1>3, <1>4

\* A change marks the fetch that is under way, or begins one (fetch_rooms).
LEMMA FetchKeeps ==
  ASSUME ListInv, Fetch, UNCHANGED <<live, online, ended, srv>>
  PROVE  /\ ListInv'
         /\ sync' # "idle"
         /\ ~ended /\ sync' = "fetching" =>
              /\ sync = "idle"
              /\ \A miss, extra : FetchFits(requests', fresh', srv', miss, extra)
<1>1. CASE sync = "idle" /\ Start(requests)
  <2>1. ~ended => requests = {}
    BY <1>1 DEF ListInv, OneFetch
  <2>2. sync' = "fetching"
    BY <1>1 DEF Start
  <2> QED BY <1>1, <2>1, <2>2, StartKeeps
<1>2. CASE sync # "idle" /\ sync' = "stale" /\ UNCHANGED <<fresh, requests>>
  BY <1>2 DEF ListInv, ListTypeOK, OneFetch, Over
<1> QED BY <1>1, <1>2 DEF Fetch, ListInv, ListTypeOK

\* So does an answer that was overtaken by a change (rooms_cb).
LEMMA InvalidatedKeeps ==
  ASSUME ListInv, NEW r \in requests, Invalidated(r)
  PROVE  /\ ListInv'
         /\ ~ended => /\ sync' = "fetching"
                      /\ \A miss, extra : FetchFits(requests', fresh', srv', miss, extra)
<1>1. ~ended => requests \ {r} = {}
  BY DEF ListInv, OneFetch
<1> QED BY <1>1, StartKeeps DEF Invalidated

\* A page goes into the generation of its fetch, so that the last one leaves what
\* the pages named (rooms_cb, chime_object_collection_expire_outdated).
LEMMA ParsedKeeps ==
  ASSUME ListInv, NEW r \in requests, Parsed(r)
  PROVE  /\ ListInv' /\ ~ended
         /\ sync' \in {"fetching", "idle"}
         /\ \A miss, extra : FetchFits(requests, fresh, srv, miss, extra) =>
              /\ sync' = "fetching" => FetchFits(requests', fresh', srv', miss, extra)
              /\ sync' = "idle" => RestFits(live', fresh', srv', miss, extra)
         /\ live \subseteq live' \/ (r.page = Pages /\ live' = NamedBy(r, fresh))
<1>1. r \in Request /\ r.answer.kind = "page" /\ sync = "fetching"
  BY DEF ListInv, ListTypeOK, Parsed
<1>2. r.answer.items \subseteq Items /\ r.answer # Failure
  BY <1>1, AnswerIs
<1>3. ~ended
  BY <1>2 DEF ListInv, Over
<1>4. requests = {r}
  BY <1>1, <1>3 DEF ListInv, OneFetch
<1>5. fresh' = fresh \cup r.answer.items /\ fresh' \subseteq Items
  BY <1>2 DEF Parsed, ListInv, ListTypeOK
<1>6. UNCHANGED <<ended, srv>>
  BY DEF Parsed
<1>7. ASSUME NEW miss, NEW extra, FetchFits(requests, fresh, srv, miss, extra)
      PROVE  /\ \A i \in srv : PageOf[i] <= r.page => i \in fresh' \cup miss
             /\ fresh' \subseteq srv \cup extra
  BY <1>1, <1>4, <1>5, <1>7 DEF FetchFits, Passed, NamedBy
<1>8. CASE r.page < Pages
  <2> DEFINE q == Ask(r.page + 1)
  <2>1. r.page + 1 \in 1..Pages
    BY <1>1, <1>8, AnswerIs
  <2>2. q \in Request /\ Passed(q) = r.page /\ NamedBy(q, fresh') = fresh'
    BY <2>1, AskIs, <1>1, AnswerIs DEF Passed, NamedBy
  <2>3. sync' = sync /\ online' = online /\ live' = live \cup r.answer.items /\ requests' = {q}
    BY <1>4, <1>8 DEF Parsed
  <2> HIDE DEF q
  <2>4. ListInv'
    BY <1>1, <1>2, <1>3, <1>5, <1>6, <2>2, <2>3 DEF ListInv, ListTypeOK, OneFetch, Over
  <2>5. ASSUME NEW miss, NEW extra, FetchFits(requests, fresh, srv, miss, extra)
        PROVE  FetchFits(requests', fresh', srv', miss, extra)
    BY <1>6, <1>7, <2>2, <2>3, <2>5 DEF FetchFits
  <2> QED BY <1>1, <1>3, <2>3, <2>4, <2>5
<1>9. CASE r.page = Pages
  <2>1. sync' = "idle" /\ online' = TRUE /\ live' = fresh' /\ requests' = {}
    BY <1>4, <1>9 DEF Parsed
  <2>2. ListInv'
    BY <1>3, <1>5, <1>6, <2>1 DEF ListInv, ListTypeOK, OneFetch, Over
  <2>3. ASSUME NEW miss, NEW extra, FetchFits(requests, fresh, srv, miss, extra)
        PROVE  RestFits(live', fresh', srv', miss, extra)
    <3>1. \A i \in srv : PageOf[i] <= r.page
      BY <1>9 DEF ListInv, ListTypeOK
    <3> QED BY <1>6, <1>7, <2>1, <2>3, <3>1 DEF RestFits
  <2>4. live' = NamedBy(r, fresh)
    BY <1>1, <1>5, <2>1 DEF NamedBy
  <2> QED BY <1>3, <1>9, <2>1, <2>2, <2>3, <2>4
<1>10. r.page < Pages \/ r.page = Pages
  BY <1>1, AnswerIs
<1> QED BY <1>8, <1>9, <1>10

\* The connection takes the list with it (chime_destroy_rooms and its like).
LEMMA EndKeeps ==
  ASSUME ListInv, NEW rs \in SUBSET requests, End(rs)
  PROVE  ListInv' /\ ended'
<1>1. \A r \in rs : [r EXCEPT !.answer = Failure] \in Request
                    /\ [r EXCEPT !.answer = Failure].answer = Failure
  BY DEF ListInv, ListTypeOK, Request, Answer
<1> QED BY <1>1 DEF ListInv, ListTypeOK, OneFetch, Over, End, Clear

\* What is parsed besides a fetch, a push or a look-up, goes into its generation too.
LEMMA HashFits ==
  ASSUME NEW i, NEW rs, NEW fr, NEW lv, NEW sv, NEW miss, NEW extra, i \in sv \cup extra
  PROVE  /\ FetchFits(rs, fr, sv, miss, extra) => FetchFits(rs, fr \cup {i}, sv, miss, extra)
         /\ RestFits(lv, fr, sv, miss, extra) => RestFits(lv \cup {i}, fr \cup {i}, sv, miss, extra)
<1>1. ASSUME FetchFits(rs, fr, sv, miss, extra) PROVE FetchFits(rs, fr \cup {i}, sv, miss, extra)
  BY <1>1 DEF FetchFits, NamedBy
<1>2. ASSUME RestFits(lv, fr, sv, miss, extra)
      PROVE  RestFits(lv \cup {i}, fr \cup {i}, sv, miss, extra)
  BY <1>2 DEF RestFits
<1> QED BY <1>1, <1>2

\* An object that is taken out of the list is missed from then on, one that joins
\* the service's list is too, and one that goes has to be excused in turn.
LEMMA ChangeFits ==
  ASSUME NEW i, NEW rs, NEW fr, NEW lv, NEW sv, NEW miss, NEW extra
  PROVE  /\ i \in miss /\ FetchFits(rs, fr, sv, miss, extra)
              => FetchFits(rs, fr \ {i}, sv, miss, extra)
         /\ i \in miss /\ RestFits(lv, fr, sv, miss, extra)
              => RestFits(lv \ {i}, fr \ {i}, sv, miss, extra)
         /\ i \in miss /\ FetchFits(rs, fr, sv, miss, extra)
              => FetchFits(rs, fr, sv \cup {i}, miss, extra)
         /\ i \in miss /\ RestFits(lv, fr, sv, miss, extra)
              => RestFits(lv, fr, sv \cup {i}, miss, extra)
         /\ i \in extra /\ FetchFits(rs, fr, sv, miss, extra)
              => FetchFits(rs, fr, sv \ {i}, miss \ {i}, extra)
         /\ i \in extra \/ i \notin lv
              => (RestFits(lv, fr, sv, miss, extra) => RestFits(lv, fr, sv \ {i}, miss \ {i}, extra))
<1>1. ASSUME i \in miss, FetchFits(rs, fr, sv, miss, extra)
      PROVE  FetchFits(rs, fr \ {i}, sv, miss, extra)
  BY <1>1 DEF FetchFits, NamedBy
<1>2. ASSUME i \in miss, FetchFits(rs, fr, sv, miss, extra)
      PROVE  FetchFits(rs, fr, sv \cup {i}, miss, extra)
  BY <1>2 DEF FetchFits
<1>3. ASSUME i \in extra, FetchFits(rs, fr, sv, miss, extra)
      PROVE  FetchFits(rs, fr, sv \ {i}, miss \ {i}, extra)
  BY <1>3 DEF FetchFits
<1> QED BY <1>1, <1>2, <1>3 DEF RestFits

\* Only what is in the collection of a connection can be hashed, and the fetch that
\* is under way goes on.
LEMMA HashKeeps ==
  ASSUME ListInv, ~ended, NEW i \in Items, Hash({i}),
         UNCHANGED <<sync, requests, online, ended, srv>>
  PROVE  ListInv'
BY DEF ListInv, ListTypeOK, OneFetch, Over, Hash

-----------------------------------------------------------------------------
(* RoomList.                                                               *)

\* A push that describes a room which has gone since is followed by the push that
\* says so.
Foretold ==
  \A k \in 1..Len(pushes) :
    pushes[k].kind = "room" /\ pushes[k].item \notin srv =>
      \E j \in k + 1..Len(pushes) : pushes[j] = Visible

\* Unless a change is still to be heeded, a fetch has named what the service lists,
\* as far as it has come; and a list at rest shows it.
Heard ==
  ~ended /\ ~Unheeded =>
    /\ sync = "fetching" => FetchFits(requests, fresh, srv, {}, strays)
    /\ sync = "idle" => RestFits(live, fresh, srv, {}, strays)

\* Nothing is heard on a connection that has ended, and no lookup succeeds.
DeafAfterEnd == ended => pushes = <<>> /\ \A l \in lookups : l.answer = "failed"

RoomInv == TypeOK /\ ListInv /\ Foretold /\ Heard /\ DeafAfterEnd

USE RoomBounds

\* The kinds of pushes exclude each other.
LEMMA PushIs ==
  ASSUME NEW p \in Push
  PROVE  /\ p = Visible => p.kind = "visible"
         /\ p # Visible => p.kind \in {"room", "brief", "message"} /\ p.item \in Items
BY DEF Push, Visible

\* Handing on the first push leaves those after it.
LEMMA TailIs ==
  ASSUME NEW S, NEW s \in Seq(S), s # <<>>
  PROVE  /\ Tail(s) \in Seq(S) /\ Len(s) \in Nat \ {0} /\ Len(Tail(s)) = Len(s) - 1
         /\ Head(s) = s[1] /\ s[1] \in S
         /\ \A k \in 1..Len(s) - 1 : Tail(s)[k] = s[k + 1]
OBVIOUS

\* A room that appears or goes is told of after all that was told before.
LEMMA ChangeTold ==
  ASSUME TypeOK, Tell({Visible})
  PROVE  /\ pushes' \in Seq(Push) /\ Unheeded' /\ Foretold'
<1>1. Visible \in Push /\ pushes' = Append(pushes, Visible)
  BY DEF Tell, Push
<1> DEFINE N == Len(pushes)
<1>2. N \in Nat /\ Len(pushes') = N + 1 /\ pushes' \in Seq(Push) /\ pushes'[N + 1] = Visible
  BY <1>1 DEF TypeOK
<1>3. Visible.kind # "room"
  BY DEF Visible
<1> HIDE DEF N
<1>4. Unheeded'
  BY <1>2 DEF Unheeded
<1>5. ASSUME NEW k \in 1..N + 1, pushes'[k].kind = "room"
      PROVE  \E j \in k + 1..N + 1 : pushes'[j] = Visible
  <2>1. k # N + 1
    BY <1>2, <1>3, <1>5
  <2>2. N + 1 \in k + 1..N + 1
    BY <1>2, <2>1
  <2> QED BY <1>2, <2>2
<1> QED BY <1>2, <1>4, <1>5 DEF Foretold

\* What is said of a room that is there changes nothing of what is still to be heeded.
LEMMA TalkTold ==
  ASSUME RoomInv, NEW i \in Items, RoomTalks(i)
  PROVE  pushes' \in Seq(Push) /\ (Unheeded' <=> Unheeded) /\ Foretold'
<1>1. PICK k \in {"room", "brief", "message"} : pushes' = Append(pushes, [kind |-> k, item |-> i])
  BY DEF RoomTalks, Tell
<1> DEFINE p == [kind |-> k, item |-> i]
           N == Len(pushes)
<1>2. p \in Push /\ p # Visible /\ p.item = i
  BY DEF Push, Visible
<1>3. UNCHANGED <<srv, unheard>> /\ i \in srv
  BY DEF RoomTalks, Tell
<1> HIDE DEF p
<1>4. /\ N \in Nat /\ Len(pushes') = N + 1 /\ pushes' \in Seq(Push) /\ pushes'[N + 1] = p
      /\ \A j \in 1..N : pushes'[j] = pushes[j]
  BY <1>1, <1>2 DEF RoomInv, TypeOK, p
<1>5. Unheeded' <=> Unheeded
  BY <1>2, <1>3, <1>4 DEF Unheeded
<1>6. ASSUME NEW m \in 1..N + 1, pushes'[m].kind = "room", pushes'[m].item \notin srv
      PROVE  \E j \in m + 1..N + 1 : pushes'[j] = Visible
  <2>1. m # N + 1
    BY <1>2, <1>3, <1>4, <1>6
  <2>2. m \in 1..N
    BY <1>4, <2>1
  <2>3. PICK j \in m + 1..N : pushes[j] = Visible
    BY <1>4, <1>6, <2>2 DEF RoomInv, Foretold
  <2>4. j \in 1..N /\ j \in m + 1..N + 1
    BY <1>4, <2>2, <2>3
  <2> QED BY <1>4, <2>3, <2>4
<1> QED BY <1>3, <1>4, <1>5, <1>6 DEF Foretold

\* Of the pushes that are left each is followed by what followed it; and a room that
\* is described is there, or a change is still to come.
LEMMA HandedOn ==
  ASSUME RoomInv, pushes # <<>>, pushes' = Tail(pushes), srv' = srv
  PROVE  /\ pushes' \in Seq(Push) /\ Foretold' /\ Head(pushes) \in Push
         /\ Head(pushes) # Visible /\ unheard' = unheard => (Unheeded' <=> Unheeded)
         /\ Head(pushes).kind = "room" /\ ~Unheeded' => Head(pushes).item \in srv
<1> DEFINE N == Len(pushes)
<1>1. /\ pushes' \in Seq(Push) /\ N \in Nat \ {0} /\ Len(pushes') = N - 1
      /\ Head(pushes) = pushes[1] /\ pushes[1] \in Push
      /\ \A k \in 1..N - 1 : pushes'[k] = pushes[k + 1]
  BY TailIs DEF RoomInv, TypeOK
<1>2. \A k \in 1..N : pushes[k].kind = "room" /\ pushes[k].item \notin srv =>
        \E j \in k + 1..N : pushes[j] = Visible
  BY DEF RoomInv, Foretold
<1> HIDE DEF N
<1>3. \A j \in 2..N : j - 1 \in 1..N - 1 /\ pushes'[j - 1] = pushes[j]
  BY <1>1
<1>4. ASSUME NEW k \in 1..N - 1, pushes'[k].kind = "room", pushes'[k].item \notin srv
      PROVE  \E j \in k + 1..N - 1 : pushes'[j] = Visible
  <2>1. PICK j \in k + 2..N : pushes[j] = Visible
    BY <1>1, <1>2, <1>4
  <2>2. j - 1 \in k + 1..N - 1 /\ pushes'[j - 1] = Visible
    BY <1>1, <1>3, <2>1
  <2> QED BY <2>2
<1>5. Foretold'
  BY <1>1, <1>4 DEF Foretold
<1>6. (\E j \in 2..N : pushes[j] = Visible) <=> (\E j \in 1..N - 1 : pushes'[j] = Visible)
  <2>1. ASSUME NEW j \in 1..N - 1 PROVE j + 1 \in 2..N /\ pushes'[j] = pushes[j + 1]
    BY <1>1
  <2> QED BY <1>3, <2>1
<1>7. Head(pushes) # Visible /\ unheard' = unheard => (Unheeded' <=> Unheeded)
  <2>1. \A j \in 1..N : j = 1 \/ j \in 2..N
    BY <1>1
  <2>2. \A j \in 2..N : j \in 1..N
    BY <1>1
  <2> QED BY <1>1, <1>6, <2>1, <2>2 DEF Unheeded, N
<1>8. Head(pushes).kind = "room" /\ ~Unheeded' => Head(pushes).item \in srv
  BY <1>1, <1>2, <1>6 DEF Unheeded
<1> QED BY <1>1, <1>5, <1>7, <1>8

\* The first fetch has begun.
LEMMA RoomInit == Init => RoomInv
<1> SUFFICES ASSUME Init PROVE RoomInv
  OBVIOUS
<1>1. 1 \in 1..Pages
  OBVIOUS
<1>2. Ask(1) \in Request
  BY <1>1, AskIs
<1>3. ListTypeOK
  BY <1>2 DEF Init, ListInit, Empty, ListTypeOK
<1>4. ListInv
  BY <1>2, <1>3 DEF Init, ListInit, Empty, ListInv, OneFetch, Over
<1>5. TypeOK
  <2>1. <<>> \in Seq(Push) /\ {} \subseteq Lookup /\ {} \subseteq Items /\ 0 \in Nat
    OBVIOUS
  <2> QED BY <1>3, <2>1 DEF Init, TypeOK
<1>6. FetchFits(requests, fresh, srv, {}, strays) /\ sync = "fetching"
  BY StartFits DEF Init, ListInit, Empty
<1> QED BY <1>4, <1>5, <1>6 DEF Init, ListInit, RoomInv, Foretold, Heard, DeafAfterEnd

\* What the service does to the list, and the network to its pushes.
LEMMA RoomService ==
  ASSUME RoomInv
  PROVE  /\ \A i \in Items : RoomAppears(i) \/ RoomGoes(i) \/ RoomTalks(i) => RoomInv'
         /\ \A l \in lookups : ReadLookup(l) => RoomInv'
         /\ \A r \in requests : Page(r) => RoomInv'
         /\ LosePushes => RoomInv'
<1> USE DEF RoomInv
<1>1. ASSUME NEW i \in Items, RoomAppears(i) \/ RoomGoes(i) PROVE RoomInv'
  <2>1. Tell({Visible}) /\ srv' \subseteq Items /\ ~ended
    BY <1>1 DEF RoomAppears, RoomGoes, Tell, ListInv, ListTypeOK
  <2>2. UNCHANGED <<sync, live, fresh, requests, online, ended, lookups, unheard, strays>>
        /\ changes' \in Nat
    BY <2>1 DEF Tell, TypeOK
  <2>3. pushes' \in Seq(Push) /\ Unheeded' /\ Foretold'
    BY <2>1, ChangeTold
  <2>4. ListInv'
    BY <2>1, <2>2 DEF ListInv, ListTypeOK, OneFetch, Over
  <2> QED BY <2>1, <2>2, <2>3, <2>4 DEF TypeOK, ListInv, Heard, DeafAfterEnd
<1>2. ASSUME NEW i \in Items, RoomTalks(i) PROVE RoomInv'
  <2>1. /\ UNCHANGED <<sync, live, fresh, requests, online, ended, srv, lookups, unheard, strays>>
        /\ changes' \in Nat /\ ~ended
    BY <1>2 DEF RoomTalks, Tell, TypeOK
  <2>2. pushes' \in Seq(Push) /\ (Unheeded' <=> Unheeded) /\ Foretold'
    BY <1>2, TalkTold
  <2>3. ListInv'
    BY <2>1 DEF ListInv, ListTypeOK, OneFetch, Over
  <2>4. Heard'
    BY <2>1, <2>2 DEF Heard
  <2> QED BY <2>1, <2>2, <2>3, <2>4 DEF TypeOK, ListInv, DeafAfterEnd
<1>3. ASSUME NEW l \in lookups, ReadLookup(l) PROVE RoomInv'
  <2>1. PICK a \in {"failed", "room"} : lookups' = (lookups \ {l}) \cup {[l EXCEPT !.answer = a]}
    BY <1>3 DEF ReadLookup
  <2>2. l \in Lookup /\ l.answer = "unread"
    BY <1>3 DEF TypeOK, ReadLookup
  <2>3. lookups' \subseteq Lookup
    BY <2>1, <2>2 DEF TypeOK, Lookup
  <2>4. ~ended
    BY <2>2 DEF DeafAfterEnd
  <2>5. UNCHANGED <<sync, live, fresh, requests, online, ended, srv, pushes, changes, unheard, strays>>
    BY <1>3 DEF ReadLookup
  <2>6. ListInv' /\ Foretold' /\ (Unheeded' <=> Unheeded)
    BY <2>5 DEF ListInv, ListTypeOK, OneFetch, Over, Foretold, Unheeded
  <2> QED BY <2>3, <2>4, <2>5, <2>6 DEF TypeOK, ListInv, Heard, DeafAfterEnd
<1>4. ASSUME NEW r \in requests, Page(r) PROVE RoomInv'
  <2>1. ReadPage(r) /\ UNCHANGED <<pushes, lookups, changes, unheard, strays>>
    BY <1>4 DEF Page
  <2>2. UNCHANGED <<sync, live, fresh, online, ended, srv>>
    BY <2>1 DEF ReadPage
  <2>3. ListInv' /\ (FetchFits(requests, fresh, srv, {}, strays)
                      => FetchFits(requests', fresh', srv', {}, strays))
    BY <2>1, ReadFits
  <2>4. Foretold' /\ (Unheeded' <=> Unheeded)
    BY <2>1, <2>2 DEF Foretold, Unheeded
  <2> QED BY <2>1, <2>2, <2>3, <2>4 DEF TypeOK, ListInv, Heard, DeafAfterEnd
<1>5. ASSUME LosePushes PROVE RoomInv'
  <2>1. /\ UNCHANGED <<sync, live, fresh, requests, online, ended, srv, lookups, changes, strays>>
        /\ pushes' = <<>> /\ ~ended
        /\ unheard' = (unheard \/ \E k \in 1..Len(pushes) : pushes[k] = Visible)
    BY <1>5 DEF LosePushes
  <2>2. pushes' \in Seq(Push) /\ Foretold' /\ (Unheeded' <=> Unheeded)
    <3>1. pushes' \in Seq(Push) /\ Len(pushes') = 0
      BY <2>1
    <3>2. 1..Len(pushes') = {}
      BY <3>1
    <3>3. Foretold'
      BY <3>2 DEF Foretold
    <3>4. Unheeded' <=> unheard'
      BY <3>2 DEF Unheeded
    <3> QED BY <2>1, <3>1, <3>3, <3>4 DEF Unheeded
  <2>3. ListInv' /\ unheard' \in BOOLEAN
    BY <2>1 DEF ListInv, ListTypeOK, OneFetch, Over, TypeOK
  <2> QED BY <2>1, <2>2, <2>3 DEF TypeOK, ListInv, Heard, DeafAfterEnd
<1> QED BY <1>1, <1>2, <1>3, <1>4, <1>5

\* The end of the connection, whoever finds it (chime_destroy_rooms).
LEMMA RoomEnds ==
  ASSUME RoomInv, NEW rs \in SUBSET requests, End(rs), Ended, UNCHANGED changes
  PROVE  RoomInv'
<1>1. ListInv' /\ ended'
  BY EndKeeps DEF RoomInv
<1>2. /\ pushes' = <<>> /\ UNCHANGED <<unheard, strays>>
      /\ lookups' = {[l EXCEPT !.answer = "failed"] : l \in lookups}
  BY DEF Ended
<1>3. lookups' \subseteq Lookup /\ \A l \in lookups' : l.answer = "failed"
  BY <1>2 DEF RoomInv, TypeOK, Lookup
<1> QED BY <1>1, <1>2, <1>3 DEF RoomInv, TypeOK, ListInv, Foretold, Heard, DeafAfterEnd

\* rooms_cb.
LEMMA RoomAnswer ==
  ASSUME RoomInv, NEW r \in requests, RoomsCb(r)
  PROVE  RoomInv'
<1> USE DEF RoomInv
<1>1. CASE Invalidated(r) /\ Started /\ UNCHANGED <<pushes, lookups, changes>>
  <2>1. ListInv' /\ (~ended => FetchFits(requests', fresh', srv', {}, {}))
        /\ (~ended => sync' = "fetching")
    BY <1>1, InvalidatedKeeps
  <2>2. srv' = srv /\ ended' = ended /\ unheard' = FALSE /\ strays' = {}
    BY <1>1 DEF Invalidated, Started
  <2>3. Foretold'
    BY <1>1, <2>2 DEF Foretold
  <2> QED BY <1>1, <2>1, <2>2, <2>3 DEF TypeOK, ListInv, Heard, DeafAfterEnd
<1>2. CASE Parsed(r) /\ UNCHANGED <<pushes, lookups, unheard, strays, changes>>
  <2>1. /\ ListInv' /\ ~ended
        /\ FetchFits(requests, fresh, srv, {}, strays) =>
             /\ sync' = "fetching" => FetchFits(requests', fresh', srv', {}, strays)
             /\ sync' = "idle" => RestFits(live', fresh', srv', {}, strays)
    BY <1>2, ParsedKeeps
  <2>2. sync = "fetching" /\ UNCHANGED <<ended, srv>>
    BY <1>2 DEF Parsed
  <2>3. Foretold' /\ (Unheeded' <=> Unheeded)
    BY <1>2, <2>2 DEF Foretold, Unheeded
  <2> QED BY <1>2, <2>1, <2>2, <2>3 DEF TypeOK, ListInv, Heard, DeafAfterEnd
<1>3. CASE Failed(r) /\ Ended /\ UNCHANGED changes
  BY <1>3, RoomEnds DEF Failed
<1> QED BY <1>1, <1>2, <1>3 DEF RoomsCb

\* fetch_new_room_cb: what a lookup names is there, or is remembered to have gone.
LEMMA RoomLookedUp ==
  ASSUME RoomInv, NEW l \in lookups, LookupCb(l)
  PROVE  RoomInv'
<1> USE DEF RoomInv
<1>1. /\ UNCHANGED <<sync, requests, online, ended, srv, pushes, changes, unheard>>
      /\ lookups' \subseteq lookups /\ l \in Lookup
  BY DEF LookupCb, TypeOK
<1>2. Foretold' /\ (Unheeded' <=> Unheeded) /\ DeafAfterEnd'
  BY <1>1 DEF Foretold, Unheeded, DeafAfterEnd
<1>3. CASE l.answer = "failed" /\ UNCHANGED <<live, fresh, strays>>
  <2>1. ListInv' /\ Heard'
    BY <1>1, <1>2, <1>3 DEF ListInv, ListTypeOK, OneFetch, Over, Heard
  <2> QED BY <1>1, <1>2, <1>3, <2>1 DEF TypeOK, ListInv
<1>4. CASE l.answer = "room" /\ Hash({l.item})
           /\ strays' = IF l.item \in srv THEN strays ELSE strays \cup {l.item}
  <2>1. l.item \in Items /\ ~ended
    BY <1>1, <1>4 DEF Lookup, DeafAfterEnd
  <2>2. ListInv'
    BY <1>1, <1>4, <2>1, HashKeeps
  <2>3. strays \subseteq strays' /\ strays' \subseteq Items /\ l.item \in srv \cup strays'
    BY <1>4, <2>1 DEF TypeOK
  <2>4. FetchFits(requests, fresh, srv, {}, strays) => FetchFits(requests', fresh', srv', {}, strays')
    <3>1. ASSUME FetchFits(requests, fresh, srv, {}, strays)
          PROVE  FetchFits(requests, fresh, srv, {}, strays')
      BY <2>3, <3>1, FitsMore
    <3>2. fresh' = fresh \cup {l.item}
      BY <1>4 DEF Hash
    <3> QED BY <1>1, <2>3, <3>1, <3>2, HashFits
  <2>5. RestFits(live, fresh, srv, {}, strays) => RestFits(live', fresh', srv', {}, strays')
    <3>1. ASSUME RestFits(live, fresh, srv, {}, strays)
          PROVE  RestFits(live, fresh, srv, {}, strays')
      BY <2>3, <3>1, FitsMore
    <3>2. fresh' = fresh \cup {l.item} /\ live' = live \cup {l.item}
      BY <1>4 DEF Hash
    <3> QED BY <1>1, <2>3, <3>1, <3>2, HashFits
  <2>6. Heard'
    BY <1>1, <1>2, <2>4, <2>5 DEF Heard
  <2> QED BY <1>1, <1>2, <2>2, <2>3, <2>6 DEF TypeOK, ListInv
<1> QED BY <1>3, <1>4 DEF LookupCb

\* A push is heeded: a change begins a fetch or spoils the one under way, and a room
\* that is described goes into the list, and into its fetch.
LEMMA RoomPushed ==
  ASSUME RoomInv, DeliverPush
  PROVE  RoomInv'
<1> USE DEF RoomInv
<1>1. ~ended /\ pushes # <<>> /\ pushes' = Tail(pushes) /\ UNCHANGED <<online, ended, srv, changes>>
  BY DEF DeliverPush
<1>2. /\ pushes' \in Seq(Push) /\ Foretold' /\ Head(pushes) \in Push
      /\ Head(pushes) # Visible /\ unheard' = unheard => (Unheeded' <=> Unheeded)
      /\ Head(pushes).kind = "room" /\ ~Unheeded' => Head(pushes).item \in srv
  BY <1>1, HandedOn
<1>3. CASE VisibleRooms
  <2>1. Fetch /\ UNCHANGED <<live, lookups>>
        /\ IF sync = "idle" THEN Started ELSE UNCHANGED <<unheard, strays>>
    BY <1>3 DEF VisibleRooms
  <2>2. /\ ListInv' /\ sync' # "idle"
        /\ sync' = "fetching" => sync = "idle" /\ FetchFits(requests', fresh', srv', {}, {})
    BY <1>1, <2>1, FetchKeeps
  <2>3. strays' \subseteq Items /\ unheard' \in BOOLEAN /\ (sync = "idle" => strays' = {})
    BY <2>1 DEF Started, TypeOK
  <2> QED BY <1>1, <1>2, <2>1, <2>2, <2>3 DEF TypeOK, ListInv, Heard, DeafAfterEnd
<1>4. CASE Head(pushes).kind = "room" /\ Hash({Head(pushes).item})
           /\ UNCHANGED <<sync, requests, lookups, unheard, strays>>
  <2> DEFINE i == Head(pushes).item
  <2>1. Head(pushes) # Visible /\ i \in Items
    BY <1>2, <1>4, PushIs DEF Visible
  <2>2. Unheeded' <=> Unheeded
    BY <1>2, <1>4, <2>1
  <2> HIDE DEF i
  <2>3. ListInv'
    BY <1>1, <1>4, <2>1, HashKeeps DEF i
  <2>4. ASSUME ~Unheeded'
        PROVE  /\ FetchFits(requests, fresh, srv, {}, strays)
                    => FetchFits(requests', fresh', srv', {}, strays')
               /\ RestFits(live, fresh, srv, {}, strays)
                    => RestFits(live', fresh', srv', {}, strays')
    <3>1. i \in srv \cup strays
      BY <1>2, <1>4, <2>4 DEF i
    <3>2. fresh' = fresh \cup {i} /\ live' = live \cup {i}
      BY <1>4 DEF Hash, i
    <3> QED BY <1>1, <1>4, <3>1, <3>2, HashFits
  <2>5. Heard'
    BY <1>1, <1>4, <2>2, <2>4 DEF Heard
  <2> QED BY <1>1, <1>2, <1>4, <2>3, <2>5 DEF TypeOK, ListInv, DeafAfterEnd
<1>5. ASSUME Head(pushes) # Visible, lookups' \subseteq Lookup,
             UNCHANGED <<sync, live, fresh, requests, unheard, strays>>
      PROVE  RoomInv'
  <2>1. Unheeded' <=> Unheeded
    BY <1>2, <1>5
  <2>2. ListInv' /\ Heard'
    BY <1>1, <1>5, <2>1 DEF ListInv, ListTypeOK, OneFetch, Over, Heard
  <2> QED BY <1>1, <1>2, <1>5, <2>2 DEF TypeOK, ListInv, DeafAfterEnd
<1>6. ASSUME Head(pushes).kind \in {"brief", "message"}
      PROVE  Head(pushes) # Visible
             /\ (LookUp(Head(pushes).item) => lookups' \subseteq Lookup)
  <2>1. Head(pushes) # Visible /\ Head(pushes).item \in Items
    BY <1>2, <1>6, PushIs DEF Visible
  <2> QED BY <2>1 DEF LookUp, Lookup, TypeOK
<1>7. CASE RoomPush
  BY <1>4, <1>5, <1>6, <1>7 DEF RoomPush, LookUp
<1>8. CASE RoomMessagePush
  BY <1>5, <1>6, <1>8 DEF RoomMessagePush, LookUp, TypeOK
<1> QED BY <1>3, <1>7, <1>8 DEF DeliverPush

\* No step breaks the invariant.
LEMMA RoomNext == RoomInv /\ [Next]_vars => RoomInv'
<1> SUFFICES ASSUME RoomInv, [Next]_vars PROVE RoomInv'
  OBVIOUS
<1>1. ASSUME Disconnect PROVE RoomInv'
  BY <1>1, RoomEnds DEF Disconnect
<1>2. ASSUME UNCHANGED vars PROVE RoomInv'
  BY <1>2 DEF vars, RoomInv, TypeOK, ListInv, ListTypeOK, OneFetch, Over, Foretold, Heard,
              Unheeded, DeafAfterEnd
<1> QED BY <1>1, <1>2, RoomService, RoomAnswer, RoomLookedUp, RoomPushed DEF Next

\* A client at rest that has heard every VisibleRooms shows the rooms of the service,
\* but for those a lookup has brought back (chime-room.c:482-567).
THEOREM RoomsMirrored == Safe => []Mirrors
<1>1. RoomInv => Mirrors
  BY DEF RoomInv, Mirrors, Heard, Idle, RestFits
<1> QED BY <1>1, RoomInit, RoomNext, PTL DEF Safe

\* A room the service lists is expired only while a VisibleRooms is to be acted on
\* (chime-room.c:513, chime-object.c:291).
THEOREM NoRoomExpired == Safe => NoFalseExpiry
<1>1. RoomInv /\ [Next]_vars =>
        [\A i \in live \cap srv : i \notin live' => Unheeded \/ ended']_vars
  <2> SUFFICES ASSUME RoomInv, Next, NEW i \in live \cap srv, i \notin live', ~Unheeded
               PROVE  ended'
    OBVIOUS
  <2>1. ~ended
    BY DEF RoomInv, ListInv, Over
  <2>2. ASSUME NEW r \in requests, Parsed(r) PROVE FALSE
    <3>1. r.page = Pages /\ live' = NamedBy(r, fresh)
      BY <2>2, ParsedKeeps DEF RoomInv
    <3>2. sync = "fetching" /\ r.answer.kind = "page"
      BY <2>2 DEF Parsed
    <3>3. FetchFits(requests, fresh, srv, {}, strays)
      BY <2>1, <3>2 DEF RoomInv, Heard
    <3>4. PageOf[i] <= r.page
      BY <3>1 DEF RoomInv, ListInv, ListTypeOK
    <3> QED BY <3>1, <3>2, <3>3, <3>4 DEF FetchFits, Passed
  <2>3. \A r \in requests : RoomsCb(r) => Parsed(r) \/ ended'
    BY DEF RoomsCb, Invalidated, Failed, End
  <2>4. ~(DeliverPush \/ \E l \in lookups : LookupCb(l))
    BY DEF DeliverPush, VisibleRooms, RoomPush, RoomMessagePush, LookUp, LookupCb, Hash
  <2>5. ~(LosePushes \/ (\E l \in lookups : ReadLookup(l)) \/ \E r \in requests : Page(r))
    BY DEF LosePushes, ReadLookup, Page, ReadPage
  <2>6. ~(\E j \in Items : RoomAppears(j) \/ RoomGoes(j) \/ RoomTalks(j))
    BY DEF RoomAppears, RoomGoes, RoomTalks, Tell
  <2> QED BY <2>2, <2>3, <2>4, <2>5, <2>6 DEF Next, Disconnect, End
<1> QED BY <1>1, RoomInit, RoomNext, PTL DEF Safe, NoFalseExpiry

-----------------------------------------------------------------------------
(* ContactList.                                                            *)

\* What the client will fetch the list for: an invitation that succeeded, and a
\* removal unless it does.
Owed ==
  {i \in Items : \/ \E c \in invites : c.item = i /\ c.answer = "ok"
                 \/ \E c \in removals : c.item = i /\ c.answer # "ok"}

\* A removal under way during a fetch is one whose contact may come back.
Slips == ~ended /\ sync # "idle" => Removing(removals) \subseteq ghosts

\* A contact whose removal is under way has been taken off the list.
Hidden == ~ended => \A c \in removals : c.item \in ghosts \/ c.item \notin live

\* The list, or the fetch of it as far as it has come, agrees with the account but
\* for what is owed and what may have come back.
Agrees ==
  ~ended =>
    /\ sync = "fetching" => FetchFits(requests, fresh, srv, Owed, ghosts)
    /\ sync = "idle" => RestFits(live, fresh, srv, Owed, ghosts)

CallsOK == invites \subseteq Call /\ removals \subseteq Call

ContactsInv == ListInv /\ CallsOK /\ Slips /\ Hidden /\ Agrees

\* A call is answered by the service or given up.
LEMMA CallAnswered ==
  ASSUME NEW cs \in SUBSET Call, NEW c \in cs, NEW a \in {"unread", "ok", "failed"}
  PROVE  /\ [c EXCEPT !.answer = a].item = c.item
         /\ [c EXCEPT !.answer = a].answer = a
         /\ (cs \ {c}) \cup {[c EXCEPT !.answer = a]} \subseteq Call
BY DEF Call

\* The first fetch has begun.
LEMMA ContactsInitInv == ContactsInit => ContactsInv
<1> SUFFICES ASSUME ContactsInit PROVE ContactsInv
  OBVIOUS
<1>1. 1 \in 1..Pages
  OBVIOUS
<1>2. Ask(1) \in Request
  BY <1>1, AskIs
<1>3. ListInv
  BY <1>2 DEF ContactsInit, ListInit, Empty, ListInv, ListTypeOK, OneFetch, Over
<1>4. FetchFits(requests, fresh, srv, Owed, ghosts) /\ sync = "fetching"
  BY StartFits DEF ContactsInit, ListInit, Empty
<1> QED BY <1>3, <1>4 DEF ContactsInit, ContactsInv, CallsOK, Slips, Hidden, Agrees, Removing

\* The user invites and removes; what is removed is hidden at once
\* (chime_connection_remove_contact_async).
LEMMA UserKeeps ==
  ASSUME ContactsInv, NEW i \in Items, InviteContact(i) \/ RemoveContact(i)
  PROVE  ContactsInv'
<1> USE DEF ContactsInv
<1>0. NewCall(i) \in Call /\ NewCall(i).item = i /\ NewCall(i).answer = "unread"
  BY DEF NewCall, Call
<1>1. CASE InviteContact(i)
  <2>1. /\ UNCHANGED <<sync, live, fresh, requests, online, ended, srv, removals, ghosts>>
        /\ invites' = invites \cup {NewCall(i)}
    BY <1>1 DEF InviteContact
  <2>2. Owed' = Owed
    BY <1>0, <2>1 DEF Owed
  <2>3. ListInv' /\ CallsOK' /\ Slips' /\ Hidden'
    BY <1>0, <2>1 DEF ListInv, ListTypeOK, OneFetch, Over, CallsOK, Slips, Hidden, Removing
  <2> QED BY <2>1, <2>2, <2>3 DEF Agrees
<1>2. CASE RemoveContact(i)
  <2>1. /\ UNCHANGED <<sync, requests, online, ended, srv, invites>> /\ ~ended
        /\ removals' = removals \cup {NewCall(i)}
        /\ live' = live \ {i} /\ fresh' = fresh \ {i}
        /\ ghosts' = IF requests = {} THEN ghosts ELSE ghosts \cup {i}
    BY <1>2 DEF RemoveContact, Unhash
  <2>2. Owed \subseteq Owed' /\ i \in Owed' /\ ghosts \subseteq ghosts'
    BY <1>0, <2>1 DEF Owed
  <2>3. ListInv' /\ CallsOK'
    BY <1>0, <2>1 DEF ListInv, ListTypeOK, OneFetch, Over, CallsOK
  <2>4. Slips'
    <3>1. sync # "idle" => i \in ghosts'
      BY <2>1 DEF ListInv, OneFetch
    <3> QED BY <1>0, <2>1, <2>2, <3>1 DEF Slips, Removing
  <2>5. Hidden'
    BY <1>0, <2>1, <2>2 DEF Hidden
  <2>6. ASSUME FetchFits(requests, fresh, srv, Owed, ghosts)
        PROVE  FetchFits(requests', fresh', srv', Owed', ghosts')
    <3>1. FetchFits(requests, fresh, srv, Owed', ghosts')
      BY <2>2, <2>6, FitsMore
    <3> QED BY <2>1, <2>2, <3>1, ChangeFits
  <2>7. ASSUME RestFits(live, fresh, srv, Owed, ghosts)
        PROVE  RestFits(live', fresh', srv', Owed', ghosts')
    <3>1. RestFits(live, fresh, srv, Owed', ghosts')
      BY <2>2, <2>7, FitsMore
    <3> QED BY <2>1, <2>2, <3>1, ChangeFits
  <2> QED BY <2>1, <2>3, <2>4, <2>5, <2>6, <2>7 DEF Agrees
<1> QED BY <1>1, <1>2

\* The service answers an invitation or a removal.
LEMMA CallKeeps ==
  ASSUME ContactsInv
  PROVE  /\ \A c \in invites : ReadInvite(c) => ContactsInv'
         /\ \A c \in removals : ReadRemoval(c) => ContactsInv'
<1> USE DEF ContactsInv
<1>1. ASSUME NEW c \in invites, ReadInvite(c) PROVE ContactsInv'
  <2>1. /\ UNCHANGED <<sync, live, fresh, requests, online, ended, removals, ghosts>>
        /\ c.answer = "unread" /\ c \in Call
    BY <1>1 DEF ReadInvite, CallsOK
  <2>2. c.item \in Items
    BY <2>1 DEF Call
  <2>3. PICK a \in {"ok", "failed"} :
          /\ invites' = (invites \ {c}) \cup {[c EXCEPT !.answer = a]}
          /\ a = "ok" => srv' = srv \cup {c.item}
          /\ a = "failed" => srv' = srv
    BY <1>1 DEF ReadInvite
  <2> DEFINE d == [c EXCEPT !.answer = a]
  <2>4. d.item = c.item /\ d.answer = a /\ invites' \subseteq Call
    BY <2>1, <2>3, CallAnswered DEF CallsOK
  <2> HIDE DEF d
  <2>5. Owed' = IF a = "ok" THEN Owed \cup {c.item} ELSE Owed
    BY <2>1, <2>2, <2>3, <2>4 DEF Owed, d
  <2>6. ListInv' /\ CallsOK' /\ Slips' /\ Hidden'
    BY <2>1, <2>2, <2>3, <2>4 DEF ListInv, ListTypeOK, OneFetch, Over, CallsOK, Slips, Hidden, Removing
  <2>7. ASSUME FetchFits(requests, fresh, srv, Owed, ghosts)
        PROVE  FetchFits(requests', fresh', srv', Owed', ghosts')
    <3>1. FetchFits(requests, fresh, srv, Owed', ghosts)
      BY <2>5, <2>7, FitsMore
    <3>2. a = "ok" => FetchFits(requests, fresh, srv \cup {c.item}, Owed', ghosts)
      BY <2>5, <3>1, ChangeFits
    <3> QED BY <2>1, <2>3, <3>1, <3>2
  <2>8. ASSUME RestFits(live, fresh, srv, Owed, ghosts)
        PROVE  RestFits(live', fresh', srv', Owed', ghosts')
    <3>1. RestFits(live, fresh, srv, Owed', ghosts)
      BY <2>5, <2>8, FitsMore
    <3>2. a = "ok" => RestFits(live, fresh, srv \cup {c.item}, Owed', ghosts)
      BY <2>5, <3>1, ChangeFits
    <3> QED BY <2>1, <2>3, <3>1, <3>2
  <2> QED BY <2>1, <2>6, <2>7, <2>8 DEF Agrees
<1>2. ASSUME NEW c \in removals, ReadRemoval(c) PROVE ContactsInv'
  <2>1. /\ UNCHANGED <<sync, live, fresh, requests, online, ended, invites, ghosts>>
        /\ c.answer = "unread" /\ c \in Call
    BY <1>2 DEF ReadRemoval, CallsOK
  <2> DEFINE i == c.item
  <2>2. i \in Items
    BY <2>1 DEF Call
  <2>3. PICK a \in {"ok", "failed"} :
          /\ removals' = (removals \ {c}) \cup {[c EXCEPT !.answer = a]}
          /\ a = "ok" => srv' = srv \ {i}
          /\ a = "failed" => srv' = srv
    BY <1>2 DEF ReadRemoval
  <2> DEFINE d == [c EXCEPT !.answer = a]
  <2>4. d.item = i /\ d.answer = a /\ removals' \subseteq Call
    BY <2>1, <2>3, CallAnswered DEF CallsOK
  <2> HIDE DEF d
  <2>5. (a = "failed" => Owed' = Owed) /\ Owed \ {i} \subseteq Owed'
    BY <2>1, <2>2, <2>3, <2>4 DEF Owed, d
  <2>6. Removing(removals') = Removing(removals)
    BY <2>3, <2>4 DEF Removing, d
  <2>7. ListInv' /\ CallsOK'
    BY <2>1, <2>2, <2>3, <2>4 DEF ListInv, ListTypeOK, OneFetch, Over, CallsOK
  <2>8. Slips' /\ Hidden'
    BY <2>1, <2>3, <2>4, <2>6 DEF Slips, Hidden, d
  <2>9. ASSUME ~ended, sync = "fetching", FetchFits(requests, fresh, srv, Owed, ghosts)
        PROVE  FetchFits(requests', fresh', srv', Owed', ghosts')
    <3>1. i \in ghosts
      BY <2>9 DEF Slips, Removing
    <3>2. FetchFits(requests, fresh, srv \ {i}, Owed \ {i}, ghosts)
      BY <2>9, <3>1, ChangeFits
    <3>3. FetchFits(requests, fresh, srv \ {i}, Owed', ghosts)
      BY <2>5, <3>2, FitsMore
    <3> QED BY <2>1, <2>3, <2>5, <2>9, <3>3
  <2>10. ASSUME ~ended, RestFits(live, fresh, srv, Owed, ghosts)
         PROVE  RestFits(live', fresh', srv', Owed', ghosts')
    <3>1. i \in ghosts \/ i \notin live
      BY <2>10 DEF Hidden
    <3>2. RestFits(live, fresh, srv \ {i}, Owed \ {i}, ghosts)
      BY <2>10, <3>1, ChangeFits
    <3>3. RestFits(live, fresh, srv \ {i}, Owed', ghosts)
      BY <2>5, <3>2, FitsMore
    <3> QED BY <2>1, <2>3, <2>5, <2>10, <3>3
  <2> QED BY <2>1, <2>7, <2>8, <2>9, <2>10 DEF Agrees
<1> QED BY <1>1, <1>2

\* The end of the connection (chime_destroy_contacts).
LEMMA ContactsEnd ==
  ASSUME ContactsInv, NEW rs \in SUBSET requests, End(rs), ContactsEnded
  PROVE  ContactsInv'
<1>1. ListInv' /\ ended'
  BY EndKeeps DEF ContactsInv
<1>2. \A c \in Call : [c EXCEPT !.answer = "failed"] \in Call
  BY DEF Call
<1>3. CallsOK'
  BY <1>2 DEF ContactsInv, CallsOK, ContactsEnded
<1> QED BY <1>1, <1>3 DEF ContactsInv, Slips, Hidden, Agrees

\* contacts_cb.
LEMMA ContactsAnswer ==
  ASSUME ContactsInv, NEW r \in requests, ContactsCb(r)
  PROVE  ContactsInv'
<1> USE DEF ContactsInv
<1>1. CASE UNCHANGED <<invites, removals>> /\ Invalidated(r) /\ ContactsStarted
  <2>1. /\ ListInv'
        /\ ~ended => sync' = "fetching" /\ \A m, x : FetchFits(requests', fresh', srv', m, x)
    BY <1>1, InvalidatedKeeps
  <2>2. ended' = ended /\ ghosts' = Removing(removals')
    BY <1>1 DEF Invalidated, ContactsStarted
  <2>3. Slips' /\ Hidden'
    BY <2>2 DEF Slips, Hidden, Removing
  <2> QED BY <1>1, <2>1, <2>2, <2>3 DEF CallsOK, Agrees
<1>2. CASE UNCHANGED <<invites, removals, ghosts>> /\ Parsed(r)
  <2>1. /\ ListInv' /\ ~ended
        /\ FetchFits(requests, fresh, srv, Owed, ghosts) =>
             /\ sync' = "fetching" => FetchFits(requests', fresh', srv', Owed, ghosts)
             /\ sync' = "idle" => RestFits(live', fresh', srv', Owed, ghosts)
    BY <1>2, ParsedKeeps
  <2>2. sync = "fetching" /\ Owed' = Owed
    BY <1>2 DEF Parsed, Owed
  <2>3. Slips' /\ Hidden' /\ CallsOK'
    BY <1>2, <2>1, <2>2 DEF Slips, Hidden, Removing, CallsOK
  <2> QED BY <1>2, <2>1, <2>2, <2>3 DEF Agrees
<1>3. CASE Failed(r) /\ ContactsEnded
  BY <1>3, ContactsEnd DEF Failed
<1> QED BY <1>1, <1>2, <1>3 DEF ContactsCb

\* The list is fetched for what was owed, and begins by owing nothing.
LEMMA RefetchKeeps ==
  ASSUME ContactsInv, Refetch, UNCHANGED <<online, ended, srv>>,
         invites' \subseteq invites, removals' \subseteq removals
  PROVE  ContactsInv'
<1> USE DEF ContactsInv
<1>1. /\ ListInv' /\ sync' # "idle"
      /\ ~ended /\ sync' = "fetching" =>
           sync = "idle" /\ \A m, x : FetchFits(requests', fresh', srv', m, x)
  BY FetchKeeps DEF Refetch
<1>2. live' = live /\ (IF sync = "idle" THEN ghosts' = Removing(removals') ELSE ghosts' = ghosts)
  BY DEF Refetch, ContactsStarted
<1>3. Slips' /\ Hidden' /\ CallsOK'
  BY <1>1, <1>2 DEF Slips, Hidden, Removing, CallsOK
<1> QED BY <1>1, <1>3 DEF Agrees

\* contact_invited_cb and contact_removed_cb.
LEMMA CalledBack ==
  ASSUME ContactsInv
  PROVE  /\ \A c \in invites : InvitedCb(c) => ContactsInv'
         /\ \A c \in removals : RemovedCb(c) => ContactsInv'
<1> USE DEF ContactsInv
<1>1. ASSUME UNCHANGED <<sync, live, fresh, requests, online, ended, srv, ghosts>>,
             invites' \subseteq invites, removals' \subseteq removals, Owed' = Owed
      PROVE  ContactsInv'
  BY <1>1 DEF ListInv, ListTypeOK, OneFetch, Over, CallsOK, Slips, Hidden, Removing, Agrees
<1>2. ASSUME NEW c \in invites, InvitedCb(c) PROVE ContactsInv'
  <2>1. c.answer = "failed" /\ invites' = invites \ {c} /\ removals' = removals => Owed' = Owed
    BY DEF Owed
  <2> QED BY <1>1, <1>2, <2>1, RefetchKeeps DEF InvitedCb
<1>3. ASSUME NEW c \in removals, RemovedCb(c) PROVE ContactsInv'
  <2>1. c.answer = "ok" /\ removals' = removals \ {c} /\ invites' = invites => Owed' = Owed
    BY DEF Owed
  <2> QED BY <1>1, <1>3, <2>1, RefetchKeeps DEF RemovedCb
<1> QED BY <1>2, <1>3

\* No step breaks the invariant.
LEMMA ContactsNextInv == ContactsInv /\ [ContactsNext]_contactsVars => ContactsInv'
<1> SUFFICES ASSUME ContactsInv, [ContactsNext]_contactsVars PROVE ContactsInv'
  OBVIOUS
<1>1. ASSUME ContactsDisconnect PROVE ContactsInv'
  BY <1>1, ContactsEnd DEF ContactsDisconnect
<1>2. ASSUME UNCHANGED contactsVars PROVE ContactsInv'
  BY <1>2 DEF contactsVars, ContactsInv, ListInv, ListTypeOK, OneFetch, Over, CallsOK, Slips,
              Hidden, Removing, Agrees, Owed
<1>3. ASSUME NEW r \in requests, ContactsPage(r) PROVE ContactsInv'
  <2>1. ReadPage(r) /\ UNCHANGED <<invites, removals, ghosts>>
    BY <1>3 DEF ContactsPage
  <2>2. UNCHANGED <<sync, live, fresh, online, ended, srv>>
    BY <2>1 DEF ReadPage
  <2>3. ListInv' /\ (FetchFits(requests, fresh, srv, Owed, ghosts)
                      => FetchFits(requests', fresh', srv', Owed, ghosts))
    BY <2>1, ReadFits DEF ContactsInv
  <2>4. Owed' = Owed /\ CallsOK' /\ Slips' /\ Hidden'
    BY <2>1, <2>2 DEF ContactsInv, Owed, CallsOK, Slips, Hidden, Removing
  <2> QED BY <2>1, <2>2, <2>3, <2>4 DEF ContactsInv, Agrees
<1> QED BY <1>1, <1>2, <1>3, UserKeeps, CallKeeps, ContactsAnswer, CalledBack DEF ContactsNext

\* A client at rest, with nothing the user asked for under way, shows the contacts of
\* the account, but for ghosts (chime-contact.c:526-598, 679-807).
THEOREM AccountShown == ContactsSafe => []ShowsAccount
<1>1. ContactsInv => ShowsAccount
  <2> SUFFICES ASSUME ContactsInv, Settled
               PROVE  srv \subseteq live /\ live \subseteq srv \cup ghosts
    BY DEF ShowsAccount, NoneMissing, OnlyGhosts
  <2>1. Owed = {}
    BY DEF Owed, Settled
  <2> QED BY <2>1 DEF ContactsInv, Agrees, RestFits, Settled, Idle
<1> QED BY <1>1, ContactsInitInv, ContactsNextInv, PTL DEF ContactsSafe
==============================================================================
