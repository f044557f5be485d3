--------------------------- MODULE ObjectCollection --------------------------
(***************************************************************************)
(* A ChimeObjectCollection (chime/chime-object.c): the rooms, contacts,    *)
(* conversations or meetings the client knows, found by id and by name.    *)
(*                                                                         *)
(* The collection owns one reference to each live object and none to a     *)
(* dead one, which stays known for as long as somebody else holds it.  The *)
(* last reference disposes of the object, which takes itself out of both   *)
(* tables.  Names need not be unique; ids are.                             *)
(***************************************************************************)
EXTENDS Naturals

CONSTANTS
  Objects,   \* by their ids
  Names,
  Nobody,    \* what a lookup of an unknown name gives
  MaxHolds   \* bound: references to one object held outside the collection

ASSUME NobodyIsNoObject == Nobody \notin Objects
ASSUME HoldsBounded == MaxHolds \in Nat

VARIABLES
  up,        \* the collection has not been destroyed
  refs,      \* references to each object; 0 when it does not exist
  holds,     \* history: those that are not the collection's
  hashed,    \* objects whose priv->collection is set: those in by_id
  dead,      \* priv->is_dead
  current,   \* objects whose generation is that of the collection
  nameOf,    \* priv->name
  byName,    \* collection->by_name
  keyed,     \* whose priv->name is the string an entry of by_name has for its key
  spoiled,   \* names whose entry has for its key a string that was freed
  shared     \* history: names that two known objects had at once

nameVars == <<nameOf, byName, keyed, spoiled, shared>>
collectionVars == <<up, refs, holds, hashed, dead, current, nameVars>>

Exists(o) == refs[o] > 0

CollectionTypeOK ==
  /\ up \in BOOLEAN
  /\ refs \in [Objects -> Nat] /\ holds \in [Objects -> Nat]
  /\ hashed \subseteq Objects /\ dead \subseteq Objects /\ current \subseteq Objects
  /\ nameOf \in [Objects -> Names]
  /\ byName \in [Names -> Objects \cup {Nobody}]
  /\ keyed \in [Names -> Objects \cup {Nobody}]
  /\ spoiled \subseteq Names /\ shared \subseteq Names

CollectionInit ==
  /\ up = TRUE
  /\ refs = [o \in Objects |-> 0] /\ holds = [o \in Objects |-> 0]
  /\ hashed = {} /\ dead = {} /\ current = {}
  /\ nameOf \in [Objects -> Names]
  /\ byName = [n \in Names |-> Nobody] /\ keyed = byName
  /\ spoiled = {} /\ shared = {}

\* What a look-up of a name gives. The hashes of by_name are those of its own time,
\* its keys are read again: those of a spoiled name hold anything.
Found(n) == IF n \in spoiled THEN Objects \cup {Nobody} ELSE {byName[n]}

\* g_hash_table_remove
Without(table, names) == [n \in Names |-> IF n \in names THEN Nobody ELSE table[n]]

-----------------------------------------------------------------------------
\* Slip: a disposed object stays in by_name.
DroppedById(S) ==
  LET gone == {o \in S : refs[o] = 1} IN
  /\ refs' = [o \in Objects |-> IF o \in S THEN refs[o] - 1 ELSE refs[o]]
  /\ hashed' = hashed \ gone
  /\ UNCHANGED <<byName, keyed>>

\* g_object_unref of each object of S, with chime_object_dispose of the last
\* reference: whoever has the name in by_name is removed with the object.
Dropped(S) ==
  LET gone == {o \in S : refs[o] = 1}
      out == {nameOf[o] : o \in gone \cap hashed} IN
  /\ refs' = [o \in Objects |-> IF o \in S THEN refs[o] - 1 ELSE refs[o]]
  /\ hashed' = hashed \ gone
  /\ byName' = Without(byName, out) /\ keyed' = Without(keyed, out)

\* history: who shares the name n once o has it
Shares(o, n) == IF \E p \in hashed \ {o} : nameOf[p] = n THEN shared \cup {n} ELSE shared

\* chime_object_rename, or the name a new object is hashed with. An entry that is
\* there keeps its key (g_hash_table_insert), whose owner frees it when it is
\* renamed: if the entry is somebody else's by then, it stays.
Named(o, n) ==
  LET left == {m \in Names : o \in hashed /\ m = nameOf[o]}
      out == {m \in left : byName[m] = o} IN
  /\ nameOf' = [nameOf EXCEPT ![o] = n]
  /\ byName' = [Without(byName, out) EXCEPT ![n] = o]
  /\ keyed' = IF byName[n] = Nobody THEN [Without(keyed, out) EXCEPT ![n] = o] ELSE Without(keyed, out)
  /\ spoiled' = spoiled \cup {m \in left \ out : keyed[m] = o}
  /\ shared' = Shares(o, n)

\* A room, contact or conversation the service names for the first time, in a list
\* (live) or among the members of something (it then belongs to the caller).
Create(o, n, live) ==
  /\ up /\ ~Exists(o)
  /\ Named(o, n)
  /\ refs' = [refs EXCEPT ![o] = 1]
  /\ holds' = [holds EXCEPT ![o] = IF live THEN 0 ELSE 1]
  /\ hashed' = hashed \cup {o}
  /\ current' = current \cup {o}
  /\ dead' = IF live THEN dead \ {o} ELSE dead \cup {o}
  /\ UNCHANGED up

\* chime_object_collection_hash_object(..., TRUE) of a known object
Revive(o) ==
  /\ refs' = IF o \in dead THEN [refs EXCEPT ![o] = @ + 1] ELSE refs
  /\ dead' = dead \ {o}
  /\ current' = current \cup {o}

\* The service names a known object again, perhaps by another name: in a list, or
\* among the members of something, which only takes a reference.
Update(o, n) ==
  /\ up /\ o \in hashed
  /\ Revive(o)
  /\ IF n = nameOf[o] THEN UNCHANGED nameVars ELSE Named(o, n)
  /\ UNCHANGED <<up, holds, hashed>>

Mention(o, n) ==
  /\ up /\ o \in hashed /\ holds[o] < MaxHolds
  /\ refs' = [refs EXCEPT ![o] = @ + 1] /\ holds' = [holds EXCEPT ![o] = @ + 1]
  /\ IF n = nameOf[o] THEN UNCHANGED nameVars ELSE Named(o, n)
  /\ UNCHANGED <<up, hashed, dead, current>>

\* chime_object_collection_hash_object(..., FALSE): a contact is removed.
Remove(o) ==
  /\ up /\ o \in hashed
  /\ current' = current \cup {o}
  /\ IF o \in dead THEN UNCHANGED <<refs, hashed, byName, keyed>> ELSE Dropped({o})
  /\ dead' = dead \cup {o}
  /\ UNCHANGED <<up, holds, nameOf, spoiled, shared>>

\* A user of an object takes or drops a reference.
Hold(o) ==
  /\ o \in hashed /\ holds[o] < MaxHolds
  /\ refs' = [refs EXCEPT ![o] = @ + 1] /\ holds' = [holds EXCEPT ![o] = @ + 1]
  /\ UNCHANGED <<up, hashed, dead, current, nameVars>>

Release(o) ==
  /\ holds[o] > 0
  /\ holds' = [holds EXCEPT ![o] = @ - 1]
  /\ Dropped({o})
  /\ UNCHANGED <<up, dead, current, nameOf, spoiled, shared>>

\* A fetch of the list begins, and ends with
\* chime_object_collection_expire_outdated.
Generation ==
  /\ up
  /\ current' = {}
  /\ UNCHANGED <<up, refs, holds, hashed, dead, nameVars>>

Outdated == (hashed \ dead) \ current

\* Slip: the generations are compared the wrong way round.
ExpireCurrent ==
  /\ up
  /\ dead' = dead \cup (hashed \cap current)
  /\ Dropped((hashed \ dead) \cap current)
  /\ UNCHANGED <<up, holds, current, nameOf, spoiled, shared>>

ExpireOutdated ==
  /\ up
  /\ dead' = dead \cup Outdated
  /\ Dropped(Outdated)
  /\ UNCHANGED <<up, holds, current, nameOf, spoiled, shared>>

\* chime_object_collection_destroy, unhash_object
Destroy ==
  /\ up
  /\ up' = FALSE
  /\ byName' = [n \in Names |-> Nobody] /\ keyed' = byName' /\ spoiled' = {}
  /\ hashed' = {}
  /\ dead' = dead \cup hashed
  /\ refs' = [o \in Objects |-> IF o \in hashed \ dead THEN refs[o] - 1 ELSE refs[o]]
  /\ UNCHANGED <<holds, current, nameOf, shared>>

CollectionNext ==
  \/ \E o \in Objects :
       \/ \E n \in Names : Create(o, n, TRUE) \/ Create(o, n, FALSE) \/ Update(o, n) \/ Mention(o, n)
       \/ Remove(o) \/ Hold(o) \/ Release(o)
  \/ Generation \/ ExpireOutdated \/ Destroy

CollectionSpec == CollectionInit /\ [][CollectionNext]_collectionVars

-----------------------------------------------------------------------------
\* The collection owns one reference to every live object, and no object is live
\* without a collection: whatever is revived, removed, expired and released in
\* turn, no reference is dropped twice or for ever kept
\* (chime_object_collection_hash_object, expire_outdated, unhash_object).
OwnsLive ==
  /\ CollectionTypeOK
  /\ \A o \in Objects : refs[o] = holds[o] + (IF o \in hashed \ dead THEN 1 ELSE 0)

\* A known object, and no other, is found by its name unless it ever had to share
\* it, though names are changed and reused and any bearer may go first: a key is
\* freed under by_name only for a shared name. A shared one that is not spoiled has
\* the string of a known bearer for its key, and finds nobody or a bearer that
\* exists (chime_object_rename, dispose).
NamesFind ==
  /\ \A n \in Names \ spoiled : \A o \in Found(n) \ {Nobody} :
       o \in hashed /\ Exists(o) /\ nameOf[o] = n
  /\ \A n \in Names \ spoiled : byName[n] # Nobody =>
       keyed[n] \in hashed /\ nameOf[keyed[n]] = n
  /\ \A o \in hashed : nameOf[o] \notin shared => Found(nameOf[o]) = {o}

\* Both tables: what they name exists, and what they own is owned once.
TablesSound == OwnsLive /\ NamesFind

\* The collection does what the lists that are kept in it rely on.
List == INSTANCE LiveList WITH
  Items <- Objects, live <- hashed \ dead, fresh <- (hashed \ dead) \cap current
IsLiveList == List!LiveSpec
==============================================================================
