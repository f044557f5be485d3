------------------------------ MODULE ListSync -------------------------------
(***************************************************************************)
(* A list of the service mirrored by the client: the contacts, the rooms   *)
(* or the conversations of the account.  chime-contact.c, chime-room.c and *)
(* chime-conversation.c hold the same code three times, on the collections *)
(* of chime-object.c, of which LiveList is what matters here; this module  *)
(* is that code; RoomList and ContactList say what makes a list change.    *)
(*                                                                         *)
(* A list is fetched page by page.  A request to fetch it while a fetch is *)
(* under way makes that fetch stale: its next answer, whatever it says, is *)
(* thrown away and a new fetch starts.  The last page expires what no page *)
(* of this fetch named.                                                    *)
(***************************************************************************)
EXTENDS LiveList, Naturals, FiniteSets

CONSTANTS
  Pages,   \* number of pages the service splits it into
  PageOf   \* the page an object is on

ASSUME PagesPaged == Pages \in Nat \ {0} /\ PageOf \in [Items -> 1..Pages]

VARIABLES
  sync,      \* priv->rooms_sync and its like
  requests,  \* page requests whose callback is still to run
  online,    \* priv->rooms_online and its like
  ended,     \* the connection failed or was closed
  srv        \* service: the objects it lists

listVars == <<sync, live, fresh, requests, online, ended, srv>>

Unread == [kind |-> "unread"]
Failure == [kind |-> "failed"]
Answer == {Unread, Failure} \cup [kind : {"page"}, items : SUBSET Items]
Request == [page : 1..Pages, answer : Answer]
Ask(p) == [page |-> p, answer |-> Unread]

ListTypeOK ==
  /\ sync \in {"idle", "fetching", "stale"}
  /\ live \subseteq Items /\ fresh \subseteq live
  /\ requests \subseteq Request
  /\ online \in BOOLEAN
  /\ ended \in BOOLEAN
  /\ srv \subseteq Items

\* chime_init_rooms and its like end with the first fetch of the list.
ListInit ==
  /\ sync = "fetching"
  /\ Empty
  /\ requests = {Ask(1)}
  /\ online = FALSE /\ ended = FALSE
  /\ srv \in SUBSET Items

-----------------------------------------------------------------------------
\* fetch_rooms(cxn, NULL), when the collection is idle: a new generation.
\* Nothing is sent on a session that is gone.
Start(rs) ==
  /\ sync' = "fetching"
  /\ fresh' = {}
  /\ requests' = IF ended THEN rs ELSE rs \cup {Ask(1)}

\* Slip: a list that is already being fetched is left to that fetch.
FetchOnce ==
  \/ sync # "idle" /\ UNCHANGED <<sync, fresh, requests>>
  \/ sync = "idle" /\ Start(requests)

Fetch ==
  \/ sync = "fetching" /\ sync' = "stale" /\ UNCHANGED <<fresh, requests>>
  \/ sync = "stale" /\ UNCHANGED <<sync, fresh, requests>>
  \/ sync = "idle" /\ Start(requests)

-----------------------------------------------------------------------------
(* The callback of a page, rooms_cb and its like.                          *)

\* It got invalidated while in transit.
Invalidated(r) ==
  /\ sync # "fetching"
  /\ Start(requests \ {r})
  /\ UNCHANGED <<live, online, ended, srv>>

\* Slip: a full page with nothing after it is asked for more for ever.
ParsedNoEnd(r) ==
  /\ sync = "fetching" /\ r.answer.kind = "page"
  /\ live' = live \cup r.answer.items
  /\ fresh' = fresh \cup r.answer.items
  /\ requests' = (requests \ {r}) \cup {Ask(IF r.page = Pages THEN Pages ELSE r.page + 1)}
  /\ UNCHANGED <<sync, online, ended, srv>>

\* Slip: every page starts a generation of its own.
ParsedNewGeneration(r) ==
  /\ sync = "fetching" /\ r.answer.kind = "page"
  /\ fresh' = r.answer.items
  /\ \/ /\ r.page < Pages
        /\ live' = live \cup r.answer.items
        /\ requests' = (requests \ {r}) \cup {Ask(r.page + 1)}
        /\ UNCHANGED <<sync, online>>
     \/ /\ r.page = Pages
        /\ live' = fresh'
        /\ sync' = "idle"
        /\ requests' = requests \ {r}
        /\ online' = TRUE
  /\ UNCHANGED <<ended, srv>>

Parsed(r) ==
  /\ sync = "fetching" /\ r.answer.kind = "page"
  /\ fresh' = fresh \cup r.answer.items
  /\ \/ /\ r.page < Pages
        /\ live' = live \cup r.answer.items
        /\ requests' = (requests \ {r}) \cup {Ask(r.page + 1)}
        /\ UNCHANGED <<sync, online>>
     \/ /\ r.page = Pages
        /\ live' = fresh'   \* chime_object_collection_expire_outdated
        /\ sync' = "idle"
        /\ requests' = requests \ {r}
        /\ online' = TRUE
  /\ UNCHANGED <<ended, srv>>

\* chime_connection_fail: the collection is destroyed with the connection.  The
\* callbacks of what is still on the session run with a failure.
End(rs) ==
  /\ ended' = TRUE
  /\ Clear
  /\ requests' = {[r EXCEPT !.answer = Failure] : r \in rs}
  /\ UNCHANGED <<sync, online, srv>>

Failed(r) ==
  /\ sync = "fetching" /\ r.answer = Failure
  /\ End(requests \ {r})

ListCb(r) == Invalidated(r) \/ Parsed(r) \/ Failed(r)

\* The service reads a page, or the request fails.
ReadPage(r) ==
  /\ r.answer = Unread
  /\ \E a \in {Failure, [kind |-> "page", items |-> {i \in srv : PageOf[i] = r.page}]} :
       requests' = (requests \ {r}) \cup {[r EXCEPT !.answer = a]}
  /\ UNCHANGED <<sync, live, fresh, online, ended, srv>>

Answered == {r \in requests : r.answer # Unread}

\* The list is at rest: nothing is being fetched.
Idle == ~ended /\ sync = "idle"
==============================================================================
