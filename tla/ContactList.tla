----------------------------- MODULE ContactList -----------------------------
(***************************************************************************)
(* The contacts of the account (chime/chime-contact.c).  Nothing is pushed *)
(* when they change: the list is fetched at the start, after an invitation *)
(* and after a removal that failed.  A removal takes the contact off the   *)
(* list at once, before the service has heard of it.                       *)
(***************************************************************************)
EXTENDS ListSync

CONSTANT MaxCalls   \* bound: invitations and removals the user makes

ASSUME CallsBounded == MaxCalls \in Nat

VARIABLES
  invites,   \* POST /invites whose contact_invited_cb is still to run
  removals,  \* DELETE /contacts/<id> whose contact_removed_cb is still to run
  calls,     \* what the bound counts
  ghosts     \* history: contacts whose removal and a fetch were under way at once
             \* since the last fetch started

contactsVars == <<sync, live, fresh, requests, online, ended, srv, invites, removals, calls, ghosts>>

Call == [item : Items, answer : {"unread", "ok", "failed"}]
NewCall(i) == [item |-> i, answer |-> "unread"]

ContactsInit ==
  /\ ListInit
  /\ invites = {} /\ removals = {}
  /\ calls = 0
  /\ ghosts = {}

Removing(cs) == {c.item : c \in cs}

-----------------------------------------------------------------------------
(* The user.                                                               *)

InviteContact(i) ==
  /\ ~ended /\ calls < MaxCalls /\ i \notin Removing(invites)
  /\ calls' = calls + 1
  /\ invites' = invites \cup {NewCall(i)}
  /\ UNCHANGED <<sync, live, fresh, requests, online, ended, srv, removals, ghosts>>

RemoveContact(i) ==
  /\ ~ended /\ calls < MaxCalls
  /\ i \in live /\ i \notin Removing(removals)
  /\ calls' = calls + 1
  /\ removals' = removals \cup {NewCall(i)}
  /\ Unhash({i})
  /\ ghosts' = IF requests = {} THEN ghosts ELSE ghosts \cup {i}
  /\ UNCHANGED <<sync, requests, online, ended, srv, invites>>

-----------------------------------------------------------------------------
(* The service.                                                            *)

ContactsPage(r) == ReadPage(r) /\ UNCHANGED <<invites, removals, calls, ghosts>>

ReadInvite(c) ==
  /\ c.answer = "unread"
  /\ \/ srv' = srv \cup {c.item} /\ invites' = (invites \ {c}) \cup {[c EXCEPT !.answer = "ok"]}
     \/ UNCHANGED srv /\ invites' = (invites \ {c}) \cup {[c EXCEPT !.answer = "failed"]}
  /\ UNCHANGED <<sync, live, fresh, requests, online, ended, removals, calls, ghosts>>

ReadRemoval(c) ==
  /\ c.answer = "unread"
  /\ \/ srv' = srv \ {c.item} /\ removals' = (removals \ {c}) \cup {[c EXCEPT !.answer = "ok"]}
     \/ UNCHANGED srv /\ removals' = (removals \ {c}) \cup {[c EXCEPT !.answer = "failed"]}
  /\ UNCHANGED <<sync, live, fresh, requests, online, ended, invites, calls, ghosts>>

-----------------------------------------------------------------------------
(* The callbacks.                                                          *)

\* A fetch starts: only the removals still under way can slip into its answers.
ContactsStarted == ghosts' = Removing(removals')

ContactsEnded ==
  /\ invites' = {[c EXCEPT !.answer = "failed"] : c \in invites}
  /\ removals' = {[c EXCEPT !.answer = "failed"] : c \in removals}
  /\ UNCHANGED ghosts

ContactsCb(r) ==
  /\ \/ UNCHANGED <<invites, removals>> /\ Invalidated(r) /\ ContactsStarted
     \/ UNCHANGED <<invites, removals>> /\ Parsed(r) /\ UNCHANGED ghosts
     \/ Failed(r) /\ ContactsEnded
  /\ UNCHANGED calls

Refetch ==
  /\ Fetch
  /\ IF sync = "idle" THEN ContactsStarted ELSE UNCHANGED ghosts
  /\ UNCHANGED live

\* Slip: an invitation changes nothing until the next fetch.
InvitedCbQuiet(c) ==
  /\ c.answer # "unread"
  /\ invites' = invites \ {c}
  /\ UNCHANGED <<sync, live, fresh, requests, online, ended, srv, removals, calls, ghosts>>

\* contact_invited_cb
InvitedCb(c) ==
  /\ c.answer # "unread"
  /\ invites' = invites \ {c} /\ UNCHANGED removals
  /\ \/ c.answer = "ok" /\ Refetch
     \/ c.answer = "failed" /\ UNCHANGED <<sync, live, fresh, requests, ghosts>>
  /\ UNCHANGED <<online, ended, srv, calls>>

\* Slip: the failure is reported and that is all.
RemovedCbQuiet(c) ==
  /\ c.answer # "unread"
  /\ removals' = removals \ {c}
  /\ UNCHANGED <<sync, live, fresh, requests, online, ended, srv, invites, calls, ghosts>>

\* contact_removed_cb: "We'll put it back".
RemovedCb(c) ==
  /\ c.answer # "unread"
  /\ removals' = removals \ {c} /\ UNCHANGED invites
  /\ \/ c.answer = "failed" /\ Refetch
     \/ c.answer = "ok" /\ UNCHANGED <<sync, live, fresh, requests, ghosts>>
  /\ UNCHANGED <<online, ended, srv, calls>>

\* The user closes the account, or another part of the connection fails.
ContactsDisconnect ==
  /\ ~ended
  /\ End(requests) /\ ContactsEnded
  /\ UNCHANGED calls

ContactsNext ==
  \/ \E i \in Items : InviteContact(i) \/ RemoveContact(i)
  \/ \E r \in requests : ContactsPage(r) \/ ContactsCb(r)
  \/ \E c \in invites : ReadInvite(c) \/ InvitedCb(c)
  \/ \E c \in removals : ReadRemoval(c) \/ RemovedCb(c)
  \/ ContactsDisconnect

\* The main loop runs every callback that is due, the service answers.
ContactsFairness ==
  /\ WF_contactsVars(\E r \in requests : ContactsPage(r))
  /\ WF_contactsVars(\E r \in requests : ContactsCb(r))
  /\ \A i \in Items :
       /\ WF_contactsVars(\E c \in invites : c.item = i /\ (ReadInvite(c) \/ InvitedCb(c)))
       /\ WF_contactsVars(\E c \in removals : c.item = i /\ (ReadRemoval(c) \/ RemovedCb(c)))

ContactsSafe == ContactsInit /\ [][ContactsNext]_contactsVars
ContactsSpec == ContactsSafe /\ ContactsFairness

-----------------------------------------------------------------------------
\* Nothing the user asked for is under way and the list is at rest.
Settled == Idle /\ invites = {} /\ removals = {}

\* A settled client shows every contact of the account: neither an invitation that
\* succeeded during a fetch nor a removal that failed is forgotten
\* (contact_invited_cb, contact_removed_cb, the "stale" of fetch_contacts).
NoneMissing == Settled => srv \subseteq live

\* What a settled client shows beyond that can only be a contact that was removed
\* while a fetch was under way, which has put it back from an answer read before
\* the removal (chime_connection_remove_contact_async, contacts_cb).
OnlyGhosts == Settled => live \subseteq srv \cup ghosts

\* A settled client shows the contacts of the account, but for ghosts.
ShowsAccount == NoneMissing /\ OnlyGhosts

\* "Assume success; we'll refetch and reinstate it on failure": a contact whose
\* removal failed is shown again, or it was removed after all, or all is over
\* (chime_connection_remove_contact_async, contact_removed_cb).
Reinstated ==
  \A i \in Items :
    (\E c \in removals : c.item = i /\ c.answer = "failed") ~> (i \in live \/ i \notin srv \/ ended)
==============================================================================
