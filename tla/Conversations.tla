---------------------------- MODULE Conversations -------------------------------
(***************************************************************************)
(* The conversations of a connection (chime/chime-conversation.c): those   *)
(* with one other person and those of a group.  The list of them is in     *)
(* ObjectCollection and ListSync; here they become known one at a time, by *)
(* a page of the list, a push, a look-up or a creation, and a message of   *)
(* one that is not known waits until it has been fetched.                  *)
(***************************************************************************)
EXTENDS Naturals

CONSTANTS
  Direct, Groups,  \* conversations
  Profiles,        \* the people, this user among them
  Me,
  Named,           \* profiles with a display name that is not their address
  Emails,
  Email,           \* the address of each profile, which need not be its alone
  None,
  MaxPushes        \* bound: messages pushed

ASSUME ConversationAssumption ==
  /\ Direct \cap Groups = {} /\ None \notin Direct \cup Groups \cup Profiles \cup Emails
  /\ Me \in Profiles /\ Named \subseteq Profiles
  /\ Email \in [Profiles -> Emails]
  /\ MaxPushes \in Nat

VARIABLES
  peer,      \* with whom the direct conversations are
  exists,    \* the service has them
  known,     \* priv->conversations
  grown,     \* direct conversations that a third member has joined
  deferred,  \* messages that wait for the fetch of their conversation
  pushed     \* what the bound counts

conversations == <<peer, exists, known, grown, deferred, pushed>>

Conversation == Direct \cup Groups

ConversationsTypeOK ==
  /\ peer \in [Direct -> Profiles]
  /\ exists \subseteq Conversation /\ known \subseteq Conversation
  /\ grown \subseteq Direct
  /\ deferred \in [Conversation -> 0 .. MaxPushes]
  /\ pushed \in 0 .. MaxPushes

ConversationsInit ==
  /\ peer \in [Direct -> Profiles]
  /\ exists \in SUBSET Direct
  /\ known = {} /\ grown = {}
  /\ deferred = [c \in Conversation |-> 0] /\ pushed = 0

\* is_group_conv: there are not two members.  Nobody ever leaves the list of members,
\* and a conversation with oneself has one.
IsGroup(c) == c \in Groups \/ c \in grown \/ peer[c] = Me

\* The conversations the service finds for the profile of find_conversation_async.
With(p) == {c \in Direct \cap exists : peer[c] = p}

\* chime_connection_parse_conversation, but for what the signal leads to
Parse(c) ==
  /\ known' = known \cup {c}
  /\ exists' = exists \cup {c}

\* conv_membership_jugg_cb
Join(c) ==
  /\ c \in (known \cap Direct) \ grown
  /\ grown' = grown \cup {c}
  /\ UNCHANGED <<peer, exists, known, deferred, pushed>>

\* conv_msg_jugg_cb of a conversation that is not known
Defer(c) ==
  /\ c \notin known /\ pushed < MaxPushes
  /\ pushed' = pushed + 1
  /\ deferred' = [deferred EXCEPT ![c] = @ + 1]
  /\ exists' = exists \cup {c}
  /\ UNCHANGED <<peer, known, grown>>

\* The fetch of a deferred message is over.
Undefer(c) ==
  /\ deferred[c] > 0
  /\ deferred' = [deferred EXCEPT ![c] = @ - 1]

\* chime_destroy_conversations; what the service has is not looked at any more
DestroyConversations ==
  /\ exists' = {} /\ known' = {} /\ grown' = {}
  /\ deferred' = [c \in Conversation |-> 0] /\ pushed' = 0
  /\ UNCHANGED peer
==============================================================================
