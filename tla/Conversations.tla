--------------------------- MODULE Conversations ----------------------------
(***************************************************************************)
(* The object ConversationManager caches, as a value: its conversations by *)
(* id.  The array of the code has the one created last in front; here each *)
(* conversation knows the older ones, which stand behind it.  A message is *)
(* its role and the user message it is or answers.  Titles, session ids,   *)
(* stamps and the selected conversation (saved for browsers, read by       *)
(* nobody else) are left out, and with them the operations that change     *)
(* nothing else.                                                           *)
(***************************************************************************)
EXTENDS Naturals, Sequences, FiniteSets

CONSTANTS
    NoConv,           \* null
    MaxPerWorkspace   \* MAX_PER_WORKSPACE: 50 in the code

Ids(data) == DOMAIN data

\* createConversation, createConversationWithId
Create(data, id, ws) ==
    [v \in Ids(data) \cup {id} |->
        IF v = id THEN [ws |-> ws, messages |-> <<>>, older |-> Ids(data)] ELSE data[v]]

\* addMessage: a conversation that is gone swallows the message.
AddMessage(data, id, message) ==
    [v \in Ids(data) |->
        IF v = id THEN [data[v] EXCEPT !.messages = Append(@, message)] ELSE data[v]]

\* deleteConversation, of several
Without(data, ids) ==
    [v \in Ids(data) \ ids |-> [data[v] EXCEPT !.older = @ \ ids]]

\* pruneStaleConversations, given the conversations old enough for it: of those
\* the empty and the inter-agent ones go, then all but MaxPerWorkspace of each
\* workspace; which ones is decided by stamps the model leaves out.
Pruned(data, aged, agentIds) ==
    LET left == Without(data, {id \in aged \cap Ids(data) :
                                  data[id].messages = <<>> \/ id \in agentIds})
        ofWorkspace(id) == {other \in Ids(left) : left[other].ws = left[id].ws}
        isCapped(kept) == \A id \in Ids(left) :
            \/ ofWorkspace(id) \subseteq kept /\ Cardinality(ofWorkspace(id)) <= MaxPerWorkspace
            \/ Cardinality(ofWorkspace(id) \cap kept) = MaxPerWorkspace
    IN {Without(left, Ids(left) \ kept) : kept \in {k \in SUBSET Ids(left) : isCapped(k)}}

\* getWorkspaceConversations, of which the gateway takes those of users.
OfUsers(data, ws, agentIds) == {v \in Ids(data) \ agentIds : data[v].ws = ws}

\* More messages, and the newer one on a tie.
Ahead(data, v, u) ==
    LET ofV == Len(data[v].messages)
        ofU == Len(data[u].messages)
    IN ofV > ofU \/ (ofV = ofU /\ u \in data[v].older)

\* The conversation the gateway writes a user's message to: the one with the
\* most messages, the first of them on a tie; inter-agent ones do not count.
Canonical(data, ws, agentIds) ==
    LET users == OfUsers(data, ws, agentIds)
    IN IF users = {} THEN NoConv
       ELSE CHOOSE v \in users : \A u \in users \ {v} : Ahead(data, v, u)
=============================================================================
