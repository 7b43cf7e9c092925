------------------------------ MODULE GroupChat -----------------------------
(***************************************************************************)
(* One group of a GroupChat: a message is handed to the participants one   *)
(* after the other, each with the recent history, replies included.        *)
(* Messages of different senders go round at the same time, and the group  *)
(* may be closed while they do.                                            *)
(***************************************************************************)
EXTENDS Naturals, Sequences, FiniteSets, SequencesExt

CONSTANTS
    Participant,
    order,          \* group.participants
    ChatMessage,
    recent          \* messages of the history a participant is shown

ASSUME GroupAssumption ==
    /\ order \in Seq(Participant) /\ Range(order) = Participant /\ IsInjective(order)
    /\ recent \in Nat

VARIABLES
    groupActive,
    groupHistory,   \* group.history: messages, oldest first
    groupFrom,      \* sender of each message
    groupMode,      \* where the round of each message is
    groupAsked,     \* recipients asked for each message, in order
    groupReplies,   \* those of them whose reply is in the history
    groupShown      \* history: what each recipient was shown of a message's replies

groupVars == <<groupActive, groupHistory, groupFrom, groupMode, groupAsked, groupReplies,
               groupShown>>

GroupTypeOK ==
    /\ groupActive \in BOOLEAN
    /\ Range(groupHistory) \subseteq ChatMessage /\ IsInjective(groupHistory)
    /\ groupFrom \in [ChatMessage -> Participant]
    /\ groupMode \in [ChatMessage -> {"new", "refused", "round", "asking", "done", "sent"}]
    /\ \A m \in ChatMessage :
          /\ IsInjective(groupAsked[m])
          /\ Range(groupAsked[m]) \subseteq Participant \ {groupFrom[m]}
          /\ groupReplies[m] \subseteq Range(groupAsked[m])
    /\ groupShown \in [ChatMessage -> [Participant -> SUBSET Participant]]

GroupInit ==
    /\ groupActive = TRUE
    /\ groupHistory = <<>>
    /\ groupFrom \in [ChatMessage -> Participant]
    /\ groupMode = [m \in ChatMessage |-> "new"]
    /\ groupAsked = [m \in ChatMessage |-> <<>>]
    /\ groupReplies = [m \in ChatMessage |-> {}]
    /\ groupShown = [m \in ChatMessage |-> [p \in Participant |-> {}]]

Recipients(m) == RemoveAt(order, CHOOSE i \in DOMAIN order : order[i] = groupFrom[m])
Mode(m, mode) == groupMode' = [groupMode EXCEPT ![m] = mode]

\* Mutant: the history begins with what is said first.
RecentFirst(history) == {history[i] : i \in {j \in DOMAIN history : j <= recent}}

\* group.history.slice(-5)
Recent(history) == {history[i] : i \in {j \in DOMAIN history : j > Len(history) - recent}}

\* What of the replies to m is in the context of a message sent now.
ShownNow(m) == IF m \in Recent(groupHistory) THEN groupReplies[m] ELSE {}

\* sendMessage up to its first await; without waitForReplies everyone is sent
\* the message at once.
SendToGroup(m) ==
    /\ groupMode[m] = "new"
    /\ IF groupActive
       THEN /\ groupHistory' = Append(groupHistory, m)
            /\ \/ Mode(m, "round") /\ UNCHANGED groupAsked
               \/ Mode(m, "sent") /\ groupAsked' = [groupAsked EXCEPT ![m] = Recipients(m)]
       ELSE /\ Mode(m, "refused")
            /\ UNCHANGED <<groupHistory, groupAsked>>
    /\ UNCHANGED <<groupActive, groupFrom, groupReplies, groupShown>>

\* Mutant: every participant is asked, the sender too.
AskEveryone(m) ==
    /\ groupMode[m] = "round" /\ Len(groupAsked[m]) < Len(order)
    /\ LET p == order[Len(groupAsked[m]) + 1]
       IN  /\ groupAsked' = [groupAsked EXCEPT ![m] = Append(@, p)]
           /\ groupShown' = [groupShown EXCEPT ![m][p] = ShownNow(m)]
    /\ Mode(m, "asking")
    /\ UNCHANGED <<groupActive, groupHistory, groupFrom, groupReplies>>

\* The next recipient, whether the group is still active or not.
AskNext(m) ==
    /\ groupMode[m] = "round" /\ Len(groupAsked[m]) < Len(Recipients(m))
    /\ LET p == Recipients(m)[Len(groupAsked[m]) + 1]
       IN  /\ groupAsked' = [groupAsked EXCEPT ![m] = Append(@, p)]
           /\ groupShown' = [groupShown EXCEPT ![m][p] = ShownNow(m)]
    /\ Mode(m, "asking")
    /\ UNCHANGED <<groupActive, groupHistory, groupFrom, groupReplies>>

ReplyArrives(m) ==
    /\ groupMode[m] = "asking"
    /\ groupReplies' = [groupReplies EXCEPT ![m] = @ \cup {Last(groupAsked[m])}]
    /\ Mode(m, "round")
    /\ UNCHANGED <<groupActive, groupHistory, groupFrom, groupAsked, groupShown>>

\* Mutant: an error ends the round.
ErrorEndsRound(m) ==
    /\ groupMode[m] = "asking"
    /\ Mode(m, "asking")
    /\ UNCHANGED <<groupActive, groupHistory, groupFrom, groupAsked, groupReplies, groupShown>>

\* No reply in time, or the router refuses: the round goes on.
ReplyFails(m) ==
    /\ groupMode[m] = "asking"
    /\ Mode(m, "round")
    /\ UNCHANGED <<groupActive, groupHistory, groupFrom, groupAsked, groupReplies, groupShown>>

RoundEnds(m) ==
    /\ groupMode[m] = "round" /\ Len(groupAsked[m]) = Len(Recipients(m))
    /\ Mode(m, "done")
    /\ UNCHANGED <<groupActive, groupHistory, groupFrom, groupAsked, groupReplies, groupShown>>

CloseGroup ==
    /\ groupActive
    /\ groupActive' = FALSE
    /\ UNCHANGED <<groupHistory, groupFrom, groupMode, groupAsked, groupReplies, groupShown>>

GroupNext ==
    \/ \E m \in ChatMessage : SendToGroup(m)
    \/ \E m \in ChatMessage : AskNext(m)
    \/ \E m \in ChatMessage : ReplyArrives(m)
    \/ \E m \in ChatMessage : ReplyFails(m)
    \/ \E m \in ChatMessage : RoundEnds(m)
    \/ CloseGroup

\* The router settles every message, by its timeout at the latest.
GroupFairness ==
    \A m \in ChatMessage :
        WF_groupVars(AskNext(m)) /\ WF_groupVars(ReplyFails(m)) /\ WF_groupVars(RoundEnds(m))

-----------------------------------------------------------------------------
(* Properties.                                                              *)

\* Whoever is asked later has seen the replies of those asked before, as long
\* as fewer messages than the context holds came after this one: going round
\* one by one is what the sequential mode is for ("prevents chaos", 160).
LaterSeeEarlier ==
    \A k \in DOMAIN groupHistory : LET m == groupHistory[k] IN
        groupMode[m] # "sent" /\ Len(groupHistory) - k < recent =>
            \A i \in DOMAIN groupAsked[m] :
                groupShown[m][groupAsked[m][i]] =
                    groupReplies[m] \cap {groupAsked[m][j] : j \in 1..(i - 1)}

\* A round ends, with everyone but the sender asked, whoever fails to answer and
\* whether the group was closed meanwhile or not (163-201).
RoundReachesAll ==
    \A m \in ChatMessage : groupMode[m] = "round" ~>
        groupMode[m] = "done" /\ groupAsked[m] = Recipients(m)

=============================================================================
