---------------------------- MODULE MCAdmission ----------------------------
EXTENDS Admission
CONSTANTS group, fresh, dm, a1, a2, a3, owner, stranger, hi, plain, call, own, again

\* "hi" and "plain" are the stranger's in a group with two agents; "call" and "again" mention
\* the bot in a channel without agents; "own" is the owner's, in a DM wired to one agent.
MCChan == [m \in Msgs |-> IF m \in {hi, plain} THEN group ELSE IF m = own THEN dm ELSE fresh]
MCFrom == [m \in Msgs |-> IF m = own THEN owner ELSE stranger]
MCMentions == Msgs \ {plain}
MCPolicy == [c \in Channels |-> IF c = dm THEN "strict" ELSE "request_approval"]
MCRank == [a \in Agents |-> IF a = a1 THEN 1 ELSE IF a = a2 THEN 2 ELSE 3]
Always == [mode |-> "pattern", matches |-> Msgs, accumulates |-> FALSE, knownOnly |-> FALSE]
Sticky == [mode |-> "mention-sticky", matches |-> {}, accumulates |-> TRUE, knownOnly |-> TRUE]
MCSetup == [x \in {<<group, a1>>, <<group, a2>>, <<dm, a1>>} |-> IF x[2] = a1 THEN Always ELSE Sticky]
MCMembers == {}
MCKnown == {<<stranger, a2>>}
MCSilent == {}
=============================================================================
