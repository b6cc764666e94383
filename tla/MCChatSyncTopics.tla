------------------------ MODULE MCChatSyncTopics ------------------------
EXTENDS ChatSyncTopics
CONSTANTS c1, c2, g1
NoLegacy == <<>>
OneLegacy == [c \in {c1} |-> 1]
=============================================================================
