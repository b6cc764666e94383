-------------------------- MODULE MCChatSyncQueue --------------------------
EXTENDS ChatSyncQueue, TLC
=============================================================================
