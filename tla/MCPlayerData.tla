---------------------------- MODULE MCPlayerData ----------------------------
EXTENDS PlayerData
=============================================================================
