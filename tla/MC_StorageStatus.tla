-------------------------- MODULE MC_StorageStatus --------------------------
EXTENDS StorageStatus, TLC

CONSTANTS c1, c2

MCTexts == {c1, c2}
MCSignResults == {0, -1}
MCSendResults == {0, -2}
=============================================================================
