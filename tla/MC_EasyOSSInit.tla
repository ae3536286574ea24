--------------------------- MODULE MC_EasyOSSInit ---------------------------
EXTENDS EasyOSSInit, TLC

CONSTANTS c1, c2

MCTexts == {c1, c2}
MCSignResults == {0, -1}
MCSendResults == {0, -2}
MCIoInitResults == {0, -3}
=============================================================================
