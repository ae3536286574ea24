-------------------------- MODULE MC_UploadHarness --------------------------
EXTENDS UploadHarness, TLC

CONSTANTS hu, hr, obj, b1, b2

MCHandles == {hu, hr}
MCNames == {obj}
MCBytes == {b1, b2}
MCFileData == <<b1, b1, b2>>
MCMkBuf == <<b2, b1>>
=============================================================================
