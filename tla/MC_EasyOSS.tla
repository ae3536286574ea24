----------------------------- MODULE MC_EasyOSS -----------------------------
EXTENDS EasyOSSClients, TLC

CONSTANTS w1, r1, n1, b1, b2

MCWriters == {w1}
MCReaders == {r1}
MCHandles == {w1, r1}
MCNames == {n1}
MCBytes == {b1, b2}
MCReadSizes == 0..2
MCWriteSizes == 0..2
=============================================================================
