--------------------------- MODULE MC_RecordModule ---------------------------
EXTENDS RecordRefinement, TLC

CONSTANTS t1, t2, t3, s1, s2, s3, n1, b1

MCThreads == {t1, t2, t3}
MCSessions == {s1, s2, s3}
MCNames == {n1}
MCBytes == {b1}
MCWriteSizes == {1}
MCReadSizes == {1}
=============================================================================
