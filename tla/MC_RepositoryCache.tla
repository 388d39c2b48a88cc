------------------------ MODULE MC_RepositoryCache ------------------------
EXTENDS RepositoryCache, TLC

CONSTANTS t1, t2, t3, n1, n2

MCThreads == {t1, t2, t3}
MCNames == {n1, n2}
=============================================================================
