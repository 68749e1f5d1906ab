--------------------------- MODULE MCCacheThreads ---------------------------
EXTENDS CacheThreads
=============================================================================
