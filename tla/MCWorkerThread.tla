--------------------------- MODULE MCWorkerThread ---------------------------
EXTENDS WorkerThread
=============================================================================
