--------------------------- MODULE MCListenerThread ---------------------------
\* The listener's threads with enough Timer objects for three keepalives at once.
EXTENDS ListenerThread
=============================================================================
