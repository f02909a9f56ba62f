------------------------------ MODULE MCDaemon ------------------------------
\* Instance of Daemon for TLC: three applications, so that two can overlap
\* and a third can be started after the first of them has ended.
EXTENDS Daemon
=============================================================================
