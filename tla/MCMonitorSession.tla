---------------------------- MODULE MCMonitorSession ----------------------------
\* MonitorSession for TLC: the constants are given in the .cfg files.
EXTENDS MonitorSession
=============================================================================
