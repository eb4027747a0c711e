---------------------------- MODULE MCRtcfgIoctl ----------------------------
EXTENDS RtcfgIoctl
====
