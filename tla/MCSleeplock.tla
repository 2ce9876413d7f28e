---- MODULE MCSleeplock ----
EXTENDS Sleeplock
====
