---------------------------- MODULE MCScheduler ----------------------------
EXTENDS Scheduler

AllOps == {"start", "stop", "close", "delete"}
NoOps == {}
StopOnly == {"stop"}
NoClicks == {}
AllFaults == {"start", "launch", "completed", "failed", "cancelled", "click"}
=============================================================================
