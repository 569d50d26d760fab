--------------------------- MODULE MCDeviceStatus ---------------------------
(* DeviceStatus on small instances: one or two business flows, one adapter   *)
(* goroutine next to them, a few messages of the device.                     *)
EXTENDS DeviceStatus

AllModes   == {"plain", "heartbeat", "timeout"}
Heartbeat  == {"heartbeat"}
Timeout    == {"timeout"}
NoProcs    == {}
OneFlow    == {"telemetry"}
TwoFlows   == {"telemetry", "attribute"}
OneHandler == {"h1"}
=============================================================================
