----------------------- MODULE MCTelemetryConnection -----------------------
(* The telemetry connection on a small instance.                           *)
EXTENDS TelemetryConnection, TLC

CONSTANTS h1, h2, acm, usb

MCHandlers == {h1, h2}
MCPorts == {acm, usb}

=============================================================================
