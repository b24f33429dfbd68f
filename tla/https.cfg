\* Two senders and the polling loop share the uplink; refusals, lost answers, teardown.
CONSTANTS
  Senders = {c1, c2}
  MaxCalls = 2
  MaxDown = 2
  Sends = {"STREAM", "PING", "BYE", "ZERO", "GARBLED"}
  Disconnects = "unless BYE"
SPECIFICATION MCFairSpec
INVARIANTS HttpsTypeOK UplinkOnceInOrder LossesBounded DownlinkOnceInOrder TornDown
PROPERTIES UplinkTerminates DisconnectTerminates
CHECK_DEADLOCK FALSE
