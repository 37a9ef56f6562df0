--------------------------- MODULE MCSerialPorts ---------------------------
(* SerialPorts with two commands of the web and one request, for TLC. *)
EXTENDS SerialPorts

(* Bound: once the last command has been sent, the request of the Zigbee   *)
(* thread is followed up to its first write only.                          *)
FewWrites == ToSet(sent) = Commands => writes <= 1
=============================================================================
