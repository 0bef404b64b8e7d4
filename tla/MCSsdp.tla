------------------------------- MODULE MCSsdp -------------------------------
(* Instances of Ssdp for TLC: a media server with one service, in one device. *)
EXTENDS Ssdp

ServerType == <<"urn", "device", "MediaServer">>
ServerName == <<"uuid", "A">>
Directory == <<"urn", "service", "ContentDirectory">>
Server == [type |-> ServerType, udn |-> ServerName, services |-> <<Directory>>]
OneDevice == <<Server>>

TwoTargets == {ServerName, <<"urn", "device">>}

\* A search that does not say "ssdp:discover".
NoSearchAtAll == {[CreateClientRequestPacket(0, ServerType) EXCEPT !.discover = FALSE]}

ASSUME NamesAgreeHere == NamesAgree
=============================================================================
