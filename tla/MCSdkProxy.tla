----------------------------- MODULE MCSdkProxy -----------------------------
(* Small instances of SdkProxy.  The SDK's numbers overlap the registered   *)
(* ones on purpose: keeping them apart is what the proxy is for.            *)
EXTENDS SdkProxyProofs

CONSTANTS s1, s2

MCSdkNum == [t \in SdkTxn |-> IF t = s1 THEN 1 ELSE 2]

=============================================================================
