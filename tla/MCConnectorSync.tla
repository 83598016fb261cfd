-------------------------- MODULE MCConnectorSync --------------------------
(***************************************************************************)
(* A small instance of ConnectorSync for TLC.                              *)
(***************************************************************************)
EXTENDS ConnectorSync

CONSTANTS k1, k2

ChannelThenSlack(k) == IF k = k1 THEN "slack channel" ELSE "slack"
TwoAndOne(k) == IF k = k1 THEN 2 ELSE 1
ThreeAndOne(k) == IF k = k1 THEN 3 ELSE 1

(* The newest document of k1 is a hard secret, that of k2 has an address.  *)
SecretLast(k, n) == IF k # k1 THEN "masked" ELSE IF n = 3 THEN "secret" ELSE "plain"
=============================================================================
