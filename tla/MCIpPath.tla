------------------------------ MODULE MCIpPath ------------------------------
(* Instances of IpPath for TLC.                                            *)
EXTENDS IpPath

CONSTANT other

OthersMC == {other}
KeysMC == Ids \cup OthersMC

=============================================================================
