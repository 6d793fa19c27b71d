---------------------------- MODULE MCRttClient ----------------------------
(* RttClient with the samples that hwRoundTrip rejects: those that lack a stamp. *)
EXTENDS RttClient

MCUndecodable == {<<f, NoStamp>> : f \in Frame} \cup {<<NoStamp, i>> : i \in Index}
=============================================================================
