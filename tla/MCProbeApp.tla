------------------------------ MODULE MCProbeApp ------------------------------
(* ProbeApp on small instances.                                            *)
EXTENDS ProbeApp

TwoLibs == {"calculator", "htp"}
TwoModels == <<"superres", "nss">>

(* build.sh bundles both libraries or none, and whatever models it finds.  *)
Builds == [dsp : {{}, TwoLibs}, models : SUBSET {"superres", "nss"}]

AnyDevice == [library : BOOLEAN, control : BOOLEAN, open : BOOLEAN]
ShortOrLong == {0, 1}
=============================================================================
