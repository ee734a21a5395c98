---------------------------- MODULE MCDeployment ----------------------------
(* Two APIs, one of them under two spellings, each with a login server of  *)
(* its own, a third that names both, and a spelling that is no URL.        *)
EXTENDS Deployment

CONSTANTS l1, l2

MCSpellings == {"here", "here/", "there", "both", "noURL"}
MCNormal == [s \in MCSpellings |->
                CASE s = "here/" -> "here" [] s = "noURL" -> "malformed"
                  [] OTHER -> s]
MCNames == [a \in MCSpellings |->
                CASE a = "here" -> {"x"} [] a = "there" -> {"y"}
                  [] a = "both" -> {"x", "y"}
                  [] OTHER -> {}]

NoLogin == {"idle"}
UntilSave == {"idle", "lookup", "approval", "save"}
=============================================================================
