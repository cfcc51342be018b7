--------------------------- MODULE MCReplacement ---------------------------
(* Instances of ReplacementTabs: one and two items, the text "old" that the
   replacement rewrites to "new", and a later edit "edit" that it would
   rewrite to "edited". *)
EXTENDS ReplacementTabs

CONSTANTS k1, k2

OneItem == <<k1>>
TwoItems == <<k1, k2>>
MCTexts == {"old", "new", "edit", "edited"}
MCRewrite == [x \in MCTexts |-> CASE x = "old" -> "new"
                                  [] x = "edit" -> "edited"
                                  [] OTHER -> x]
OldOne == [k \in {k1} |-> "old"]
OldTwo == [k \in {k1, k2} |-> "old"]
AllControls == {"include", "exclude", "prepare", "start", "pause", "resume", "retry", "rescan",
                "preview", "recover", "delete-snapshots", "delete", "reload"}
AllFaults == {"storage", "credentials", "network", "api", "401", "400", "throttle"}
ItemControls == AllControls \ {"include", "exclude", "delete", "delete-snapshots"}
ThrottleOnly == {"throttle"}
PauseControls == {"prepare", "start", "pause", "resume"}
TabControls == {"prepare", "start", "pause", "resume", "delete", "reload"}
StorageFaults == {"storage", "network"}
=============================================================================
