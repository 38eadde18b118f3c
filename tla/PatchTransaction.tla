-------------------------- MODULE PatchTransaction --------------------------
(***************************************************************************)
(* What the Gen 1 setup does to the patches of a controller: a transaction.*)
(* The records of a file are played, each once, and the controller takes   *)
(* or refuses them in its own time.  Then there is one decision.  Only if  *)
(* the whole file was played is it for activating the patches, or for      *)
(* leaving things as they are if there were none; and the controller       *)
(* carries it out when no record is under way any more, so that nothing is *)
(* taken into an activated set of patches or after it was dropped.  A      *)
(* decision may get lost, but it never turns into the other one.           *)
(***************************************************************************)
VARIABLES whole,     \* the records of the file
          played,    \* those sent to the controller
          underWay,  \* those of them that it has not worked on yet
          patches,   \* those it has taken and loaded
          active,    \* it runs patched
          decision   \* "none", or the way patching was left

sessionVars == <<whole, played, underWay, patches, active, decision>>

Init == /\ played = {}
        /\ underWay = {}
        /\ patches = {}
        /\ active \in BOOLEAN
        /\ decision = "none"

Play(k) == /\ k \notin played
           /\ played' = played \cup {k}
           /\ underWay' = underWay \cup {k}

PlayRecord(k) == /\ decision = "none"
                 /\ ~active
                 /\ Play(k)
                 /\ UNCHANGED <<whole, patches, active, decision>>

Take(k) == /\ k \in underWay
           /\ underWay' = underWay \ {k}
           /\ patches' \in {patches, patches \cup {k}}
           /\ UNCHANGED <<whole, played, active, decision>>

Complete == /\ decision = "none"
            /\ whole \subseteq played
            /\ decision' \in {"disable", "activate"}
            /\ UNCHANGED <<whole, played, underWay, patches, active>>

\* The record that failed may have been sent all the same.
GiveUp == /\ decision = "none"
          /\ decision' = "deactivate"
          /\ \/ UNCHANGED <<played, underWay>>
             \/ ~active /\ \E k \in whole : Play(k)
          /\ UNCHANGED <<whole, patches, active>>

Activate == /\ decision = "activate"
            /\ underWay = {}
            /\ active' = (active \/ patches # {})
            /\ UNCHANGED <<whole, played, underWay, patches, decision>>

Drop == /\ decision = "deactivate"
        /\ underWay = {}
        /\ patches' = {}
        /\ active' = FALSE
        /\ UNCHANGED <<whole, played, underWay, decision>>

Next == \/ \E k \in whole : PlayRecord(k) \/ Take(k)
        \/ Complete \/ GiveUp
        \/ Activate \/ Drop

Spec == Init /\ [][Next]_sessionVars
=============================================================================
