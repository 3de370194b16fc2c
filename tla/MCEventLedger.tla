---------------------------- MODULE MCEventLedger ----------------------------
(***************************************************************************)
(* Small instances of EventLedger for TLC.                                  *)
(***************************************************************************)
EXTENDS EventLedger, TLC

Kinds == ("default" :> "HARD_CREDIT_EVENT") @@ ("progress" :> "HARD_CREDIT_PROGRESS")
         @@ ("remark" :> "HARD_CREDIT_PROGRESS") @@ ("rating" :> "RATING_REPORT")
         @@ ("put" :> "PUT_TRIGGER") @@ ("trustee" :> "TRUSTEE_REPORT")
Days  == ("default" :> 1) @@ ("progress" :> 2) @@ ("remark" :> 1) @@ ("rating" :> 1)
         @@ ("put" :> 1) @@ ("trustee" :> 2)
KindsOf == [d \in Docs |-> Kinds[d]]
DaysOf  == [d \in Docs |-> Days[d]]

Both == {"MATURITY_CASH", "DOWNWARD_REVISION"}

\* A default, its progress a day later and a trustee report that tells of either;
\* sources fail, lanes raise, the controller is killed.  How a default is routed does
\* not depend on how material it is.
Nightly == [docs |-> {"default", "progress", "trustee"}, mats |-> {"MATERIAL_CHANGE"},
            kept |-> Both, modes |-> {"AUTO_API"},
            faults |-> {"source", "raise", "kill"}, moves |-> 0]

\* One document, audits by API and by dialogue; the economics of a path change.
Dialogue == [docs |-> {"remark"}, mats |-> {"MATERIAL_CHANGE"},
             kept |-> {"DOWNWARD_REVISION"},
             modes |-> {"AUTO_API", "INTERACTIVE_CHAT"}, faults |-> {}, moves |-> 2]

\* The same, with a submission that is cut off half-way.
CutOff == [Dialogue EXCEPT !.faults = {"cut"}, !.moves = 1]

\* The announcement of a put right and a trustee report a day later; nothing fails.
Undisturbed == [docs |-> {"put", "trustee"}, mats |-> {"MATERIAL_CHANGE"},
                kept |-> Both, modes |-> {"AUTO_API"}, faults |-> {}, moves |-> 1]

\* A rating report, whose materiality says what is to be done.
Rated == [Undisturbed EXCEPT !.docs = {"rating"},
                             !.mats = {"FACT_UPDATE", "MATERIAL_CHANGE"}]

AllScenes == {Nightly, Dialogue, CutOff, Undisturbed, Rated}
=============================================================================
