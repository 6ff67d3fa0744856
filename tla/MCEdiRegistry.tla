---------------------------- MODULE MCEdiRegistry ----------------------------
(***************************************************************************)
(* EdiRegistry with two presets, the first with two detectors, one free    *)
(* name, and one that is too long for name[32].                            *)
(***************************************************************************)
EXTENDS EdiRegistry

CONSTANTS t1, t2

MCThreads == {t1, t2}
MCNames   == {"EDIFACT", "TRADACOMS", "long", "cut"}
MCStored  == [n \in MCNames |-> IF n = "long" THEN "cut" ELSE n]
MCParams  == {"own"}
MCTags    == {"UNA", "UNB", "STX"}
MCPresets == <<[name |-> "EDIFACT", params |-> "edifact", tags |-> <<"UNA", "UNB">>],
               [name |-> "TRADACOMS", params |-> "tradacoms", tags |-> <<"STX">>]>>

=============================================================================
