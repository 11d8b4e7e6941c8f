------------------------------ MODULE MCAtaBus ------------------------------
(***************************************************************************)
(* An instance of AtaBus: a clock of three counts, of which kwait takes    *)
(* almost a whole turn, as in the code, where it takes 11931 of 11932.     *)
(***************************************************************************)
EXTENDS AtaBus, TLC

(* Busy; idle; ready; ready with data; failed, with and without data. *)
MCStatuses == {{"BSY"}, {}, {"RDY"}, {"RDY", "DRQ"}, {"RDY", "ERR"}, {"RDY", "DRQ", "ERR"}}

(* No security; able to erase; locked; frozen. *)
MCSecurities == {{"SUPP"}, {"SUPP", "ESE_SUPP"}, {"SUPP", "EN", "LOCKED"},
                 {"SUPP", "ESE_SUPP", "FROZEN"}}
=============================================================================
