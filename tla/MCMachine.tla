------------------------------- MODULE MCMachine -----------------------------
(***************************************************************************)
(* The code's own limits: 35 line ends, 25 rows.  The dumps are of one     *)
(* byte, of the lengths at which a row ends, and long enough for two       *)
(* pages; one runs into memory that cannot be read while it is paged.      *)
(* Devices raise the timer's line and one of the second controller.        *)
(***************************************************************************)
EXTENDS Machine

Of(name, argc, start, length) ==
  [name |-> name, argc |-> argc, start |-> start, length |-> length]

MCLines ==
  {Of("dump", 3, s, n) : s \in {0, 160, Bad}, n \in {Bad, 0, 1, 16, 17, 640}}
    \cup {Of("dump", 2, 0, Bad), Of("testa", 1, Bad, Bad)}
    \cup {Of("testa", 2, s, Bad) : s \in {Bad, 0, 1, 4095, 4096}}
    \cup {Of(n, 1, Bad, Bad) : n \in {"vars", "meminfo", "fault", "ptable", "help"}}
    \cup {Of("", 0, Bad, Bad)}

MCDevices == {<<"primary", 0>>, <<"secondary", 0>>}
=============================================================================
