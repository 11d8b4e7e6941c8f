----------------------------- MODULE LineEditor -----------------------------
(***************************************************************************)
(* What Console::get_line promises its caller: the line it returns is what *)
(* was typed, with every erasing key applied to it.  A line may grow to    *)
(* Limit characters; one more key fails.                                   *)
(***************************************************************************)
EXTENDS Naturals, Sequences

CONSTANTS Limit, Chars

VARIABLES line, state

vars == <<line, state>>

Init == line = <<>> /\ state = "prompt"

Ask == state \in {"prompt", "returned"} /\ state' = "reading" /\ line' = <<>>

Reading(next) == state = "reading" /\ state' = "reading" /\ line' = next

Type(c) == Len(line) < Limit /\ Reading(Append(line, c))

Erase == line # <<>> /\ Len(line) < Limit /\ Reading(SubSeq(line, 1, Len(line) - 1))

Discard == Reading(<<>>)

Return ==
  /\ state = "reading" /\ line # <<>> /\ Len(line) < Limit
  /\ state' = "returned" /\ UNCHANGED line

Fail == state = "reading" /\ Len(line) = Limit /\ state' = "halted" /\ UNCHANGED line

Next == Ask \/ (\E c \in Chars : Type(c)) \/ Erase \/ Discard \/ Return \/ Fail

Spec == Init /\ [][Next]_vars
=============================================================================
