---------------------------- MODULE MCLineInput -----------------------------
(***************************************************************************)
(* A screen of two rows of three cells, so that every line wraps and       *)
(* scrolls, and a buffer of three, so that three characters fill it.       *)
(***************************************************************************)
EXTENDS LineInput

A == <<30>>
Enter_ == <<28>>
BackspaceKey == <<14>>
EscapeKey == <<1>>
TabKey == <<15>>
LeftShift == <<42>>
RightShift == <<54>>
CapsLock == <<58>>
RightCtrl == <<224, 29>>
LeftArrow == <<224, 75>>

MCKeys == {A, Enter_, BackspaceKey, EscapeKey, LeftShift, RightCtrl}
MCArrows == {A, LeftArrow}
MCPrompt == <<62>>
=============================================================================
