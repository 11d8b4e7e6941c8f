-------------------------- MODULE MCPageAllocator --------------------------
(***************************************************************************)
(* Three pages and three threads for TLC: two threads can be in the        *)
(* critical section at once if the lock lets them while a third waits, the *)
(* list can be empty, hold one page or several, and a page can be released *)
(* by a thread that did not allocate it.                                   *)
(***************************************************************************)
EXTENDS PageAllocator

CONSTANTS t1, t2, t3, p1, p2, p3

MCThreads == {t1, t2, t3}
MCBootChain == <<p1, p2, p3>>
=============================================================================
