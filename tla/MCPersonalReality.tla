-------------------------- MODULE MCPersonalReality --------------------------
(***************************************************************************)
(* Small instances of PersonalReality: three user pages of two bytes, two  *)
(* or three physical pages, two address spaces of two threads.             *)
(***************************************************************************)
EXTENDS PersonalReality, TLC

Request(lo, hi, w, file, off, size) ==
    [lo |-> lo, hi |-> hi, w |-> w, file |-> file, off |-> off, size |-> size]

\* A segment that starts in the middle of a page and whose file part is shorter
\* than its memory.
MCSegment == Request(3, 7, TRUE, TRUE, 4, 3)
\* Programs with and without a segment among the three pages.
MCImages == { <<>>, <<MCSegment>> }
\* A file over all pages, read-only; an anonymous page.
MCRequests == { Request(2, 8, FALSE, TRUE, 2, 5), Request(4, 6, TRUE, FALSE, 0, 0) }
MCSymmetry == Permutations(Frames) \cup Permutations(Spaces) \cup Permutations(Threads)
NoRisk == {}
PokeShared == {"poke_shared"}
TrimPadded == {"trim_padded"}
BumpOntoFixed == {"bump_onto_fixed"}
ConcurrentMmap == {"concurrent_mmap"}
TornHint == {"torn_hint"}
ProtectShared == {"protect_shared"}
===============================================================================
