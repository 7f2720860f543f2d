------------------------------ MODULE FlatMemory ------------------------------
(***************************************************************************)
(* What the address spaces of src/index/personal_reality_v2.cpp promise:   *)
(* every space is a private, flat memory.  A page is unmapped, or holds    *)
(* bytes and a write permission; demand paging, copy-on-write sharing and  *)
(* the splitting of areas do not show.                                     *)
(***************************************************************************)
EXTENDS Integers, FiniteSetsExt

CONSTANTS Spaces,           \* the address spaces
          PageSize,         \* bytes per page
          PageNumbers,      \* the user pages
          Images,           \* the programs: sequences of segments
          Requests,         \* the mappings a program may ask for
          FileByte(_),      \* the file's byte at an offset
          Written           \* the byte that programs write
VARIABLE mem                \* mem[s][p]: a page, or NoPage

PageBytes == 0 .. PageSize - 1
NoPage == [mapped |-> FALSE, w |-> FALSE, bytes |-> [b \in PageBytes |-> 0]]
Empty == [p \in PageNumbers |-> NoPage]

Init == mem = [s \in Spaces |-> Empty]

\* A fresh mapping shows the file's bytes where the file reaches, zero elsewhere.
Covers(r, p) == r.lo \div PageSize <= p /\ p <= (r.hi - 1) \div PageSize
Backing(r, a) ==
    IF r.file /\ r.lo <= a /\ a < r.lo + r.size THEN FileByte(r.off + a - r.lo) ELSE 0
FreshPage(r, p) ==
    [mapped |-> TRUE, w |-> r.w,
     bytes |-> [b \in PageBytes |-> Backing(r, p * PageSize + b)]]

\* The calls, as relations between the old and the new memory of one space.
Map(old, new, r) ==
    \A p \in PageNumbers :
      IF Covers(r, p) THEN ~old[p].mapped /\ new[p] = FreshPage(r, p) ELSE new[p] = old[p]

Unmap(old, new, lo, hi) ==
    \A p \in PageNumbers : new[p] = IF p \in lo .. hi THEN NoPage ELSE old[p]

Protect(old, new, lo, hi, w) ==
    \A p \in PageNumbers :
      new[p] = IF p \in lo .. hi /\ old[p].mapped THEN [old[p] EXCEPT !.w = w] ELSE old[p]

\* A store by the program, or by the kernel on its behalf.
Write(old, new, p, b) ==
    old[p].mapped /\ new = [old EXCEPT ![p].bytes[b] = Written]

\* A program is loaded: a page shows the first segment that reaches it.
Exec(old, new, image) ==
    LET on(p) == {k \in DOMAIN image : Covers(image[k], p)} IN
    /\ old = Empty
    /\ new = [p \in PageNumbers |->
                IF on(p) = {} THEN NoPage ELSE FreshPage(image[Min(on(p))], p)]

\* Another space is forked into this one.
Fork(old, new, from) == old = Empty /\ new = from

\* One space changes at a time.
Step(old, new) ==
    \/ new = Empty
    \/ \E p \in PageNumbers, b \in PageBytes : Write(old, new, p, b)
    \/ \E lo, hi \in PageNumbers :
         \/ Unmap(old, new, lo, hi)
         \/ \E w \in BOOLEAN : Protect(old, new, lo, hi, w)
    \/ \E r \in Requests : Map(old, new, r)
    \/ \E image \in Images : Exec(old, new, image)
Next ==
    \E now \in {mem}, then \in {mem'} :
      /\ now # then
      /\ \E s \in Spaces :
           /\ \A t \in Spaces \ {s} : then[t] = now[t]
           /\ Step(now[s], then[s]) \/ \E t \in Spaces : Fork(now[s], then[s], now[t])

Spec == Init /\ [][Next]_mem
===============================================================================
