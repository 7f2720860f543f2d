--------------------------- MODULE PersonalReality ---------------------------
(***************************************************************************)
(* Address spaces: src/index/personal_reality_v2.cpp and the memory calls  *)
(* of linux_abi.cpp and usermode.cpp that use it.  A space is a list of    *)
(* areas (Vma) and a page table; pages come in on demand, fork shares them *)
(* read-only and the first write copies them, and a page goes back to the  *)
(* allocator when its last mapping goes.  A step is one section of the     *)
(* page-table lock (Pr2Guard), or one access to the space made without it. *)
(* munmap, mprotect, fork and a fault are one section each; mmap is not:   *)
(* it chooses its place without the lock, removes and adds areas in two    *)
(* sections, and moves mmap_next without the lock, while the other threads *)
(* of the space (CLONE_VM) go on.                                          *)
(* Addresses are counted in bytes of a page of PageSize bytes; the page    *)
(* table is a function from page numbers (its three levels are allocated   *)
(* on demand and carry no information of their own).                       *)
(***************************************************************************)
EXTENDS Integers, Sequences, SequencesExt, FiniteSets, FiniteSetsExt

CONSTANTS
    Spaces,         \* g_realities
    Threads,        \* the threads that share a space
    Frames,         \* the physical pages TreeDiagram can hand out
    PageSize,       \* kPageSize
    NPages,         \* user pages 1 .. NPages
    MaxVmas,        \* kMaxVmas
    Images,         \* the programs exec loads: sequences of PT_LOAD segments
    Requests,       \* the mmap requests programs make
    MmapBase,       \* kLinuxMmapBase
    Targets,        \* bound: the addresses that programs write
    MaxOps,         \* bound: segments loaded, and mmap, munmap, mprotect and fork calls
    Allowed         \* the risky calls that programs make, see Cautious below

RiskyCalls == {"protect_shared", "poke_shared", "trim_padded", "bump_onto_fixed",
               "concurrent_mmap", "torn_hint", "overlapping_segments"}
Mapping == [lo : Nat \ {0}, hi : Nat, w : BOOLEAN, file : BOOLEAN, off : Nat, size : Nat]
ASSUME RealityAssumption ==
    /\ IsFiniteSet(Spaces) /\ IsFiniteSet(Frames) /\ Threads # {}
    /\ PageSize \in Nat \ {0} /\ NPages \in Nat \ {0}
    /\ MaxVmas \in Nat \ {0} /\ MaxOps \in Nat
    /\ MmapBase \in Nat /\ MmapBase % PageSize = 0
    /\ \A r \in Requests : r.lo % PageSize = 0 /\ r.hi % PageSize = 0
    /\ Requests \subseteq Mapping
    /\ \A image \in Images : \A k \in DOMAIN image : image[k] \in Mapping
    /\ Targets \subseteq PageSize .. (NPages + 1) * PageSize - 1
    /\ Allowed \subseteq RiskyCalls

PageNumbers == 1 .. NPages
Addresses == PageSize .. (NPages + 1) * PageSize - 1
PageOf(a) == a \div PageSize
Down(a) == PageOf(a) * PageSize
Up(a) == Down(a + PageSize - 1)
PageBytes == 0 .. PageSize - 1

FileByte(o) == o + 1
Written == -1

NoFrame == "no_frame"
Absent == [frame |-> NoFrame, w |-> FALSE]

VARIABLES
    inUse,      \* PersonalReality::in_use, refs > 0
    vmas,       \* PersonalReality::vmas[0 .. vma_count - 1]
    next,       \* PersonalReality::mmap_next
    pte,        \* the leaf entries of a space's page table
    refs,       \* g_page_refs
    free,       \* TreeDiagram's free pages
    data,       \* the contents of the pages
    mmap,       \* the mmap call each thread of a space is in
    ops         \* segments loaded and calls made so far

vars == <<inUse, vmas, next, pte, refs, free, data, mmap, ops>>

NoEntries == [p \in PageNumbers |-> Absent]
ZeroPage == [b \in PageBytes |-> 0]
NoCall == [stage |-> "none"]
NoCalls == [t \in Threads |-> NoCall]

Init ==
    /\ inUse = [s \in Spaces |-> FALSE]
    /\ vmas = [s \in Spaces |-> <<>>]
    /\ next = [s \in Spaces |-> 0]
    /\ pte = [s \in Spaces |-> NoEntries]
    /\ refs = [f \in Frames |-> 0]
    /\ free = Frames
    /\ data = [f \in Frames |-> ZeroPage]
    /\ mmap = [s \in Spaces |-> NoCalls]
    /\ ops = 0

-----------------------------------------------------------------------------
(* Areas.                                                                   *)

FreeVma == [kind |-> "Free", start |-> 0, end |-> 0, w |-> FALSE,
            off |-> 0, size |-> 0, pad |-> 0]
Covers(v, a) == v.kind # "Free" /\ v.start <= a /\ a < v.end

\* find_vma: the first area that covers the address.
Covering(s, a) == {i \in DOMAIN vmas[s] : Covers(vmas[s][i], a)}
Mapped(s, a) == Covering(s, a) # {}
FindVma(s, a) == vmas[s][Min(Covering(s, a))]

\* pr2_add_vma: the first free slot, or a new one; nothing if the table is full.
NewVma(r) ==
    [kind |-> IF r.file THEN "File" ELSE "Anon", start |-> Down(r.lo), end |-> Up(r.hi),
     w |-> r.w, off |-> r.off, size |-> r.size,
     pad |-> IF r.file /\ r.lo >= Down(r.lo) THEN r.lo - Down(r.lo) ELSE 0]
FreeVmaSlots(vs) == {i \in DOMAIN vs : vs[i].kind = "Free"}
\* Fault: slots are never reused and the limit is not checked.
AddVmaAppends(vs, v) == Append(vs, v)
Room(vs) == FreeVmaSlots(vs) # {} \/ Len(vs) < MaxVmas
AddVma(vs, v) ==
    IF FreeVmaSlots(vs) # {}
    THEN [vs EXCEPT ![Min(FreeVmaSlots(vs))] = v]
    ELSE IF Len(vs) < MaxVmas THEN Append(vs, v) ELSE vs

\* The part [lo, hi) of an area as pr2_add_vma builds it, with the file data
\* rebased: the splits of pr2_remove_vma_range and pr2_mprotect.
Slice(v, lo, hi, w) ==
    LET segVa == v.start + v.pad
        segEnd == IF segVa + v.size < hi THEN segVa + v.size ELSE hi
        from == IF lo <= segVa THEN segVa ELSE lo
    IN  IF v.kind = "File"
        THEN [v EXCEPT !.start = lo, !.end = hi, !.w = w,
                       !.off = @ + from - segVa,
                       !.size = IF segEnd > from THEN segEnd - from ELSE 0,
                       !.pad = from - lo]
        ELSE [v EXCEPT !.start = lo, !.end = hi, !.w = w]

\* Fault: the tail of a split is lost (the code once did this).
CarveLosesTail(vs, i, lo, hi) ==
    LET v == vs[i] IN
    IF v.kind = "Free" \/ v.end <= lo \/ v.start >= hi THEN vs
    ELSE IF lo <= v.start /\ v.end <= hi THEN [vs EXCEPT ![i] = FreeVma]
    ELSE IF v.start < lo THEN [vs EXCEPT ![i].end = lo]
    ELSE [vs EXCEPT ![i].start = hi, ![i].off = @ + hi - v.start,
                    ![i].size = IF @ > hi - v.start THEN @ - (hi - v.start) ELSE 0]
\* One round of pr2_remove_vma_range's loop: free, truncate or split area i.  When
\* it truncates the head, the file offset moves by the length cut off.
Carve(vs, i, lo, hi) ==
    LET v == vs[i]
        shift == hi - v.start
    IN
    CASE v.kind = "Free" \/ v.end <= lo \/ v.start >= hi -> vs
      [] v.kind # "Free" /\ lo <= v.start /\ v.end <= hi -> [vs EXCEPT ![i] = FreeVma]
      [] v.kind # "Free" /\ v.start < lo /\ lo < v.end /\ v.end <= hi ->
           [vs EXCEPT ![i].end = lo]
      [] v.kind # "Free" /\ lo <= v.start /\ v.start < hi /\ hi < v.end ->
           [vs EXCEPT ![i] = IF v.kind = "File"
              THEN [v EXCEPT !.start = hi, !.off = @ + shift,
                             !.size = IF @ > shift THEN @ - shift ELSE 0,
                             !.pad = IF @ > shift THEN @ - shift ELSE 0]
              ELSE [v EXCEPT !.start = hi]]
      [] v.kind # "Free" /\ v.start < lo /\ hi < v.end ->
           AddVma([vs EXCEPT ![i].end = lo], Slice(v, hi, v.end, v.w))
CarveAll(vs, lo, hi) ==
    FoldLeft(LAMBDA us, i : Carve(us, i, lo, hi), vs, [i \in 1 .. Len(vs) |-> i])

\* One round of pr2_mprotect's loop: an area that straddles the range is dropped
\* and re-added in up to three parts.
Largest(a, b) == IF a > b THEN a ELSE b
Smallest(a, b) == IF a < b THEN a ELSE b
ReAdd(vs, v, lo, hi, w) == IF hi <= lo THEN vs ELSE AddVma(vs, Slice(v, lo, hi, w))
\* Fault: the original is kept beside the parts.
ReprotectKeeps(vs, i, lo, hi, w) ==
    LET v == vs[i] IN
    IF v.kind = "Free" \/ v.start >= hi \/ v.end <= lo THEN vs
    ELSE IF lo <= v.start /\ v.end <= hi THEN [vs EXCEPT ![i].w = w]
    ELSE ReAdd(vs, v, Largest(v.start, lo), Smallest(v.end, hi), w)
Reprotect(vs, i, lo, hi, w) ==
    LET v == vs[i]
        dropped == [vs EXCEPT ![i].kind = "Free"]
        before == ReAdd(dropped, v, v.start, lo, v.w)
        within == ReAdd(before, v, Largest(v.start, lo), Smallest(v.end, hi), w)
    IN
    IF v.kind = "Free" \/ v.start >= hi \/ v.end <= lo THEN vs
    ELSE IF lo <= v.start /\ v.end <= hi THEN [vs EXCEPT ![i].w = w]
    ELSE ReAdd(within, v, hi, v.end, v.w)
ReprotectAll(vs, lo, hi, w) ==
    FoldLeft(LAMBDA us, i : Reprotect(us, i, lo, hi, w), vs, [i \in 1 .. Len(vs) |-> i])

-----------------------------------------------------------------------------
(* Pages.  A "store" is what a call changes: entries, counts, free pages and *)
(* contents.                                                                 *)

Store == [pte |-> pte, refs |-> refs, free |-> free, data |-> data]
SetStore(m) == pte' = m.pte /\ refs' = m.refs /\ free' = m.free /\ data' = m.data

\* Fault: the page is not returned.
UnrefLeaks(m, f) == [m EXCEPT !.refs[f] = @ - 1]
\* page_unref: the last reference returns the page to TreeDiagram.  What a free page
\* holds is overwritten before anyone sees it (a fault fills or copies the whole page),
\* so it is kept at zero here.
Unref(m, f) ==
    IF m.refs[f] = 0 THEN m
    ELSE [m EXCEPT !.refs[f] = @ - 1,
                   !.free = IF m.refs[f] = 1 THEN @ \cup {f} ELSE @,
                   !.data[f] = IF m.refs[f] = 1 THEN ZeroPage ELSE @]

\* Fault: the entries stay.
ClearEntriesNot(m, s, pages) == m
\* Clear the given entries of space s, dropping their pages.
ClearEntries(m, s, pages) ==
    FoldLeft(LAMBDA n, p : IF n.pte[s][p] = Absent THEN n
                           ELSE Unref([n EXCEPT !.pte[s][p] = Absent], n.pte[s][p].frame),
             m, pages)
PagesFrom(lo, hi) == [k \in 1 .. hi - lo + 1 |-> lo + k - 1]

\* What a page of an area holds when it is first touched.
FillPage(v, p) ==
    LET segVa == v.start + v.pad IN
    [b \in PageBytes |->
       LET a == p * PageSize + b IN
       IF v.kind = "File" /\ segVa <= a /\ a < segVa + v.size
       THEN FileByte(v.off + a - segVa) ELSE 0]

\* Fault: the shared page is made writable instead of being copied.
FaultInNoCopy(m, s, p, f) ==
    LET v == FindVma(s, p * PageSize)
        old == m.pte[s][p]
    IN  IF old # Absent THEN [m EXCEPT !.pte[s][p].w = v.w]
        ELSE [m EXCEPT !.pte[s][p] = [frame |-> f, w |-> v.w], !.refs[f] = 1,
                       !.free = @ \ {f}, !.data[f] = FillPage(v, p)]
\* pr2_handle_fault on page p of space s, with f the page the allocator hands out
\* if one is needed: fill in the page, copy a shared one that the area lets the
\* program write, or re-derive the permission.
FaultIn(m, s, p, f) ==
    LET v == FindVma(s, p * PageSize)
        old == m.pte[s][p]
        fresh == [frame |-> f, w |-> v.w]
        taken == [m EXCEPT !.pte[s][p] = fresh, !.refs[f] = 1, !.free = @ \ {f}]
    IN  CASE old = Absent -> [taken EXCEPT !.data[f] = FillPage(v, p)]
          [] old # Absent /\ v.w /\ m.refs[old.frame] > 1 ->
               Unref([taken EXCEPT !.data[f] = m.data[old.frame]], old.frame)
          [] OTHER -> [m EXCEPT !.pte[s][p].w = v.w]

\* The faults that need a new page; without one they fail and change nothing.
NeedsFrame(s, p) ==
    \/ pte[s][p] = Absent
    \/ FindVma(s, p * PageSize).w /\ refs[pte[s][p].frame] > 1
Frame(s, p, f) == IF NeedsFrame(s, p) THEN f \in free ELSE f = pte[s][p].frame

-----------------------------------------------------------------------------
(* The calls.                                                               *)

Call == ops < MaxOps /\ ops' = ops + 1

\* A thread of the space that is not inside mmap: it runs the program, or another call.
Runs(s) == inUse[s] /\ \E t \in Threads : mmap[s][t] = NoCall

\* pr2_range_free
RangeFree(s, lo, hi) ==
    \A i \in DOMAIN vmas[s] :
      LET v == vmas[s][i] IN v.kind = "Free" \/ hi <= v.start \/ v.end <= lo

(***************************************************************************)
(* Risky calls, which programs make only if Allowed says so:               *)
(* mprotect that lets a program write a page it shares after a fork,       *)
(* a kernel or debugger write to a shared page of a read-only area,        *)
(* cutting the head off a segment that does not start on a page boundary,  *)
(* mmap after a MAP_FIXED mapping was put where mmap_next points,          *)
(* mmap while another thread of the space is in mmap,                      *)
(* mmap with a hint while another thread moves the areas,                  *)
(* and a program whose segments share a page.                              *)
(***************************************************************************)
Shared(s, p) == pte[s][p] # Absent /\ refs[pte[s][p].frame] > 1
Cautious(call, risky) == risky => call \in Allowed

CutsPadding(s, lo, hi) ==
    \E i \in DOMAIN vmas[s] :
      LET v == vmas[s][i] IN v.pad > 0 /\ lo <= v.start /\ v.start < hi /\ hi < v.end
SharePage(image) ==
    \E k, l \in DOMAIN image :
      k < l /\ Down(image[k].lo) < Up(image[l].hi) /\ Down(image[l].lo) < Up(image[k].hi)

\* exec: reality_alloc, pr2_create_addr_space, an area for every segment whatever the
\* others cover (map_elf_loads), and the mmap base.  Nobody else knows the space yet.
Exec(s, image) ==
    /\ ~inUse[s] /\ Len(image) <= MaxVmas
    /\ ops + Len(image) <= MaxOps /\ ops' = ops + Len(image)
    /\ Cautious("overlapping_segments", SharePage(image))
    /\ inUse' = [inUse EXCEPT ![s] = TRUE]
    /\ vmas' = [vmas EXCEPT ![s] =
                  FoldLeft(LAMBDA vs, r : AddVma(vs, NewVma(r)), <<>>, image)]
    /\ next' = [next EXCEPT ![s] = MmapBase]
    /\ UNCHANGED <<pte, refs, free, data, mmap>>

-----------------------------------------------------------------------------
(* mmap, by thread t of space s.                                            *)

\* Where mmap puts a request: MAP_FIXED and a free hint where it says, the rest at
\* the bump pointer, which nobody compares with the areas.  "torn" is a hint found free
\* only because pr2_range_free, which holds no lock, met an area that another thread had
\* dropped and not yet re-added.
Placing == {"fixed", "hint", "torn", "none"}
MmapAt(s, r, how) ==
    IF how \in {"fixed", "torn"} \/ (how = "hint" /\ RangeFree(s, r.lo, r.hi))
    THEN r.lo ELSE next[s]
MovedTo(r, at) == [r EXCEPT !.lo = at, !.hi = at + r.hi - r.lo]
Enter(s, t, call) == mmap' = [mmap EXCEPT ![s][t] = call]
At(s, t, stage) == mmap[s][t].stage = stage
Goes(s, t, stage) == Enter(s, t, [mmap[s][t] EXCEPT !.stage = stage])
Returns(s, t) == Enter(s, t, NoCall)

\* It reads mmap_next and the areas without the lock; one that would end above the
\* ceiling fails.
MmapChoose(s, t, r, how) ==
    LET at == MmapAt(s, r, how)
        here == MovedTo(r, at)
    IN
    /\ inUse[s] /\ mmap[s][t] = NoCall /\ Call
    /\ here.hi <= (NPages + 1) * PageSize
    /\ Cautious("torn_hint", how = "torn") /\ (how = "torn" => Threads # {t})
    /\ Cautious("concurrent_mmap", mmap[s] # NoCalls)
    /\ Cautious("trim_padded", how = "fixed" /\ CutsPadding(s, here.lo, here.hi))
    /\ Cautious("bump_onto_fixed", how \in {"hint", "none"} /\ ~RangeFree(s, here.lo, here.hi))
    /\ Enter(s, t, [stage |-> IF how = "fixed" THEN "remove" ELSE "add",
                    r |-> here, fixed |-> how = "fixed"])
    /\ UNCHANGED <<inUse, vmas, next, pte, refs, free, data>>

\* MAP_FIXED displaces what is there: pr2_remove_vma_range, a section of its own.
MmapRemove(s, t) ==
    LET r == mmap[s][t].r IN
    /\ At(s, t, "remove") /\ Goes(s, t, "add")
    /\ vmas' = [vmas EXCEPT ![s] = CarveAll(@, r.lo, r.hi)]
    /\ SetStore(ClearEntries(Store, s, PagesFrom(PageOf(r.lo), PageOf(r.hi) - 1)))
    /\ UNCHANGED <<inUse, next, ops>>

\* The descriptor is not a file's, or the file has no size: mmap fails, and what
\* MAP_FIXED removed stays removed.
MmapRefused(s, t) ==
    /\ At(s, t, "add") /\ mmap[s][t].r.file
    /\ Returns(s, t)
    /\ UNCHANGED <<inUse, vmas, next, pte, refs, free, data, ops>>

\* pr2_add_vma at the chosen place, whatever is there by now; a full table fails.
MmapAdd(s, t) ==
    LET call == mmap[s][t] IN
    /\ At(s, t, "add")
    /\ vmas' = [vmas EXCEPT ![s] = AddVma(@, NewVma(call.r))]
    /\ IF Room(vmas[s]) /\ ~call.fixed THEN Goes(s, t, "bump") ELSE Returns(s, t)
    /\ UNCHANGED <<inUse, next, pte, refs, free, data, ops>>

\* Without the lock: compare mmap_next with the end of the mapping ...
MmapCompare(s, t) ==
    /\ At(s, t, "bump")
    /\ IF mmap[s][t].r.hi > next[s] THEN Goes(s, t, "store") ELSE Returns(s, t)
    /\ UNCHANGED <<inUse, vmas, next, pte, refs, free, data, ops>>

\* ... and store it.
MmapStore(s, t) ==
    /\ At(s, t, "store") /\ Returns(s, t)
    /\ next' = [next EXCEPT ![s] = mmap[s][t].r.hi]
    /\ UNCHANGED <<inUse, vmas, pte, refs, free, data, ops>>

-----------------------------------------------------------------------------
(* The calls and events that are one section.                               *)

\* munmap: pr2_remove_vma_range.
Unmap(s, lo, hi) ==
    /\ Call /\ Runs(s) /\ lo <= hi
    /\ Cautious("trim_padded", CutsPadding(s, lo * PageSize, (hi + 1) * PageSize))
    /\ vmas' = [vmas EXCEPT ![s] = CarveAll(@, lo * PageSize, (hi + 1) * PageSize)]
    /\ SetStore(ClearEntries(Store, s, PagesFrom(lo, hi)))
    /\ UNCHANGED <<inUse, next, mmap>>

\* pr2_mprotect: areas, and the entries already there, whatever they share.
Protect(s, lo, hi, w) ==
    /\ Call /\ Runs(s) /\ lo <= hi
    /\ Cautious("protect_shared", w /\ \E p \in lo .. hi : Shared(s, p))
    /\ vmas' = [vmas EXCEPT ![s] = ReprotectAll(@, lo * PageSize, (hi + 1) * PageSize, w)]
    /\ pte' = [pte EXCEPT ![s] = [p \in PageNumbers |->
                 IF p \in lo .. hi /\ @[p] # Absent THEN [@[p] EXCEPT !.w = w] ELSE @[p]]]
    /\ UNCHANGED <<inUse, next, refs, free, data, mmap>>

\* An access the page table does not allow: pr2_handle_fault.
Fault(s, p) ==
    /\ Runs(s) /\ ~pte[s][p].w /\ Mapped(s, p * PageSize)
    /\ \E f \in Frames : Frame(s, p, f) /\ SetStore(FaultIn(Store, s, p, f))
    /\ UNCHANGED <<inUse, vmas, next, mmap, ops>>

\* A store the page table allows.
UserWrite(s, a) ==
    /\ Runs(s) /\ pte[s][PageOf(a)].w
    /\ data' = [data EXCEPT ![pte[s][PageOf(a)].frame][a % PageSize] = Written]
    /\ UNCHANGED <<inUse, vmas, next, pte, refs, free, mmap, ops>>

\* pr2_write_user: fault the page in, then write through the kernel's alias.
WriteUser(s, a) ==
    LET p == PageOf(a) IN
    /\ inUse[s] /\ Mapped(s, a)
    /\ Cautious("poke_shared", ~FindVma(s, a).w /\ Shared(s, p))
    /\ \E f \in Frames :
         LET m == FaultIn(Store, s, p, f) IN
         /\ Frame(s, p, f)
         /\ SetStore([m EXCEPT !.data[m.pte[s][p].frame][a % PageSize] = Written])
    /\ UNCHANGED <<inUse, vmas, next, mmap, ops>>

\* pr2_fork goes through the areas in the order of the table, and through the pages of
\* each; a page that two areas cover is visited, and counted, twice.
ForkVisits(s) ==
    {v \in (DOMAIN vmas[s]) \X PageNumbers :
       Covers(vmas[s][v[1]], v[2] * PageSize) /\ pte[s][v[2]] # Absent}
Earlier(u, v) == u[1] < v[1] \/ (u[1] = v[1] /\ u[2] < v[2])
PagesOf(visits) == {v[2] : v \in visits}
Counted(s, visits, f) == Cardinality({v \in visits : pte[s][v[2]].frame = f})
ReadOnly(e) == [e EXCEPT !.w = FALSE]
Inherited(s, pages) ==
    [p \in PageNumbers |-> IF p \in pages THEN ReadOnly(pte[s][p]) ELSE Absent]
\* Fault: the parent keeps its write permission.
DowngradedNot(s, pages) == pte[s]
Downgraded(s, pages) ==
    [p \in PageNumbers |-> IF p \in pages THEN ReadOnly(pte[s][p]) ELSE pte[s][p]]

\* fork: the areas are copied, the pages shared read-only in both spaces.
Fork(s, c) ==
    LET visits == ForkVisits(s) IN
    /\ Runs(s) /\ ~inUse[c] /\ Call
    /\ inUse' = [inUse EXCEPT ![c] = TRUE]
    /\ vmas' = [vmas EXCEPT ![c] = vmas[s]]
    /\ next' = [next EXCEPT ![c] = next[s]]
    /\ pte' = [pte EXCEPT ![s] = Downgraded(s, PagesOf(visits)),
                          ![c] = Inherited(s, PagesOf(visits))]
    /\ refs' = [f \in Frames |-> refs[f] + Counted(s, visits, f)]
    /\ UNCHANGED <<free, data, mmap>>

\* A fork that runs out of page-table pages at some visit: the pages it got to are
\* read-only in the parent, and the child's space is given back, which drops one
\* reference for each page the child had.
ForkFails(s) ==
    /\ Runs(s) /\ Call
    /\ \E last \in ForkVisits(s) :
         LET done == {v \in ForkVisits(s) : Earlier(v, last)}
             child(f) == Cardinality({p \in PagesOf(done) : pte[s][p].frame = f})
         IN  /\ pte' = [pte EXCEPT ![s] = Downgraded(s, PagesOf(done \cup {last}))]
             /\ refs' = [f \in Frames |-> refs[f] + Counted(s, done, f) - child(f)]
    /\ UNCHANGED <<inUse, vmas, next, free, data, mmap>>

\* reality_unref's last reference: pr2_destroy.
Destroy(s) ==
    /\ inUse[s] /\ mmap[s] = NoCalls
    /\ inUse' = [inUse EXCEPT ![s] = FALSE]
    /\ vmas' = [vmas EXCEPT ![s] = <<>>]
    /\ next' = [next EXCEPT ![s] = 0]
    /\ SetStore(ClearEntries(Store, s, PagesFrom(1, NPages)))
    /\ UNCHANGED <<mmap, ops>>

Next ==
    \E s \in Spaces :
      \/ Destroy(s) \/ ForkFails(s)
      \/ \E image \in Images : Exec(s, image)
      \/ \E c \in Spaces : Fork(s, c)
      \/ \E p \in PageNumbers : Fault(s, p)
      \/ \E a \in Targets : UserWrite(s, a) \/ WriteUser(s, a)
      \/ \E t \in Threads :
           \/ \E r \in Requests, how \in Placing : MmapChoose(s, t, r, how)
           \/ MmapRemove(s, t) \/ MmapRefused(s, t) \/ MmapAdd(s, t)
           \/ MmapCompare(s, t) \/ MmapStore(s, t)
      \/ \E lo, hi \in PageNumbers :
           Unmap(s, lo, hi) \/ \E w \in BOOLEAN : Protect(s, lo, hi, w)

Spec == Init /\ [][Next]_vars

-----------------------------------------------------------------------------
(* Properties.                                                              *)

VmaType == [kind : {"Free", "Anon", "File"}, start : Nat, end : Nat, w : BOOLEAN,
            off : Int, size : Nat, pad : Nat]

\* Types; an area table never outgrows MaxVmas.
TypeOK ==
    /\ inUse \in [Spaces -> BOOLEAN]
    /\ \A s \in Spaces : vmas[s] \in Seq(VmaType) /\ Len(vmas[s]) <= MaxVmas
    /\ next \in [Spaces -> 0 .. (NPages + 1) * PageSize]
    /\ pte \in [Spaces -> [PageNumbers -> [frame : Frames \cup {NoFrame}, w : BOOLEAN]]]
    /\ refs \in [Frames -> Nat]
    /\ free \subseteq Frames
    /\ data \in [Frames -> [PageBytes -> Int]]
    /\ \A s \in Spaces, t \in Threads :
         \/ mmap[s][t] = NoCall
         \/ mmap[s][t] \in [stage : {"remove", "add", "bump", "store"}, r : Mapping,
                            fixed : BOOLEAN]
    /\ ops \in 0 .. MaxOps

Mappings(f) == {m \in Spaces \X PageNumbers : pte[m[1]][m[2]].frame = f}

\* The count of a page is the number of entries that map it, and the allocator
\* holds exactly the pages nobody maps: none is freed while in use, none leaks.
RefsExact ==
    \A f \in Frames : refs[f] = Cardinality(Mappings(f)) /\ (f \in free <=> refs[f] = 0)

\* No entry lets a program write a page that another space maps too.
SharedIsReadOnly ==
    \A m, n \in Spaces \X PageNumbers :
      m # n /\ pte[m[1]][m[2]].frame # NoFrame /\ pte[m[1]][m[2]].frame = pte[n[1]][n[2]].frame
        => ~pte[m[1]][m[2]].w

\* Every page a space maps lies in an area of it, which is writable if the entry is.
EntriesWithinAreas ==
    \A s \in Spaces, p \in PageNumbers :
      pte[s][p] # Absent =>
        Mapped(s, p * PageSize) /\ (pte[s][p].w => FindVma(s, p * PageSize).w)

\* The areas of a space never overlap, through splits and truncations, whatever other
\* threads do between the sections of an mmap.  It takes the risky calls to break it:
\* two mmaps at once, a torn hint, or mmap_next inside a fixed mapping.
AreasDisjoint ==
    \A s \in Spaces, a \in Addresses : Cardinality(Covering(s, a)) <= 1

\* What a program sees of a page: the page if it is in, else what a fault would
\* bring in.
ViewPage(s, p) ==
    LET areas == Covering(s, p * PageSize)
        v == vmas[s][Min(areas)]
        e == pte[s][p]
    IN  IF areas = {} THEN [mapped |-> FALSE, w |-> FALSE, bytes |-> ZeroPage]
        ELSE [mapped |-> TRUE, w |-> v.w,
              bytes |-> IF e = Absent THEN FillPage(v, p) ELSE data[e.frame]]
View(s) == [p \in PageNumbers |-> ViewPage(s, p)]
Placements == {MovedTo(r, p * PageSize) : r \in Requests, p \in PageNumbers}
Flat == INSTANCE FlatMemory WITH Requests <- Placements,
                                 mem <- [s \in Spaces |-> View(s)]

\* Paging, sharing and splitting implement a private flat memory per space.
MemoryIsFlat == Flat!Spec

\* munmap, mprotect and the two halves of mmap do to every page of the range what they
\* say, and nothing to the pages around it, however they cut the areas and whatever the
\* other threads do meanwhile.  The addition always finds its pages unmapped, so only
\* the removal of MAP_FIXED displaces.
CallsAreExact ==
    [][ops' # ops \/ mmap' # mmap =>
       \A s \in Spaces :
         /\ \A lo, hi \in PageNumbers :
              /\ Unmap(s, lo, hi) => Flat!Unmap(View(s), View(s)', lo, hi)
              /\ \A w \in BOOLEAN :
                   Protect(s, lo, hi, w) => Flat!Protect(View(s), View(s)', lo, hi, w)
         /\ \A t \in Threads :
              LET r == mmap[s][t].r IN
              /\ MmapRemove(s, t) =>
                   Flat!Unmap(View(s), View(s)', PageOf(r.lo), PageOf(r.hi) - 1)
              /\ Room(vmas[s]) /\ MmapAdd(s, t) => Flat!Map(View(s), View(s)', r)]_vars

\* The comment above pr2_remove_vma_range: an area with the hole in its middle "loses
\* the tail past `lo`".
HoleLosesTail ==
    [][\A s \in Spaces : \A lo, hi, p \in PageNumbers : \A i \in DOMAIN vmas[s] :
         LET v == vmas[s][i] IN
         /\ Unmap(s, lo, hi)
         /\ v.start < lo * PageSize /\ hi < p /\ Covers(v, p * PageSize)
         => ~Mapped(s, p * PageSize)']_vars

\* pr2_handle_fault's comment: copy the page "so the write doesn't disturb the
\* other address space".  No step changes what two spaces hold.
WritesArePrivate ==
    [][\A s, t \in Spaces : s # t => View(s)' = View(s) \/ View(t)' = View(t)]_vars
===============================================================================
