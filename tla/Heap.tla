-------------------------------- MODULE Heap --------------------------------
(***************************************************************************)
(* heap-manager.c after heap_manager_init, with ordered-array.c and the    *)
(* kernel_malloc family of kernel-memory.c: boundary tags in memory and an *)
(* index of the holes.                                                     *)
(*                                                                         *)
(* Memory is counted in words of four bytes from the start of the heap,    *)
(* whose page is page 0.  A header is three words (magic, size, is_hole),  *)
(* a footer two (magic, header).  Tags are read back from memory, stale    *)
(* ones too: what a client has not overwritten is still there.  The page   *)
(* in front of the heap is taken to hold no tag.  kernel_calloc is an      *)
(* aligned Malloc whose memory is overwritten.                             *)
(*                                                                         *)
(* Pages are mapped with the contents they had when they were unmapped.    *)
(* Five coincidences break the heap; odd names the one that happened, and  *)
(* nothing is modelled or claimed after it (README, heap).                 *)
(***************************************************************************)
EXTENDS Integers, Sequences, FiniteSets

CONSTANTS
    PageSize,            \* words of a page
    MinPages, MaxPages,  \* HEAP_MIN_SIZE and the largest size of the heap
    IndexSize,           \* HEAP_INDEX_SIZE
    Sizes,               \* bound: the sizes clients ask for
    Wiped,               \* whether clients overwrite what they get: TRUE, FALSE or either
    MaxLive, MaxCalls    \* bounds: blocks in use at a time, calls in all

Magic == -1
Header == 3   \* sizeof(heap_header_t)
Footer == 2   \* sizeof(heap_footer_t)

(* The right neighbour is looked for 64 bytes behind the footer (pointer   *)
(* arithmetic), where a neighbour never begins.                            *)
RightTest == 8 * Footer

ASSUME HeapAssumption ==
    /\ PageSize \in Nat /\ PageSize > RightTest + Header
    /\ IndexSize \in Nat \ {0} /\ MaxLive \in Nat /\ MaxCalls \in Nat
    /\ MinPages \in Nat \ {0} /\ MaxPages \in Nat /\ MinPages <= MaxPages
    /\ Sizes \subseteq Nat /\ Wiped \subseteq BOOLEAN

VARIABLES
    mem,   \* the words of the heap and of the page behind it
    index, \* heap_array: addresses of holes, ordered by their size when inserted
    end,   \* end_address
    behind, \* whether the page behind the heap is mapped
    live,  \* the blocks clients hold: address, size and alignment they asked for
    odd,   \* "none", or "sliver" (a piece too small for its tags), "grewInside" (the
           \* enlarged hole does not end the heap), "foreign" (a far hole is taken
           \* for the right neighbour), "emptied" (a hole of size 0 at the end),
           \* "fault" (the neighbour is looked for in a page that is not mapped)
    calls  \* counts calls for the bound

heapVars == <<mem, index, end, behind, live, odd, calls>>

(* The heap as one value: the operators below map heaps to heaps.          *)
heap == [mem |-> mem, index |-> index, end |-> end, odd |-> odd]

-----------------------------------------------------------------------------
(* Tags. *)
PutHeader(m, at, size, hole) ==
    [m EXCEPT ![at] = Magic, ![at + 1] = size, ![at + 2] = hole]

PutFooter(m, at, header) == [m EXCEPT ![at] = Magic, ![at + 1] = header]

SizeAt(m, at) == m[at + 1]
HoleAt(m, at) == m[at] = Magic /\ m[at + 2] # 0

RoundUp(n) == ((n + PageSize - 1) \div PageSize) * PageSize

(* A definition with a suffix _Bug... is a faulty variant of the one it    *)
(* precedes; no specification uses it.                                     *)

(* ordered_array_insert: binary search by the sizes the holes have now.    *)
Place(m, ix, hole) ==
    LET left[range \in (0 .. Len(ix)) \X (0 .. Len(ix))] ==
            LET lo == range[1]
                hi == range[2]
                mid == lo + (hi - lo) \div 2
            IN  IF lo >= hi THEN lo
                ELSE IF SizeAt(m, ix[mid + 1]) < SizeAt(m, hole)
                     THEN left[<<mid + 1, hi>>] ELSE left[<<lo, mid>>]
    IN  left[<<0, Len(ix)>>]

Insert(m, ix, hole) ==
    LET n == Place(m, ix, hole)
    IN  IF Len(ix) >= IndexSize THEN ix
        ELSE SubSeq(ix, 1, n) \o <<hole>> \o SubSeq(ix, n + 1, Len(ix))

(* ordered_array_remove *)
RemoveAt(ix, i) == SubSeq(ix, 1, i - 1) \o SubSeq(ix, i + 1, Len(ix))
Without(ix, hole) ==
    IF \E i \in DOMAIN ix : ix[i] = hole
    THEN RemoveAt(ix, CHOOSE i \in DOMAIN ix : ix[i] = hole /\ \A j \in 1 .. i - 1 : ix[j] # hole)
    ELSE ix

-----------------------------------------------------------------------------
(* find_smallest_hole: the first hole of the index that fits, 0 for none.  *)
Fits(h, hole, need, aligned) ==
    LET offset == IF aligned THEN (PageSize - ((hole + Header) % PageSize)) % PageSize ELSE 0
    IN  SizeAt(h.mem, hole) - offset >= need

find_smallest_hole(h, need, aligned) ==
    LET fit == {i \in DOMAIN h.index : Fits(h, h.index[i], need, aligned)}
    IN  IF fit = {} THEN 0 ELSE CHOOSE i \in fit : \A j \in fit : i <= j

(* The part of allocate that expands: the hole with the highest address is *)
(* enlarged, wherever it ends; without a hole the new pages become one.    *)
expand(h, need) ==
    LET top == RoundUp(h.end + need)
        at == IF h.index = <<>> THEN h.end
              ELSE CHOOSE a \in {h.index[i] : i \in DOMAIN h.index} :
                       \A i \in DOMAIN h.index : h.index[i] <= a
        size == (IF h.index = <<>> THEN 0 ELSE SizeAt(h.mem, at)) + top - h.end
    IN  [mem |-> PutFooter(PutHeader(h.mem, at, size, 1), at + size - Footer, at),
         index |-> IF h.index = <<>> THEN <<at>> ELSE h.index,
         end |-> top,
         odd |-> IF at + size = top THEN h.odd ELSE "grewInside"]

(* size2: what an aligned block leaves of its hole in front of it *)
Gap_BugHeader(pos, aligned) ==   \* the header of the block is forgotten
    IF aligned THEN PageSize - (pos % PageSize) ELSE 0

Gap(pos, aligned) ==
    IF aligned THEN PageSize - (pos % PageSize) - Header ELSE 0

(* The part of allocate that cuts a block out of hole i.  An aligned block *)
(* leaves a hole in front, in its place in the index; the test that should *)
(* tell a hole that needs none from the others is true of every address.   *)
Cut(h, i, size, aligned) ==
    LET pos == h.index[i]
        hole == SizeAt(h.mem, pos)
        need == size + Header + Footer
        whole == hole - need < Header + Footer
        new == IF whole THEN hole ELSE need
        gap == Gap(pos, aligned)
        at == pos + gap
        rest == hole - gap - new
        next == at + new
        m0 == IF aligned
              THEN PutFooter(PutHeader(h.mem, pos, gap, 1), at - Footer, pos) ELSE h.mem
        m1 == PutFooter(PutHeader(m0, at, new, 0), next - Footer, at)
        m2 == IF rest = 0 THEN m1
              ELSE LET m == PutHeader(m1, next, rest, 1)
                   IN  IF next + rest - Footer < h.end
                       THEN PutFooter(m, next + rest - Footer, next) ELSE m
        ix == IF aligned THEN h.index ELSE RemoveAt(h.index, i)
        small == \/ aligned /\ gap < Header + Footer
                 \/ rest \in 1 .. Header + Footer - 1
    IN  [h EXCEPT !.mem = m2,
                  !.index = IF rest = 0 THEN ix ELSE Insert(m2, ix, next),
                  !.odd = IF small THEN "sliver" ELSE @]

BlockOf(pos, aligned) == pos + Gap(pos, aligned) + Header

-----------------------------------------------------------------------------
(* heap_manager_malloc; the client may or may not overwrite what it gets.  *)
Give(h, i, size, aligned, wiped) ==
    LET g == Cut(h, i, size, aligned)
        at == BlockOf(h.index[i], aligned)
    IN  /\ mem' = IF wiped /\ g.odd = "none"
                  THEN [a \in DOMAIN mem |-> IF a \in at .. at + size - 1 THEN 0 ELSE g.mem[a]]
                  ELSE g.mem
        /\ index' = g.index /\ end' = g.end /\ odd' = g.odd
        /\ live' = live \union {[at |-> at, size |-> size, aligned |-> aligned]}

Malloc(size, aligned, wiped) ==
    LET need == size + Header + Footer
        i == find_smallest_hole(heap, need, aligned)
        g == expand(heap, need)
        j == find_smallest_hole(g, need, aligned)
    IN  /\ odd = "none"
        /\ Cardinality(live) < MaxLive
        /\ IF i # 0 THEN Give(heap, i, size, aligned, wiped) /\ UNCHANGED behind
           ELSE /\ end + need <= MaxPages * PageSize   \* else NULL
                /\ behind' = TRUE   \* expand maps the page at the new end as well
                /\ IF j # 0 /\ g.odd = "none" THEN Give(g, j, size, aligned, wiped)
                   ELSE /\ mem' = g.mem /\ index' = g.index /\ end' = g.end
                        /\ odd' = g.odd /\ UNCHANGED live   \* NULL

-----------------------------------------------------------------------------
(* heap_manager_free *)

(* The left neighbour, if it is a hole, takes the block in.                *)
MergeLeft_BugSize(h, block) ==   \* the hole keeps its size
    LET foot == block + SizeAt(h.mem, block) - Footer
        m == [h.mem EXCEPT ![block + 2] = 1]
        left == block > 0 /\ m[block - Footer] = Magic /\ m[m[block - 1] + 2] # 0
    IN  IF left
        THEN [at |-> m[block - 1], foot |-> foot, merged |-> TRUE,
              mem |-> [m EXCEPT ![foot + 1] = m[block - 1]]]
        ELSE [at |-> block, foot |-> foot, merged |-> FALSE, mem |-> m]

MergeLeft(h, block) ==
    LET foot == block + SizeAt(h.mem, block) - Footer
        m == [h.mem EXCEPT ![block + 2] = 1]
        left == block > 0 /\ m[block - Footer] = Magic /\ m[m[block - 1] + 2] # 0
        at == IF left THEN m[block - 1] ELSE block
    IN  [at |-> at, foot |-> foot, merged |-> left,
         mem |-> IF left THEN [m EXCEPT ![foot + 1] = at, ![at + 1] = @ + SizeAt(m, block)]
                 ELSE m]

(* contract: the new end of the heap *)
Contracted(at) ==
    IF RoundUp(at) < MinPages * PageSize THEN MinPages * PageSize ELSE RoundUp(at)

(* What follows the merges.  A hole that would be left empty stays as it   *)
(* was, behind the end; the search of line 437, whose index may be         *)
(* uninitialised, looks for a hole that is not in the index.               *)
Shrink_BugKeep(r, e) ==   \* the hole at the end keeps its size
    IF r.foot + Footer # e THEN [mem |-> r.mem, end |-> e, size |-> SizeAt(r.mem, r.at)]
    ELSE LET top == Contracted(r.at)
             size == SizeAt(r.mem, r.at) - (e - top)
         IN  [mem |-> PutFooter(r.mem, r.at + size - Footer, r.at), end |-> top, size |-> size]

Shrink(r, e) ==
    LET size == SizeAt(r.mem, r.at) - (e - Contracted(r.at))
    IN  IF r.foot + Footer # e THEN [mem |-> r.mem, end |-> e, size |-> SizeAt(r.mem, r.at)]
        ELSE [end |-> Contracted(r.at), size |-> size,
              mem |-> IF size = 0 THEN r.mem
                      ELSE PutFooter(PutHeader(r.mem, r.at, size, 1), r.at + size - Footer, r.at)]

Unallocate(b) ==
    LET r == MergeLeft(heap, b.at - Header)
        far == r.foot + RightTest
        foreign == HoleAt(r.mem, far)
        s == Shrink(r, end)
        ix == IF foreign THEN Without(index, far) ELSE index
    IN  /\ odd = "none" /\ b \in live
        /\ live' = live \ {b}
        /\ IF far >= end /\ ~behind THEN odd' = "fault" /\ UNCHANGED <<mem, index, end>>
           ELSE IF foreign   \* the hole is enlarged by a hole that does not touch it
           THEN /\ mem' = [r.mem EXCEPT ![r.at + 1] = @ + SizeAt(r.mem, far)]
                /\ index' = IF r.merged THEN ix ELSE Insert(mem', ix, r.at)
                /\ odd' = "foreign" /\ UNCHANGED end
           ELSE /\ mem' = s.mem /\ end' = s.end
                /\ index' = IF r.merged THEN ix ELSE Insert(s.mem, ix, r.at)
                /\ odd' = CASE s.size = 0 -> "emptied"
                            [] s.size \in 1 .. Header + Footer - 1 -> "sliver"
                            [] OTHER -> "none"
        /\ behind' = (behind \/ end' < end)   \* contract leaves the heap's pages mapped

(* heap_manager_free_all, when the owner of the heap is cleaned up.  It    *)
(* unmaps the pages from the new end on, the page behind the heap too.     *)
FreeAll ==
    /\ odd = "none"
    /\ end' = MinPages * PageSize
    /\ mem' = PutFooter(PutHeader(mem, 0, end', 1), end' - Footer, 0)
    /\ index' = <<0>> /\ live' = {}
    /\ behind' = (behind /\ end = end')
    /\ UNCHANGED odd

(* heap_manager_init: one hole, without a footer; the range it maps ends   *)
(* with the page at end_address.                                           *)
HeapInit ==
    /\ end \in {n * PageSize : n \in MinPages .. MaxPages}
    /\ mem = PutHeader([a \in 0 .. (MaxPages + 1) * PageSize - 1 |-> 0], 0, end, 1)
    /\ index = <<0>> /\ live = {} /\ behind = TRUE /\ odd = "none" /\ calls = 0

HeapNext ==
    /\ calls < MaxCalls /\ calls' = calls + 1
    /\ \/ \E size \in Sizes, aligned \in BOOLEAN, wiped \in Wiped : Malloc(size, aligned, wiped)
       \/ \E b \in live : Unallocate(b)
       \/ FreeAll

HeapSpec == HeapInit /\ [][HeapNext]_heapVars

-----------------------------------------------------------------------------
(* Properties. *)

(* The pieces of the heap: what one finds walking from tag to tag.         *)
Pieces ==
    LET walk[a \in 0 .. end] ==
            IF a = end \/ SizeAt(mem, a) <= 0 \/ a + SizeAt(mem, a) > end THEN {a}
            ELSE {a} \union walk[a + SizeAt(mem, a)]
    IN  walk[0]

(* Whatever was allocated and freed in whatever order, the tags divide the *)
(* heap without a gap from its start to its end, each piece has its tags,  *)
(* and the pieces that are not holes are the blocks clients hold, so no    *)
(* block lies in another and none is lost (allocate, unallocate, contract).*)
(* The footer of every piece but a first hole that was never cut leads     *)
(* back to its header: the next free relies on it to find its left         *)
(* neighbour (test_footer).                                                *)
FootersLead ==
    \A a \in Pieces \ {0, end} :
        LET foot == a + SizeAt(mem, a) - Footer
        IN  mem[foot] = Magic /\ mem[foot + 1] = a

Tiled ==
    odd = "none" =>
        /\ end \in Pieces
        /\ \A a \in Pieces \ {end} : mem[a] = Magic
        /\ {a + Header : a \in {p \in Pieces \ {end} : ~HoleAt(mem, p)}} = {b.at : b \in live}
        /\ FootersLead

(* A client has what it asked for to itself: its memory is inside the heap,*)
(* before the footer of its block, and on a page boundary if it asked for  *)
(* that (the aligned path of allocate).                                    *)
OwnMemory ==
    odd = "none" => \A b \in live :
        /\ b.at + b.size + Footer <= end
        /\ b.aligned => b.at % PageSize = 0
        /\ \A c \in live \ {b} :
              b.at + b.size + Footer <= c.at - Header \/ c.at + c.size + Footer <= b.at - Header

(* Every hole is in the index exactly once and nothing else is, however    *)
(* often holes were split, merged and moved to the end of the heap, so     *)
(* free memory is found again (ordered_array_insert, _remove).             *)
IndexComplete ==
    odd = "none" =>
        /\ {index[i] : i \in DOMAIN index} = {a \in Pieces \ {end} : HoleAt(mem, a)}
        /\ \A i, j \in DOMAIN index : i < j => index[i] # index[j]

=============================================================================
