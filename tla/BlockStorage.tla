----------------------------- MODULE BlockStorage -----------------------------
(***************************************************************************)
(* The blocks of a log: how getBlockAt() reads them, by recursion along    *)
(* their links over one stream, into objects that share what the file      *)
(* shares; and how save() packs what is linked from the header and writes  *)
(* it block by block.  One link or one block is a step.  What load() of a  *)
(* block does with its fields is left out, but for the data group's, which *)
(* replaces its data block.                                                *)
(*                                                                         *)
(* A pointer is a position in `heap', 0 the null pointer.                  *)
(***************************************************************************)
EXTENDS Integers, SequencesExt, FiniteSetsExt, Functions

CONSTANTS
    Depth,      \* the recursion the stack has room for
    Garbage     \* what an uninitialised file location may hold

ASSUME DepthAssumption == Depth \in Nat
ASSUME GarbageAssumption == Garbage \subseteq Nat /\ Garbage # {}

(* A file maps the addresses of its blocks to them: their type, links and    *)
(* size in bytes as in the block header; how much of the block can be read   *)
(* ("none", its "header", header and "links", or "all" of it); `records',    *)
(* the bytes a CG block's records take, and `vlsd', whether it is one of     *)
(* variable-length data.                                                     *)
VARIABLES
    disk,       \* the file that is loaded
    pos,        \* where its stream stands: a block, and a link of it, or
                \* the data behind its links
    stack,      \* the calls of getBlockAt() that are running
    want,       \* the address the innermost is about to be called for, or 0
    ret,        \* what a call has just returned, in a sequence of at most one
    blockMap,   \* the blocks loaded, by address
    heap,       \* every block object made
    out,        \* what save() has written, in the order it was written
    fate        \* "running", "returned", "threw", or "crashed"

storageVars == <<disk, pos, stack, want, ret, blockMap, heap, out, fate>>
HDAddress == 64

Known == {"HD", "FH", "DG", "CG", "CN", "CC", "SI", "MD", "TX", "DT", "SD"}

-----------------------------------------------------------------------------
(* Objects.  `addr' is where a block was read, 0 if sorting made it; `loc'   *)
(* is fileLocation; `kind' tells the classes of data blocks apart.           *)

Linked(h, r, i) == IF r = 0 \/ i > Len(h[r].links) THEN 0 ELSE h[r].links[i]

\* dynamic_pointer_cast along a chain of links: next blocks of the same type.
Chain(h, first, type) ==
    LET As(r) == IF r \in DOMAIN h /\ h[r].type = type THEN r ELSE 0
        nth[n \in 0..Len(h)] ==
            IF n = 0 THEN As(first) ELSE As(Linked(h, nth[n - 1], 1))
        length == Cardinality({n \in 0..Len(h) : nth[n] # 0})
    IN [n \in 1..length |-> nth[n - 1]]

GroupsOf(h, dg) == Chain(h, Linked(h, dg, 2), "CG")
IsData(h, r) == r # 0 /\ h[r].type = "DT"

\* Everything that one gets to from some elements, where `to' says what each
\* element of its domain leads to.
Closure(from, to) ==
    LET step(S) == S \cup UNION {to[a] : a \in S \cap DOMAIN to}
        size == Cardinality(DOMAIN to)
        upto[n \in 0..size] == IF n = 0 THEN from ELSE step(upto[n - 1])
    IN upto[size]

\* The blocks that these slots lead to, from block to block.
LinksIn(o, slots) == {o.links[i] : i \in DOMAIN o.links \cap slots}
Reachable(h, roots, slots) ==
    Closure(roots, [r \in DOMAIN h |-> LinksIn(h[r], slots)]) \ {0}

-----------------------------------------------------------------------------
(* getBlockAt().                                                             *)

Top == stack[Len(stack)]
InTop(f) == [stack EXCEPT ![Len(stack)] = f]
Calling == fate = "running" /\ want = 0 /\ ret = <<>> /\ stack # <<>>

\* "Is this block already loaded."
FindLoaded ==
    /\ fate = "running" /\ want \in DOMAIN blockMap
    /\ ret' = <<blockMap[want]>> /\ want' = 0
    /\ UNCHANGED <<disk, pos, stack, blockMap, heap, out, fate>>

Missing == fate = "running" /\ want \notin DOMAIN blockMap \cup {0}
HeaderReadable == want \in DOMAIN disk /\ disk[want].read # "none"

\* The header is read and the call starts; each level takes some of the stack.
ReadHeader ==
    /\ Missing /\ HeaderReadable /\ Len(stack) < Depth
    /\ stack' = Append(stack, [addr |-> want, links |-> <<>>, back |-> <<>>])
    /\ pos' = <<want, 1>> /\ want' = 0
    /\ UNCHANGED <<disk, ret, blockMap, heap, out, fate>>

HeaderThrows ==
    /\ Missing /\ ~HeaderReadable
    /\ fate' = "threw"
    /\ UNCHANGED <<disk, pos, stack, want, ret, blockMap, heap, out>>

StackOverflows ==
    /\ Missing /\ HeaderReadable /\ Len(stack) = Depth
    /\ fate' = "crashed"
    /\ UNCHANGED <<disk, pos, stack, want, ret, blockMap, heap, out>>

MoreLinks == Calling /\ Len(Top.links) < Len(disk[Top.addr].links)
LinksReadable == disk[Top.addr].read # "header"
\* The eight bytes the stream stands at, and the place behind them.
LinkHere == IF pos[2] > Len(disk[pos[1]].links) THEN 0 ELSE disk[pos[1]].links[pos[2]]
Behind == <<pos[1], pos[2] + 1>>

LinkThrows ==
    /\ MoreLinks /\ ~LinksReadable
    /\ fate' = "threw"
    /\ UNCHANGED <<disk, pos, stack, want, ret, blockMap, heap, out>>

\* "Skip unset links."
SkipLink ==
    /\ MoreLinks /\ LinksReadable /\ LinkHere = 0
    /\ stack' = InTop([Top EXCEPT !.links = Append(@, 0)])
    /\ pos' = Behind
    /\ UNCHANGED <<disk, want, ret, blockMap, heap, out, fate>>

\* "Recursive loading. Since this seeks to a new position, store the current
\* location."
FollowLink ==
    /\ MoreLinks /\ LinksReadable /\ LinkHere # 0
    /\ want' = LinkHere
    /\ stack' = InTop([Top EXCEPT !.back = Behind])
    /\ pos' = Behind
    /\ UNCHANGED <<disk, ret, blockMap, heap, out, fate>>

\* Mutant of LinkLoaded: the stream stays where the inner call left it.
LinkLoadedThere ==
    /\ fate = "running" /\ ret # <<>> /\ stack # <<>>
    /\ stack' = InTop([Top EXCEPT !.links = Append(@, ret[1])])
    /\ ret' = <<>>
    /\ UNCHANGED <<disk, pos, want, blockMap, heap, out, fate>>

LinkLoaded ==
    /\ fate = "running" /\ ret # <<>> /\ stack # <<>>
    /\ stack' = InTop([Top EXCEPT !.links = Append(@, ret[1])])
    /\ pos' = Top.back /\ ret' = <<>>
    /\ UNCHANGED <<disk, want, blockMap, heap, out, fate>>

LinksDone == Calling /\ Len(Top.links) = Len(disk[Top.addr].links)
Return(r) == ret' = <<r>> /\ stack' = Front(stack)

\* createBlock() makes an object of each type it knows; its location is where
\* the stream stands then, behind the links.
Created(a, links) ==
    [type |-> disk[a].type, addr |-> a, loc |-> a + 24 + 8 * Len(links),
     links |-> links, size |-> disk[a].size, records |-> disk[a].records,
     vlsd |-> disk[a].vlsd,
     kind |-> CASE disk[a].type = "DT" -> "raw" [] disk[a].type = "SD" -> "cont"
                [] OTHER -> ""]

\* A block of a type createBlock() does not know is null, and not stored.
MakeNothing ==
    /\ LinksDone /\ disk[Top.addr].type \notin Known
    /\ Return(0)
    /\ UNCHANGED <<disk, pos, want, blockMap, heap, out, fate>>

Loads == disk[Top.addr].type = "DG" /\ disk[Top.addr].read = "all"

\* A block is inserted under its address, unless there is one.
Stored(bm, a, r) ==
    [x \in DOMAIN bm \cup {a} |-> IF x \in DOMAIN bm THEN bm[x] ELSE r]

MakeBlock ==
    /\ LinksDone /\ disk[Top.addr].type \in Known /\ ~Loads
    /\ heap' = Append(heap, Created(Top.addr, Top.links))
    /\ blockMap' = Stored(blockMap, Top.addr, Len(heap) + 1)
    /\ Return(Len(heap) + 1)
    /\ UNCHANGED <<disk, pos, want, out, fate>>

\* DGBlock::load(): the data block of several groups is indexed, that of one
\* is not; with no group at all the pointer is cleared.
Groups == Chain(heap, Top.links[2], "CG")
HasData == IsData(heap, Top.links[3])
NewData == IF Groups = <<>> THEN 0 ELSE Len(heap) + 1
Replacement ==
    [heap[Top.links[3]] EXCEPT !.kind = IF Len(Groups) > 1 THEN "multi" ELSE "cont"]
\* The data ends where index() still wants an ID or a length.
CutInside == disk[heap[Top.links[3]].addr].read # "all"

\* Without a data block, or with one of a type createBlock() does not know, the
\* null pointer is followed.
NoDataCrashes ==
    /\ LinksDone /\ Loads /\ Groups # <<>> /\ ~HasData
    /\ fate' = "crashed"
    /\ UNCHANGED <<disk, pos, stack, want, ret, blockMap, heap, out>>

IndexThrows ==
    /\ LinksDone /\ Loads /\ Len(Groups) > 1 /\ HasData /\ CutInside
    /\ fate' = "threw"
    /\ UNCHANGED <<disk, pos, stack, want, ret, blockMap, heap, out>>

\* "A block has been replaced. Find the old block in the list and replace it."
\* The map holds each block once: a null pointer that is there already stays.
Replaced(bm, old, new) ==
    IF old = new \/ new \in Range(bm) THEN bm
    ELSE [a \in DOMAIN bm |-> IF bm[a] = old THEN new ELSE bm[a]]

MakeDataGroup ==
    /\ LinksDone /\ Loads /\ (Groups # <<>> => HasData)
    /\ ~(Len(Groups) > 1 /\ CutInside)
    /\ LET made == IF Groups = <<>> THEN <<>> ELSE <<Replacement>>
           dg   == Created(Top.addr, [Top.links EXCEPT ![3] = NewData])
           r    == Len(heap) + Len(made) + 1
       IN /\ heap' = heap \o made \o <<dg>>
          /\ blockMap' = Stored(Replaced(blockMap, Top.links[3], NewData), Top.addr, r)
          /\ Return(r)
    /\ UNCHANGED <<disk, pos, want, out, fate>>

\* The outermost call returns to MdfFileImplementation::load().
Loaded ==
    /\ fate = "running" /\ ret # <<>> /\ stack = <<>>
    /\ fate' = "returned"
    /\ UNCHANGED <<disk, pos, stack, want, ret, blockMap, heap, out>>

LoaderStep ==
    \/ FindLoaded \/ ReadHeader \/ HeaderThrows \/ StackOverflows
    \/ LinkThrows \/ SkipLink \/ FollowLink \/ LinkLoaded
    \/ MakeNothing \/ MakeBlock \/ NoDataCrashes \/ IndexThrows \/ MakeDataGroup
    \/ Loaded
=============================================================================
