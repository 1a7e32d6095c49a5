------------------------------ MODULE FileSaving ------------------------------
(***************************************************************************)
(* From the blocks of a loaded log to a new file, the way mdf2finalized    *)
(* goes: sort() makes data blocks of one group out of those of several,    *)
(* and save() writes every block that is linked from the header.  The      *)
(* loops of sort() and what may throw in them are the subject of MdfFile;  *)
(* here are the objects it makes and what becomes of them in the file.     *)
(***************************************************************************)
EXTENDS BlockStorage

VARIABLES
    packed      \* getPackedBlockMap(): the blocks in the order of their new
                \* addresses; empty before save()

savingVars == <<storageVars, packed>>

HD == blockMap[HDAddress]
DataGroups == Chain(heap, Linked(heap, HD, 1), "DG")
DataKind(dg) ==
    IF Linked(heap, dg, 3) = 0 THEN "none" ELSE heap[Linked(heap, dg, 3)].kind

SumOf(cgs) ==
    LET upto[n \in 0..Len(cgs)] ==
            IF n = 0 THEN 0 ELSE upto[n - 1] + heap[cgs[n]].records
    IN upto[Len(cgs)]

\* A data block for some of the groups of a block: a copy, location and all,
\* with a header and an index of its own.
DataFor(dt, cgs) ==
    [heap[dt] EXCEPT
        !.kind = IF Len(cgs) = 1 THEN "disc" ELSE "subset",
        !.size = 24 + SumOf(cgs)]

\* getAllCNBlocks(): the channels of a group and the ones they are composed of.
Channels(cg) ==
    {r \in Reachable(heap, {Linked(heap, cg, 2)}, 1..2) : heap[r].type = "CN"}

\* sort_VLSDCGtoSD(): the group behind cg becomes an SD block of a channel of
\* cg.  Nobody sets the location of a block that is made here.
MoveVLSD(dg, i) ==
    LET cgs == GroupsOf(heap, dg)
        cg  == cgs[i]
        next == cgs[i + 1]
        left == RemoveAt(cgs, i + 1)
        dt   == Linked(heap, dg, 3)
    IN /\ heap[next].vlsd
       /\ \E cn \in Channels(cg), garbage \in Garbage :
           /\ Linked(heap, cn, 6) = next
           /\ heap' = [heap EXCEPT
                          ![cn].links[6] = Len(heap) + 1,
                          ![cg].links[1] = Linked(heap, next, 1),
                          ![dg].links[3] = Len(heap) + 2]
                \o <<[type |-> "SD", addr |-> 0, loc |-> garbage, links |-> <<>>,
                      size |-> 24 + heap[next].records, records |-> 0,
                      vlsd |-> FALSE, kind |-> "disc"],
                     DataFor(dt, left)>>

\* sort_CGtoDG(): the groups behind the first get a data group of their own.
\* Its constructor makes room for as many links as its header has bytes.
SplitGroup(dg) ==
    LET cgs == GroupsOf(heap, dg)
        dt  == Linked(heap, dg, 3)
        new == Len(heap) + 1
    IN \E garbage \in Garbage :
        heap' = [heap EXCEPT
                    ![cgs[1]].links[1] = 0,
                    ![dg].links[1] = new,
                    ![dg].links[3] = new + 1]
            \o <<[type |-> "DG", addr |-> 0, loc |-> garbage,
                  links |-> [i \in 1..64 |->
                               CASE i = 1 -> Linked(heap, dg, 1)
                                 [] i = 2 -> cgs[2]
                                 [] i = 3 -> new + 2
                                 [] OTHER -> 0],
                  size |-> 64, records |-> 0, vlsd |-> FALSE, kind |-> ""],
                 DataFor(dt, <<cgs[1]>>), DataFor(dt, Tail(cgs))>>

Movable(dg) ==
    {i \in 1..(Len(GroupsOf(heap, dg)) - 1) :
        /\ heap[GroupsOf(heap, dg)[i + 1]].vlsd
        /\ \E cn \in Channels(GroupsOf(heap, dg)[i]) :
            Linked(heap, cn, 6) = GroupsOf(heap, dg)[i + 1]}
Moving == \E dg \in Range(DataGroups) : Movable(dg) # {}
Splitting == {dg \in Range(DataGroups) : Len(GroupsOf(heap, dg)) > 1}
Empty == {dg \in Range(DataGroups) : GroupsOf(heap, dg) = <<>>}
Opened == fate = "returned" /\ packed = <<>>

IDs == {"multi", "subset"}

Sort ==
    /\ Opened
    /\ \A dg \in Splitting : DataKind(dg) \in IDs
    /\ \/ \E dg \in Range(DataGroups) : \E i \in Movable(dg) : MoveVLSD(dg, i)
       \/ ~Moving /\ \E dg \in Splitting : SplitGroup(dg)
    /\ UNCHANGED <<disk, pos, stack, want, ret, blockMap, out, fate, packed>>

\* A data group whose fields could not be read still has the block as loaded;
\* the pointer to it as an indexed one is null.  So is that to the first group
\* of a data group without any.
SortCrashes ==
    /\ Opened
    /\ (\E dg \in Splitting : DataKind(dg) \notin IDs) \/ (~Moving /\ Empty # {})
    /\ fate' = "crashed"
    /\ UNCHANGED <<disk, pos, stack, want, ret, blockMap, heap, out, packed>>

-----------------------------------------------------------------------------
(* save().                                                                   *)

\* MdfBlockSortingOrder: the header, then by location; blocks with the same
\* location, such as the parts of one data block, in the order of their memory.
Before(a, b, rising) ==
    IF heap[a].loc # heap[b].loc THEN heap[a].loc < heap[b].loc
    ELSE IF rising THEN a < b ELSE b < a
InOrder(rs, rising) ==
    [i \in 1..Cardinality(rs) |->
        CHOOSE r \in rs : Cardinality({s \in rs : Before(s, r, rising)}) = i - 1]

\* "Ensure boundaries between blocks are 64 bit aligned."
Aligned(n) == IF n % 8 = 0 THEN n ELSE n + (8 - (n % 8))

\* getLinkedBlocks() from the header.
LinkedBlocks == Reachable(heap, {HD}, Nat)

Address(order) ==
    LET at[n \in 1..Len(order)] ==
            IF n = 1 THEN HDAddress
            ELSE LET behind == at[n - 1] + heap[order[n - 1]].size IN
                 IF n = 2 THEN behind ELSE Aligned(behind)
    IN at

\* The packed map is made twice, the first time for a size nobody uses; then
\* every block gets its new location.
Pack ==
    /\ Opened /\ ~Moving /\ Splitting = {} /\ Empty = {}
    /\ \E rising \in BOOLEAN :
        LET order == <<HD>> \o InOrder(LinkedBlocks \ {HD}, rising)
            at == Address(order)
        IN /\ packed' = order
           /\ heap' = [r \in DOMAIN heap |->
                         IF r \in Range(order)
                         THEN [heap[r] EXCEPT !.loc = at[SelectInSeq(order, LAMBDA x : x = r)]]
                         ELSE heap[r]]
    /\ UNCHANGED <<disk, pos, stack, want, ret, blockMap, out, fate>>

\* saveBlockData(), and the header and links before it.  A text ends with one
\* more zero than was read; the continuous data blocks write no data ("TODO:
\* FIX").
WrittenLength(o) ==
    CASE o.type \in {"MD", "TX"} -> o.size + 1
      [] o.kind = "cont" -> 24
      [] o.type = "DG" -> 24 + 8 * Len(o.links) + 8
      [] OTHER -> o.size

Saving == fate = "returned" /\ packed # <<>> /\ Len(out) < Len(packed)
Current == heap[packed[Len(out) + 1]]

Written(r) ==
    [ref |-> r, at |-> heap[r].loc, len |-> WrittenLength(heap[r]),
     links |-> [i \in DOMAIN heap[r].links |->
                  IF heap[r].links[i] = 0 THEN 0 ELSE heap[heap[r].links[i]].loc]]

\* Mutant of WriteBlock: the blocks are written from the last to the first.
WriteBlockBackwards ==
    /\ Saving /\ Current.kind # "raw"
    /\ out' = Append(out, Written(packed[Len(packed) - Len(out)]))
    /\ UNCHANGED <<disk, pos, stack, want, ret, blockMap, heap, fate, packed>>

WriteBlock ==
    /\ Saving /\ Current.kind # "raw"
    /\ out' = Append(out, Written(packed[Len(out) + 1]))
    /\ UNCHANGED <<disk, pos, stack, want, ret, blockMap, heap, fate, packed>>

\* A data block that no data group has replaced: "This method should never be
\* called".
WriteThrows ==
    /\ Saving /\ Current.kind = "raw"
    /\ fate' = "threw"
    /\ UNCHANGED <<disk, pos, stack, want, ret, blockMap, heap, out, packed>>

SavingStep == Sort \/ SortCrashes \/ Pack \/ WriteBlock \/ WriteThrows
=============================================================================
