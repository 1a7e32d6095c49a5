------------------------------- MODULE Opening -------------------------------
(***************************************************************************)
(* Opening a log: the two MdfFile::Create() of Library/Source.  Create     *)
(* looks behind the headers of what it is given for an encrypted and then  *)
(* for a compressed file, puts a stream that decodes it over each it       *)
(* finds, and loads the blocks from the last.  It ends with a file, with a *)
(* null pointer, or with the exception of whatever threw in load(), which  *)
(* only the filters are shielded from.  Then the file may be sorted and    *)
(* saved, as mdf2finalized does.                                           *)
(***************************************************************************)
EXTENDS FileSaving

CONSTANTS Inputs    \* what may be opened: each a source, see SourceOK, and the
                    \* blocks behind its layers, see DiskOK

(* A source is the outside of the file: whether it can be opened; its layers  *)
(* from the outside in, each "aes" or "hs", `valid' if the parameters in its  *)
(* header are, and `small' if one read decodes it to the end; the passwords   *)
(* given for its device and as a default; whether the tag matches, what the   *)
(* ID block is ("mdf", "other", or "short"), whether the metadata parse.      *)
Passwords == {"none", "empty", "wrong", "right"}
SourceOK(s) ==
    /\ s.open \in BOOLEAN
    /\ s.layers \in Seq([kind : {"aes", "hs"}, valid : BOOLEAN, small : BOOLEAN])
    /\ s.device \in Passwords /\ s.default \in Passwords
    /\ s.tag \in BOOLEAN /\ s.id \in {"mdf", "other", "short"}
    /\ s.metadata \in BOOLEAN

DiskOK(d) ==
    /\ IsFiniteSet(DOMAIN d)
    /\ \A a \in DOMAIN d :
        /\ a \in Nat \ {0} /\ d[a].type \in STRING
        /\ d[a].links \in Seq(Nat) /\ d[a].size \in Nat
        /\ d[a].read \in {"none", "header", "links", "all"}
        /\ d[a].records \in Nat /\ d[a].vlsd \in BOOLEAN
        /\ d[a].type = "DG" => Len(d[a].links) > 2

ASSUME InputsAssumption ==
    \A input \in Inputs : SourceOK(input.source) /\ DiskOK(input.disk)

VARIABLES
    source,     \* what is opened
    stage,      \* where Create() is
    peeled,     \* how many layers have a stream over them
    at,         \* where the topmost stream stands: at its "start" or "elsewhere"
    garbled,    \* whether it decodes with a key that is not the file's
    result      \* "none" yet, a "file", "null", an exception ("threw")

createVars == <<source, stage, peeled, at, garbled, result>>
vars == <<savingVars, createVars>>

End(r) == stage' = "done" /\ result' = r
Layer == source.layers[peeled + 1]

\* The topmost stream shows the header of such a layer.
Shows(kind) ==
    /\ ~garbled /\ at = "start"
    /\ peeled < Len(source.layers) /\ Layer.kind = kind

\* Reading a header takes the first block of the stream: where that is the
\* whole, the tag is checked, and does not match for another key.
Decrypting == peeled > 0 /\ source.layers[peeled].kind = "aes"
FirstReadThrows ==
    Decrypting /\ source.layers[peeled].small /\ (garbled \/ ~source.tag)

OpenFails ==
    /\ stage = "open" /\ ~source.open
    /\ End("null")
    /\ UNCHANGED <<savingVars, source, peeled, at, garbled>>

Open ==
    /\ stage = "open" /\ source.open
    /\ stage' = "aes"
    /\ UNCHANGED <<savingVars, source, peeled, at, garbled, result>>

-----------------------------------------------------------------------------
(* applyAESGCMFilter() and applyHeatshrinkFilter().                          *)

\* A filter that does not apply seeks back to where it started.
SeekBack == at' = "start"

\* Mutant of Password: the default comes first.
PasswordOfDefault ==
    IF source.default # "none" THEN source.default ELSE source.device

\* The password of the device goes before the default.
Password == IF source.device # "none" THEN source.device ELSE source.default

\* Without any password, whether the optional that holds none looks empty is
\* undefined; where it does not, taking its value throws.
NotEncrypted ==
    /\ stage = "aes"
    /\ Shows("aes") => Password \in {"none", "empty"}
    /\ SeekBack /\ stage' = "hs"
    /\ UNCHANGED <<savingVars, source, peeled, garbled, result>>

Encrypted ==
    /\ stage = "aes" /\ Shows("aes") /\ Layer.valid
    /\ Password \in {"right", "wrong"}
    /\ peeled' = peeled + 1 /\ garbled' = (Password = "wrong")
    /\ at' = "start" /\ stage' = "hs"
    /\ UNCHANGED <<savingVars, source, result>>

\* "catch(std::exception &e)" around both filters: no password at all, or
\* parameters that the cipher refuses.
FilterThrows ==
    /\ \/ /\ stage = "aes" /\ Shows("aes")
          /\ Password = "none" \/ (Password \in {"right", "wrong"} /\ ~Layer.valid)
       \/ stage = "hs" /\ FirstReadThrows
    /\ End("null")
    /\ UNCHANGED <<savingVars, source, peeled, at, garbled>>

NotCompressed ==
    /\ stage = "hs" /\ ~FirstReadThrows
    /\ ~(Shows("hs") /\ Layer.valid)
    /\ SeekBack /\ stage' = "id"
    /\ UNCHANGED <<savingVars, source, peeled, garbled, result>>

Compressed ==
    /\ stage = "hs" /\ ~FirstReadThrows /\ Shows("hs") /\ Layer.valid
    /\ peeled' = peeled + 1 /\ at' = "start" /\ stage' = "id"
    /\ UNCHANGED <<savingVars, source, garbled, result>>

-----------------------------------------------------------------------------
(* load().  Nothing catches what it throws.                                  *)

AllPeeled == peeled = Len(source.layers) /\ ~garbled

\* IDBlock::load(): the stream is put to its start first.
LoadID ==
    /\ stage = "id"
    /\ at' = "start"
    /\ \/ AllPeeled /\ source.id = "short" /\ End("threw")
       \/ AllPeeled /\ source.id = "mdf" /\ stage' = "blocks" /\ UNCHANGED result
       \/ (~AllPeeled \/ source.id = "other") /\ End("null")
    /\ UNCHANGED <<savingVars, source, peeled, garbled>>

\* "Load the HD block and all linked blocks."
LoadBlocks ==
    /\ stage = "blocks" /\ fate = "running"
    /\ LoaderStep
    /\ UNCHANGED <<packed, createVars>>

\* The read that reaches the end of an encrypted file checks its tag.
TagThrows ==
    /\ stage = "blocks" /\ fate = "running" /\ (want # 0 \/ MoreLinks)
    /\ Len(source.layers) > 0 /\ Head(source.layers).kind = "aes" /\ ~source.tag
    /\ fate' = "threw"
    /\ UNCHANGED <<disk, pos, stack, want, ret, blockMap, heap, out, packed, createVars>>

LoadThrows ==
    /\ stage = "blocks" /\ fate = "threw"
    /\ End("threw")
    /\ UNCHANGED <<savingVars, source, peeled, at, garbled>>

\* loadFileInfo() asks the header for its time; the block at 64 may be none.
HasHeader == HDAddress \in DOMAIN blockMap /\ heap[HD].type = "HD"

LoadInfo ==
    /\ stage = "blocks" /\ fate = "returned" /\ HasHeader
    /\ End(IF source.metadata THEN "file" ELSE "null")
    /\ UNCHANGED <<savingVars, source, peeled, at, garbled>>

LoadInfoCrashes ==
    /\ stage = "blocks" /\ fate = "returned" /\ ~HasHeader
    /\ fate' = "crashed"
    /\ UNCHANGED <<disk, pos, stack, want, ret, blockMap, heap, out, packed, createVars>>

Save ==
    /\ result = "file" /\ SavingStep
    /\ UNCHANGED createVars

-----------------------------------------------------------------------------
Init ==
    /\ \E input \in Inputs : source = input.source /\ disk = input.disk
    /\ stage = "open" /\ peeled = 0 /\ at = "start"
    /\ garbled = FALSE /\ result = "none"
    /\ pos = <<HDAddress, 1>> /\ stack = <<>>
    /\ want = HDAddress /\ ret = <<>> /\ blockMap = <<>> /\ heap = <<>>
    /\ out = <<>> /\ fate = "running" /\ packed = <<>>

Next ==
    \/ OpenFails \/ Open \/ NotEncrypted \/ Encrypted \/ FilterThrows
    \/ NotCompressed \/ Compressed \/ LoadID \/ LoadBlocks \/ TagThrows
    \/ LoadThrows \/ LoadInfo \/ LoadInfoCrashes \/ Save

Spec == Init /\ [][Next]_vars

-----------------------------------------------------------------------------
(***************************************************************************)
(* Properties.                                                             *)
(***************************************************************************)
Pointers == 0..Len(heap)

TypeOK ==
    /\ SourceOK(source) /\ DiskOK(disk)
    /\ stage \in {"open", "aes", "hs", "id", "blocks", "done"}
    /\ peeled \in 0..Len(source.layers) /\ garbled \in BOOLEAN
    /\ at \in {"start", "elsewhere"}
    /\ result \in {"none", "file", "null", "threw"}
    /\ fate \in {"running", "returned", "threw", "crashed"}
    /\ DOMAIN blockMap \subseteq DOMAIN disk /\ Range(blockMap) \subseteq Pointers
    /\ \A r \in DOMAIN heap : Range(heap[r].links) \subseteq Pointers
    /\ Len(stack) <= Depth /\ Range(packed) \subseteq DOMAIN heap

(* What can be opened, said of the file alone.                               *)

LinksFrom(a) ==
    IF a \in DOMAIN disk /\ disk[a].read \notin {"none", "header"}
    THEN Range(disk[a].links) \ {0} ELSE {}
OnDisk(from) == Closure(from, [a \in DOMAIN disk |-> LinksFrom(a)])
Acyclic == \A a \in OnDisk({HDAddress}) : a \notin OnDisk(LinksFrom(a))

IfGroup(links, i) ==
    {a \in DOMAIN disk : i <= Len(links) /\ links[i] = a /\ disk[a].type = "CG"}
GroupsOnDisk(a) ==
    Closure(IfGroup(disk[a].links, 2),
            [c \in DOMAIN disk |-> IfGroup(disk[c].links, 1)])

DataGroupFits(a) ==
    LET data == disk[a].links[3] IN
    GroupsOnDisk(a) # {} =>
        /\ data # 0 /\ disk[data].type = "DT"
        /\ Cardinality(GroupsOnDisk(a)) > 1 => disk[data].read = "all"

BlocksFit ==
    /\ HDAddress \in DOMAIN disk /\ disk[HDAddress].type = "HD" /\ Acyclic
    /\ \A a \in OnDisk({HDAddress}) :
        /\ a \in DOMAIN disk /\ disk[a].read # "none"
        /\ disk[a].links # <<>> => disk[a].read # "header"
        /\ disk[a].type = "DG" /\ disk[a].read = "all" => DataGroupFits(a)

Encrypts == source.layers # <<>> /\ Head(source.layers).kind = "aes"
LayersFit ==
    /\ [i \in DOMAIN source.layers |-> source.layers[i].kind] \in
          {<<>>, <<"aes">>, <<"hs">>, <<"aes", "hs">>}
    /\ \A i \in DOMAIN source.layers : source.layers[i].valid
    /\ Encrypts =>
        /\ \/ source.device = "right"
           \/ source.device = "none" /\ source.default = "right"
        /\ source.tag \/ ~Head(source.layers).small

Opens ==
    /\ source.open /\ LayersFit /\ source.id = "mdf" /\ source.metadata
    /\ BlocksFit

\* Create() gives a file exactly for a source that is one: encrypted, compressed
\* or both in that order, with the password of its device, or else the default,
\* and all blocks there.  Only one whose tag does not match may end either way.
OpensExactly ==
    /\ result = "file" => Opens
    /\ Opens /\ (result \in {"null", "threw"} \/ (fate = "crashed" /\ result = "none")) =>
        Encrypts /\ ~source.tag

\* A block that a data group replaces by a data block of its own is linked from
\* nowhere else: the format has no other use for it.
DataOf(d, b, a) == d[b].type = "DG" /\ d[b].links[3] = a /\ a # 0
DataOnce(d) ==
    \A a \in DOMAIN d, b \in DOMAIN d : \A i \in DOMAIN d[a].links :
        DataOf(d, b, d[a].links[i]) => a = b /\ i = 3

\* The header block takes whole words.
EvenHeader(d) == HDAddress \in DOMAIN d => d[HDAddress].size % 8 = 0

\* The stack has room for a call for each block.
RoomForAll(d) == Cardinality(DOMAIN d) <= Depth

\* The blocks loaded are those of the file, each once however many links lead to
\* it, linked as there, with the data blocks that data groups replaced in their
\* place; and the map that finalize() goes through names the same objects.
LoadedIsTheFile ==
    fate = "returned" /\ stage = "blocks" /\ HasHeader =>
        LET live == LinkedBlocks
            Cleared(r, i) ==
                /\ i = 3 /\ heap[r].type = "DG" /\ GroupsOf(heap, r) = <<>>
                /\ disk[heap[r].addr].read = "all"
        IN \A r \in live :
            LET block == disk[heap[r].addr] IN
            /\ heap[r].type = block.type
            /\ \A i \in DOMAIN block.links :
                LET to == heap[r].links[i] IN
                IF /\ block.links[i] # 0 /\ ~Cleared(r, i)
                   /\ disk[block.links[i]].type \in Known
                THEN to # 0 /\ heap[to].addr = block.links[i]
                ELSE to = 0
            /\ \A s \in live : heap[s].addr = heap[r].addr => s = r
            /\ blockMap[heap[r].addr] = r

\* What save() writes reads back as the blocks it had: the header at its place,
\* every linked block once and on a word boundary, each link the place of the
\* block it leads to, and no block written over by another behind it.
SavedFileReadsBack ==
    packed # <<>> /\ Len(out) = Len(packed) =>
        LET place == [i \in DOMAIN out |-> out[i].at]
            Of(r) == CHOOSE i \in DOMAIN out : out[i].ref = r
        IN /\ {out[i].ref : i \in DOMAIN out} = LinkedBlocks
           /\ IsInjective([i \in DOMAIN out |-> out[i].ref])
           /\ place[Of(HD)] = HDAddress
           /\ \A i \in DOMAIN out :
                LET block == heap[out[i].ref] IN
                /\ place[i] % 8 = 0
                /\ \A k \in DOMAIN block.links :
                    out[i].links[k] =
                        IF block.links[k] = 0 THEN 0 ELSE place[Of(block.links[k])]
                /\ \A j \in (i + 1)..Len(out) :
                    \/ place[i] + block.size <= place[j]
                    \/ place[j] + out[j].len <= place[i]

-----------------------------------------------------------------------------
(* What a comment of the code says of it, and it does not do.                *)

\* "Since only a single type of record is present, simply write all the
\* records": a data block is written with the data its header announces.
SavedHasRecords ==
    \A i \in DOMAIN out :
        heap[out[i].ref].type \in {"DT", "SD"} => out[i].len >= heap[out[i].ref].size
=============================================================================
