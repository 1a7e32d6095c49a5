--------------------------- MODULE Converter_proofs ---------------------------
(***************************************************************************)
(* Proofs about Converter, for batches of any size and kind.               *)
(***************************************************************************)
EXTENDS Converter, TLAPS

Working == stage \notin {"idle", "done", "killed"}

\* No two files of a batch have the same stem and output folder: the names of
\* the outputs are the user's.
DistinctOutputs ==
    \A B \in Batches : \A f, g \in B : f.output = g.output => f = g

\* What keeps an input safe before its turn, at its turn and after it.
Safe ==
    /\ pending \subseteq originals
    /\ Working => current \in originals
    /\ tool = "exporter" =>
        /\ \A f \in batch \ originals : Converted(f)
        /\ stage \in {"converted", "judge"} /\ stepStatus => Converted(current)

Inv == TypeOK /\ Safe

LEMMA TypeInit == Init => TypeOK
<1> SUFFICES ASSUME Init PROVE TypeOK
  OBVIOUS
<1> QED
  BY DEF Init, TypeOK, Names

TemporaryFiles ==
    [of : {f.path : f \in batch}, layer : Layers, what : {"folder", "file"}]

LEMMA TemporaryTypes ==
    ASSUME NEW f \in batch, NEW layer \in Layers
    PROVE  Folder(f, layer) \in TemporaryFiles /\ Content(f, layer) \in TemporaryFiles
  BY DEF Folder, Content, TemporaryFiles

LEMMA TypeNext == TypeOK /\ [Next]_vars => TypeOK'
<1> SUFFICES ASSUME TypeOK, [Next]_vars PROVE TypeOK'
  OBVIOUS
<1> USE DEF TypeOK, optionVars, diskVars, Names, Flag, Leave
<1>1. ASSUME NEW f \in pending, Take(f) PROVE TypeOK'
  BY <1>1 DEF Take
<1>2. CASE FolderFails
  BY <1>2 DEF FolderFails
<1>3. CASE Finish
  BY <1>3 DEF Finish
<1>4. CASE NoPasswords
  BY <1>4 DEF NoPasswords
<1>5. CASE UnreadablePasswords
  BY <1>5 DEF UnreadablePasswords
<1>6. CASE Decrypt
  <2>1. current \in batch /\ "encrypted" \in Layers
    BY <1>6 DEF Decrypt, Layers
  <2>2. current.opens \in BOOLEAN
    BY <2>1, ConverterAssumption DEF File
  <2>3. temporaries' \subseteq TemporaryFiles
    BY <1>6, <2>1, TemporaryTypes DEF Decrypt, TemporaryFiles
  <2> QED
    BY <1>6, <2>1, <2>2, <2>3 DEF Decrypt, TemporaryFiles
<1>7. CASE DecryptionFails
  BY <1>7 DEF DecryptionFails
<1>8. CASE ToDecompression
  BY <1>8 DEF ToDecompression
<1>9. CASE Decompress
  <2>1. current \in batch /\ "compressed" \in Layers
    BY <1>9 DEF Decompress, Layers
  <2>2. current.unpacks \in BOOLEAN
    BY <2>1, ConverterAssumption DEF File
  <2>3. temporaries' \subseteq TemporaryFiles
    BY <1>9, <2>1, TemporaryTypes DEF Decompress, TemporaryFiles
  <2> QED
    BY <1>9, <2>1, <2>2, <2>3 DEF Decompress, TemporaryFiles
<1>10. CASE DecompressionFails
  BY <1>10 DEF DecompressionFails
<1>11. CASE ToConversion
  BY <1>11 DEF ToConversion
<1>12. CASE Convert
  BY <1>12 DEF Convert, Returned
<1>13. CASE RemoveTemporary
  BY <1>13 DEF RemoveTemporary
<1>14. CASE ConversionFails
  BY <1>14 DEF ConversionFails
<1>15. CASE ConversionSucceeds
  BY <1>15 DEF ConversionSucceeds
<1>16. CASE Terminate
  BY <1>16 DEF Terminate
<1>17. CASE UNCHANGED vars
  BY <1>17 DEF vars
<1> QED
  BY <1>1, <1>2, <1>3, <1>4, <1>5, <1>6, <1>7, <1>8, <1>9, <1>10, <1>11, <1>12,
     <1>13, <1>14, <1>15, <1>16, <1>17 DEF Next, MainStep

\* What the exporters leave of a file is theirs alone: writing the output of one
\* leaves the conversion of another.
LEMMA OutputsApart ==
    ASSUME DistinctOutputs, TypeOK, NEW f \in batch, NEW g \in batch, f # g,
           NEW h, outputs' = [outputs EXCEPT ![g.output] = h], Converted(f),
           UNCHANGED batch
    PROVE  Converted(f)'
<1>1. f.output # g.output
  BY DEF DistinctOutputs, TypeOK
<1>2. f.output \in DOMAIN outputs
  BY DEF TypeOK, Names
<1> QED
  BY <1>1, <1>2 DEF Converted

\* A step that touches neither the inputs nor the outputs, goes on with the same
\* file or leaves it, and has nothing converted yet keeps every input safe.
LEMMA QuietSteps ==
    ASSUME Inv, UNCHANGED <<batch, tool, originals, outputs, pending>>,
           Working' => Working /\ current' = current,
           ~(stage' \in {"converted", "judge"} /\ stepStatus')
    PROVE  Safe'
  BY DEF Inv, Safe, Working, Converted

LEMMA SafeInit == Init => Safe
  BY DEF Init, Safe, Working

LEMMA SafeNext == DistinctOutputs /\ Inv /\ [Next]_vars => Safe'
<1> SUFFICES ASSUME DistinctOutputs, Inv, [Next]_vars PROVE Safe'
  OBVIOUS
<1> USE DEF optionVars, diskVars, Flag, Leave
<1>1. ASSUME NEW f \in pending, Take(f) PROVE Safe'
  BY <1>1 DEF Take, Inv, Safe, Working, Converted
<1>2. CASE FolderFails
  BY <1>2, QuietSteps DEF FolderFails, Working
<1>3. CASE Finish
  BY <1>3, QuietSteps DEF Finish, Working
<1>4. CASE NoPasswords
  BY <1>4, QuietSteps DEF NoPasswords, Working
<1>5. CASE UnreadablePasswords
  BY <1>5, QuietSteps DEF UnreadablePasswords, Working
<1>6. CASE Decrypt
  BY <1>6, QuietSteps DEF Decrypt, Working
<1>7. CASE DecryptionFails
  BY <1>7, QuietSteps DEF DecryptionFails, Working
<1>8. CASE ToDecompression
  BY <1>8, QuietSteps DEF ToDecompression, Working
<1>9. CASE Decompress
  BY <1>9, QuietSteps DEF Decompress, Working
<1>10. CASE DecompressionFails
  BY <1>10, QuietSteps DEF DecompressionFails, Working
<1>11. CASE ToConversion
  BY <1>11, QuietSteps DEF ToConversion, Working
<1>12. CASE Convert
  <2>1. current \in batch /\ current \in originals
    BY <1>12 DEF Convert, Inv, TypeOK, Safe, Working
  <2>2. ASSUME tool = "exporter" PROVE \A f \in batch \ originals : Converted(f)'
    <3> SUFFICES ASSUME NEW f \in batch \ originals PROVE Converted(f)'
      OBVIOUS
    <3>1. Converted(f) /\ f # current
      BY <2>1, <2>2 DEF Inv, Safe
    <3>2. CASE UNCHANGED outputs
      BY <3>1, <3>2 DEF Converted
    <3>3. CASE outputs' = [outputs EXCEPT ![current.output] = current]
      BY <1>12, <2>1, <3>1, <3>3, OutputsApart DEF Convert, Inv
    <3>4. CASE outputs' = [outputs EXCEPT ![current.output] = NoFile]
      BY <1>12, <2>1, <3>1, <3>4, OutputsApart DEF Convert, Inv
    <3> QED
      BY <1>12, <3>2, <3>3, <3>4 DEF Convert
  <2>3. ASSUME tool = "exporter", stepStatus' PROVE Converted(current)'
    <3>1. current.decodes = "yes"
      BY <1>12, <2>3 DEF Convert, Returned
    <3>2. outputs' = [outputs EXCEPT ![current.output] = current]
      BY <1>12, <3>1 DEF Convert
    <3>3. current.output \in DOMAIN outputs
      BY <2>1 DEF Inv, TypeOK, Names
    <3> QED
      BY <1>12, <3>2, <3>3 DEF Convert, Converted
  <2> QED
    BY <1>12, <2>1, <2>2, <2>3 DEF Convert, Inv, Safe, Working, Converted
<1>13. CASE RemoveTemporary
  BY <1>13 DEF RemoveTemporary, Inv, Safe, Working, Converted
<1>14. CASE ConversionFails
  BY <1>14, QuietSteps DEF ConversionFails, Working
<1>15. CASE ConversionSucceeds
  <2>1. tool = "exporter" => Converted(current)
    BY <1>15 DEF ConversionSucceeds, Inv, Safe
  <2>2. originals' \in {originals, originals \ {current}}
    BY <1>15 DEF ConversionSucceeds
  <2>3. current \notin pending
    BY <1>15 DEF ConversionSucceeds, Inv, TypeOK
  <2> QED
    BY <1>15, <2>1, <2>2, <2>3
    DEF ConversionSucceeds, Inv, Safe, Working, Converted
<1>16. CASE Terminate
  <2>1. CASE UNCHANGED outputs
    BY <1>16, <2>1 DEF Terminate, Inv, Safe, Working, Converted
  <2>2. CASE stage = "convert" /\ outputs' = [outputs EXCEPT ![current.output] = NoFile]
    <3>1. current \in batch /\ current \in originals
      BY <2>2 DEF Inv, TypeOK, Safe, Working
    <3>2. ASSUME tool = "exporter", NEW f \in batch \ originals PROVE Converted(f)'
      <4>1. Converted(f) /\ f # current
        BY <3>1, <3>2 DEF Inv, Safe
      <4> QED
        BY <1>16, <2>2, <3>1, <4>1, OutputsApart DEF Terminate, Inv
    <3> QED
      BY <1>16, <2>2, <3>2 DEF Terminate, Inv, Safe, Working, Converted
  <2> QED
    BY <1>16, <2>1, <2>2 DEF Terminate
<1>17. CASE UNCHANGED vars
  BY <1>17 DEF vars, Inv, Safe, Working, Converted
<1> QED
  BY <1>1, <1>2, <1>3, <1>4, <1>5, <1>6, <1>7, <1>8, <1>9, <1>10, <1>11, <1>12,
     <1>13, <1>14, <1>15, <1>16, <1>17 DEF Next, MainStep

\* The state of the loop is what it is said to be for every batch.
THEOREM TypeCorrect == Spec => []TypeOK
<1> QED
  BY TypeInit, TypeNext, PTL DEF Spec

\* When the outputs of a batch have names of their own, an exporter that deletes
\* its inputs never loses one: a file that is gone has been converted, whole,
\* and the conversion is still there, at whatever point the process ends.
THEOREM InputsAreSafe ==
    ASSUME DistinctOutputs
    PROVE  Spec => []ExportersKeepInputs
<1>1. Init => Inv
  BY TypeInit, SafeInit DEF Inv
<1>2. Inv /\ [Next]_vars => Inv'
  BY TypeNext, SafeNext DEF Inv
<1>3. Inv => ExportersKeepInputs
  BY DEF Inv, Safe, ExportersKeepInputs, InputsDeletedOnSuccess
<1> QED
  BY <1>1, <1>2, <1>3, PTL DEF Spec

-----------------------------------------------------------------------------
(* The temporary folder.  At each stage what is in it, but for what may stay, *)
(* are the files of the step under way.                                      *)

MayStay(t) ==
    /\ t.what = "folder" /\ t.layer = "compressed"
    /\ \E f \in batch : f.path = t.of /\ ~f.unpacks

NothingBut(S) == \A t \in temporaries : MayStay(t) \/ t \in S

Clean ==
    /\ stage \in {"idle", "done", "decrypt", "judge"} => NothingBut({})
    /\ stage \in {"decrypted", "decompress"} => NothingBut(Both("encrypted"))
    /\ stage = "decompressed" =>
           NothingBut(IF stepStatus THEN Both("compressed") ELSE {})
    /\ stage \in {"convert", "converted"} =>
           NothingBut(Both("encrypted") \cup Both("compressed"))

LEMMA CleanInit == Init => Clean
  BY DEF Init, Clean, NothingBut

LEMMA CleanNext == TypeOK /\ Clean /\ [Next]_vars => Clean'
<1> SUFFICES ASSUME TypeOK, Clean, [Next]_vars PROVE Clean'
  OBVIOUS
<1> USE DEF optionVars, diskVars, Flag, Leave
<1>1. ASSUME NEW f \in pending, Take(f) PROVE Clean'
  BY <1>1 DEF Take, Clean, NothingBut, MayStay
<1>2. CASE FolderFails
  BY <1>2 DEF FolderFails, Clean, NothingBut, MayStay
<1>3. CASE Finish
  BY <1>3 DEF Finish, Clean, NothingBut, MayStay
<1>4. CASE NoPasswords
  BY <1>4 DEF NoPasswords, Clean, NothingBut, MayStay
<1>5. CASE UnreadablePasswords
  BY <1>5 DEF UnreadablePasswords, Clean, NothingBut, MayStay
<1>6. CASE Decrypt
  BY <1>6 DEF Decrypt, Clean, NothingBut, MayStay, Both
<1>7. CASE DecryptionFails
  BY <1>7 DEF DecryptionFails, Clean, NothingBut, MayStay, Both
<1>8. CASE ToDecompression
  BY <1>8 DEF ToDecompression, Clean, NothingBut, MayStay, Both
<1>9. CASE Decompress
  <2>1. current \in batch /\ stage' = "decompressed" /\ stepStatus' = current.unpacks
        /\ UNCHANGED <<batch, current>> /\ stage = "decompress"
    BY <1>9 DEF Decompress, TypeOK
  <2>2. \A t \in temporaries : MayStay(t) \/ t \in Both("encrypted")
    BY <2>1 DEF Clean, NothingBut
  <2>3. CASE current.unpacks
    <3>1. \A t \in temporaries' : MayStay(t) \/ t \in Both("compressed")
      BY <1>9, <2>2, <2>3 DEF Decompress, Both
    <3> QED
      BY <2>1, <2>3, <3>1 DEF Clean, NothingBut, MayStay, Both, Folder, Content
  <2>4. CASE ~current.unpacks
    <3>1. MayStay(Folder(current, "compressed"))
      BY <2>1, <2>4 DEF MayStay, Folder
    <3>2. \A t \in temporaries' : MayStay(t)
      BY <1>9, <2>2, <2>4, <3>1 DEF Decompress
    <3> QED
      BY <2>1, <2>4, <3>2 DEF Clean, NothingBut, MayStay
  <2> QED
    BY <2>3, <2>4
<1>10. CASE DecompressionFails
  BY <1>10 DEF DecompressionFails, Clean, NothingBut, MayStay
<1>11. CASE ToConversion
  BY <1>11 DEF ToConversion, Clean, NothingBut, MayStay, Both, Folder, Content
<1>12. CASE Convert
  BY <1>12 DEF Convert, Clean, NothingBut, MayStay, Both, Folder, Content
<1>13. CASE RemoveTemporary
  BY <1>13 DEF RemoveTemporary, Clean, NothingBut, MayStay
<1>14. CASE ConversionFails
  BY <1>14 DEF ConversionFails, Clean, NothingBut, MayStay
<1>15. CASE ConversionSucceeds
  BY <1>15 DEF ConversionSucceeds, Clean, NothingBut, MayStay
<1>16. CASE Terminate
  BY <1>16 DEF Terminate, Clean
<1>17. CASE UNCHANGED vars
  BY <1>17 DEF vars, Clean, NothingBut, MayStay, Both, Folder, Content
<1> QED
  BY <1>1, <1>2, <1>3, <1>4, <1>5, <1>6, <1>7, <1>8, <1>9, <1>10, <1>11, <1>12,
     <1>13, <1>14, <1>15, <1>16, <1>17 DEF Next, MainStep

\* Between two files, and when main() has returned, nothing that was decrypted
\* or unpacked is in the temporary folder, for every batch and way through it.
THEOREM TemporariesAreRemoved == Spec => []TemporariesRemoved
<1>1. Clean => TemporariesRemoved
  BY DEF Clean, NothingBut, MayStay, TemporariesRemoved
<1> QED
  BY <1>1, TypeInit, TypeNext, CleanInit, CleanNext, PTL DEF Spec

-----------------------------------------------------------------------------
(* The exit code: the flags set so far are those of the files behind the     *)
(* loop, and how far the current file has come is what it is.                *)

Behind == batch \ (pending \cup IF Working THEN {current} ELSE {})

NotOpened(f) == ~Opened(f) /\ ~UnreadableFolder(f)
NotUnpacked(f) == Opened(f) /\ ~Unpacked(f)
NotDecoded(f) == Unpacked(f) /\ ~Returned(f)

Flags(files, status) ==
    /\ "DecryptionError" \in status <=> \E f \in files : NotOpened(f)
    /\ "DecompressionError" \in status <=> \E f \in files : NotUnpacked(f)
    /\ "DecodingError" \in status <=> \E f \in files : NotDecoded(f)

Progress ==
    /\ stage = "decrypted" => Encrypted /\ HasPasswords /\ (stepStatus <=> current.opens)
    /\ stage \in {"decompress", "decompressed"} => Opened(current)
    /\ stage = "decompressed" => Compressed /\ (stepStatus <=> current.unpacks)
    /\ stage \in {"convert", "converted", "judge"} => Unpacked(current)
    /\ stage \in {"converted", "judge"} => (stepStatus <=> Returned(current))

Regular == stage # "killed" /\ "CriticalError" \notin mainStatus

Ledger ==
    Regular =>
        /\ Progress /\ Flags(Behind, mainStatus)
        /\ stage = "done" => pending = {}

LEMMA LedgerInit == Init => Ledger
  BY DEF Init, Ledger, Progress, Flags, Behind, Working

\* A step within a file.
LEMMA Within ==
    ASSUME Regular' => Regular, Ledger, UNCHANGED <<batch, tool, passwordStorage, mainStatus>>,
           Behind' = Behind, Regular' => Progress', stage' # "done"
    PROVE  Ledger'
<1>1. Regular' => Flags(Behind, mainStatus)
  BY DEF Ledger
<1>2. Regular' => Flags(Behind, mainStatus)'
  BY <1>1 DEF Flags, NotOpened, NotUnpacked, NotDecoded, Opened, UnreadableFolder,
              Unpacked, Returned
<1> QED
  BY <1>2 DEF Ledger

\* A file is left with the flag of the step it failed in.
LEMMA Leaves ==
    ASSUME TypeOK, Ledger, Working, stage' = "idle", NEW flags,
           mainStatus' = mainStatus \cup flags,
           UNCHANGED <<batch, tool, passwordStorage, pending>>,
           "DecryptionError" \in flags <=> NotOpened(current),
           "DecompressionError" \in flags <=> NotUnpacked(current),
           "DecodingError" \in flags <=> NotDecoded(current)
    PROVE  Ledger'
<1>1. current \in batch /\ Behind' = Behind \cup {current}
  BY DEF TypeOK, Working, Behind
<1>2. Regular' => Regular
  BY DEF Regular, Working
<1>3. Regular' => Flags(Behind', mainStatus')
  BY <1>1, <1>2 DEF Ledger, Flags
<1>4. Regular' => Flags(Behind, mainStatus)'
  BY <1>3 DEF Flags, NotOpened, NotUnpacked, NotDecoded, Opened, UnreadableFolder,
              Unpacked, Returned
<1>5. Progress'
  BY DEF Progress
<1> QED
  BY <1>4, <1>5 DEF Ledger

LEMMA LedgerNext == TypeOK /\ Ledger /\ [Next]_vars => Ledger'
<1> SUFFICES ASSUME TypeOK, Ledger, [Next]_vars PROVE Ledger'
  OBVIOUS
<1> USE DEF optionVars, diskVars, Flag, Leave
<1>1. ASSUME NEW f \in pending, Take(f) PROVE Ledger'
  <2>1. stage = "idle" /\ stage' = "decrypt" /\ f \in batch /\ current' = f
        /\ pending' = pending \ {f}
        /\ UNCHANGED <<batch, tool, passwordStorage, mainStatus>>
    BY <1>1 DEF Take, TypeOK
  <2>2. Behind' = Behind
    BY <2>1 DEF Behind, Working
  <2> QED
    BY <2>1, <2>2, Within DEF Regular, Progress
<1>2. CASE FolderFails
  BY <1>2 DEF FolderFails, Ledger, Regular
<1>3. CASE Finish
  <2>1. stage = "idle" /\ stage' = "done" /\ pending' = {} /\ pending = {}
        /\ UNCHANGED <<batch, tool, passwordStorage, mainStatus>>
    BY <1>3 DEF Finish
  <2>2. Behind' = Behind
    BY <2>1 DEF Behind, Working
  <2>3. Regular' => Flags(Behind, mainStatus)
    BY <2>1 DEF Ledger, Regular
  <2>4. Regular' => Flags(Behind, mainStatus)'
    BY <2>1, <2>2, <2>3 DEF Flags, NotOpened, NotUnpacked, NotDecoded, Opened,
                            UnreadableFolder, Unpacked, Returned
  <2> QED
    BY <2>1, <2>4 DEF Ledger, Progress
<1>4. CASE NoPasswords
  <2>1. NotOpened(current) /\ ~NotUnpacked(current) /\ ~NotDecoded(current)
    BY <1>4 DEF NoPasswords, NotOpened, NotUnpacked, NotDecoded, Opened, Unpacked,
                Encrypted, UnreadableFolder
  <2> QED
    BY <1>4, <2>1, Leaves DEF NoPasswords, Working
<1>5. CASE UnreadablePasswords
  <2>1. ~NotOpened(current) /\ ~NotUnpacked(current) /\ ~NotDecoded(current)
    BY <1>5 DEF UnreadablePasswords, NotOpened, NotUnpacked, NotDecoded, Opened,
                Unpacked, Encrypted, UnreadableFolder
  <2>2. mainStatus' = mainStatus \cup {}
    BY <1>5 DEF UnreadablePasswords
  <2> QED
    BY <1>5, <2>1, <2>2, Leaves DEF UnreadablePasswords, Working
<1>6. CASE Decrypt
  <2>1. Behind' = Behind
    BY <1>6 DEF Decrypt, Behind, Working
  <2> QED
    BY <1>6, <2>1, Within DEF Decrypt, Regular, Progress, Encrypted, HasPasswords
<1>7. CASE DecryptionFails
  <2>1. (Encrypted /\ HasPasswords /\ ~current.opens) \/ ~Regular
    BY <1>7 DEF DecryptionFails, Ledger, Progress
  <2>2. CASE Regular
    <3>1. NotOpened(current) /\ ~NotUnpacked(current) /\ ~NotDecoded(current)
      BY <2>1, <2>2 DEF NotOpened, NotUnpacked, NotDecoded, Opened, Unpacked, Encrypted,
                        UnreadableFolder, HasPasswords
    <3> QED
      BY <1>7, <3>1, Leaves DEF DecryptionFails, Working
  <2>3. CASE ~Regular
    BY <1>7, <2>3 DEF DecryptionFails, Regular, Ledger
  <2> QED
    BY <2>2, <2>3
<1>8. CASE ToDecompression
  <2>1. Behind' = Behind
    BY <1>8 DEF ToDecompression, Behind, Working
  <2>2. Regular => Opened(current)
    BY <1>8 DEF ToDecompression, Ledger, Progress, Opened, Encrypted, HasPasswords
  <2> QED
    BY <1>8, <2>1, <2>2, Within DEF ToDecompression, Regular, Progress, Opened
<1>9. CASE Decompress
  <2>1. Behind' = Behind
    BY <1>9 DEF Decompress, Behind, Working
  <2>2. Regular => Opened(current)
    BY <1>9 DEF Decompress, Ledger, Progress
  <2> QED
    BY <1>9, <2>1, <2>2, Within DEF Decompress, Regular, Progress, Opened, Compressed
<1>10. CASE DecompressionFails
  <2>1. CASE Regular
    <3>1. ~NotOpened(current) /\ NotUnpacked(current) /\ ~NotDecoded(current)
      BY <1>10, <2>1 DEF DecompressionFails, Ledger, Progress, NotOpened, NotUnpacked,
                         NotDecoded, Unpacked, Compressed
    <3> QED
      BY <1>10, <3>1, Leaves DEF DecompressionFails, Working
  <2>2. CASE ~Regular
    BY <1>10, <2>2 DEF DecompressionFails, Regular, Ledger
  <2> QED
    BY <2>1, <2>2
<1>11. CASE ToConversion
  <2>1. Behind' = Behind
    BY <1>11 DEF ToConversion, Behind, Working
  <2>2. Regular => Unpacked(current)
    BY <1>11 DEF ToConversion, Ledger, Progress, Unpacked, Compressed
  <2> QED
    BY <1>11, <2>1, <2>2, Within DEF ToConversion, Regular, Progress, Opened, Unpacked
<1>12. CASE Convert
  <2>1. Behind' = Behind
    BY <1>12 DEF Convert, Behind, Working
  <2>2. Regular => Unpacked(current)
    BY <1>12 DEF Convert, Ledger, Progress
  <2> QED
    BY <1>12, <2>1, <2>2, Within DEF Convert, Regular, Progress, Opened, Unpacked, Returned
<1>13. CASE RemoveTemporary
  <2>1. Behind' = Behind
    BY <1>13 DEF RemoveTemporary, Behind, Working
  <2>2. Regular => Unpacked(current) /\ (stepStatus <=> Returned(current))
    BY <1>13 DEF RemoveTemporary, Ledger, Progress
  <2> QED
    BY <1>13, <2>1, <2>2, Within
       DEF RemoveTemporary, Regular, Progress, Opened, Unpacked, Returned
<1>14. CASE ConversionFails
  <2>1. CASE Regular
    <3>1. ~NotOpened(current) /\ ~NotUnpacked(current) /\ NotDecoded(current)
      BY <1>14, <2>1 DEF ConversionFails, Ledger, Progress, NotOpened, NotUnpacked,
                         NotDecoded, Unpacked
    <3> QED
      BY <1>14, <3>1, Leaves DEF ConversionFails, Working
  <2>2. CASE ~Regular
    BY <1>14, <2>2 DEF ConversionFails, Regular, Ledger
  <2> QED
    BY <2>1, <2>2
<1>15. CASE ConversionSucceeds
  <2>1. CASE Regular
    <3>1. ~NotOpened(current) /\ ~NotUnpacked(current) /\ ~NotDecoded(current)
      BY <1>15, <2>1 DEF ConversionSucceeds, Ledger, Progress, NotOpened, NotUnpacked,
                         NotDecoded, Unpacked
    <3>2. mainStatus' = mainStatus \cup {}
      BY <1>15 DEF ConversionSucceeds
    <3> QED
      BY <1>15, <3>1, <3>2, Leaves DEF ConversionSucceeds, Working
  <2>2. CASE ~Regular
    BY <1>15, <2>2 DEF ConversionSucceeds, Regular, Ledger
  <2> QED
    BY <2>1, <2>2
<1>16. CASE Terminate
  BY <1>16 DEF Terminate, Ledger, Regular
<1>17. CASE UNCHANGED vars
  BY <1>17 DEF vars, Ledger, Regular, Progress, Flags, Behind, Working, NotOpened,
               NotUnpacked, NotDecoded, Opened, UnreadableFolder, Unpacked, Returned,
               Encrypted, Compressed, HasPasswords
<1> QED
  BY <1>1, <1>2, <1>3, <1>4, <1>5, <1>6, <1>7, <1>8, <1>9, <1>10, <1>11, <1>12,
     <1>13, <1>14, <1>15, <1>16, <1>17 DEF Next, MainStep

\* The flags of the exit code are those of the files that failed, whatever
\* order they were taken in and however many there were.
THEOREM ExitCodeIsExact == Spec => []ExitCodeExact
<1>1. Ledger => ExitCodeExact
  <2> SUFFICES ASSUME Ledger, Returns PROVE ExitCodeExact
    BY DEF ExitCodeExact
  <2>1. Regular /\ pending = {} /\ ~Working
    BY DEF Returns, Regular, Ledger, Working
  <2>2. Flags(batch, mainStatus)
    BY <2>1 DEF Ledger, Behind, Flags
  <2> QED
    BY <2>2 DEF ExitCodeExact, Flags, NotOpened, NotUnpacked, NotDecoded
<1> QED
  BY <1>1, TypeInit, TypeNext, LedgerInit, LedgerNext, PTL DEF Spec

-----------------------------------------------------------------------------
(* Every file behind the loop that can be converted was, and its output is   *)
(* still there.                                                              *)

Convertible(f) == Unpacked(f) /\ f.decodes = "yes"

Kept ==
    Regular =>
        /\ \A f \in Behind : Convertible(f) => Converted(f)
        /\ stage \in {"converted", "judge"} /\ current.decodes = "yes" => Converted(current)

KeptInv == TypeOK /\ Ledger /\ Kept

LEMMA KeptInit == Init => Kept
  BY DEF Init, Kept, Behind, Working

\* A step that leaves the outputs alone.
LEMMA KeptBySame ==
    ASSUME KeptInv, Regular' => Regular, UNCHANGED <<batch, passwordStorage, outputs>>,
           \A f \in Behind' :
               f \in Behind \/ ~Convertible(f) \/ (Regular' => Converted(f)),
           Regular' /\ stage' \in {"converted", "judge"} =>
               stage \in {"converted", "judge"} /\ current' = current
    PROVE  Kept'
<1>1. Regular' => \A f \in Behind' : Convertible(f) => Converted(f)
  BY DEF KeptInv, Kept
<1>2. Regular' => \A f \in Behind' : Convertible(f)' => Converted(f)'
  BY <1>1 DEF Convertible, Unpacked, Opened, Converted
<1>3. Regular' /\ stage' \in {"converted", "judge"} /\ current'.decodes = "yes" =>
        Converted(current)'
  BY DEF KeptInv, Kept, Converted
<1> QED
  BY <1>2, <1>3 DEF Kept, Behind, Working

\* A file left before it was converted was not to be converted.
LEMMA KeptByLeaving ==
    ASSUME KeptInv, Working, stage' = "idle", ~Regular \/ ~Convertible(current),
           UNCHANGED <<batch, passwordStorage, outputs, pending>>,
           Regular' => Regular
    PROVE  Kept'
<1>1. current \in batch /\ Behind' = Behind \cup {current}
  BY DEF KeptInv, TypeOK, Working, Behind
<1>2. CASE Regular
  BY <1>1, <1>2, KeptBySame
<1>3. CASE ~Regular
  BY <1>3 DEF Kept
<1> QED
  BY <1>2, <1>3

LEMMA KeptNext == DistinctOutputs /\ KeptInv /\ [Next]_vars => Kept'
<1> SUFFICES ASSUME DistinctOutputs, KeptInv, [Next]_vars PROVE Kept'
  OBVIOUS
<1> USE DEF optionVars, diskVars, Flag, Leave
<1>1. ASSUME NEW f \in pending, Take(f) PROVE Kept'
  <2>1. Behind' = Behind
    BY <1>1 DEF Take, Behind, Working, KeptInv, TypeOK
  <2> QED
    BY <1>1, <2>1, KeptBySame DEF Take, Regular
<1>2. CASE FolderFails
  BY <1>2 DEF FolderFails, Kept, Regular
<1>3. CASE Finish
  <2>1. Behind' = Behind
    BY <1>3 DEF Finish, Behind, Working
  <2> QED
    BY <1>3, <2>1, KeptBySame DEF Finish, Regular
<1>4. CASE NoPasswords
  <2>1. ~Convertible(current)
    BY <1>4 DEF NoPasswords, Convertible, Unpacked, Opened, Encrypted
  <2> QED
    BY <1>4, <2>1, KeptByLeaving DEF NoPasswords, Working, Regular
<1>5. CASE UnreadablePasswords
  <2>1. ~Convertible(current)
    BY <1>5 DEF UnreadablePasswords, Convertible, Unpacked, Opened, Encrypted
  <2> QED
    BY <1>5, <2>1, KeptByLeaving DEF UnreadablePasswords, Working, Regular
<1>6. CASE Decrypt
  <2>1. Behind' = Behind
    BY <1>6 DEF Decrypt, Behind, Working
  <2> QED
    BY <1>6, <2>1, KeptBySame DEF Decrypt, Regular
<1>7. CASE DecryptionFails
  <2>1. ~Regular \/ ~Convertible(current)
    BY <1>7 DEF DecryptionFails, KeptInv, Ledger, Progress, Convertible, Unpacked, Opened,
                Encrypted
  <2> QED
    BY <1>7, <2>1, KeptByLeaving DEF DecryptionFails, Working, Regular
<1>8. CASE ToDecompression
  <2>1. Behind' = Behind
    BY <1>8 DEF ToDecompression, Behind, Working
  <2> QED
    BY <1>8, <2>1, KeptBySame DEF ToDecompression, Regular
<1>9. CASE Decompress
  <2>1. Behind' = Behind
    BY <1>9 DEF Decompress, Behind, Working
  <2> QED
    BY <1>9, <2>1, KeptBySame DEF Decompress, Regular
<1>10. CASE DecompressionFails
  <2>1. ~Regular \/ ~Convertible(current)
    BY <1>10 DEF DecompressionFails, KeptInv, Ledger, Progress, Convertible, Unpacked,
                 Compressed
  <2> QED
    BY <1>10, <2>1, KeptByLeaving DEF DecompressionFails, Working, Regular
<1>11. CASE ToConversion
  <2>1. Behind' = Behind
    BY <1>11 DEF ToConversion, Behind, Working
  <2> QED
    BY <1>11, <2>1, KeptBySame DEF ToConversion, Regular
<1>12. CASE Convert
  <2>1. /\ current \in batch /\ stage = "convert" /\ stage' = "converted"
        /\ UNCHANGED <<batch, passwordStorage, pending, current, mainStatus>>
    BY <1>12 DEF Convert, KeptInv, TypeOK
  <2>2. Behind' = Behind /\ current \notin Behind /\ Behind \subseteq batch
    BY <2>1 DEF Behind, Working
  <2>3. ASSUME Regular, NEW f \in Behind, Convertible(f) PROVE Converted(f)'
    <3>1. Converted(f) /\ f # current /\ f \in batch
      BY <2>2, <2>3 DEF KeptInv, Kept
    <3>2. CASE UNCHANGED outputs
      BY <3>1, <3>2 DEF Converted
    <3>3. CASE outputs' = [outputs EXCEPT ![current.output] = current]
      BY <2>1, <3>1, <3>3, OutputsApart DEF KeptInv
    <3>4. CASE outputs' = [outputs EXCEPT ![current.output] = NoFile]
      BY <2>1, <3>1, <3>4, OutputsApart DEF KeptInv
    <3> QED
      BY <1>12, <3>2, <3>3, <3>4 DEF Convert
  <2>4. ASSUME current.decodes = "yes" PROVE Converted(current)'
    <3>1. outputs' = [outputs EXCEPT ![current.output] = current]
      BY <1>12, <2>4 DEF Convert
    <3>2. current.output \in DOMAIN outputs
      BY <2>1 DEF KeptInv, TypeOK, Names
    <3> QED
      BY <2>1, <3>1, <3>2 DEF Converted
  <2>5. Regular' => \A f \in Behind' : Convertible(f)' => Converted(f)'
    BY <2>1, <2>2, <2>3 DEF Regular, Convertible, Unpacked, Opened
  <2> QED
    BY <2>1, <2>4, <2>5 DEF Kept, Behind, Working
<1>13. CASE RemoveTemporary
  <2>1. Behind' = Behind
    BY <1>13 DEF RemoveTemporary, Behind, Working
  <2> QED
    BY <1>13, <2>1, KeptBySame DEF RemoveTemporary, Regular
<1>14. CASE ConversionFails
  <2>1. ~Regular \/ ~Convertible(current)
    BY <1>14 DEF ConversionFails, KeptInv, Ledger, Progress, Convertible, Returned
  <2> QED
    BY <1>14, <2>1, KeptByLeaving DEF ConversionFails, Working, Regular
<1>15. CASE ConversionSucceeds
  <2>1. Behind' = Behind \cup {current}
    BY <1>15 DEF ConversionSucceeds, KeptInv, TypeOK, Working, Behind
  <2>2. Regular => ~Convertible(current) \/ Converted(current)
    BY <1>15 DEF ConversionSucceeds, KeptInv, Kept, Convertible
  <2>3. CASE Regular
    BY <1>15, <2>1, <2>2, <2>3, KeptBySame DEF ConversionSucceeds
  <2>4. CASE ~Regular
    BY <1>15, <2>4 DEF ConversionSucceeds, Regular, Kept
  <2> QED
    BY <2>3, <2>4
<1>16. CASE Terminate
  BY <1>16 DEF Terminate, Kept, Regular
<1>17. CASE UNCHANGED vars
  <2>1. Behind' = Behind
    BY <1>17 DEF vars, Behind, Working
  <2> QED
    BY <1>17, <2>1, KeptBySame DEF vars, Regular
<1> QED
  BY <1>1, <1>2, <1>3, <1>4, <1>5, <1>6, <1>7, <1>8, <1>9, <1>10, <1>11, <1>12,
     <1>13, <1>14, <1>15, <1>16, <1>17 DEF Next, MainStep

\* When the outputs of a batch have names of their own, main() returns with
\* every file converted that could be, whatever became of the others.
THEOREM OthersAreConverted ==
    ASSUME DistinctOutputs
    PROVE  Spec => []OthersConverted
<1>1. Init => KeptInv
  BY TypeInit, LedgerInit, KeptInit DEF KeptInv
<1>2. KeptInv /\ [Next]_vars => KeptInv'
  BY TypeNext, LedgerNext, KeptNext DEF KeptInv
<1>3. KeptInv => OthersConverted
  <2> SUFFICES ASSUME KeptInv, Returns PROVE OthersConverted
    BY DEF OthersConverted
  <2>1. Regular /\ pending = {} /\ ~Working
    BY DEF KeptInv, Returns, Regular, Ledger, Working
  <2> QED
    BY <2>1 DEF KeptInv, Kept, Behind, Convertible, OthersConverted
<1> QED
  BY <1>1, <1>2, <1>3, PTL DEF Spec
=============================================================================
