------------------------------ MODULE Converter ------------------------------
(***************************************************************************)
(* The main loop that all the command line tools share,                    *)
(* ExecutableInterface::main: the input files are taken one at a time, an  *)
(* encrypted one is decrypted to a temporary file, a compressed one is     *)
(* unpacked to another, the tool converts what came out, the temporaries   *)
(* are removed, and with --delete-converted the input is removed as well.  *)
(* A step that fails sets a flag of the exit code and the loop goes on.    *)
(*                                                                         *)
(* A file is a record: which layers are around the measurement, whether    *)
(* they come off, whether the measurement can be decoded, and the name its *)
(* output gets, which is made of its stem.                                 *)
(***************************************************************************)
EXTENDS FiniteSets

CONSTANTS
    Batches,  \* the sets of input files considered
    Tools     \* "exporter": any tool to another format; "finalizer": mdf2finalized

Layers == {"encrypted", "compressed"}
File == [path : STRING, output : STRING, layers : SUBSET Layers,
         localPasswords : {"none", "unreadable", "there"},
         opens : BOOLEAN, unpacks : BOOLEAN,
         decodes : {"yes", "null", "throws"}]

ASSUME ConverterAssumption ==
    /\ Tools \subseteq {"exporter", "finalizer"}
    /\ \A B \in Batches :
        /\ B \subseteq File
        /\ \A f, g \in B : f.path = g.path => f = g

VARIABLES
    batch, tool, deleteInputFiles,
    passwordStorage,  \* one was found beside the program or given by option
    stage,            \* where main() stands
    pending,          \* curatedInputFiles not taken yet
    current,          \* the file being worked on: path.first
    stepStatus,       \* decryptionStatus, decompressionStatus, conversionStatus
    mainStatus,       \* mainStatus, as the set of its flags
    originals,        \* the input files on disk
    outputs,          \* output name -> the file whose whole conversion it holds
    temporaries       \* what is in the temporary folder

optionVars == <<batch, tool, deleteInputFiles, passwordStorage>>
diskVars == <<originals, outputs, temporaries>>
vars == <<optionVars, stage, pending, current, stepStatus, mainStatus, diskVars>>

NoFile == [path |-> ""]
Encrypted == "encrypted" \in current.layers
Compressed == "compressed" \in current.layers
Names == {f.output : f \in batch}

\* A temporary folder, and the file in it, made for a file by one of the layers.
Folder(f, layer) == [of |-> f.path, layer |-> layer, what |-> "folder"]
Content(f, layer) == [of |-> f.path, layer |-> layer, what |-> "file"]
Both(layer) == {Folder(current, layer), Content(current, layer)}

\* Mutant of Flag: = for |=.
FlagOnly(f) == mainStatus' = {f}

Flag(f) == mainStatus' = mainStatus \cup {f}

\* `continue`
Leave == stage' = "idle" /\ current' = NoFile

-----------------------------------------------------------------------------
\* The state at the head of the loop: an argument that does not exist has set
\* its flag and is not among the files.
Init ==
    /\ batch \in Batches
    /\ tool \in Tools
    /\ deleteInputFiles \in BOOLEAN /\ passwordStorage \in BOOLEAN
    /\ mainStatus \in {{}, {"MissingFile"}}
    /\ stage = "idle" /\ pending = batch /\ current = NoFile
    /\ stepStatus = TRUE
    /\ originals = batch
    /\ outputs = [n \in Names |-> NoFile]
    /\ temporaries = {}

\* Mutant of Take: the loop does not move on.
TakeAgain(f) ==
    /\ stage = "idle"
    /\ f \in pending
    /\ current' = f
    /\ stage' = "decrypt"
    /\ UNCHANGED <<optionVars, pending, stepStatus, mainStatus, diskVars>>

Take(f) ==
    /\ stage = "idle"
    /\ f \in pending
    /\ pending' = pending \ {f} /\ current' = f
    /\ stage' = "decrypt"
    /\ UNCHANGED <<optionVars, stepStatus, mainStatus, diskVars>>

\* The output folder cannot be made: main() returns CriticalError at once.
FolderFails ==
    /\ stage = "idle" /\ pending # {}
    /\ stage' = "done" /\ mainStatus' = {"CriticalError"}
    /\ UNCHANGED <<optionVars, pending, current, stepStatus, diskVars>>

Finish ==
    /\ stage = "idle" /\ pending = {}
    /\ stage' = "done"
    /\ UNCHANGED <<optionVars, pending, current, stepStatus, mainStatus, diskVars>>

\* Neither the tool nor the folder of the file has passwords.
NoPasswords ==
    /\ stage = "decrypt" /\ Encrypted
    /\ ~passwordStorage /\ current.localPasswords = "none"
    /\ Flag("DecryptionError")
    /\ Leave
    /\ UNCHANGED <<optionVars, pending, stepStatus, diskVars>>

\* The passwords.json of the folder does not parse.
UnreadablePasswords ==
    /\ stage = "decrypt" /\ Encrypted
    /\ ~passwordStorage /\ current.localPasswords = "unreadable"
    /\ Leave
    /\ UNCHANGED <<optionVars, pending, stepStatus, mainStatus, diskVars>>

HasPasswords == passwordStorage \/ current.localPasswords = "there"

\* decryptFile writes as it decrypts and checks the tag at the end: it may fail
\* with the file written.
Decrypt ==
    /\ stage = "decrypt" /\ Encrypted /\ HasPasswords
    /\ stepStatus' = current.opens
    /\ \E written \in BOOLEAN :
        /\ current.opens => written
        /\ temporaries' = temporaries \cup {Folder(current, "encrypted")}
             \cup (IF written THEN {Content(current, "encrypted")} ELSE {})
    /\ stage' = "decrypted"
    /\ UNCHANGED <<optionVars, pending, current, mainStatus, originals, outputs>>

\* Mutant of DecryptionFails: what was decrypted stays behind.
DecryptionFailsUncleaned ==
    /\ stage = "decrypted" /\ ~stepStatus
    /\ Flag("DecryptionError")
    /\ Leave
    /\ UNCHANGED <<optionVars, pending, stepStatus, diskVars>>

DecryptionFails ==
    /\ stage = "decrypted" /\ ~stepStatus
    /\ Flag("DecryptionError")
    /\ temporaries' = temporaries \ Both("encrypted")
    /\ Leave
    /\ UNCHANGED <<optionVars, pending, stepStatus, originals, outputs>>

ToDecompression ==
    /\ \/ stage = "decrypt" /\ ~Encrypted
       \/ stage = "decrypted" /\ stepStatus
    /\ stage' = "decompress"
    /\ UNCHANGED <<optionVars, pending, current, stepStatus, mainStatus, diskVars>>

\* decompressFile opens its output only when it is going to succeed; the
\* decrypted file and its folder go before the status is looked at.
Decompress ==
    /\ stage = "decompress" /\ Compressed
    /\ stepStatus' = current.unpacks
    /\ temporaries' = (temporaries \ Both("encrypted"))
         \cup {Folder(current, "compressed")}
         \cup (IF current.unpacks THEN {Content(current, "compressed")} ELSE {})
    /\ stage' = "decompressed"
    /\ UNCHANGED <<optionVars, pending, current, mainStatus, originals, outputs>>

\* Mutant of DecompressionFails: the loop ends with the file.
DecompressionFailsForAll ==
    /\ stage = "decompressed" /\ ~stepStatus
    /\ Flag("DecompressionError")
    /\ stage' = "done" /\ current' = NoFile
    /\ UNCHANGED <<optionVars, pending, stepStatus, diskVars>>

\* Mutant of DecompressionFails: the file is tried again.
DecompressionFailsRetried ==
    /\ stage = "decompressed" /\ ~stepStatus
    /\ Flag("DecompressionError")
    /\ stage' = "decompress"
    /\ UNCHANGED <<optionVars, pending, current, stepStatus, diskVars>>

DecompressionFails ==
    /\ stage = "decompressed" /\ ~stepStatus
    /\ Flag("DecompressionError")
    /\ Leave
    /\ UNCHANGED <<optionVars, pending, stepStatus, diskVars>>

ToConversion ==
    /\ \/ stage = "decompress" /\ ~Compressed
       \/ stage = "decompressed" /\ stepStatus
    /\ stage' = "convert"
    /\ UNCHANGED <<optionVars, pending, current, stepStatus, mainStatus, diskVars>>

\* What convert() returns.  MdfFile::Create answers null for a file it cannot
\* load; an exporter then returns false, the finalizer returns true all the same.
\* Anything may throw, which counts as false.
Returned(f) ==
    f.decodes = "yes" \/ (f.decodes = "null" /\ tool = "finalizer")

\* convert(), and the removal of the temporary it worked on.  A conversion that
\* breaks off may have overwritten the output.
Convert ==
    /\ stage = "convert"
    /\ stepStatus' = Returned(current)
    /\ \/ /\ current.decodes = "yes"
          /\ outputs' = [outputs EXCEPT ![current.output] = current]
       \/ /\ current.decodes = "null"
          /\ UNCHANGED outputs
       \/ /\ current.decodes = "throws"
          /\ \/ UNCHANGED outputs
             \/ outputs' = [outputs EXCEPT ![current.output] = NoFile]
    /\ stage' = "converted"
    /\ UNCHANGED <<optionVars, pending, current, mainStatus, originals, temporaries>>

RemoveTemporary ==
    /\ stage = "converted"
    /\ temporaries' = temporaries \ (Both("encrypted") \cup Both("compressed"))
    /\ stage' = "judge"
    /\ UNCHANGED <<optionVars, pending, current, stepStatus, mainStatus,
                   originals, outputs>>

ConversionFails ==
    /\ stage = "judge" /\ ~stepStatus
    /\ Flag("DecodingError")
    /\ Leave
    /\ UNCHANGED <<optionVars, pending, stepStatus, diskVars>>

\* Mutant of ConversionSucceeds: the input goes whatever came of it.
ConversionUnjudged ==
    /\ stage = "judge"
    /\ originals' = IF deleteInputFiles THEN originals \ {current} ELSE originals
    /\ Leave
    /\ UNCHANGED <<optionVars, pending, stepStatus, mainStatus, outputs, temporaries>>

ConversionSucceeds ==
    /\ stage = "judge" /\ stepStatus
    /\ originals' = IF deleteInputFiles THEN originals \ {current} ELSE originals
    /\ Leave
    /\ UNCHANGED <<optionVars, pending, stepStatus, mainStatus, outputs, temporaries>>

\* The process is killed, or an exception nobody catches ends it: anywhere, in
\* the middle of writing an output too.
Terminate ==
    /\ stage \notin {"done", "killed"}
    /\ stage' = "killed"
    /\ \/ UNCHANGED outputs
       \/ stage = "convert" /\ outputs' = [outputs EXCEPT ![current.output] = NoFile]
    /\ UNCHANGED <<optionVars, pending, current, stepStatus, mainStatus,
                   originals, temporaries>>

MainStep ==
    \/ \E f \in pending : Take(f)
    \/ FolderFails
    \/ Finish
    \/ NoPasswords \/ UnreadablePasswords
    \/ Decrypt \/ DecryptionFails \/ ToDecompression
    \/ Decompress \/ DecompressionFails \/ ToConversion
    \/ Convert \/ RemoveTemporary \/ ConversionFails \/ ConversionSucceeds

Next == MainStep \/ Terminate

Spec == Init /\ [][Next]_vars

\* The loop waits for nobody.
FairSpec == Spec /\ WF_vars(MainStep)

-----------------------------------------------------------------------------
\* How far a file gets, from what it is alone.
UnreadableFolder(f) == ~passwordStorage /\ f.localPasswords = "unreadable"
Opened(f) ==
    "encrypted" \in f.layers =>
        f.opens /\ (passwordStorage \/ f.localPasswords = "there")
Unpacked(f) == Opened(f) /\ ("compressed" \in f.layers => f.unpacks)

Converted(f) == outputs[f.output] = f
Returns == stage = "done" /\ "CriticalError" \notin mainStatus

-----------------------------------------------------------------------------
TypeOK ==
    /\ batch \in Batches /\ tool \in Tools
    /\ deleteInputFiles \in BOOLEAN /\ passwordStorage \in BOOLEAN
    /\ stage \in {"idle", "decrypt", "decrypted", "decompress", "decompressed",
                  "convert", "converted", "judge", "done", "killed"}
    /\ pending \subseteq batch /\ originals \subseteq batch
    /\ current \in batch \cup {NoFile}
    /\ stage \notin {"idle", "done", "killed"} => current \in batch \ pending
    /\ stepStatus \in BOOLEAN
    /\ mainStatus \subseteq {"MissingFile", "DecryptionError",
                             "DecompressionError", "DecodingError", "CriticalError"}
    /\ outputs \in [Names -> batch \cup {NoFile}]
    /\ temporaries \subseteq
        [of : {f.path : f \in batch}, layer : Layers, what : {"folder", "file"}]

\* "Delete input files on success": an input that is gone left its conversion
\* behind, whole, wherever the program was killed and whatever files came before
\* and after it (ExecutableInterface::main).
InputsDeletedOnSuccess == \A f \in batch \ originals : Converted(f)

\* The same of the tools that convert to another format.
ExportersKeepInputs == tool = "exporter" => InputsDeletedOnSuccess

\* Between two files nothing is left in the temporary folder, above all nothing
\* that was decrypted, however the steps of the files before ended: only the
\* empty folder of a file that could not be unpacked stays.
TemporariesRemoved ==
    stage \in {"idle", "done"} =>
        \A t \in temporaries :
            /\ t.what = "folder" /\ t.layer = "compressed"
            /\ \E f \in batch : f.path = t.of /\ ~f.unpacks

\* When main() returns, each flag of the exit code is set exactly when a file
\* failed in the step it stands for: nothing is forgotten by a later file and
\* nothing reported that did not happen.  Files left out because the passwords
\* of their folder are unreadable set none.
ExitCodeExact ==
    Returns =>
        /\ "DecryptionError" \in mainStatus <=>
            \E f \in batch : ~Opened(f) /\ ~UnreadableFolder(f)
        /\ "DecompressionError" \in mainStatus <=>
            \E f \in batch : Opened(f) /\ ~Unpacked(f)
        /\ "DecodingError" \in mainStatus <=>
            \E f \in batch : Unpacked(f) /\ ~Returned(f)

\* "The program can recover and continue with the next file": when main()
\* returns, every file that can be converted was, whatever became of the others.
OthersConverted ==
    Returns => \A f \in batch : Unpacked(f) /\ f.decodes = "yes" => Converted(f)

\* main() returns, or something ends the process.
MainReturns == <>(stage \in {"done", "killed"})
=============================================================================
