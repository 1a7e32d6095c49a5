----------------------------- MODULE MCConverter -----------------------------
(* Batches of up to three files out of one file for every way through the *)
(* loop, with an output of its own each.                                  *)
EXTENDS Converter, Integers

Plain(p, d) ==
    [path |-> p, output |-> p, layers |-> {}, localPasswords |-> "none",
     opens |-> TRUE, unpacks |-> TRUE, decodes |-> d]

MCFiles == {
    Plain("good", "yes"), Plain("broken", "null"), Plain("torn", "throws"),
    [Plain("packed", "yes") EXCEPT !.layers = {"compressed"}],
    [Plain("overpacked", "yes") EXCEPT !.layers = {"compressed"}, !.unpacks = FALSE],
    [Plain("secret", "yes") EXCEPT !.layers = Layers, !.localPasswords = "there"],
    [Plain("secretly broken", "yes") EXCEPT
        !.layers = Layers, !.localPasswords = "there", !.unpacks = FALSE],
    [Plain("locked", "yes") EXCEPT
        !.layers = {"encrypted"}, !.localPasswords = "there", !.opens = FALSE],
    [Plain("keyless", "yes") EXCEPT !.layers = {"encrypted"}],
    [Plain("mislaid", "yes") EXCEPT
        !.layers = {"encrypted"}, !.localPasswords = "unreadable"]}

MCBatches == {B \in SUBSET MCFiles : Cardinality(B) <= 3}
MCSmallBatches == {B \in SUBSET MCFiles : Cardinality(B) <= 2}
MCTools == {"exporter", "finalizer"}
=============================================================================
