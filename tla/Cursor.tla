-------------------------------- MODULE Cursor --------------------------------
(***************************************************************************)
(* What users of record iterators take them for: handles, each at a place  *)
(* in one sequence of records, that move on one record at a time and tell  *)
(* the record they are at.  Only a handle that is `sure' promises which    *)
(* record it tells: one that was set back to the start after it had moved, *)
(* or has met a record that could not be read, is not, until it moves on.  *)
(***************************************************************************)
EXTENDS Integers

CONSTANTS Handles

VARIABLES
    length,  \* the number of records, fixed
    at,      \* handle -> records behind it, None if it has no iterator
    sure,    \* the handles that promise which record they tell
    told     \* the record told last, by its place; 0 if none is promised

cursorVars == <<length, at, sure, told>>

None == -1

Init ==
    /\ length \in Nat
    /\ at = [h \in Handles |-> None]
    /\ sure = {}
    /\ told = 0

Become(h, place, promised) ==
    /\ at' = [at EXCEPT ![h] = place]
    /\ sure' = IF promised THEN sure \cup {h} ELSE sure \ {h}

Make(h) == Become(h, 0, TRUE) /\ told' = 0
Drop(h) == Become(h, None, FALSE) /\ told' = 0
Copy(g, h) == Become(h, at[g], g \in sure) /\ told' = 0
Move(g, h) ==
    /\ at' = [at EXCEPT ![h] = at[g], ![g] = None]
    /\ sure' = (IF g \in sure THEN sure \cup {h} ELSE sure \ {h}) \ {g}
    /\ told' = 0
Restart(g, h) == Become(h, 0, g \in sure /\ at[g] = 0) /\ told' = 0
Finish(g, h) == Become(h, length, TRUE) /\ told' = 0

\* The next record is read on the way and may turn out unreadable.
Advance(h) ==
    /\ at[h] < length
    /\ \E promised \in BOOLEAN : Become(h, at[h] + 1, promised)

Promised(h) == IF h \in sure /\ at[h] < length THEN at[h] + 1 ELSE 0
Tell(h) == told' = Promised(h) /\ UNCHANGED <<at, sure>>

Next ==
    /\ UNCHANGED length
    /\ \/ \E h \in Handles : Make(h) \/ Drop(h)
       \/ \E g, h \in Handles :
              at[g] # None /\ (Copy(g, h) \/ Move(g, h) \/ Restart(g, h) \/ Finish(g, h))
       \/ \E h \in Handles : at[h] # None /\ Advance(h) /\ told' = 0
       \/ \E h \in Handles : at[h] # None /\ Tell(h)
       \/ \E h \in Handles : at[h] # None /\ Advance(h) /\ told' = Promised(h)

Spec == Init /\ [][Next]_cursorVars
=============================================================================
