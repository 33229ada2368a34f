---------------------------- MODULE MCOperations ----------------------------
(* Instances of Operations for TLC. *)
EXTENDS Operations, TLC

\* Operations of every kind against crashes, sweeps and a writer outside.
Crash == [acts |-> {"trash", "restore", "delete", "write", "gc", "due"},
          procs |-> Procs, entries |-> 2, edits |-> 1, epochs |-> 1, cuts |-> 0]

\* Undo in a journal with room for one record, time and a metadata restore, and
\* restores one of which is cut short.
Undo == [acts |-> {"trash", "move", "undo", "backup", "lapse", "age"},
         procs |-> Procs, entries |-> 1, edits |-> 1, epochs |-> 2, cuts |-> 0]
Cut == [Undo EXCEPT !.acts = {"move", "undo", "backup"}, !.entries = 2, !.cuts = 1]

\* Overlapping requests alone; undo next to the sweep.
Lock == [acts |-> {"trash", "write"}, procs |-> Procs, entries |-> 2, edits |-> 0,
         epochs |-> 1, cuts |-> 0]
UndoSweep == [Lock EXCEPT !.acts = {"trash", "undo", "gc", "due"}]

\* All that must end: one helper after the other with two tokens, one of which may
\* be undone between its listing and its turn; two helpers at once; and trash
\* of an account that is suspended now and then.
OneByOne == [Lock EXCEPT !.acts = {"trash", "write", "undo", "gc", "due"},
                         !.procs = {CHOOSE p \in Procs : TRUE}]
AtOnce == [Lock EXCEPT !.acts = {"write", "gc", "due"}, !.entries = 1]
Suspended == [OneByOne EXCEPT !.acts = {"trash", "gc", "due", "suspend"}]

MCSafe == {Crash, Undo, Cut}
MCLock == {Lock}
MCUndoSweep == {UndoSweep}
MCLive == {OneByOne, AtOnce, Suspended}

Symmetry == Permutations(Procs) \cup Permutations(Files)
=============================================================================
