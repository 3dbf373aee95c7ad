-------------------------- MODULE CalibrationFiles --------------------------
(***************************************************************************)
(* How the calibration tools put a file in place.  All of them write a     *)
(* temporary file next to the target and rename it over the target, so a   *)
(* reader, or a later run after a crash, sees the old file or the new one. *)
(* They differ in what a failed rename does: the intrinsic tool removes    *)
(* the target and tries again, and may end with no file at all.            *)
(*                                                                         *)
(* A file is a value, NoFile where there is none.  An operation is the set *)
(* of its outcomes: the file it leaves, and whether it returned (ok) or    *)
(* threw.                                                                  *)
(***************************************************************************)
EXTENDS Sequences

NoFile == [status |-> "none"]

Outcome(file, ok) == [file |-> file, ok |-> ok]

\* A failed rename leaves the file there was.
Replace(old, new) == {Outcome(new, TRUE), Outcome(old, FALSE)}

\* A failed rename is followed by a removal and a second rename.
ReplaceOrRemove(old, new) == Replace(old, new) \cup {Outcome(NoFile, FALSE)}

\* A new directory has a name that no earlier one has.
WithNewDirectory(directories, new) == Append(directories, new)
=============================================================================
