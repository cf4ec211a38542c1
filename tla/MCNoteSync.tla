----------------------------- MODULE MCNoteSync -----------------------------
(* NoteSync on small instances.                                           *)
EXTENDS NoteSync, TLC

\* Devices and names of notes are interchangeable.
Symmetry == Permutations(Device) \cup Permutations(Note)
=============================================================================
