----------------------------- MODULE SavedFile ------------------------------
(***************************************************************************)
(* How snapshot.json and checkpoint.json get to the disk: written to a     *)
(* .tmp file in the same directory and renamed.  Savers are the tasks that *)
(* may do so at the same time: the actors of one instance that two get()   *)
(* calls have spawned, or the processes that share a directory.            *)
(*                                                                         *)
(* Directory entries point to files; a file is a sequence of blocks, each  *)
(* standing for a piece of the JSON text of one value.  The file system is *)
(* external: a write goes to the file that was opened, wherever its entry  *)
(* is by then.  Nothing is synced: with the power a file may lose the end  *)
(* of its data, and the directory the last rename.                         *)
(***************************************************************************)
EXTENDS Integers, Sequences

CONSTANTS
    Savers,
    Values,         \* what is saved
    Size(_),        \* blocks of its JSON text
    NoSave,         \* what load returns when there is nothing to load
    Files,          \* files of the file system
    NoFile          \* no such directory entry, nothing open

Unsettled == "unsettled"

ASSUME SavedFileAssumption ==
    /\ \A v \in Values : Size(v) \in Nat \ {0}
    /\ Unsettled \notin Values \cup {NoSave}
    /\ NoSave \notin Values
    /\ NoFile \notin Files

VARIABLES
    data,       \* data[f]: the blocks of file f
    tmp, final, \* the files the two directory entries point to
    prev,       \* the file final pointed to before the last rename
    fd,         \* fd[w]: the file saver w has open
    value,      \* value[w]: what w saves
    pc,         \* pc[w]: where w is in save_snapshot
    alone,      \* alone[w]: nobody else was saving since w began (history only)
    settled,    \* what load should give, Unsettled after overlapping saves
                \* (history only)
    before      \* what it should have given before the last rename (history only)

vars == <<data, tmp, final, prev, fd, value, pc, alone, settled, before>>

Blocks(v, n) == [i \in 1 .. n |-> v]
Text(v)      == Blocks(v, Size(v))

\* What bytes written at the start of a file leave of it.
Overwritten(old, new) ==
    [i \in 1 .. (IF Len(old) > Len(new) THEN Len(old) ELSE Len(new)) |->
        IF i <= Len(new) THEN new[i] ELSE old[i]]

\* load_snapshot, load_checkpoint, load_pm_checkpoint: no file, or one that is
\* not the JSON text of a value, is none.
Load ==
    IF final # NoFile /\ \E v \in Values : data[final] = Text(v)
    THEN CHOOSE v \in Values : data[final] = Text(v)
    ELSE NoSave

Saving == {w \in Savers : pc[w] # "idle"}

\* The file an open of the .tmp entry gives: the one that is there, or a new one.
\* The file the last rename has replaced is not given out while it may come back.
TmpFiles ==
    IF tmp # NoFile THEN {tmp}
    ELSE {f \in Files : f \notin {final, prev} /\ \A w \in Saving : fd[w] # f}

Init ==
    /\ data = [f \in Files |-> <<>>]
    /\ tmp = NoFile
    /\ final = NoFile
    /\ prev = NoFile
    /\ fd = [w \in Savers |-> NoFile]
    /\ value = [w \in Savers |-> NoSave]
    /\ pc = [w \in Savers |-> "idle"]
    /\ alone = [w \in Savers |-> FALSE]
    /\ settled = NoSave
    /\ before = NoSave

\* Saver w has value v to save and file f open, with content d.
Begin(w, v, f, d) ==
    /\ pc[w] = "idle"
    /\ pc' = [pc EXCEPT ![w] = "opened"]
    /\ data' = [data EXCEPT ![f] = d]
    /\ fd' = [fd EXCEPT ![w] = f]
    /\ value' = [value EXCEPT ![w] = v]
    /\ alone' = [u \in Savers |-> u = w /\ Saving = {}]
    /\ settled' = IF Saving = {} THEN settled ELSE Unsettled
    /\ UNCHANGED <<final, prev, before>>

\* Mutant: what a dead process left in the .tmp file is kept.
OpenTmpKeeping(w, v) ==
    \E f \in TmpFiles :
        /\ Begin(w, v, f, IF f = tmp THEN data[f] ELSE <<>>)
        /\ tmp' = f

\* create_dir_all, and the first half of fs::write: create or truncate.
OpenTmp(w, v) ==
    \E f \in TmpFiles :
        /\ Begin(w, v, f, <<>>)
        /\ tmp' = f

\* The second half: all bytes, or as many as the disk takes; an error leaves
\* the .tmp file where it is.
WriteTmp(w) ==
    /\ pc[w] = "opened"
    /\ \E n \in 0 .. Size(value[w]) :
           /\ data' = [data EXCEPT ![fd[w]] = Overwritten(@, Blocks(value[w], n))]
           /\ pc' = [pc EXCEPT ![w] = IF n = Size(value[w]) THEN "written" ELSE "idle"]
    /\ fd' = [fd EXCEPT ![w] = NoFile]
    /\ UNCHANGED <<tmp, final, prev, value, alone, settled, before>>

\* The save returns.
Finish(w) ==
    /\ pc' = [pc EXCEPT ![w] = "idle"]
    /\ UNCHANGED <<data, fd, value, alone>>

\* Mutant: a copy instead of a rename.
RenameCopies(w) ==
    /\ pc[w] = "written"
    /\ Finish(w)
    /\ tmp # NoFile
    /\ final' = tmp
    /\ prev' = final
    /\ settled' = IF alone[w] THEN value[w] ELSE settled
    /\ before' = settled
    /\ UNCHANGED tmp

\* fs::rename; the .tmp file is not there any more when another saver's rename
\* has taken it.
Rename(w) ==
    /\ pc[w] = "written"
    /\ Finish(w)
    /\ \/ /\ tmp # NoFile
          /\ final' = tmp
          /\ tmp' = NoFile
          /\ prev' = final
          /\ settled' = IF alone[w] THEN value[w] ELSE settled
          /\ before' = settled
       \/ /\ tmp = NoFile
          /\ UNCHANGED <<tmp, final, prev, settled, before>>

\* The saver's process is killed, or its task aborted.
Kill(w) ==
    /\ pc[w] # "idle"
    /\ pc' = [pc EXCEPT ![w] = "idle"]
    /\ fd' = [fd EXCEPT ![w] = NoFile]
    /\ UNCHANGED <<data, tmp, final, prev, value, alone, settled, before>>

\* What may be left of a file whose data was not synced.
Remains(f) ==
    IF f = NoFile THEN {<<>>} ELSE {SubSeq(data[f], 1, n) : n \in 0 .. Len(data[f])}

\* What a load should give, if it should give s while nothing of the file is lost.
AfterLoss(s, whole) == IF s # Unsettled /\ ~whole THEN NoSave ELSE s

\* The machine stops.  The directory comes back with t and f as its entries, their
\* files with the data a and b.
ComesBack(t, f, a, b, s) ==
    /\ tmp' = t
    /\ final' = f
    /\ prev' = f
    /\ data' = [g \in Files |-> IF g = f THEN b ELSE IF g = t THEN a ELSE data[g]]
    /\ settled' = AfterLoss(s, f = NoFile \/ b = data[f])
    /\ before' = settled'
    /\ pc' = [w \in Savers |-> "idle"]
    /\ fd' = [w \in Savers |-> NoFile]
    /\ UNCHANGED <<value, alone>>

\* As it was, or without the last rename and what came after it.
PowerLoss ==
    \/ \E a \in Remains(tmp), b \in Remains(final) : ComesBack(tmp, final, a, b, settled)
    \/ /\ prev # final
       /\ \E a \in Remains(final), b \in Remains(prev) : ComesBack(final, prev, a, b, before)

Next ==
    \/ PowerLoss
    \/ \E w \in Savers :
           \/ \E v \in Values : OpenTmp(w, v)
           \/ WriteTmp(w) \/ Rename(w) \/ Kill(w)

Spec == Init /\ [][Next]_vars

-----------------------------------------------------------------------------
(* Correctness                                                              *)

\* Type invariant; the entries never point to the same file.
FileTypeOK ==
    /\ data \in [Files -> Seq(Values)]
    /\ tmp \in Files \cup {NoFile}
    /\ final \in Files \cup {NoFile}
    /\ prev \in Files \cup {NoFile}
    /\ tmp = final => tmp = NoFile
    /\ fd \in [Savers -> Files \cup {NoFile}]
    /\ value \in [Savers -> Values \cup {NoSave}]
    /\ pc \in [Savers -> {"idle", "opened", "written"}]
    /\ alone \in [Savers -> BOOLEAN]
    /\ settled \in Values \cup {NoSave, Unsettled}
    /\ before \in Values \cup {NoSave, Unsettled}
    /\ \A w \in Saving : value[w] \in Values /\ (pc[w] = "opened" => fd[w] \in Files)

\* "This ensures readers never see a partially-written file" (snapshot.rs:50-52):
\* as long as savers take turns, a load gives what the last successful save was
\* given, at every moment, whatever earlier saves left behind when they failed or
\* were killed; after a power loss that, the save before it or nothing, never a part;
\* and a save that nobody overlaps makes good what overlapping ones have torn.
LoadsAreWholeSaves == settled # Unsettled => Load = settled

\* Why: the saver that is alone owns the .tmp file from its open to its rename,
\* and only overlapping savers can reach the file that readers see.
SaverOwnsTmp ==
    /\ \A w \in Saving : alone[w] => Saving = {w}
    /\ settled # Unsettled => \A w \in Saving : alone[w]
    /\ \A w \in Saving : alone[w] =>
           /\ tmp # NoFile
           /\ pc[w] = "opened" => fd[w] = tmp /\ data[tmp] = <<>>
           /\ pc[w] = "written" => data[tmp] = Text(value[w])

=============================================================================
