--------------------------- MODULE SavedFile_proofs -------------------------
(***************************************************************************)
(* A load gives the last whole save for any number of savers, values and   *)
(* files, as long as savers take turns.                                    *)
(***************************************************************************)
EXTENDS SavedFile, TLAPS

\* With contents d, file f holds all of s, or for NoSave nothing, or a text whose end
\* is missing.
Holds(d, f, s) ==
    IF s = NoSave
    THEN f # NoFile => \E v \in Values : \E n \in 0 .. Size(v) - 1 : d[f] = Blocks(v, n)
    ELSE f # NoFile /\ d[f] = Text(s)

\* The file readers see is as it should be, and so is the one that a power loss
\* may bring back, which nobody writes to any more.
FinalHolds == settled # Unsettled => Holds(data, final, settled)
PrevHolds  ==
    /\ tmp = prev => tmp = NoFile
    /\ prev # final /\ before # Unsettled =>
           /\ Holds(data, prev, before)
           /\ \A w \in Savers : pc[w] = "opened" => fd[w] # prev

\* The type invariant, ownership of the .tmp file and the contents of the files are
\* inductive together.
FileInv == FileTypeOK /\ SaverOwnsTmp /\ FinalHolds /\ PrevHolds

-----------------------------------------------------------------------------
(* Texts                                                                    *)

\* The pieces of a text are a sequence of as many blocks.
LEMMA BlocksType ==
    ASSUME NEW v, NEW n \in Nat
    PROVE  /\ Len(Blocks(v, n)) = n
           /\ \A i \in 1 .. n : Blocks(v, n)[i] = v
           /\ \A S : v \in S => Blocks(v, n) \in Seq(S)
  BY DEF Blocks

\* A text is not empty, and it is the text of one value only.
LEMMA TextIsOfOneValue ==
    ASSUME NEW v \in Values, NEW u \in Values
    PROVE  /\ Text(v) # <<>>
           /\ Text(v) = Text(u) => v = u
  <1>1. Size(v) \in Nat \ {0} /\ Size(u) \in Nat \ {0}
    BY SavedFileAssumption
  <1>2. Len(Text(v)) = Size(v) /\ Text(v)[1] = v /\ Text(u)[1] = u
    BY <1>1, BlocksType DEF Text
  <1>3. QED
    BY <1>1, <1>2

\* Writing to an empty file leaves what was written.
LEMMA OverwriteEmpty ==
    ASSUME NEW v, NEW n \in Nat
    PROVE  Overwritten(<<>>, Blocks(v, n)) = Blocks(v, n)
  BY BlocksType DEF Overwritten, Blocks

\* Writing keeps a file a sequence of blocks.
LEMMA OverwriteType ==
    ASSUME NEW old \in Seq(Values), NEW v \in Values, NEW n \in Nat
    PROVE  Overwritten(old, Blocks(v, n)) \in Seq(Values)
  <1>1. Blocks(v, n) \in Seq(Values) /\ Len(Blocks(v, n)) = n
    BY BlocksType
  <1>2. QED
    BY <1>1 DEF Overwritten

\* The start of pieces of a text is pieces of it.
LEMMA BlocksPrefix ==
    ASSUME NEW v, NEW n \in Nat, NEW k \in 0 .. n
    PROVE  SubSeq(Blocks(v, n), 1, k) = Blocks(v, k)
  <1>1. Blocks(v, n) \in Seq({v}) /\ Len(Blocks(v, n)) = n
    BY BlocksType
  <1>2. QED
    BY <1>1 DEF Blocks

\* A text whose end is missing is the text of no value.
LEMMA PiecesAreNoText ==
    ASSUME NEW v \in Values, NEW n \in 0 .. Size(v) - 1, NEW u \in Values
    PROVE  Blocks(v, n) # Text(u)
  <1>1. Size(v) \in Nat \ {0} /\ Size(u) \in Nat \ {0}
    BY SavedFileAssumption
  <1>2. SUFFICES ASSUME Blocks(v, n) = Text(u) PROVE FALSE
    OBVIOUS
  <1>3. n = Size(u)
    BY <1>1, <1>2, BlocksType DEF Text
  <1>4. Blocks(v, n)[1] = v /\ Text(u)[1] = u
    BY <1>1, <1>3, BlocksType DEF Text
  <1>5. QED
    BY <1>1, <1>2, <1>3, <1>4

\* What a file holds stays in it as long as nobody writes to it.
LEMMA HoldsUnchanged ==
    ASSUME NEW d, NEW e, NEW f, NEW s, Holds(d, f, s), f # NoFile => e[f] = d[f]
    PROVE  Holds(e, f, s)
  BY DEF Holds

\* A load gives what the file that readers see holds.
LEMMA HeldIsLoaded ==
    ASSUME NEW s \in Values \cup {NoSave}, Holds(data, final, s)
    PROVE  Load = s
  <1>1. CASE s = NoSave
    BY <1>1, PiecesAreNoText DEF Holds, Load
  <1>2. CASE s # NoSave
    BY <1>2, TextIsOfOneValue DEF Holds, Load
  <1>3. QED
    BY <1>1, <1>2

-----------------------------------------------------------------------------
(* Steps                                                                    *)

\* Whoever opens the .tmp file does not touch the file readers see, and anyone else
\* who is saving is not alone any more.
LEMMA OpenTmpKeepsInv ==
    ASSUME FileInv, NEW w \in Savers, NEW v \in Values, OpenTmp(w, v)
    PROVE  FileInv'
  <1> USE DEF FileInv
  <1>1. PICK f \in TmpFiles : Begin(w, v, f, <<>>) /\ tmp' = f
    BY DEF OpenTmp
  <1>2. f \in Files /\ f # final /\ f # prev /\ f # NoFile
    BY SavedFileAssumption DEF TmpFiles, FileTypeOK, PrevHolds
  <1>3. /\ pc[w] = "idle"
        /\ pc' = [pc EXCEPT ![w] = "opened"]
        /\ data' = [data EXCEPT ![f] = <<>>]
        /\ fd' = [fd EXCEPT ![w] = f]
        /\ value' = [value EXCEPT ![w] = v]
        /\ alone' = [u \in Savers |-> u = w /\ Saving = {}]
        /\ settled' = IF Saving = {} THEN settled ELSE Unsettled
        /\ UNCHANGED <<final, prev, before>>
    BY <1>1 DEF Begin
  <1>4. Saving' = Saving \cup {w} /\ w \notin Saving
    BY <1>3 DEF Saving, FileTypeOK
  <1>5. FileTypeOK'
    BY <1>1, <1>2, <1>3, <1>4 DEF FileTypeOK, Saving
  <1>6. SaverOwnsTmp'
    <2>1. \A u \in Saving' : alone'[u] => u = w /\ Saving' = {w}
      BY <1>3, <1>4 DEF Saving
    <2>2. pc'[w] = "opened" /\ fd'[w] = tmp' /\ data'[tmp'] = <<>> /\ tmp' # NoFile
      BY <1>1, <1>2, <1>3 DEF FileTypeOK
    <2>3. settled' # Unsettled => Saving = {}
      BY <1>3
    <2>4. settled' # Unsettled => \A u \in Saving' : alone'[u]
      BY <1>3, <1>4, <2>3
    <2>5. QED
      BY <2>1, <2>2, <2>4 DEF SaverOwnsTmp
  <1>7. FinalHolds'
    <2>1. final # NoFile => data'[final] = data[final]
      BY <1>2, <1>3 DEF FileTypeOK
    <2>2. QED
      BY <1>3, <2>1, HoldsUnchanged DEF FinalHolds
  <1>8. PrevHolds'
    <2>1. prev # NoFile => data'[prev] = data[prev]
      BY <1>2, <1>3 DEF FileTypeOK
    <2>2. prev # final /\ before # Unsettled => Holds(data', prev, before)
      BY <2>1, HoldsUnchanged DEF PrevHolds
    <2>3. prev # final /\ before # Unsettled => \A u \in Savers : pc'[u] = "opened" => fd'[u] # prev
      BY <1>2, <1>3 DEF PrevHolds, FileTypeOK
    <2>4. QED
      BY <1>1, <1>2, <1>3, <2>2, <2>3 DEF PrevHolds
  <1>9. QED
    BY <1>5, <1>6, <1>7, <1>8

\* A write goes to the .tmp file unless savers overlap; a lone one leaves the whole
\* text there, or ends the save.
LEMMA WriteTmpKeepsInv ==
    ASSUME FileInv, NEW w \in Savers, WriteTmp(w)
    PROVE  FileInv'
  <1> USE DEF FileInv
  <1>1. /\ pc[w] = "opened"
        /\ fd' = [fd EXCEPT ![w] = NoFile]
        /\ UNCHANGED <<tmp, final, prev, value, alone, settled, before>>
    BY DEF WriteTmp
  <1>2. PICK n \in 0 .. Size(value[w]) :
            /\ data' = [data EXCEPT ![fd[w]] = Overwritten(@, Blocks(value[w], n))]
            /\ pc' = [pc EXCEPT ![w] = IF n = Size(value[w]) THEN "written" ELSE "idle"]
    BY DEF WriteTmp
  <1>3. w \in Saving /\ value[w] \in Values /\ fd[w] \in Files
    BY <1>1 DEF FileTypeOK, Saving
  <1>4. n \in Nat /\ Size(value[w]) \in Nat
    BY <1>3, SavedFileAssumption
  <1>5. Overwritten(data[fd[w]], Blocks(value[w], n)) \in Seq(Values)
    BY <1>3, <1>4, OverwriteType DEF FileTypeOK
  <1>6. Saving' \subseteq Saving
    BY <1>1, <1>2 DEF FileTypeOK, Saving
  <1>7. FileTypeOK'
    BY <1>1, <1>2, <1>3, <1>5, <1>6 DEF FileTypeOK, Saving
  <1>8. SaverOwnsTmp'
    <2>1. ASSUME NEW u \in Saving', alone'[u]
          PROVE  /\ u = w /\ Saving' = {w}
                 /\ tmp' # NoFile /\ pc'[w] = "written"
                 /\ data'[tmp] = Text(value[w])
      <3>1. u = w /\ Saving' = {w}
        BY <1>1, <1>3, <1>6, <2>1 DEF SaverOwnsTmp
      <3>2. fd[w] = tmp /\ data[tmp] = <<>> /\ tmp # NoFile
        BY <1>1, <1>3, <2>1, <3>1 DEF SaverOwnsTmp
      <3>3. n = Size(value[w]) /\ pc'[w] = "written"
        BY <1>2, <2>1, <3>1 DEF Saving, FileTypeOK
      <3>4. data'[tmp] = Overwritten(<<>>, Blocks(value[w], n))
        BY <1>2, <1>3, <3>2 DEF FileTypeOK
      <3>5. QED
        BY <1>1, <1>4, <3>1, <3>2, <3>3, <3>4, OverwriteEmpty DEF Text
    <2>2. settled' # Unsettled => \A u \in Saving' : alone'[u]
      BY <1>1, <1>6 DEF SaverOwnsTmp
    <2>3. QED
      BY <1>1, <2>1, <2>2 DEF SaverOwnsTmp
  <1>9. FinalHolds'
    <2>1. CASE settled = Unsettled
      BY <1>1, <2>1 DEF FinalHolds
    <2>2. CASE settled # Unsettled
      <3>1. fd[w] = tmp /\ tmp # NoFile
        BY <1>1, <1>3, <2>2 DEF SaverOwnsTmp
      <3>2. final # NoFile => data'[final] = data[final]
        BY <1>2, <3>1 DEF FileTypeOK
      <3>3. QED
        BY <1>1, <2>2, <3>2, HoldsUnchanged DEF FinalHolds
    <2>3. QED
      BY <2>1, <2>2
  <1>10. PrevHolds'
    <2>1. ASSUME prev # final, before # Unsettled
          PROVE  Holds(data', prev, before) /\ \A u \in Savers : pc'[u] = "opened" => fd'[u] # prev
      <3>1. fd[w] # prev /\ Holds(data, prev, before)
        BY <1>1, <2>1 DEF PrevHolds
      <3>2. prev # NoFile => data'[prev] = data[prev]
        BY <1>2, <3>1 DEF FileTypeOK
      <3>3. \A u \in Savers : pc'[u] = "opened" => u # w /\ pc[u] = "opened" /\ fd'[u] = fd[u]
        BY <1>1, <1>2 DEF FileTypeOK
      <3>4. QED
        BY <1>1, <2>1, <3>1, <3>2, <3>3, HoldsUnchanged DEF PrevHolds
    <2>2. QED
      BY <1>1, <2>1 DEF PrevHolds
  <1>11. QED
    BY <1>7, <1>8, <1>9, <1>10

\* The rename of a lone saver installs its text; a rename that finds no .tmp file
\* means savers overlapped.
LEMMA RenameKeepsInv ==
    ASSUME FileInv, NEW w \in Savers, Rename(w)
    PROVE  FileInv'
  <1> USE DEF FileInv
  <1>1. /\ pc[w] = "written"
        /\ pc' = [pc EXCEPT ![w] = "idle"]
        /\ UNCHANGED <<data, fd, value, alone>>
    BY DEF Rename, Finish
  <1>2. w \in Saving /\ value[w] \in Values
    BY <1>1 DEF FileTypeOK, Saving
  <1>3. Saving' = Saving \ {w}
    BY <1>1 DEF FileTypeOK, Saving
  <1>4. \A u \in Saving' : ~alone'[u]
    BY <1>1, <1>2, <1>3 DEF SaverOwnsTmp
  <1>5. CASE /\ tmp # NoFile
             /\ final' = tmp
             /\ tmp' = NoFile
             /\ prev' = final
             /\ settled' = IF alone[w] THEN value[w] ELSE settled
             /\ before' = settled
    <2>1. FileTypeOK'
      BY <1>1, <1>2, <1>3, <1>5 DEF FileTypeOK, Saving
    <2>2. settled' # Unsettled => alone[w]
      BY <1>2, <1>5 DEF SaverOwnsTmp
    <2>3. SaverOwnsTmp'
      BY <1>2, <1>3, <1>4, <2>2 DEF SaverOwnsTmp
    <2>4. FinalHolds'
      <3>1. SUFFICES ASSUME alone[w]
                     PROVE  Holds(data', final', value[w])
        BY <1>1, <1>5, <2>2 DEF FinalHolds
      <3>2. data'[final'] = Text(value[w]) /\ final' # NoFile
        BY <1>1, <1>2, <1>5, <3>1 DEF SaverOwnsTmp
      <3>3. value[w] # NoSave
        BY <1>2, SavedFileAssumption
      <3>4. QED
        BY <1>1, <3>2, <3>3 DEF Holds
    <2>5. PrevHolds'
      <3>1. settled # Unsettled => Saving' = {}
        BY <1>2, <1>3 DEF SaverOwnsTmp
      <3>2. settled # Unsettled => Holds(data', final, settled)
        BY <1>1, HoldsUnchanged DEF FinalHolds
      <3>3. QED
        BY <1>5, <3>1, <3>2 DEF PrevHolds, Saving
    <2>6. QED
      BY <2>1, <2>3, <2>4, <2>5
  <1>6. CASE tmp = NoFile /\ UNCHANGED <<tmp, final, prev, settled, before>>
    <2>1. FileTypeOK'
      BY <1>1, <1>3, <1>6 DEF FileTypeOK, Saving
    <2>2. settled = Unsettled
      BY <1>2, <1>6 DEF SaverOwnsTmp
    <2>3. PrevHolds'
      <3>1. \A u \in Savers : pc'[u] = "opened" => pc[u] = "opened"
        BY <1>1 DEF FileTypeOK
      <3>2. QED
        BY <1>1, <1>6, <3>1, HoldsUnchanged DEF PrevHolds
    <2>4. QED
      BY <1>4, <1>6, <2>1, <2>2, <2>3 DEF SaverOwnsTmp, FinalHolds
  <1>7. QED
    BY <1>5, <1>6 DEF Rename

\* A saver that dies leaves at most a .tmp file.
LEMMA KillKeepsInv ==
    ASSUME FileInv, NEW w \in Savers, Kill(w)
    PROVE  FileInv'
  <1> USE DEF FileInv
  <1>1. /\ pc' = [pc EXCEPT ![w] = "idle"]
        /\ fd' = [fd EXCEPT ![w] = NoFile]
        /\ UNCHANGED <<data, tmp, final, prev, value, alone, settled, before>>
        /\ w \in Saving
    BY DEF Kill, Saving
  <1>2. Saving' = Saving \ {w}
    BY <1>1 DEF FileTypeOK, Saving
  <1>3. FileTypeOK'
    BY <1>1, <1>2 DEF FileTypeOK, Saving
  <1>4. \A u \in Saving' : ~alone'[u]
    BY <1>1, <1>2 DEF SaverOwnsTmp
  <1>5. SaverOwnsTmp'
    BY <1>1, <1>2, <1>4 DEF SaverOwnsTmp
  <1>6. FinalHolds'
    BY <1>1, HoldsUnchanged DEF FinalHolds
  <1>7. PrevHolds'
    <2>1. \A u \in Savers : pc'[u] = "opened" => pc[u] = "opened" /\ fd'[u] = fd[u]
      BY <1>1 DEF FileTypeOK
    <2>2. QED
      BY <1>1, <2>1, HoldsUnchanged DEF PrevHolds
  <1>8. QED
    BY <1>3, <1>5, <1>6, <1>7

\* A file that held s holds it after the loss of data if all of it is left, and
\* pieces of a text otherwise.
LEMMA LossLeavesPieces ==
    ASSUME NEW f \in Files, NEW s \in Values \cup {NoSave}, Holds(data, f, s),
           NEW b \in Remains(f), NEW e, e[f] = b
    PROVE  Holds(e, f, AfterLoss(s, b = data[f]))
  <1>1. f # NoFile /\ NoSave \notin Values /\ Unsettled \notin Values \cup {NoSave}
    BY SavedFileAssumption
  <1>2. CASE b = data[f]
    BY <1>1, <1>2, HoldsUnchanged DEF AfterLoss
  <1>3. CASE b # data[f]
    <2>1. PICK n \in 0 .. Len(data[f]) : b = SubSeq(data[f], 1, n)
      BY <1>1 DEF Remains
    <2>2. \E v \in Values : \E k \in 0 .. Size(v) : data[f] = Blocks(v, k)
      <3>1. \A v \in Values : Size(v) \in Nat
        BY SavedFileAssumption
      <3>2. CASE s = NoSave
        BY <1>1, <3>1, <3>2 DEF Holds
      <3>3. CASE s # NoSave
        BY <3>1, <3>3 DEF Holds, Text
      <3>4. QED
        BY <3>2, <3>3
    <2>3. PICK v \in Values : \E k \in 0 .. Size(v) : data[f] = Blocks(v, k)
      BY <2>2
    <2>4. PICK k \in 0 .. Size(v) : data[f] = Blocks(v, k)
      BY <2>3
    <2>5. Size(v) \in Nat /\ k \in Nat
      BY <2>4, SavedFileAssumption
    <2>6. Len(data[f]) = k
      BY <2>4, <2>5, BlocksType
    <2>7. b = Blocks(v, n)
      BY <2>1, <2>4, <2>5, <2>6, BlocksPrefix
    <2>8. n < k
      BY <1>3, <2>1, <2>4, <2>5, <2>6, <2>7
    <2>9. n \in 0 .. Size(v) - 1
      BY <2>1, <2>4, <2>5, <2>8
    <2>10. AfterLoss(s, b = data[f]) = NoSave
      BY <1>1, <1>3 DEF AfterLoss
    <2>11. QED
      BY <1>1, <2>7, <2>9, <2>10 DEF Holds
  <1>4. QED
    BY <1>2, <1>3

\* However the directory comes back, if its final entry is to a file that holds what
\* it should, the invariant does.
LEMMA ComesBackKeepsInv ==
    ASSUME FileInv, NEW t \in Files \cup {NoFile}, NEW f \in Files \cup {NoFile},
           t = f => t = NoFile,
           NEW a \in Remains(t), NEW b \in Remains(f),
           NEW s \in Values \cup {NoSave, Unsettled}, s # Unsettled => Holds(data, f, s),
           ComesBack(t, f, a, b, s)
    PROVE  FileInv'
  <1> USE DEF FileInv
  <1> DEFINE s2 == AfterLoss(s, f = NoFile \/ b = data[f])
  <1>1. /\ tmp' = t /\ final' = f /\ prev' = f
        /\ data' = [g \in Files |-> IF g = f THEN b ELSE IF g = t THEN a ELSE data[g]]
        /\ settled' = s2 /\ before' = s2
        /\ pc' = [w \in Savers |-> "idle"]
        /\ fd' = [w \in Savers |-> NoFile]
        /\ UNCHANGED <<value, alone>>
        /\ Saving' = {}
    BY DEF ComesBack, Saving
  <1>2. ASSUME NEW g \in Files \cup {NoFile}, NEW d \in Remains(g) PROVE d \in Seq(Values)
    <2>1. CASE g = NoFile
      BY <1>2, <2>1 DEF Remains
    <2>2. CASE g # NoFile
      <3>1. data[g] \in Seq(Values)
        BY <2>2 DEF FileTypeOK
      <3>2. PICK n \in 0 .. Len(data[g]) : d = SubSeq(data[g], 1, n)
        BY <1>2, <2>2 DEF Remains
      <3>3. QED
        BY <3>1, <3>2
    <2>3. QED
      BY <2>1, <2>2
  <1>3. FileTypeOK'
    <2>1. data' \in [Files -> Seq(Values)]
      BY <1>1, <1>2 DEF FileTypeOK
    <2>2. s2 \in Values \cup {NoSave, Unsettled}
      BY DEF AfterLoss
    <2>3. QED
      BY <1>1, <2>1, <2>2 DEF FileTypeOK
  <1>4. SaverOwnsTmp'
    BY <1>1 DEF SaverOwnsTmp
  <1>5. FinalHolds'
    <2>1. SUFFICES ASSUME s2 # Unsettled PROVE Holds(data', f, s2)
      BY <1>1 DEF FinalHolds
    <2>2. s # Unsettled
      BY <2>1 DEF AfterLoss
    <2>3. CASE f = NoFile
      <3>1. s2 = s
        BY <2>3 DEF AfterLoss
      <3>2. QED
        BY <2>2, <2>3, <3>1 DEF Holds
    <2>4. CASE f # NoFile
      <3>1. f \in Files /\ data'[f] = b /\ Holds(data, f, s)
        BY <1>1, <2>2, <2>4
      <3>2. s2 = AfterLoss(s, b = data[f])
        BY <2>4
      <3>3. QED
        BY <2>2, <3>1, <3>2, LossLeavesPieces
    <2>5. QED
      BY <2>3, <2>4
  <1>6. PrevHolds'
    BY <1>1 DEF PrevHolds
  <1>7. QED
    BY <1>3, <1>4, <1>5, <1>6

\* With the power the end of files may be lost, and the last rename.
LEMMA PowerLossKeepsInv ==
    ASSUME FileInv, PowerLoss
    PROVE  FileInv'
  <1>1. CASE \E a \in Remains(tmp), b \in Remains(final) : ComesBack(tmp, final, a, b, settled)
    BY <1>1, ComesBackKeepsInv DEF FileInv, FileTypeOK, FinalHolds
  <1>2. CASE /\ prev # final
             /\ \E a \in Remains(final), b \in Remains(prev) : ComesBack(final, prev, a, b, before)
    BY <1>2, ComesBackKeepsInv DEF FileInv, FileTypeOK, PrevHolds
  <1>3. QED
    BY <1>1, <1>2 DEF PowerLoss

-----------------------------------------------------------------------------
(* Theorems                                                                 *)

\* The invariant holds initially, with no file at all,
LEMMA InitInv == Init => FileInv
  <1> SUFFICES ASSUME Init PROVE FileInv
    OBVIOUS
  <1>1. Saving = {}
    BY DEF Init, Saving
  <1>2. FileTypeOK
    BY <1>1 DEF Init, FileTypeOK
  <1>3. SaverOwnsTmp
    BY <1>1 DEF SaverOwnsTmp
  <1>4. FinalHolds /\ PrevHolds
    BY DEF Init, Holds, FinalHolds, PrevHolds
  <1>5. QED
    BY <1>2, <1>3, <1>4 DEF FileInv

\* and every step keeps it.
LEMMA NextInv == FileInv /\ [Next]_vars => FileInv'
  <1> SUFFICES ASSUME FileInv, [Next]_vars PROVE FileInv'
    OBVIOUS
  <1>1. CASE PowerLoss
    BY <1>1, PowerLossKeepsInv
  <1>2. ASSUME NEW w \in Savers, NEW v \in Values, OpenTmp(w, v) PROVE FileInv'
    BY <1>2, OpenTmpKeepsInv
  <1>3. ASSUME NEW w \in Savers, WriteTmp(w) PROVE FileInv'
    BY <1>3, WriteTmpKeepsInv
  <1>4. ASSUME NEW w \in Savers, Rename(w) PROVE FileInv'
    BY <1>4, RenameKeepsInv
  <1>5. ASSUME NEW w \in Savers, Kill(w) PROVE FileInv'
    BY <1>5, KillKeepsInv
  <1>6. CASE UNCHANGED vars
    BY <1>6 DEF vars, FileInv, FileTypeOK, SaverOwnsTmp, FinalHolds, PrevHolds, Holds, Saving
  <1>7. QED
    BY <1>1, <1>2, <1>3, <1>4, <1>5, <1>6 DEF Next

\* While savers take turns, load_snapshot and load_checkpoint give what the last
\* successful save was given, through failed writes and killed processes; power losses
\* may take it back to the save before or to none, never to a part of one
\* (snapshot.rs:64-120, projection.rs:87-130, process_manager.rs:106-149).
THEOREM ReadersSeeWholeSaves == Spec => []LoadsAreWholeSaves
  <1>1. FileInv => LoadsAreWholeSaves
    BY HeldIsLoaded DEF FileInv, FileTypeOK, FinalHolds, LoadsAreWholeSaves
  <1>2. QED
    BY InitInv, NextInv, <1>1, PTL DEF Spec

\* The entries and open files have their types, and the two directory entries never
\* point to one file.
THEOREM FilesAreTyped == Spec => []FileTypeOK
  <1>1. FileInv => FileTypeOK
    BY DEF FileInv
  <1>2. QED
    BY InitInv, NextInv, <1>1, PTL DEF Spec

\* A saver that nobody overlaps owns the .tmp file from its open to its rename.
THEOREM SoloSaverOwnsTmp == Spec => []SaverOwnsTmp
  <1>1. FileInv => SaverOwnsTmp
    BY DEF FileInv
  <1>2. QED
    BY InitInv, NextInv, <1>1, PTL DEF Spec

=============================================================================
