------------------------ MODULE BootstrapFilesProofs ------------------------
(***************************************************************************)
(* Theorems about one read of a bootstrap file (BootstrapFiles.tla), for   *)
(* any set of files, any length of them, any maximum and any number of     *)
(* changes.                                                                *)
(*                                                                         *)
(* What carries the proofs is time: a change stamps the file with a time   *)
(* later than any stamp seen before, so that as long as the stamp of the   *)
(* opened file is the one of the first fstat, what has been read is the    *)
(* beginning of what the file holds now.                                   *)
(***************************************************************************)
EXTENDS BootstrapFiles, SequenceTheorems, TLAPS

\* No stamp is later than the clock.
TimesInv ==
    /\ opened <= clock
    /\ \A f \in Files : files[f].time <= clock

\* What the stages have set so far, and whose cells are where.
ProgressInv ==
    /\ stage = "closed" => fd = None
    /\ stage \in {"opened", "reading", "read", "accepted"} => fd \in Files
    /\ stage \in {"closed", "opened"} => payload = <<>>
    /\ \A f \in Files : \A i \in 1..Len(files[f].cells) : files[f].cells[i].file = f
    /\ \A i \in 1..Len(payload) : payload[i].file = fd

\* What the first fstat returned is lawful, and not from the future.
SeenInv ==
    stage \in {"reading", "read"} =>
        /\ seen \in [mode : Modes, size : Nat, time : 0..clock]
        /\ Lawful(seen)

Begins(s, t) == Len(s) <= Len(t) /\ \A i \in 1..Len(s) : s[i] = t[i]

\* As long as the stamp is the one that was seen, nothing has changed.
StampInv ==
    stage \in {"reading", "read"} /\ files[fd].time = seen.time =>
        /\ seen = Metadata(fd)
        /\ Begins(payload, files[fd].cells)
        /\ stage = "read" => payload = files[fd].cells

\* A file without a change since it was opened still has that stamp.
QuietInv ==
    fd # None /\ files[fd].time <= opened =>
        /\ stage \in {"reading", "read"} => files[fd].time = seen.time
        /\ stage = "accepted" => Lawful(Metadata(fd)) /\ payload = files[fd].cells
        /\ stage = "refused" => ~Lawful(Metadata(fd))

FilesInv == FilesTypeOK /\ TimesInv /\ ProgressInv /\ SeenInv /\ StampInv /\ QuietInv
-----------------------------------------------------------------------------
(* The steps *)

\* Initial states satisfy the invariant: nothing is open.
LEMMA FilesInitially == Init => FilesInv
<1> SUFFICES ASSUME Init PROVE FilesInv
    OBVIOUS
<1> USE FilesAssumption
<1>1. PICK mode \in [Files -> Modes \cup {"fifo", "special"}], length \in [Files -> 0..MaxLength] :
        files = [f \in Files |->
                   [mode |-> mode[f], time |-> 0,
                    cells |-> [i \in 1..length[f] |-> [file |-> f, written |-> 0]]]]
    BY DEF Init
<1>2. ASSUME NEW f \in Files
      PROVE  /\ files[f] \in File /\ files[f].time = 0
             /\ Len(files[f].cells) = length[f]
             /\ \A i \in 1..Len(files[f].cells) : files[f].cells[i].file = f
  <2> DEFINE c == [i \in 1..length[f] |-> [file |-> f, written |-> 0]]
  <2>1. length[f] \in Nat
      BY <1>1
  <2>2. c \in Seq(Cell) /\ Len(c) = length[f]
    <3>1. c \in [1..length[f] -> Cell]
        BY <2>1 DEF Cell
    <3> HIDE DEF c
    <3> QED
        BY <2>1, <3>1
  <2>3. files[f] = [mode |-> mode[f], time |-> 0, cells |-> c]
      BY <1>1
  <2>4. \A i \in 1..length[f] : c[i].file = f
      OBVIOUS
  <2> HIDE DEF c
  <2>5. files[f] \in File
      BY <1>1, <2>2, <2>3 DEF File
  <2> QED
      BY <2>1, <2>2, <2>3, <2>4, <2>5
<1>3. files \in [Files -> File]
    BY <1>1, <1>2
<1>4. FilesTypeOK
    BY <1>3 DEF Init, FilesTypeOK
<1>5. TimesInv
    BY <1>2 DEF Init, TimesInv
<1>6. ProgressInv
    BY <1>2 DEF Init, ProgressInv
<1> QED
    BY <1>4, <1>5, <1>6 DEF Init, FilesInv, SeenInv, StampInv, QuietInv

\* The read leaves the files alone; every one of its steps keeps the invariant.
LEMMA ReadKeepsInv ==
    ASSUME FilesInv, Step \/ WriterComes
    PROVE  FilesInv'
<1> USE FilesAssumption
<1> USE DEF FilesInv, TimesInv, ProgressInv, SeenInv, StampInv, QuietInv
<1>o. ASSUME Opens, stage = "closed" PROVE FilesInv'
    BY <1>o DEF Opens, fileSystem, FilesTypeOK, File, Lawful, Metadata
<1>r. ASSUME End("refused"), stage = "closed" PROVE FilesInv'
    BY <1>r DEF End, fileSystem, FilesTypeOK
<1>1. CASE Open
    BY <1>1, <1>o, <1>r DEF Open
<1>2. CASE WriterComes
    BY <1>2, <1>o DEF WriterComes
<1>3. CASE Stat
  <2>1. files[fd] \in File /\ fd \in Files
      BY <1>3 DEF Stat, FilesTypeOK
  <2>2. Metadata(fd) \in [mode : Modes \cup {"fifo", "special"}, size : Nat, time : 0..clock]
      BY <2>1 DEF Metadata, File, FilesTypeOK
  <2>3. CASE ~Lawful(Metadata(fd)) /\ End("refused")
      BY <1>3, <2>1, <2>3 DEF Stat, End, fileSystem, FilesTypeOK, Metadata, Lawful
  <2>4. CASE /\ Lawful(Metadata(fd)) /\ seen' = Metadata(fd) /\ stage' = "reading"
             /\ UNCHANGED <<purpose, fileSystem, fd, opened, payload>>
    <3>1. Lawful(seen)' /\ seen' \in [mode : Modes, size : Nat, time : 0..clock]
        BY <2>2, <2>4 DEF Lawful, Modes
    <3>2. Begins(payload, files[fd].cells)' /\ Metadata(fd)' = Metadata(fd)
        BY <1>3, <2>1, <2>4 DEF Stat, Begins, fileSystem, Metadata, File, FilesTypeOK
    <3>3. FilesTypeOK'
        BY <2>1, <2>4 DEF FilesTypeOK, fileSystem, Lawful
    <3>4. TimesInv' /\ ProgressInv'
        BY <1>3, <2>1, <2>4 DEF Stat, fileSystem
    <3>5. SeenInv' /\ StampInv'
        BY <2>4, <3>1, <3>2 DEF fileSystem
    <3>6. QuietInv'
        BY <2>4, <3>2 DEF fileSystem, Metadata
    <3> QED
        BY <3>3, <3>4, <3>5, <3>6
  <2> QED
      BY <1>3, <2>3, <2>4 DEF Stat, Examined
<1>4. CASE ReadSome
  <2>1. fd \in Files /\ files[fd] \in File /\ payload \in Seq(Cell) /\ Len(payload) \in Nat
      BY <1>4 DEF ReadSome, FilesTypeOK
  <2>2. files[fd].cells \in Seq(Cell) /\ Len(files[fd].cells) \in Nat
      BY <2>1 DEF File
  <2>3. Len(payload) # MaxBytes + 1 /\ Len(payload) < Len(files[fd].cells)
      BY <1>4, <2>1, <2>2 DEF ReadSome, AtEnd, Asked
  <2> DEFINE c == files[fd].cells[Len(payload) + 1]
  <2>4. Len(payload) + 1 \in 1..Len(files[fd].cells)
      BY <2>1, <2>2, <2>3
  <2>5. c \in Cell /\ c.file = fd
      BY <2>1, <2>2, <2>4
  <2>6. payload' = Append(payload, c)
      BY <1>4 DEF ReadSome
  <2> HIDE DEF c
  <2>7. /\ payload' \in Seq(Cell) /\ Len(payload') = Len(payload) + 1
        /\ \A i \in 1..Len(payload) : payload'[i] = payload[i]
        /\ payload'[Len(payload) + 1] = c
      BY <2>1, <2>5, <2>6
  <2>8. FilesTypeOK'
      BY <1>4, <2>1, <2>3, <2>7 DEF ReadSome, FilesTypeOK, fileSystem
  <2>9. ProgressInv'
      BY <1>4, <2>1, <2>5, <2>7 DEF ReadSome, fileSystem
  <2>10. ASSUME Begins(payload, files[fd].cells) PROVE Begins(payload, files[fd].cells)'
      BY <1>4, <2>1, <2>2, <2>3, <2>7, <2>10 DEF ReadSome, fileSystem, Begins, c
  <2> QED
      BY <1>4, <2>8, <2>9, <2>10 DEF ReadSome, fileSystem, Metadata, Lawful
<1>e. ASSUME stage = "reading", AtEnd
      PROVE  /\ fd \in Files /\ Len(payload) \in Nat /\ Len(files[fd].cells) \in Nat
             /\ Len(payload) = seen.size => Len(files[fd].cells) <= Len(payload)
             /\ files[fd].time = seen.time =>
                  Lawful(Metadata(fd)) /\ Len(payload) = seen.size /\ payload = files[fd].cells
  <2>1. fd \in Files /\ files[fd] \in File /\ payload \in Seq(Cell) /\ Len(payload) \in Nat
      BY <1>e DEF FilesTypeOK
  <2>2. files[fd].cells \in Seq(Cell) /\ Len(files[fd].cells) \in Nat
      BY <2>1 DEF File
  <2>3. seen.size \in Nat /\ seen.size <= MaxBytes
      BY <1>e DEF Lawful
  <2>4. Len(payload) = MaxBytes + 1 \/ Len(payload) >= Len(files[fd].cells)
      BY <1>e DEF AtEnd, Asked
  <2>5. ASSUME files[fd].time = seen.time
        PROVE  Lawful(Metadata(fd)) /\ Len(payload) = seen.size /\ payload = files[fd].cells
    <3>1. seen = Metadata(fd) /\ Begins(payload, files[fd].cells)
        BY <1>e, <2>5
    <3>2. Len(files[fd].cells) = seen.size /\ Lawful(Metadata(fd))
        BY <1>e, <3>1 DEF Metadata
    <3>3. Len(payload) = Len(files[fd].cells)
        BY <2>1, <2>2, <2>3, <2>4, <3>1, <3>2 DEF Begins
    <3> QED
        BY <2>1, <2>2, <3>1, <3>2, <3>3, SeqEqual DEF Begins
  <2> QED
      BY <2>1, <2>2, <2>3, <2>4, <2>5
<1>5. CASE FinishPrivate
    BY <1>5, <1>e DEF FinishPrivate, End, fileSystem, FilesTypeOK, Metadata, Lawful
<1>6. CASE FinishControl
    BY <1>6, <1>e DEF FinishControl, End, fileSystem, FilesTypeOK, Metadata, Lawful
<1>7. CASE StatAgain
    BY <1>7 DEF StatAgain, End, Unchanged, fileSystem, FilesTypeOK, Metadata, Lawful
<1> QED
    BY <1>1, <1>2, <1>3, <1>4, <1>5, <1>6, <1>7 DEF Step

\* A change leaves a well-formed file, whose cells are its own, under a new stamp.
LEMMA ChangeStamps ==
    ASSUME FilesInv, clock < MaxChanges, NEW f \in Files,
           Overwrite(f) \/ Extend(f) \/ Truncate(f) \/ Chmod(f)
    PROVE  /\ UNCHANGED entry
           /\ \E g \in File :
                /\ files' = [files EXCEPT ![f] = g]
                /\ g.time = clock + 1
                /\ \A i \in 1..Len(g.cells) : g.cells[i].file = f
<1> USE FilesAssumption
<1> DEFINE old == files[f]
           cells == old.cells
           n == Len(cells)
           new == [file |-> f, written |-> clock + 1]
<1>1. /\ old \in File /\ cells \in Seq(Cell) /\ n \in Nat
      /\ clock + 1 \in 0..MaxChanges
    BY DEF FilesInv, FilesTypeOK, File
<1>2. new \in Cell /\ new.file = f /\ \A i \in 1..n : cells[i].file = f
    BY <1>1 DEF FilesInv, ProgressInv, Cell
<1>3. ASSUME NEW g \in File, Change(f, g), \A i \in 1..Len(g.cells) : g.cells[i].file = f
      PROVE  /\ UNCHANGED entry
             /\ \E h \in File :
                  /\ files' = [files EXCEPT ![f] = h]
                  /\ h.time = clock + 1
                  /\ \A i \in 1..Len(h.cells) : h.cells[i].file = f
  <2> DEFINE h == [g EXCEPT !.time = clock + 1]
  <2>1. h \in File /\ h.time = clock + 1 /\ h.cells = g.cells
      BY <1>1 DEF File
  <2>2. \A i \in 1..Len(h.cells) : h.cells[i].file = f
      BY <1>3, <2>1
  <2>3. UNCHANGED entry /\ files' = [files EXCEPT ![f] = h]
      BY <1>3 DEF Change
  <2> HIDE DEF h
  <2> QED
      BY <2>1, <2>2, <2>3
<1>c. ASSUME NEW s \in Seq(Cell), \A i \in 1..Len(s) : s[i].file = f,
             Change(f, [old EXCEPT !.cells = s])
      PROVE  /\ UNCHANGED entry
             /\ \E h \in File :
                  /\ files' = [files EXCEPT ![f] = h]
                  /\ h.time = clock + 1
                  /\ \A i \in 1..Len(h.cells) : h.cells[i].file = f
  <2> DEFINE g == [old EXCEPT !.cells = s]
  <2>1. g \in File /\ g.cells = s
      BY <1>1 DEF File
  <2>2. \A i \in 1..Len(g.cells) : g.cells[i].file = f
      BY <1>c, <2>1
  <2>3. Change(f, g)
      BY <1>c
  <2> HIDE DEF g
  <2> QED
      BY <1>3, <2>1, <2>2, <2>3
<1>4. CASE Overwrite(f)
  <2>1. PICK i \in DOMAIN cells : Change(f, [old EXCEPT !.cells[i] = new])
      BY <1>4 DEF Overwrite, NewCell
  <2> DEFINE s == [cells EXCEPT ![i] = new]
  <2>2. i \in 1..n
      BY <1>1, <2>1
  <2>3. s \in Seq(Cell) /\ Len(s) = n /\ \A j \in 1..n : s[j] = IF j = i THEN new ELSE cells[j]
      BY <1>1, <1>2, <2>2, ExceptSeq
  <2>4. Change(f, [old EXCEPT !.cells = s])
      BY <2>1
  <2> HIDE DEF s
  <2>5. \A j \in 1..Len(s) : s[j].file = f
      BY <1>2, <2>3
  <2> QED
      BY <1>c, <2>3, <2>4, <2>5
<1>5. CASE Extend(f)
  <2> DEFINE s == Append(cells, new)
  <2>1. s \in Seq(Cell) /\ Len(s) = n + 1 /\ \A j \in 1..(n + 1) : s[j] = IF j = n + 1 THEN new ELSE cells[j]
      BY <1>1, <1>2
  <2>2. Change(f, [old EXCEPT !.cells = s])
      BY <1>5 DEF Extend, NewCell
  <2> HIDE DEF s
  <2>3. \A j \in 1..Len(s) : s[j].file = f
    <3> TAKE j \in 1..Len(s)
    <3>1. j = n + 1 \/ j \in 1..n
        BY <1>1, <2>1
    <3> QED
        BY <1>1, <1>2, <2>1, <3>1
  <2> QED
      BY <1>c, <2>1, <2>2, <2>3
<1>6. CASE Truncate(f)
  <2> DEFINE s == SubSeq(cells, 1, n - 1)
  <2>1. n # 0
      BY <1>1, <1>6 DEF Truncate
  <2>2. s \in Seq(Cell) /\ Len(s) = n - 1 /\ \A j \in 1..(n - 1) : s[j] = cells[j]
      BY <1>1, <2>1
  <2>3. Change(f, [old EXCEPT !.cells = s])
      BY <1>6 DEF Truncate
  <2> HIDE DEF s
  <2>4. \A j \in 1..Len(s) : s[j].file = f
      BY <1>1, <1>2, <2>2
  <2> QED
      BY <1>c, <2>2, <2>3, <2>4
<1>7. CASE Chmod(f)
  <2>1. PICK m \in Modes : Change(f, [old EXCEPT !.mode = m])
      BY <1>7 DEF Chmod
  <2> DEFINE g == [old EXCEPT !.mode = m]
  <2>2. g \in File /\ g.cells = cells
      BY <1>1 DEF File
  <2>3. \A i \in 1..Len(g.cells) : g.cells[i].file = f
      BY <1>2, <2>2
  <2>4. Change(f, g)
      BY <2>1
  <2> HIDE DEF g
  <2> QED
      BY <1>3, <2>2, <2>3, <2>4
<1> QED
    BY <1>4, <1>5, <1>6, <1>7

\* What other processes do keeps the invariant: they change a file under a
\* new stamp, or the path, which the read looks at only to open.
LEMMA InterferenceKeepsInv ==
    ASSUME FilesInv, Interfere
    PROVE  FilesInv'
<1> USE FilesAssumption
<1> USE DEF FilesInv, TimesInv, ProgressInv, SeenInv, StampInv, QuietInv
<1>0. /\ clock' = clock + 1 /\ clock' \in 0..MaxChanges /\ clock \in Nat
      /\ UNCHANGED <<purpose, stage, fd, opened, seen, payload>>
    BY DEF Interfere, FilesTypeOK
<1>1. CASE Repoint
    BY <1>0, <1>1 DEF Repoint, FilesTypeOK, File, Metadata, Lawful
<1>2. ASSUME NEW f \in Files, Overwrite(f) \/ Extend(f) \/ Truncate(f) \/ Chmod(f)
      PROVE  FilesInv'
  <2>1. PICK g \in File : /\ files' = [files EXCEPT ![f] = g] /\ g.time = clock + 1
                          /\ \A i \in 1..Len(g.cells) : g.cells[i].file = f
      BY <1>2, ChangeStamps DEF Interfere
  <2>2. UNCHANGED entry
      BY <1>2, ChangeStamps DEF Interfere
  <2>3. FilesTypeOK'
      BY <1>0, <2>1, <2>2 DEF FilesTypeOK
  <2>4. files'[f] = g /\ \A h \in Files \ {f} : files'[h] = files[h]
      BY <2>1 DEF FilesTypeOK
  <2>5. \A h \in Files : files[h].time \in Nat
      BY DEF FilesTypeOK, File
  <2>6. TimesInv'
      BY <1>0, <2>1, <2>4, <2>5 DEF FilesTypeOK
  <2>7. ProgressInv'
      BY <1>0, <2>1, <2>4
  <2>8. SeenInv'
      BY <1>0 DEF Lawful
  <2>9. StampInv'
    <3>1. CASE fd = f
        BY <1>0, <2>1, <2>4, <3>1
    <3>2. CASE fd # f
        BY <1>0, <2>4, <3>2 DEF Metadata
    <3> QED
        BY <3>1, <3>2
  <2>10. QuietInv'
    <3>1. CASE fd = f
        BY <1>0, <2>1, <2>4, <3>1 DEF FilesTypeOK
    <3>2. CASE fd # f
        BY <1>0, <2>4, <3>2 DEF Metadata, Lawful, FilesTypeOK
    <3> QED
        BY <3>1, <3>2
  <2> QED
      BY <2>3, <2>6, <2>7, <2>8, <2>9, <2>10
<1> QED
    BY <1>1, <1>2 DEF Interfere

\* Every step keeps the invariant.
LEMMA NextKeepsFilesInv == FilesInv /\ [Next]_vars => FilesInv'
<1> SUFFICES ASSUME FilesInv, [Next]_vars PROVE FilesInv'
    OBVIOUS
<1>1. CASE Step \/ WriterComes
    BY <1>1, ReadKeepsInv
<1>2. CASE Interfere
    BY <1>2, InterferenceKeepsInv
<1>3. CASE UNCHANGED vars
    BY <1>3 DEF vars, fileSystem, FilesInv, FilesTypeOK, TimesInv, ProgressInv, SeenInv,
        StampInv, QuietInv, Metadata, Lawful
<1> QED
    BY <1>1, <1>2, <1>3 DEF Next
-----------------------------------------------------------------------------
(* The theorems *)

\* Whatever happens to the files, the invariant holds at every step of a read.
THEOREM ReadsCorrect == Spec => []FilesInv
<1> QED
    BY FilesInitially, NextKeepsFilesInv, PTL DEF Spec

\* The variables keep their types: a read never takes more than one byte
\* beyond the maximum.
THEOREM ReadsTyped == Spec => []FilesTypeOK
<1>1. FilesInv => FilesTypeOK
    BY DEF FilesInv
<1> QED
    BY <1>1, ReadsCorrect, PTL

\* A file that is not changed between its opening and the end of the read
\* decides the outcome alone: accepted exactly if it is lawful, with its bytes
\* (read_protected_bootstrap_file and read_secrets_control_configuration).
THEOREM QuietFilesDecide == Spec => []OpenedFileDecides
<1>1. FilesInv => OpenedFileDecides
    BY DEF FilesInv, QuietInv, OpenedFileDecides
<1> QED
    BY <1>1, ReadsCorrect, PTL

\* In the state in which a read is accepted.
LEMMA Acceptance ==
    ASSUME FilesInv, [Next]_vars, stage # "accepted", stage' = "accepted"
    PROVE  /\ fd \in Files /\ payload \in Seq(Cell)
           /\ Len(payload) <= MaxBytes /\ Len(files[fd].cells) <= Len(payload)
           /\ purpose = "control" => payload = files[fd].cells
<1> USE FilesAssumption
<1>1. FinishPrivate \/ StatAgain
    BY DEF Next, Step, Open, Opens, Stat, ReadSome, FinishControl, End, Interfere, WriterComes,
        vars
<1>2. fd \in Files /\ files[fd].cells \in Seq(Cell) /\ payload \in Seq(Cell) /\ seen.size <= MaxBytes
      /\ Len(payload) \in Nat /\ Len(files[fd].cells) \in Nat /\ seen.size \in Nat
    BY <1>1 DEF FinishPrivate, StatAgain, FilesInv, FilesTypeOK, ProgressInv, SeenInv, Lawful, File
<1>3. CASE FinishPrivate
    BY <1>2, <1>3 DEF FinishPrivate, End, AtEnd, Asked
<1>4. CASE StatAgain
  <2>1. Metadata(fd).time = seen.time /\ stage = "read"
      BY <1>4 DEF StatAgain, End, Unchanged
  <2>2. files[fd].time = seen.time
      BY <2>1 DEF Metadata
  <2>3. payload = files[fd].cells /\ seen = Metadata(fd)
      BY <2>1, <2>2 DEF FilesInv, StampInv
  <2> QED
      BY <1>2, <2>3 DEF Metadata
<1> QED
    BY <1>1, <1>3, <1>4

\* What is accepted is never the beginning of something longer, and all of it
\* comes from the file that was opened.
THEOREM AcceptedWhole == Spec => NothingBeyondPayload
<1>1. ASSUME FilesInv, [Next]_vars, stage # "accepted", stage' = "accepted"
      PROVE  /\ Len(payload) \in 0..MaxBytes
             /\ Len(files[fd].cells) <= Len(payload)
             /\ \A i \in DOMAIN payload : payload[i].file = fd
  <2>1. /\ payload \in Seq(Cell) /\ Len(payload) <= MaxBytes
        /\ Len(files[fd].cells) <= Len(payload)
      BY <1>1, Acceptance
  <2> QED
      BY <1>1, <2>1, FilesAssumption DEF FilesInv, ProgressInv
<1>2. FilesInv /\ [Next]_vars =>
        [stage # "accepted" /\ stage' = "accepted" =>
           /\ Len(payload) \in 0..MaxBytes
           /\ Len(files[fd].cells) <= Len(payload)
           /\ \A i \in DOMAIN payload : payload[i].file = fd]_vars
    BY <1>1
<1> QED
    BY <1>2, ReadsCorrect, PTL DEF Spec, NothingBeyondPayload

\* An accepted control configuration is the contents of one file at one moment:
\* the comparison of the two fstat results excludes every mixture.
THEOREM ControlIsWhole == Spec => ControlIsSnapshot
<1>1. FilesInv /\ [Next]_vars =>
        [purpose = "control" /\ stage # "accepted" /\ stage' = "accepted" =>
           payload = files[fd].cells]_vars
    BY Acceptance
<1> QED
    BY <1>1, ReadsCorrect, PTL DEF Spec, ControlIsSnapshot
=============================================================================
