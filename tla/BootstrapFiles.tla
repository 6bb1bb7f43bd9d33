--------------------------- MODULE BootstrapFiles ---------------------------
(***************************************************************************)
(* How a starting process reads its configuration from a path that another *)
(* process may be changing: private inputs (bootstrap_files.py,            *)
(* read_protected_bootstrap_file, used for the master key and the          *)
(* credentials) and the public control configuration (control.py,          *)
(* read_secrets_control_configuration).                                    *)
(*                                                                         *)
(* One read is modelled, call by call; reads have no effect on each other. *)
(* The file system is external.  Bytes are cells, named by the change that *)
(* wrote them.                                                             *)
(***************************************************************************)
EXTENDS Naturals, Sequences

CONSTANTS
    Files,
    MaxBytes,       \* maximum_bytes, or MAX_CONTROL_BYTES
    MaxLength,      \* bound: the length of a file
    MaxChanges,     \* bound: changes to the files and to the path
    None

ASSUME FilesAssumption ==
    /\ MaxBytes \in Nat \ {0}
    /\ MaxLength \in Nat /\ MaxChanges \in Nat
    /\ None \notin Files /\ {"symlink", "missing", "malformed"} \cap Files = {}

VARIABLES
    purpose,    \* "private" or "control"
    entry,      \* what the configured path names
    files,
    clock,      \* counts changes
    stage,      \* where the read is
    fd,         \* the file it opened
    opened,     \* history: the clock when it was opened
    seen,       \* what the first fstat returned
    payload     \* the cells read

fileSystem == <<entry, files, clock>>
vars == <<purpose, fileSystem, stage, fd, opened, seen, payload>>

\* A regular file is "private" (no bit for group or others), "public" (0444)
\* or "shared" (any other mode); "special" is a directory or a device.
Modes == {"private", "public", "shared"}
Cell == [file: Files, written: 0..MaxChanges]

\* mtime and ctime: every change to a file, of its mode too, advances them.
File == [mode: Modes \cup {"fifo", "special"}, cells: Seq(Cell), time: 0..MaxChanges]

Metadata(f) ==
    [mode |-> files[f].mode, size |-> Len(files[f].cells), time |-> files[f].time]

FilesTypeOK ==
    /\ purpose \in {"private", "control"}
    /\ entry \in Files \cup {"symlink", "missing", "malformed"}
    /\ files \in [Files -> File]
    /\ clock \in 0..MaxChanges
    /\ stage \in {"closed", "opened", "reading", "read", "accepted", "refused"}
    /\ fd \in Files \cup {None} /\ opened \in 0..MaxChanges
    /\ seen # None => seen.size <= MaxBytes
    /\ payload \in Seq(Cell) /\ Len(payload) <= MaxBytes + 1

Init ==
    /\ purpose \in {"private", "control"}
    /\ entry \in Files \cup {"symlink", "missing", "malformed"}
    /\ \E mode \in [Files -> Modes \cup {"fifo", "special"}], length \in [Files -> 0..MaxLength] :
         /\ \A f \in Files : mode[f] \in Modes \/ length[f] = 0
         /\ files = [f \in Files |->
                       [mode |-> mode[f], time |-> 0,
                        cells |-> [i \in 1..length[f] |-> [file |-> f, written |-> 0]]]]
    /\ clock = 0
    /\ stage = "closed" /\ fd = None /\ opened = 0 /\ seen = None /\ payload = <<>>
-----------------------------------------------------------------------------
(* The read *)

End(outcome) == stage' = outcome /\ UNCHANGED <<purpose, fileSystem, fd, opened, seen, payload>>

\* A path that is not absolute is refused; O_NOFOLLOW refuses a link.
Opens ==
    /\ entry \in Files
    /\ fd' = entry /\ opened' = clock
    /\ stage' = "opened"
    /\ UNCHANGED <<purpose, fileSystem, seen, payload>>

\* Without O_NONBLOCK the open of a FIFO waits for a writer.
WaitsForWriter == purpose = "private" /\ entry \in Files /\ files[entry].mode = "fifo"

Open ==
    /\ stage = "closed" /\ ~WaitsForWriter
    /\ \/ entry \notin Files /\ End("refused")
       \/ Opens

\* Mutant: the path is examined, not what was opened.
ExaminedByPath == IF entry \in Files THEN entry ELSE fd

Examined == fd

\* Mutant: a file of any length is read.
LawfulOfAnyLength(m) == m.mode = IF purpose = "private" THEN "private" ELSE "public"

Lawful(m) ==
    /\ m.mode = IF purpose = "private" THEN "private" ELSE "public"
    /\ m.size <= MaxBytes
    /\ purpose = "private" => m.size > 0

Stat ==
    /\ stage = "opened"
    /\ \/ ~Lawful(Metadata(Examined)) /\ End("refused")
       \/ /\ Lawful(Metadata(Examined))
          /\ seen' = Metadata(Examined)
          /\ stage' = "reading"
          /\ UNCHANGED <<purpose, fileSystem, fd, opened, payload>>

\* Mutant: nothing beyond the maximum is asked for.
AskForMaximum == MaxBytes

Asked == MaxBytes + 1

AtEnd == Len(payload) = Asked \/ Len(payload) >= Len(files[fd].cells)

\* A read may return any part of what was asked for.
ReadSome ==
    /\ stage = "reading" /\ ~AtEnd
    /\ payload' = Append(payload, files[fd].cells[Len(payload) + 1])
    /\ UNCHANGED <<purpose, fileSystem, stage, fd, opened, seen>>

FinishPrivate ==
    /\ stage = "reading" /\ AtEnd /\ purpose = "private"
    /\ End(IF Len(payload) = seen.size THEN "accepted" ELSE "refused")

FinishControl == stage = "reading" /\ AtEnd /\ purpose = "control" /\ End("read")

\* Mutant: the times are not compared.
SameSize == Metadata(fd).size = seen.size

Unchanged == Metadata(fd).size = seen.size /\ Metadata(fd).time = seen.time

\* The second fstat; the codec that then decodes the bytes is external.
StatAgain ==
    /\ stage = "read"
    /\ End(IF Unchanged THEN "accepted" ELSE "refused")

Step == Open \/ Stat \/ ReadSome \/ FinishPrivate \/ FinishControl \/ StatAgain
-----------------------------------------------------------------------------
(* The process that changes the files (external) *)

Change(f, g) ==
    /\ files' = [files EXCEPT ![f] = [g EXCEPT !.time = clock + 1]]
    /\ UNCHANGED entry

NewCell(f) == [file |-> f, written |-> clock + 1]

Overwrite(f) ==
    \E i \in DOMAIN files[f].cells : Change(f, [files[f] EXCEPT !.cells[i] = NewCell(f)])

Extend(f) ==
    /\ files[f].mode \in Modes
    /\ Len(files[f].cells) < MaxLength
    /\ Change(f, [files[f] EXCEPT !.cells = Append(@, NewCell(f))])

Truncate(f) ==
    /\ files[f].cells # <<>>
    /\ Change(f, [files[f] EXCEPT !.cells = SubSeq(@, 1, Len(@) - 1)])

Chmod(f) ==
    /\ files[f].mode \in Modes
    /\ \E m \in Modes \ {files[f].mode} : Change(f, [files[f] EXCEPT !.mode = m])

\* Rename over the path, unlink, or a symbolic link put in its place.
Repoint ==
    /\ entry # "malformed"
    /\ entry' \in (Files \cup {"symlink", "missing"}) \ {entry}
    /\ UNCHANGED files

Interfere ==
    /\ clock < MaxChanges
    /\ clock' = clock + 1
    /\ \/ \E f \in Files : Overwrite(f) \/ Extend(f) \/ Truncate(f) \/ Chmod(f)
       \/ Repoint
    /\ UNCHANGED <<purpose, stage, fd, opened, seen, payload>>

\* Somebody opens the FIFO for writing.
WriterComes == stage = "closed" /\ WaitsForWriter /\ Opens

Next == Step \/ Interfere \/ WriterComes

\* The reading process runs; nobody has to interfere.
Spec == Init /\ [][Next]_vars /\ WF_vars(Step)
-----------------------------------------------------------------------------
(* Properties *)

(***************************************************************************)
(* A file that is not changed between its opening and the end of the read  *)
(* decides the outcome alone, whatever is put at the path meanwhile: the   *)
(* read is accepted exactly if that file is lawful, and yields its bytes.  *)
(***************************************************************************)
OpenedFileDecides ==
    stage \in {"accepted", "refused"} /\ fd # None /\ files[fd].time <= opened =>
        /\ stage = "accepted" <=> Lawful(Metadata(fd))
        /\ stage = "accepted" => payload = files[fd].cells

(***************************************************************************)
(* What is accepted is not the beginning of something longer: a file that  *)
(* grows while it is read, up to the moment of acceptance, is refused, and *)
(* every byte comes from the file that was opened.                         *)
(***************************************************************************)
NothingBeyondPayload ==
    [][stage # "accepted" /\ stage' = "accepted" =>
         /\ Len(payload) \in 0..MaxBytes
         /\ Len(files[fd].cells) <= Len(payload)
         /\ \A i \in DOMAIN payload : payload[i].file = fd]_vars

(***************************************************************************)
(* An accepted control configuration is the contents of one file at one    *)
(* moment, not a mixture of the contents before and after a rewrite.       *)
(***************************************************************************)
ControlIsSnapshot ==
    [][purpose = "control" /\ stage # "accepted" /\ stage' = "accepted" =>
         payload = files[fd].cells]_vars

(***************************************************************************)
(* "Invalid private configuration still exits" (README.md:137): a start    *)
(* whose configured path names something unlawful that stays as it is gets *)
(* an answer.                                                              *)
(***************************************************************************)
InvalidConfigurationExits ==
    purpose = "private" /\ stage = "closed" ~> stage \in {"accepted", "refused"}
=============================================================================
