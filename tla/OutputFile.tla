----------------------------- MODULE OutputFile -----------------------------
(***************************************************************************)
(* Runs of spm that write their result to one --output path, as            *)
(* writeOutputFile does on Unix: an existing regular file, or an absent    *)
(* one, is replaced by renaming a synced temporary file over it; a file    *)
(* that is a mount point, and anything else, is written in place.  Runs    *)
(* may be killed, the machine may crash, somebody else may remove the file *)
(* or put a symbolic link at the path, and a reader may be reading.        *)
(***************************************************************************)
EXTENDS Integers, Sequences

CONSTANTS
  Writer,   \* the runs
  Worlds,   \* what the path may name when they start
  None

World == {"absent", "regular", "readonly", "symlink", "device", "directory",
          "mounted", "hidden mount"}

\* Inodes: the file the path names at first, the one a symlink leads to, a
\* device, and the temporary file of each run.
Inode == {"old", "target", "device"} \cup Writer

ASSUME OutputAssumption ==
  /\ Worlds \subseteq World
  /\ {"old", "target", "device", "absent", "symlink", "directory", "hole", None} \cap Writer = {}

VARIABLES
  world,      \* what the path named at first
  entry,      \* what it names now: an inode, "symlink", "directory" or "absent"
  content,    \* of every inode, in blocks
  temps,      \* the runs whose temporary name is in the directory
  pc,         \* where each run is
  file,       \* the inode a run has open for writing in place
  offset,     \* the blocks it wrote to the file it has open
  disk,       \* what a crash of the machine leaves: entry and content
  reader,     \* the inode a reader has open, the blocks read of it
  crashed

vars == <<world, entry, content, temps, pc, file, offset, disk, reader, crashed>>

\* A profile is two blocks; the file already there is longer.
Blocks == 2
Whole(w) == [i \in 1..Blocks |-> w]
WholeContents == {Whole(w) : w \in Writer}
                   \cup {<<"old", "old", "old">>, <<"target", "target">>}

Mounted == world \in {"mounted", "hidden mount"}

Init ==
  /\ world \in Worlds
  /\ entry = CASE world \in {"absent", "symlink", "device", "directory"} -> world [] OTHER -> "old"
  /\ content = [i \in Inode |-> CASE i = "old" -> <<"old", "old", "old">>
                                  [] i = "target" -> <<"target", "target">>
                                  [] OTHER -> <<>>]
  /\ temps = {}
  /\ pc = [w \in Writer |-> "lstat"]
  /\ file = [w \in Writer |-> None]
  /\ offset = [w \in Writer |-> 0]
  /\ disk = [entry |-> entry, content |-> content]
  /\ reader = [inode |-> None, seen |-> <<>>]
  /\ crashed = FALSE

Goto(w, stage) == pc' = [pc EXCEPT ![w] = stage]

Flush(i) ==
  disk' = [entry |-> disk.entry, content |-> [disk.content EXCEPT ![i] = content[i]]]

-----------------------------------------------------------------------------
(* Deciding how to write *)

Lstat(w) ==
  /\ pc[w] = "lstat"
  /\ \/ Goto(w, CASE entry = "absent" -> "create"
                  [] entry = "symlink" -> "failed"
                  [] entry \in {"device", "directory"} -> "open"
                  [] OTHER -> "check")
     \/ Goto(w, "failed")
  /\ UNCHANGED <<world, entry, content, temps, file, offset, disk, reader, crashed>>

\* Opening for writing with O_NOFOLLOW refuses a symlink.
Opens ==
  /\ entry \notin {"absent", "symlink", "directory"}
  /\ ~(world = "readonly" /\ entry = "old")

CheckWritable(w) ==
  /\ pc[w] = "check"
  /\ Goto(w, IF Opens THEN "mount" ELSE "failed")
  /\ UNCHANGED <<world, entry, content, temps, file, offset, disk, reader, crashed>>

\* Fault: a regular file is truncated and written in place.
IsMountedFileAlways(w) ==
  /\ pc[w] = "mount"
  /\ Goto(w, "truncate")
  /\ UNCHANGED <<world, entry, content, temps, file, offset, disk, reader, crashed>>

\* Where the mount cannot be told, the file is replaced like any other.
IsMountedFile(w) ==
  /\ pc[w] = "mount"
  /\ Goto(w, IF world = "mounted" THEN "truncate" ELSE "create")
  /\ UNCHANGED <<world, entry, content, temps, file, offset, disk, reader, crashed>>

-----------------------------------------------------------------------------
(* Replacing the file *)

CreateTemp(w) ==
  /\ pc[w] = "create"
  /\ \/ Goto(w, "temp") /\ temps' = temps \cup {w}
     \/ Goto(w, "failed") /\ temps' = temps
  /\ UNCHANGED <<world, entry, content, file, offset, disk, reader, crashed>>

WriteTemp(w) ==
  /\ pc[w] = "temp"
  /\ offset[w] < Blocks
  /\ content' = [content EXCEPT ![w] = Append(@, w)]
  /\ offset' = [offset EXCEPT ![w] = @ + 1]
  /\ UNCHANGED <<world, entry, temps, pc, file, disk, reader, crashed>>

\* Fault: the file is closed and renamed without a sync.
SyncTempSkipped(w) ==
  /\ pc[w] = "temp"
  /\ offset[w] = Blocks
  /\ Goto(w, "close")
  /\ UNCHANGED <<world, entry, content, temps, file, offset, disk, reader, crashed>>

SyncTemp(w) ==
  /\ pc[w] = "temp"
  /\ offset[w] = Blocks
  /\ Flush(w)
  /\ Goto(w, "close")
  /\ UNCHANGED <<world, entry, content, temps, file, offset, reader, crashed>>

CloseTemp(w) ==
  /\ pc[w] = "close"
  /\ Goto(w, "rename")
  /\ UNCHANGED <<world, entry, content, temps, file, offset, disk, reader, crashed>>

\* Fault: a failed write is reported, and the temporary file forgotten.
FailTempForgets(w) ==
  /\ pc[w] \in {"temp", "close"}
  /\ Goto(w, "failed")
  /\ UNCHANGED <<world, entry, content, temps, file, offset, disk, reader, crashed>>

\* Setting the mode, a write, the sync or the close fails.
FailTemp(w) ==
  /\ pc[w] \in {"temp", "close"}
  /\ Goto(w, "cleanup")
  /\ UNCHANGED <<world, entry, content, temps, file, offset, disk, reader, crashed>>

Rename(w) ==
  /\ pc[w] = "rename"
  /\ ~Mounted
  /\ entry' = w
  /\ temps' = temps \ {w}
  /\ Goto(w, "done")
  /\ UNCHANGED <<world, content, file, offset, disk, reader, crashed>>

RenameBusy(w) ==
  /\ pc[w] = "rename"
  /\ Mounted
  /\ Goto(w, "cleanup busy")
  /\ UNCHANGED <<world, entry, content, temps, file, offset, disk, reader, crashed>>

\* Any other error of the rename.
RenameFails(w) ==
  /\ pc[w] = "rename"
  /\ Goto(w, "cleanup")
  /\ UNCHANGED <<world, entry, content, temps, file, offset, disk, reader, crashed>>

RemoveTemp(w) ==
  /\ pc[w] \in {"cleanup", "cleanup busy"}
  /\ temps' = temps \ {w}
  /\ offset' = [offset EXCEPT ![w] = 0]
  /\ Goto(w, IF pc[w] = "cleanup" THEN "failed" ELSE "truncate")
  /\ UNCHANGED <<world, entry, content, file, disk, reader, crashed>>

-----------------------------------------------------------------------------
(* Writing in place *)

\* Fault: the open follows a symbolic link.
OpenInPlaceFollows(w) ==
  LET inode == IF entry = "symlink" THEN "target" ELSE entry IN
  /\ pc[w] \in {"open", "truncate"}
  /\ IF entry # "absent"
     THEN /\ file' = [file EXCEPT ![w] = inode]
          /\ content' = IF pc[w] = "truncate"
                        THEN [content EXCEPT ![inode] = <<>>] ELSE content
          /\ Goto(w, "write")
     ELSE Goto(w, "failed") /\ UNCHANGED <<file, content>>
  /\ UNCHANGED <<world, entry, temps, offset, disk, reader, crashed>>

\* Fault: a mount point is opened like a device, without truncating it.
OpenInPlaceKeeps(w) ==
  /\ pc[w] \in {"open", "truncate"}
  /\ IF Opens
     THEN Goto(w, "write") /\ file' = [file EXCEPT ![w] = entry]
     ELSE Goto(w, "failed") /\ file' = file
  /\ UNCHANGED <<world, entry, content, temps, offset, disk, reader, crashed>>

OpenInPlace(w) ==
  /\ pc[w] \in {"open", "truncate"}
  /\ IF Opens
     THEN /\ file' = [file EXCEPT ![w] = entry]
          /\ content' = IF pc[w] = "truncate"
                        THEN [content EXCEPT ![entry] = <<>>] ELSE content
          /\ Goto(w, "write")
     ELSE Goto(w, "failed") /\ UNCHANGED <<file, content>>
  /\ UNCHANGED <<world, entry, temps, offset, disk, reader, crashed>>

\* A block at an offset past the end leaves a hole; a device keeps nothing.
Put(blocks, i, w) ==
  [j \in 1..(IF i > Len(blocks) THEN i ELSE Len(blocks)) |->
     IF j = i THEN w ELSE IF j <= Len(blocks) THEN blocks[j] ELSE "hole"]

WriteInPlace(w) ==
  /\ pc[w] = "write"
  /\ offset[w] < Blocks
  /\ content' = IF file[w] = "device" THEN content
                ELSE [content EXCEPT ![file[w]] = Put(@, offset[w] + 1, w)]
  /\ offset' = [offset EXCEPT ![w] = @ + 1]
  /\ UNCHANGED <<world, entry, temps, pc, file, disk, reader, crashed>>

CloseInPlace(w) ==
  /\ pc[w] = "write"
  /\ offset[w] = Blocks
  /\ Goto(w, "done")
  /\ UNCHANGED <<world, entry, content, temps, file, offset, disk, reader, crashed>>

FailInPlace(w) ==
  /\ pc[w] = "write"
  /\ Goto(w, "failed")
  /\ UNCHANGED <<world, entry, content, temps, file, offset, disk, reader, crashed>>

-----------------------------------------------------------------------------
(* Everybody else *)

Running(w) == pc[w] \notin {"done", "failed", "killed"}

Kill(w) ==
  /\ Running(w)
  /\ Goto(w, "killed")
  /\ UNCHANGED <<world, entry, content, temps, file, offset, disk, reader, crashed>>

PutSymlink ==
  /\ ~Mounted /\ entry # "directory"
  /\ entry' = "symlink"
  /\ UNCHANGED <<world, content, temps, pc, file, offset, disk, reader, crashed>>

RemoveFile ==
  /\ ~Mounted
  /\ entry \in {"old"} \cup Writer
  /\ entry' = "absent"
  /\ UNCHANGED <<world, content, temps, pc, file, offset, disk, reader, crashed>>

ReaderOpens ==
  /\ reader.inode = None
  /\ entry \notin {"absent", "device", "directory"}
  /\ reader' = [inode |-> IF entry = "symlink" THEN "target" ELSE entry, seen |-> <<>>]
  /\ UNCHANGED <<world, entry, content, temps, pc, file, offset, disk, crashed>>

ReaderAtEnd == Len(reader.seen) >= Len(content[reader.inode])

ReaderReads ==
  /\ reader.inode # None
  /\ ~ReaderAtEnd
  /\ reader' = [inode |-> reader.inode,
                seen |-> Append(reader.seen, content[reader.inode][Len(reader.seen) + 1])]
  /\ UNCHANGED <<world, entry, content, temps, pc, file, offset, disk, crashed>>

\* The kernel writes back a file, or the directory, when it likes.
Writeback ==
  /\ \/ \E i \in Inode : Flush(i)
     \/ disk' = [entry |-> entry, content |-> disk.content]
  /\ UNCHANGED <<world, entry, content, temps, pc, file, offset, reader, crashed>>

Crash ==
  /\ crashed' = TRUE
  /\ entry' = disk.entry
  /\ content' = disk.content
  /\ pc' = [w \in Writer |-> IF Running(w) THEN "killed" ELSE pc[w]]
  /\ reader' = [inode |-> None, seen |-> <<>>]
  /\ UNCHANGED <<world, temps, file, offset, disk>>

Step(w) ==
  \/ Lstat(w) \/ CheckWritable(w) \/ IsMountedFile(w)
  \/ CreateTemp(w) \/ WriteTemp(w) \/ SyncTemp(w) \/ CloseTemp(w) \/ FailTemp(w)
  \/ Rename(w) \/ RenameBusy(w) \/ RenameFails(w) \/ RemoveTemp(w)
  \/ OpenInPlace(w) \/ WriteInPlace(w) \/ CloseInPlace(w) \/ FailInPlace(w)

Next ==
  /\ ~crashed
  /\ \/ \E w \in Writer : Step(w) \/ Kill(w)
     \/ PutSymlink \/ RemoveFile
     \/ ReaderOpens \/ ReaderReads
     \/ Writeback
     \/ Crash

Spec == Init /\ [][Next]_vars

-----------------------------------------------------------------------------
(* Properties *)

\* Whatever moment a symbolic link is put at the path, the file it leads to
\* is never written.
LinkTargetUntouched == content["target"] = <<"target", "target">>

\* A reader that reads the path to its end sees one profile, and all of it,
\* however many runs replace the file meanwhile, unless it is a mount point.
ReaderSeesWholeProfile ==
  reader.inode # None /\ ReaderAtEnd /\ ~Mounted => reader.seen \in WholeContents

\* A run that fails, or is killed before it renames, leaves the file as it
\* was: only a run that succeeded is what the path names.  And a run that
\* returned, either way, leaves no temporary file beside it.
FailureLeavesNothing ==
  /\ \A w \in Writer : entry = w => pc[w] = "done"
  /\ ~Mounted => content["old"] = <<"old", "old", "old">>
  /\ \A w \in Writer : pc[w] \in {"done", "failed"} => w \notin temps

\* After a crash of the machine the path still names a whole profile, the
\* former or a new one, or what somebody else put there.
CrashLeavesWholeFile ==
  crashed /\ ~Mounted /\ entry \in {"old"} \cup Writer =>
    content[entry] \in WholeContents

\* A run returns success only with its whole profile, and nothing else, in
\* the file: the path names it, or it is the mount point the run wrote in
\* place, unless another run did the same.
SuccessIsWritten ==
  [][\A w \in Writer : pc[w] # "done" /\ pc'[w] = "done" =>
       IF pc[w] = "rename" THEN entry' = w /\ content[w] = Whole(w)
       ELSE \/ file[w] = "device"
            \/ \E v \in Writer \ {w} : file[v] = file[w]
            \/ content[file[w]] = Whole(w)]_vars
=============================================================================
