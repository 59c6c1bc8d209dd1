-------------------------- MODULE OutputFileProofs --------------------------
(***************************************************************************)
(* What the output file promises, for any number of runs that write it at  *)
(* once, whatever happens to its path and wherever they are killed.        *)
(***************************************************************************)
EXTENDS OutputFile, TLAPS

Stage == {"lstat", "check", "mount", "create", "temp", "close", "rename", "cleanup",
          "cleanup busy", "open", "truncate", "write", "done", "failed", "killed"}

Written(w, n) == [i \in 1..n |-> w]

Block == Writer \cup {"old", "target"}

\* Files are replaced here, and never written in place.
Replaced == ~Mounted /\ world # "device"

TypeOK ==
  /\ world \in World
  /\ pc \in [Writer -> Stage]
  /\ offset \in [Writer -> 0..Blocks]
  /\ file \in [Writer -> Inode \cup {None}]
  /\ temps \subseteq Writer
  /\ content = [i \in Inode |-> content[i]]
  /\ disk.content = [i \in Inode |-> disk.content[i]]

\* What the path may name depends on what it named at first.
Fits(e) ==
  /\ world = "device" => e \in {"device", "symlink"}
  /\ world = "directory" => e = "directory"
  /\ Mounted => e = "old"
  /\ world \notin {"device", "directory"} /\ ~Mounted =>
       e \in {"old", "absent", "symlink"} \cup Writer

PathFitsWorld == Fits(entry) /\ Fits(disk.entry)

\* A run opens the path for writing only where it cannot replace the file.
StageFitsWorld == \A w \in Writer :
  /\ pc[w] = "open" => world \in {"device", "directory"}
  /\ pc[w] \in {"truncate", "cleanup busy"} => Mounted
  /\ pc[w] = "write" => \/ (world = "device" /\ file[w] = "device")
                        \/ (Mounted /\ file[w] = "old")
  /\ pc[w] \in {"check", "mount", "create", "temp", "close", "rename", "cleanup"} =>
       world \notin {"device", "directory"}

PathNamesSuccess == \A w \in Writer : entry = w \/ disk.entry = w => pc[w] = "done"

TempsOfRunning == \A w \in temps :
  pc[w] \in {"temp", "close", "rename", "cleanup", "cleanup busy", "killed"}

\* A temporary file is the blocks written so far, and on disk before it is
\* renamed.
TempContents == \A w \in Writer :
  /\ pc[w] \in {"lstat", "check", "mount", "create"} => offset[w] = 0 /\ content[w] = <<>>
  /\ pc[w] \in {"open", "truncate"} => offset[w] = 0
  /\ pc[w] = "temp" => content[w] = Written(w, offset[w])
  /\ pc[w] \in {"close", "rename"} \/ (pc[w] = "done" /\ Replaced) =>
       content[w] = Whole(w) /\ disk.content[w] = Whole(w)

OthersUntouched ==
  /\ content["target"] = <<"target", "target">>
  /\ disk.content["target"] = <<"target", "target">>
  /\ ~Mounted => /\ content["old"] = <<"old", "old", "old">>
                 /\ disk.content["old"] = <<"old", "old", "old">>

\* A run that alone has the mount point open has written all there is in it.
InPlaceContent == Mounted => \A w \in Writer :
  pc[w] = "write" /\ (\A v \in Writer \ {w} : file[v] # "old") =>
    content["old"] = Written(w, offset[w])

\* A reader has read a first part of a file that changes no more.
ReaderReadsOne == reader.inode # None /\ ~Mounted =>
  /\ \/ reader.inode \in {"old", "target"}
     \/ (reader.inode \in Writer /\ pc[reader.inode] = "done" /\ Replaced)
  /\ reader.seen \in Seq(Block)
  /\ Len(reader.seen) <= Len(content[reader.inode])
  /\ \A i \in 1..Len(reader.seen) : reader.seen[i] = content[reader.inode][i]

Inv ==
  /\ TypeOK /\ PathFitsWorld /\ StageFitsWorld /\ PathNamesSuccess /\ TempsOfRunning
  /\ TempContents /\ OthersUntouched /\ InPlaceContent /\ ReaderReadsOne

-----------------------------------------------------------------------------

\* A block appended to the blocks of one run.
LEMMA WrittenNext ==
  ASSUME NEW w \in Writer, NEW n \in Nat
  PROVE Append(Written(w, n), w) = Written(w, n + 1)
<1> DEFINE s == Written(w, n)
           t == Written(w, n + 1)
<1>1. s \in Seq(Writer) /\ Len(s) = n
  BY DEF Written
<1>2. t \in Seq(Writer) /\ Len(t) = n + 1
  BY DEF Written
<1>3. \A i \in 1..n + 1 : Append(s, w)[i] = t[i]
  BY <1>1 DEF Written
<1> QED
  BY <1>1, <1>2, <1>3

LEMMA BlocksInNat == 0 \in 0..Blocks /\ 0..Blocks \subseteq Nat
  BY DEF Blocks

LEMMA WrittenNone == \A w \in Writer : Written(w, 0) = <<>>
  BY DEF Written

LEMMA PutNext ==
  ASSUME NEW w \in Writer, NEW n \in Nat
  PROVE Put(Written(w, n), n + 1, w) = Written(w, n + 1)
<1>1. Written(w, n) \in Seq(Writer) /\ Len(Written(w, n)) = n
  BY DEF Written
<1> QED
  BY <1>1 DEF Put, Written

\* One more element of a sequence, after a first part of it.
LEMMA PrefixNext ==
  ASSUME NEW S, NEW s \in Seq(S), NEW t \in Seq(S), ~(Len(s) >= Len(t)),
         \A i \in 1..Len(s) : s[i] = t[i]
  PROVE /\ Append(s, t[Len(s) + 1]) \in Seq(S)
        /\ Len(Append(s, t[Len(s) + 1])) <= Len(t)
        /\ \A i \in 1..Len(Append(s, t[Len(s) + 1])) :
             Append(s, t[Len(s) + 1])[i] = t[i]
<1>1. Len(s) \in Nat /\ Len(t) \in Nat /\ Len(s) < Len(t) /\ t[Len(s) + 1] \in S
  OBVIOUS
<1> DEFINE u == Append(s, t[Len(s) + 1])
<1>2. u \in Seq(S) /\ Len(u) = Len(s) + 1
  BY <1>1
<1>3. ASSUME NEW i \in 1..Len(u) PROVE u[i] = t[i]
  BY <1>1, <1>2, <1>3
<1> QED
  BY <1>1, <1>2, <1>3

LEMMA PrefixNone ==
  ASSUME NEW S, NEW t \in Seq(S)
  PROVE /\ <<>> \in Seq(S) /\ Len(<<>>) <= Len(t)
        /\ \A i \in 1..Len(<<>>) : <<>>[i] = t[i]
  OBVIOUS

\* What a reader may have open.
Readable(i) ==
  \/ i \in {"old", "target"}
  \/ (i \in Writer /\ pc[i] = "done" /\ Replaced)

LEMMA ReadableIsWhole ==
  ASSUME Inv, ~Mounted, NEW i, Readable(i)
  PROVE content[i] \in WholeContents /\ content[i] \in Seq(Block)
<1>1. CASE i = "old"
  <2>1. content[i] = <<"old", "old", "old">>
    BY <1>1 DEF Inv, OthersUntouched
  <2>2. <<"old", "old", "old">> \in Seq(Block)
    BY DEF Block
  <2> QED
    BY <2>1, <2>2 DEF WholeContents
<1>2. CASE i = "target"
  <2>1. content[i] = <<"target", "target">>
    BY <1>2 DEF Inv, OthersUntouched
  <2>2. <<"target", "target">> \in Seq(Block)
    BY DEF Block
  <2> QED
    BY <2>1, <2>2 DEF WholeContents
<1>3. CASE i \in Writer /\ pc[i] = "done" /\ Replaced
  <2>1. content[i] = Whole(i)
    BY <1>3 DEF Inv, TempContents
  <2>2. Whole(i) \in Seq(Block)
    BY <1>3 DEF Whole, Blocks, Block
  <2> QED
    BY <1>3, <2>1, <2>2 DEF WholeContents
<1> QED
  BY <1>1, <1>2, <1>3 DEF Readable

LEMMA InvInit == Init => Inv
<1> SUFFICES ASSUME Init PROVE Inv
  OBVIOUS
<1> USE OutputAssumption DEF Init, Mounted, World, Inode
<1>1. TypeOK
  <2>1. world \in World
    BY DEF World
  <2>2. pc \in [Writer -> Stage]
    BY DEF Stage
  <2>4. offset \in [Writer -> 0..Blocks]
    BY BlocksInNat
  <2>3. content = [i \in Inode |-> content[i]] /\ disk.content = content
    OBVIOUS
  <2> QED
    BY <2>1, <2>2, <2>3, <2>4 DEF TypeOK
<1>2. PathFitsWorld
  BY DEF PathFitsWorld, Fits
<1>3. StageFitsWorld
  BY DEF TypeOK, StageFitsWorld
<1>4. PathNamesSuccess
  BY DEF TypeOK, PathNamesSuccess
<1>5. TempsOfRunning
  BY DEF TypeOK, TempsOfRunning
<1>6. TempContents
  BY DEF TypeOK, StageFitsWorld, TempContents
<1>7. OthersUntouched
  BY DEF TypeOK, OthersUntouched
<1>8. InPlaceContent
  BY DEF TypeOK, StageFitsWorld, InPlaceContent
<1>9. ReaderReadsOne
  BY DEF TypeOK, ReaderReadsOne
<1> QED
  BY <1>1, <1>2, <1>3, <1>4, <1>5, <1>6, <1>7, <1>8, <1>9 DEF Inv

LEMMA InvStep == Inv /\ [Next]_vars => Inv'
<1> SUFFICES ASSUME Inv, [Next]_vars PROVE Inv'
  OBVIOUS
<1> USE OutputAssumption DEF Inv, Mounted, Replaced, Goto, Inode
<1>1. ASSUME NEW w \in Writer, Lstat(w) PROVE Inv'
  <2>1. TypeOK'
    BY <1>1 DEF Lstat, TypeOK, Stage
  <2>2. StageFitsWorld'
    <3>1. /\ UNCHANGED <<world, entry, file>> /\ pc \in [Writer -> Stage]
          /\ \A v \in Writer : v # w => pc'[v] = pc[v]
      BY <1>1 DEF Lstat, TypeOK
    <3>2. CASE pc'[w] = "failed"
      BY <3>1, <3>2 DEF StageFitsWorld
    <3>3. CASE pc'[w] = CASE entry = "absent" -> "create"
                          [] entry = "symlink" -> "failed"
                          [] entry \in {"device", "directory"} -> "open"
                          [] OTHER -> "check"
      BY <3>1, <3>3 DEF StageFitsWorld, PathFitsWorld, Fits, TypeOK
    <3> QED
      BY <1>1, <3>2, <3>3 DEF Lstat, TypeOK
  <2>3. PathNamesSuccess'
    BY <1>1 DEF Lstat, TypeOK, PathNamesSuccess
  <2>4. TempsOfRunning'
    BY <1>1 DEF Lstat, TypeOK, TempsOfRunning
  <2>5. TempContents'
    BY <1>1 DEF Lstat, TypeOK, StageFitsWorld, TempContents
  <2>6. InPlaceContent'
    BY <1>1 DEF Lstat, TypeOK, StageFitsWorld, InPlaceContent
  <2>7. ReaderReadsOne'
    BY <1>1 DEF Lstat, TypeOK, ReaderReadsOne
  <2>8. PathFitsWorld' /\ OthersUntouched'
    BY <1>1 DEF Lstat, PathFitsWorld, Fits, OthersUntouched
  <2> QED
    BY <2>1, <2>2, <2>3, <2>4, <2>5, <2>6, <2>7, <2>8
<1>2. ASSUME NEW w \in Writer, CheckWritable(w) PROVE Inv'
  <2>1. TypeOK'
    BY <1>2 DEF CheckWritable, TypeOK, Stage
  <2>2. StageFitsWorld'
    BY <1>2 DEF CheckWritable, TypeOK, StageFitsWorld
  <2>3. PathNamesSuccess'
    BY <1>2 DEF CheckWritable, TypeOK, PathNamesSuccess
  <2>4. TempsOfRunning'
    BY <1>2 DEF CheckWritable, TypeOK, TempsOfRunning
  <2>5. TempContents'
    BY <1>2 DEF CheckWritable, TypeOK, StageFitsWorld, TempContents
  <2>6. InPlaceContent'
    BY <1>2 DEF CheckWritable, TypeOK, StageFitsWorld, InPlaceContent
  <2>7. ReaderReadsOne'
    BY <1>2 DEF CheckWritable, TypeOK, ReaderReadsOne
  <2>8. PathFitsWorld' /\ OthersUntouched'
    BY <1>2 DEF CheckWritable, PathFitsWorld, Fits, OthersUntouched
  <2> QED
    BY <2>1, <2>2, <2>3, <2>4, <2>5, <2>6, <2>7, <2>8
<1>3. ASSUME NEW w \in Writer, IsMountedFile(w) PROVE Inv'
  <2>1. TypeOK'
    BY <1>3 DEF IsMountedFile, TypeOK, Stage
  <2>2. StageFitsWorld'
    BY <1>3 DEF IsMountedFile, TypeOK, StageFitsWorld
  <2>3. PathNamesSuccess'
    BY <1>3 DEF IsMountedFile, TypeOK, PathNamesSuccess
  <2>4. TempsOfRunning'
    BY <1>3 DEF IsMountedFile, TypeOK, TempsOfRunning
  <2>5. TempContents'
    BY <1>3 DEF IsMountedFile, TypeOK, StageFitsWorld, TempContents
  <2>6. InPlaceContent'
    BY <1>3 DEF IsMountedFile, TypeOK, StageFitsWorld, InPlaceContent
  <2>7. ReaderReadsOne'
    BY <1>3 DEF IsMountedFile, TypeOK, ReaderReadsOne
  <2>8. PathFitsWorld' /\ OthersUntouched'
    BY <1>3 DEF IsMountedFile, PathFitsWorld, Fits, OthersUntouched
  <2> QED
    BY <2>1, <2>2, <2>3, <2>4, <2>5, <2>6, <2>7, <2>8
<1>4. ASSUME NEW w \in Writer, CreateTemp(w) PROVE Inv'
  <2>1. TypeOK'
    BY <1>4 DEF CreateTemp, TypeOK, Stage
  <2>2. StageFitsWorld'
    BY <1>4 DEF CreateTemp, TypeOK, StageFitsWorld
  <2>3. PathNamesSuccess'
    BY <1>4 DEF CreateTemp, TypeOK, PathNamesSuccess
  <2>4. TempsOfRunning'
    <3>1. \A v \in temps : v # w
      BY <1>4 DEF CreateTemp, TempsOfRunning
    <3>2. CASE Goto(w, "temp") /\ temps' = temps \cup {w}
      BY <3>1, <3>2 DEF TypeOK, TempsOfRunning
    <3>3. CASE Goto(w, "failed") /\ temps' = temps
      BY <3>1, <3>3 DEF TypeOK, TempsOfRunning
    <3> QED
      BY <1>4, <3>2, <3>3 DEF CreateTemp
  <2>5. TempContents'
    <3>1. content[w] = Written(w, 0) /\ offset[w] = 0
      BY <1>4, WrittenNone DEF CreateTemp, TempContents
    <3>2. CASE Goto(w, "temp")
      BY <1>4, <3>1, <3>2 DEF CreateTemp, TypeOK, TempContents
    <3>3. CASE Goto(w, "failed")
      BY <1>4, <3>3 DEF CreateTemp, TypeOK, TempContents
    <3> QED
      BY <1>4, <3>2, <3>3 DEF CreateTemp
  <2>6. InPlaceContent'
    BY <1>4 DEF CreateTemp, TypeOK, StageFitsWorld, InPlaceContent
  <2>7. ReaderReadsOne'
    BY <1>4 DEF CreateTemp, TypeOK, ReaderReadsOne
  <2>8. PathFitsWorld' /\ OthersUntouched'
    BY <1>4 DEF CreateTemp, PathFitsWorld, Fits, OthersUntouched
  <2> QED
    BY <2>1, <2>2, <2>3, <2>4, <2>5, <2>6, <2>7, <2>8
<1>5. ASSUME NEW w \in Writer, WriteTemp(w) PROVE Inv'
  <2>1. TypeOK'
    <3>1. pc' \in [Writer -> Stage]
      BY <1>5 DEF WriteTemp, TypeOK, Stage
    <3>2. offset' \in [Writer -> 0..Blocks]
      BY <1>5 DEF WriteTemp, TypeOK, Blocks
    <3>3. content' = [i \in Inode |-> content'[i]]
      BY <1>5 DEF WriteTemp, TypeOK
    <3>4. disk'.content = [i \in Inode |-> disk'.content[i]]
      BY <1>5 DEF WriteTemp, TypeOK
    <3> QED
      BY <1>5, <3>1, <3>2, <3>3, <3>4 DEF WriteTemp, TypeOK
  <2>2. TempContents'
    <3>1. content[w] = Written(w, offset[w])
      BY <1>5 DEF WriteTemp, TempContents
    <3>4. offset[w] \in Nat
      BY DEF TypeOK, Blocks
    <3>2. content'[w] = Written(w, offset'[w])
      BY <1>5, <3>1, <3>4, WrittenNext DEF WriteTemp, TypeOK
    <3>3. \A v \in Writer \ {w} : content'[v] = content[v] /\ offset'[v] = offset[v]
      BY <1>5 DEF WriteTemp, TypeOK
    <3> QED
      BY <1>5, <3>2, <3>3 DEF WriteTemp, TypeOK, TempContents
  <2>3. OthersUntouched'
    BY <1>5 DEF WriteTemp, TypeOK, OthersUntouched
  <2>4. InPlaceContent'
    BY <1>5 DEF WriteTemp, TypeOK, StageFitsWorld, InPlaceContent
  <2>5. ReaderReadsOne'
    BY <1>5 DEF WriteTemp, TypeOK, ReaderReadsOne
  <2>6. PathFitsWorld' /\ StageFitsWorld' /\ PathNamesSuccess' /\ TempsOfRunning'
    BY <1>5 DEF WriteTemp, PathFitsWorld, Fits, StageFitsWorld, PathNamesSuccess,
       TempsOfRunning
  <2> QED
    BY <2>1, <2>2, <2>3, <2>4, <2>5, <2>6
<1>6. ASSUME NEW w \in Writer, SyncTemp(w) PROVE Inv'
  <2>1. TypeOK'
    BY <1>6 DEF SyncTemp, TypeOK, Flush, Stage
  <2>2. PathFitsWorld'
    BY <1>6 DEF SyncTemp, PathFitsWorld, Fits, Flush
  <2>3. StageFitsWorld'
    BY <1>6 DEF SyncTemp, TypeOK, StageFitsWorld, Flush
  <2>4. PathNamesSuccess'
    BY <1>6 DEF SyncTemp, TypeOK, PathNamesSuccess, Flush
  <2>5. TempsOfRunning'
    BY <1>6 DEF SyncTemp, TypeOK, TempsOfRunning, Flush
  <2>6. TempContents'
    <3>1. content[w] = Whole(w)
      BY <1>6 DEF SyncTemp, TempContents, Whole, Written
    <3>2. /\ disk'.content[w] = Whole(w)
          /\ \A v \in Writer \ {w} : disk'.content[v] = disk.content[v]
      BY <1>6, <3>1 DEF SyncTemp, Flush, TypeOK
    <3> QED
      BY <1>6, <3>1, <3>2 DEF SyncTemp, TypeOK, TempContents
  <2>7. OthersUntouched'
    BY <1>6 DEF SyncTemp, TypeOK, OthersUntouched, Flush
  <2>8. InPlaceContent'
    BY <1>6 DEF SyncTemp, TypeOK, StageFitsWorld, InPlaceContent, Flush
  <2>9. ReaderReadsOne'
    BY <1>6 DEF SyncTemp, TypeOK, ReaderReadsOne, Flush
  <2> QED
    BY <2>1, <2>2, <2>3, <2>4, <2>5, <2>6, <2>7, <2>8, <2>9
<1>7. ASSUME NEW w \in Writer, CloseTemp(w) PROVE Inv'
  <2>1. TypeOK'
    BY <1>7 DEF CloseTemp, TypeOK, Stage
  <2>2. StageFitsWorld'
    BY <1>7 DEF CloseTemp, TypeOK, StageFitsWorld
  <2>3. PathNamesSuccess'
    BY <1>7 DEF CloseTemp, TypeOK, PathNamesSuccess
  <2>4. TempsOfRunning'
    BY <1>7 DEF CloseTemp, TypeOK, TempsOfRunning
  <2>5. TempContents'
    BY <1>7 DEF CloseTemp, TypeOK, StageFitsWorld, TempContents
  <2>6. InPlaceContent'
    BY <1>7 DEF CloseTemp, TypeOK, StageFitsWorld, InPlaceContent
  <2>7. ReaderReadsOne'
    BY <1>7 DEF CloseTemp, TypeOK, ReaderReadsOne
  <2>8. PathFitsWorld' /\ OthersUntouched'
    BY <1>7 DEF CloseTemp, PathFitsWorld, Fits, OthersUntouched
  <2> QED
    BY <2>1, <2>2, <2>3, <2>4, <2>5, <2>6, <2>7, <2>8
<1>8. ASSUME NEW w \in Writer, FailTemp(w) PROVE Inv'
  <2>1. TypeOK'
    BY <1>8 DEF FailTemp, TypeOK, Stage
  <2>2. StageFitsWorld'
    BY <1>8 DEF FailTemp, TypeOK, StageFitsWorld
  <2>3. PathNamesSuccess'
    BY <1>8 DEF FailTemp, TypeOK, PathNamesSuccess
  <2>4. TempsOfRunning'
    BY <1>8 DEF FailTemp, TypeOK, TempsOfRunning
  <2>5. TempContents'
    BY <1>8 DEF FailTemp, TypeOK, StageFitsWorld, TempContents
  <2>6. InPlaceContent'
    BY <1>8 DEF FailTemp, TypeOK, StageFitsWorld, InPlaceContent
  <2>7. ReaderReadsOne'
    BY <1>8 DEF FailTemp, TypeOK, ReaderReadsOne
  <2>8. PathFitsWorld' /\ OthersUntouched'
    BY <1>8 DEF FailTemp, PathFitsWorld, Fits, OthersUntouched
  <2> QED
    BY <2>1, <2>2, <2>3, <2>4, <2>5, <2>6, <2>7, <2>8
<1>9. ASSUME NEW w \in Writer, Rename(w) PROVE Inv'
  <2>1. TypeOK'
    BY <1>9 DEF Rename, TypeOK, Stage
  <2>2. PathFitsWorld'
    BY <1>9 DEF Rename, PathFitsWorld, Fits, StageFitsWorld, TypeOK
  <2>3. StageFitsWorld'
    BY <1>9 DEF Rename, TypeOK, StageFitsWorld
  <2>4. PathNamesSuccess'
    BY <1>9 DEF Rename, TypeOK, PathNamesSuccess
  <2>5. TempsOfRunning'
    BY <1>9 DEF Rename, TypeOK, TempsOfRunning
  <2>6. TempContents'
    BY <1>9 DEF Rename, TypeOK, StageFitsWorld, TempContents
  <2>7. OthersUntouched'
    BY <1>9 DEF Rename, TypeOK, OthersUntouched
  <2>8. InPlaceContent'
    BY <1>9 DEF Rename, TypeOK, StageFitsWorld, InPlaceContent
  <2>9. ReaderReadsOne'
    BY <1>9 DEF Rename, TypeOK, ReaderReadsOne
  <2> QED
    BY <2>1, <2>2, <2>3, <2>4, <2>5, <2>6, <2>7, <2>8, <2>9
<1>10. ASSUME NEW w \in Writer, RenameBusy(w) PROVE Inv'
  <2>1. TypeOK'
    BY <1>10 DEF RenameBusy, TypeOK, Stage
  <2>2. StageFitsWorld'
    BY <1>10 DEF RenameBusy, TypeOK, StageFitsWorld
  <2>3. PathNamesSuccess'
    BY <1>10 DEF RenameBusy, TypeOK, PathNamesSuccess
  <2>4. TempsOfRunning'
    BY <1>10 DEF RenameBusy, TypeOK, TempsOfRunning
  <2>5. TempContents'
    BY <1>10 DEF RenameBusy, TypeOK, StageFitsWorld, TempContents
  <2>6. InPlaceContent'
    BY <1>10 DEF RenameBusy, TypeOK, StageFitsWorld, InPlaceContent
  <2>7. ReaderReadsOne'
    BY <1>10 DEF RenameBusy, TypeOK, ReaderReadsOne
  <2>8. PathFitsWorld' /\ OthersUntouched'
    BY <1>10 DEF RenameBusy, PathFitsWorld, Fits, OthersUntouched
  <2> QED
    BY <2>1, <2>2, <2>3, <2>4, <2>5, <2>6, <2>7, <2>8
<1>11. ASSUME NEW w \in Writer, RenameFails(w) PROVE Inv'
  <2>1. TypeOK'
    BY <1>11 DEF RenameFails, TypeOK, Stage
  <2>2. StageFitsWorld'
    BY <1>11 DEF RenameFails, TypeOK, StageFitsWorld
  <2>3. PathNamesSuccess'
    BY <1>11 DEF RenameFails, TypeOK, PathNamesSuccess
  <2>4. TempsOfRunning'
    BY <1>11 DEF RenameFails, TypeOK, TempsOfRunning
  <2>5. TempContents'
    BY <1>11 DEF RenameFails, TypeOK, StageFitsWorld, TempContents
  <2>6. InPlaceContent'
    BY <1>11 DEF RenameFails, TypeOK, StageFitsWorld, InPlaceContent
  <2>7. ReaderReadsOne'
    BY <1>11 DEF RenameFails, TypeOK, ReaderReadsOne
  <2>8. PathFitsWorld' /\ OthersUntouched'
    BY <1>11 DEF RenameFails, PathFitsWorld, Fits, OthersUntouched
  <2> QED
    BY <2>1, <2>2, <2>3, <2>4, <2>5, <2>6, <2>7, <2>8
<1>12. ASSUME NEW w \in Writer, RemoveTemp(w) PROVE Inv'
  <2>1. TypeOK'
    <3>1. pc' \in [Writer -> Stage]
      BY <1>12 DEF RemoveTemp, TypeOK, Stage
    <3>2. offset' \in [Writer -> 0..Blocks]
      <4>1. offset' = [offset EXCEPT ![w] = 0]
        BY <1>12 DEF RemoveTemp
      <4> QED
        BY <4>1 DEF TypeOK, Blocks
    <3>3. content' = [i \in Inode |-> content'[i]]
      BY <1>12 DEF RemoveTemp, TypeOK
    <3>4. disk'.content = [i \in Inode |-> disk'.content[i]]
      BY <1>12 DEF RemoveTemp, TypeOK
    <3> QED
      BY <1>12, <3>1, <3>2, <3>3, <3>4 DEF RemoveTemp, TypeOK
  <2>2. StageFitsWorld'
    BY <1>12 DEF RemoveTemp, TypeOK, StageFitsWorld
  <2>3. PathNamesSuccess'
    BY <1>12 DEF RemoveTemp, TypeOK, PathNamesSuccess
  <2>4. TempsOfRunning'
    BY <1>12 DEF RemoveTemp, TypeOK, TempsOfRunning
  <2>5. TempContents'
    BY <1>12 DEF RemoveTemp, TypeOK, StageFitsWorld, TempContents
  <2>6. InPlaceContent'
    BY <1>12 DEF RemoveTemp, TypeOK, StageFitsWorld, InPlaceContent
  <2>7. ReaderReadsOne'
    BY <1>12 DEF RemoveTemp, TypeOK, ReaderReadsOne
  <2>8. PathFitsWorld' /\ OthersUntouched'
    BY <1>12 DEF RemoveTemp, PathFitsWorld, Fits, OthersUntouched
  <2> QED
    BY <2>1, <2>2, <2>3, <2>4, <2>5, <2>6, <2>7, <2>8
<1>13. ASSUME NEW w \in Writer, OpenInPlace(w) PROVE Inv'
  <2> DEFINE Fails == pc' = [pc EXCEPT ![w] = "failed"] /\ file' = file /\ content' = content
             OpensDevice ==
               /\ world = "device"
               /\ pc' = [pc EXCEPT ![w] = "write"]
               /\ file' = [file EXCEPT ![w] = "device"] /\ content' = content
             OpensMount ==
               /\ Mounted /\ pc[w] = "truncate" /\ offset[w] = 0
               /\ pc' = [pc EXCEPT ![w] = "write"]
               /\ file' = [file EXCEPT ![w] = "old"]
               /\ content' = [content EXCEPT !["old"] = <<>>]
  <2>1. pc[w] \in {"open", "truncate"} /\ UNCHANGED <<world, entry, temps, offset, disk, reader>>
    BY <1>13 DEF OpenInPlace
  <2>2. CASE ~Opens
    <3>1. Fails
      BY <1>13, <2>2 DEF OpenInPlace
    <3>2. TypeOK' /\ StageFitsWorld'
      BY <2>1, <3>1 DEF TypeOK, StageFitsWorld, Stage
    <3>3. PathNamesSuccess' /\ TempsOfRunning'
      BY <2>1, <3>1 DEF TypeOK, PathNamesSuccess, TempsOfRunning
    <3>4. TempContents'
      BY <2>1, <3>1 DEF TypeOK, TempContents
    <3>5. InPlaceContent'
      BY <2>1, <3>1 DEF TypeOK, InPlaceContent
    <3>6. ReaderReadsOne'
      BY <2>1, <3>1 DEF TypeOK, ReaderReadsOne
    <3>7. PathFitsWorld' /\ OthersUntouched'
      BY <2>1, <3>1 DEF PathFitsWorld, Fits, OthersUntouched
    <3> QED
      BY <3>2, <3>3, <3>4, <3>5, <3>6, <3>7
  <2>3. CASE Opens /\ pc[w] = "open"
    <3>1. world = "device" /\ entry = "device"
      BY <2>3 DEF StageFitsWorld, Opens, PathFitsWorld, Fits
    <3>2. OpensDevice
      BY <1>13, <2>3, <3>1 DEF OpenInPlace
    <3>3. TypeOK' /\ StageFitsWorld'
      BY <2>1, <3>2 DEF TypeOK, StageFitsWorld, Stage
    <3>4. PathNamesSuccess' /\ TempsOfRunning'
      BY <2>1, <3>2 DEF TypeOK, PathNamesSuccess, TempsOfRunning
    <3>5. TempContents'
      BY <2>1, <3>2 DEF TypeOK, TempContents
    <3>6. InPlaceContent'
      BY <2>1, <3>2 DEF TypeOK, InPlaceContent
    <3>7. ReaderReadsOne'
      BY <2>1, <3>2 DEF TypeOK, ReaderReadsOne
    <3>8. PathFitsWorld' /\ OthersUntouched'
      BY <2>1, <3>2 DEF PathFitsWorld, Fits, OthersUntouched
    <3> QED
      BY <3>3, <3>4, <3>5, <3>6, <3>7, <3>8
  <2>4. CASE Opens /\ pc[w] = "truncate"
    <3>1. Mounted /\ entry = "old"
      BY <2>4 DEF StageFitsWorld, PathFitsWorld, Fits
    <3>2. OpensMount
      BY <1>13, <2>4, <3>1 DEF OpenInPlace, TempContents
    <3>3. TypeOK'
      BY <2>1, <3>2 DEF TypeOK, Stage
    <3>4. StageFitsWorld'
      BY <2>1, <3>2 DEF TypeOK, StageFitsWorld
    <3>5. PathNamesSuccess' /\ TempsOfRunning'
      BY <2>1, <3>2 DEF TypeOK, PathNamesSuccess, TempsOfRunning
    <3>6. TempContents'
      <4>1. \A v \in Writer : content'[v] = content[v]
        BY <3>2 DEF TypeOK
      <4> QED
        BY <2>1, <3>2, <4>1 DEF TypeOK, TempContents
    <3>7. OthersUntouched'
      BY <2>1, <3>2 DEF TypeOK, OthersUntouched
    <3>8. InPlaceContent'
      <4> SUFFICES ASSUME Mounted, NEW v \in Writer, pc'[v] = "write",
                          \A u \in Writer \ {v} : file'[u] # "old"
                   PROVE content'["old"] = Written(v, offset'[v])
        BY <2>1, <3>2 DEF InPlaceContent
      <4>1. file'[w] = "old" /\ content'["old"] = <<>> /\ offset' = offset
        BY <2>1, <3>2 DEF TypeOK
      <4> QED
        BY <3>2, <4>1, WrittenNone
    <3>9. ReaderReadsOne'
      BY <2>1, <3>2 DEF TypeOK, ReaderReadsOne
    <3>10. PathFitsWorld'
      BY <2>1 DEF PathFitsWorld, Fits
    <3> QED
      BY <3>3, <3>4, <3>5, <3>6, <3>7, <3>8, <3>9, <3>10
  <2> QED
    BY <2>1, <2>2, <2>3, <2>4
<1>14. ASSUME NEW w \in Writer, WriteInPlace(w) PROVE Inv'
  <2>1. TypeOK'
    <3>1. pc' \in [Writer -> Stage]
      BY <1>14 DEF WriteInPlace, TypeOK, Stage
    <3>2. offset' \in [Writer -> 0..Blocks]
      BY <1>14 DEF WriteInPlace, TypeOK, Blocks
    <3>3. content' = [i \in Inode |-> content'[i]]
      BY <1>14 DEF WriteInPlace, TypeOK
    <3>4. disk'.content = [i \in Inode |-> disk'.content[i]]
      BY <1>14 DEF WriteInPlace, TypeOK
    <3> QED
      BY <1>14, <3>1, <3>2, <3>3, <3>4 DEF WriteInPlace, TypeOK
  <2>2. TempContents'
    BY <1>14 DEF WriteInPlace, TypeOK, StageFitsWorld, TempContents
  <2>3. OthersUntouched'
    BY <1>14 DEF WriteInPlace, TypeOK, OthersUntouched, StageFitsWorld
  <2>4. InPlaceContent'
    <3> SUFFICES ASSUME Mounted, NEW v \in Writer, pc'[v] = "write",
                        \A u \in Writer \ {v} : file'[u] # "old"
                 PROVE content'["old"] = Written(v, offset'[v])
      BY <1>14 DEF WriteInPlace, InPlaceContent
    <3>1. file[w] = "old" /\ file' = file /\ pc' = pc
      BY <1>14 DEF WriteInPlace, StageFitsWorld
    <3>2. v = w
      BY <3>1
    <3>3. content["old"] = Written(w, offset[w])
      BY <3>1, <3>2 DEF InPlaceContent
    <3>4. offset[w] \in Nat /\ offset'[w] = offset[w] + 1
      <4>1. offset' = [offset EXCEPT ![w] = offset[w] + 1]
        BY <1>14 DEF WriteInPlace
      <4>2. offset[w] \in 0..Blocks
        BY DEF TypeOK
      <4>3. offset[w] \in Nat
        BY <4>2, BlocksInNat
      <4> QED
        BY <4>1, <4>3 DEF TypeOK
    <3>5. content'["old"] = Put(content["old"], offset[w] + 1, w)
      BY <1>14, <3>1 DEF WriteInPlace, TypeOK
    <3> QED
      BY <3>2, <3>3, <3>4, <3>5, PutNext
  <2>5. ReaderReadsOne'
    BY <1>14 DEF WriteInPlace, TypeOK, ReaderReadsOne, StageFitsWorld
  <2>6. PathFitsWorld' /\ StageFitsWorld' /\ PathNamesSuccess' /\ TempsOfRunning'
    BY <1>14 DEF WriteInPlace, PathFitsWorld, Fits, StageFitsWorld, PathNamesSuccess,
       TempsOfRunning
  <2> QED
    BY <2>1, <2>2, <2>3, <2>4, <2>5, <2>6
<1>15. ASSUME NEW w \in Writer, CloseInPlace(w) PROVE Inv'
  <2>1. TypeOK'
    BY <1>15 DEF CloseInPlace, TypeOK, Stage
  <2>2. StageFitsWorld'
    BY <1>15 DEF CloseInPlace, TypeOK, StageFitsWorld
  <2>3. PathNamesSuccess'
    BY <1>15 DEF CloseInPlace, TypeOK, PathNamesSuccess
  <2>4. TempsOfRunning'
    BY <1>15 DEF CloseInPlace, TypeOK, TempsOfRunning
  <2>5. TempContents'
    BY <1>15 DEF CloseInPlace, TypeOK, StageFitsWorld, TempContents
  <2>6. InPlaceContent'
    BY <1>15 DEF CloseInPlace, TypeOK, StageFitsWorld, InPlaceContent
  <2>7. ReaderReadsOne'
    BY <1>15 DEF CloseInPlace, TypeOK, ReaderReadsOne
  <2>8. PathFitsWorld' /\ OthersUntouched'
    BY <1>15 DEF CloseInPlace, PathFitsWorld, Fits, OthersUntouched
  <2> QED
    BY <2>1, <2>2, <2>3, <2>4, <2>5, <2>6, <2>7, <2>8
<1>16. ASSUME NEW w \in Writer, FailInPlace(w) PROVE Inv'
  <2>1. TypeOK'
    BY <1>16 DEF FailInPlace, TypeOK, Stage
  <2>2. StageFitsWorld'
    BY <1>16 DEF FailInPlace, TypeOK, StageFitsWorld
  <2>3. PathNamesSuccess'
    BY <1>16 DEF FailInPlace, TypeOK, PathNamesSuccess
  <2>4. TempsOfRunning'
    BY <1>16 DEF FailInPlace, TypeOK, TempsOfRunning
  <2>5. TempContents'
    BY <1>16 DEF FailInPlace, TypeOK, StageFitsWorld, TempContents
  <2>6. InPlaceContent'
    BY <1>16 DEF FailInPlace, TypeOK, StageFitsWorld, InPlaceContent
  <2>7. ReaderReadsOne'
    BY <1>16 DEF FailInPlace, TypeOK, ReaderReadsOne
  <2>8. PathFitsWorld' /\ OthersUntouched'
    BY <1>16 DEF FailInPlace, PathFitsWorld, Fits, OthersUntouched
  <2> QED
    BY <2>1, <2>2, <2>3, <2>4, <2>5, <2>6, <2>7, <2>8
<1>17. ASSUME NEW w \in Writer, Kill(w) PROVE Inv'
  <2>1. TypeOK'
    BY <1>17 DEF Kill, TypeOK, Running, Stage
  <2>2. StageFitsWorld'
    BY <1>17 DEF Kill, TypeOK, StageFitsWorld, Running
  <2>3. PathNamesSuccess'
    BY <1>17 DEF Kill, TypeOK, PathNamesSuccess, Running
  <2>4. TempsOfRunning'
    BY <1>17 DEF Kill, TypeOK, TempsOfRunning, Running
  <2>5. TempContents'
    BY <1>17 DEF Kill, TypeOK, StageFitsWorld, TempContents, Running
  <2>6. InPlaceContent'
    BY <1>17 DEF Kill, TypeOK, StageFitsWorld, InPlaceContent, Running
  <2>7. ReaderReadsOne'
    BY <1>17 DEF Kill, TypeOK, ReaderReadsOne, Running
  <2>8. PathFitsWorld' /\ OthersUntouched'
    BY <1>17 DEF Kill, PathFitsWorld, Fits, OthersUntouched
  <2> QED
    BY <2>1, <2>2, <2>3, <2>4, <2>5, <2>6, <2>7, <2>8
<1>18. ASSUME PutSymlink PROVE Inv'
  <2>1. PathFitsWorld'
    BY <1>18 DEF PutSymlink, PathFitsWorld, Fits
  <2>2. PathNamesSuccess'
    BY <1>18 DEF PutSymlink, TypeOK, PathNamesSuccess
  <2>3. /\ TypeOK' /\ StageFitsWorld' /\ TempsOfRunning' /\ TempContents'
        /\ OthersUntouched' /\ InPlaceContent' /\ ReaderReadsOne'
    BY <1>18 DEF PutSymlink, TypeOK, StageFitsWorld, TempsOfRunning, TempContents,
       OthersUntouched, InPlaceContent, ReaderReadsOne
  <2> QED
    BY <2>1, <2>2, <2>3
<1>19. ASSUME RemoveFile PROVE Inv'
  <2>1. PathFitsWorld'
    BY <1>19 DEF RemoveFile, PathFitsWorld, Fits
  <2>2. PathNamesSuccess'
    BY <1>19 DEF RemoveFile, TypeOK, PathNamesSuccess
  <2>3. /\ TypeOK' /\ StageFitsWorld' /\ TempsOfRunning' /\ TempContents'
        /\ OthersUntouched' /\ InPlaceContent' /\ ReaderReadsOne'
    BY <1>19 DEF RemoveFile, TypeOK, StageFitsWorld, TempsOfRunning, TempContents,
       OthersUntouched, InPlaceContent, ReaderReadsOne
  <2> QED
    BY <2>1, <2>2, <2>3
<1>20. ASSUME ReaderOpens PROVE Inv'
  <2>1. ReaderReadsOne'
    <3> SUFFICES ASSUME ~Mounted PROVE ReaderReadsOne'
      BY <1>20 DEF ReaderOpens, ReaderReadsOne
    <3> DEFINE i == reader'.inode
    <3>1. Readable(i)
      BY <1>20 DEF ReaderOpens, PathFitsWorld, Fits, PathNamesSuccess, Readable
    <3>2. content[i] \in Seq(Block)
      BY <3>1, ReadableIsWhole
    <3>3. reader'.seen = <<>>
      BY <1>20 DEF ReaderOpens
    <3>4. content' = content /\ pc' = pc /\ world' = world
      BY <1>20 DEF ReaderOpens
    <3> HIDE DEF i
    <3>5. /\ <<>> \in Seq(Block) /\ Len(<<>>) <= Len(content[i])
          /\ \A j \in 1..Len(<<>>) : <<>>[j] = content[i][j]
      BY <3>2, PrefixNone
    <3>6. reader'.inode = i
      BY DEF i
    <3> QED
      BY <3>1, <3>3, <3>4, <3>5, <3>6 DEF ReaderReadsOne, Readable
  <2>2. TypeOK' /\ PathFitsWorld' /\ StageFitsWorld'
    BY <1>20 DEF ReaderOpens, TypeOK, PathFitsWorld, Fits, StageFitsWorld
  <2>3. PathNamesSuccess' /\ TempsOfRunning' /\ TempContents'
    BY <1>20 DEF ReaderOpens, PathNamesSuccess, TempsOfRunning, TempContents
  <2>4. OthersUntouched' /\ InPlaceContent'
    BY <1>20 DEF ReaderOpens, OthersUntouched, InPlaceContent
  <2> QED
    BY <2>1, <2>2, <2>3, <2>4
<1>21. ASSUME ReaderReads PROVE Inv'
  <2>1. ReaderReadsOne'
    <3> SUFFICES ASSUME ~Mounted PROVE ReaderReadsOne'
      BY <1>21 DEF ReaderReads, ReaderReadsOne
    <3> DEFINE i == reader.inode
               seen == reader.seen
    <3>1. Readable(i)
      BY <1>21 DEF ReaderReads, ReaderReadsOne, Readable
    <3>2. content[i] \in Seq(Block)
      BY <3>1, ReadableIsWhole
    <3>3. /\ seen \in Seq(Block) /\ Len(seen) <= Len(content[i])
          /\ \A j \in 1..Len(seen) : seen[j] = content[i][j]
      BY <1>21 DEF ReaderReads, ReaderReadsOne
    <3>4. ~(Len(seen) >= Len(content[i]))
      BY <1>21 DEF ReaderReads, ReaderAtEnd
    <3>5. reader'.inode = i /\ reader'.seen = Append(seen, content[i][Len(seen) + 1])
      BY <1>21 DEF ReaderReads
    <3>6. content' = content /\ pc' = pc /\ world' = world
      BY <1>21 DEF ReaderReads
    <3> HIDE DEF i, seen
    <3> DEFINE t == content[i]
               next == Append(seen, t[Len(seen) + 1])
    <3>7. t \in Seq(Block) /\ ~(Len(seen) >= Len(t))
          /\ \A j \in 1..Len(seen) : seen[j] = t[j]
      BY <3>2, <3>3, <3>4
    <3>9. reader'.seen = next
      BY <3>5
    <3> HIDE DEF t
    <3>8. /\ next \in Seq(Block) /\ Len(next) <= Len(t)
          /\ \A j \in 1..Len(next) : next[j] = t[j]
      <4>1. seen \in Seq(Block) /\ t \in Seq(Block)
        BY <3>3, <3>7
      <4>2. ~(Len(seen) >= Len(t)) /\ \A j \in 1..Len(seen) : seen[j] = t[j]
        BY <3>7
      <4> HIDE DEF Mounted, Replaced, Inode
      <4> QED
        BY ONLY <4>1, <4>2, PrefixNext
    <3> QED
      BY <3>1, <3>5, <3>6, <3>8, <3>9 DEF ReaderReadsOne, Readable, t
  <2>2. /\ TypeOK' /\ PathFitsWorld' /\ StageFitsWorld' /\ PathNamesSuccess'
        /\ TempsOfRunning' /\ TempContents' /\ OthersUntouched' /\ InPlaceContent'
    BY <1>21 DEF ReaderReads, TypeOK, PathFitsWorld, Fits, StageFitsWorld,
       PathNamesSuccess, TempsOfRunning, TempContents, OthersUntouched, InPlaceContent
  <2> QED
    BY <2>1, <2>2
<1>22. ASSUME Writeback PROVE Inv'
  <2>1. TypeOK'
    <3>1. ASSUME NEW i \in Inode, Flush(i) PROVE TypeOK'
      BY <1>22, <3>1 DEF Writeback, Flush, TypeOK
    <3>2. CASE disk' = [entry |-> entry, content |-> disk.content]
      BY <1>22, <3>2 DEF Writeback, TypeOK
    <3> QED
      BY <1>22, <3>1, <3>2 DEF Writeback
  <2>2. PathFitsWorld'
    <3>1. ASSUME NEW i \in Inode, Flush(i) PROVE PathFitsWorld'
      BY <1>22, <3>1 DEF Writeback, Flush, PathFitsWorld, Fits
    <3>2. CASE disk' = [entry |-> entry, content |-> disk.content]
      BY <1>22, <3>2 DEF Writeback, PathFitsWorld, Fits
    <3> QED
      BY <1>22, <3>1, <3>2 DEF Writeback
  <2>3. PathNamesSuccess'
    BY <1>22 DEF Writeback, TypeOK, PathNamesSuccess, Flush
  <2>4. TempContents'
    <3>1. ASSUME NEW i \in Inode, Flush(i) PROVE TempContents'
      BY <1>22, <3>1 DEF Writeback, Flush, TypeOK, TempContents
    <3>2. CASE disk' = [entry |-> entry, content |-> disk.content]
      BY <1>22, <3>2 DEF Writeback, TypeOK, TempContents
    <3> QED
      BY <1>22, <3>1, <3>2 DEF Writeback
  <2>5. OthersUntouched'
    <3>1. ASSUME NEW i \in Inode, Flush(i) PROVE OthersUntouched'
      BY <1>22, <3>1 DEF Writeback, Flush, TypeOK, OthersUntouched
    <3>2. CASE disk' = [entry |-> entry, content |-> disk.content]
      BY <1>22, <3>2 DEF Writeback, TypeOK, OthersUntouched
    <3> QED
      BY <1>22, <3>1, <3>2 DEF Writeback
  <2>6. StageFitsWorld' /\ TempsOfRunning' /\ InPlaceContent' /\ ReaderReadsOne'
    BY <1>22 DEF Writeback, Flush, StageFitsWorld, TempsOfRunning, InPlaceContent,
       ReaderReadsOne
  <2> QED
    BY <2>1, <2>2, <2>3, <2>4, <2>5, <2>6
<1>23. ASSUME Crash PROVE Inv'
  <2>1. TypeOK'
    BY <1>23 DEF Crash, TypeOK, Running, Stage
  <2>2. PathFitsWorld'
    BY <1>23 DEF Crash, PathFitsWorld, Fits, Running
  <2>3. StageFitsWorld'
    BY <1>23 DEF Crash, TypeOK, StageFitsWorld, Running
  <2>4. PathNamesSuccess'
    BY <1>23 DEF Crash, TypeOK, PathNamesSuccess, Running
  <2>5. TempsOfRunning'
    BY <1>23 DEF Crash, TypeOK, TempsOfRunning, Running
  <2>6. TempContents'
    BY <1>23 DEF Crash, TypeOK, StageFitsWorld, TempContents, Running,
       PathNamesSuccess, PathFitsWorld, Fits
  <2>7. OthersUntouched'
    BY <1>23 DEF Crash, TypeOK, OthersUntouched, Running
  <2>8. InPlaceContent'
    BY <1>23 DEF Crash, TypeOK, StageFitsWorld, InPlaceContent, Running
  <2>9. ReaderReadsOne'
    BY <1>23 DEF Crash, TypeOK, ReaderReadsOne, Running
  <2> QED
    BY <2>1, <2>2, <2>3, <2>4, <2>5, <2>6, <2>7, <2>8, <2>9
<1>24. CASE UNCHANGED vars
  <2>1. TypeOK' /\ PathFitsWorld' /\ StageFitsWorld' /\ PathNamesSuccess'
    BY <1>24 DEF vars, TypeOK, PathFitsWorld, Fits, StageFitsWorld, PathNamesSuccess
  <2>2. TempsOfRunning' /\ TempContents' /\ OthersUntouched'
    BY <1>24 DEF vars, TempsOfRunning, TempContents, OthersUntouched
  <2>3. InPlaceContent'
    BY <1>24 DEF vars, InPlaceContent
  <2>4. ReaderReadsOne'
    BY <1>24 DEF vars, ReaderReadsOne
  <2> QED
    BY <2>1, <2>2, <2>3, <2>4
<1> QED
  BY <1>1, <1>2, <1>3, <1>4, <1>5, <1>6, <1>7, <1>8, <1>9, <1>10, <1>11,
     <1>12, <1>13, <1>14, <1>15, <1>16, <1>17, <1>18, <1>19, <1>20, <1>21,
     <1>22, <1>23, <1>24 DEF Next, Step

LEMMA Invariant == Spec => []Inv
  BY InvInit, InvStep, PTL DEF Spec

-----------------------------------------------------------------------------

\* However many runs write the path, and whenever a link is put there, the
\* file it leads to is never written: writeInPlace opens without following
\* links, and whatever else is there is replaced.
THEOREM LinkTargetSafe == Spec => []LinkTargetUntouched
<1>1. Inv => LinkTargetUntouched
  BY DEF Inv, OthersUntouched, LinkTargetUntouched
<1> QED
  BY <1>1, Invariant, PTL

\* Only runs that succeeded are what the path names, and no run that returned
\* leaves its temporary file: every error of replaceOutputFileWith removes it.
THEOREM FailureIsClean == Spec => []FailureLeavesNothing
<1>1. Inv => FailureLeavesNothing
  BY DEF Inv, PathNamesSuccess, OthersUntouched, TempsOfRunning, FailureLeavesNothing
<1> QED
  BY <1>1, Invariant, PTL

\* After a crash the path names a whole profile, because writeTempFile syncs
\* before the rename.
THEOREM CrashIsSafe == Spec => []CrashLeavesWholeFile
<1>1. ASSUME Inv PROVE CrashLeavesWholeFile
  <2> SUFFICES ASSUME ~Mounted, entry \in {"old"} \cup Writer
               PROVE content[entry] \in WholeContents
    BY DEF CrashLeavesWholeFile
  <2>1. Readable(entry)
    BY <1>1, OutputAssumption DEF Inv, PathFitsWorld, Fits, PathNamesSuccess,
       Readable, Replaced
  <2> QED
    BY <1>1, <2>1, ReadableIsWhole
<1> QED
  BY <1>1, Invariant, PTL

\* A reader that reaches the end has read one whole profile, whatever was
\* renamed over the path meanwhile.
THEOREM ReaderIsSafe == Spec => []ReaderSeesWholeProfile
<1>1. ASSUME Inv PROVE ReaderSeesWholeProfile
  <2> SUFFICES ASSUME reader.inode # None, ReaderAtEnd, ~Mounted
               PROVE reader.seen \in WholeContents
    BY DEF ReaderSeesWholeProfile
  <2> DEFINE i == reader.inode
             seen == reader.seen
             t == content[i]
  <2>1. Readable(i) /\ seen \in Seq(Block)
    BY <1>1 DEF Inv, ReaderReadsOne, Readable
  <2>2. t \in WholeContents /\ t \in Seq(Block)
    BY <1>1, <2>1, ReadableIsWhole
  <2>3. Len(seen) <= Len(t) /\ \A j \in 1..Len(seen) : seen[j] = t[j]
    BY <1>1 DEF Inv, ReaderReadsOne
  <2>4. Len(seen) >= Len(t)
    BY DEF ReaderAtEnd
  <2> HIDE DEF seen, t
  <2>5. Len(seen) = Len(t)
    BY <2>1, <2>2, <2>3, <2>4
  <2>6. seen = t
    BY <2>1, <2>2, <2>3, <2>5
  <2> QED
    BY <2>2, <2>6 DEF seen
<1> QED
  BY <1>1, Invariant, PTL

\* Success comes from the rename, or from closing what was written in place.
LEMMA BecomesDone ==
  ASSUME Inv, Next, NEW w \in Writer, pc[w] # "done", pc'[w] = "done"
  PROVE Rename(w) \/ CloseInPlace(w)
<1> USE DEF Inv, TypeOK, Goto
<1>1. ASSUME NEW v \in Writer, Lstat(v) PROVE FALSE
  BY <1>1 DEF Lstat
<1>2. ASSUME NEW v \in Writer, CheckWritable(v) PROVE FALSE
  BY <1>2 DEF CheckWritable
<1>3. ASSUME NEW v \in Writer, IsMountedFile(v) PROVE FALSE
  BY <1>3 DEF IsMountedFile
<1>4. ASSUME NEW v \in Writer, CreateTemp(v) PROVE FALSE
  BY <1>4 DEF CreateTemp
<1>5. ASSUME NEW v \in Writer, WriteTemp(v) PROVE FALSE
  BY <1>5 DEF WriteTemp
<1>6. ASSUME NEW v \in Writer, SyncTemp(v) PROVE FALSE
  BY <1>6 DEF SyncTemp
<1>7. ASSUME NEW v \in Writer, CloseTemp(v) PROVE FALSE
  BY <1>7 DEF CloseTemp
<1>8. ASSUME NEW v \in Writer, FailTemp(v) PROVE FALSE
  BY <1>8 DEF FailTemp
<1>9. ASSUME NEW v \in Writer, RenameBusy(v) PROVE FALSE
  BY <1>9 DEF RenameBusy
<1>10. ASSUME NEW v \in Writer, RenameFails(v) PROVE FALSE
  BY <1>10 DEF RenameFails
<1>11. ASSUME NEW v \in Writer, RemoveTemp(v) PROVE FALSE
  BY <1>11 DEF RemoveTemp
<1>12. ASSUME NEW v \in Writer, OpenInPlace(v) PROVE FALSE
  BY <1>12 DEF OpenInPlace
<1>13. ASSUME NEW v \in Writer, WriteInPlace(v) PROVE FALSE
  BY <1>13 DEF WriteInPlace
<1>14. ASSUME NEW v \in Writer, FailInPlace(v) PROVE FALSE
  BY <1>14 DEF FailInPlace
<1>15. ASSUME NEW v \in Writer, Kill(v) PROVE FALSE
  BY <1>15 DEF Kill
<1>16. ASSUME PutSymlink PROVE FALSE
  BY <1>16 DEF PutSymlink
<1>17. ASSUME RemoveFile PROVE FALSE
  BY <1>17 DEF RemoveFile
<1>18. ASSUME ReaderOpens PROVE FALSE
  BY <1>18 DEF ReaderOpens
<1>19. ASSUME ReaderReads PROVE FALSE
  BY <1>19 DEF ReaderReads
<1>20. ASSUME Writeback PROVE FALSE
  BY <1>20 DEF Writeback
<1>21. ASSUME Crash PROVE FALSE
  BY <1>21 DEF Crash
<1>22. ASSUME NEW v \in Writer, Rename(v) \/ CloseInPlace(v) PROVE v = w
  BY <1>22 DEF Rename, CloseInPlace
<1> QED
  BY <1>1, <1>2, <1>3, <1>4, <1>5, <1>6, <1>7, <1>8, <1>9, <1>10, <1>11, <1>12, <1>13,
     <1>14, <1>15, <1>16, <1>17, <1>18, <1>19, <1>20, <1>21, <1>22 DEF Next, Step

\* Success means that the whole profile, and nothing else, is in the file the
\* run renamed, or in the mount point it alone wrote.
THEOREM SuccessIsReal == Spec => SuccessIsWritten
<1> DEFINE SuccessOf(w) == pc[w] # "done" /\ pc'[w] = "done" =>
       IF pc[w] = "rename" THEN entry' = w /\ content[w] = Whole(w)
       ELSE \/ file[w] = "device"
            \/ \E v \in Writer \ {w} : file[v] = file[w]
            \/ content[file[w]] = Whole(w)
<1>1. ASSUME Inv, Next, NEW w \in Writer PROVE SuccessOf(w)
  <2> SUFFICES ASSUME pc[w] # "done", pc'[w] = "done"
               PROVE IF pc[w] = "rename" THEN entry' = w /\ content[w] = Whole(w)
                     ELSE \/ file[w] = "device"
                          \/ \E v \in Writer \ {w} : file[v] = file[w]
                          \/ content[file[w]] = Whole(w)
    OBVIOUS
  <2>1. CASE Rename(w)
    BY <1>1, <2>1 DEF Inv, TempContents, Rename
  <2>2. CASE CloseInPlace(w)
    <3>1. pc[w] = "write" /\ offset[w] = Blocks
      BY <2>2 DEF CloseInPlace
    <3>2. CASE file[w] = "device"
      BY <3>1, <3>2
    <3>3. CASE Mounted /\ file[w] = "old"
      BY <1>1, <3>1, <3>3 DEF Inv, InPlaceContent, Written, Whole
    <3> QED
      BY <1>1, <3>1, <3>2, <3>3 DEF Inv, StageFitsWorld
  <2> QED
    BY <1>1, <2>1, <2>2, BecomesDone
<1>2. Inv /\ [Next]_vars => [\A w \in Writer : SuccessOf(w)]_vars
  BY <1>1
<1>3. Spec => [][\A w \in Writer : SuccessOf(w)]_vars
  BY <1>2, Invariant, PTL DEF Spec
<1> QED
  BY <1>3 DEF SuccessIsWritten
=============================================================================
