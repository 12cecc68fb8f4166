----------------------------- MODULE FTPConsumer -----------------------------
(***************************************************************************)
(* The FTP consumers (consumer/consumer_ftp.go).  All of them append to    *)
(* one file; the one that finds it too long moves it to the archive        *)
(* directory, packs it into a zip file there, and removes the log.  After  *)
(* each batch a consumer checks the directory, all of whose files it       *)
(* uploads and removes, those included that another one is still writing.  *)
(*                                                                         *)
(* The file of number n is the n-th one created under the common name;     *)
(* archived it is log n, packed it is zip n (the names have the second of  *)
(* the rotation: two of one second are not modelled).  Records are         *)
(* followed by identity; record 0 stands for a batch of records that are   *)
(* not followed.  Each consumer uploads to a place of its own.            *)
(* The position in f.state is left out: nothing ever reads it.             *)
(***************************************************************************)
EXTENDS Integers, FiniteSets, FiniteSetsExt

CONSTANTS
  Consumers,   (* the FTP consumers                                         *)
  Keep,        (* archived files kept (10 in the code)                      *)
  MaxRecords,  (* bound: records followed                                   *)
  MaxLong,     (* bound: the files found too long are among the first ones  *)
  MaxFaults    (* bound: calls that fail, and crashes                       *)

ASSUME FTPAssumption ==
  /\ {MaxRecords, MaxFaults} \subseteq Nat
  /\ Keep \in Nat \ {0} /\ MaxLong \in Nat \ {0} /\ IsFiniteSet(Consumers)

Records == 1..MaxRecords
Numbers == 1..(MaxLong + Cardinality(Consumers) + 1)
Files   == [kind : {"log", "zip"}, n : Numbers]
None    == 0
NoFile  == [kind |-> "none", n |-> None]

Log(n) == [kind |-> "log", n |-> n]
Zip(n) == [kind |-> "zip", n |-> n]

VARIABLES
  posix,    (* an open file can be renamed and removed (not so on Windows)  *)
  next,     (* records written or lost so far                               *)
  current,  (* the file under the common name, or None                      *)
  created,  (* files created so far                                         *)
  content,  (* the records in each file                                     *)
  dir,      (* the archive directory                                        *)
  packed,   (* the records in each zip file                                 *)
  pc,       (* where HandleEvents of each consumer stands                   *)
  record,   (* its batch                                                    *)
  fd,       (* the file it has open: archiveFile, later zipFile             *)
  check,    (* where checkArchiveLog of each consumer stands                *)
  todo,     (* the files it is still to upload                              *)
  at,       (* the file it is at                                            *)
  stored,   (* the records the files on the servers hold                    *)
  faults,
  \* History: no guard reads these.
  written,  (* records written to a file                                    *)
  spoiled,  (* zip files uploaded or removed before they were closed        *)
  excused   (* records lost in the ways named at RecordKept                 *)

handler == <<pc, record, fd>>
checker == <<check, todo, at>>
archive == <<dir, packed>>
local   == <<next, current, created, content>>
history == <<written, spoiled, excused>>
vars    == <<posix, local, archive, handler, checker, stored, faults, history>>

Packing(n) == \E f \in Consumers : pc[f] \in {"pack", "close"} /\ fd[f] = n

TypeOK ==
  /\ posix \in BOOLEAN
  /\ next \in 0..MaxRecords
  /\ created \in Numbers \cup {0} /\ current \in {None, created}
  /\ content \in [Numbers -> SUBSET Records] /\ packed \in [Numbers -> SUBSET Records]
  /\ dir \subseteq {x \in Files : x.n <= created}
  /\ spoiled \subseteq Numbers
  /\ pc \in [Consumers -> {"idle", "write", "rename", "pack", "close"}]
  /\ record \in [Consumers -> 0..MaxRecords]
  /\ fd \in [Consumers -> Numbers \cup {None}]
  /\ check \in [Consumers -> {"idle", "list", "next", "remove"}]
  /\ todo \in [Consumers -> SUBSET Files] /\ at \in [Consumers -> Files \cup {NoFile}]
  /\ faults \in 0..MaxFaults
  /\ stored \cup written \cup excused \subseteq Records

Init ==
  /\ posix \in BOOLEAN
  /\ next = 0 /\ current = None /\ created = 0
  /\ content = [n \in Numbers |-> {}]
  /\ dir = {} /\ packed = [n \in Numbers |-> {}]
  /\ pc = [f \in Consumers |-> "idle"] /\ record = [f \in Consumers |-> 0]
  /\ fd = [f \in Consumers |-> None]
  /\ check = [f \in Consumers |-> "idle"] /\ todo = [f \in Consumers |-> {}]
  /\ at = [f \in Consumers |-> NoFile]
  /\ stored = {}
  /\ faults = 0
  /\ written = {} /\ spoiled = {} /\ excused = {}

Faulty == faults < MaxFaults /\ faults' = faults + 1

-----------------------------------------------------------------------------
(* HandleEvents *)

Goto(f, l)   == pc' = [pc EXCEPT ![f] = l]
\* HandleEvents returns; what it has open is closed.
Return(f)    == /\ pc' = [pc EXCEPT ![f] = "idle"]
                /\ fd' = [fd EXCEPT ![f] = None]

\* Mutant: the file is created anew for every batch.
OpenNew(f) ==
  /\ pc[f] = "idle"
  /\ \E r \in {0, next + 1} \ {MaxRecords + 1} :
       /\ record' = [record EXCEPT ![f] = r]
       /\ next' = IF r = 0 THEN next ELSE r
  /\ created' = created + 1
  /\ current' = created'
  /\ fd' = [fd EXCEPT ![f] = created']
  /\ Goto(f, "write")
  /\ UNCHANGED <<posix, content, archive, checker, stored, faults, history>>

\* A batch comes: of the next record, or of none that is followed.
Open(f) ==
  /\ pc[f] = "idle"
  /\ \E r \in {0, next + 1} \ {MaxRecords + 1} :
       /\ record' = [record EXCEPT ![f] = r]
       /\ next' = IF r = 0 THEN next ELSE r
  /\ created' = IF current = None THEN created + 1 ELSE created
  /\ current' = created'
  /\ fd' = [fd EXCEPT ![f] = created']
  /\ Goto(f, "write")
  /\ UNCHANGED <<posix, content, archive, checker, stored, faults, history>>

\* go f.checkArchiveLog(), which returns when another check of f has the lock.
StartCheck(f) == check' = [check EXCEPT ![f] = IF @ = "idle" THEN "list" ELSE @]

\* The length is that of the file opened, with the records that are not
\* followed: it may be beyond fileMaxSize or not.  The file is closed before it
\* is moved.  If the length cannot be had, HandleEvents returns without a check.
Stat(f) ==
  /\ record' = [record EXCEPT ![f] = 0]
  /\ \/ /\ fd[f] <= MaxLong
        /\ Goto(f, "rename")
        /\ fd' = [fd EXCEPT ![f] = None]
        /\ UNCHANGED <<check, faults>>
     \/ StartCheck(f) /\ Return(f) /\ UNCHANGED faults
     \/ Faulty /\ Return(f) /\ UNCHANGED check

\* Through the file that was opened, wherever it has been moved since.  An error
\* is only logged: the record counts as not followed then.  (Writing and looking
\* at the length are one step: others only make the file longer in between, or
\* move it, and the length is any.)
Write(f) ==
  /\ pc[f] = "write"
  /\ LET r == {record[f]} \ {0}
     IN  /\ content' = [content EXCEPT ![fd[f]] = @ \cup r]
         /\ written' = written \cup r
         /\ excused' = IF fd[f] = current THEN excused ELSE excused \cup r
  /\ Stat(f)
  /\ UNCHANGED <<posix, next, current, created, archive, todo, at, stored,
                 spoiled>>

\* What has the common name by now is moved: it may be another file, or none.
Movable == current # None /\ (posix \/ \A g \in Consumers : fd[g] # current)

\* Then the zip file is created.
Rename(f) ==
  /\ pc[f] = "rename"
  /\ IF Movable
       THEN /\ current' = None
            /\ dir' = dir \cup {Log(current), Zip(current)}
            /\ fd' = [fd EXCEPT ![f] = current]
            /\ Goto(f, "pack")
       ELSE Return(f) /\ UNCHANGED <<current, dir>>
  /\ UNCHANGED <<posix, next, created, content, packed, record, checker, stored, faults,
                 history>>

CreateFails(f) ==
  /\ pc[f] = "rename" /\ Movable
  /\ Faulty
  /\ current' = None
  /\ dir' = dir \cup {Log(current)}
  /\ Return(f)
  /\ UNCHANGED <<posix, next, created, content, packed, record, checker, stored,
                 history>>

\* Mutant: the log is removed although it has not been read.
PackNothing(f) ==
  /\ pc[f] = "pack"
  /\ dir' = dir \ {Log(fd[f])}
  /\ Goto(f, "close")
  /\ UNCHANGED <<posix, local, packed, record, fd, checker, stored, faults,
                 history>>

\* The log is read, given to the zip writer and removed.  It may have been
\* uploaded and removed already: then the zip file stays empty.  (One step: what
\* others write to the log between the reading and the removal is excused by
\* Write, and if a check removes it then, nothing is left to remove here.)
Pack(f) ==
  /\ pc[f] = "pack"
  /\ IF Log(fd[f]) \in dir
       THEN /\ packed' = [packed EXCEPT ![fd[f]] = content[fd[f]]]
            /\ content' = [content EXCEPT ![fd[f]] = {}]
            /\ dir' = dir \ {Log(fd[f])}
            /\ excused' = IF fd[f] \in spoiled THEN excused \cup packed'[fd[f]] ELSE excused
            /\ Goto(f, "close")
            /\ UNCHANGED fd
       ELSE Return(f) /\ UNCHANGED <<content, packed, dir, excused>>
  /\ UNCHANGED <<posix, next, current, created, record, checker, stored, faults,
                 written, spoiled>>

\* The entry of the zip file is not made, or the log not read, or not written:
\* the log stays where it is, beside an empty zip file.
PackFails(f) ==
  /\ pc[f] = "pack"
  /\ Faulty
  /\ Return(f)
  /\ UNCHANGED <<posix, local, archive, record, checker, stored, history>>

\* The deferred calls; that of the zip writer writes what it still has.
CloseZip(f) ==
  /\ pc[f] = "close"
  /\ StartCheck(f) /\ Return(f)
  /\ UNCHANGED <<posix, local, archive, record, todo, at, stored, faults, history>>

\* Its error is not looked at.
CloseFails(f) ==
  /\ pc[f] = "close"
  /\ Faulty
  /\ packed' = [packed EXCEPT ![fd[f]] = {}]
  /\ excused' = excused \cup packed[fd[f]]
  /\ StartCheck(f) /\ Return(f)
  /\ UNCHANGED <<posix, local, dir, record, todo, at, stored, written, spoiled>>

-----------------------------------------------------------------------------
(* checkArchiveLog *)

Phase(f, l) == check' = [check EXCEPT ![f] = l]

\* os.Remove, of files a zip writer may have open.
Removed(X) == IF posix THEN X ELSE {x \in X : ~(x.kind = "zip" /\ Packing(x.n))}

\* (The records of a file that is gone are no longer told apart.)
Delete(X) ==
  /\ dir' = dir \ X
  /\ content' = [n \in Numbers |-> IF Log(n) \in X THEN {} ELSE content[n]]
  /\ packed' = [n \in Numbers |-> IF Zip(n) \in X THEN {} ELSE packed[n]]

Holds(x) == IF x.kind = "log" THEN content[x.n] ELSE packed[x.n]

\* All but the Keep latest are removed (they are as old as their rotation).
List(f) ==
  /\ check[f] = "list"
  /\ \E old \in SUBSET dir :
       /\ Cardinality(old) = Max({Cardinality(dir) - Keep, 0})
       /\ \A x \in old : \A y \in dir \ old : x.n <= y.n
       /\ todo' = [todo EXCEPT ![f] = dir \ old]
       /\ Delete(Removed(old))
       /\ excused' = excused \cup UNION {Holds(x) : x \in Removed(old)}
       /\ spoiled' = spoiled \cup {n \in Numbers : Zip(n) \in Removed(old) /\ Packing(n)}
  /\ Phase(f, IF dir = {} THEN "idle" ELSE "next")
  /\ UNCHANGED <<posix, next, current, created, handler, at, stored, faults, written>>

\* What reading x gives: of a zip file that is not closed, no records.
Data(x) == IF x.kind = "zip" /\ Packing(x.n) THEN {} ELSE Holds(x)

\* A file of the listing is read and stored.
Upload(f) ==
  /\ check[f] = "next"
  /\ \E x \in todo[f] \cap dir :
       /\ stored' = stored \cup Data(x)
       /\ IF x.kind = "zip" /\ Packing(x.n)
            THEN spoiled' = spoiled \cup {x.n} /\ excused' = excused \cup packed[x.n]
            ELSE UNCHANGED <<spoiled, excused>>
       /\ at' = [at EXCEPT ![f] = x]
       /\ todo' = [todo EXCEPT ![f] = @ \ {x}]
  /\ Phase(f, "remove")
  /\ UNCHANGED <<posix, local, archive, handler, faults, written>>

Abort(f) == todo' = [todo EXCEPT ![f] = {}] /\ Phase(f, "idle") /\ UNCHANGED at

\* Mutant: a check that ends early keeps the lock.
ReadFailsLocked(f) ==
  /\ check[f] = "next"
  /\ todo[f] \ dir # {}
  /\ UNCHANGED vars

\* A file is no longer there.
ReadFails(f) ==
  /\ check[f] = "next"
  /\ todo[f] \ dir # {}
  /\ Abort(f)
  /\ UNCHANGED <<posix, local, archive, handler, stored, faults, history>>

\* There is no connection, or the file is not stored whole (what an earlier
\* upload of it had stored may be lost, but the file is still here).
StoreFails(f) ==
  /\ check[f] = "next"
  /\ Faulty
  /\ Abort(f)
  /\ UNCHANGED <<posix, local, archive, handler, stored, history>>

Remove(f) ==
  /\ check[f] = "remove"
  /\ Delete(Removed({at[f]}))
  /\ at' = [at EXCEPT ![f] = NoFile]
  /\ Phase(f, IF todo[f] = {} THEN "idle" ELSE "next")
  /\ UNCHANGED <<posix, next, current, created, handler, todo, stored, faults, history>>

-----------------------------------------------------------------------------

\* The process ends, and is started again.
Crash ==
  /\ Faulty
  /\ packed' = [n \in Numbers |-> IF Packing(n) THEN {} ELSE packed[n]]
  /\ excused' = excused \cup UNION {packed[n] : n \in {k \in Numbers : Packing(k)}}
  /\ pc' = [f \in Consumers |-> "idle"] /\ fd' = [f \in Consumers |-> None]
  /\ record' = [f \in Consumers |-> 0]
  /\ check' = [f \in Consumers |-> "idle"] /\ todo' = [f \in Consumers |-> {}]
  /\ at' = [f \in Consumers |-> NoFile]
  /\ UNCHANGED <<posix, local, dir, stored, written, spoiled>>

Handle(f) == Open(f) \/ Write(f) \/ Rename(f) \/ Pack(f) \/ CloseZip(f)

Check(f) == List(f) \/ Upload(f) \/ ReadFails(f) \/ Remove(f)

Fail(f) == CreateFails(f) \/ PackFails(f) \/ CloseFails(f) \/ StoreFails(f)

Next == Crash \/ \E f \in Consumers : Handle(f) \/ Check(f) \/ Fail(f)

Spec == Init /\ [][Next]_vars

\* Batches come, and the goroutines run.
Fairness == \A f \in Consumers : WF_vars(Handle(f)) /\ WF_vars(Check(f))

FairSpec == Spec /\ Fairness

-----------------------------------------------------------------------------
(* Properties *)

\* Every record written is in the current file, the archive or on a server:
\* across rotations, packing, uploads of two consumers at once, failures at each
\* step, and crashes.  Excused are the records
\*   written to a file another consumer has moved meanwhile (Write),
\*   in a zip file whose closing fails, or that a crash finds open: the log is
\*     removed before it is closed (CloseFails, Crash),
\*   in a zip file uploaded before it was closed (Upload, Pack),
\*   in a file beyond the Keep latest (List).
RecordKept ==
  \A r \in written \ excused :
    \/ current # None /\ r \in content[current]
    \/ \E x \in dir : r \in Holds(x)
    \/ r \in stored

\* Whatever lies in the archive directory (a log whose packing failed, a torn
\* zip file after a crash) leaves it in the end, as long as batches come.  Not on
\* Windows: there a rotation fails while another consumer has the file open, and
\* then HandleEvents returns without a check.
ArchiveUploaded == posix => []<>(dir = {})
=============================================================================
