---------------------------- MODULE ETLPipeline ----------------------------
(***************************************************************************)
(* The way of a file through the reader of analytical logs                 *)
(* (reader/etl_reader.go): cron copies the log (Run), transferETL has a    *)
(* pool of workers turn each .etl copy into XML, unmarshalETL has a second *)
(* pool parse it and wait for its turn in sortList, scanXML takes the      *)
(* parsed files from the channel events.  The files on disk survive the    *)
(* end of the process; loadFiles picks them up at the next start, before   *)
(* any of the goroutines runs.                                             *)
(*                                                                         *)
(* A file is a number: the copies are named after the second they are made *)
(* in.  What the files contain is the subject of module ETLScan.           *)
(***************************************************************************)
EXTENDS Integers, Sequences, FiniteSets, SequencesExt

CONSTANTS
  Threads,    (* transferThreads: workers that run tracerpt                 *)
  MaxCount,   (* Run skips a copy when count is greater (10 in the code)    *)
  EtlCap,     (* capacity of etlLogfiles (20 in the code)                   *)
  XmlCap,     (* capacity of xmlLogfiles (20 in the code)                   *)
  EventsCap,  (* capacity of events (20 in the code)                        *)
  None,       (* no element                                                 *)
  MaxFiles,   (* bound: copies made                                         *)
  MaxJobs,    (* bound: jobs of cron between their look at count and a copy *)
  MaxCrashes, (* bound: restarts                                            *)
  MaxFaults   (* bound: copies, transfers and files that fail               *)

ASSUME SizesAssumption ==
  /\ Threads \in Nat \ {0}
  /\ EtlCap \in Nat \ {0} /\ XmlCap \in Nat \ {0} /\ EventsCap \in Nat \ {0}
  /\ MaxCount \in Nat /\ MaxFiles \in Nat /\ MaxJobs \in Nat
  /\ MaxCrashes \in Nat /\ MaxFaults \in Nat

Files == 1..MaxFiles

\* An element of sortList: a file that was transferred in this process
\* (fresh), or one that loadFiles found already transferred.
Elements == [file : Files, fresh : BOOLEAN]

Fresh(f)    == [file |-> f, fresh |-> TRUE]
Restored(f) == [file |-> f, fresh |-> FALSE]

ASSUME NoneAssumption == None \notin Nat /\ None \notin Elements

\* One worker more than the transfers have.
LoadThreads == Threads + 1

VARIABLES
  up,          (* "down", "init": in Init, "up"; Shutdown: "stopping" from  *)
               (* the assignment of stop on, "closed" when it has ended     *)
  late,        (* loops that looked at stop before it was set               *)
  etlDisk,     (* .etl files in the directory logs                          *)
  xmlDisk,     (* .xml files in the directory logs                          *)
  torn,        (* .xml files tracerpt has not finished: they do not parse   *)
  todo,        (* what loadFiles has yet to queue                           *)
  looking,     (* jobs of cron that found count small, and go on            *)
  made,        (* copies begun so far                                       *)
  count,       (* the counter Run looks at                                  *)
  copying,     (* files Run is copying                                      *)
  etlLogfiles, (* the channel; beyond EtlCap, goroutines of Run wait        *)
  held,        (* transferETL waits to submit this file                     *)
  transfer,    (* what a worker of transferPool does with a file            *)
  sortList,    (* elements in the order they are to be parsed               *)
  xmlLogfiles, (* the channel                                               *)
  parked,      (* unmarshalETL waits to submit this element                 *)
  load,        (* what a worker of loadPool does with an element            *)
  events,      (* the channel                                               *)
  crashes,     (* restarts so far                                           *)
  faults,      (* failures so far                                           *)
  \* History: no guard reads these.
  order,       (* elements in the order addSortFile appended them           *)
  entered,     (* elements that were parsed and entered events, in order    *)
  hurried,     (* elements that left the list before their turn, for stop   *)
  leaked,      (* copies that failed in this process                        *)
  found,       (* .etl files loadFiles found in this process                *)
  both,        (* files it found in both forms                              *)
  copied,      (* files whose copy is complete                              *)
  settled,     (* files whose events were taken, or of which a complete     *)
               (* form could not be converted or read and no other was left *)
  spoiled      (* files of which a torn .xml was read                       *)

disk    == <<etlDisk, xmlDisk, torn>>
copier  == <<looking, made, count, copying>>
stages  == <<etlLogfiles, held, transfer, sortList, xmlLogfiles, parked, load,
             events>>
passed  == <<order, entered, hurried>>
census  == <<leaked, found, both>>
fates   == <<copied, settled, spoiled>>
history == <<passed, census, fates>>
bounds  == <<crashes, faults>>
vars    == <<up, late, disk, todo, copier, stages, bounds, history>>

\* Workers of a pool that have not returned.
Transferring == {f \in Files : transfer[f] # "no"}
Loading      == {e \in Elements : load[e] # "no"}

\* Files between Run and the end of their transfer.
InTransfer == copying \cup ToSet(etlLogfiles) \cup ({held} \ {None}) \cup Transferring

\* Shutdown has set stop.
Halting == up \in {"stopping", "closed"}

\* The channels are open: a send waits for room, and does not panic.
Open == up \in {"up", "stopping"}

\* The loop l may take something from its channels.  Each looks at stop before
\* it does: one that looked before Shutdown may take one thing more.
Looping(l) == up = "up" \/ l \in late

TypeOK ==
  /\ up \in {"down", "init", "up", "stopping", "closed"}
  /\ late \subseteq {"transferETL", "unmarshalETL", "scanXML"}
  /\ etlDisk \subseteq Files /\ xmlDisk \subseteq Files /\ torn \subseteq xmlDisk
  /\ todo \subseteq {"etl", "xml"} \X Files
  /\ looking \in 0..MaxJobs
  /\ made \in 0..MaxFiles
  /\ count \in Int
  /\ copying \subseteq Files
  /\ etlLogfiles \in Seq(Files)
  /\ held \in Files \cup {None}
  /\ transfer \in [Files -> {"no", "running", "pushing", "cleanup"}]
  /\ sortList \in Seq(Elements)
  /\ xmlLogfiles \in Seq(Elements) /\ Len(xmlLogfiles) <= XmlCap
  /\ parked \in Elements \cup {None}
  /\ load \in [Elements -> {"no", "reading", "waiting", "sending", "failed"}]
  /\ events \in Seq(Elements) /\ Len(events) <= EventsCap
  /\ crashes \in 0..MaxCrashes
  /\ faults \in 0..MaxFaults
  /\ Cardinality(Transferring) <= Threads
  /\ Cardinality(Loading) <= LoadThreads

Init ==
  /\ up = "down" /\ late = {}
  /\ etlDisk = {} /\ xmlDisk = {} /\ torn = {}
  /\ todo = {}
  /\ looking = 0 /\ made = 0 /\ count = 0 /\ copying = {}
  /\ etlLogfiles = <<>> /\ held = None
  /\ transfer = [f \in Files |-> "no"]
  /\ sortList = <<>>
  /\ xmlLogfiles = <<>> /\ parked = None
  /\ load = [e \in Elements |-> "no"]
  /\ events = <<>>
  /\ crashes = 0 /\ faults = 0
  /\ order = <<>> /\ entered = <<>> /\ hurried = {}
  /\ leaked = 0 /\ found = {} /\ both = {}
  /\ copied = {} /\ settled = {} /\ spoiled = {}

-----------------------------------------------------------------------------
(* The process *)

Start ==
  /\ up = "down"
  /\ up' = "init"
  /\ todo' = ({"etl"} \X etlDisk) \cup ({"xml"} \X xmlDisk)
  /\ both' = etlDisk \cap xmlDisk
  /\ UNCHANGED <<late, disk, copier, stages, bounds, passed, leaked, found, fates>>

\* loadFiles queues what the directory holds, in the order it was read: the
\* comparison given to sort.Slice looks at indices only.  Nobody receives yet.
LoadEtl(f) ==
  /\ up = "init"
  /\ <<"etl", f>> \in todo
  /\ Len(etlLogfiles) < EtlCap
  /\ todo' = todo \ {<<"etl", f>>}
  /\ etlLogfiles' = Append(etlLogfiles, f)
  /\ found' = found \cup {f}
  /\ UNCHANGED <<up, late, disk, copier, held, transfer, sortList, xmlLogfiles,
                 parked, load, events, bounds, passed, leaked, both, fates>>

LoadXml(f) ==
  /\ up = "init"
  /\ <<"xml", f>> \in todo
  /\ Len(xmlLogfiles) < XmlCap
  /\ todo' = todo \ {<<"xml", f>>}
  /\ sortList' = Append(sortList, Restored(f))
  /\ xmlLogfiles' = Append(xmlLogfiles, Restored(f))
  /\ order' = Append(order, Restored(f))
  /\ UNCHANGED <<up, late, disk, copier, etlLogfiles, held, transfer, parked, load,
                 events, bounds, entered, hurried, census, fates>>

\* Init starts the goroutines; the cron job may run from now on.
Ready ==
  /\ up = "init"
  /\ todo = {}
  /\ up' = "up"
  /\ UNCHANGED <<late, disk, todo, copier, stages, bounds, history>>

\* Shutdown sets stop.  A loop that is not waiting for room in its pool may have
\* looked at stop already; whoever waits for its turn waits no longer.
Shutdown ==
  /\ up = "up"
  /\ crashes < MaxCrashes
  /\ up' = "stopping"
  /\ late' = {"scanXML"} \cup (IF held = None THEN {"transferETL"} ELSE {})
                         \cup (IF parked = None THEN {"unmarshalETL"} ELSE {})
  /\ UNCHANGED <<disk, todo, copier, stages, bounds, history>>

\* The pools have been released (RefuseTransfer, RefuseLoad), and the channels
\* are closed.  The order in which they are makes no difference: a send on one
\* does not enable anything another one needs.
Close ==
  /\ up = "stopping"
  /\ up' = "closed"
  /\ UNCHANGED <<late, disk, todo, copier, stages, bounds, history>>

\* The process ends (by itself, after Shutdown, or by a job of cron that sends to
\* the closed channel); the directory stays.
Crash ==
  /\ up # "down"
  /\ crashes < MaxCrashes
  /\ crashes' = crashes + 1
  /\ up' = "down" /\ late' = {}
  /\ todo' = {}
  /\ looking' = 0 /\ count' = 0 /\ copying' = {}
  /\ etlLogfiles' = <<>> /\ held' = None
  /\ transfer' = [f \in Files |-> "no"]
  /\ sortList' = <<>>
  /\ xmlLogfiles' = <<>> /\ parked' = None
  /\ load' = [e \in Elements |-> "no"]
  /\ events' = <<>>
  /\ order' = <<>> /\ entered' = <<>> /\ hurried' = {}
  /\ leaked' = 0 /\ found' = {} /\ both' = {}
  /\ UNCHANGED <<disk, made, faults, fates>>

-----------------------------------------------------------------------------
(* Run: the cron job *)

\* The job looks at count.  (When it is too great the job returns: no change.)
Look ==
  /\ up = "up"
  /\ looking < MaxJobs /\ looking + made < MaxFiles
  /\ count <= MaxCount
  /\ looking' = looking + 1
  /\ UNCHANGED <<up, late, disk, todo, made, count, copying, stages, bounds, history>>

\* A copy begins: the job knows nothing of stop.
Run ==
  /\ looking > 0
  /\ looking' = looking - 1
  /\ count' = count + 1
  /\ made' = made + 1
  /\ copying' = copying \cup {made'}
  /\ etlDisk' = etlDisk \cup {made'}
  /\ UNCHANGED <<up, late, xmlDisk, torn, todo, stages, bounds, history>>

\* The copy, or what precedes it, fails: the job returns, count stays.
CopyFails(f) ==
  /\ f \in copying
  /\ faults < MaxFaults
  /\ faults' = faults + 1
  /\ copying' = copying \ {f}
  /\ etlDisk' \in {etlDisk, etlDisk \ {f}}
  /\ leaked' = leaked + 1
  /\ UNCHANGED <<up, late, xmlDisk, torn, todo, looking, made, count, stages, crashes,
                 passed, found, both, fates>>

CopyDone(f) ==
  /\ Open
  /\ f \in copying
  /\ copying' = copying \ {f}
  /\ etlLogfiles' = Append(etlLogfiles, f)
  /\ copied' = copied \cup {f}
  /\ UNCHANGED <<up, late, disk, todo, looking, made, count, held, transfer, sortList,
                 xmlLogfiles, parked, load, events, bounds, passed, census, settled,
                 spoiled>>

-----------------------------------------------------------------------------
(* transferETL and the workers of transferPool *)

ReceiveEtl ==
  /\ Looping("transferETL")
  /\ held = None
  /\ etlLogfiles # <<>>
  /\ late' = late \ {"transferETL"}
  /\ held' = Head(etlLogfiles)
  /\ etlLogfiles' = Tail(etlLogfiles)
  /\ sortList' = Append(sortList, Fresh(held'))
  /\ order' = Append(order, Fresh(held'))
  /\ UNCHANGED <<up, disk, todo, copier, transfer, xmlLogfiles, parked, load, events,
                 bounds, entered, hurried, census, fates>>

\* Mutant: the pool has no limit.
SubmitTransferUnbounded ==
  /\ held # None
  /\ transfer' = [transfer EXCEPT ![held] = "running"]
  /\ held' = None
  /\ UNCHANGED <<up, late, disk, todo, copier, etlLogfiles, sortList, xmlLogfiles,
                 parked, load, events, bounds, history>>

\* Mutant: the copy is deleted before it is transferred.
SubmitTransferDeleting ==
  /\ held # None
  /\ Cardinality(Transferring) < Threads
  /\ transfer' = [transfer EXCEPT ![held] = "running"]
  /\ held' = None
  /\ etlDisk' = etlDisk \ {held}
  /\ UNCHANGED <<up, late, xmlDisk, torn, todo, copier, etlLogfiles, sortList,
                 xmlLogfiles, parked, load, events, bounds, history>>

SubmitTransfer ==
  /\ held # None
  /\ Cardinality(Transferring) < Threads
  /\ transfer' = [transfer EXCEPT ![held] = "running"]
  /\ held' = None
  /\ UNCHANGED <<up, late, disk, todo, copier, etlLogfiles, sortList, xmlLogfiles,
                 parked, load, events, bounds, history>>

\* The pool has been released.  transferETL does not look at the error.
RefuseTransfer ==
  /\ Halting
  /\ held # None
  /\ held' = None
  /\ UNCHANGED <<up, late, disk, todo, copier, etlLogfiles, transfer, sortList,
                 xmlLogfiles, parked, load, events, bounds, history>>

\* tracerpt writes the XML file as it goes, over the one there is.
WriteXml(f) ==
  /\ transfer[f] = "running"
  /\ f \notin torn
  /\ xmlDisk' = xmlDisk \cup {f}
  /\ torn' = torn \cup {f}
  /\ UNCHANGED <<up, late, etlDisk, todo, copier, stages, bounds, history>>

TransferDone(f) ==
  /\ transfer[f] = "running"
  /\ transfer' = [transfer EXCEPT ![f] = "pushing"]
  /\ xmlDisk' = xmlDisk \cup {f}
  /\ torn' = torn \ {f}
  /\ UNCHANGED <<up, late, etlDisk, todo, copier, etlLogfiles, held, sortList,
                 xmlLogfiles, parked, load, events, bounds, history>>

\* The .etl file could not be converted, and is deleted all the same: nothing
\* is left of the file, unless loadFiles found it as XML as well.
Unconverted(f) ==
  settled' = IF f \in xmlDisk \ torn THEN settled ELSE settled \cup {f}

\* Mutant: a failed transfer returns before the deferred function is set.
TransferFailsEarly(f) ==
  /\ transfer[f] = "running"
  /\ faults < MaxFaults
  /\ faults' = faults + 1
  /\ transfer' = [transfer EXCEPT ![f] = "no"]
  /\ sortList' = RemoveFirst(sortList, Fresh(f))
  /\ Unconverted(f)
  /\ UNCHANGED <<up, late, disk, todo, copier, etlLogfiles, held, xmlLogfiles, parked,
                 load, events, crashes, passed, census, copied, spoiled>>

\* Mutant: a failed transfer leaves its element in the list.
TransferFailsKept(f) ==
  /\ transfer[f] = "running"
  /\ faults < MaxFaults
  /\ faults' = faults + 1
  /\ transfer' = [transfer EXCEPT ![f] = "cleanup"]
  /\ Unconverted(f)
  /\ UNCHANGED <<up, late, disk, todo, copier, etlLogfiles, held, sortList,
                 xmlLogfiles, parked, load, events, crashes, passed, census, copied,
                 spoiled>>

TransferFails(f) ==
  /\ transfer[f] = "running"
  /\ faults < MaxFaults
  /\ faults' = faults + 1
  /\ transfer' = [transfer EXCEPT ![f] = "cleanup"]
  /\ sortList' = RemoveFirst(sortList, Fresh(f))
  /\ Unconverted(f)
  /\ UNCHANGED <<up, late, disk, todo, copier, etlLogfiles, held, xmlLogfiles, parked,
                 load, events, crashes, passed, census, copied, spoiled>>

PushXml(f) ==
  /\ Open
  /\ transfer[f] = "pushing"
  /\ Len(xmlLogfiles) < XmlCap
  /\ xmlLogfiles' = Append(xmlLogfiles, Fresh(f))
  /\ transfer' = [transfer EXCEPT ![f] = "cleanup"]
  /\ UNCHANGED <<up, late, disk, todo, copier, etlLogfiles, held, sortList, parked,
                 load, events, bounds, history>>

PushPanics(f) ==
  /\ up = "closed"
  /\ transfer[f] = "pushing"
  /\ transfer' = [transfer EXCEPT ![f] = "cleanup"]
  /\ UNCHANGED <<up, late, disk, todo, copier, etlLogfiles, held, sortList,
                 xmlLogfiles, parked, load, events, bounds, history>>

\* The deferred function of the worker.
Cleanup(f) ==
  /\ transfer[f] = "cleanup"
  /\ transfer' = [transfer EXCEPT ![f] = "no"]
  /\ etlDisk' = etlDisk \ {f}
  /\ count' = count - 1
  /\ UNCHANGED <<up, late, xmlDisk, torn, todo, looking, made, copying, etlLogfiles,
                 held, sortList, xmlLogfiles, parked, load, events, bounds, history>>

-----------------------------------------------------------------------------
(* unmarshalETL and the workers of loadPool *)

ReceiveXml ==
  /\ Looping("unmarshalETL")
  /\ parked = None
  /\ xmlLogfiles # <<>>
  /\ late' = late \ {"unmarshalETL"}
  /\ parked' = Head(xmlLogfiles)
  /\ xmlLogfiles' = Tail(xmlLogfiles)
  /\ UNCHANGED <<up, disk, todo, copier, etlLogfiles, held, transfer, sortList, load,
                 events, bounds, history>>

SubmitLoad ==
  /\ parked # None
  /\ Cardinality(Loading) < LoadThreads
  /\ load' = [load EXCEPT ![parked] = "reading"]
  /\ parked' = None
  /\ UNCHANGED <<up, late, disk, todo, copier, etlLogfiles, held, transfer, sortList,
                 xmlLogfiles, events, bounds, history>>

RefuseLoad ==
  /\ Halting
  /\ parked # None
  /\ parked' = None
  /\ UNCHANGED <<up, late, disk, todo, copier, etlLogfiles, held, transfer, sortList,
                 xmlLogfiles, load, events, bounds, history>>

ReadXml(e) ==
  /\ load[e] = "reading"
  /\ e.file \in xmlDisk \ torn
  /\ load' = [load EXCEPT ![e] = "waiting"]
  /\ UNCHANGED <<up, late, disk, todo, copier, etlLogfiles, held, transfer, sortList,
                 xmlLogfiles, parked, events, bounds, history>>

\* The file is missing, or torn, or complete and yet does not parse.
Unreadable(f) ==
  \/ f \notin xmlDisk /\ UNCHANGED <<faults, settled, spoiled>>
  \/ f \in torn /\ spoiled' = spoiled \cup {f} /\ UNCHANGED <<faults, settled>>
  \/ /\ f \in xmlDisk \ torn
     /\ faults < MaxFaults
     /\ faults' = faults + 1
     /\ settled' = settled \cup {f}
     /\ UNCHANGED spoiled

\* Mutant: a file that does not parse leaves its element in the list.
ReadFailsKept(e) ==
  /\ load[e] = "reading"
  /\ Unreadable(e.file)
  /\ load' = [load EXCEPT ![e] = "failed"]
  /\ UNCHANGED <<up, late, disk, todo, copier, etlLogfiles, held, transfer, sortList,
                 xmlLogfiles, parked, events, crashes, passed, census, copied>>

\* The element leaves the list at once and does not wait for its turn.
ReadFails(e) ==
  /\ load[e] = "reading"
  /\ Unreadable(e.file)
  /\ load' = [load EXCEPT ![e] = "failed"]
  /\ sortList' = RemoveFirst(sortList, e)
  /\ UNCHANGED <<up, late, disk, todo, copier, etlLogfiles, held, transfer,
                 xmlLogfiles, parked, events, crashes, passed, census, copied>>

\* Mutant: wait does not wait.
TurnAny(e) ==
  /\ load[e] = "waiting"
  /\ sortList' = RemoveFirst(sortList, e)
  /\ load' = [load EXCEPT ![e] = "sending"]
  /\ UNCHANGED <<up, late, disk, todo, copier, etlLogfiles, held, transfer,
                 xmlLogfiles, parked, events, bounds, history>>

\* wait: isFirstFile compares names.  Once stop is set nobody waits.
Turn(e) ==
  /\ load[e] = "waiting"
  /\ \/ Head(sortList).file = e.file /\ UNCHANGED hurried
     \/ Halting /\ Head(sortList).file # e.file /\ hurried' = hurried \cup {e}
  /\ sortList' = RemoveFirst(sortList, e)
  /\ load' = [load EXCEPT ![e] = "sending"]
  /\ UNCHANGED <<up, late, disk, todo, copier, etlLogfiles, held, transfer,
                 xmlLogfiles, parked, events, bounds, order, entered, census, fates>>

Enter(e) ==
  /\ Open
  /\ load[e] \in {"sending", "failed"}
  /\ Len(events) < EventsCap
  /\ events' = Append(events, e)
  /\ load' = [load EXCEPT ![e] = "no"]
  /\ entered' = IF load[e] = "sending" THEN Append(entered, e) ELSE entered
  /\ UNCHANGED <<up, late, disk, todo, copier, etlLogfiles, held, transfer, sortList,
                 xmlLogfiles, parked, bounds, order, hurried, census, fates>>

EnterPanics(e) ==
  /\ up = "closed"
  /\ load[e] \in {"sending", "failed"}
  /\ load' = [load EXCEPT ![e] = "no"]
  /\ UNCHANGED <<up, late, disk, todo, copier, etlLogfiles, held, transfer, sortList,
                 xmlLogfiles, parked, events, bounds, history>>

-----------------------------------------------------------------------------

\* scanXML takes the events of a file (of one that did not parse, those before the
\* error) and deletes the file, whatever it holds by now; not if tracerpt is
\* writing it again.
Scan ==
  /\ Looping("scanXML")
  /\ events # <<>>
  /\ late' = late \ {"scanXML"}
  /\ events' = Tail(events)
  /\ LET e == Head(events)
     IN /\ \/ xmlDisk' = xmlDisk \ {e.file} /\ torn' = torn \ {e.file}
           \/ transfer[e.file] = "running" /\ UNCHANGED <<xmlDisk, torn>>
        /\ settled' = IF e \in ToSet(entered) THEN settled \cup {e.file} ELSE settled
  /\ UNCHANGED <<up, etlDisk, todo, copier, etlLogfiles, held, transfer, sortList,
                 xmlLogfiles, parked, load, bounds, passed, census, copied, spoiled>>

TransferLoop  == ReceiveEtl \/ SubmitTransfer
UnmarshalLoop == ReceiveXml \/ SubmitLoad
CopyEnds(f) == CopyFails(f) \/ CopyDone(f)
TransferWorker(f) ==
  TransferDone(f) \/ TransferFails(f) \/ PushXml(f) \/ PushPanics(f) \/ Cleanup(f)
LoadWorker(e) == ReadXml(e) \/ ReadFails(e) \/ Turn(e) \/ Enter(e) \/ EnterPanics(e)

Next ==
  \/ Start \/ Ready \/ Shutdown \/ Close \/ Crash \/ Look \/ Run
  \/ TransferLoop \/ RefuseTransfer \/ UnmarshalLoop \/ RefuseLoad \/ Scan
  \/ \E f \in Files :
       LoadEtl(f) \/ LoadXml(f) \/ CopyEnds(f) \/ WriteXml(f) \/ TransferWorker(f)
  \/ \E e \in Elements : LoadWorker(e)

Spec == Init /\ [][Next]_vars

\* Goroutines run, copies and transfers end one way or the other, and the
\* consumer takes the records scanXML sends it; all that while the service is
\* up, for a loop may end at any time once stop is set.  Starts, crashes and the
\* cron job owe nothing.
Fairness ==
  /\ WF_vars(up = "up" /\ TransferLoop)
  /\ WF_vars(up = "up" /\ UnmarshalLoop)
  /\ WF_vars(up = "up" /\ Scan)
  /\ \A f \in Files : WF_vars(CopyEnds(f) \/ TransferWorker(f))
  /\ \A e \in Elements : WF_vars(LoadWorker(e))

FairSpec == Spec /\ Fairness

-----------------------------------------------------------------------------
(* Properties *)

\* count is the number of copies on their way to the end of their transfer,
\* plus one for every copy that failed in this process (Run returns without
\* taking its one back), less one for every .etl file loadFiles found that has
\* been transferred (it was not counted).
CountAccounts ==
  up = "up" =>
    count = Cardinality(InTransfer \ found) + leaked - Cardinality(found \ InTransfer)

\* Every element of sortList is still in the hands of a goroutine or a
\* channel, so none is left at the front to keep the others waiting for ever.
\* (Once Shutdown has released the pools, what they refuse stays in the list;
\* nobody waits any more.)
NoOrphan ==
  ~Halting =>
    ToSet(sortList) =
    {Fresh(f) : f \in ({held} \ {None}) \cup
                      {g \in Files : transfer[g] \in {"running", "pushing"}}}
      \cup ToSet(xmlLogfiles) \cup ({parked} \ {None})
      \cup {e \in Elements : load[e] \in {"reading", "waiting"}}

Index(e) == CHOOSE i \in DOMAIN order : order[i] = e

\* A file overtakes only those that have left sortList and are about to enter
\* the channel: no more than the load workers.  (isFirstFile compares names, so
\* a file loadFiles found in both forms need not wait when the other form is
\* first; and who was in wait when Shutdown set stop, or came to it after, goes
\* on without its turn, into the channel if that is not closed yet.)
OvertakesOnlySending ==
  \A e \in ToSet(entered), d \in ToSet(order) :
    Index(d) < Index(e) /\ d \in ToSet(sortList) => e.file \in both \/ e \in hurried

\* A complete copy stays on disk, in a form that can be read, until its events
\* have been taken or a complete form of it proved unreadable: neither Shutdown,
\* whose closed channels end the workers half-way, nor a crash loses one.  Only a
\* copy whose torn .xml was read, left by a crash beside its .etl, may be lost:
\* the scan of the element that did not parse deletes the .xml written since.
CopyKept ==
  \A f \in copied \ (settled \cup spoiled) : f \in etlDisk \cup (xmlDisk \ torn)

InList(f) == \E e \in ToSet(sortList) : e.file = f

\* wait keeps the order of the logs into the channel: the workers that wait for
\* their turn leave one to the file whose turn it is.  If the whole pool waits
\* for a file that is still in xmlLogfiles, nothing enters the channel again.
TurnComes ==
  Cardinality({e \in Elements : load[e] = "waiting"}) = LoadThreads =>
    \E e \in Elements : load[e] = "waiting" /\ Head(sortList).file = e.file

\* Whoever is in the list while the goroutines run leaves it for the channel
\* (or because it cannot be read), unless the process ends or all load workers
\* wait for a file none of them has.  wait relies on it.
LeavesList ==
  \A f \in Files :
    (up = "up" /\ InList(f)) ~> (~InList(f) \/ up # "up" \/ ~TurnComes)

\* The comment in wait says that the order of the logs stays unchanged into
\* the channel: files enter in the order of the list.
OrderKept ==
  \A i, j \in DOMAIN entered :
    i < j => Index(entered[i]) < Index(entered[j])
=============================================================================
