---------------------------- MODULE FileReceive ----------------------------
(***************************************************************************)
(* The receiving side of a tcp-v1 file transfer: the prepare, cancel and   *)
(* recovery handlers of index.ts, startFileReceive of file-transfer.ts,    *)
(* and the durable records and the no-clobber commit of                    *)
(* file-transfer-store.ts.  A crash of the gateway loses the memory        *)
(* (`run', `req', `activeBytes', `scan') and keeps the disk (`file',       *)
(* `parts', `rec').                                                        *)
(*                                                                         *)
(* All offers ask for the same file name, so candidate n is the name with  *)
(* suffix (n-1) and every receive competes for the same candidates.  Each  *)
(* await in the code is a boundary between steps.                          *)
(***************************************************************************)
EXTENDS Naturals, FiniteSets

CONSTANTS
    Asks,            \* the prepare calls: each one's offer (id, content, size)
    MaxNames,        \* candidate names tried by commitPartNoClobber (10_000)
    MaxConcurrent,   \* maxConcurrentReceives
    MaxBytes,        \* maxInFlightBytes
    Fs,              \* what the receive directory supports
    Faults,          \* I/O calls that may fail
    UserData,        \* contents the user may put under a candidate name
    MaxCrashes,      \* bound: crashes of the gateway
    MaxUser,         \* bound: file operations of the user
    User, None, Partial

Requests == DOMAIN Asks
Offers == {Asks[q] : q \in Requests}
Ids == {o.id : o \in Offers}
Data == {o.data : o \in Offers} \cup UserData
Names == 1..MaxNames

VARIABLES
    mode,         \* "down", "recovering", "serving", or "refusing" after a failed recovery
    file,         \* disk: what each candidate name holds
    parts,        \* disk: the .part files, one per attempt
    rec,          \* disk: the transfer record of each id
    tries,        \* history: attempts started for each id (part names are random)
    run,          \* memory: the startFileReceive of each id
    activeBytes,  \* memory: activeReceiveBytes
    req,          \* memory: the prepare calls
    scan,         \* memory: recoverInterrupted
    crashes, moves, touched  \* history: crashes, user operations, names the user cleared

disk == <<file, parts, rec, tries>>
env == <<crashes, moves, touched>>
vars == <<mode, file, parts, rec, tries, run, activeBytes, req, scan, crashes, moves, touched>>

RecordStates == {"PREPARING", "READY", "TRANSFERRING", "COMMITTING",
                 "DATA_COMMITTED", "COMPLETED", "FAILED_CONFIRMED", "CANCELED"}
Committed == {"DATA_COMMITTED", "COMPLETED"}
Failed == {"FAILED_CONFIRMED", "CANCELED"}

(* A receive is, in order: saving PREPARING, connecting and registering,     *)
(* waiting for the metadata, opening the part, reading the payload, saving   *)
(* COMMITTING with a candidate name, claiming it, syncing and dropping the   *)
(* part, saving DATA_COMMITTED, writing the ACK; or it is failing.           *)
Phases == {"idle", "begin", "connect", "ready", "open", "payload", "name", "link",
           "rename", "copy", "copying", "linked", "dropped", "ack", "fail", "clean"}

FileType == [by : Ids \cup {User}, att : Nat, linked : BOOLEAN, data : Data \cup {Partial}]
PartType == [id : Ids, att : Nat]
(* `path' is 0 while the record names none, `part' says that it has a        *)
(* partPath; `att' tells which attempt wrote the record.                     *)
RecordType == [offer : Offers, state : RecordStates, path : 0..MaxNames,
               att : Nat, part : BOOLEAN]
RunType == [pc : Phases, offer : Offers \cup {None}, att : Nat, cand : 0..MaxNames,
            committed : BOOLEAN, mayExist : BOOLEAN,   \* commitMayExist
            abort : BOOLEAN,                           \* controller.signal
            aborted : BOOLEAN]                         \* failure.name = "AbortError"
Idle == [pc |-> "idle", offer |-> None, att |-> 0, cand |-> 0, committed |-> FALSE,
         mayExist |-> FALSE, abort |-> FALSE, aborted |-> FALSE]
ReqType == [pc : {"new", "loaded", "answered"}, existing : RecordType \cup {None}]
Answered == [pc |-> "answered", existing |-> None]
ScanType == [todo : SUBSET Ids, cur : Ids \cup {None}, pc : {"verify", "drop", "save"}, ok : BOOLEAN]
NoScan == [todo |-> {}, cur |-> None, pc |-> "verify", ok |-> FALSE]

(* "link": hard links work; "rename": link(2) fails with EPERM; "copy":      *)
(* rename(2) fails as well.                                                  *)
ASSUME ReceiveConstants ==
    /\ \A o \in Offers : o.size \in Nat /\ DOMAIN o = {"id", "data", "size"}
    /\ MaxNames \in Nat \ {0} /\ MaxConcurrent \in Nat /\ MaxBytes \in Nat
    /\ Fs \in {"link", "rename", "copy"}
    /\ Faults \subseteq {"save", "link", "sync", "rm", "verify", "copy"}
    /\ User \notin Ids /\ None \notin Offers /\ Partial \notin Data
    /\ None \notin FileType /\ None \notin RecordType /\ None \notin Ids
    /\ MaxCrashes \in Nat /\ MaxUser \in Nat

TypeOK ==
    /\ mode \in {"down", "recovering", "serving", "refusing"}
    /\ file \in [Names -> FileType \cup {None}]
    /\ parts \subseteq PartType
    /\ rec \in [Ids -> RecordType \cup {None}]
    /\ tries \in [Ids -> Nat]
    /\ run \in [Ids -> RunType]
    /\ activeBytes \in Nat
    /\ req \in [Requests -> ReqType]
    /\ scan \in ScanType
    /\ crashes \in Nat /\ moves \in Nat /\ touched \subseteq Names

Init ==
    /\ mode = "down"
    /\ file = [n \in Names |-> None]
    /\ parts = {}
    /\ rec = [i \in Ids |-> None]
    /\ tries = [i \in Ids |-> 0]
    /\ run = [i \in Ids |-> Idle]
    /\ activeBytes = 0
    /\ req = [q \in Requests |-> [pc |-> "new", existing |-> None]]
    /\ scan = NoScan
    /\ crashes = 0 /\ moves = 0 /\ touched = {}

-----------------------------------------------------------------------------
(* Helpers                                                                  *)

Active == {i \in Ids : run[i].pc # "idle"}       \* activeFileReceives
PartOf(i) == [id |-> i, att |-> run[i].att]

(* The record object of the running receive, in state s.                     *)
Record(i, s) == [offer |-> run[i].offer, state |-> s, path |-> run[i].cand,
                 att |-> run[i].att, part |-> TRUE]
(* The record once partPath is undefined; a failed one has no path either.   *)
Final(i, s) == [Record(i, s) EXCEPT !.part = FALSE, !.path = IF s \in Failed THEN 0 ELSE @]

(* The receive continues at phase p, or throws.                              *)
Goto(i, p) == run' = [run EXCEPT ![i].pc = p]
Throw(i) == run' = [run EXCEPT ![i].pc = "fail"]

(* FileTransferStore.save replaces the record by a rename.  It may throw     *)
(* before the rename, or after it when the directory sync fails.             *)
Save(i, r) == rec' = [rec EXCEPT ![i] = r]
SaveThrows(i, r) == "save" \in Faults /\ (Save(i, r) \/ UNCHANGED rec)

(* await store.save(record) inside the try block: continue at p or throw.    *)
SaveThen(i, r, p) ==
    /\ \/ Save(i, r) /\ Goto(i, p)
       \/ SaveThrows(i, r) /\ Throw(i)
    /\ UNCHANGED <<mode, file, parts, tries, activeBytes, req, scan, env>>

-----------------------------------------------------------------------------
(* The prepare and cancel handlers                                          *)

(* prepare waits for the recovery; a failed recovery answers every call with *)
(* an error.                                                                 *)
PrepareRefused(q) ==
    /\ mode = "refusing"
    /\ req[q].pc = "new"
    /\ req' = [req EXCEPT ![q] = Answered]
    /\ UNCHANGED <<mode, disk, run, activeBytes, scan, env>>

(* `existing = await store.load(id)'.                                        *)
PrepareLoad(q) ==
    /\ mode = "serving"
    /\ req[q].pc = "new"
    /\ req' = [req EXCEPT ![q] = [pc |-> "loaded", existing |-> rec[Asks[q].id]]]
    /\ UNCHANGED <<mode, disk, run, activeBytes, scan, env>>

(* The record loaded earlier lets the call go on: none, or one of the same   *)
(* offer that is not committed.                                              *)
Retryable(q) ==
    req[q].existing # None => /\ req[q].existing.offer = Asks[q]
                              /\ req[q].existing.state \notin Committed

HasRoom(o) ==
    /\ Cardinality(Active) < MaxConcurrent
    /\ activeBytes + o.size <= MaxBytes

(* Answered from the record (409 or alreadyCommitted), 409 already active,   *)
(* or 429 busy.                                                              *)
PrepareAnswered(q) ==
    /\ req[q].pc = "loaded"
    /\ \/ ~Retryable(q)
       \/ Asks[q].id \in Active
       \/ ~HasRoom(Asks[q])
    /\ req' = [req EXCEPT ![q] = Answered]
    /\ UNCHANGED <<mode, disk, run, activeBytes, scan, env>>

(* startFileReceive, up to its first await: the checks and the two counters  *)
(* change in one turn of the event loop.                                     *)
PrepareAdmits(q) ==
    LET o == Asks[q]
    IN /\ req[q].pc = "loaded"
       /\ Retryable(q)
       /\ o.id \notin Active
       /\ HasRoom(o)
       /\ req' = [req EXCEPT ![q] = Answered]
       /\ tries' = [tries EXCEPT ![o.id] = @ + 1]
       /\ run' = [run EXCEPT ![o.id] =
                     [Idle EXCEPT !.pc = "begin", !.offer = o, !.att = tries[o.id] + 1]]
       /\ activeBytes' = activeBytes + o.size
       /\ UNCHANGED <<mode, file, parts, rec, scan, env>>

(* cancel on an active receive aborts its controller: the socket is          *)
(* destroyed at once, everything else notices later or not at all.           *)
Cancel(i) ==
    /\ i \in Active
    /\ ~run[i].abort
    /\ run' = [run EXCEPT ![i].abort = TRUE]
    /\ UNCHANGED <<mode, disk, activeBytes, req, scan, env>>

-----------------------------------------------------------------------------
(* startFileReceive                                                         *)

SavePreparing(i) == run[i].pc = "begin" /\ SaveThen(i, Record(i, "PREPARING"), "connect")

(* Connected and registered with the relay; connectTls checks the signal.    *)
SaveReady(i) ==
    /\ run[i].pc = "connect"
    /\ ~run[i].abort
    /\ SaveThen(i, Record(i, "READY"), "ready")

(* The metadata line; one that is already buffered is read after an abort.   *)
SaveTransferring(i) == run[i].pc = "ready" /\ SaveThen(i, Record(i, "TRANSFERRING"), "open")

OpenPart(i) ==
    /\ run[i].pc = "open"
    /\ parts' = parts \cup {PartOf(i)}
    /\ Goto(i, "payload")
    /\ UNCHANGED <<mode, file, rec, tries, activeBytes, req, scan, env>>

(* The whole payload is written, synced and has the offered digest.  Every   *)
(* chunk checks the signal, so the abort came later or not at all.           *)
PayloadVerified(i) ==
    /\ run[i].pc = "payload"
    /\ ~run[i].abort
    /\ run' = [run EXCEPT ![i].pc = "name", ![i].cand = 1]
    /\ UNCHANGED <<mode, disk, activeBytes, req, scan, env>>

(* Slip: an abort that nothing waiting for the payload notices.              *)
ReceiveThrowsNotPayload(i) ==
    /\ run[i].pc \in {"connect", "ready", "open"}
    /\ \E a \in {FALSE, run[i].abort} :
          run' = [run EXCEPT ![i].pc = "fail", ![i].aborted = a]
    /\ UNCHANGED <<mode, disk, activeBytes, req, scan, env>>

(* Connection lost, timeout, rejection, wrong metadata, wrong or incomplete  *)
(* payload, or the abort, which surfaces as an AbortError or as one of them. *)
ReceiveThrows(i) ==
    /\ run[i].pc \in {"connect", "ready", "open", "payload"}
    /\ \E a \in {FALSE, run[i].abort} :
          run' = [run EXCEPT ![i].pc = "fail", ![i].aborted = a]
    /\ UNCHANGED <<mode, disk, activeBytes, req, scan, env>>

(* beforeLink: the candidate is on disk before the name is claimed.          *)
SaveCommitting(i) == run[i].pc = "name" /\ SaveThen(i, Record(i, "COMMITTING"), "link")

Landed(i, linked) ==
    [by |-> i, att |-> run[i].att, linked |-> linked, data |-> run[i].offer.data]
Claim(i, linked) == file' = [file EXCEPT ![run[i].cand] = Landed(i, linked)]

(* afterLink: from here on a failure is ambiguous.                           *)
AfterLink(i) == run' = [run EXCEPT ![i].pc = "linked", ![i].mayExist = TRUE]

(* Slip: the retry loop that also takes an occupied name.                    *)
LinkOverwrites(i) ==
    /\ run[i].pc = "link"
    /\ Claim(i, TRUE) /\ AfterLink(i)
    /\ UNCHANGED <<mode, parts, rec, tries, activeBytes, req, scan, env>>

(* Slip: a retry loop that never gives up.                                   *)
LinkUnbounded(i) ==
    /\ run[i].pc = "link"
    /\ IF run[i].cand \in Names /\ file[run[i].cand] = None
       THEN Claim(i, TRUE) /\ AfterLink(i)
       ELSE run' = [run EXCEPT ![i].pc = "name", ![i].cand = @ + 1] /\ UNCHANGED file
    /\ UNCHANGED <<mode, parts, rec, tries, activeBytes, req, scan, env>>

(* link(2): an occupied name is EEXIST whether or not links are supported.   *)
Link(i) ==
    /\ run[i].pc = "link"
    /\ \/ /\ file[run[i].cand] # None
          /\ IF run[i].cand = MaxNames
             THEN Throw(i)
             ELSE run' = [run EXCEPT ![i].pc = "name", ![i].cand = @ + 1]
          /\ UNCHANGED file
       \/ /\ file[run[i].cand] = None
          /\ Fs = "link"
          /\ Claim(i, TRUE) /\ AfterLink(i)
       \/ /\ file[run[i].cand] = None
          /\ Fs # "link"
          /\ Goto(i, "rename") /\ UNCHANGED file
       \/ "link" \in Faults /\ Throw(i) /\ UNCHANGED file
    /\ UNCHANGED <<mode, parts, rec, tries, activeBytes, req, scan, env>>

(* rename(2) replaces whatever holds the name by now.                        *)
Rename(i) ==
    /\ run[i].pc = "rename"
    /\ IF Fs = "rename"
       THEN /\ Claim(i, TRUE) /\ AfterLink(i)
            /\ parts' = parts \ {PartOf(i)}
       ELSE Goto(i, "copy") /\ UNCHANGED <<file, parts>>
    /\ UNCHANGED <<mode, rec, tries, activeBytes, req, scan, env>>

(* copyFile truncates the destination and fills it; when it fails it removes *)
(* the destination.                                                          *)
CopyBegins(i) ==
    /\ run[i].pc = "copy"
    /\ file' = [file EXCEPT ![run[i].cand] = [Landed(i, FALSE) EXCEPT !.data = Partial]]
    /\ Goto(i, "copying")
    /\ UNCHANGED <<mode, parts, rec, tries, activeBytes, req, scan, env>>

CopyEnds(i) ==
    /\ run[i].pc = "copying"
    /\ \/ Claim(i, FALSE) /\ AfterLink(i)
       \/ /\ "copy" \in Faults
          /\ file' = [file EXCEPT ![run[i].cand] = None]
          /\ Throw(i)
    /\ UNCHANGED <<mode, parts, rec, tries, activeBytes, req, scan, env>>

(* Slip: an error after link(2) taken for an occupied name.                  *)
DropPartRetries(i) ==
    /\ run[i].pc = "linked"
    /\ \/ parts' = parts \ {PartOf(i)} /\ Goto(i, "dropped")
       \/ /\ "sync" \in Faults /\ run[i].cand < MaxNames
          /\ run' = [run EXCEPT ![i].pc = "name", ![i].cand = @ + 1]
          /\ UNCHANGED parts
    /\ UNCHANGED <<mode, file, rec, tries, activeBytes, req, scan, env>>

(* Sync the directory and remove the part; either may fail, but after a      *)
(* rename the removal's failure is ignored.                                  *)
DropPart(i) ==
    /\ run[i].pc = "linked"
    /\ \/ parts' = parts \ {PartOf(i)} /\ Goto(i, "dropped")
       \/ /\ "sync" \in Faults \/ ("rm" \in Faults /\ Fs # "rename")
          /\ Throw(i) /\ UNCHANGED parts
    /\ UNCHANGED <<mode, file, rec, tries, activeBytes, req, scan, env>>

(* Slip: DATA_COMMITTED saved before the name is claimed.                    *)
SaveCommittedEarly(i) ==
    /\ run[i].pc \in {"link", "dropped"}
    /\ Save(i, Final(i, "DATA_COMMITTED"))
    /\ run' = [run EXCEPT ![i].pc = IF @ = "link" THEN "link" ELSE "ack", ![i].committed = TRUE]
    /\ UNCHANGED <<mode, file, parts, tries, activeBytes, req, scan, env>>

(* The second sync, then `committed = true' and the save of DATA_COMMITTED.  *)
SaveCommitted(i) ==
    /\ run[i].pc = "dropped"
    /\ \/ /\ Save(i, Final(i, "DATA_COMMITTED"))
          /\ run' = [run EXCEPT ![i].pc = "ack", ![i].committed = TRUE]
       \/ /\ SaveThrows(i, Final(i, "DATA_COMMITTED"))
          /\ run' = [run EXCEPT ![i].pc = "fail", ![i].committed = TRUE]
       \/ "sync" \in Faults /\ Throw(i) /\ UNCHANGED rec
    /\ UNCHANGED <<mode, file, parts, tries, activeBytes, req, scan, env>>

(* Slip: the finally handler forgets the bytes.                              *)
SettleKeepsBytes(i) == run' = [run EXCEPT ![i] = Idle] /\ UNCHANGED activeBytes

(* The promise settles: the finally handler takes the receive off the books. *)
Settle(i) ==
    /\ run' = [run EXCEPT ![i] = Idle]
    /\ activeBytes' = IF activeBytes >= run[i].offer.size
                      THEN activeBytes - run[i].offer.size ELSE 0

(* The ACK line is written, or its failure is ignored.                       *)
WriteAck(i) ==
    /\ run[i].pc = "ack"
    /\ Settle(i)
    /\ UNCHANGED <<mode, disk, req, scan, env>>

(* Slip: every error before DATA_COMMITTED is a confirmed failure.           *)
FailureRecordConfirmed(i) ==
    Final(i, IF run[i].aborted THEN "CANCELED" ELSE "FAILED_CONFIRMED")

(* The record the catch block writes: after link(2) the outcome stays open.  *)
FailureRecord(i) ==
    IF run[i].mayExist THEN Record(i, "COMMITTING")
    ELSE Final(i, IF run[i].aborted THEN "CANCELED" ELSE "FAILED_CONFIRMED")

(* Slip: a catch block that does not look at `committed'.                    *)
SaveFailureAlways(i) ==
    /\ run[i].pc = "fail"
    /\ Save(i, FailureRecord(i))
    /\ Goto(i, "clean")
    /\ UNCHANGED <<mode, file, parts, tries, activeBytes, req, scan, env>>

(* The catch block, after `committed' only the socket is left to close.      *)
SaveFailure(i) ==
    /\ run[i].pc = "fail"
    /\ \/ run[i].committed /\ UNCHANGED rec
       \/ ~run[i].committed /\ Save(i, FailureRecord(i))
       \/ ~run[i].committed /\ SaveThrows(i, FailureRecord(i))
    /\ Goto(i, "clean")
    /\ UNCHANGED <<mode, file, parts, tries, activeBytes, req, scan, env>>

(* Slip: the part is left behind.                                            *)
CleanUpKeepsPart(i) ==
    /\ run[i].pc = "clean"
    /\ Settle(i)
    /\ UNCHANGED <<mode, file, parts, rec, tries, req, scan, env>>

(* The part goes unless the outcome is open; a failing removal is ignored.   *)
CleanUp(i) ==
    /\ run[i].pc = "clean"
    /\ \/ ~run[i].committed /\ ~run[i].mayExist /\ parts' = parts \ {PartOf(i)}
       \/ (run[i].committed \/ run[i].mayExist \/ "rm" \in Faults) /\ UNCHANGED parts
    /\ Settle(i)
    /\ UNCHANGED <<mode, file, rec, tries, req, scan, env>>

-----------------------------------------------------------------------------
(* Crash, restart and recoverInterrupted                                    *)

Crash ==
    /\ crashes < MaxCrashes
    /\ mode # "down"
    /\ mode' = "down"
    /\ run' = [i \in Ids |-> Idle]
    /\ activeBytes' = 0
    /\ req' = [q \in Requests |-> IF req[q].pc = "new" THEN req[q] ELSE Answered]
    /\ scan' = NoScan
    /\ crashes' = crashes + 1
    /\ UNCHANGED <<disk, moves, touched>>

(* Slip: a recovery that leaves COMMITTING records alone.                    *)
StartSkipsCommitting ==
    /\ mode = "down"
    /\ mode' = "recovering"
    /\ scan' = [NoScan EXCEPT !.todo = {i \in Ids : rec[i] # None /\ rec[i].state = "PREPARING"}]
    /\ UNCHANGED <<disk, run, activeBytes, req, env>>

(* The gateway starts; the scan skips every record in a final state.         *)
Start ==
    /\ mode = "down"
    /\ mode' = "recovering"
    /\ scan' = [NoScan EXCEPT !.todo =
                   {i \in Ids : rec[i] # None /\ rec[i].state \notin Committed \cup Failed}]
    /\ UNCHANGED <<disk, run, activeBytes, req, env>>

(* verifyOwnedCommittedFile: the candidate has the content and, while the    *)
(* part exists, is the same inode.                                           *)
Owns(i) ==
    LET f == file[rec[i].path]
    IN /\ rec[i].path # 0
       /\ f # None
       /\ [id |-> i, att |-> rec[i].att] \in parts => f.linked /\ f.by = i /\ f.att = rec[i].att
       /\ f.data = rec[i].offer.data

(* An error while verifying counts as not owned.                             *)
RecoverVerify(i) ==
    /\ mode = "recovering"
    /\ scan.cur = None /\ i \in scan.todo
    /\ \/ scan' = [scan EXCEPT !.cur = i, !.pc = "drop",
                               !.ok = rec[i].state = "COMMITTING" /\ Owns(i)]
       \/ /\ "verify" \in Faults /\ rec[i].state = "COMMITTING"
          /\ scan' = [scan EXCEPT !.cur = i, !.pc = "drop", !.ok = FALSE]
    /\ UNCHANGED <<mode, disk, run, activeBytes, req, env>>

(* removeOwnedPath(partPath), whose failure is ignored.                      *)
RecoverDropPart ==
    /\ mode = "recovering"
    /\ scan.cur # None /\ scan.pc = "drop"
    /\ \/ parts' = parts \ {[id |-> scan.cur, att |-> rec[scan.cur].att]}
       \/ "rm" \in Faults /\ UNCHANGED parts
    /\ scan' = [scan EXCEPT !.pc = "save"]
    /\ UNCHANGED <<mode, file, rec, tries, run, activeBytes, req, env>>

(* Slip: recovery that trusts every COMMITTING record.                       *)
RecoveredUnverified(i) ==
    [rec[i] EXCEPT !.part = FALSE, !.state = IF @ = "COMMITTING" THEN "DATA_COMMITTED"
                                                                 ELSE "FAILED_CONFIRMED"]

Recovered(i) ==
    IF scan.ok THEN [rec[i] EXCEPT !.state = "DATA_COMMITTED", !.part = FALSE]
    ELSE [rec[i] EXCEPT !.state = "FAILED_CONFIRMED", !.part = FALSE, !.path = 0]

(* A save that throws ends the recovery, and with it the file service.       *)
RecoverSave ==
    /\ mode = "recovering"
    /\ scan.cur # None /\ scan.pc = "save"
    /\ \/ /\ Save(scan.cur, Recovered(scan.cur))
          /\ scan' = [NoScan EXCEPT !.todo = scan.todo \ {scan.cur}]
          /\ UNCHANGED mode
       \/ /\ SaveThrows(scan.cur, Recovered(scan.cur))
          /\ scan' = NoScan
          /\ mode' = "refusing"
    /\ UNCHANGED <<file, parts, tries, run, activeBytes, req, env>>

RecoverDone ==
    /\ mode = "recovering"
    /\ scan.cur = None /\ scan.todo = {}
    /\ mode' = "serving"
    /\ UNCHANGED <<disk, run, activeBytes, req, scan, env>>

-----------------------------------------------------------------------------
(* The notification and the user                                            *)

(* resolveCommittedTransferUriSync: the agent is given a committed file.  It *)
(* compares the size only, so any complete file will do.                     *)
ResolveUri(i) ==
    /\ mode # "down"
    /\ rec[i] # None
    /\ rec[i].state = "DATA_COMMITTED"
    /\ file[rec[i].path] # None
    /\ file[rec[i].path].data # Partial
    /\ Save(i, [rec[i] EXCEPT !.state = "COMPLETED"])
    /\ UNCHANGED <<mode, file, parts, tries, run, activeBytes, req, scan, env>>

UserCreates(n, d) ==
    /\ moves < MaxUser
    /\ file[n] = None
    /\ file' = [file EXCEPT ![n] = [by |-> User, att |-> 0, linked |-> FALSE, data |-> d]]
    /\ moves' = moves + 1
    /\ UNCHANGED <<mode, parts, rec, tries, run, activeBytes, req, scan, crashes, touched>>

UserDeletes(n) ==
    /\ moves < MaxUser
    /\ file[n] # None
    /\ file' = [file EXCEPT ![n] = None]
    /\ moves' = moves + 1
    /\ touched' = touched \cup {n}
    /\ UNCHANGED <<mode, parts, rec, tries, run, activeBytes, req, scan, crashes>>

-----------------------------------------------------------------------------
Prepare(q) ==
    \/ PrepareRefused(q) \/ PrepareLoad(q) \/ PrepareAnswered(q) \/ PrepareAdmits(q)

Receive(i) ==
    \/ SavePreparing(i) \/ SaveReady(i) \/ SaveTransferring(i) \/ OpenPart(i)
    \/ PayloadVerified(i) \/ ReceiveThrows(i)
    \/ SaveCommitting(i) \/ Link(i) \/ Rename(i) \/ CopyBegins(i) \/ CopyEnds(i)
    \/ DropPart(i) \/ SaveCommitted(i) \/ WriteAck(i)
    \/ SaveFailure(i) \/ CleanUp(i)

Recover ==
    \/ Start \/ (\E i \in Ids : RecoverVerify(i))
    \/ RecoverDropPart \/ RecoverSave \/ RecoverDone

UserActs == \E n \in Names : UserDeletes(n) \/ \E d \in UserData : UserCreates(n, d)

Next ==
    \/ \E q \in Requests : Prepare(q)
    \/ \E i \in Ids : Receive(i) \/ Cancel(i) \/ ResolveUri(i)
    \/ Recover \/ Crash
    \/ UserActs

Spec == Init /\ [][Next]_vars

(* Every await of a receive and of the recovery settles: file operations     *)
(* return, and connecting, registering and the payload have timeouts.  A     *)
(* gateway that is down is started again.                                    *)
Fairness ==
    /\ \A i \in Ids : WF_vars(Receive(i))
    /\ WF_vars(Recover)
    /\ \A q \in Requests : WF_vars(PrepareAnswered(q) \/ PrepareAdmits(q))

FairSpec == Spec /\ Fairness

-----------------------------------------------------------------------------
(* Properties                                                               *)

(* No step of the gateway replaces, truncates or removes a file that holds a *)
(* final name, whoever put it there: commitPartNoClobber, the catch block    *)
(* and the recovery.                                                         *)
NoClobber ==
    [][UserActs \/ \A n \in Names : file[n] # None => file'[n] = file[n]]_vars

(* A record that says DATA_COMMITTED or COMPLETED names a file with exactly  *)
(* the offered content, through crashes, retries and recoveries; only the    *)
(* user can have taken it away.                                              *)
CommittedSound ==
    \A i \in Ids : rec[i] # None /\ rec[i].state \in Committed =>
        /\ rec[i].path # 0
        /\ \/ rec[i].path \in touched
           \/ file[rec[i].path] # None /\ file[rec[i].path].data = rec[i].offer.data

(* The file a committed record names was put there by that transfer: the     *)
(* recovery from a crash claims no file of the user or of another transfer.  *)
CommitOwned ==
    \A i \in Ids : rec[i] # None /\ rec[i].state \in Committed =>
        \/ crashes > 1
        \/ rec[i].path \in touched
        \/ file[rec[i].path] # None /\ file[rec[i].path].by = i

(* Where files are renamed or copied into place, a committed record of a     *)
(* transfer by itself names a complete file that is the transfer's own: not  *)
(* a partial copy and not a file of the user.                                *)
FallbackSound == CommittedSound /\ CommitOwned

(* A record that reports a failure is right: the attempt it stands for left  *)
(* no complete file under a final name, so a retry makes no duplicate.       *)
FailureConfirmed ==
    \A i \in Ids : rec[i] # None /\ rec[i].state \in Failed =>
        ~\E n \in Names : /\ file[n] # None /\ file[n].data # Partial
                          /\ file[n].by = i /\ file[n].att = rec[i].att

(* Only one prepare call carries the id, as the calls of this repository's   *)
(* sender do: it draws a new id for every attempt.                           *)
SingleAsk(i) == \A p, q \in Requests : Asks[p].id = i /\ Asks[q].id = i => p = q

(* A step that keeps the commit of transfer i: the record stays committed,   *)
(* under the same path, and changes to COMPLETED in no other way.            *)
CommitKept(i) ==
    rec[i] # None /\ rec[i].state \in Committed =>
        /\ rec'[i] # None
        /\ rec'[i].state \in Committed
        /\ rec[i].state = "COMPLETED" => rec'[i].state = "COMPLETED"
        /\ rec'[i].path = rec[i].path

(* A committed transfer that was asked for by one prepare call stays         *)
(* committed: no handler that comes late, no catch block after a save that   *)
(* threw but took effect and no recovery reopens it or calls it a failure.   *)
CommitIsFinal == [][\A i \in Ids : SingleAsk(i) => CommitKept(i)]_vars

(* prepare is idempotent, as the documents say: also when the same offer is  *)
(* sent again, a committed transfer stays committed.  The code does not do   *)
(* so: prepare trusts the record it loaded before an await.                  *)
IdempotentPrepare == [][\A i \in Ids : CommitKept(i)]_vars

(* At most one name holds a file of transfer i.                              *)
OneFile(i) == Cardinality({n \in Names : file[n] # None /\ file[n].by = i}) <= 1

(* A transfer that was asked for by one prepare call lands at most one file, *)
(* through failures after link(2), crashes and recoveries.                   *)
LandsOnce == \A i \in Ids : SingleAsk(i) => OneFile(i)

(* The same for an offer that is sent again.  The code does not do so: a     *)
(* repeated prepare of a transfer at COMMITTING whose file is in place       *)
(* replaces the record and lands the file again.                             *)
RepeatLandsOnce == \A i \in Ids : OneFile(i)

(* A part file on disk belongs to a receive that still runs or is named by   *)
(* the transfer's record, so that a recovery finds it.  A crash between the  *)
(* failure record and the removal of the part breaks this.                   *)
PartsOwned ==
    \A p \in parts :
        \/ run[p.id].pc # "idle" /\ run[p.id].att = p.att
        \/ rec[p.id] # None /\ rec[p.id].att = p.att /\ rec[p.id].part

(* Until the first crash no part is orphaned: every way out of               *)
(* startFileReceive removes its part or leaves it to the record.             *)
NoLostPart == crashes = 0 => PartsOwned

(* The admission counters: never more than maxConcurrentReceives receives,   *)
(* never more than maxInFlightBytes declared bytes.                          *)
AdmissionBounded == Cardinality(Active) <= MaxConcurrent /\ activeBytes <= MaxBytes

(* The bytes admitted for the receive of transfer i, if one is active.       *)
Reserved(i) == IF i \in Active THEN run[i].offer.size ELSE 0

(* The byte counter is the sum over the active receives, here the number of  *)
(* their bytes, so a slot and its bytes are given back exactly once on every *)
(* way out of startFileReceive; and the limits of the admission hold.        *)
AdmissionExact ==
    /\ activeBytes = Cardinality(UNION {{i} \X (1..Reserved(i)) : i \in Ids})
    /\ AdmissionBounded

(* A receive ends, by success, failure, cancellation or a crash, and gives   *)
(* its slot back.                                                            *)
ReceivesSettle == \A i \in Ids : run[i].pc # "idle" ~> run[i].pc = "idle"

(* Every record reaches a final state: a receive that was interrupted at any *)
(* step is decided by a later recovery.                                      *)
RecordsDecided ==
    \A i \in Ids :
        (rec[i] # None /\ rec[i].state \notin Committed \cup Failed)
            ~> (rec[i] # None /\ rec[i].state \in Committed \cup Failed)

(* What a status call learns of transfer i, and the transfers whose file is  *)
(* in place.                                                                 *)
OutcomeOf(i) ==
    IF rec[i] # None /\ rec[i].state \in Committed THEN "committed"
    ELSE IF rec[i] # None /\ rec[i].state \in Failed THEN "failed"
    ELSE "open"
InPlace == {i \in Ids : \E n \in Names : file[n] # None /\ file[n].data # Partial /\ file[n].by = i}

Promise == INSTANCE TransferOutcome
    WITH live <- Active, landed <- InPlace, outcome <- [i \in Ids |-> OutcomeOf(i)]

(* The receiver keeps the promise a sender relies on (TransferOutcome): with *)
(* an id of its own for every offer, a file lands once and only while its    *)
(* receive runs, and a decided outcome is right and final.                   *)
OutcomeImplemented == Promise!OutcomeSpec
=============================================================================
