----------------------- MODULE FileReceiveOnceProofs -----------------------
(***************************************************************************)
(* Proofs about the receiving side for transfers whose id is carried by    *)
(* one prepare call, as the sender draws a new id per attempt              *)
(* (newTransferId): the receive then has a single attempt, whose file,     *)
(* record and part are compared here, on every kind of file system and     *)
(* whatever other transfers retry.  The promise to the sender is kept with *)
(* hard links when all ids are of that kind; the last section is about a   *)
(* transfer by itself where links are refused.                             *)
(***************************************************************************)
EXTENDS FileReceiveProofs, FiniteSetTheorems

AskedOnce == \A p, q \in Requests : Asks[p].id = Asks[q].id => p = q

(* The transfers asked for once.                                             *)
Single == {i \in Ids : SingleAsk(i)}

Asked(i) == \E q \in Requests : Asks[q].id = i /\ req[q].pc # "answered"
FileOf(i, n) == n \in Names /\ file[n] # None /\ file[n].by = i
NoPart(i) == \A p \in parts : p.id # i

(* A running receive has only the file under its candidate, from the claim   *)
(* on: the copy while it is written, what was claimed after that.            *)
RunOnce(i) ==
    /\ run[i].pc # "idle" => mode = "serving" /\ run[i].att = tries[i]
    /\ run[i].pc \notin {"linked", "dropped", "ack", "fail", "clean"} =>
          ~run[i].mayExist /\ ~run[i].committed
    /\ run[i].pc \in {"linked", "dropped", "ack"} \/ run[i].committed => run[i].mayExist
    /\ run[i].pc # "idle" => \A n \in Names : FileOf(i, n) =>
          n = run[i].cand /\ (run[i].mayExist \/ run[i].pc = "copying")

(* Transfer i has at most one attempt, of which its record and its files     *)
(* are; it has one file at most; while its receive runs the record is        *)
(* committed only if the receive knows it; and the recovery, which works     *)
(* while no receive runs, works on an open record.                           *)
OnceOK(i) ==
    /\ RunOnce(i)
    /\ Asked(i) => tries[i] = 0
    /\ tries[i] = 0 => /\ rec[i] = None /\ run[i].pc = "idle"
                       /\ \A n \in Names : ~FileOf(i, n)
    /\ \A n \in Names : FileOf(i, n) => file[n].att = tries[i]
    /\ \A n, m \in Names : FileOf(i, n) /\ FileOf(i, m) => n = m
    /\ rec[i] # None /\ rec[i].state \in Committed => run[i].pc = "idle" \/ run[i].committed
    /\ run[i].committed => run[i].pc \in {"ack", "fail", "clean"}
    /\ i \in scan.todo \/ i = scan.cur =>
          mode = "recovering" /\ rec[i].state \notin Committed \cup Failed


(* The part of transfer i is the one of its attempt; while the outcome is    *)
(* open the record names it, before the commit it has been removed, and      *)
(* until a crash one that outlives the receive is named by the record, if    *)
(* removing a file does not fail.                                            *)
PartsOK(i) ==
    /\ \A p \in parts : p.id = i => p.att = tries[i]
    /\ rec[i] # None => rec[i].att = tries[i]
    /\ tries[i] = 0 => NoPart(i)
    /\ run[i].pc \in {"link", "rename", "copy", "copying"} \/ (run[i].mayExist /\ ~run[i].committed) =>
          rec[i] # None /\ rec[i].part
    /\ run[i].pc \in {"dropped", "ack"} \/ run[i].committed => NoPart(i)
    /\ crashes = 0 /\ mode # "serving" => rec[i] = None /\ NoPart(i)
    /\ crashes = 0 /\ "rm" \notin Faults /\ run[i].pc = "idle" /\ ~NoPart(i) =>
          rec[i] # None /\ rec[i].part

SingleInv == \A i \in Single : OnceOK(i) /\ PartsOK(i)

(* The same of all transfers, when each of them is asked for once.           *)
OnceInv == \A i \in Ids : OnceOK(i)
PartsInv == \A i \in Ids : PartsOK(i)

(* The prepare calls are constants.                                          *)
LEMMA SingleStays == Single' = Single
BY DEF Single, SingleAsk

(* A record is looked up by a gateway that serves.                           *)
LoadedServing == \A q \in Requests : req[q].pc = "loaded" => mode = "serving"

(* Only a crash ends the serving, and it forgets every call.                 *)
LEMMA LoadedStays ==
    ASSUME TypeOK, LoadedServing, [Next]_vars
    PROVE  LoadedServing'
<1>1. CASE Crash
  <2>1. \A q \in Requests : req'[q].pc # "loaded"
    BY <1>1 DEF Crash, Answered, TypeOK, ReqType
  <2> QED BY <2>1 DEF LoadedServing
<1>2. CASE \E q \in Requests : Prepare(q)
  <2>1. PICK q \in Requests : Prepare(q)
    BY <1>2
  <2>2. mode' = mode
    BY <2>1 DEF Prepare, PrepareRefused, PrepareLoad, PrepareAnswered, PrepareAdmits
  <2>3. \A p \in Requests : p # q => req'[p] = req[p]
    BY <2>1 DEF Prepare, PrepareRefused, PrepareLoad, PrepareAnswered, PrepareAdmits, TypeOK
  <2>4. mode = "serving" \/ req'[q].pc = "answered"
    BY <2>1
       DEF Prepare, PrepareRefused, PrepareLoad, PrepareAnswered, PrepareAdmits, TypeOK, Answered,
           LoadedServing
  <2> QED BY <2>2, <2>3, <2>4 DEF LoadedServing
<1>3. CASE Recover
  <2>1. req' = req /\ mode # "serving"
    BY <1>3 DEF Recover, Start, RecoverVerify, RecoverDropPart, RecoverSave, RecoverDone
  <2> QED BY <2>1 DEF LoadedServing
<1>4. CASE UNCHANGED <<mode, req>>
  BY <1>4 DEF LoadedServing
<1>5. ASSUME NEW j \in Ids, Receive(j) \/ Cancel(j) \/ ResolveUri(j) PROVE UNCHANGED <<mode, req>>
  BY <1>5
     DEF Receive, Cancel, ResolveUri, SavePreparing, SaveReady, SaveTransferring, OpenPart,
         PayloadVerified, ReceiveThrows, SaveCommitting, Link, Rename, CopyBegins, CopyEnds,
         DropPart, SaveCommitted, WriteAck, SaveFailure, CleanUp, SaveThen
<1>6. UserActs \/ UNCHANGED vars => UNCHANGED <<mode, req>>
  BY DEF UserActs, UserCreates, UserDeletes, vars
<1> QED BY <1>1, <1>2, <1>3, <1>4, <1>5, <1>6 DEF Next

-----------------------------------------------------------------------------
(* Steps of one transfer                                                    *)

(* A step of transfer i leaves the others alone: their memory, records and   *)
(* parts; it makes no file but its own, though a rename or a copy may take   *)
(* the place of another.                                                     *)
Within(i) ==
    /\ UNCHANGED <<mode, tries, req, scan, crashes, touched>>
    /\ \A j \in Ids \ {i} : run'[j] = run[j] /\ rec'[j] = rec[j]
    /\ \A n \in Names : file'[n] = file[n] \/ file'[n] = None \/ file'[n].by = i
    /\ \A p \in parts : p \in parts' \/ p.id = i
    /\ \A p \in parts' : p \in parts \/ p.id = i

(* What the step of i leaves alone stays right.                              *)
LEMMA WithinKeeps ==
    ASSUME NEW i \in Ids, Within(i), NEW j \in Ids, j # i
    PROVE  (OnceOK(j) => OnceOK(j)') /\ (PartsOK(j) => PartsOK(j)')
<1>1. run'[j] = run[j] /\ rec'[j] = rec[j] /\ UNCHANGED <<mode, tries, req, scan, crashes>>
  BY DEF Within
<1>2. \A n \in Names : FileOf(j, n)' => FileOf(j, n) /\ file'[n] = file[n]
  BY DEF Within, FileOf
<1>3. Asked(j)' <=> Asked(j)
  BY <1>1 DEF Asked
<1>4. (NoPart(j)' <=> NoPart(j)) /\ \A p \in parts' : p.id = j => p \in parts
  BY DEF Within, NoPart
<1>5. RunOnce(j) => RunOnce(j)'
  BY <1>1, <1>2 DEF RunOnce
<1>6. OnceOK(j) => OnceOK(j)'
  BY <1>1, <1>2, <1>3, <1>5 DEF OnceOK
<1>7. PartsOK(j) => PartsOK(j)'
  BY <1>1, <1>4 DEF PartsOK
<1> QED BY <1>6, <1>7

(* The steps of a receive stay within its transfer.                          *)
LEMMA ReceiveWithin ==
    ASSUME TypeOK, NEW i \in Ids, Receive(i)
    PROVE  Within(i) /\ run[i].pc # "idle"
<1>0. /\ run \in [Ids -> RunType] /\ rec \in [Ids -> RecordType \cup {None}]
      /\ file \in [Names -> FileType \cup {None}]
      /\ PartOf(i).id = i
  BY DEF TypeOK, PartOf
<1>1. CASE SavePreparing(i) \/ SaveReady(i) \/ SaveTransferring(i) \/ SaveCommitting(i)
  BY <1>0, <1>1 DEF SavePreparing, SaveReady, SaveTransferring, SaveCommitting, SaveThen, Save,
                    SaveThrows, Goto, Throw, Within, env
<1>2. CASE PayloadVerified(i) \/ ReceiveThrows(i)
  BY <1>0, <1>2 DEF PayloadVerified, ReceiveThrows, Within, env, disk
<1>3. CASE OpenPart(i) \/ DropPart(i)
  BY <1>0, <1>3 DEF OpenPart, DropPart, Goto, Throw, Within, env
<1>4. CASE Link(i) \/ Rename(i) \/ CopyBegins(i) \/ CopyEnds(i)
  <2> DEFINE c == run[i].cand
  <2>0. /\ Landed(i, TRUE).by = i /\ Landed(i, FALSE).by = i
        /\ [Landed(i, FALSE) EXCEPT !.data = Partial].by = i
    BY DEF Landed
  <2>1. \/ file' = file
        \/ file' = [file EXCEPT ![c] = Landed(i, TRUE)]
        \/ file' = [file EXCEPT ![c] = Landed(i, FALSE)]
        \/ file' = [file EXCEPT ![c] = [Landed(i, FALSE) EXCEPT !.data = Partial]]
        \/ file' = [file EXCEPT ![c] = None]
    BY <1>4 DEF Link, Rename, CopyBegins, CopyEnds, Claim
  <2>2. \A n \in Names : file'[n] = file[n] \/ file'[n] = None \/ file'[n].by = i
    BY <1>0, <2>0, <2>1
  <2>3. (\A j \in Ids \ {i} : run'[j] = run[j]) /\ rec' = rec
    BY <1>0, <1>4 DEF Link, Rename, CopyBegins, CopyEnds, Goto, Throw, AfterLink
  <2>4. run[i].pc # "idle" /\ UNCHANGED <<mode, tries, req, scan, crashes, touched>>
    BY <1>4 DEF Link, Rename, CopyBegins, CopyEnds, env
  <2>5. parts' = parts \/ parts' = parts \ {PartOf(i)}
    BY <1>4 DEF Link, Rename, CopyBegins, CopyEnds
  <2> QED BY <1>0, <2>2, <2>3, <2>4, <2>5 DEF Within
<1>5. CASE SaveCommitted(i) \/ SaveFailure(i)
  BY <1>0, <1>5 DEF SaveCommitted, SaveFailure, Save, SaveThrows, Throw, Goto, Within, env
<1>6. CASE WriteAck(i) \/ CleanUp(i)
  BY <1>0, <1>6 DEF WriteAck, CleanUp, Settle, Within, env, disk
<1> QED BY <1>1, <1>2, <1>3, <1>4, <1>5, <1>6 DEF Receive

(* The receive of i goes on at phase p and remembers what it knew.           *)
GoesOn(i, p) ==
    /\ p # "idle"
    /\ run'[i].pc = p /\ run'[i].mayExist = run[i].mayExist
    /\ run'[i].committed = run[i].committed

(* A step that changes only where the receive is.                            *)
LEMMA GoingOnKeeps ==
    ASSUME NEW i \in Ids, OnceOK(i), PartsOK(i), Within(i), run[i].pc # "idle", NEW p, GoesOn(i, p),
           UNCHANGED <<file, rec, parts>>, run'[i].att = run[i].att,
           run[i].mayExist \/ run[i].pc = "copying" => run'[i].cand = run[i].cand,
           run[i].pc = "copying" => p = "copying",
           p \in {"copying", "linked", "dropped", "ack"} => run[i].pc = p,
           p \in {"link", "rename", "copy"} => run[i].pc \in {"link", "rename", "copy"},
           p \in {"linked", "dropped", "ack", "fail", "clean"}
              \/ run[i].pc \notin {"linked", "dropped", "ack", "fail", "clean"}
    PROVE  OnceOK(i)' /\ PartsOK(i)'
<1>1. UNCHANGED <<mode, tries, req, scan, crashes>> /\ tries[i] # 0
  BY DEF Within, OnceOK
<1>2. /\ Asked(i)' <=> Asked(i)
      /\ NoPart(i)' <=> NoPart(i)
      /\ \A n \in Names : FileOf(i, n)' <=> FileOf(i, n)
  BY <1>1 DEF Asked, NoPart, FileOf
<1>3. /\ run'[i].pc = p /\ (run'[i].mayExist <=> run[i].mayExist)
      /\ (run'[i].committed <=> run[i].committed)
  BY DEF GoesOn
<1>4. RunOnce(i)'
  BY <1>1, <1>2, <1>3 DEF OnceOK, RunOnce
<1>5. run[i].committed => p \in {"ack", "fail", "clean"}
  BY DEF OnceOK
<1>6. OnceOK(i)'
  BY <1>1, <1>2, <1>3, <1>4, <1>5 DEF OnceOK, GoesOn
<1>7. PartsOK(i)'
  BY <1>1, <1>2, <1>3, <1>5 DEF PartsOK, GoesOn, OnceOK
<1> QED BY <1>6, <1>7

(* The receive throws, from where it has made no file or knows of it.        *)
LEMMA ThrowingKeeps ==
    ASSUME TypeOK, NEW i \in Ids, OnceOK(i), PartsOK(i), Within(i), run[i].pc # "idle",
           run[i].pc # "copying", UNCHANGED <<file, rec, parts>>, Throw(i)
    PROVE  OnceOK(i)' /\ PartsOK(i)'
<1>1. Goto(i, "fail") /\ "fail" \in Phases
  BY DEF Throw, Goto, Phases
<1>2. GoesOn(i, "fail") /\ run'[i].att = run[i].att /\ run'[i].cand = run[i].cand
  BY <1>1, RunFields DEF GoesOn
<1> QED BY <1>2, GoingOnKeeps

(* The record of a running receive, and its attempt.                         *)
LEMMA AttemptRecord ==
    ASSUME TypeOK, NEW i \in Ids, run[i].offer \in Offers, run[i].att = tries[i], NEW s \in RecordStates
    PROVE  /\ Record(i, s) # None /\ Final(i, s) # None
           /\ Record(i, s).att = tries[i] /\ Final(i, s).att = tries[i]
           /\ Record(i, s).state = s /\ Final(i, s).state = s
           /\ Record(i, s).part
<1>1. Record(i, s) \in RecordType /\ Final(i, s) \in RecordType
  BY RecordMade
<1>2. Record(i, s).part
  BY DEF Record
<1> QED BY <1>1, <1>2, RecordMade, ReceiveConstants

(* A save of the record of i that leaves its outcome open, or none.          *)
LEMMA SavingKeeps ==
    ASSUME TypeInv, NEW i \in Ids, OnceOK(i), PartsOK(i), Within(i),
           NEW s \in RecordStates \ Committed, NEW p \in Phases,
           <<run[i].pc, s, p>> \in {<<"begin", "PREPARING", "connect">>, <<"connect", "READY", "ready">>,
                                    <<"ready", "TRANSFERRING", "open">>, <<"name", "COMMITTING", "link">>},
           SaveThen(i, Record(i, s), p)
    PROVE  OnceOK(i)' /\ PartsOK(i)'
<1>0. /\ TypeOK /\ run[i].offer \in Offers /\ RunOnce(i)
      /\ run[i].pc # "idle" /\ run[i].pc \in {"begin", "connect", "ready", "name"}
      /\ UNCHANGED <<file, parts>>
  BY TypeInvType DEF OnceOK, SaveThen
<1>a. ~run[i].mayExist /\ ~run[i].committed /\ mode = "serving" /\ run[i].att = tries[i]
  BY <1>0 DEF RunOnce
<1> DEFINE r == Record(i, s)
<1>1. r # None /\ r.att = tries[i] /\ r.state = s /\ r.part
  BY <1>0, <1>a, AttemptRecord
<1> HIDE DEF r
<1>2. CASE Throw(i) /\ rec' = rec
  BY <1>0, <1>2, ThrowingKeeps
<1>3. ASSUME NEW q \in {p, "fail"}, Goto(i, q), rec' = [rec EXCEPT ![i] = r]
      PROVE  OnceOK(i)' /\ PartsOK(i)'
  <2>1. q \in Phases /\ q \in {"connect", "ready", "open", "link", "fail"}
    BY DEF Phases
  <2>2. /\ run'[i].pc = q /\ run'[i].att = tries[i]
        /\ run'[i].mayExist = run[i].mayExist /\ run'[i].committed = run[i].committed
    BY <1>0, <1>3, <1>a, <2>1, RunFields
  <2>3. ~run'[i].mayExist /\ ~run'[i].committed
    BY <1>a, <2>2, Zenon
  <2>4. rec'[i] = r
    BY <1>0, <1>3 DEF TypeOK
  <2>5. UNCHANGED <<mode, tries, req, scan, crashes>> /\ tries[i] # 0
    BY <1>0 DEF Within, OnceOK
  <2>6. /\ Asked(i)' <=> Asked(i)
        /\ NoPart(i)' <=> NoPart(i)
        /\ \A n \in Names : FileOf(i, n)' <=> FileOf(i, n)
    BY <1>0, <2>5 DEF Asked, NoPart, FileOf
  <2>7. \A n \in Names : ~FileOf(i, n)
    BY <1>0, <1>a DEF RunOnce
  <2>8. RunOnce(i)'
    BY <1>a, <2>1, <2>2, <2>3, <2>5, <2>6, <2>7 DEF RunOnce
  <2>9. OnceOK(i)'
    BY <1>1, <1>a, <2>1, <2>2, <2>3, <2>4, <2>5, <2>6, <2>7, <2>8 DEF OnceOK
  <2>10. PartsOK(i)'
    BY <1>0, <1>1, <1>a, <2>1, <2>2, <2>3, <2>4, <2>5, <2>6 DEF PartsOK
  <2> QED BY <2>9, <2>10
<1> QED BY <1>2, <1>3 DEF SaveThen, Save, SaveThrows, Throw, Goto, r

(* A claim gives the transfer its first and only file: one it had already    *)
(* would be of this attempt, and the receive would know of it.  A copy that  *)
(* fails takes its file away.                                                *)
LEMMA ClaimLandsOnce ==
    ASSUME NEW i \in Ids, OnceOK(i), PartsOK(i), Within(i), rec' = rec, parts' \subseteq parts,
           run[i].pc \in {"link", "rename", "copy", "copying"},
           run'[i].pc \in {"linked", "copying", "fail"}, run'[i].att = run[i].att,
           run'[i].pc = "linked" => run'[i].mayExist, run'[i].pc # "linked" => ~run'[i].mayExist,
           ~run'[i].committed,
           \A n \in Names : FileOf(i, n)' =>
               n = run'[i].cand /\ file'[n].att = run[i].att /\ run'[i].pc # "fail"
    PROVE  OnceOK(i)' /\ PartsOK(i)'
<1>1. UNCHANGED <<mode, tries, req, scan, crashes>> /\ tries[i] # 0
  BY DEF Within, OnceOK
<1>2. (Asked(i)' <=> Asked(i)) /\ (NoPart(i) => NoPart(i)')
  BY <1>1 DEF Asked, NoPart
<1>3. mode = "serving" /\ run[i].att = tries[i] /\ ~run[i].committed
  BY DEF OnceOK, RunOnce
<1>4. RunOnce(i)'
  BY <1>1, <1>3 DEF RunOnce
<1>5. OnceOK(i)'
  BY <1>1, <1>2, <1>3, <1>4 DEF OnceOK
<1>6. PartsOK(i)'
  BY <1>1, <1>2, <1>3 DEF PartsOK
<1> QED BY <1>5, <1>6

(* What the claiming receive knows, and where its files can be.              *)
LEMMA BeforeTheClaim ==
    ASSUME TypeInv, NEW i \in Ids, OnceOK(i), run[i].pc \in {"link", "rename", "copy", "copying"}
    PROVE  /\ TypeOK /\ run[i] \in RunType /\ run[i].pc # "idle"
           /\ ~run[i].mayExist /\ ~run[i].committed /\ run[i].att \in Nat
           /\ \A n \in Names : FileOf(i, n) => run[i].pc = "copying" /\ n = run[i].cand
<1>1. TypeOK
  BY TypeInvType
<1>2. ~run[i].mayExist /\ ~run[i].committed
  BY DEF OnceOK, RunOnce
<1>3. \A n \in Names : FileOf(i, n) => run[i].pc = "copying" /\ n = run[i].cand
  BY <1>2 DEF OnceOK, RunOnce
<1> QED BY <1>1, <1>2, <1>3 DEF TypeOK, RunType

(* The memory of a receive that has claimed its name, or goes on.            *)
LEMMA AfterTheClaim ==
    ASSUME TypeOK, NEW i \in Ids, AfterLink(i)
    PROVE  /\ run'[i].pc = "linked" /\ run'[i].mayExist
           /\ run'[i].att = run[i].att /\ run'[i].cand = run[i].cand
           /\ run'[i].committed = run[i].committed
BY DEF AfterLink, TypeOK, RunType

(* A name filled by the receive of i.                                        *)
LEMMA Filling ==
    ASSUME TypeOK, NEW i \in Ids, NEW f, f.att = run[i].att,
           file' = [file EXCEPT ![run[i].cand] = f],
           \A n \in Names : FileOf(i, n) => n = run[i].cand
    PROVE  \A n \in Names : FileOf(i, n)' => n = run[i].cand /\ file'[n].att = run[i].att
BY DEF FileOf, TypeOK

(* link(2), the rename or the copy.                                          *)
LEMMA ClaimsKeep ==
    ASSUME TypeInv, NEW i \in Ids, OnceOK(i), PartsOK(i), Within(i),
           Link(i) \/ Rename(i) \/ CopyBegins(i) \/ CopyEnds(i)
    PROVE  OnceOK(i)' /\ PartsOK(i)'
<1> DEFINE Kept == OnceOK(i)' /\ PartsOK(i)'
<1>0. /\ run[i].pc \in {"link", "rename", "copy", "copying"} /\ rec' = rec
      /\ run[i].pc = "copying" <=> CopyEnds(i)
  BY DEF Link, Rename, CopyBegins, CopyEnds
<1>1. /\ TypeOK /\ run[i] \in RunType /\ run[i].pc # "idle"
      /\ ~run[i].mayExist /\ ~run[i].committed /\ run[i].att \in Nat
      /\ \A n \in Names : FileOf(i, n) => run[i].pc = "copying" /\ n = run[i].cand
  BY <1>0, BeforeTheClaim
<1>2. /\ \A l \in BOOLEAN : Landed(i, l).att = run[i].att
      /\ [Landed(i, FALSE) EXCEPT !.data = Partial].att = run[i].att
  BY DEF Landed
<1>3. ASSUME NEW l \in BOOLEAN, Claim(i, l), AfterLink(i), parts' \subseteq parts PROVE Kept
  <2>1. /\ run'[i].pc = "linked" /\ run'[i].mayExist
        /\ run'[i].att = run[i].att /\ run'[i].cand = run[i].cand
        /\ run'[i].committed = run[i].committed
    BY <1>1, <1>3, AfterTheClaim
  <2>2. ~run'[i].committed
    BY <1>1, <2>1, Zenon
  <2>3. \A n \in Names : FileOf(i, n)' => n = run[i].cand /\ file'[n].att = run[i].att
    <3> DEFINE f == Landed(i, l)
    <3>1. f.att = run[i].att /\ file' = [file EXCEPT ![run[i].cand] = f]
      BY <1>2, <1>3 DEF Claim
    <3> HIDE DEF f
    <3> QED BY <1>1, <3>1, Filling
  <2> QED BY <1>0, <1>3, <2>1, <2>2, <2>3, ClaimLandsOnce
<1>4. ASSUME NEW p \in {"rename", "copy"}, run[i].pc # "copying", Goto(i, p),
             UNCHANGED <<file, parts>>
      PROVE  Kept
  <2>1. p \in Phases
    BY DEF Phases
  <2>2. GoesOn(i, p) /\ run'[i].att = run[i].att /\ run'[i].cand = run[i].cand
    BY <1>1, <1>4, <2>1, RunFields DEF GoesOn
  <2> QED BY <1>0, <1>1, <1>4, <2>2, GoingOnKeeps
<1>5. CASE Link(i)
  <2>1. parts' = parts /\ run[i].pc = "link"
    BY <1>5 DEF Link
  <2>2. CASE Throw(i) /\ file' = file
    BY <1>0, <1>1, <2>1, <2>2, ThrowingKeeps
  <2>3. CASE file' = file /\ run' = [run EXCEPT ![i].pc = "name", ![i].cand = @ + 1]
    <3>1. GoesOn(i, "name") /\ run'[i].att = run[i].att
      BY <1>1, <2>3 DEF GoesOn, RunType, TypeOK
    <3> QED BY <1>0, <1>1, <2>1, <2>3, <3>1, GoingOnKeeps
  <2> QED BY <1>3, <1>4, <1>5, <2>1, <2>2, <2>3 DEF Link
<1>6. CASE Rename(i)
  BY <1>3, <1>4, <1>6 DEF Rename
<1>7. CASE CopyBegins(i)
  <2>1. Goto(i, "copying") /\ "copying" \in Phases /\ parts' = parts
    BY <1>7 DEF CopyBegins, Phases
  <2>2. /\ run'[i].pc = "copying" /\ run'[i].att = run[i].att /\ run'[i].cand = run[i].cand
        /\ run'[i].mayExist = run[i].mayExist /\ run'[i].committed = run[i].committed
    BY <1>1, <2>1, RunFields
  <2>3. ~run'[i].mayExist /\ ~run'[i].committed
    BY <1>1, <2>2, Zenon
  <2>4. \A n \in Names : FileOf(i, n)' => n = run[i].cand /\ file'[n].att = run[i].att
    <3> DEFINE f == [Landed(i, FALSE) EXCEPT !.data = Partial]
    <3>1. f.att = run[i].att /\ file' = [file EXCEPT ![run[i].cand] = f]
      BY <1>2, <1>7 DEF CopyBegins
    <3> HIDE DEF f
    <3> QED BY <1>1, <3>1, Filling
  <2> QED BY <1>0, <2>1, <2>2, <2>3, <2>4, ClaimLandsOnce
<1>8. CASE CopyEnds(i) /\ file' = [file EXCEPT ![run[i].cand] = None] /\ Throw(i)
  <2>1. Goto(i, "fail") /\ "fail" \in Phases /\ parts' = parts
    BY <1>8 DEF CopyEnds, Throw, Goto, Phases
  <2>2. /\ run'[i].pc = "fail" /\ run'[i].att = run[i].att
        /\ run'[i].mayExist = run[i].mayExist /\ run'[i].committed = run[i].committed
    BY <1>1, <2>1, RunFields
  <2>3. ~run'[i].mayExist /\ ~run'[i].committed
    BY <1>1, <2>2, Zenon
  <2>4. \A n \in Names : ~FileOf(i, n)'
    BY <1>1, <1>8 DEF FileOf, TypeOK
  <2> QED BY <1>0, <2>1, <2>2, <2>3, <2>4, ClaimLandsOnce
<1> QED BY <1>3, <1>5, <1>6, <1>7, <1>8 DEF CopyEnds

(* The part is opened, by the attempt the record is of, and dropped.         *)
LEMMA PartMovesKeep ==
    ASSUME TypeOK, NEW i \in Ids, OnceOK(i), PartsOK(i), Within(i), OpenPart(i) \/ DropPart(i)
    PROVE  OnceOK(i)' /\ PartsOK(i)'
<1>0. /\ RunOnce(i) /\ run[i].pc \in {"open", "linked"} /\ run[i].pc # "idle"
      /\ run[i].att = tries[i] /\ mode = "serving" /\ ~run[i].committed /\ UNCHANGED <<file, rec>>
      /\ PartOf(i).id = i /\ PartOf(i).att = run[i].att
  BY DEF OnceOK, RunOnce, OpenPart, DropPart, PartOf
<1>1. UNCHANGED <<mode, tries, req, scan, crashes>> /\ tries[i] # 0
  BY <1>0 DEF Within, OnceOK
<1>2. /\ Asked(i)' <=> Asked(i)
      /\ \A n \in Names : FileOf(i, n)' <=> FileOf(i, n)
  BY <1>0, <1>1 DEF Asked, FileOf
<1>3. ASSUME NEW p \in {"payload", "dropped"}, Goto(i, p), p = "dropped" <=> run[i].pc = "linked",
             p = "payload" => ~run[i].mayExist
      PROVE  OnceOK(i)' /\ run'[i].pc = p /\ ~run'[i].committed /\ run'[i].mayExist = run[i].mayExist
  <2>1. p \in Phases
    BY DEF Phases
  <2>2. /\ run'[i].pc = p /\ run'[i].att = run[i].att /\ run'[i].cand = run[i].cand
        /\ run'[i].mayExist = run[i].mayExist /\ run'[i].committed = run[i].committed
    BY <1>3, <2>1, RunFields
  <2>3. ~run'[i].committed /\ (run'[i].mayExist <=> run[i].mayExist)
    BY <1>0, <2>2, Zenon
  <2>4. RunOnce(i)'
    BY <1>0, <1>1, <1>2, <1>3, <2>2, <2>3 DEF RunOnce
  <2>5. OnceOK(i)'
    BY <1>0, <1>1, <1>2, <2>2, <2>3, <2>4 DEF OnceOK
  <2> QED BY <2>2, <2>3, <2>5
<1>4. CASE OpenPart(i)
  <2>1. run[i].pc = "open" /\ Goto(i, "payload") /\ parts' = parts \cup {PartOf(i)}
    BY <1>4 DEF OpenPart
  <2>2. ~run[i].mayExist
    BY <1>0, <2>1 DEF RunOnce
  <2>3. /\ OnceOK(i)' /\ run'[i].pc = "payload" /\ ~run'[i].committed
        /\ run'[i].mayExist = run[i].mayExist
    BY <1>3, <2>1, <2>2
  <2>4. ~run'[i].mayExist
    BY <2>2, <2>3, Zenon
  <2>5. \A p \in parts' : p.id = i => p.att = tries[i]
    BY <1>0, <2>1 DEF PartsOK
  <2>6. PartsOK(i)'
    BY <1>0, <1>1, <2>3, <2>4, <2>5 DEF PartsOK
  <2> QED BY <2>3, <2>6
<1>5. CASE DropPart(i) /\ Throw(i) /\ parts' = parts
  BY <1>0, <1>5, ThrowingKeeps DEF DropPart
<1>6. CASE DropPart(i) /\ parts' = parts \ {PartOf(i)} /\ Goto(i, "dropped")
  <2>1. run[i].pc = "linked" /\ run[i].mayExist
    BY <1>0, <1>6 DEF DropPart, RunOnce
  <2>2. OnceOK(i)' /\ run'[i].pc = "dropped" /\ ~run'[i].committed
    BY <1>3, <1>6, <2>1
  <2>3. \A p \in parts : p.id = i => p = PartOf(i)
    BY <1>0 DEF PartsOK, PartOf, PartType, TypeOK
  <2>4. NoPart(i)' /\ \A p \in parts' : p.id # i
    BY <1>6, <2>3 DEF NoPart
  <2>5. rec[i] # None /\ rec[i].part
    BY <1>0, <2>1 DEF PartsOK
  <2>6. PartsOK(i)'
    BY <1>0, <1>1, <2>2, <2>4, <2>5 DEF PartsOK
  <2> QED BY <2>2, <2>6
<1> QED BY <1>4, <1>5, <1>6 DEF DropPart

(* The record of i is replaced, or is not, by one that counts as committed   *)
(* only when the receive knows it.                                           *)
LEMMA RewritingKeeps ==
    ASSUME NEW i \in Ids, OnceOK(i), PartsOK(i), Within(i),
           run[i].pc \in {"dropped", "fail"}, UNCHANGED <<file, parts>>,
           run'[i].pc \in {"ack", "fail", "clean"}, run'[i].mayExist = run[i].mayExist,
           run'[i].att = run[i].att, run'[i].cand = run[i].cand,
           run'[i].pc = "ack" \/ run'[i].committed => run[i].mayExist,
           rec'[i] # None => rec'[i].att = tries[i],
           rec'[i] # None /\ rec'[i].state \in Committed => run'[i].committed,
           run'[i].pc = "ack" \/ run'[i].committed => NoPart(i),
           run[i].mayExist /\ ~run'[i].committed => rec'[i] # None /\ rec'[i].part
    PROVE  OnceOK(i)' /\ PartsOK(i)'
<1>1. UNCHANGED <<mode, tries, req, scan, crashes>> /\ tries[i] # 0 /\ mode = "serving"
  BY DEF Within, OnceOK, RunOnce
<1>2. /\ Asked(i)' <=> Asked(i)
      /\ NoPart(i)' <=> NoPart(i)
      /\ \A n \in Names : FileOf(i, n)' <=> FileOf(i, n)
  BY <1>1 DEF Asked, NoPart, FileOf
<1>3. run'[i].mayExist <=> run[i].mayExist
  OBVIOUS
<1>4. RunOnce(i)'
  BY <1>1, <1>2, <1>3 DEF OnceOK, RunOnce
<1>5. OnceOK(i)'
  BY <1>1, <1>2, <1>4 DEF OnceOK
<1>6. PartsOK(i)'
  <2>1. run[i].mayExist /\ ~run'[i].committed => rec'[i] # None /\ rec'[i].part
    OBVIOUS
  <2>2. run'[i].mayExist /\ ~run'[i].committed => rec'[i] # None /\ rec'[i].part
    BY <2>1, Zenon
  <2> QED BY <1>1, <1>2, <2>2 DEF PartsOK
<1> QED BY <1>5, <1>6

(* The commit: the part is gone by then, whether or not the save throws.     *)
LEMMA CommittingKeeps ==
    ASSUME TypeInv, NEW i \in Ids, OnceOK(i), PartsOK(i), Within(i), SaveCommitted(i)
    PROVE  OnceOK(i)' /\ PartsOK(i)'
<1> DEFINE r == Final(i, "DATA_COMMITTED")
<1>0. /\ TypeOK /\ run[i].offer \in Offers /\ run[i] \in RunType /\ run[i].pc = "dropped"
      /\ UNCHANGED <<file, parts>>
  BY TypeInvType DEF TypeOK, SaveCommitted
<1>1. /\ ~run[i].committed /\ run[i].mayExist /\ NoPart(i) /\ tries[i] # 0
      /\ run[i].att = tries[i]
  BY <1>0 DEF OnceOK, RunOnce, PartsOK
<1>2. r.att = tries[i]
  BY <1>0, <1>1, AttemptRecord DEF RecordStates
<1>3. rec'[i] = rec[i] \/ rec'[i] = r
  BY <1>0 DEF SaveCommitted, Save, SaveThrows, r, TypeOK
<1>4. rec'[i] # None => rec'[i].att = tries[i]
  BY <1>2, <1>3 DEF PartsOK
<1>5. CASE Throw(i) /\ rec' = rec
  BY <1>0, <1>5, ThrowingKeeps
<1>6. ASSUME NEW p \in {"ack", "fail"}, run' = [run EXCEPT ![i].pc = p, ![i].committed = TRUE]
      PROVE  OnceOK(i)' /\ PartsOK(i)'
  <2>1. /\ run'[i].pc = p /\ run'[i].mayExist = run[i].mayExist /\ run'[i].committed
        /\ run'[i].att = run[i].att /\ run'[i].cand = run[i].cand
    BY <1>0, <1>6 DEF RunType, TypeOK
  <2> HIDE DEF r
  <2> QED BY <1>0, <1>1, <1>4, <2>1, RewritingKeeps
<1> QED BY <1>5, <1>6 DEF SaveCommitted, SaveThrows

(* The catch block: no record is reopened, and an open outcome keeps its     *)
(* part in the record.                                                       *)
LEMMA FailingKeeps ==
    ASSUME TypeInv, NEW i \in Ids, OnceOK(i), PartsOK(i), Within(i), SaveFailure(i)
    PROVE  OnceOK(i)' /\ PartsOK(i)'
<1> DEFINE r == FailureRecord(i)
<1>0. /\ TypeOK /\ run[i].pc = "fail" /\ Goto(i, "clean") /\ UNCHANGED <<file, parts>>
      /\ "clean" \in Phases
  BY TypeInvType DEF SaveFailure, Phases
<1>1. GoesOn(i, "clean") /\ run'[i].att = run[i].att /\ run'[i].cand = run[i].cand
  BY <1>0, RunFields DEF GoesOn
<1>2. CASE rec' = rec
  BY <1>0, <1>1, <1>2, GoingOnKeeps
<1>3. CASE ~run[i].committed /\ rec' = [rec EXCEPT ![i] = r]
  <2>0. run[i].offer \in Offers /\ run[i].att = tries[i]
    BY <1>0, TypeInvType DEF OnceOK, RunOnce
  <2>1. PICK s \in RecordStates \ Committed : r = Record(i, s) \/ (r = Final(i, s) /\ ~run[i].mayExist)
    BY DEF FailureRecord, RecordStates, Committed
  <2>2. r.att = tries[i] /\ r.state = s /\ r # None
    BY <1>0, <2>0, <2>1, AttemptRecord
  <2>3. run[i].mayExist => r.part
    BY <1>0, <2>0, <2>1, AttemptRecord
  <2> HIDE DEF r
  <2>4. rec'[i] = r
    BY <1>0, <1>3 DEF TypeOK
  <2>5. ~run'[i].committed
    BY <1>1, <1>3, Zenon DEF GoesOn
  <2> QED BY <1>0, <1>1, <2>2, <2>3, <2>4, <2>5, RewritingKeeps DEF GoesOn
<1> QED BY <1>2, <1>3 DEF SaveFailure, Save, SaveThrows

(* The end: the part has been dropped, is removed now, or stays with a       *)
(* record that names it.                                                     *)
LEMMA EndingKeeps ==
    ASSUME TypeOK, NEW i \in Ids, OnceOK(i), PartsOK(i), Within(i), WriteAck(i) \/ CleanUp(i)
    PROVE  OnceOK(i)' /\ PartsOK(i)'
<1>0. /\ run[i].pc \in {"ack", "clean"} /\ run[i].pc # "idle"
      /\ UNCHANGED <<file, rec>> /\ Settle(i)
  BY DEF WriteAck, CleanUp, disk
<1>1. /\ UNCHANGED <<mode, tries, req, scan, crashes>> /\ tries[i] # 0
      /\ mode = "serving" /\ run[i].att = tries[i]
  BY <1>0 DEF Within, OnceOK, RunOnce
<1>2. (Asked(i)' <=> Asked(i)) /\ \A n \in Names : FileOf(i, n)' <=> FileOf(i, n)
  BY <1>0, <1>1 DEF Asked, FileOf
<1>3. run'[i] = Idle
  BY <1>0 DEF Settle, TypeOK
<1>4. Idle.pc = "idle" /\ ~Idle.mayExist /\ ~Idle.committed
  BY IdleFields
<1>5. run'[i].pc = "idle" /\ ~run'[i].mayExist /\ ~run'[i].committed
  BY <1>3, <1>4, Zenon
<1>6. parts' \subseteq parts
  BY DEF WriteAck, CleanUp, disk
<1>7. NoPart(i) => NoPart(i)'
  BY <1>6 DEF NoPart
<1>8. "rm" \notin Faults /\ ~NoPart(i)' => rec[i] # None /\ rec[i].part
  <2>1. CASE WriteAck(i)
    BY <1>7, <2>1 DEF WriteAck, PartsOK
  <2>2. CASE CleanUp(i) /\ parts' = parts \ {PartOf(i)}
    <3>1. \A p \in parts : p.id = i => p = PartOf(i)
      BY <1>1 DEF PartsOK, PartOf, PartType, TypeOK
    <3> QED BY <2>2, <3>1 DEF NoPart
  <2>3. CASE CleanUp(i) /\ (run[i].committed \/ run[i].mayExist)
    BY <1>7, <2>3 DEF PartsOK
  <2>4. CASE CleanUp(i) /\ "rm" \in Faults
    BY <2>4
  <2> QED BY <2>1, <2>2, <2>3, <2>4 DEF CleanUp
<1>9. OnceOK(i)'
  BY <1>0, <1>1, <1>2, <1>5 DEF OnceOK, RunOnce
<1>10. PartsOK(i)'
  BY <1>0, <1>1, <1>5, <1>6, <1>7, <1>8 DEF PartsOK
<1> QED BY <1>9, <1>10

-----------------------------------------------------------------------------
(* The other steps                                                          *)

(* A step that leaves the memory and the record of i alone, makes it no file *)
(* and no part and asks for it no more.                                      *)
Aside(i) ==
    /\ tries'[i] = tries[i] /\ run'[i] = run[i] /\ rec'[i] = rec[i]
    /\ Asked(i)' => Asked(i)
    /\ \A n \in Names : FileOf(i, n)' => FileOf(i, n) /\ file'[n] = file[n]
    /\ parts' \subseteq parts
    /\ crashes' = 0 => crashes = 0
    /\ mode' # "serving" => mode # "serving"
    /\ i \in scan'.todo \/ i = scan'.cur =>
          mode' = "recovering" /\ rec[i].state \notin Committed \cup Failed

(* Nothing about i changes then.                                             *)
LEMMA AsideKeeps ==
    ASSUME NEW i \in Ids, OnceOK(i), PartsOK(i), Aside(i)
    PROVE  OnceOK(i)' /\ PartsOK(i)'
<1>1. NoPart(i) => NoPart(i)'
  BY DEF NoPart, Aside
<1>2. RunOnce(i)'
  BY DEF OnceOK, RunOnce, Aside
<1>3. OnceOK(i)'
  BY <1>2 DEF OnceOK, Aside
<1>4. PartsOK(i)'
  BY <1>1 DEF PartsOK, Aside
<1> QED BY <1>3, <1>4

(* Nothing about any transfer asked for once changes then.                   *)
LEMMA AsideAllKeeps ==
    ASSUME SingleInv, \A i \in Single : Aside(i)
    PROVE  SingleInv'
BY AsideKeeps, SingleStays DEF SingleInv, Single

(* The steps of the receives.                                                *)
LEMMA ReceiveKeepsOnce ==
    ASSUME TypeInv, SingleInv, NEW i \in Ids, Receive(i)
    PROVE  SingleInv'
<1>0. Within(i) /\ run[i].pc # "idle" /\ run[i] \in RunType /\ TypeOK
  BY TypeInvType, ReceiveWithin DEF TypeOK
<1>9. \A j \in Single : j # i => OnceOK(j)' /\ PartsOK(j)'
  BY <1>0, WithinKeeps DEF SingleInv, Single
<1> DEFINE Kept == OnceOK(i)' /\ PartsOK(i)'
<1> SUFFICES ASSUME i \in Single PROVE Kept
  BY <1>9, SingleStays DEF SingleInv
<1>1. /\ OnceOK(i) /\ PartsOK(i) /\ Within(i) /\ run[i].pc # "idle" /\ run[i] \in RunType /\ TypeOK
  BY <1>0 DEF SingleInv
<1>s. ASSUME NEW s \in {"PREPARING", "READY", "TRANSFERRING", "COMMITTING"}, NEW p,
             <<run[i].pc, s, p>> \in {<<"begin", "PREPARING", "connect">>, <<"connect", "READY", "ready">>,
                                      <<"ready", "TRANSFERRING", "open">>, <<"name", "COMMITTING", "link">>},
             SaveThen(i, Record(i, s), p)
      PROVE  Kept
  <2>1. s \in RecordStates \ Committed /\ p \in Phases
    BY <1>s DEF RecordStates, Committed, Phases
  <2> QED BY <1>1, <1>s, <2>1, SavingKeeps
<1>2. CASE SavePreparing(i) \/ SaveReady(i)
  BY <1>s, <1>2 DEF SavePreparing, SaveReady
<1>3. CASE SaveTransferring(i) \/ SaveCommitting(i)
  BY <1>s, <1>3 DEF SaveTransferring, SaveCommitting
<1>4. ASSUME NEW p \in {"name", "fail"}, GoesOn(i, p), run'[i].att = run[i].att,
             run[i].pc \in {"connect", "ready", "open", "payload"}, UNCHANGED <<file, rec, parts>>
      PROVE  Kept
  <2>1. ~run[i].mayExist
    BY <1>1, <1>4 DEF OnceOK, RunOnce
  <2> QED BY <1>1, <1>4, <2>1, GoingOnKeeps
<1>5. CASE PayloadVerified(i)
  <2>1. /\ GoesOn(i, "name") /\ run'[i].att = run[i].att /\ run[i].pc = "payload"
        /\ UNCHANGED <<file, rec, parts>>
    BY <1>1, <1>5 DEF PayloadVerified, GoesOn, RunType, TypeOK, disk
  <2> QED BY <1>4, <2>1
<1>6. CASE ReceiveThrows(i)
  <2>1. /\ GoesOn(i, "fail") /\ run'[i].att = run[i].att
        /\ run[i].pc \in {"connect", "ready", "open", "payload"} /\ UNCHANGED <<file, rec, parts>>
    BY <1>1, <1>6 DEF ReceiveThrows, GoesOn, RunType, TypeOK, disk
  <2> QED BY <1>4, <2>1
<1>7. CASE Link(i) \/ Rename(i) \/ CopyBegins(i) \/ CopyEnds(i)
  BY <1>1, <1>7, ClaimsKeep
<1>8. CASE OpenPart(i) \/ DropPart(i)
  BY <1>1, <1>8, PartMovesKeep
<1>10. CASE SaveCommitted(i) \/ SaveFailure(i)
  BY <1>1, <1>10, CommittingKeeps, FailingKeeps
<1>11. CASE WriteAck(i) \/ CleanUp(i)
  BY <1>1, <1>11, EndingKeeps
<1> QED BY <1>2, <1>3, <1>5, <1>6, <1>7, <1>8, <1>10, <1>11 DEF Receive

(* A cancellation only sets the signal; the notification completes a record. *)
LEMMA CancelKeepsOnce ==
    ASSUME TypeInv, SingleInv, NEW i \in Ids, Cancel(i) \/ ResolveUri(i)
    PROVE  SingleInv'
<1>0. TypeOK
  BY TypeInvType
<1>2. Within(i) /\ UNCHANGED <<file, parts>>
  BY <1>0 DEF Cancel, ResolveUri, Save, Within, env, disk, TypeOK
<1>9. \A j \in Single : j # i => OnceOK(j)' /\ PartsOK(j)'
  BY <1>2, WithinKeeps DEF SingleInv, Single
<1> SUFFICES ASSUME i \in Single PROVE OnceOK(i)' /\ PartsOK(i)'
  BY <1>9, SingleStays DEF SingleInv
<1>1. /\ OnceOK(i) /\ PartsOK(i) /\ run[i] \in RunType
      /\ rec[i] # None => rec[i] \in RecordType
  BY <1>0 DEF SingleInv, TypeOK
<1>3. CASE Cancel(i)
  <2>1. /\ run[i].pc # "idle" /\ GoesOn(i, run[i].pc) /\ rec' = rec
        /\ run'[i].att = run[i].att /\ run'[i].cand = run[i].cand
    BY <1>0, <1>1, <1>3 DEF Cancel, Active, GoesOn, RunType, TypeOK, disk
  <2> QED BY <1>1, <1>2, <2>1, GoingOnKeeps
<1>4. CASE ResolveUri(i)
  <2> DEFINE r == [rec[i] EXCEPT !.state = "COMPLETED"]
  <2>1. rec'[i] = r /\ rec[i] # None /\ rec[i].state \in Committed /\ run' = run
    BY <1>0, <1>1, <1>4 DEF ResolveUri, Save, TypeOK, Committed
  <2>2. r \in RecordType /\ r # None /\ r.part = rec[i].part /\ r.att = rec[i].att
    BY <1>1, <2>1, ReceiveConstants DEF RecordType, RecordStates
  <2> HIDE DEF r
  <2>3. UNCHANGED <<mode, tries, req, scan, crashes>> /\ tries[i] # 0
    BY <1>1, <1>2, <2>1 DEF Within, OnceOK
  <2>4. /\ Asked(i)' <=> Asked(i)
        /\ NoPart(i)' <=> NoPart(i)
        /\ \A n \in Names : FileOf(i, n)' <=> FileOf(i, n)
    BY <1>2, <2>3 DEF Asked, NoPart, FileOf
  <2>5. RunOnce(i)'
    BY <1>1, <2>1, <2>3, <2>4 DEF OnceOK, RunOnce
  <2>6. i \notin scan.todo /\ i # scan.cur
    BY <1>1, <2>1 DEF OnceOK
  <2>7. OnceOK(i)'
    BY <1>1, <1>2, <2>1, <2>3, <2>4, <2>5, <2>6 DEF OnceOK
  <2>8. rec'[i].part = rec[i].part /\ rec'[i] # None /\ rec'[i].att = rec[i].att
    BY <2>1, <2>2
  <2>9. PartsOK(i)'
    BY <1>1, <1>2, <2>1, <2>3, <2>4, <2>8 DEF PartsOK
  <2> QED BY <2>7, <2>9
<1> QED BY <1>3, <1>4

(* The single prepare call of an id admits its single attempt, and a call    *)
(* for another transfer changes nothing of it.                               *)
LEMMA PrepareKeepsOnce ==
    ASSUME TypeOK, LoadedServing, SingleInv, NEW q \in Requests, Prepare(q)
    PROVE  SingleInv'
<1>2. \A p \in Requests : p # q => req'[p] = req[p]
  BY DEF Prepare, PrepareRefused, PrepareLoad, PrepareAnswered, PrepareAdmits, TypeOK
<1>3. UNCHANGED <<mode, file, parts, rec, scan, crashes>> /\ req[q].pc # "answered"
  BY DEF Prepare, PrepareRefused, PrepareLoad, PrepareAnswered, PrepareAdmits, disk, env
<1>4. \A i \in Ids : Asked(i)' => Asked(i)
  BY <1>2, <1>3 DEF Asked
<1>c. \A i \in Single : i \in scan'.todo \/ i = scan'.cur =>
          mode' = "recovering" /\ rec[i].state \notin Committed \cup Failed
  BY <1>3 DEF SingleInv, OnceOK
<1>5. CASE ~PrepareAdmits(q)
  <2>1. UNCHANGED <<tries, run>>
    BY <1>5 DEF Prepare, PrepareRefused, PrepareLoad, PrepareAnswered, disk
  <2>2. \A i \in Single : Aside(i)
    BY <1>3, <1>4, <1>c, <2>1 DEF Aside, FileOf, Single
  <2> QED BY <2>2, AsideAllKeeps
<1>6. CASE PrepareAdmits(q)
  <2> DEFINE o == Asks[q]
             i == o.id
             r == [Idle EXCEPT !.pc = "begin", !.offer = o, !.att = tries[i] + 1]
  <2>1. /\ o \in Offers /\ i \in Ids /\ Asked(i) /\ mode = "serving"
    BY <1>3, <1>6 DEF Offers, Ids, Requests, Asked, PrepareAdmits, LoadedServing
  <2>2. /\ run' = [run EXCEPT ![i] = r] /\ tries' = [tries EXCEPT ![i] = @ + 1]
        /\ req' = [req EXCEPT ![q] = Answered]
    BY <1>6 DEF PrepareAdmits
  <2> HIDE DEF o
  <2>14. \A j \in Single : j # i => Aside(j)
    BY <1>3, <1>4, <1>c, <2>1, <2>2 DEF Aside, FileOf, TypeOK, Single
  <2>15. \A j \in Single : j # i => OnceOK(j)' /\ PartsOK(j)'
    BY <2>14, AsideKeeps DEF SingleInv, Single
  <2> SUFFICES ASSUME i \in Single PROVE OnceOK(i)' /\ PartsOK(i)'
    BY <2>15, SingleStays DEF SingleInv
  <2>3. /\ OnceOK(i) /\ PartsOK(i) /\ tries[i] = 0 /\ rec[i] = None /\ NoPart(i)
        /\ \A n \in Names : ~FileOf(i, n)
    BY <2>1 DEF SingleInv, OnceOK, PartsOK
  <2>4. tries'[i] = 1
    BY <2>1, <2>2, <2>3 DEF TypeOK
  <2>5. r.pc = "begin" /\ ~r.mayExist /\ ~r.committed /\ r.att = tries[i] + 1
    <3>1. tries[i] + 1 \in Nat
      BY <2>3
    <3> QED BY <2>1, <3>1, NewRunFields
  <2>6. run'[i] = r
    BY <2>1, <2>2 DEF TypeOK
  <2> HIDE DEF r
  <2>7. run'[i].pc = "begin" /\ ~run'[i].mayExist /\ ~run'[i].committed
    BY <2>5, <2>6, Zenon
  <2>8. run'[i].att = tries'[i]
    BY <2>3, <2>4, <2>5, <2>6
  <2>9. ~Asked(i)'
    <3>1. req'[q].pc = "answered"
      BY <2>2 DEF TypeOK, Answered
    <3> QED BY <3>1 DEF Single, SingleAsk, Asked, i, o
  <2>10. NoPart(i)' /\ \A n \in Names : ~FileOf(i, n)'
    BY <1>3, <2>3 DEF NoPart, FileOf
  <2>11. RunOnce(i)'
    BY <1>3, <2>1, <2>7, <2>8, <2>10 DEF RunOnce
  <2>12. OnceOK(i)'
    BY <1>3, <1>c, <2>1, <2>3, <2>4, <2>7, <2>9, <2>10, <2>11 DEF OnceOK
  <2>13. PartsOK(i)'
    BY <1>3, <2>1, <2>3, <2>4, <2>7, <2>10 DEF PartsOK, NoPart
  <2> QED BY <2>12, <2>13
<1> QED BY <1>5, <1>6

(* A crash forgets every receive; what was asked and unanswered is answered. *)
LEMMA CrashKeepsOnce ==
    ASSUME TypeOK, SingleInv, Crash
    PROVE  SingleInv'
<1>2. UNCHANGED <<file, parts, rec, tries>> /\ crashes' # 0 /\ scan' = NoScan
  BY DEF Crash, disk, TypeOK
<1> SUFFICES ASSUME NEW i \in Single PROVE OnceOK(i)' /\ PartsOK(i)'
  BY SingleStays DEF SingleInv
<1>3. OnceOK(i) /\ PartsOK(i) /\ i \in Ids
  BY DEF SingleInv, Single
<1>4. run'[i] = Idle
  BY <1>3 DEF Crash
<1>5. run'[i].pc = "idle" /\ ~run'[i].mayExist /\ ~run'[i].committed
  BY <1>4, IdleFields, Zenon
<1>6. Asked(i)' => Asked(i)
  BY DEF Crash, Asked, Answered
<1>7. (NoPart(i)' <=> NoPart(i)) /\ \A n \in Names : FileOf(i, n)' <=> FileOf(i, n)
  BY <1>2 DEF NoPart, FileOf
<1>8. i \notin scan'.todo /\ i # scan'.cur
  BY <1>2, <1>3, ReceiveConstants DEF NoScan
<1>9. OnceOK(i)'
  BY <1>2, <1>3, <1>5, <1>6, <1>7, <1>8 DEF OnceOK, RunOnce
<1>10. PartsOK(i)'
  BY <1>2, <1>3, <1>5, <1>7 DEF PartsOK
<1> QED BY <1>9, <1>10

(* The recovery finds something only after a crash, no receive runs, and it  *)
(* takes up open records only.                                               *)
LEMMA RecoverKeepsOnce ==
    ASSUME TypeInv, SingleInv, Recover
    PROVE  SingleInv'
<1>0. TypeOK
  BY TypeInvType
<1>1. UNCHANGED <<file, tries, run, req, crashes>> /\ mode # "serving"
  BY DEF Recover, Start, RecoverVerify, RecoverDropPart, RecoverSave, RecoverDone, disk, env
<1>2. parts' \subseteq parts
  BY DEF Recover, Start, RecoverVerify, RecoverDropPart, RecoverSave, RecoverDone, disk
<1>3. \A i \in Ids : Asked(i)' => Asked(i)
  BY <1>1 DEF Asked
<1>4. CASE ~RecoverSave
  <2>1. rec' = rec
    BY <1>4 DEF Recover, Start, RecoverVerify, RecoverDropPart, RecoverDone, disk
  <2>2. ASSUME NEW i \in Single, i \in scan'.todo \/ i = scan'.cur
        PROVE  mode' = "recovering" /\ rec[i].state \notin Committed \cup Failed
    <3>0. OnceOK(i) /\ i \in Ids /\ i # None
      BY ReceiveConstants DEF SingleInv, Single
    <3>1. CASE Start
      BY <2>2, <3>0, <3>1 DEF Start, NoScan
    <3>2. CASE RecoverDropPart \/ RecoverDone
      BY <1>0, <2>2, <3>0, <3>2 DEF RecoverDropPart, RecoverDone, OnceOK, TypeOK, ScanType
    <3>3. ASSUME NEW j \in Ids, RecoverVerify(j)
          PROVE  mode' = "recovering" /\ rec[i].state \notin Committed \cup Failed
      <4>1. mode' = mode /\ mode = "recovering" /\ j \in scan.todo
        BY <3>3 DEF RecoverVerify
      <4>2. i \in scan.todo \/ i = j
        BY <1>0, <2>2, <3>3 DEF RecoverVerify, TypeOK, ScanType
      <4> QED BY <3>0, <4>1, <4>2 DEF OnceOK
    <3> QED BY <1>4, <3>1, <3>2, <3>3 DEF Recover
  <2>3. \A i \in Single : Aside(i)
    BY <1>1, <1>2, <1>3, <2>1, <2>2 DEF Aside, FileOf, Single
  <2> QED BY <2>3, AsideAllKeeps
<1>5. CASE RecoverSave
  <2>1. PICK i \in Ids : i = scan.cur /\ rec[i] # None
    BY <1>0, <1>5 DEF RecoverSave, TypeInv, Scanned, TypeOK, ScanType
  <2> DEFINE r == Recovered(i)
  <2>3. rec' = rec \/ rec' = [rec EXCEPT ![i] = r]
    BY <1>5, <2>1 DEF RecoverSave, Save, SaveThrows
  <2> HIDE DEF r
  <2>5. \A j \in Ids : j \in scan'.todo \/ j = scan'.cur => j \in scan.todo \ {i} /\ mode' = mode
    BY <1>0, <1>5, <2>1, ReceiveConstants DEF RecoverSave, NoScan
  <2>6. \A j \in Single : j # i => Aside(j)
    <3>1. \A j \in Single : j # i => rec'[j] = rec[j]
      BY <1>0, <2>1, <2>3 DEF TypeOK, Single
    <3>2. \A j \in Single : j \in scan'.todo \/ j = scan'.cur =>
             mode' = "recovering" /\ rec[j].state \notin Committed \cup Failed
      BY <2>5 DEF SingleInv, OnceOK, Single
    <3> QED BY <1>1, <1>2, <1>3, <3>1, <3>2 DEF Aside, FileOf, Single
  <2>10. \A j \in Single : j # i => OnceOK(j)' /\ PartsOK(j)'
    BY <2>6, AsideKeeps DEF SingleInv, Single
  <2> SUFFICES ASSUME i \in Single PROVE OnceOK(i)' /\ PartsOK(i)'
    BY <2>10, SingleStays DEF SingleInv
  <2>2. /\ OnceOK(i) /\ PartsOK(i) /\ crashes # 0 /\ tries[i] # 0 /\ run[i].pc = "idle"
    BY <1>1, <2>1 DEF SingleInv, OnceOK, PartsOK, RunOnce
  <2>4. r.att = tries[i]
    BY <1>0, <2>1, <2>2 DEF r, Recovered, RecordType, TypeOK, PartsOK
  <2>7. i \notin scan'.todo /\ i # scan'.cur
    BY <2>1, <2>5
  <2>8. CASE rec' = rec
    <3>1. Aside(i)
      BY <1>1, <1>2, <1>3, <2>2, <2>7, <2>8 DEF Aside, FileOf
    <3> QED BY <2>2, <3>1, AsideKeeps
  <2>9. CASE rec'[i] = r
    <3>1. NoPart(i) => NoPart(i)'
      BY <1>2 DEF NoPart
    <3>2. ~run[i].mayExist /\ ~run[i].committed /\ run' = run
      BY <1>1, <2>2 DEF OnceOK, RunOnce
    <3>3. OnceOK(i)'
      BY <1>1, <1>3, <2>2, <2>7, <3>2 DEF OnceOK, RunOnce, FileOf
    <3>4. PartsOK(i)'
      BY <1>1, <1>2, <2>2, <2>4, <2>9, <3>1, <3>2 DEF PartsOK
    <3> QED BY <3>3, <3>4
  <2> QED BY <1>0, <2>1, <2>3, <2>8, <2>9 DEF TypeOK
<1> QED BY <1>4, <1>5

(* The user's files are the user's.                                          *)
LEMMA UserKeepsOnce ==
    ASSUME TypeOK, SingleInv, UserActs
    PROVE  SingleInv'
<1>1. UNCHANGED <<mode, parts, rec, tries, run, req, scan, crashes>>
  BY DEF UserActs, UserCreates, UserDeletes
<1>2. \A n \in Names : file'[n] = file[n] \/ file'[n] = None \/ file'[n].by = User
  BY DEF UserActs, UserCreates, UserDeletes, TypeOK
<1>3. \A i \in Single : i \in scan.todo \/ i = scan.cur =>
          mode = "recovering" /\ rec[i].state \notin Committed \cup Failed
  BY DEF SingleInv, OnceOK
<1>4. \A i \in Single : Aside(i)
  BY <1>1, <1>2, <1>3, ReceiveConstants DEF Aside, FileOf, Asked, Single
<1> QED BY <1>4, AsideAllKeeps

(* Every step preserves what holds of a single attempt.                      *)
LEMMA OnceStep ==
    ASSUME TypeInv, LoadedServing, SingleInv, [Next]_vars
    PROVE  SingleInv'
<1>0. TypeOK
  BY TypeInvType
<1>1. CASE UNCHANGED vars
  <2>1. \A i \in Single : i \in scan.todo \/ i = scan.cur =>
            mode = "recovering" /\ rec[i].state \notin Committed \cup Failed
    BY DEF SingleInv, OnceOK
  <2>2. \A i \in Single : Aside(i)
    BY <1>1, <2>1 DEF vars, Aside, Asked, FileOf
  <2> QED BY <2>2, AsideAllKeeps
<1> QED BY <1>0, <1>1, PrepareKeepsOnce, ReceiveKeepsOnce, CancelKeepsOnce, RecoverKeepsOnce,
           CrashKeepsOnce, UserKeepsOnce DEF Next

(* Nothing was asked for yet.                                                *)
LEMMA OnceInit == ASSUME Init PROVE SingleInv
<1>1. Idle.pc = "idle" /\ ~Idle.mayExist /\ ~Idle.committed
  BY IdleFields
<1> SUFFICES ASSUME NEW i \in Ids PROVE OnceOK(i) /\ PartsOK(i)
  BY DEF SingleInv, Single
<1>2. /\ run[i] = Idle /\ tries[i] = 0 /\ rec[i] = None /\ parts = {}
      /\ scan.todo = {} /\ scan.cur = None
  BY DEF Init, NoScan
<1>3. run[i].pc = "idle" /\ ~run[i].mayExist /\ ~run[i].committed
  BY <1>1, <1>2, Zenon
<1>4. \A n \in Names : ~FileOf(i, n)
  BY DEF Init, FileOf
<1>5. RunOnce(i)
  BY <1>3 DEF RunOnce
<1> QED BY <1>2, <1>3, <1>4, <1>5, ReceiveConstants DEF OnceOK, PartsOK, NoPart

(* The single attempt of a transfer, and its part, record and file.          *)
LEMMA SingleInvariant == Spec => [](TypeInv /\ SingleInv)
<1> DEFINE Once == TypeInv /\ LoadedServing /\ SingleInv
<1>1. Init => Once
  BY TypeInit, OnceInit DEF Init, LoadedServing
<1>2. Once /\ [Next]_vars => Once'
  BY TypeStep, TypeInvType, LoadedStays, OnceStep
<1> QED BY <1>1, <1>2, PTL DEF Spec

(* When every id is asked for once this is so of all transfers.              *)
LEMMA AllSingle ==
    ASSUME AskedOnce
    PROVE  (SingleInv <=> OnceInv /\ PartsInv) /\ (SingleInv' <=> OnceInv' /\ PartsInv')
<1>1. Single = Ids
  BY AskedOnce DEF AskedOnce, Single, SingleAsk
<1> QED BY <1>1, SingleStays DEF SingleInv, OnceInv, PartsInv

LEMMA OnceInvariant ==
    ASSUME AskedOnce
    PROVE  Spec => [](TypeInv /\ OnceInv /\ PartsInv)
BY AllSingle, SingleInvariant, PTL

(* A transfer asked for once lands one file at most, through every fault,    *)
(* crash and recovery and whatever other transfers retry:                    *)
(* commitPartNoClobber claims a second candidate only after it was refused   *)
(* the first, and its fallback fills the candidate link(2) found free.       *)
THEOREM ReceiveLandsOnce == Spec => []LandsOnce
<1>1. SingleInv => LandsOnce
  <2> SUFFICES ASSUME SingleInv, NEW i \in Ids, SingleAsk(i)
               PROVE  Cardinality({n \in Names : file[n] # None /\ file[n].by = i}) <= 1
    BY DEF LandsOnce, OneFile
  <2> DEFINE S == {n \in Names : file[n] # None /\ file[n].by = i}
  <2>1. \A n, m \in S : n = m
    BY DEF SingleInv, Single, OnceOK, FileOf
  <2>2. CASE S = {}
    BY <2>2, FS_EmptySet
  <2>3. ASSUME NEW n \in S PROVE Cardinality(S) <= 1
    <3>1. S = {n} /\ Cardinality({n}) = 1
      BY <2>1, FS_Singleton
    <3> HIDE DEF S
    <3> QED BY <3>1
  <2> QED BY <2>1, <2>2, <2>3
<1> QED BY <1>1, SingleInvariant, PTL

(* Until a crash no part is left on disk that no receive and no record knows *)
(* of, as long as files can be removed: the recovery finds what is left.     *)
THEOREM ReceiveLosesNoPart ==
    ASSUME AskedOnce, "rm" \notin Faults
    PROVE  Spec => []NoLostPart
<1>1. TypeInv /\ OnceInv /\ PartsInv => NoLostPart
  <2> SUFFICES ASSUME TypeInv, OnceInv, PartsInv, crashes = 0, NEW p \in parts
               PROVE  \/ run[p.id].pc # "idle" /\ run[p.id].att = p.att
                      \/ rec[p.id] # None /\ rec[p.id].att = p.att /\ rec[p.id].part
    BY DEF NoLostPart, PartsOwned
  <2>1. p.id \in Ids /\ OnceOK(p.id) /\ PartsOK(p.id) /\ ~NoPart(p.id)
    BY TypeInvType DEF TypeOK, PartType, OnceInv, PartsInv, NoPart
  <2> QED BY <2>1 DEF OnceOK, RunOnce, PartsOK
<1> QED BY <1>1, OnceInvariant, PTL

(* The record of a transfer asked for once that says DATA_COMMITTED or       *)
(* COMPLETED is never taken back, also not by the catch block, which tests   *)
(* `committed', or by the recovery.                                          *)
THEOREM ReceiveCommitIsFinal == Spec => CommitIsFinal
<1> DEFINE Keep == \A i \in Ids : SingleAsk(i) => CommitKept(i)
<1>1. TypeInv /\ SingleInv /\ [Next]_vars => [Keep]_vars
  <2> SUFFICES ASSUME TypeInv, SingleInv, Next PROVE Keep
    OBVIOUS
  <2>0. TypeOK
    BY TypeInvType
  <2>1. ASSUME rec' = rec PROVE Keep
    BY <2>1 DEF CommitKept
  <2>2. ASSUME NEW i \in Ids, SingleAsk(i) => rec[i] = None \/ rec[i].state \notin Committed,
               \A j \in Ids : j # i => rec'[j] = rec[j]
        PROVE  Keep
    BY <2>2 DEF CommitKept
  <2>3. ASSUME NEW i \in Ids, Receive(i) PROVE Keep
    <3>1. /\ run[i].pc # "idle" /\ Within(i)
          /\ SingleAsk(i) => OnceOK(i)
      BY <2>0, <2>3, ReceiveWithin DEF SingleInv, Single
    <3>2. CASE SingleAsk(i) /\ run[i].committed
      <4>1. rec' = rec
        BY <2>3, <3>1, <3>2 DEF OnceOK, Receive, SavePreparing, SaveReady, SaveTransferring, OpenPart,
           PayloadVerified, ReceiveThrows, SaveCommitting, Link, Rename, CopyBegins, CopyEnds,
           DropPart, SaveCommitted, WriteAck, SaveFailure, CleanUp, disk
      <4> QED BY <2>1, <4>1
    <3>3. CASE ~SingleAsk(i) \/ ~run[i].committed
      <4>1. \A j \in Ids : j # i => rec'[j] = rec[j]
        BY <3>1 DEF Within
      <4> QED BY <2>2, <3>1, <3>3, <4>1 DEF OnceOK
    <3> QED BY <3>2, <3>3
  <2>4. ASSUME NEW i \in Ids, ResolveUri(i) PROVE Keep
    <3>1. rec[i] \in RecordType /\ rec' = [rec EXCEPT ![i] = [rec[i] EXCEPT !.state = "COMPLETED"]]
      BY <2>0, <2>4 DEF ResolveUri, Save, TypeOK
    <3> DEFINE r == [rec[i] EXCEPT !.state = "COMPLETED"]
    <3>2. r \in RecordType /\ r.state = "COMPLETED" /\ r.path = rec[i].path
      BY <3>1 DEF RecordType, RecordStates
    <3> HIDE DEF r
    <3> QED BY <2>0, <3>1, <3>2, ReceiveConstants DEF r, TypeOK, Committed, CommitKept
  <2>5. CASE Recover
    <3>1. CASE RecoverSave
      <4>1. PICK i \in Ids : i = scan.cur /\ (rec' = rec \/ rec' = [rec EXCEPT ![i] = Recovered(i)])
        BY <2>0, <3>1 DEF RecoverSave, Save, SaveThrows, TypeOK, ScanType
      <4> QED BY <2>0, <2>2, <4>1 DEF TypeOK, SingleInv, Single, OnceOK
    <3> QED BY <2>1, <2>5, <3>1 DEF Recover, Start, RecoverVerify, RecoverDropPart, RecoverDone, disk
  <2>6. ASSUME NEW q \in Requests, Prepare(q) PROVE Keep
    BY <2>1, <2>6 DEF Prepare, PrepareRefused, PrepareLoad, PrepareAnswered, PrepareAdmits, disk
  <2>7. ASSUME NEW i \in Ids, Cancel(i) PROVE Keep
    BY <2>1, <2>7 DEF Cancel, disk
  <2>8. CASE Crash \/ UserActs
    BY <2>1, <2>8 DEF Crash, UserActs, UserCreates, UserDeletes, disk
  <2> QED BY <2>3, <2>4, <2>5, <2>6, <2>7, <2>8 DEF Next
<1> QED BY <1>1, SingleInvariant, PTL DEF Spec, CommitIsFinal

-----------------------------------------------------------------------------
(* The promise                                                              *)

(* A recovery tells the file of one transfer from that of another: by its    *)
(* content, or because no second crash or failed save has lost the part that *)
(* shares the inode.                                                         *)
Distinct == \A o, p \in Offers : o.data = p.data => o.id = p.id
OneCrash == MaxCrashes <= 1 /\ "save" \notin Faults

(* With hard links a receive fills free names only.                         *)
Frame(i) ==
    /\ UNCHANGED <<mode, tries, req, scan, crashes, touched>>
    /\ \A j \in Ids \ {i} : run'[j] = run[j] /\ rec'[j] = rec[j]
    /\ \A n \in Names : file'[n] = file[n] \/ (file[n] = None /\ file'[n].by = i)
    /\ \A p \in parts : p \in parts' \/ p.id = i
    /\ \A p \in parts' : p \in parts \/ p.id = i

LEMMA ReceiveFrame ==
    ASSUME IndInv, NEW i \in Ids, Receive(i)
    PROVE  Frame(i) /\ run[i].pc # "idle"
<1>1. TypeOK /\ run[i].pc \notin {"rename", "copy", "copying"}
  BY DEF IndInv, RunOK
<1>2. Within(i) /\ run[i].pc # "idle"
  BY <1>1, ReceiveWithin
<1>3. file' = file \/ file[run[i].cand] = None
  BY <1>1 DEF Receive, SavePreparing, SaveReady, SaveTransferring, OpenPart, PayloadVerified,
     ReceiveThrows, SaveCommitting, SaveThen, Link, Rename, CopyBegins, CopyEnds, DropPart,
     SaveCommitted, WriteAck, SaveFailure, CleanUp, disk
<1>4. file' = file \/ \E f : file' = [file EXCEPT ![run[i].cand] = f]
  BY <1>1 DEF Receive, SavePreparing, SaveReady, SaveTransferring, OpenPart, PayloadVerified,
     ReceiveThrows, SaveCommitting, SaveThen, Link, Rename, CopyBegins, CopyEnds, DropPart,
     SaveCommitted, WriteAck, SaveFailure, CleanUp, disk, Claim
<1>5. \A n \in Names : file'[n] = file[n] \/ file[n] = None
  BY <1>1, <1>3, <1>4 DEF TypeOK
<1> QED BY <1>2, <1>5 DEF Within, Frame

(* The record of a running receive, and its attempt.                         *)
LEMMA OwnRecord ==
    ASSUME IndInv, NEW i \in Ids, run[i].pc # "idle", NEW s \in RecordStates
    PROVE  /\ Record(i, s) # None /\ Final(i, s) # None
           /\ Record(i, s).att = tries[i] /\ Final(i, s).att = tries[i]
           /\ Record(i, s).state = s /\ Final(i, s).state = s
           /\ Record(i, s).part
BY AttemptRecord DEF IndInv, RunOK

(* A file is of the offer of its transfer, and the receive that claimed its  *)
(* name finds it there; a record fails only at the end of its receive; and   *)
(* a candidate without a part, or one the recovery takes, is the transfer's  *)
(* own.                                                                      *)
ClaimOK(i) ==
    /\ run[i].mayExist => FileOf(i, run[i].cand)
    /\ \A n \in Names : FileOf(i, n) => \E o \in Offers : o.id = i /\ file[n].data = o.data
    /\ rec[i] # None => rec[i].offer.id = i
    /\ run[i].pc # "idle" => run[i].offer.id = i
    /\ run[i].pc \notin {"idle", "clean"} /\ rec[i] # None => rec[i].state \notin Failed
    /\ OneCrash /\ run[i].pc \in {"payload", "name", "link"} => ~NoPart(i)
    /\ OneCrash /\ run[i].pc = "clean" /\ ~run[i].mayExist =>
          rec[i] # None /\ rec[i].state \in Failed
    /\ OneCrash /\ rec[i] # None /\ rec[i].state = "COMMITTING" =>
          FileOf(i, rec[i].path) \/ ~NoPart(i) \/ (scan.cur = i /\ scan.pc = "save")
    /\ scan.cur = i /\ scan.ok => FileOf(i, rec[i].path)

ClaimInv ==
    /\ touched = {} /\ \A n \in Names : file[n] # None => file[n].by \in Ids
    /\ \A i \in Ids : ClaimOK(i)

(* A file of the single attempt is the one the record names.                 *)
LEMMA FileNamed ==
    ASSUME IndInv, "verify" \notin Faults, NEW i \in Ids, OnceOK(i), PartsOK(i), rec[i] # None,
           NEW n, FileOf(i, n)
    PROVE  rec[i].path = n /\ rec[i].state \in {"COMMITTING"} \cup Committed
<1>1. n \in Names /\ file[n].att = tries[i] /\ rec[i].att = tries[i]
  BY DEF FileOf, OnceOK, PartsOK
<1> QED BY <1>1 DEF IndInv, FileOK, FileOf, NamesFile

(* What the steps of transfer i leave alone of the others.                   *)
LEMMA FrameKeepsClaim ==
    ASSUME NEW i \in Ids, Frame(i), NEW j \in Ids, j # i, ClaimOK(j)
    PROVE  ClaimOK(j)'
<1>1. run'[j] = run[j] /\ rec'[j] = rec[j] /\ scan' = scan
  BY DEF Frame
<1>2. \A n : (FileOf(j, n)' <=> FileOf(j, n)) /\ (FileOf(j, n) => file'[n] = file[n])
  BY DEF Frame, FileOf
<1>3. NoPart(j)' <=> NoPart(j)
  BY DEF Frame, NoPart
<1> QED BY <1>1, <1>2, <1>3 DEF ClaimOK

(* A step that changes only where the receive is.                            *)
LEMMA GoingOnClaims ==
    ASSUME NEW i \in Ids, ClaimOK(i), Frame(i), run[i].pc # "idle", NEW p, GoesOn(i, p),
           UNCHANGED <<file, rec, parts>>, run'[i].offer = run[i].offer,
           run[i].mayExist => run'[i].cand = run[i].cand,
           run[i].pc = "clean" => p = "clean",
           p = "clean" => run[i].pc = "clean" \/ run[i].mayExist \/ ~OneCrash,
           p \in {"payload", "name", "link"} => run[i].pc \in {"payload", "name", "link"}
    PROVE  ClaimOK(i)'
<1>1. scan' = scan
  BY DEF Frame
<1>2. /\ NoPart(i)' <=> NoPart(i)
      /\ \A n : FileOf(i, n)' <=> FileOf(i, n)
  BY DEF NoPart, FileOf
<1>3. run'[i].mayExist => FileOf(i, run[i].cand)'
  BY <1>2 DEF ClaimOK, GoesOn
<1>4. OneCrash /\ run'[i].pc = "clean" /\ ~run'[i].mayExist => rec[i] # None /\ rec[i].state \in Failed
  BY DEF ClaimOK, GoesOn
<1> QED BY <1>1, <1>2, <1>3, <1>4 DEF ClaimOK, GoesOn

(* The record of a running receive and the memory it is made from.           *)
LEMMA OwnOffer ==
    ASSUME IndInv, NEW i \in Ids, run[i].pc # "idle", ClaimOK(i), NEW s \in RecordStates
    PROVE  /\ Record(i, s).offer.id = i /\ Final(i, s).offer.id = i
           /\ Record(i, s).path = run[i].cand
BY RecordFields DEF ClaimOK

(* A save of the record of i that leaves its outcome open, or none.          *)
LEMMA SavingClaims ==
    ASSUME IndInv, NEW i \in Ids, ClaimOK(i), Frame(i),
           NEW s \in RecordStates \ Committed, NEW p \in Phases,
           <<run[i].pc, s, p>> \in {<<"begin", "PREPARING", "connect">>, <<"connect", "READY", "ready">>,
                                    <<"ready", "TRANSFERRING", "open">>, <<"name", "COMMITTING", "link">>},
           SaveThen(i, Record(i, s), p)
    PROVE  ClaimOK(i)'
<1>0. /\ TypeOK /\ ~run[i].mayExist /\ UNCHANGED <<file, parts>>
      /\ run[i].pc # "idle" /\ run[i].pc \in {"begin", "connect", "ready", "name"}
  BY DEF IndInv, RunOK, SaveThen
<1> DEFINE r == Record(i, s)
<1>1. r # None /\ r.state = s /\ r.offer.id = i /\ s \notin Failed
  BY <1>0, OwnRecord, OwnOffer DEF Failed
<1>2. PICK p2 \in {p, "fail"} :
        /\ Goto(i, p2)
        /\ rec' = [rec EXCEPT ![i] = r] \/ (rec' = rec /\ p2 = "fail")
  BY DEF SaveThen, Save, SaveThrows, Goto, Throw
<1> HIDE DEF r
<1>3. /\ GoesOn(i, p2) /\ run'[i].offer = run[i].offer /\ run'[i].cand = run[i].cand
      /\ p2 \in {"connect", "ready", "open", "link", "fail"}
  <2>1. p2 \in Phases /\ p2 \in {"connect", "ready", "open", "link", "fail"}
    BY DEF Phases
  <2> QED BY <1>0, <1>2, <2>1, RunFields DEF GoesOn
<1>5. CASE rec' = rec /\ p2 = "fail"
  BY <1>0, <1>3, <1>5, GoingOnClaims
<1>6. CASE rec' = [rec EXCEPT ![i] = r]
  <2>1. rec'[i] = r /\ scan' = scan
    BY <1>0, <1>6 DEF TypeOK, Frame
  <2>2. /\ NoPart(i)' <=> NoPart(i)
        /\ \A n : FileOf(i, n)' <=> FileOf(i, n)
    BY <1>0 DEF NoPart, FileOf
  <2>3. ~run'[i].mayExist
    BY <1>0, <1>3, Zenon DEF GoesOn
  <2>4. ~scan.ok \/ scan.cur # i
    BY <1>0, ReceiveConstants DEF IndInv, RunOK, ScanOK
  <2>5. OneCrash /\ (p2 = "link" \/ s = "COMMITTING") => ~NoPart(i)
    BY <1>3 DEF ClaimOK
  <2>6. run'[i].pc = p2
    BY <1>3 DEF GoesOn
  <2> QED BY <1>0, <1>1, <1>3, <2>1, <2>2, <2>3, <2>4, <2>5, <2>6 DEF ClaimOK
<1> QED BY <1>2, <1>5, <1>6

(* The file link(2) makes has the offered content.                           *)
LEMMA LinkClaims ==
    ASSUME IndInv, Fs = "link", NEW i \in Ids, ClaimOK(i), Frame(i), Link(i)
    PROVE  ClaimOK(i)'
<1>c. PICK c : c = run[i].cand
  OBVIOUS
<1>0. /\ TypeOK /\ run[i] \in RunType /\ run[i].pc = "link" /\ run[i].pc # "idle"
      /\ c \in Names /\ ~run[i].mayExist /\ run[i].offer \in Offers
      /\ UNCHANGED <<parts, rec, scan>>
  BY <1>c, ReceiveConstants DEF IndInv, TypeOK, Link, RunOK, RunType, Names
<1>2. CASE Throw(i) /\ file' = file
  <2>1. GoesOn(i, "fail") /\ run'[i].offer = run[i].offer /\ run'[i].cand = run[i].cand
    BY <1>0, <1>2, RunFields DEF GoesOn, Throw, Goto, Phases
  <2> QED BY <1>0, <1>2, <2>1, GoingOnClaims
<1>3. CASE file' = file /\ run' = [run EXCEPT ![i].pc = "name", ![i].cand = @ + 1]
  <2>1. GoesOn(i, "name") /\ run'[i].offer = run[i].offer
    BY <1>0, <1>3 DEF GoesOn, RunType, TypeOK
  <2> QED BY <1>0, <1>3, <2>1, GoingOnClaims
<1>4. CASE file[c] = None /\ Claim(i, TRUE) /\ AfterLink(i)
  <2>1. run'[i].pc = "linked" /\ run'[i].offer = run[i].offer /\ run'[i].cand = c
    BY <1>0, <1>4, <1>c DEF AfterLink, RunType, TypeOK
  <2>2. file' = [file EXCEPT ![c] = Landed(i, TRUE)]
    BY <1>4, <1>c DEF Claim
  <2>3. /\ Landed(i, TRUE) # None /\ Landed(i, TRUE).by = i
        /\ Landed(i, TRUE).data = run[i].offer.data
    <3>1. run[i].att \in Nat /\ run[i].offer.data \in Data
      BY <1>0 DEF RunType, Data
    <3> QED BY <3>1, LandedFields
  <2>4. FileOf(i, c)' /\ \A n : n # c => (FileOf(i, n)' <=> FileOf(i, n)) /\ (n \in Names => file'[n] = file[n])
    <3>1. file'[c] = Landed(i, TRUE) /\ \A n \in Names : n # c => file'[n] = file[n]
      BY <1>0, <2>2 DEF TypeOK
    <3> QED BY <1>0, <2>3, <3>1 DEF FileOf
  <2>5. \A n : FileOf(i, n) => FileOf(i, n)'
    <3>1. ~FileOf(i, c)
      BY <1>4 DEF FileOf
    <3> QED BY <2>4, <3>1
  <2>6. run[i].offer.id = i /\ file'[c].data = run[i].offer.data
    BY <1>0, <2>2, <2>3 DEF ClaimOK, TypeOK
  <2>7. \A n \in Names : FileOf(i, n)' => \E o \in Offers : o.id = i /\ file'[n].data = o.data
    BY <1>0, <2>4, <2>6 DEF ClaimOK
  <2>8. NoPart(i)' <=> NoPart(i)
    BY <1>0 DEF NoPart
  <2>9. run[i].pc \notin {"idle", "clean"}
    BY <1>0
  <2> QED BY <1>0, <2>1, <2>4, <2>5, <2>6, <2>7, <2>8, <2>9 DEF ClaimOK
<1> QED BY <1>2, <1>3, <1>4, <1>c DEF Link

(* A file of the transfer is the one its undecided record names.             *)
LEMMA PathClaimed ==
    ASSUME IndInv, "verify" \notin Faults, NEW i \in Ids, OnceOK(i), PartsOK(i), ClaimOK(i),
           run[i].mayExist, rec[i] # None
    PROVE  FileOf(i, rec[i].path)
BY FileNamed DEF ClaimOK

(* The part comes before the claim and goes after it.                        *)
LEMMA PartMovesClaim ==
    ASSUME IndInv, "verify" \notin Faults, NEW i \in Ids, OnceOK(i), PartsOK(i), ClaimOK(i), Frame(i),
           OpenPart(i) \/ DropPart(i)
    PROVE  ClaimOK(i)'
<1>0. /\ TypeOK /\ RunOK(i) /\ run[i].pc \in {"open", "linked"} /\ run[i].pc # "idle"
      /\ UNCHANGED <<file, rec, scan>> /\ PartOf(i).id = i
  BY DEF IndInv, OpenPart, DropPart, PartOf
<1>1. \A n : FileOf(i, n)' <=> FileOf(i, n)
  BY <1>0 DEF FileOf
<1>2. PICK p \in {"payload", "dropped", "fail"} :
         /\ Goto(i, p)
         /\ p = "payload" <=> OpenPart(i)
  BY DEF OpenPart, DropPart, Throw, Goto
<1>3. GoesOn(i, p) /\ run'[i].offer = run[i].offer /\ run'[i].cand = run[i].cand
  <2>1. p \in Phases /\ p # "idle"
    BY DEF Phases
  <2>2. Goto(i, p) /\ TypeOK
    BY <1>0, <1>2
  <2>3. /\ run'[i].pc = p /\ run'[i].offer = run[i].offer /\ run'[i].cand = run[i].cand
        /\ run'[i].mayExist = run[i].mayExist /\ run'[i].committed = run[i].committed
    BY <2>1, <2>2, RunFields, Zenon
  <2> QED BY <2>1, <2>3 DEF GoesOn
<1>4. run'[i].mayExist => FileOf(i, run[i].cand)'
  BY <1>1, <1>3 DEF ClaimOK, GoesOn
<1>5. OpenPart(i) => ~NoPart(i)'
  BY <1>0 DEF OpenPart, NoPart
<1>6. OneCrash /\ rec[i] # None /\ rec[i].state = "COMMITTING" =>
          FileOf(i, rec[i].path) \/ ~NoPart(i)' \/ (scan.cur = i /\ scan.pc = "save")
  <2>1. CASE OpenPart(i)
    BY <1>5, <2>1
  <2>2. CASE DropPart(i)
    <3>1. run[i].mayExist
      BY <1>0, <2>2 DEF RunOK, DropPart
    <3> QED BY <3>1, PathClaimed
  <2> QED BY <2>1, <2>2
<1>7. run'[i].pc = p
  BY <1>3 DEF GoesOn
<1> QED BY <1>0, <1>1, <1>2, <1>3, <1>4, <1>5, <1>6, <1>7 DEF ClaimOK

(* The record of i is replaced and the receive goes on with what it claimed. *)
LEMMA RewritingClaims ==
    ASSUME IndInv, NEW i \in Ids, ClaimOK(i), Frame(i), run[i].pc # "idle", mode = "serving",
           UNCHANGED <<file, parts>>, run'[i].pc \in {"ack", "fail", "clean"},
           run'[i].mayExist = run[i].mayExist, run'[i].offer = run[i].offer,
           run'[i].cand = run[i].cand, rec'[i] # None, rec'[i].offer.id = i,
           run'[i].pc # "clean" => rec'[i].state \notin Failed,
           rec'[i].state = "COMMITTING" => FileOf(i, rec'[i].path),
           run[i].mayExist \/ rec'[i].state \in Failed
    PROVE  ClaimOK(i)'
<1>1. scan' = scan
  BY DEF Frame
<1>2. /\ NoPart(i)' <=> NoPart(i)
      /\ \A n : FileOf(i, n)' <=> FileOf(i, n)
  BY DEF NoPart, FileOf
<1>3. run'[i].mayExist => FileOf(i, run[i].cand)'
  BY <1>2 DEF ClaimOK
<1>4. run[i].mayExist \/ rec'[i].state \in Failed
  OBVIOUS
<1>5. run'[i].mayExist \/ rec'[i].state \in Failed
  BY <1>4, Zenon
<1>6. scan.cur # i
  BY ReceiveConstants DEF IndInv, ScanOK
<1>7. rec'[i].state = "COMMITTING" => FileOf(i, rec[i].path)'
  BY <1>2
<1> QED BY <1>1, <1>2, <1>3, <1>5, <1>6, <1>7 DEF ClaimOK

(* The commit of a claimed name.                                             *)
LEMMA CommittingClaims ==
    ASSUME IndInv, NEW i \in Ids, ClaimOK(i), Frame(i), SaveCommitted(i)
    PROVE  ClaimOK(i)'
<1> DEFINE r == Final(i, "DATA_COMMITTED")
<1>0. /\ TypeOK /\ RunOK(i) /\ run[i] \in RunType /\ run[i].pc = "dropped"
      /\ run[i].pc # "idle" /\ mode = "serving" /\ UNCHANGED <<file, parts>> /\ run[i].mayExist
  BY DEF IndInv, TypeOK, RunOK, SaveCommitted
<1>1. r # None /\ r.state = "DATA_COMMITTED" /\ r.offer.id = i
  BY <1>0, OwnRecord, OwnOffer DEF RecordStates
<1> HIDE DEF r
<1>2. PICK p \in {"ack", "fail"} :
         /\ run'[i].pc = p /\ run'[i].mayExist = run[i].mayExist /\ run'[i].offer = run[i].offer
         /\ run'[i].cand = run[i].cand
         /\ \/ rec' = [rec EXCEPT ![i] = r]
            \/ rec' = rec /\ p = "fail"
  <2>1. CASE Throw(i) /\ rec' = rec
    BY <1>0, <2>1 DEF Throw, RunType, TypeOK
  <2>2. ASSUME NEW p \in {"ack", "fail"}, run' = [run EXCEPT ![i].pc = p, ![i].committed = TRUE]
        PROVE  /\ run'[i].pc = p /\ run'[i].mayExist = run[i].mayExist /\ run'[i].offer = run[i].offer
               /\ run'[i].cand = run[i].cand
    BY <1>0, <2>2 DEF RunType, TypeOK
  <2>3. CASE rec' = [rec EXCEPT ![i] = r] /\ run' = [run EXCEPT ![i].pc = "ack", ![i].committed = TRUE]
    BY <2>2, <2>3
  <2>4. CASE /\ rec' = [rec EXCEPT ![i] = r] \/ rec' = rec
             /\ run' = [run EXCEPT ![i].pc = "fail", ![i].committed = TRUE]
    BY <2>2, <2>4
  <2> QED BY <2>1, <2>3, <2>4 DEF SaveCommitted, Save, SaveThrows, r
<1>3. CASE rec' = [rec EXCEPT ![i] = r]
  <2>1. rec'[i] = r
    BY <1>0, <1>3 DEF TypeOK
  <2> QED BY <1>0, <1>1, <1>2, <2>1, RewritingClaims DEF Failed
<1>4. CASE rec' = rec /\ p = "fail"
  <2>1. /\ NoPart(i)' <=> NoPart(i)
        /\ \A n : FileOf(i, n)' <=> FileOf(i, n)
        /\ scan' = scan
    BY <1>0 DEF NoPart, FileOf, Frame
  <2>2. run[i].pc \notin {"idle", "clean"} /\ run'[i].pc = "fail"
    BY <1>0, <1>2, <1>4
  <2>3. run'[i].mayExist => FileOf(i, run[i].cand)'
    BY <1>0, <1>2, <2>1 DEF ClaimOK
  <2>4. run'[i].offer.id = i /\ rec' = rec /\ file' = file
    BY <1>0, <1>2, <1>4 DEF ClaimOK
  <2>5. run'[i].pc \notin {"payload", "name", "link", "clean"} /\ (rec[i] # None => rec[i].state \notin Failed)
    BY <2>2 DEF ClaimOK
  <2>6. FileOf(i, rec[i].path)' <=> FileOf(i, rec[i].path)
    BY <2>4 DEF FileOf
  <2> QED BY <2>1, <2>3, <2>4, <2>5, <2>6 DEF ClaimOK
<1> QED BY <1>2, <1>3, <1>4

(* The record of the catch block.                                            *)
LEMMA FailingClaims ==
    ASSUME IndInv, NEW i \in Ids, ClaimOK(i), Frame(i), SaveFailure(i)
    PROVE  ClaimOK(i)'
<1> DEFINE r == FailureRecord(i)
<1>0. /\ TypeOK /\ RunOK(i) /\ run[i].pc = "fail" /\ Goto(i, "clean")
      /\ run[i].pc # "idle" /\ mode = "serving" /\ UNCHANGED <<file, parts>>
  BY DEF IndInv, RunOK, SaveFailure
<1>1. GoesOn(i, "clean") /\ run'[i].offer = run[i].offer /\ run'[i].cand = run[i].cand
  BY <1>0, RunFields DEF GoesOn, Phases
<1>2. CASE rec' = rec /\ (run[i].committed \/ "save" \in Faults)
  <2>1. run[i].mayExist \/ ~OneCrash
    BY <1>0, <1>2 DEF RunOK, OneCrash
  <2>2. UNCHANGED <<file, rec, parts>>
    BY <1>0, <1>2
  <2>3. "clean" \notin {"payload", "name", "link"}
    OBVIOUS
  <2> QED BY <1>0, <1>1, <2>1, <2>2, <2>3, GoingOnClaims, Zenon
<1>3. CASE rec' = [rec EXCEPT ![i] = r]
  <2>1. CASE run[i].mayExist
    <3>1. r = Record(i, "COMMITTING")
      BY <2>1 DEF FailureRecord
    <3>2. r # None /\ r.state = "COMMITTING" /\ r.offer.id = i /\ r.path = run[i].cand
      BY <1>0, <3>1, OwnRecord, OwnOffer DEF RecordStates
    <3> HIDE DEF r
    <3>3. rec'[i] = r /\ run'[i].pc = "clean" /\ run'[i].mayExist = run[i].mayExist
      BY <1>0, <1>1, <1>3 DEF TypeOK, GoesOn
    <3>4. FileOf(i, rec'[i].path)
      BY <2>1, <3>2, <3>3 DEF ClaimOK
    <3> QED BY <1>0, <1>1, <2>1, <3>2, <3>3, <3>4, RewritingClaims
  <2>2. CASE ~run[i].mayExist
    <3>1. PICK s \in Failed : r = Final(i, s)
      BY <2>2 DEF FailureRecord, Failed
    <3>2. r # None /\ r.state = s /\ r.offer.id = i
      BY <1>0, <3>1, OwnRecord, OwnOffer DEF RecordStates, Failed
    <3> HIDE DEF r
    <3>3. rec'[i] = r /\ run'[i].pc = "clean" /\ run'[i].mayExist = run[i].mayExist
      BY <1>0, <1>1, <1>3 DEF TypeOK, GoesOn
    <3>4. s \in Failed /\ s # "COMMITTING"
      BY DEF Failed
    <3> QED BY <1>0, <1>1, <3>2, <3>3, <3>4, RewritingClaims
  <2> QED BY <2>1, <2>2
<1> QED BY <1>2, <1>3 DEF SaveFailure, Save, SaveThrows

(* The end of the receive: only a failed one loses its part here.            *)
LEMMA EndingClaims ==
    ASSUME IndInv, NEW i \in Ids, ClaimOK(i), Frame(i), WriteAck(i) \/ CleanUp(i)
    PROVE  ClaimOK(i)'
<1>0. /\ TypeOK /\ RunOK(i) /\ UNCHANGED <<file, rec, scan>> /\ Settle(i)
  BY DEF IndInv, WriteAck, CleanUp, disk
<1>1. run'[i] = Idle
  BY <1>0 DEF Settle, TypeOK
<1>2. run'[i].pc = "idle" /\ ~run'[i].mayExist
  BY <1>1, IdleFields, Zenon
<1>3. \A n : FileOf(i, n)' <=> FileOf(i, n)
  BY <1>0 DEF FileOf
<1>4. OneCrash /\ rec[i] # None /\ rec[i].state = "COMMITTING" => NoPart(i)' = NoPart(i)
  <2>1. CASE parts' = parts
    BY <2>1 DEF NoPart
  <2>2. CASE CleanUp(i) /\ ~run[i].committed /\ ~run[i].mayExist
    BY <2>2 DEF CleanUp, ClaimOK, Failed
  <2> QED BY <2>1, <2>2 DEF WriteAck, CleanUp, disk
<1> QED BY <1>0, <1>2, <1>3, <1>4 DEF ClaimOK

(* The steps of the receives.                                                *)
LEMMA ReceiveKeepsClaims ==
    ASSUME IndInv, Fs = "link", "verify" \notin Faults, OnceInv, PartsInv, ClaimInv,
           NEW i \in Ids, Receive(i)
    PROVE  ClaimInv'
<1>1. /\ OnceOK(i) /\ PartsOK(i) /\ ClaimOK(i) /\ Frame(i) /\ run[i].pc # "idle" /\ run[i] \in RunType
      /\ TypeOK /\ RunOK(i)
  BY ReceiveFrame DEF OnceInv, PartsInv, ClaimInv, IndInv, TypeOK
<1>2. \A j \in Ids : j # i => ClaimOK(j)'
  BY <1>1, FrameKeepsClaim DEF ClaimInv
<1>3. touched' = {} /\ \A n \in Names : file'[n] # None => file'[n].by \in Ids
  BY <1>1 DEF Frame, ClaimInv
<1> SUFFICES ClaimOK(i)'
  BY <1>2, <1>3 DEF ClaimInv
<1>s. ASSUME NEW s \in {"PREPARING", "READY", "TRANSFERRING", "COMMITTING"}, NEW p,
             <<run[i].pc, s, p>> \in {<<"begin", "PREPARING", "connect">>, <<"connect", "READY", "ready">>,
                                      <<"ready", "TRANSFERRING", "open">>, <<"name", "COMMITTING", "link">>},
             SaveThen(i, Record(i, s), p)
      PROVE  ClaimOK(i)'
  <2>1. s \in RecordStates \ Committed /\ p \in Phases
    BY <1>s DEF RecordStates, Committed, Phases
  <2> QED BY <1>1, <1>s, <2>1, SavingClaims
<1>4. CASE SavePreparing(i) \/ SaveReady(i)
  BY <1>s, <1>4 DEF SavePreparing, SaveReady
<1>5. CASE SaveTransferring(i) \/ SaveCommitting(i)
  BY <1>s, <1>5 DEF SaveTransferring, SaveCommitting
<1>6. CASE PayloadVerified(i)
  <2>1. /\ GoesOn(i, "name") /\ UNCHANGED <<file, rec, parts>> /\ run'[i].offer = run[i].offer
        /\ run[i].pc = "payload" /\ ~run[i].mayExist
    BY <1>1, <1>6 DEF PayloadVerified, GoesOn, RunType, TypeOK, RunOK, disk
  <2> QED BY <1>1, <2>1, GoingOnClaims
<1>7. CASE ReceiveThrows(i)
  <2>1. /\ GoesOn(i, "fail") /\ UNCHANGED <<file, rec, parts>> /\ run'[i].offer = run[i].offer
        /\ run'[i].cand = run[i].cand /\ run[i].pc # "clean"
    BY <1>1, <1>7 DEF ReceiveThrows, GoesOn, RunType, TypeOK, RunOK, disk
  <2> QED BY <1>1, <2>1, GoingOnClaims
<1>8. CASE Link(i) \/ OpenPart(i) \/ DropPart(i)
  BY <1>1, <1>8, LinkClaims, PartMovesClaim
<1>9. CASE SaveCommitted(i) \/ SaveFailure(i) \/ WriteAck(i) \/ CleanUp(i)
  BY <1>1, <1>9, CommittingClaims, FailingClaims, EndingClaims
<1>10. ~Rename(i) /\ ~CopyBegins(i) /\ ~CopyEnds(i)
  BY <1>1 DEF RunOK, Rename, CopyBegins, CopyEnds
<1> QED BY <1>4, <1>5, <1>6, <1>7, <1>8, <1>9, <1>10 DEF Receive

(* A step aside of transfer i: its files, record, part and memory stay.      *)
LEMMA AsideClaims ==
    ASSUME NEW i \in Ids, ClaimOK(i), file' = file, run'[i] = run[i], rec'[i] = rec[i],
           NoPart(i)' <=> NoPart(i),
           scan.cur = i /\ scan.pc = "save" => scan' = scan,
           scan'.cur = i /\ scan'.ok => FileOf(i, rec[i].path)
    PROVE  ClaimOK(i)'
<1>1. \A n : FileOf(i, n)' <=> FileOf(i, n)
  BY DEF FileOf
<1>2. run'[i].mayExist => FileOf(i, run[i].cand)'
  BY <1>1 DEF ClaimOK
<1> QED BY <1>1, <1>2 DEF ClaimOK

(* Being canceled, and the notification.                                     *)
LEMMA CancelKeepsClaims ==
    ASSUME IndInv, ClaimInv, NEW i \in Ids, Cancel(i) \/ ResolveUri(i)
    PROVE  ClaimInv'
<1>1. /\ ClaimOK(i) /\ TypeOK /\ run[i] \in RunType
      /\ rec[i] # None => rec[i] \in RecordType
  BY DEF ClaimInv, IndInv, TypeOK
<1>2. Frame(i) /\ UNCHANGED <<file, parts>>
  BY <1>1 DEF Cancel, ResolveUri, Save, Frame, env, disk, TypeOK
<1>3. touched' = {} /\ \A n \in Names : file'[n] # None => file'[n].by \in Ids
  BY <1>2 DEF Frame, ClaimInv
<1>4. \A j \in Ids : j # i => ClaimOK(j)'
  BY <1>2, FrameKeepsClaim DEF ClaimInv
<1> SUFFICES ClaimOK(i)'
  BY <1>3, <1>4 DEF ClaimInv
<1>5. CASE Cancel(i)
  <2>1. /\ run[i].pc # "idle" /\ GoesOn(i, run[i].pc) /\ rec' = rec
        /\ run'[i].offer = run[i].offer /\ run'[i].cand = run[i].cand
    BY <1>1, <1>5 DEF Cancel, Active, GoesOn, RunType, TypeOK, disk
  <2> QED BY <1>1, <1>2, <2>1, GoingOnClaims
<1>6. CASE ResolveUri(i)
  <2> DEFINE r == [rec[i] EXCEPT !.state = "COMPLETED"]
  <2>1. rec'[i] = r /\ rec[i] # None /\ run' = run /\ scan' = scan
    BY <1>1, <1>6 DEF ResolveUri, Save, TypeOK
  <2>2. /\ r # None /\ r.state = "COMPLETED" /\ r.offer = rec[i].offer /\ r.path = rec[i].path
    BY <1>1, <2>1, ReceiveConstants DEF RecordType, RecordStates
  <2> HIDE DEF r
  <2>3. /\ NoPart(i)' <=> NoPart(i)
        /\ \A n : FileOf(i, n)' <=> FileOf(i, n)
    BY <1>2 DEF NoPart, FileOf
  <2>4. run'[i].mayExist => FileOf(i, run[i].cand)'
    BY <1>1, <2>1, <2>3 DEF ClaimOK
  <2>5. run'[i].pc # "clean" \/ run'[i].mayExist \/ ~OneCrash
    BY <1>1, <1>6, <2>1 DEF ClaimOK, ResolveUri, Failed
  <2> QED BY <1>1, <1>2, <2>1, <2>2, <2>3, <2>4, <2>5 DEF ClaimOK, Failed
<1> QED BY <1>5, <1>6

(* An admitted receive claims nothing yet.                                   *)
LEMMA PrepareKeepsClaims ==
    ASSUME IndInv, AskedOnce, OnceInv, ClaimInv, NEW q \in Requests, Prepare(q)
    PROVE  ClaimInv'
<1>1. TypeOK /\ UNCHANGED <<file, parts, rec, scan, touched>>
  BY DEF IndInv, Prepare, PrepareRefused, PrepareLoad, PrepareAnswered, PrepareAdmits, disk, env
<1>2. \A i \in Ids : NoPart(i)' <=> NoPart(i)
  BY <1>1 DEF NoPart
<1>3. \A i \in Ids : run'[i] = run[i] => ClaimOK(i)'
  <2> SUFFICES ASSUME NEW i \in Ids, run'[i] = run[i] PROVE ClaimOK(i)'
    OBVIOUS
  <2>1. ClaimOK(i) /\ (scan.cur = i /\ scan.ok => FileOf(i, rec[i].path))
    BY DEF ClaimInv, ClaimOK
  <2> QED BY <1>1, <1>2, <2>1, AsideClaims
<1>4. CASE ~PrepareAdmits(q)
  BY <1>1, <1>3, <1>4 DEF ClaimInv, Prepare, PrepareRefused, PrepareLoad, PrepareAnswered
<1>5. CASE PrepareAdmits(q)
  <2> DEFINE o == Asks[q]
             i == o.id
             r == [Idle EXCEPT !.pc = "begin", !.offer = o, !.att = tries[i] + 1]
  <2>1. o \in Offers /\ i \in Ids /\ Asked(i)
    BY <1>5 DEF Offers, Ids, Requests, Asked, PrepareAdmits
  <2>2. run' = [run EXCEPT ![i] = r] /\ i = o.id
    BY <1>5 DEF PrepareAdmits
  <2> HIDE DEF o, i
  <2>3. tries[i] = 0 /\ rec[i] = None /\ (\A n \in Names : ~FileOf(i, n)) /\ mode = "serving"
    BY <1>5, <2>1 DEF OnceInv, OnceOK, PrepareAdmits, IndInv
  <2>5. r.pc = "begin" /\ ~r.mayExist /\ r.offer = o
    <3>1. tries[i] + 1 \in Nat
      BY <2>3
    <3> QED BY <2>1, <3>1, NewRunFields
  <2>6. run'[i] = r /\ \A j \in Ids : j # i => run'[j] = run[j]
    BY <1>1, <2>1, <2>2 DEF TypeOK
  <2> HIDE DEF r
  <2>7. run'[i].pc = "begin" /\ ~run'[i].mayExist
    BY <2>5, <2>6, Zenon
  <2>8. run'[i].offer.id = i
    BY <2>2, <2>5, <2>6
  <2>9. scan.cur # i
    BY <2>1, <2>3, ReceiveConstants DEF IndInv, ScanOK
  <2>10. \A n \in Names : ~FileOf(i, n)'
    BY <1>1, <2>3 DEF FileOf
  <2>11. ClaimOK(i)'
    BY <1>1, <2>3, <2>7, <2>8, <2>9, <2>10 DEF ClaimOK
  <2> QED BY <1>1, <1>3, <2>6, <2>11 DEF ClaimInv
<1> QED BY <1>4, <1>5

(* A crash in the middle of a recovery is a second one.                      *)
LEMMA CrashKeepsClaims ==
    ASSUME IndInv, PartsInv, ClaimInv, Crash
    PROVE  ClaimInv'
<1>1. TypeOK /\ UNCHANGED <<file, parts, rec, touched>> /\ scan' = NoScan
  BY DEF IndInv, Crash, disk
<1>2. NoScan.cur = None
  BY DEF NoScan
<1>3. OneCrash => scan.cur = None
  <2> SUFFICES ASSUME OneCrash, scan.cur # None PROVE FALSE
    OBVIOUS
  <2>1. scan.cur \in Ids /\ rec[scan.cur] # None /\ mode # "serving"
    BY <1>1 DEF IndInv, ScanOK, TypeOK, ScanType
  <2>2. crashes = 0
    BY <1>1, ReceiveConstants DEF OneCrash, Crash, TypeOK
  <2> QED BY <2>1, <2>2 DEF PartsInv, PartsOK
<1> SUFFICES ASSUME NEW i \in Ids PROVE ClaimOK(i)'
  BY <1>1 DEF ClaimInv
<1>4. ClaimOK(i) /\ run'[i] = Idle
  BY DEF ClaimInv, Crash
<1>5. run'[i].pc = "idle" /\ ~run'[i].mayExist
  BY <1>4, IdleFields, Zenon
<1>6. /\ NoPart(i)' <=> NoPart(i)
      /\ \A n : FileOf(i, n)' <=> FileOf(i, n)
  BY <1>1 DEF NoPart, FileOf
<1>7. scan'.cur # i /\ (OneCrash => scan.cur # i)
  BY <1>1, <1>2, <1>3, ReceiveConstants
<1> QED BY <1>1, <1>4, <1>5, <1>6, <1>7 DEF ClaimOK

(* A candidate that verifyOwnedCommittedFile takes is the transfer's own.    *)
LEMMA VerifiedIsOwn ==
    ASSUME IndInv, PartsInv, ClaimInv, Distinct \/ OneCrash, NEW i \in Ids, rec[i] # None,
           rec[i].state = "COMMITTING", Owns(i), scan.cur = None
    PROVE  FileOf(i, rec[i].path)
<1> DEFINE n == rec[i].path
<1>1. /\ TypeOK /\ rec[i] \in RecordType /\ n \in Names /\ file[n] # None
      /\ file[n].by \in Ids /\ file[n].data = rec[i].offer.data
      /\ ClaimOK(i) /\ PartsOK(i)
  BY DEF IndInv, TypeOK, RecordType, Owns, Names, ClaimInv, PartsInv
<1>2. CASE Distinct
  <2>1. PICK o \in Offers : o.id = file[n].by /\ file[n].data = o.data
    BY <1>1 DEF ClaimInv, ClaimOK, FileOf
  <2>2. rec[i].offer \in Offers /\ rec[i].offer.id = i
    BY <1>1 DEF RecordType, ClaimOK
  <2>3. o.id = i
    BY <1>1, <1>2, <2>1, <2>2 DEF Distinct
  <2> QED BY <1>1, <2>1, <2>3 DEF FileOf
<1>3. CASE OneCrash
  <2>1. FileOf(i, n) \/ ~NoPart(i)
    BY <1>1, <1>3, ReceiveConstants DEF ClaimOK
  <2>2. CASE ~NoPart(i)
    <3>1. PICK p \in parts : p.id = i
      BY <2>2 DEF NoPart
    <3>2. p.att = rec[i].att /\ p \in PartType
      BY <1>1, <3>1 DEF PartsOK, TypeOK
    <3>3. p = [id |-> i, att |-> rec[i].att]
      BY <3>1, <3>2 DEF PartType
    <3>4. file[n].by = i
      BY <3>3 DEF Owns
    <3> QED BY <1>1, <3>4 DEF FileOf
  <2> QED BY <2>1, <2>2
<1> QED BY <1>2, <1>3

(* The recovery.                                                             *)
LEMMA RecoverKeepsClaims ==
    ASSUME IndInv, PartsInv, ClaimInv, Distinct \/ OneCrash, Recover
    PROVE  ClaimInv'
<1>1. TypeOK /\ ScanOK /\ UNCHANGED <<file, run, touched>> /\ mode # "serving"
  BY DEF IndInv, Recover, Start, RecoverVerify, RecoverDropPart, RecoverSave, RecoverDone, disk, env
<1> SUFFICES ASSUME NEW j \in Ids PROVE ClaimOK(j)'
  BY <1>1 DEF ClaimInv
<1>2. /\ ClaimOK(j) /\ j # None /\ (scan.cur = j /\ scan.ok => FileOf(j, rec[j].path))
      /\ run[j].pc = "idle"
  BY <1>1, ReceiveConstants DEF ClaimInv, ClaimOK, IndInv, RunOK
<1>3. CASE Start
  <2>1. scan.cur = None /\ scan'.cur = None /\ UNCHANGED <<rec, parts>>
    BY <1>1, <1>3 DEF Start, NoScan, ScanOK, disk
  <2> QED BY <1>1, <1>2, <2>1, AsideClaims DEF NoPart
<1>4. CASE \E i \in Ids : RecoverVerify(i)
  <2>1. PICK i \in Ids : RecoverVerify(i)
    BY <1>4
  <2>2. /\ scan.cur = None /\ scan'.cur = i /\ UNCHANGED <<rec, parts>> /\ rec[i] # None
        /\ scan'.ok => rec[i].state = "COMMITTING" /\ Owns(i)
    BY <1>1, <2>1 DEF RecoverVerify, disk, TypeOK, ScanType, ScanOK
  <2>3. scan'.ok => FileOf(i, rec[i].path)
    BY <2>2, VerifiedIsOwn
  <2> QED BY <1>1, <1>2, <2>2, <2>3, AsideClaims DEF NoPart
<1>5. CASE RecoverDropPart
  <2>1. /\ scan.cur # None /\ scan'.cur = scan.cur /\ scan'.ok = scan.ok /\ scan'.pc = "save"
        /\ scan.pc = "drop" /\ rec' = rec
        /\ \A p \in parts : p \in parts' \/ p.id = scan.cur
        /\ parts' \subseteq parts
    BY <1>1, <1>5 DEF RecoverDropPart, TypeOK, ScanType
  <2>2. \A n : FileOf(j, n)' <=> FileOf(j, n)
    BY <1>1 DEF FileOf
  <2>3. CASE j = scan.cur
    BY <1>1, <1>2, <2>1, <2>2, <2>3 DEF ClaimOK
  <2>4. CASE j # scan.cur
    <3>1. NoPart(j)' <=> NoPart(j)
      BY <2>1, <2>4 DEF NoPart
    <3> QED BY <1>1, <1>2, <2>1, <2>4, <3>1, AsideClaims
  <2> QED BY <2>3, <2>4
<1>6. CASE RecoverSave
  <2>1. /\ scan.cur \in Ids /\ scan'.cur = None /\ parts' = parts /\ rec[scan.cur] # None
        /\ \/ rec' = [rec EXCEPT ![scan.cur] = Recovered(scan.cur)]
           \/ "save" \in Faults /\ rec' = rec
    BY <1>1, <1>6 DEF RecoverSave, Save, SaveThrows, NoScan, ScanOK, TypeOK, ScanType
  <2>2. /\ NoPart(j)' <=> NoPart(j)
        /\ \A n : FileOf(j, n)' <=> FileOf(j, n)
    BY <1>1, <2>1 DEF FileOf, NoPart
  <2>3. CASE j # scan.cur
    <3>1. rec'[j] = rec[j]
      BY <1>1, <2>1, <2>3 DEF TypeOK
    <3> QED BY <1>1, <1>2, <2>1, <2>2, <2>3, <3>1, AsideClaims
  <2>4. CASE j = scan.cur /\ rec' = [rec EXCEPT ![j] = Recovered(j)]
    <3> DEFINE r == Recovered(j)
    <3>1. rec[j] \in RecordType
      BY <1>1, <2>1, <2>4 DEF TypeOK
    <3>2. r.state \in {"DATA_COMMITTED", "FAILED_CONFIRMED"} /\ r.offer = rec[j].offer
      BY <3>1 DEF Recovered, RecordType, RecordStates
    <3> HIDE DEF r
    <3>3. rec'[j] = r
      BY <1>1, <2>4 DEF TypeOK, r
    <3>4. ~run[j].mayExist
      <4>1. run[j] = Idle
        BY <1>2 DEF IndInv, RunOK
      <4> QED BY <4>1, IdleFields, Zenon
    <3>5. rec[j].offer.id = j
      BY <1>2, <2>1, <2>4 DEF ClaimOK
    <3> QED BY <1>1, <1>2, <2>1, <2>2, <3>2, <3>3, <3>4, <3>5 DEF ClaimOK
  <2>5. CASE j = scan.cur /\ rec' = rec /\ ~OneCrash
    BY <1>1, <1>2, <2>1, <2>2, <2>5 DEF ClaimOK
  <2> QED BY <2>1, <2>3, <2>4, <2>5 DEF OneCrash
<1>7. CASE RecoverDone
  <2>1. UNCHANGED <<rec, parts, scan>>
    BY <1>7 DEF RecoverDone, disk
  <2> QED BY <1>1, <1>2, <2>1, AsideClaims DEF NoPart
<1> QED BY <1>3, <1>4, <1>5, <1>6, <1>7 DEF Recover

(* Every step preserves what the claims rest on.                             *)
LEMMA ClaimStep ==
    ASSUME Fs = "link", AskedOnce, "verify" \notin Faults, MaxUser = 0, Distinct \/ OneCrash,
           IndInv, OnceInv, PartsInv, ClaimInv, [Next]_vars
    PROVE  ClaimInv'
<1>1. CASE UNCHANGED vars
  <2> SUFFICES ASSUME NEW i \in Ids PROVE ClaimOK(i)'
    BY <1>1 DEF vars, ClaimInv
  <2>1. ClaimOK(i) /\ (scan.cur = i /\ scan.ok => FileOf(i, rec[i].path))
    BY DEF ClaimInv, ClaimOK
  <2> QED BY <1>1, <2>1, AsideClaims DEF vars, NoPart
<1>2. ~UserActs
  BY DEF UserActs, UserCreates, UserDeletes, IndInv, TypeOK
<1> QED BY <1>1, <1>2, ReceiveKeepsClaims, CancelKeepsClaims, PrepareKeepsClaims, CrashKeepsClaims,
           RecoverKeepsClaims DEF Next

(* Nothing is claimed at first.                                              *)
LEMMA ClaimInit == ASSUME Init PROVE ClaimInv
<1> SUFFICES ASSUME NEW i \in Ids PROVE ClaimOK(i)
  BY DEF Init, ClaimInv
<1>1. run[i] = Idle /\ rec[i] = None /\ scan.cur = None /\ i # None
  BY ReceiveConstants DEF Init, NoScan
<1>2. run[i].pc = "idle" /\ ~run[i].mayExist
  BY <1>1, IdleFields, Zenon
<1>3. \A n : ~FileOf(i, n)
  BY DEF Init, FileOf
<1> QED BY <1>1, <1>2, <1>3 DEF ClaimOK

-----------------------------------------------------------------------------
(* Refinement                                                               *)

Inv == TypeInv /\ IndInv /\ OnceInv /\ PartsInv /\ ClaimInv

(* How the receiver's step shows up in the promise, for transfer i.          *)
View(i) == <<i \in Active, i \in InPlace, OutcomeOf(i)>>
Verdicts == [i \in Ids |-> OutcomeOf(i)]

(* What the promise allows transfer i to do.                                 *)
Shows(i) ==
    \/ View(i)' = View(i)
    \/ /\ i \notin Active /\ i \in Active' /\ OutcomeOf(i) = "open"             \* Admit
       /\ (i \in InPlace' <=> i \in InPlace) /\ OutcomeOf(i)' = OutcomeOf(i)
    \/ /\ i \in Active /\ i \notin Active'                                     \* Ends
       /\ (i \in InPlace' <=> i \in InPlace) /\ OutcomeOf(i)' = OutcomeOf(i)
    \/ /\ i \in Active /\ i \in Active' /\ i \notin InPlace /\ i \in InPlace'  \* Lands
       /\ OutcomeOf(i) = "open" /\ OutcomeOf(i)' = "open"
    \/ /\ i \in InPlace /\ i \in InPlace' /\ (i \in Active' <=> i \in Active)    \* Commits
       /\ OutcomeOf(i) = "open" /\ OutcomeOf(i)' = "committed"
    \/ /\ i \notin InPlace /\ i \notin InPlace' /\ (i \in Active' <=> i \in Active) \* Fails
       /\ OutcomeOf(i) = "open" /\ OutcomeOf(i)' = "failed"

(* A step in which one transfer does that is a step of the promise.          *)
LEMMA PromiseStep ==
    ASSUME NEW i \in Ids, Shows(i), \A j \in Ids : j # i => View(j)' = View(j)
    PROVE  [Promise!OutcomeNext]_(Promise!transfer)
<1>1. Active \subseteq Ids /\ Active' \subseteq Ids /\ InPlace \subseteq Ids /\ InPlace' \subseteq Ids
  BY DEF Active, InPlace
<1>2. \A j \in Ids : j # i => /\ j \in Active' <=> j \in Active
                              /\ j \in InPlace' <=> j \in InPlace
                              /\ OutcomeOf(j)' = OutcomeOf(j)
  BY DEF View
<1>3. Verdicts \in [Ids -> {OutcomeOf(j) : j \in Ids}] /\ \A j \in Ids : Verdicts[j] = OutcomeOf(j)
  BY DEF Verdicts
<1>4. PICK f : f = Verdicts' /\ f = [j \in Ids |-> f[j]] /\ \A j \in Ids : f[j] = OutcomeOf(j)'
  <2>1. PICK f : f = Verdicts' /\ f = [j \in Ids |-> OutcomeOf(j)']
    BY DEF Verdicts
  <2>2. \A j \in Ids : f[j] = OutcomeOf(j)'
    BY <2>1
  <2> QED BY <2>1, <2>2
<1>5. ASSUME NEW v, OutcomeOf(i)' = v PROVE f = [Verdicts EXCEPT ![i] = v]
  <2>1. [Verdicts EXCEPT ![i] = v] = [j \in Ids |-> IF j = i THEN v ELSE OutcomeOf(j)]
    BY <1>3
  <2>2. \A j \in Ids : f[j] = IF j = i THEN v ELSE OutcomeOf(j)
    BY <1>2, <1>4, <1>5
  <2> QED BY <1>4, <2>1, <2>2
<1>6. OutcomeOf(i)' = OutcomeOf(i) => f = Verdicts
  BY <1>2, <1>3, <1>4
<1>7. CASE View(i)' = View(i)
  <2>1. (i \in Active' <=> i \in Active) /\ (i \in InPlace' <=> i \in InPlace) /\ OutcomeOf(i)' = OutcomeOf(i)
    BY <1>7 DEF View
  <2>2. Active' = Active /\ InPlace' = InPlace
    BY <1>1, <1>2, <2>1
  <2> QED BY <1>4, <1>6, <2>1, <2>2 DEF Promise!transfer, Verdicts
<1>8. CASE /\ i \notin Active /\ i \in Active' /\ OutcomeOf(i) = "open"
           /\ (i \in InPlace' <=> i \in InPlace) /\ OutcomeOf(i)' = OutcomeOf(i)
  <2>1. Active' = Active \cup {i} /\ InPlace' = InPlace /\ Verdicts[i] = "open"
    BY <1>1, <1>2, <1>3, <1>8
  <2> QED BY <1>4, <1>6, <1>8, <2>1 DEF Promise!OutcomeNext, Promise!Admit, Verdicts
<1>9. CASE /\ i \in Active /\ i \notin Active'
           /\ (i \in InPlace' <=> i \in InPlace) /\ OutcomeOf(i)' = OutcomeOf(i)
  <2>1. Active' = Active \ {i} /\ InPlace' = InPlace
    BY <1>1, <1>2, <1>9
  <2>2. Promise!Ends({i})
    BY <1>4, <1>6, <1>9, <2>1 DEF Promise!Ends, Verdicts
  <2> QED BY <2>2 DEF Promise!OutcomeNext
<1>10. CASE /\ i \in Active /\ i \in Active' /\ i \notin InPlace /\ i \in InPlace'
            /\ OutcomeOf(i) = "open" /\ OutcomeOf(i)' = "open"
  <2>1. Active' = Active /\ InPlace' = InPlace \cup {i} /\ Verdicts[i] = "open"
    BY <1>1, <1>2, <1>3, <1>10
  <2> QED BY <1>4, <1>6, <1>10, <2>1 DEF Promise!OutcomeNext, Promise!Lands, Verdicts
<1>11. CASE /\ i \in InPlace /\ i \in InPlace' /\ (i \in Active' <=> i \in Active)
            /\ OutcomeOf(i) = "open" /\ OutcomeOf(i)' = "committed"
  <2>1. Active' = Active /\ InPlace' = InPlace /\ Verdicts[i] = "open"
    BY <1>1, <1>2, <1>3, <1>11
  <2> QED BY <1>4, <1>5, <1>11, <2>1 DEF Promise!OutcomeNext, Promise!Commits, Verdicts
<1>12. CASE /\ i \notin InPlace /\ i \notin InPlace' /\ (i \in Active' <=> i \in Active)
            /\ OutcomeOf(i) = "open" /\ OutcomeOf(i)' = "failed"
  <2>1. Active' = Active /\ InPlace' = InPlace /\ Verdicts[i] = "open"
    BY <1>1, <1>2, <1>3, <1>12
  <2> QED BY <1>4, <1>5, <1>12, <2>1 DEF Promise!OutcomeNext, Promise!Fails, Verdicts
<1> QED BY <1>7, <1>8, <1>9, <1>10, <1>11, <1>12 DEF Shows

(* A transfer's file is complete: it is in place when it is there.           *)
LEMMA InPlaceOwn ==
    ASSUME NEW i \in Ids, ClaimOK(i)
    PROVE  i \in InPlace <=> \E n \in Names : FileOf(i, n)
<1>1. \A o \in Offers : o.data # Partial
  BY ReceiveConstants DEF Data
<1> QED BY <1>1 DEF ClaimOK, InPlace, FileOf

(* While a receive that has not committed runs, the outcome is open.         *)
LEMMA OpenWhileRunning ==
    ASSUME NEW i \in Ids, OnceOK(i), ClaimOK(i), run[i].pc \notin {"idle", "clean"}, ~run[i].committed
    PROVE  OutcomeOf(i) = "open"
BY DEF OnceOK, ClaimOK, OutcomeOf

(* A receive that claimed no name has no file.                               *)
LEMMA NothingClaimed ==
    ASSUME IndInv, NEW i \in Ids, OnceOK(i), run[i].pc # "idle", ~run[i].mayExist
    PROVE  \A n : ~FileOf(i, n)
BY DEF IndInv, RunOK, FileOK, OnceOK, FileOf

(* The step of one transfer is not seen in another.                          *)
LEMMA FrameView ==
    ASSUME NEW i \in Ids, Frame(i), NEW j \in Ids, j # i, ClaimOK(j), ClaimOK(j)'
    PROVE  View(j)' = View(j)
<1>1. run'[j] = run[j] /\ rec'[j] = rec[j]
  BY DEF Frame
<1>2. \A n \in Names : FileOf(j, n)' <=> FileOf(j, n)
  BY DEF Frame, FileOf
<1>3. j \in InPlace' <=> \E n \in Names : FileOf(j, n)'
  <2>1. \A o \in Offers : o.data # Partial
    BY ReceiveConstants DEF Data
  <2> QED BY <2>1 DEF ClaimOK, InPlace, FileOf
<1>4. (j \in Active' <=> j \in Active) /\ (j \in InPlace' <=> j \in InPlace)
  BY <1>1, <1>2, <1>3, InPlaceOwn DEF Active
<1>5. OutcomeOf(j)' = OutcomeOf(j)
  BY <1>1 DEF OutcomeOf
<1> QED BY <1>4, <1>5 DEF View

(* A step of the receive of i before its end, by what it does to the record. *)
LEMMA RunningShows ==
    ASSUME NEW i \in Ids, i \in Active, i \in Active', file' = file,
           \/ OutcomeOf(i)' = OutcomeOf(i)
           \/ OutcomeOf(i) = "open" /\ OutcomeOf(i)' = "committed" /\ i \in InPlace
           \/ OutcomeOf(i) = "open" /\ OutcomeOf(i)' = "failed" /\ i \notin InPlace
    PROVE  Shows(i)
<1>1. i \in InPlace' <=> i \in InPlace
  BY DEF InPlace
<1> QED BY <1>1 DEF Shows, View

(* Saving, claiming, committing, failing and ending, as the promise has it.  *)
LEMMA ReceiveShows ==
    ASSUME Inv, Inv', Fs = "link", NEW i \in Ids, Receive(i)
    PROVE  Shows(i)
<1>0. /\ TypeOK /\ RunOK(i) /\ OnceOK(i) /\ PartsOK(i) /\ ClaimOK(i) /\ run[i] \in RunType
      /\ run[i].pc # "idle" /\ IndInv /\ i \in Active
  BY ReceiveFrame DEF Inv, IndInv, OnceInv, PartsInv, ClaimInv, TypeOK, Active
<1>a. ASSUME run'[i].pc # "idle" PROVE i \in Active'
  BY <1>a DEF Active
<1>b. ASSUME rec' = rec PROVE OutcomeOf(i)' = OutcomeOf(i)
  BY <1>b DEF OutcomeOf
<1>s. ASSUME NEW s \in {"PREPARING", "READY", "TRANSFERRING", "COMMITTING"}, NEW p,
             <<run[i].pc, s, p>> \in {<<"begin", "PREPARING", "connect">>, <<"connect", "READY", "ready">>,
                                      <<"ready", "TRANSFERRING", "open">>, <<"name", "COMMITTING", "link">>},
             SaveThen(i, Record(i, s), p)
      PROVE  Shows(i)
  <2>1. s \in RecordStates /\ s \notin Committed \cup Failed /\ p # "idle"
    BY <1>s DEF RecordStates, Committed, Failed
  <2>2. run'[i].pc # "idle" /\ file' = file
    BY <1>0, <1>s, <2>1 DEF SaveThen, Goto, Throw, TypeOK, RunType
  <2>3. OutcomeOf(i) = "open"
    <3>1. run[i].pc \in {"begin", "connect", "ready", "name"}
      BY <1>s
    <3>2. ~run[i].committed
      BY <1>0, <3>1 DEF RunOK
    <3> QED BY <1>0, <3>1, <3>2, OpenWhileRunning
  <2>4. rec' = rec \/ rec'[i] = Record(i, s)
    BY <1>0, <1>s DEF SaveThen, Save, SaveThrows, TypeOK
  <2>5. Record(i, s).state = s
    BY DEF Record
  <2>6. OutcomeOf(i)' = OutcomeOf(i)
    BY <2>1, <2>3, <2>4, <2>5, <1>b DEF OutcomeOf
  <2> QED BY <1>0, <1>a, <2>2, <2>6, RunningShows
<1>1. CASE SavePreparing(i) \/ SaveReady(i)
  BY <1>s, <1>1 DEF SavePreparing, SaveReady
<1>2. CASE SaveTransferring(i) \/ SaveCommitting(i)
  BY <1>s, <1>2 DEF SaveTransferring, SaveCommitting
<1>3. CASE OpenPart(i) \/ DropPart(i)
  <2>1. run'[i].pc # "idle" /\ UNCHANGED <<file, rec>>
    BY <1>0, <1>3 DEF OpenPart, DropPart, Goto, Throw, TypeOK, RunType
  <2> QED BY <1>0, <1>a, <1>b, <2>1, RunningShows
<1>4. CASE PayloadVerified(i) \/ ReceiveThrows(i)
  <2>1. run'[i].pc # "idle" /\ UNCHANGED <<file, rec>>
    BY <1>0, <1>4 DEF PayloadVerified, ReceiveThrows, TypeOK, RunType, disk
  <2> QED BY <1>0, <1>a, <1>b, <2>1, RunningShows
<1>5. CASE Link(i)
  <2>0. rec' = rec /\ run[i].pc = "link" /\ run[i].cand \in Names
    BY <1>0, <1>5, ReceiveConstants DEF Link, RunType, RunOK, Names
  <2>1. run'[i].pc # "idle" /\ rec' = rec /\ run[i].pc = "link" /\ run[i].cand \in Names
    <3>1. CASE Throw(i) \/ Goto(i, "rename") \/ AfterLink(i)
      BY <1>0, <2>0, <3>1 DEF Goto, Throw, AfterLink, TypeOK, RunType
    <3>2. CASE run' = [run EXCEPT ![i].pc = "name", ![i].cand = @ + 1]
      BY <1>0, <2>0, <3>2 DEF TypeOK, RunType
    <3> QED BY <1>5, <3>1, <3>2 DEF Link
  <2>2. CASE file' = file
    BY <1>0, <1>a, <1>b, <2>1, <2>2, RunningShows
  <2>3. CASE Claim(i, TRUE)
    <3>1. ~run[i].mayExist /\ ~run[i].committed
      BY <1>0, <2>1 DEF RunOK
    <3>2. i \notin InPlace /\ OutcomeOf(i) = "open"
      BY <1>0, <2>1, <3>1, NothingClaimed, InPlaceOwn, OpenWhileRunning
    <3>3. file'[run[i].cand] = Landed(i, TRUE)
      BY <1>0, <2>1, <2>3 DEF Claim, TypeOK
    <3>4. /\ Landed(i, TRUE) # None /\ Landed(i, TRUE).by = i
          /\ Landed(i, TRUE).data = run[i].offer.data /\ run[i].offer.data # Partial
      <4>1. run[i].att \in Nat /\ run[i].offer.data \in Data
        BY <1>0 DEF RunType, RunOK, Data
      <4> QED BY <4>1, LandedFields, ReceiveConstants
    <3>5. i \in InPlace'
      BY <2>1, <3>3, <3>4 DEF InPlace
    <3> QED BY <1>0, <1>a, <1>b, <2>1, <3>2, <3>5 DEF Shows
  <2> QED BY <1>5, <2>2, <2>3 DEF Link
<1>6. CASE SaveCommitted(i)
  <2>1. run'[i].pc # "idle" /\ file' = file /\ run[i].pc = "dropped"
    BY <1>0, <1>6 DEF SaveCommitted, Throw, TypeOK, RunType
  <2>2. run[i].mayExist /\ ~run[i].committed
    BY <1>0, <2>1 DEF RunOK, OnceOK
  <2>3. OutcomeOf(i) = "open"
    BY <1>0, <2>1, <2>2, OpenWhileRunning
  <2>4. i \in InPlace
    <3>1. FileOf(i, run[i].cand)
      BY <1>0, <2>2 DEF ClaimOK
    <3> QED BY <1>0, <3>1, InPlaceOwn DEF FileOf
  <2>5. rec' = rec \/ rec'[i] = Final(i, "DATA_COMMITTED")
    BY <1>0, <1>6 DEF SaveCommitted, Save, SaveThrows, TypeOK
  <2>6. Final(i, "DATA_COMMITTED") # None /\ Final(i, "DATA_COMMITTED").state = "DATA_COMMITTED"
    BY <1>0, OwnRecord DEF RecordStates
  <2>7. OutcomeOf(i)' = OutcomeOf(i) \/ OutcomeOf(i)' = "committed"
    BY <1>b, <2>5, <2>6 DEF OutcomeOf, Committed
  <2> QED BY <1>0, <1>a, <2>1, <2>3, <2>4, <2>7, RunningShows
<1>7. CASE SaveFailure(i)
  <2>1. run'[i].pc # "idle" /\ file' = file /\ run[i].pc = "fail"
    BY <1>0, <1>7 DEF SaveFailure, Goto, TypeOK, RunType
  <2>2. CASE rec' = rec
    BY <1>0, <1>a, <1>b, <2>1, <2>2, RunningShows
  <2>3. CASE ~run[i].committed /\ Save(i, FailureRecord(i))
    <3>1. OutcomeOf(i) = "open" /\ rec'[i] = FailureRecord(i)
      BY <1>0, <2>1, <2>3, OpenWhileRunning DEF Save, TypeOK
    <3>2. CASE run[i].mayExist
      <4>1. FailureRecord(i).state = "COMMITTING"
        BY <3>2 DEF FailureRecord, Record
      <4>2. OutcomeOf(i)' = "open"
        BY <3>1, <4>1 DEF OutcomeOf, Committed, Failed
      <4> QED BY <1>0, <1>a, <2>1, <3>1, <4>2, RunningShows
    <3>3. CASE ~run[i].mayExist
      <4>1. PICK s \in Failed : FailureRecord(i) = Final(i, s)
        BY <3>3 DEF FailureRecord, Failed
      <4>2. Final(i, s) # None /\ Final(i, s).state = s
        BY <1>0, OwnRecord DEF RecordStates, Failed
      <4>3. OutcomeOf(i)' = "failed"
        BY <3>1, <4>1, <4>2 DEF OutcomeOf, Committed, Failed
      <4>4. i \notin InPlace
        BY <1>0, <3>3, NothingClaimed, InPlaceOwn
      <4> QED BY <1>0, <1>a, <2>1, <3>1, <4>3, <4>4, RunningShows
    <3> QED BY <3>2, <3>3
  <2> QED BY <1>7, <2>2, <2>3 DEF SaveFailure, SaveThrows
<1>8. CASE WriteAck(i) \/ CleanUp(i)
  <2>1. Settle(i) /\ UNCHANGED <<file, rec>>
    BY <1>8 DEF WriteAck, CleanUp, disk
  <2>2. run'[i] = Idle /\ Idle.pc = "idle"
    BY <1>0, <2>1, IdleFields DEF Settle, TypeOK
  <2>3. i \notin Active' /\ (i \in InPlace' <=> i \in InPlace)
    BY <2>1, <2>2 DEF Active, InPlace
  <2> QED BY <1>0, <1>b, <2>1, <2>3 DEF Shows
<1>9. ~Rename(i) /\ ~CopyBegins(i) /\ ~CopyEnds(i)
  BY <1>0 DEF RunOK, Rename, CopyBegins, CopyEnds
<1> QED BY <1>1, <1>2, <1>3, <1>4, <1>5, <1>6, <1>7, <1>8, <1>9 DEF Receive

(* Nothing of the promise moves.                                             *)
LEMMA NothingShows ==
    ASSUME \A i \in Ids : run'[i].pc = "idle" <=> run[i].pc = "idle",
           \A i \in Ids : OutcomeOf(i)' = OutcomeOf(i), file' = file
    PROVE  [Promise!OutcomeNext]_(Promise!transfer)
<1>1. Active' = Active /\ InPlace' = InPlace
  BY DEF Active, InPlace
<1>2. [i \in Ids |-> OutcomeOf(i)]' = [i \in Ids |-> OutcomeOf(i)]
  OBVIOUS
<1> QED BY <1>1, <1>2 DEF Promise!transfer

(* Every step of the receiver is a step of the promise, or none.             *)
LEMMA PromiseKept ==
    ASSUME Fs = "link", AskedOnce, "verify" \notin Faults, MaxUser = 0, Inv, Inv', [Next]_vars
    PROVE  [Promise!OutcomeNext]_(Promise!transfer)
<1>0. TypeOK /\ ScanOK
  BY DEF Inv, IndInv
<1>k. \A i \in Ids : ClaimOK(i) /\ ClaimOK(i)'
  BY DEF Inv, ClaimInv
<1>1. ASSUME UNCHANGED <<run, rec, file>> PROVE [Promise!OutcomeNext]_(Promise!transfer)
  BY <1>1, NothingShows DEF OutcomeOf
<1>2. ASSUME NEW i \in Ids, Receive(i) PROVE [Promise!OutcomeNext]_(Promise!transfer)
  <2>1. Frame(i)
    BY <1>2, ReceiveFrame DEF Inv
  <2> QED BY <1>2, <1>k, <2>1, ReceiveShows, FrameView, PromiseStep
<1>3. ASSUME NEW i \in Ids, Cancel(i) PROVE [Promise!OutcomeNext]_(Promise!transfer)
  <2>1. UNCHANGED <<rec, file>> /\ \A j \in Ids : run'[j].pc = run[j].pc
    BY <1>0, <1>3 DEF Cancel, disk, TypeOK, RunType
  <2> QED BY <2>1, NothingShows DEF OutcomeOf
<1>4. ASSUME NEW i \in Ids, ResolveUri(i) PROVE [Promise!OutcomeNext]_(Promise!transfer)
  <2> DEFINE r == [rec[i] EXCEPT !.state = "COMPLETED"]
  <2>1. /\ UNCHANGED <<run, file>> /\ rec[i] \in RecordType /\ rec[i].state \in Committed
        /\ rec'[i] = r /\ \A j \in Ids : j # i => rec'[j] = rec[j]
    BY <1>0, <1>4 DEF ResolveUri, Save, TypeOK, Committed
  <2>2. r \in RecordType /\ r.state = "COMPLETED"
    BY <2>1 DEF RecordType, RecordStates
  <2> HIDE DEF r
  <2>3. \A j \in Ids : OutcomeOf(j)' = OutcomeOf(j)
    BY <2>1, <2>2, ReceiveConstants DEF OutcomeOf, Committed
  <2> QED BY <2>1, <2>3, NothingShows
<1>5. ASSUME NEW q \in Requests, Prepare(q) PROVE [Promise!OutcomeNext]_(Promise!transfer)
  <2>1. UNCHANGED <<rec, file>>
    BY <1>5 DEF Prepare, PrepareRefused, PrepareLoad, PrepareAnswered, PrepareAdmits, disk
  <2>2. CASE ~PrepareAdmits(q)
    BY <1>1, <1>5, <2>1, <2>2 DEF Prepare, PrepareRefused, PrepareLoad, PrepareAnswered
  <2>3. CASE PrepareAdmits(q)
    <3> DEFINE o == Asks[q]
               i == o.id
               r == [Idle EXCEPT !.pc = "begin", !.offer = o, !.att = tries[i] + 1]
    <3>1. o \in Offers /\ i \in Ids /\ Asked(i)
      BY <2>3 DEF Offers, Ids, Requests, Asked, PrepareAdmits
    <3>2. run' = [run EXCEPT ![i] = r] /\ i \notin Active
      BY <2>3 DEF PrepareAdmits
    <3> HIDE DEF o, i
    <3>3. tries[i] = 0 /\ rec[i] = None
      BY <3>1 DEF Inv, OnceInv, OnceOK
    <3>4. r.pc = "begin"
      <4>1. tries[i] + 1 \in Nat
        BY <3>3
      <4> QED BY <3>1, <4>1, NewRunFields
    <3> HIDE DEF r
    <3>5. run'[i].pc = "begin" /\ \A j \in Ids : j # i => run'[j] = run[j]
      BY <1>0, <3>1, <3>2, <3>4 DEF TypeOK
    <3>6. \A j \in Ids : OutcomeOf(j)' = OutcomeOf(j) /\ (j \in InPlace' <=> j \in InPlace)
      BY <2>1 DEF OutcomeOf, InPlace
    <3>7. Shows(i)
      BY <3>1, <3>2, <3>3, <3>5, <3>6 DEF Shows, Active, OutcomeOf
    <3>8. \A j \in Ids : j # i => View(j)' = View(j)
      BY <3>5, <3>6 DEF View, Active
    <3> QED BY <3>1, <3>7, <3>8, PromiseStep
  <2> QED BY <2>2, <2>3
<1>6. CASE RecoverSave
  <2>1. /\ scan.cur \in Ids /\ rec[scan.cur] # None /\ UNCHANGED <<run, file>>
        /\ rec[scan.cur].state \in Undecided
        /\ rec' = rec \/ rec' = [rec EXCEPT ![scan.cur] = Recovered(scan.cur)]
    BY <1>0, <1>6 DEF RecoverSave, Save, SaveThrows, ScanOK, TypeOK, ScanType
  <2>2. PICK i \in Ids : i = scan.cur
    BY <2>1
  <2> DEFINE r == Recovered(i)
  <2>3. CASE rec' = [rec EXCEPT ![i] = r]
    <3>1. rec[i] \in RecordType
      BY <1>0, <2>1, <2>2 DEF TypeOK
    <3>2. /\ r \in RecordType
          /\ r.state = IF scan.ok THEN "DATA_COMMITTED" ELSE "FAILED_CONFIRMED"
      <4>1. 0 \in 0..MaxNames
        BY ReceiveConstants
      <4>2. CASE scan.ok
        BY <3>1, <4>2 DEF Recovered, RecordType, RecordStates
      <4>3. CASE ~scan.ok
        BY <3>1, <4>1, <4>3 DEF Recovered, RecordType, RecordStates
      <4> QED BY <4>2, <4>3
    <3> HIDE DEF r
    <3>3. rec'[i] = r /\ \A j \in Ids : j # i => rec'[j] = rec[j]
      BY <1>0, <2>3 DEF TypeOK
    <3>4. OutcomeOf(i) = "open"
      BY <2>1, <2>2 DEF OutcomeOf, Undecided
    <3>5. OutcomeOf(i)' = IF scan.ok THEN "committed" ELSE "failed"
      BY <3>2, <3>3, ReceiveConstants DEF OutcomeOf, Committed, Failed
    <3>6. \A j \in Ids : (j \in Active' <=> j \in Active) /\ (j \in InPlace' <=> j \in InPlace)
      BY <2>1 DEF Active, InPlace
    <3>7. ASSUME scan.ok PROVE Shows(i)
      <4>1. FileOf(i, rec[i].path)
        BY <1>k, <2>2, <3>7 DEF ClaimOK
      <4>2. i \in InPlace
        BY <1>k, <4>1, InPlaceOwn DEF FileOf
      <4> QED BY <3>4, <3>5, <3>6, <3>7, <4>2 DEF Shows
    <3>8. ASSUME ~scan.ok PROVE Shows(i)
      <4>1. OnceOK(i) /\ rec[i].att = tries[i]
        BY <2>1, <2>2 DEF Inv, OnceInv, PartsInv, PartsOK
      <4>2. i # None
        BY ReceiveConstants
      <4>3. \A n \in Names : ~FileOf(i, n)
        BY <1>0, <2>2, <3>8, <4>1, <4>2 DEF ScanOK, FileOf, OnceOK
      <4>4. i \notin InPlace
        BY <1>k, <4>3, InPlaceOwn
      <4> QED BY <3>4, <3>5, <3>6, <3>8, <4>4 DEF Shows
    <3>9. \A j \in Ids : j # i => View(j)' = View(j)
      BY <3>3, <3>6 DEF View, OutcomeOf
    <3> QED BY <3>7, <3>8, <3>9, PromiseStep
  <2> QED BY <1>1, <2>1, <2>2, <2>3
<1>7. CASE Recover /\ ~RecoverSave
  BY <1>1, <1>7 DEF Recover, Start, RecoverVerify, RecoverDropPart, RecoverDone, disk
<1>8. CASE Crash
  <2>1. run' = [i \in Ids |-> Idle] /\ UNCHANGED <<rec, file>>
    BY <1>8 DEF Crash, disk
  <2>2. Active' = {} /\ InPlace' = InPlace /\ [i \in Ids |-> OutcomeOf(i)]' = [i \in Ids |-> OutcomeOf(i)]
    BY <2>1, IdleFields DEF Active, InPlace, OutcomeOf
  <2>3. Promise!Ends(Active)
    BY <2>2 DEF Promise!Ends
  <2>4. Active \in SUBSET Ids
    BY DEF Active
  <2> QED BY <2>3, <2>4 DEF Promise!OutcomeNext
<1>9. ~UserActs
  BY <1>0 DEF UserActs, UserCreates, UserDeletes, TypeOK
<1>10. CASE UNCHANGED vars
  BY <1>1, <1>10 DEF vars
<1> QED BY <1>2, <1>3, <1>4, <1>5, <1>6, <1>7, <1>8, <1>9, <1>10 DEF Next

(* The receiver keeps its promise (TransferOutcome) to a sender that gives   *)
(* every offer an id of its own: the file of a transfer lands once, while    *)
(* its receive runs, and a decided outcome is right and final.  That the     *)
(* recovery can read the candidates, and can tell them apart by content or   *)
(* by inode, and that the user leaves the directory alone, are what the      *)
(* promise rests on.                                                         *)
THEOREM ReceiveImplementsOutcome ==
    ASSUME Fs = "link", AskedOnce, "verify" \notin Faults, MaxUser = 0, Distinct \/ OneCrash
    PROVE  Spec => OutcomeImplemented
<1>1. Init => Inv
  BY TypeInit, InitHolds, OnceInit, AllSingle, ClaimInit DEF Inv
<1>2. Inv /\ [Next]_vars => Inv'
  BY TypeStep, NextKeeps, OnceStep, AllSingle, ClaimStep DEF Inv, IndInv, LoadedServing
<1>3. Init => Promise!OutcomeInit
  <2> SUFFICES ASSUME Init PROVE Promise!OutcomeInit
    OBVIOUS
  <2>1. Active = {} /\ InPlace = {} /\ [i \in Ids |-> OutcomeOf(i)] = [i \in Ids |-> "open"]
    BY IdleFields DEF Init, Active, InPlace, OutcomeOf
  <2> QED BY <2>1 DEF Promise!OutcomeInit
<1>4. Inv /\ Inv' /\ [Next]_vars => [Promise!OutcomeNext]_(Promise!transfer)
  BY PromiseKept
<1> QED BY <1>1, <1>2, <1>3, <1>4, PTL DEF Spec, OutcomeImplemented, Promise!OutcomeSpec

-----------------------------------------------------------------------------
(* A transfer by itself, on every kind of file system                       *)

(* The only prepare call: where links are refused, the rename and the copy   *)
(* replace whatever holds the name, so nothing is promised of two receives.  *)
Alone == \A p, q \in Requests : p = q

(* The records can be trusted: no save fails, and no second crash has come   *)
(* between the recovery's removal of the part and its verdict.               *)
Told == "save" \notin Faults /\ crashes <= 1

(* Name n holds what transfer i landed, unless the user has removed it.      *)
Own(i, n, d) == n \in touched \/ (file[n] # None /\ file[n].by = i /\ file[n].data = d)
MyPart(i) == [id |-> i, att |-> tries[i]]

Claiming == {"link", "rename", "copy", "copying"}

(* While the name is claimed the record names it and the part is there; what *)
(* has been claimed is the receive's own.                                    *)
RunAlone(i) ==
    /\ run[i].pc # "idle" => mode = "serving" /\ run[i].att = tries[i] /\ tries[i] # 0
    /\ run[i].pc \notin {"linked", "dropped", "ack", "fail", "clean"} =>
          ~run[i].mayExist /\ ~run[i].committed
    /\ run[i].pc \in {"linked", "dropped", "ack"} \/ run[i].committed => run[i].mayExist
    /\ run[i].pc \in {"name"} \cup Claiming => run[i].cand # 0
    /\ run[i].mayExist => run[i].cand # 0 /\ Own(i, run[i].cand, run[i].offer.data)
    /\ run[i].pc \in Claiming \cup {"linked", "dropped"} =>
          /\ rec[i] # None /\ rec[i].state = "COMMITTING" /\ ~run[i].committed
          /\ rec[i].path = run[i].cand /\ rec[i].offer = run[i].offer
    /\ run[i].pc \in {"payload", "name"} \cup Claiming => MyPart(i) \in parts
    /\ "save" \notin Faults /\ run[i].pc = "clean" /\ ~run[i].mayExist =>
          rec[i] # None /\ rec[i].state \in Failed

(* The record: once the part of an open one is gone, its file is its own.    *)
RecAlone(i) ==
    /\ Asked(i) => tries[i] = 0
    /\ tries[i] = 0 => rec[i] = None
    /\ crashes = 0 /\ mode # "serving" => rec[i] = None
    /\ rec[i] # None => rec[i].att = tries[i]
    /\ rec[i] # None /\ rec[i].state \in Committed =>
          /\ rec[i].path # 0 /\ Holds(rec[i].path, rec[i].offer.data)
          /\ Told => Own(i, rec[i].path, rec[i].offer.data)
    /\ Told /\ rec[i] # None /\ rec[i].state = "COMMITTING" =>
          /\ rec[i].path # 0
          /\ \/ MyPart(i) \in parts
             \/ Own(i, rec[i].path, rec[i].offer.data)
             \/ scan.cur = i /\ scan.pc = "save"

(* The recovery works on open records, and its verdict stays right.          *)
ScanAlone(i) ==
    /\ i \in scan.todo \/ i = scan.cur =>
          mode = "recovering" /\ rec[i] # None /\ rec[i].state \notin Committed \cup Failed
    /\ i = scan.cur /\ scan.ok =>
          /\ rec[i].path # 0 /\ Holds(rec[i].path, rec[i].offer.data)
          /\ Told => Own(i, rec[i].path, rec[i].offer.data)

AloneOK(i) == RunAlone(i) /\ RecAlone(i) /\ ScanAlone(i)

AloneInv == TypeInv /\ LoadedServing /\ \A i \in Ids : AloneOK(i)

LEMMA OneTransfer == ASSUME Alone, NEW i \in Ids, NEW j \in Ids PROVE i = j
BY DEF Alone, Ids, Offers

(* What a step of the receive leaves alone.                                  *)
Steady == UNCHANGED <<mode, tries, req, scan, env>>

(* The receive goes on, and nothing else changes.                            *)
LEMMA AloneGoesOn ==
    ASSUME NEW i \in Ids, AloneOK(i), run[i].pc # "idle", Steady, UNCHANGED <<file, rec, parts>>,
           NEW p, GoesOn(i, p), UNCHANGED <<run[i].att, run[i].offer, run[i].cand>>,
           p = run[i].pc \/ p = "fail" \/ (p \in {"rename", "copy"} /\ run[i].pc \in Claiming)
    PROVE  AloneOK(i)'
<1>1. UNCHANGED <<mode, tries, req, scan, crashes, touched>>
  BY DEF Steady, env
<1>2. run'[i].pc = p /\ (run'[i].mayExist <=> run[i].mayExist) /\ (run'[i].committed <=> run[i].committed)
  BY DEF GoesOn
<1>3. \A n, d : Own(i, n, d)' <=> Own(i, n, d)
  BY <1>1 DEF Own
<1>4. RunAlone(i)'
  BY <1>1, <1>2, <1>3 DEF AloneOK, RunAlone, Claiming, MyPart
<1>5. RecAlone(i)' /\ ScanAlone(i)'
  BY <1>1, <1>3 DEF AloneOK, RecAlone, ScanAlone, MyPart, Asked, Told, Holds
<1> QED BY <1>4, <1>5 DEF AloneOK

(* The scan is over while a receive runs.                                    *)
LEMMA AloneServing ==
    ASSUME NEW i \in Ids, AloneOK(i), run[i].pc # "idle"
    PROVE  mode = "serving" /\ i \notin scan.todo /\ i # scan.cur /\ tries[i] # 0
BY DEF AloneOK, RunAlone, ScanAlone

(* The next candidate is tried.                                              *)
LEMMA AloneNames ==
    ASSUME NEW i \in Ids, AloneOK(i), Steady, UNCHANGED <<file, rec, parts>>,
           run[i].pc \in {"payload", "link"}, run'[i].pc = "name", run'[i].cand # 0,
           run'[i].att = run[i].att, ~run'[i].mayExist, ~run'[i].committed
    PROVE  AloneOK(i)'
<1>1. UNCHANGED <<mode, tries, req, scan, crashes, touched>> /\ run[i].pc # "idle"
  BY DEF Steady, env
<1>2. \A n, d : Own(i, n, d)' <=> Own(i, n, d)
  BY <1>1 DEF Own
<1>3. RunAlone(i)'
  BY <1>1 DEF AloneOK, RunAlone, Claiming, MyPart
<1>4. RecAlone(i)' /\ ScanAlone(i)'
  BY <1>1, <1>2 DEF AloneOK, RecAlone, ScanAlone, MyPart, Asked, Told, Holds
<1> QED BY <1>3, <1>4 DEF AloneOK

(* An open record is saved, and names the candidate when the part is there.  *)
LEMMA AloneSaves ==
    ASSUME AloneInv, NEW i \in Ids,
           NEW s \in {"PREPARING", "READY", "TRANSFERRING", "COMMITTING"}, NEW p \in Phases,
           <<run[i].pc, s, p>> \in {<<"begin", "PREPARING", "connect">>, <<"connect", "READY", "ready">>,
                                    <<"ready", "TRANSFERRING", "open">>, <<"name", "COMMITTING", "link">>},
           SaveThen(i, Record(i, s), p)
    PROVE  AloneOK(i)'
<1> DEFINE r == Record(i, s)
<1>0. /\ TypeOK /\ AloneOK(i) /\ Steady /\ UNCHANGED <<file, parts>>
      /\ run[i].pc \in {"begin", "connect", "ready", "name"} /\ run[i].pc # "idle"
      /\ run[i].offer \in Offers
  BY TypeInvType DEF AloneInv, SaveThen, Steady
<1>1. /\ r \in RecordType /\ r.offer = run[i].offer /\ r.att = run[i].att /\ r.state = s
      /\ r.path = run[i].cand /\ r # None
  BY <1>0, RecordMade, ReceiveConstants DEF RecordStates
<1> HIDE DEF r
<1>2. PICK q \in {p, "fail"} : /\ Goto(i, q)
                               /\ \/ rec' = rec /\ q = "fail"
                                  \/ rec' = [rec EXCEPT ![i] = r]
  BY DEF SaveThen, Save, SaveThrows, Goto, Throw, r
<1>3. /\ q \in Phases /\ q # "idle" /\ ~run[i].mayExist /\ ~run[i].committed
  BY <1>0 DEF Phases, AloneOK, RunAlone
<1>4. GoesOn(i, q) /\ UNCHANGED <<run[i].att, run[i].offer, run[i].cand>>
  BY <1>0, <1>2, <1>3, RunFields DEF GoesOn
<1>5. CASE rec' = rec /\ q = "fail"
  BY <1>0, <1>4, <1>5, AloneGoesOn
<1>6. CASE rec' = [rec EXCEPT ![i] = r]
  <2>1. rec'[i] = r
    BY <1>0, <1>6 DEF TypeOK
  <2>2. UNCHANGED <<mode, tries, req, scan, crashes, touched>>
    BY <1>0 DEF Steady, env
  <2>3. ~run'[i].mayExist /\ ~run'[i].committed
    BY <1>3, <1>4, Zenon DEF GoesOn
  <2>4. mode = "serving" /\ i \notin scan.todo /\ i # scan.cur /\ tries[i] # 0
    BY <1>0, AloneServing
  <2>5. RunAlone(i)'
    BY <1>0, <1>1, <1>4, <2>1, <2>2, <2>3, <2>4 DEF GoesOn, AloneOK, RunAlone, Claiming, MyPart
  <2>6. r.state \notin Committed /\ (r.state = "COMMITTING" => MyPart(i) \in parts)
    BY <1>0, <1>1 DEF Committed, AloneOK, RunAlone
  <2>7. RecAlone(i)' /\ ScanAlone(i)'
    BY <1>0, <1>1, <2>1, <2>2, <2>4, <2>6 DEF AloneOK, RunAlone, RecAlone, ScanAlone, MyPart, Asked
  <2> QED BY <2>5, <2>7 DEF AloneOK
<1> QED BY <1>2, <1>5, <1>6

(* The part is opened.                                                       *)
LEMMA AloneOpens ==
    ASSUME AloneInv, NEW i \in Ids, OpenPart(i)
    PROVE  AloneOK(i)'
<1>0. /\ TypeOK /\ AloneOK(i) /\ Steady /\ UNCHANGED <<file, rec>> /\ run[i].pc = "open"
      /\ parts' = parts \cup {MyPart(i)}
  BY TypeInvType DEF AloneInv, AloneOK, RunAlone, OpenPart, Steady, PartOf, MyPart
<1>1. GoesOn(i, "payload") /\ run'[i].att = run[i].att
  BY <1>0, RunFields DEF OpenPart, GoesOn, Phases
<1>2. UNCHANGED <<mode, tries, req, scan, crashes, touched>>
  BY <1>0 DEF Steady, env
<1>3. ~run[i].mayExist /\ ~run[i].committed
  BY <1>0 DEF AloneOK, RunAlone
<1>4. ~run'[i].mayExist /\ ~run'[i].committed
  BY <1>1, <1>3, Zenon DEF GoesOn
<1>5. RunAlone(i)'
  BY <1>0, <1>1, <1>2, <1>4 DEF GoesOn, AloneOK, RunAlone, Claiming, MyPart
<1>6. RecAlone(i)' /\ ScanAlone(i)'
  BY <1>0, <1>2 DEF AloneOK, RecAlone, ScanAlone, MyPart, Asked, Told, Holds, Own
<1> QED BY <1>5, <1>6 DEF AloneOK

(* The name is the receive's own now: by link, by rename or by a whole copy. *)
LEMMA AloneClaims ==
    ASSUME AloneInv, NEW i \in Ids, run[i].pc \in Claiming, NEW l \in BOOLEAN, Claim(i, l),
           AfterLink(i), Steady, rec' = rec, parts' \subseteq parts
    PROVE  AloneOK(i)'
<1>0. TypeOK /\ AloneOK(i) /\ run[i] \in RunType /\ run[i].pc # "idle"
  BY TypeInvType DEF AloneInv, TypeOK, Claiming
<1>1. UNCHANGED <<mode, tries, req, scan, crashes, touched>>
  BY DEF Steady, env
<1>2. /\ run'[i].pc = "linked" /\ run'[i].mayExist /\ run'[i].committed = run[i].committed
      /\ UNCHANGED <<run[i].att, run[i].offer, run[i].cand>>
  BY <1>0 DEF AfterLink, RunType, TypeOK
<1>3. /\ rec[i] # None /\ rec[i].state = "COMMITTING" /\ rec[i].path = run[i].cand
      /\ rec[i].offer = run[i].offer /\ run[i].cand # 0 /\ ~run[i].committed
  BY <1>0 DEF AloneOK, RunAlone
<1>4. ~run'[i].committed
  BY <1>2, <1>3, Zenon
<1>5. Own(i, run[i].cand, run[i].offer.data)'
  <2>1. run[i].cand \in Names
    BY <1>0, <1>3, ReceiveConstants DEF RunType, Names
  <2>2. Landed(i, l) \in FileType /\ Landed(i, l).by = i /\ Landed(i, l).data = run[i].offer.data
    BY <1>0, LandedType DEF AloneInv, Landed
  <2>3. file'[run[i].cand] = Landed(i, l)
    BY <1>0, <2>1 DEF Claim, TypeOK
  <2> HIDE DEF Landed
  <2>4. file'[run[i].cand] # None
    BY <2>2, <2>3, ReceiveConstants
  <2> QED BY <1>2, <2>2, <2>3, <2>4 DEF Own
<1>6. mode = "serving" /\ i \notin scan.todo /\ i # scan.cur /\ tries[i] # 0
  BY <1>0, AloneServing
<1>7. RunAlone(i)'
  BY <1>0, <1>1, <1>2, <1>3, <1>4, <1>5, <1>6 DEF AloneOK, RunAlone, Claiming
<1>8. RecAlone(i)' /\ ScanAlone(i)'
  BY <1>0, <1>1, <1>2, <1>3, <1>5, <1>6 DEF AloneOK, RecAlone, ScanAlone, Asked, Committed
<1> QED BY <1>7, <1>8 DEF AloneOK

(* A copy that has begun or failed: the part is still there.                 *)
LEMMA AloneCopies ==
    ASSUME AloneInv, NEW i \in Ids, run[i].pc \in {"copy", "copying"}, NEW p \in {"copying", "fail"},
           Goto(i, p), Steady, UNCHANGED <<rec, parts>>
    PROVE  AloneOK(i)'
<1>0. TypeOK /\ AloneOK(i) /\ run[i].pc \in Claiming /\ run[i].pc # "idle" /\ p \in Phases
  BY TypeInvType DEF AloneInv, Claiming, Phases
<1>1. UNCHANGED <<mode, tries, req, scan, crashes, touched>>
  BY DEF Steady, env
<1>2. GoesOn(i, p) /\ UNCHANGED <<run[i].att, run[i].offer, run[i].cand>>
  BY <1>0, RunFields DEF GoesOn
<1>3. /\ rec[i] # None /\ rec[i].state = "COMMITTING" /\ MyPart(i) \in parts
      /\ ~run[i].mayExist /\ ~run[i].committed /\ rec[i].path # 0
  BY <1>0 DEF AloneOK, RunAlone, Claiming
<1>4. ~run'[i].mayExist /\ ~run'[i].committed
  BY <1>2, <1>3, Zenon DEF GoesOn
<1>5. mode = "serving" /\ i \notin scan.todo /\ i # scan.cur /\ tries[i] # 0
  BY <1>0, AloneServing
<1>6. RunAlone(i)'
  BY <1>0, <1>1, <1>2, <1>3, <1>4, <1>5 DEF GoesOn, AloneOK, RunAlone, Claiming, MyPart
<1>7. RecAlone(i)' /\ ScanAlone(i)'
  BY <1>0, <1>1, <1>3, <1>5 DEF AloneOK, RecAlone, ScanAlone, MyPart, Asked, Committed
<1> QED BY <1>6, <1>7 DEF AloneOK

(* The part is dropped when the name is the receive's own.                   *)
LEMMA AloneDrops ==
    ASSUME AloneInv, NEW i \in Ids, DropPart(i)
    PROVE  AloneOK(i)'
<1>0. /\ TypeOK /\ AloneOK(i) /\ Steady /\ UNCHANGED <<file, rec>> /\ run[i].pc = "linked"
      /\ run[i].pc # "idle"
  BY TypeInvType DEF AloneInv, DropPart, Steady
<1>1. UNCHANGED <<mode, tries, req, scan, crashes, touched>>
  BY <1>0 DEF Steady, env
<1>2. CASE Throw(i) /\ parts' = parts
  <2>1. GoesOn(i, "fail") /\ UNCHANGED <<run[i].att, run[i].offer, run[i].cand>>
    BY <1>0, <1>2, RunFields DEF Throw, Goto, GoesOn, Phases
  <2> QED BY <1>0, <1>2, <2>1, AloneGoesOn
<1>3. CASE Goto(i, "dropped")
  <2>1. GoesOn(i, "dropped") /\ UNCHANGED <<run[i].att, run[i].offer, run[i].cand>>
    BY <1>0, <1>3, RunFields DEF GoesOn, Phases
  <2>2. /\ rec[i] # None /\ rec[i].state = "COMMITTING" /\ rec[i].path = run[i].cand
        /\ rec[i].offer = run[i].offer /\ run[i].cand # 0 /\ run[i].mayExist /\ ~run[i].committed
        /\ Own(i, run[i].cand, run[i].offer.data)
    BY <1>0 DEF AloneOK, RunAlone
  <2>3. run'[i].mayExist /\ ~run'[i].committed
    BY <2>1, <2>2, Zenon DEF GoesOn
  <2>4. Own(i, run[i].cand, run[i].offer.data)'
    BY <1>0, <1>1, <2>1, <2>2 DEF Own
  <2>5. mode = "serving" /\ i \notin scan.todo /\ i # scan.cur /\ tries[i] # 0
    BY <1>0, AloneServing
  <2>6. RunAlone(i)'
    BY <1>0, <1>1, <2>1, <2>2, <2>3, <2>4, <2>5 DEF GoesOn, AloneOK, RunAlone, Claiming
  <2>7. RecAlone(i)' /\ ScanAlone(i)'
    BY <1>0, <1>1, <2>1, <2>2, <2>4, <2>5 DEF AloneOK, RecAlone, ScanAlone, Asked, Committed
  <2> QED BY <2>6, <2>7 DEF AloneOK
<1> QED BY <1>2, <1>3 DEF DropPart

(* The record of a receive near its end is replaced by r, or is not.         *)
LEMMA AloneRewrites ==
    ASSUME AloneInv, NEW i \in Ids, run[i].pc \in {"dropped", "fail"}, Steady,
           UNCHANGED <<file, parts>>, NEW r \in RecordType, rec' = rec \/ rec' = [rec EXCEPT ![i] = r],
           rec' = rec => "save" \in Faults, r.att = tries[i],
           r.state \in Failed \/ (/\ r.state \in {"COMMITTING", "DATA_COMMITTED"}
                                  /\ r.path = run[i].cand /\ r.offer = run[i].offer
                                  /\ run[i].mayExist),
           run'[i].pc \in {"ack", "fail", "clean"}, run'[i].mayExist = run[i].mayExist,
           UNCHANGED <<run[i].att, run[i].offer, run[i].cand>>,
           run'[i].pc = "ack" \/ run'[i].committed => run[i].mayExist,
           run'[i].pc = "clean" /\ ~run[i].mayExist => r.state \in Failed
    PROVE  AloneOK(i)'
<1>0. TypeOK /\ AloneOK(i) /\ run[i].pc # "idle" /\ r # None /\ rec'[i] \in {rec[i], r}
  BY TypeInvType, ReceiveConstants DEF AloneInv, TypeOK
<1>1. UNCHANGED <<mode, tries, req, scan, crashes, touched>>
  BY DEF Steady, env
<1>2. run'[i].mayExist <=> run[i].mayExist
  OBVIOUS
<1>3. run[i].mayExist => run[i].cand # 0 /\ Own(i, run[i].cand, run[i].offer.data)
  BY <1>0 DEF AloneOK, RunAlone
<1>4. mode = "serving" /\ i \notin scan.todo /\ i # scan.cur /\ tries[i] # 0
  BY <1>0, AloneServing
<1>5. rec' = rec \/ rec'[i] = r
  BY <1>0 DEF TypeOK
<1>6. "save" \notin Faults => rec'[i] = r
  BY <1>5
<1>7. (run[i].mayExist => run[i].cand # 0 /\ Own(i, run[i].cand, run[i].offer.data))'
  BY <1>1, <1>2, <1>3 DEF Own
<1>8. /\ run'[i].pc = "ack" \/ run'[i].committed => run'[i].mayExist
      /\ run'[i].pc = "clean" /\ ~run'[i].mayExist => r.state \in Failed
  BY <1>2
<1>9. mode' = "serving" /\ run'[i].att = tries'[i] /\ tries'[i] # 0
  BY <1>0, <1>1, <1>4 DEF AloneOK, RunAlone
<1>10. RunAlone(i)'
  BY <1>0, <1>6, <1>7, <1>8, <1>9 DEF RunAlone, Claiming
<1>11. CASE rec'[i] = rec[i]
  BY <1>0, <1>1, <1>4, <1>10, <1>11 DEF AloneOK, RecAlone, ScanAlone, MyPart, Asked, Told, Own, Holds
<1>12. CASE rec'[i] = r
  <2>1. /\ r.state \in Committed => r.path # 0 /\ Own(i, r.path, r.offer.data)
        /\ r.state = "COMMITTING" => r.path # 0 /\ Own(i, r.path, r.offer.data)
    BY <1>3 DEF Committed, Failed
  <2> QED BY <1>0, <1>1, <1>4, <1>10, <1>12, <2>1
          DEF AloneOK, RecAlone, ScanAlone, Asked, Told, Own, Holds
<1> QED BY <1>0, <1>10, <1>11, <1>12 DEF AloneOK

(* The commit is saved, or not.                                              *)
LEMMA AloneCommits ==
    ASSUME AloneInv, NEW i \in Ids, SaveCommitted(i)
    PROVE  AloneOK(i)'
<1> DEFINE r == Final(i, "DATA_COMMITTED")
<1>0. /\ TypeOK /\ AloneOK(i) /\ Steady /\ UNCHANGED <<file, parts>> /\ run[i].pc = "dropped"
      /\ run[i].pc # "idle" /\ run[i] \in RunType /\ run[i].offer \in Offers
  BY TypeInvType DEF AloneInv, TypeOK, SaveCommitted, Steady
<1>1. run[i].mayExist /\ run[i].att = tries[i]
  BY <1>0 DEF AloneOK, RunAlone
<1>2. /\ r \in RecordType /\ r.offer = run[i].offer /\ r.att = run[i].att
      /\ r.state = "DATA_COMMITTED" /\ r.path = run[i].cand
  BY <1>0, RecordMade DEF RecordStates, Failed
<1> HIDE DEF r
<1>3. CASE Throw(i) /\ rec' = rec
  <2>1. GoesOn(i, "fail") /\ UNCHANGED <<run[i].att, run[i].offer, run[i].cand>>
    BY <1>0, <1>3, RunFields DEF Throw, Goto, GoesOn, Phases
  <2> QED BY <1>0, <1>3, <2>1, AloneGoesOn
<1>4. ASSUME NEW p \in {"ack", "fail"}, run' = [run EXCEPT ![i].pc = p, ![i].committed = TRUE],
             rec' = rec \/ rec' = [rec EXCEPT ![i] = r], rec' = rec => "save" \in Faults
      PROVE  AloneOK(i)'
  <2>1. /\ run'[i].pc = p /\ run'[i].mayExist = run[i].mayExist
        /\ UNCHANGED <<run[i].att, run[i].offer, run[i].cand>>
    BY <1>0, <1>4 DEF RunType, TypeOK
  <2> QED BY <1>0, <1>1, <1>2, <1>4, <2>1, AloneRewrites
<1>5. CASE Save(i, r) /\ run' = [run EXCEPT ![i].pc = "ack", ![i].committed = TRUE]
  <2>1. rec' # rec
    <3>1. rec'[i] = r /\ rec[i].state = "COMMITTING"
      BY <1>0, <1>5 DEF Save, TypeOK, AloneOK, RunAlone
    <3> QED BY <1>2, <3>1
  <2> QED BY <1>4, <1>5, <2>1 DEF Save
<1>6. CASE SaveThrows(i, r) /\ run' = [run EXCEPT ![i].pc = "fail", ![i].committed = TRUE]
  BY <1>4, <1>6 DEF SaveThrows, Save
<1> QED BY <1>3, <1>5, <1>6 DEF SaveCommitted, r

(* The catch block.                                                          *)
LEMMA AloneFails ==
    ASSUME AloneInv, NEW i \in Ids, SaveFailure(i)
    PROVE  AloneOK(i)'
<1> DEFINE r == FailureRecord(i)
<1>0. /\ TypeOK /\ AloneOK(i) /\ Steady /\ UNCHANGED <<file, parts>> /\ run[i].pc = "fail"
      /\ run[i].pc # "idle" /\ run[i] \in RunType /\ run[i].offer \in Offers
      /\ rec \in [Ids -> RecordType \cup {None}]
  BY TypeInvType DEF AloneInv, TypeOK, SaveFailure, Steady
<1>1. run[i].att = tries[i] /\ (run[i].committed => run[i].mayExist)
  BY <1>0 DEF AloneOK, RunAlone
<1>2. /\ run'[i].pc = "clean" /\ run'[i].mayExist = run[i].mayExist
      /\ run'[i].committed = run[i].committed /\ UNCHANGED <<run[i].att, run[i].offer, run[i].cand>>
  BY <1>0, RunFields DEF SaveFailure, Phases
<1>3. /\ r \in RecordType /\ r.att = tries[i]
      /\ ~run[i].mayExist => r.state \in Failed
      /\ run[i].mayExist => r.state = "COMMITTING" /\ r.path = run[i].cand /\ r.offer = run[i].offer
  <2>1. CASE run[i].mayExist
    BY <1>0, <1>1, <2>1, RecordMade DEF FailureRecord, RecordStates
  <2>2. CASE ~run[i].mayExist
    <3>1. PICK s \in Failed : r = Final(i, s)
      BY <2>2 DEF FailureRecord, Failed
    <3>2. s \in RecordStates
      BY DEF Failed, RecordStates
    <3> QED BY <1>0, <1>1, <2>2, <3>1, <3>2, RecordMade
  <2> QED BY <2>1, <2>2
<1> HIDE DEF r
<1>4. CASE rec'[i] = r /\ rec' = [rec EXCEPT ![i] = r] /\ ~run[i].committed
  <2>1. ~run'[i].committed
    BY <1>2, <1>4, Zenon
  <2>2. UNCHANGED <<mode, tries, req, scan, crashes, touched>>
    BY <1>0 DEF Steady, env
  <2>3. CASE rec' = rec => "save" \in Faults
    BY <1>0, <1>1, <1>2, <1>3, <1>4, <2>1, <2>3, AloneRewrites
  <2>4. CASE rec' = rec /\ "save" \notin Faults
    <3>1. rec[i] = r /\ r # None
      BY <1>3, <1>4, <2>4, ReceiveConstants
    <3>2. \A n, d : Own(i, n, d)' <=> Own(i, n, d)
      BY <1>0, <2>2 DEF Own
    <3>3. (run'[i].mayExist <=> run[i].mayExist) /\ ~run'[i].committed
      BY <1>2, <2>1
    <3>4. RunAlone(i)'
      BY <1>0, <1>2, <1>3, <2>2, <2>4, <3>1, <3>2, <3>3 DEF AloneOK, RunAlone, Claiming
    <3>5. RecAlone(i)' /\ ScanAlone(i)'
      BY <1>0, <2>2, <2>4, <3>2 DEF AloneOK, RecAlone, ScanAlone, MyPart, Asked, Told, Holds
    <3> QED BY <3>4, <3>5 DEF AloneOK
  <2> QED BY <2>3, <2>4
<1>5. CASE rec' = rec /\ "save" \in Faults
  BY <1>0, <1>1, <1>2, <1>3, <1>5, AloneRewrites
<1>6. CASE rec' = rec /\ run[i].committed
  <2>1. UNCHANGED <<mode, tries, req, scan, crashes, touched>>
    BY <1>0 DEF Steady, env
  <2>2. \A n, d : Own(i, n, d)' <=> Own(i, n, d)
    BY <1>0, <2>1 DEF Own
  <2>3. run'[i].mayExist /\ run[i].mayExist
    BY <1>1, <1>2, <1>6, Zenon
  <2>4. RunAlone(i)'
    BY <1>0, <1>2, <2>1, <2>2, <2>3 DEF AloneOK, RunAlone, Claiming
  <2>5. RecAlone(i)' /\ ScanAlone(i)'
    BY <1>0, <1>6, <2>1, <2>2 DEF AloneOK, RecAlone, ScanAlone, MyPart, Asked, Told, Holds
  <2> QED BY <2>4, <2>5 DEF AloneOK
<1> QED BY <1>0, <1>4, <1>5, <1>6 DEF SaveFailure, Save, SaveThrows, r

(* The end.  A part is removed only when nothing may have been claimed, and  *)
(* the record then says that it failed, unless it could not be saved.        *)
LEMMA AloneSettles ==
    ASSUME AloneInv, NEW i \in Ids, WriteAck(i) \/ CleanUp(i)
    PROVE  AloneOK(i)'
<1>0. /\ TypeOK /\ AloneOK(i) /\ Steady /\ UNCHANGED <<file, rec>> /\ run[i].pc \in {"ack", "clean"}
      /\ run[i].pc # "idle" /\ Settle(i)
  BY TypeInvType DEF AloneInv, WriteAck, CleanUp, Steady, disk
<1>1. UNCHANGED <<mode, tries, req, scan, crashes, touched>>
  BY <1>0 DEF Steady, env
<1>2. run'[i] = Idle
  BY <1>0 DEF Settle, TypeOK
<1>3. run'[i].pc = "idle" /\ ~run'[i].mayExist /\ ~run'[i].committed
  BY <1>2, IdleFields, Zenon
<1>4. RunAlone(i)'
  BY <1>3 DEF RunAlone, Claiming
<1>5. \A n, d : Own(i, n, d)' <=> Own(i, n, d)
  BY <1>0, <1>1 DEF Own
<1>6. parts' = parts \/ (Told => rec[i] # None /\ rec[i].state \in Failed)
  BY <1>0 DEF WriteAck, CleanUp, disk, AloneOK, RunAlone, Told
<1>7. RecAlone(i)' /\ ScanAlone(i)'
  BY <1>0, <1>1, <1>5, <1>6 DEF AloneOK, RecAlone, ScanAlone, MyPart, Asked, Told, Holds, Failed
<1> QED BY <1>4, <1>7 DEF AloneOK

(* The steps of the receive.                                                 *)
LEMMA AloneReceives ==
    ASSUME AloneInv, NEW i \in Ids, Receive(i)
    PROVE  AloneOK(i)'
<1>0. TypeOK /\ AloneOK(i) /\ run[i] \in RunType
  BY TypeInvType DEF AloneInv, TypeOK
<1>1. CASE SavePreparing(i)
  BY <1>1, AloneSaves DEF SavePreparing, Phases
<1>2. CASE SaveReady(i)
  BY <1>2, AloneSaves DEF SaveReady, Phases
<1>3. CASE SaveTransferring(i)
  BY <1>3, AloneSaves DEF SaveTransferring, Phases
<1>4. CASE SaveCommitting(i)
  BY <1>4, AloneSaves DEF SaveCommitting, Phases
<1>5. CASE PayloadVerified(i)
  <2>1. run'[i].pc = "name" /\ run'[i].cand # 0 /\ run'[i].att = run[i].att
        /\ run'[i].mayExist = run[i].mayExist /\ run'[i].committed = run[i].committed
    BY <1>0, <1>5 DEF PayloadVerified, TypeOK, RunType
  <2>2. run[i].pc = "payload" /\ ~run[i].mayExist /\ ~run[i].committed
    BY <1>0, <1>5 DEF PayloadVerified, AloneOK, RunAlone
  <2>3. ~run'[i].mayExist /\ ~run'[i].committed
    BY <2>1, <2>2, Zenon
  <2> QED BY <1>0, <1>5, <2>1, <2>2, <2>3, AloneNames DEF PayloadVerified, Steady, disk
<1>6. CASE ReceiveThrows(i)
  <2>1. GoesOn(i, "fail") /\ UNCHANGED <<run[i].att, run[i].offer, run[i].cand>>
    BY <1>0, <1>6 DEF ReceiveThrows, GoesOn, RunType, TypeOK
  <2> QED BY <1>0, <1>6, <2>1, AloneGoesOn DEF ReceiveThrows, Steady, disk
<1>t. ASSUME NEW p \in {"fail", "rename", "copy"}, Goto(i, p), Steady, UNCHANGED <<file, rec, parts>>,
             run[i].pc \in Claiming
      PROVE  AloneOK(i)'
  <2>1. GoesOn(i, p) /\ UNCHANGED <<run[i].att, run[i].offer, run[i].cand>> /\ run[i].pc # "idle"
    BY <1>0, <1>t, RunFields DEF GoesOn, Phases, Claiming
  <2> QED BY <1>0, <1>t, <2>1, AloneGoesOn
<1>7. CASE Link(i)
  <2>0. run[i].pc = "link" /\ run[i].pc \in Claiming /\ Steady /\ UNCHANGED <<rec, parts>>
    BY <1>7 DEF Link, Claiming, Steady
  <2>1. CASE (Throw(i) \/ Goto(i, "rename")) /\ file' = file
    BY <1>t, <2>0, <2>1 DEF Throw, Goto
  <2>2. CASE file' = file /\ run[i].cand # MaxNames /\ run' = [run EXCEPT ![i].pc = "name", ![i].cand = @ + 1]
    <3>1. /\ run'[i].pc = "name" /\ run'[i].cand = run[i].cand + 1 /\ run'[i].att = run[i].att
          /\ run'[i].mayExist = run[i].mayExist /\ run'[i].committed = run[i].committed
      BY <1>0, <2>2 DEF TypeOK, RunType
    <3>2. ~run[i].mayExist /\ ~run[i].committed /\ run[i].cand \in Nat
      BY <1>0, <2>0, ReceiveConstants DEF AloneOK, RunAlone, RunType
    <3>3. ~run'[i].mayExist /\ ~run'[i].committed
      BY <3>1, <3>2, Zenon
    <3>4. run'[i].cand # 0
      BY <3>1, <3>2
    <3> QED BY <1>0, <2>0, <2>2, <3>1, <3>3, <3>4, AloneNames
  <2>3. CASE Claim(i, TRUE) /\ AfterLink(i)
    BY <2>0, <2>3, AloneClaims
  <2> QED BY <1>7, <2>1, <2>2, <2>3 DEF Link
<1>8. CASE Rename(i)
  <2>0. run[i].pc \in Claiming /\ Steady /\ rec' = rec
    BY <1>8 DEF Rename, Claiming, Steady
  <2>1. CASE Claim(i, TRUE) /\ AfterLink(i) /\ parts' \subseteq parts
    BY <2>0, <2>1, AloneClaims
  <2>2. CASE Goto(i, "copy") /\ UNCHANGED <<file, parts>>
    BY <1>t, <2>0, <2>2
  <2> QED BY <1>8, <2>1, <2>2 DEF Rename
<1>9. CASE CopyBegins(i)
  BY <1>9, AloneCopies DEF CopyBegins, Steady
<1>10. CASE CopyEnds(i)
  <2>0. run[i].pc = "copying" /\ run[i].pc \in Claiming /\ Steady /\ UNCHANGED <<rec, parts>>
    BY <1>10 DEF CopyEnds, Claiming, Steady
  <2>1. CASE Claim(i, FALSE) /\ AfterLink(i)
    BY <2>0, <2>1, AloneClaims
  <2>2. CASE Throw(i)
    BY <2>0, <2>2, AloneCopies DEF Throw, Goto
  <2> QED BY <1>10, <2>1, <2>2 DEF CopyEnds
<1> QED BY <1>1, <1>2, <1>3, <1>4, <1>5, <1>6, <1>7, <1>8, <1>9, <1>10, AloneOpens, AloneDrops,
           AloneCommits, AloneFails, AloneSettles DEF Receive

(* Nothing about i changes but the cancellation.                             *)
LEMMA AloneStays ==
    ASSUME NEW i \in Ids, AloneOK(i), UNCHANGED <<mode, file, parts, rec, tries, run, scan, env>>,
           Asked(i)' => Asked(i)
    PROVE  AloneOK(i)'
BY DEF AloneOK, RunAlone, RecAlone, ScanAlone, MyPart, Told, Own, Holds, env

LEMMA AlonePrepares ==
    ASSUME Alone, AloneInv, NEW q \in Requests, Prepare(q), NEW i \in Ids
    PROVE  AloneOK(i)'
<1>0. TypeOK /\ AloneOK(i) /\ Asks[q].id = i /\ \A p \in Requests : p = q
  BY TypeInvType, OneTransfer DEF AloneInv, Alone, Ids, Offers, Requests
<1>1. UNCHANGED <<mode, file, parts, rec, scan, env>> /\ req[q].pc # "answered"
  BY DEF Prepare, PrepareRefused, PrepareLoad, PrepareAnswered, PrepareAdmits, disk
<1>2. Asked(i)
  BY <1>0, <1>1 DEF Asked
<1>3. CASE ~PrepareAdmits(q)
  <2>1. UNCHANGED <<tries, run>>
    BY <1>3 DEF Prepare, PrepareRefused, PrepareLoad, PrepareAnswered, disk
  <2> QED BY <1>0, <1>1, <1>2, <2>1, AloneStays
<1>4. CASE PrepareAdmits(q)
  <2> DEFINE o == Asks[q]
             r == [Idle EXCEPT !.pc = "begin", !.offer = o, !.att = tries[i] + 1]
  <2>1. o \in Offers /\ tries[i] = 0 /\ rec[i] = None /\ mode = "serving"
    <3>1. mode = "serving"
      BY <1>4 DEF PrepareAdmits, AloneInv, LoadedServing
    <3> QED BY <1>0, <1>2, <3>1 DEF AloneOK, RecAlone, Offers, Requests
  <2>2. /\ run' = [run EXCEPT ![i] = r] /\ tries' = [tries EXCEPT ![i] = @ + 1]
        /\ req' = [req EXCEPT ![q] = Answered]
    BY <1>0, <1>4 DEF PrepareAdmits
  <2> HIDE DEF o
  <2>3. r.pc = "begin" /\ r.att = tries[i] + 1 /\ ~r.mayExist /\ ~r.committed
    <3>1. tries[i] + 1 \in Nat
      BY <2>1
    <3> QED BY <2>1, <3>1, NewRunFields
  <2>4. run'[i] = r /\ tries'[i] = 1 /\ mode' = "serving"
    BY <1>0, <1>1, <2>1, <2>2 DEF TypeOK
  <2> HIDE DEF r
  <2>5. ~run'[i].mayExist /\ ~run'[i].committed
    BY <2>3, <2>4, Zenon
  <2>6. run'[i].pc = "begin" /\ run'[i].att = 1
    BY <2>1, <2>3, <2>4
  <2>7. RunAlone(i)'
    BY <2>4, <2>5, <2>6 DEF RunAlone, Claiming
  <2>8. ~Asked(i)'
    <3>1. req'[q].pc = "answered"
      BY <1>0, <2>2 DEF TypeOK, Answered
    <3> QED BY <1>0, <3>1 DEF Asked
  <2>9. RecAlone(i)' /\ ScanAlone(i)'
    BY <1>0, <1>1, <2>1, <2>4, <2>8 DEF AloneOK, RecAlone, ScanAlone
  <2> QED BY <2>7, <2>9 DEF AloneOK
<1> QED BY <1>3, <1>4

(* A cancellation, and the notification of a committed file.                 *)
LEMMA AloneCancels ==
    ASSUME AloneInv, NEW i \in Ids, Cancel(i) \/ ResolveUri(i)
    PROVE  AloneOK(i)'
<1>0. TypeOK /\ AloneOK(i) /\ run[i] \in RunType
  BY TypeInvType DEF AloneInv, TypeOK
<1>1. CASE Cancel(i)
  <2>1. /\ GoesOn(i, run[i].pc) /\ UNCHANGED <<run[i].att, run[i].offer, run[i].cand>>
        /\ run[i].pc # "idle"
    BY <1>0, <1>1 DEF Cancel, Active, GoesOn, RunType, TypeOK
  <2> QED BY <1>0, <1>1, <2>1, AloneGoesOn DEF Cancel, Steady, disk
<1>2. CASE ResolveUri(i)
  <2> DEFINE r == [rec[i] EXCEPT !.state = "COMPLETED"]
  <2>1. rec[i] \in RecordType /\ rec[i] # None /\ rec[i].state = "DATA_COMMITTED"
    BY <1>0, <1>2 DEF ResolveUri, TypeOK
  <2>2. /\ r \in RecordType /\ r.state = "COMPLETED" /\ r.path = rec[i].path
        /\ r.offer = rec[i].offer /\ r.att = rec[i].att
    BY <2>1 DEF RecordType, RecordStates
  <2>3. rec'[i] = r /\ UNCHANGED <<mode, file, parts, tries, run, req, scan, env>>
    BY <1>0, <1>2 DEF ResolveUri, Save, TypeOK
  <2> HIDE DEF r
  <2>4. r # None
    BY <2>2, ReceiveConstants
  <2>5. RunAlone(i)'
    BY <1>0, <2>1, <2>3 DEF AloneOK, RunAlone, Claiming, MyPart, Own, Failed, env
  <2>6. RecAlone(i)' /\ ScanAlone(i)'
    BY <1>0, <2>1, <2>2, <2>3, <2>4
       DEF AloneOK, RecAlone, ScanAlone, Asked, Told, Own, Holds, Committed, env
  <2> QED BY <2>5, <2>6 DEF AloneOK
<1> QED BY <1>1, <1>2

LEMMA AloneCrashes ==
    ASSUME AloneInv, Crash, NEW i \in Ids
    PROVE  AloneOK(i)'
<1>0. /\ TypeOK /\ AloneOK(i) /\ UNCHANGED <<file, parts, rec, tries, touched>>
      /\ crashes' = crashes + 1 /\ mode' = "down" /\ crashes \in Nat /\ None \notin Ids
  BY TypeInvType, ReceiveConstants DEF AloneInv, Crash, disk, TypeOK
<1>1. run'[i] = Idle
  BY DEF Crash
<1>2. run'[i].pc = "idle" /\ ~run'[i].mayExist /\ ~run'[i].committed
  BY <1>1, IdleFields, Zenon
<1>3. scan'.todo = {} /\ scan'.cur = None
  BY DEF Crash, NoScan
<1>4. Asked(i)' => Asked(i)
  BY DEF Crash, Asked, Answered
<1>5. RunAlone(i)'
  BY <1>2 DEF RunAlone, Claiming
<1>6. Told' => Told /\ crashes = 0
  BY <1>0 DEF Told
<1>7. RecAlone(i)'
  <2>1. scan.cur = i => crashes # 0
    BY <1>0 DEF AloneOK, ScanAlone, RecAlone
  <2> QED BY <1>0, <1>4, <1>6, <2>1 DEF AloneOK, RecAlone, MyPart, Own, Holds
<1>8. ScanAlone(i)'
  BY <1>0, <1>3 DEF ScanAlone
<1> QED BY <1>5, <1>7, <1>8 DEF AloneOK

(* The recovery: a candidate passes when the part is the same inode, or is   *)
(* gone, and then the candidate is the receive's own.                        *)
LEMMA AloneRecovers ==
    ASSUME AloneInv, Recover, NEW i \in Ids
    PROVE  AloneOK(i)'
<1>0. /\ TypeOK /\ AloneOK(i) /\ scan \in ScanType /\ None \notin Ids
      /\ rec[i] # None => rec[i] \in RecordType
  BY TypeInvType, ReceiveConstants DEF AloneInv, TypeOK
<1>1. UNCHANGED <<file, tries, run, req, env>> /\ mode # "serving"
  BY DEF Recover, Start, RecoverVerify, RecoverDropPart, RecoverSave, RecoverDone, disk
<1>2. UNCHANGED <<crashes, touched>> /\ run[i].pc = "idle"
  BY <1>0, <1>1 DEF env, AloneOK, RunAlone
<1>3. RunAlone(i)'
  <2>1. ~run[i].mayExist /\ ~run[i].committed
    BY <1>0, <1>2 DEF AloneOK, RunAlone
  <2> QED BY <1>1, <1>2, <2>1 DEF RunAlone, Claiming
<1> SUFFICES RecAlone(i)' /\ ScanAlone(i)'
  BY <1>3 DEF AloneOK
<1>4. CASE Start
  <2>1. /\ i \in scan'.todo => rec[i] # None /\ rec[i].state \notin Committed \cup Failed
        /\ scan'.cur = None /\ scan.cur # i /\ mode' = "recovering" /\ UNCHANGED <<rec, parts>>
    BY <1>0, <1>4 DEF Start, NoScan, AloneOK, ScanAlone, disk
  <2> QED BY <1>0, <1>1, <1>2, <2>1
          DEF AloneOK, RecAlone, ScanAlone, MyPart, Asked, Told, Own, Holds
<1>5. ASSUME NEW j \in Ids, RecoverVerify(j) PROVE RecAlone(i)' /\ ScanAlone(i)'
  <2>1. /\ scan.cur = None /\ UNCHANGED <<mode, rec, parts>> /\ scan'.todo = scan.todo
        /\ scan'.cur = j /\ j \in scan.todo
        /\ scan'.ok => rec[j].state = "COMMITTING" /\ Owns(j)
    BY <1>0, <1>5 DEF RecoverVerify, disk, ScanType
  <2>2. RecAlone(i)'
    BY <1>0, <1>1, <1>2, <2>1 DEF AloneOK, RecAlone, MyPart, Asked, Told, Own, Holds
  <2>3. i = j /\ scan'.ok => /\ rec[i].path # 0 /\ Holds(rec[i].path, rec[i].offer.data)
                             /\ Told => Own(i, rec[i].path, rec[i].offer.data)
    BY <1>0, <2>1 DEF Owns, AloneOK, RecAlone, ScanAlone, MyPart, Own, Holds
  <2>4. ScanAlone(i)'
    BY <1>0, <1>1, <1>2, <2>1, <2>3 DEF AloneOK, ScanAlone, Told, Own, Holds
  <2> QED BY <2>2, <2>4
<1>6. CASE RecoverDropPart
  <2>1. /\ scan'.pc = "save" /\ scan'.cur = scan.cur /\ scan'.todo = scan.todo
        /\ scan'.ok = scan.ok /\ scan.cur # None /\ UNCHANGED <<mode, rec>>
        /\ parts' = parts \/ parts' = parts \ {[id |-> scan.cur, att |-> rec[scan.cur].att]}
    BY <1>0, <1>6 DEF RecoverDropPart, ScanType
  <2>2. scan.cur # i => (MyPart(i) \in parts' <=> MyPart(i) \in parts)
    BY <2>1 DEF MyPart
  <2>3. RecAlone(i)'
    BY <1>0, <1>1, <1>2, <2>1, <2>2 DEF AloneOK, RecAlone, MyPart, Asked, Told, Own, Holds
  <2>4. scan'.ok <=> scan.ok
    BY <2>1
  <2>5. ScanAlone(i)'
    BY <1>0, <1>1, <1>2, <2>1, <2>4 DEF AloneOK, ScanAlone, Told, Own, Holds
  <2> QED BY <2>3, <2>5
<1>7. CASE RecoverSave
  <2>1. /\ scan'.cur = None /\ scan'.todo \subseteq scan.todo /\ scan.cur \notin scan'.todo
        /\ scan.cur \in Ids /\ parts' = parts
        /\ scan'.todo # {} => mode' = mode
        /\ mode' # "serving"
    BY <1>0, <1>1, <1>7 DEF RecoverSave, NoScan, ScanType
  <2>2. CASE rec'[i] = rec[i] /\ (i = scan.cur => "save" \in Faults)
    BY <1>0, <1>1, <1>2, <2>1, <2>2 DEF AloneOK, RecAlone, ScanAlone, MyPart, Asked, Told, Own, Holds
  <2>3. CASE i = scan.cur /\ rec'[i] = Recovered(i)
    <3> DEFINE r == Recovered(i)
    <3>1. rec[i] # None /\ rec[i] \in RecordType
      BY <1>0, <2>3 DEF AloneOK, ScanAlone
    <3>2. r \in RecordType /\ r.att = rec[i].att
      <4>1. 0 \in 0..MaxNames
        BY ReceiveConstants
      <4> QED BY <3>1, <4>1 DEF Recovered, RecordType, RecordStates
    <3>3. CASE scan.ok
      <4>1. /\ r.state = "DATA_COMMITTED" /\ r.path = rec[i].path /\ r.offer = rec[i].offer
        BY <3>1, <3>3 DEF Recovered, RecordType
      <4>2. /\ rec[i].path # 0 /\ Holds(rec[i].path, rec[i].offer.data)
            /\ Told => Own(i, rec[i].path, rec[i].offer.data)
        BY <1>0, <2>3, <3>3 DEF AloneOK, ScanAlone
      <4> HIDE DEF r
      <4>3. r # None
        BY <3>2, ReceiveConstants
      <4>4. rec'[i] = r
        BY <2>3 DEF r
      <4> QED BY <1>0, <1>1, <1>2, <2>1, <2>3, <3>1, <3>2, <4>1, <4>2, <4>3, <4>4
              DEF AloneOK, RecAlone, ScanAlone, Asked, Told, Own, Holds
    <3>4. CASE ~scan.ok
      <4>1. r.state = "FAILED_CONFIRMED"
        BY <3>1, <3>4 DEF Recovered, RecordType
      <4> HIDE DEF r
      <4>2. rec'[i] = r
        BY <2>3 DEF r
      <4> QED BY <1>0, <1>1, <1>2, <2>1, <2>3, <3>1, <3>2, <4>1, <4>2
              DEF AloneOK, RecAlone, ScanAlone, Asked, Committed
    <3> QED BY <3>3, <3>4
  <2>4. rec' = [rec EXCEPT ![scan.cur] = Recovered(scan.cur)] \/ (rec' = rec /\ "save" \in Faults)
    BY <1>7 DEF RecoverSave, Save, SaveThrows
  <2> QED BY <1>0, <2>1, <2>2, <2>3, <2>4 DEF TypeOK
<1>8. CASE RecoverDone
  <2>1. scan.todo = {} /\ scan.cur = None /\ UNCHANGED <<rec, parts, scan>> /\ mode' = "serving"
    BY <1>8 DEF RecoverDone, disk
  <2> QED BY <1>0, <1>1, <1>2, <2>1
          DEF AloneOK, RecAlone, ScanAlone, MyPart, Asked, Told, Own, Holds
<1> QED BY <1>4, <1>5, <1>6, <1>7, <1>8 DEF Recover

(* What the user takes away is known to be taken away.                       *)
LEMMA AloneUser ==
    ASSUME AloneInv, UserActs, NEW i \in Ids
    PROVE  AloneOK(i)'
<1>0. TypeOK /\ AloneOK(i)
  BY TypeInvType DEF AloneInv
<1>1. UNCHANGED <<mode, parts, rec, tries, run, req, scan, crashes>>
  BY DEF UserActs, UserCreates, UserDeletes
<1>2. touched \subseteq touched' /\ \A n \in Names : file[n] # None => file'[n] = file[n] \/ n \in touched'
  BY <1>0 DEF UserActs, UserCreates, UserDeletes, TypeOK
<1> DEFINE Still(n, d) == n \in touched' \/ (file'[n] # None /\ file'[n].data = d)
           Mine(n, d) == n \in touched' \/ (file'[n] # None /\ file'[n].by = i /\ file'[n].data = d)
<1>3. \A n \in Names : \A d : (Own(i, n, d) => Mine(n, d)) /\ (Holds(n, d) => Still(n, d))
  BY <1>2 DEF Own, Holds
<1>4. (Told' <=> Told) /\ (Asked(i)' <=> Asked(i)) /\ MyPart(i)' = MyPart(i)
  BY <1>1 DEF Told, Asked, MyPart
<1>5. /\ run[i].cand # 0 => run[i].cand \in Names
      /\ rec[i] # None /\ rec[i].path # 0 => rec[i].path \in Names
  BY <1>0, ReceiveConstants DEF TypeOK, RunType, RecordType, Names
<1>6. RunAlone(i)'
  <2>1. run[i].mayExist => run[i].cand # 0 /\ Mine(run[i].cand, run[i].offer.data)
    BY <1>0, <1>3, <1>5 DEF AloneOK, RunAlone
  <2>2. run[i].mayExist => run[i].cand # 0 /\ Own(i, run[i].cand, run[i].offer.data)'
    BY <1>1, <2>1 DEF Own
  <2> QED BY <1>0, <1>1, <1>4, <2>2 DEF AloneOK, RunAlone, Claiming
<1>7. RecAlone(i)' /\ ScanAlone(i)'
  <2> DEFINE n == rec[i].path
             d == rec[i].offer.data
  <2>1. rec[i] # None /\ n # 0 => (Own(i, n, d) => Mine(n, d)) /\ (Holds(n, d) => Still(n, d))
    BY <1>3, <1>5
  <2> HIDE DEF n, d
  <2>2. UNCHANGED <<n, d>>
    BY <1>1 DEF n, d
  <2>3. rec[i] # None /\ n # 0 => (Own(i, n, d) => Own(i, n, d)') /\ (Holds(n, d) => Holds(n, d)')
    BY <1>1, <2>1, <2>2 DEF Own, Holds
  <2>4. RecAlone(i)'
    <3>1. CASE rec[i] = None
      BY <1>0, <1>1, <1>4, <3>1 DEF AloneOK, RecAlone
    <3>2. CASE rec[i] # None /\ n = 0
      BY <1>0, <1>1, <1>4, <2>2, <3>2 DEF AloneOK, RecAlone, n, d
    <3>3. CASE rec[i] # None /\ n # 0
      BY <1>0, <1>1, <1>4, <2>2, <2>3, <3>3 DEF AloneOK, RecAlone, n, d
    <3> QED BY <3>1, <3>2, <3>3
  <2>5. ScanAlone(i)'
    BY <1>0, <1>1, <1>4, <2>2, <2>3 DEF AloneOK, ScanAlone, Own, Holds, n, d
  <2> QED BY <2>4, <2>5
<1> QED BY <1>6, <1>7 DEF AloneOK

LEMMA AloneStep ==
    ASSUME Alone, AloneInv, [Next]_vars
    PROVE  AloneInv'
<1>1. TypeInv' /\ LoadedServing'
  BY TypeStep, TypeInvType, LoadedStays DEF AloneInv
<1> SUFFICES ASSUME NEW i \in Ids PROVE AloneOK(i)'
  BY <1>1 DEF AloneInv
<1>2. ASSUME NEW j \in Ids, Receive(j) \/ Cancel(j) \/ ResolveUri(j) PROVE AloneOK(i)'
  <2>1. i = j
    BY OneTransfer
  <2> QED BY <1>2, <2>1, AloneReceives, AloneCancels
<1>3. CASE UNCHANGED vars
  <2>1. UNCHANGED <<mode, file, parts, rec, tries, run, scan, env>> /\ req' = req
    BY <1>3 DEF vars, env
  <2>2. AloneOK(i) /\ (Asked(i)' => Asked(i))
    BY <2>1 DEF Asked, AloneInv
  <2> QED BY <2>1, <2>2, AloneStays
<1> QED BY <1>2, <1>3, AlonePrepares, AloneRecovers, AloneCrashes, AloneUser DEF Next

LEMMA AloneInit == ASSUME Init PROVE AloneInv
<1>1. TypeInv /\ LoadedServing
  BY TypeInit DEF Init, LoadedServing
<1> SUFFICES ASSUME NEW i \in Ids PROVE AloneOK(i)
  BY <1>1 DEF AloneInv
<1>2. run[i] = Idle /\ rec[i] = None /\ tries[i] = 0 /\ scan.todo = {} /\ scan.cur = None
  BY DEF Init, NoScan
<1>3. run[i].pc = "idle" /\ ~run[i].mayExist /\ ~run[i].committed
  BY <1>2, IdleFields, Zenon
<1>4. RunAlone(i)
  BY <1>3 DEF RunAlone, Claiming
<1>5. RecAlone(i) /\ ScanAlone(i)
  BY <1>2, ReceiveConstants DEF RecAlone, ScanAlone
<1> QED BY <1>4, <1>5 DEF AloneOK

(* A committed record of a transfer by itself names a complete file with the *)
(* offered content wherever links are refused: commitPartNoClobber's rename  *)
(* and copy, and the recovery of a copy that was cut off, report no partial  *)
(* file.                                                                     *)
THEOREM ReceiveFallbackCommitted ==
    ASSUME Alone
    PROVE  Spec => []CommittedSound
<1>1. AloneInv => CommittedSound
  BY DEF AloneInv, AloneOK, RecAlone, CommittedSound, Holds
<1> QED BY <1>1, AloneInit, AloneStep, PTL DEF Spec

(* And the file is the transfer's own, up to the first crash of a recovery,  *)
(* when no save fails.                                                       *)
THEOREM ReceiveFallbackSound ==
    ASSUME Alone, "save" \notin Faults
    PROVE  Spec => []FallbackSound
<1>1. AloneInv => FallbackSound
  <2> SUFFICES ASSUME AloneInv PROVE FallbackSound
    OBVIOUS
  <2>1. CommittedSound
    BY DEF AloneInv, AloneOK, RecAlone, CommittedSound, Holds
  <2>2. crashes > 1 \/ Told
    BY TypeInvType DEF AloneInv, TypeOK, Told
  <2> QED BY <2>1, <2>2 DEF AloneInv, AloneOK, RecAlone, FallbackSound, CommitOwned, Own
<1> QED BY <1>1, AloneInit, AloneStep, PTL DEF Spec
=============================================================================
