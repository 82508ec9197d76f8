------------------------- MODULE FileReceiveProofs -------------------------
(***************************************************************************)
(* Proofs about the receiving side on a file system with hard links, for   *)
(* any set of prepare calls, limits, I/O faults, crashes and interference  *)
(* by the user; and about its admission counters and its type on any file  *)
(* system.                                                                 *)
(***************************************************************************)
EXTENDS FileReceive, ReservedBytes, TLAPS

Undecided == RecordStates \ (Committed \cup Failed)

(* Name n holds the content d, unless the user has removed a file there.     *)
Holds(n, d) == n \in touched \/ (file[n] # None /\ file[n].data = d)

(* Record r is the one attempt r.att wrote before it claimed the name n for  *)
(* the content d, or a later one that still names it.                        *)
NamesFile(r, n, d) ==
    r.state \in {"COMMITTING"} \cup Committed /\ r.path = n /\ r.offer.data = d

(* A running receive: its attempt is the newest of its id, it has claimed    *)
(* its name exactly when mayExist says so, and from the first save on the    *)
(* record on disk is its own.                                                *)
RunOK(i) ==
    /\ run[i].pc # "idle" =>
          /\ mode = "serving"
          /\ run[i].offer \in Offers
          /\ run[i].att = tries[i]
    /\ run[i].pc = "idle" => run[i] = Idle
    /\ run[i].pc \in {"begin", "connect", "ready", "open", "payload", "name", "link"} =>
          ~run[i].mayExist /\ ~run[i].committed
    /\ run[i].pc \in {"name", "link"} => run[i].cand # 0
    /\ run[i].pc \in {"linked", "dropped", "ack"} => run[i].mayExist
    /\ run[i].committed => run[i].mayExist
    /\ run[i].mayExist => run[i].cand # 0 /\ Holds(run[i].cand, run[i].offer.data)
    /\ run[i].pc \notin {"rename", "copy", "copying"}
    /\ run[i].pc = "link" =>
          /\ rec[i] # None
          /\ rec[i].state = "COMMITTING"
          /\ rec[i].path = run[i].cand /\ rec[i].offer = run[i].offer

(* The files of transfer i under final names: each was landed by one of its  *)
(* attempts; the attempt that still runs knows of it, and the record of the  *)
(* attempt still names it.                                                   *)
FileOK(i) ==
    \A n \in Names : (file[n] # None /\ file[n].by = i) =>
        /\ file[n].linked
        /\ file[n].att <= tries[i]
        /\ run[i].pc # "idle" /\ file[n].att = run[i].att =>
              run[i].mayExist /\ run[i].cand = n /\ run[i].offer.data = file[n].data
        /\ "verify" \notin Faults /\ rec[i] # None /\ rec[i].att = file[n].att =>
              NamesFile(rec[i], n, file[n].data)

RecordOK(i) ==
    rec[i] # None =>
        /\ rec[i].att <= tries[i]
        /\ rec[i].state \in Committed => rec[i].path # 0 /\ Holds(rec[i].path, rec[i].offer.data)

(* The scan works alone on undecided records, and its verdict stays right    *)
(* until it is saved.                                                        *)
ScanOK ==
    /\ scan.todo # {} => mode = "recovering"
    /\ \A i \in scan.todo : rec[i] # None /\ rec[i].state \in Undecided
    /\ scan.cur # None =>
          /\ scan.cur \in scan.todo
          /\ scan.ok => /\ rec[scan.cur].path # 0
                        /\ Holds(rec[scan.cur].path, rec[scan.cur].offer.data)
          /\ ~scan.ok /\ "verify" \notin Faults =>
                \A n \in Names : ~(/\ file[n] # None /\ file[n].by = scan.cur
                                   /\ file[n].att = rec[scan.cur].att)

IndInv ==
    /\ TypeOK
    /\ \A i \in Ids : RunOK(i) /\ FileOK(i) /\ RecordOK(i)
    /\ \A q \in Requests : req[q].pc = "loaded" => mode = "serving"
    /\ ScanOK

-----------------------------------------------------------------------------
(* The frame of a step of the receive of i: the other transfers, the user's  *)
(* files and the memory outside the receive stay as they are, and names are  *)
(* only filled.                                                              *)
OwnStep(i) ==
    /\ UNCHANGED <<mode, tries, req, scan, env>>
    /\ \A j \in Ids : j # i => run'[j] = run[j] /\ rec'[j] = rec[j]
    /\ \A n \in Names : file[n] # None => file'[n] = file[n]
    /\ \A n \in Names : file[n] = None /\ file'[n] # None => file'[n].by = i

(* A name that holds a content goes on holding it when files only appear.    *)
LEMMA HoldsKept ==
    ASSUME NEW n \in Names, NEW d, Holds(n, d), touched \subseteq touched',
           file[n] # None => file'[n] = file[n] \/ n \in touched'
    PROVE  Holds(n, d)'
BY DEF Holds

(* A step of the receive of i preserves the invariant if it preserves the    *)
(* part about i.                                                             *)
LEMMA OwnStepKeeps ==
    ASSUME IndInv, NEW i \in Ids, run[i].pc # "idle", OwnStep(i),
           TypeOK', RunOK(i)', FileOK(i)', RecordOK(i)'
    PROVE  IndInv'
<1> USE DEF IndInv
<1>0. mode = "serving" /\ mode' = "serving"
  BY DEF RunOK, OwnStep
<1>t. TypeOK
  OBVIOUS
<1>h. ASSUME NEW n \in Names, NEW d, Holds(n, d) PROVE Holds(n, d)'
  BY <1>h, HoldsKept DEF OwnStep, env
<1>1. ASSUME NEW j \in Ids, j # i PROVE RunOK(j)' /\ FileOK(j)' /\ RecordOK(j)'
  <2>0. RunOK(j) /\ FileOK(j) /\ RecordOK(j)
    OBVIOUS
  <2>1. run'[j] = run[j] /\ rec'[j] = rec[j] /\ tries' = tries /\ mode' = mode
    BY <1>1 DEF OwnStep
  <2>2. run[j].cand # 0 => run[j].cand \in Names
    BY <1>t DEF TypeOK, RunType, Names
  <2>3. RunOK(j)'
    BY <2>0, <2>1, <2>2, <1>h DEF RunOK
  <2>4. FileOK(j)'
    BY <2>0, <2>1, <1>1 DEF FileOK, OwnStep, NamesFile
  <2>5. RecordOK(j)'
    <3>1. rec[j] # None => rec[j].path \in Names \cup {0}
      BY <1>t DEF TypeOK, RecordType, Names
    <3> QED BY <2>0, <2>1, <1>h, <3>1 DEF RecordOK
  <2> QED BY <2>3, <2>4, <2>5
<1>2. ScanOK'
  <2>1. scan.todo = {} /\ scan.cur = None
    BY <1>0 DEF ScanOK
  <2> QED BY <2>1 DEF ScanOK, OwnStep
<1>3. \A q \in Requests : req'[q].pc = "loaded" => mode' = "serving"
  BY <1>0
<1> QED BY <1>1, <1>2, <1>3

(* The record a receive writes is a record of its own attempt.               *)
LEMMA RecordMade ==
    ASSUME TypeOK, NEW i \in Ids, run[i].offer \in Offers, NEW s \in RecordStates
    PROVE  /\ Record(i, s) \in RecordType /\ Final(i, s) \in RecordType
           /\ Record(i, s).offer = run[i].offer /\ Final(i, s).offer = run[i].offer
           /\ Record(i, s).att = run[i].att /\ Final(i, s).att = run[i].att
           /\ Record(i, s).state = s /\ Final(i, s).state = s
           /\ Record(i, s).path = run[i].cand
           /\ s \notin Failed => Final(i, s).path = run[i].cand
<1>1. /\ run[i].offer \in Offers /\ run[i].att \in Nat
      /\ run[i].cand \in 0..MaxNames /\ 0 \in 0..MaxNames
  BY ReceiveConstants DEF TypeOK, RunType
<1>2. /\ Record(i, s) \in RecordType /\ Record(i, s).offer = run[i].offer
      /\ Record(i, s).att = run[i].att /\ Record(i, s).state = s
      /\ Record(i, s).path = run[i].cand
  BY <1>1 DEF Record, RecordType
<1> DEFINE q == Record(i, s)
           x == IF s \in Failed THEN 0 ELSE q.path
<1>3. x \in 0..MaxNames
  BY <1>1, <1>2
<1>4. Final(i, s) = [q EXCEPT !.part = FALSE, !.path = x]
  BY DEF Final
<1> HIDE DEF q, x
<1>5. q \in RecordType
  BY <1>2 DEF q
<1>6. /\ Final(i, s) \in RecordType /\ Final(i, s).offer = q.offer
      /\ Final(i, s).att = q.att /\ Final(i, s).state = q.state
      /\ Final(i, s).path = x
  BY <1>3, <1>4, <1>5 DEF RecordType
<1> QED BY <1>2, <1>6 DEF q, x

LEMMA RecordFields ==
    ASSUME IndInv, NEW i \in Ids, run[i].pc # "idle", NEW s \in RecordStates
    PROVE  /\ Record(i, s) \in RecordType /\ Final(i, s) \in RecordType
           /\ Record(i, s).offer = run[i].offer /\ Final(i, s).offer = run[i].offer
           /\ Record(i, s).att = run[i].att /\ Final(i, s).att = run[i].att
           /\ Record(i, s).state = s /\ Final(i, s).state = s
           /\ Record(i, s).path = run[i].cand
           /\ s \notin Failed => Final(i, s).path = run[i].cand
BY RecordMade DEF IndInv, RunOK

(* A receive that continues at phase p keeps the rest of its memory.         *)
LEMMA RunFields ==
    ASSUME TypeOK, NEW i \in Ids, NEW p \in Phases, Goto(i, p)
    PROVE  /\ run' \in [Ids -> RunType]
           /\ run'[i].pc = p /\ run'[i].offer = run[i].offer /\ run'[i].att = run[i].att
           /\ run'[i].cand = run[i].cand /\ run'[i].committed = run[i].committed
           /\ run'[i].mayExist = run[i].mayExist
           /\ \A j \in Ids : j # i => run'[j] = run[j]
<1>1. run[i] \in RunType
  BY DEF TypeOK
<1>2. run' = [run EXCEPT ![i] = [run[i] EXCEPT !.pc = p]]
  BY DEF Goto
<1>3. [run[i] EXCEPT !.pc = p] \in RunType
  BY <1>1 DEF RunType
<1> QED BY <1>1, <1>2, <1>3 DEF RunType, TypeOK

(* A save of the record while nothing is claimed yet.                        *)
LEMMA SaveThenKeeps ==
    ASSUME IndInv, NEW i \in Ids, NEW s \in RecordStates \ Committed, NEW p \in Phases,
           <<run[i].pc, s, p>> \in {<<"begin", "PREPARING", "connect">>, <<"connect", "READY", "ready">>,
                                    <<"ready", "TRANSFERRING", "open">>, <<"name", "COMMITTING", "link">>},
           SaveThen(i, Record(i, s), p)
    PROVE  IndInv'
<1> DEFINE r == Record(i, s)
<1>0. /\ TypeOK /\ RunOK(i) /\ FileOK(i) /\ RecordOK(i)
      /\ run[i].pc # "idle" /\ run[i].pc \in {"begin", "connect", "ready", "name"}
  BY DEF IndInv
<1>1. /\ r \in RecordType /\ r.offer = run[i].offer /\ r.att = run[i].att
      /\ r.state = s /\ r.path = run[i].cand
  BY <1>0, RecordFields
<1>2. PICK p2 \in {p, "fail"} :
        /\ Goto(i, p2)
        /\ rec' = [rec EXCEPT ![i] = r] \/ (rec' = rec /\ p2 = "fail")
  BY DEF SaveThen, Save, SaveThrows, Goto, Throw
<1> HIDE DEF r
<1>3. p2 \in Phases
  BY DEF Phases
<1>g. Goto(i, p2) /\ TypeOK
  BY <1>0, <1>2, Zenon
<1>4. UNCHANGED <<mode, file, parts, tries, activeBytes, req, scan, env>>
  BY DEF SaveThen
<1>5. /\ run' \in [Ids -> RunType]
      /\ run'[i].pc = p2 /\ run'[i].offer = run[i].offer /\ run'[i].att = run[i].att
      /\ run'[i].cand = run[i].cand /\ run'[i].committed = run[i].committed
      /\ run'[i].mayExist = run[i].mayExist
      /\ \A j \in Ids : j # i => run'[j] = run[j]
  BY <1>3, <1>g, RunFields, Zenon
<1>6. ~run[i].mayExist /\ ~run[i].committed
  BY <1>0 DEF RunOK
<1>7. rec' \in [Ids -> RecordType \cup {None}] /\ (rec'[i] = r \/ (rec'[i] = rec[i] /\ p2 = "fail"))
  BY <1>0, <1>1, <1>2 DEF TypeOK
<1>8. TypeOK'
  BY <1>0, <1>4, <1>5, <1>7 DEF TypeOK, env
<1>9. OwnStep(i)
  BY <1>0, <1>2, <1>4, <1>5 DEF OwnStep, TypeOK
<1>10. RunOK(i)'
  BY <1>0, <1>1, <1>4, <1>5, <1>6, <1>7, ReceiveConstants DEF RunOK
<1>11. FileOK(i)'
  BY <1>0, <1>1, <1>4, <1>5, <1>6, <1>7 DEF FileOK, NamesFile
<1>12. RecordOK(i)'
  BY <1>0, <1>1, <1>4, <1>7 DEF RecordOK, RunOK, TypeOK, RunType, Holds, env
<1> QED BY <1>0, <1>8, <1>9, <1>10, <1>11, <1>12, OwnStepKeeps

(* A step of the receive of i that leaves records and final names alone and  *)
(* makes r its memory.                                                       *)
MemoryStep(i, r) ==
    /\ run' = [run EXCEPT ![i] = r]
    /\ parts' \subseteq PartType
    /\ UNCHANGED <<mode, file, rec, tries, activeBytes, req, scan, env>>
    /\ r \in RunType
    /\ r.offer = run[i].offer /\ r.att = run[i].att
    /\ r.mayExist = run[i].mayExist
    /\ r.committed => r.mayExist
    /\ r.pc \notin {"idle", "rename", "copy", "copying"}
    /\ r.mayExist => r.cand = run[i].cand
    /\ r.pc \in {"name", "link"} => r.cand # 0
    /\ r.pc \in {"begin", "connect", "ready", "open", "payload", "name", "link"} =>
          ~r.mayExist /\ ~r.committed
    /\ r.pc \in {"linked", "dropped", "ack"} => r.mayExist
    /\ r.pc = "link" => run[i].pc = "link" /\ r.cand = run[i].cand

(* Such a step preserves the invariant.                                      *)
LEMMA MemoryStepKeeps ==
    ASSUME IndInv, NEW i \in Ids, run[i].pc # "idle", NEW r, MemoryStep(i, r)
    PROVE  IndInv'
<1>0. TypeOK /\ RunOK(i) /\ FileOK(i) /\ RecordOK(i)
  BY DEF IndInv
<1>1. run'[i] = r /\ run' \in [Ids -> RunType] /\ \A j \in Ids : j # i => run'[j] = run[j]
  BY <1>0 DEF TypeOK, MemoryStep
<1>2. TypeOK'
  BY <1>0, <1>1 DEF TypeOK, MemoryStep, env
<1>3. OwnStep(i)
  BY <1>1 DEF OwnStep, MemoryStep
<1>4. RunOK(i)'
  BY <1>0, <1>1 DEF RunOK, MemoryStep, Holds, env
<1>5. FileOK(i)'
  BY <1>0, <1>1 DEF FileOK, NamesFile, MemoryStep
<1>6. RecordOK(i)'
  BY <1>0 DEF RecordOK, MemoryStep, Holds, env
<1> QED BY <1>2, <1>3, <1>4, <1>5, <1>6, OwnStepKeeps

(* Reading the payload, failing, dropping the part and being canceled are    *)
(* such steps.                                                               *)
LEMMA MemoryActionsKeep ==
    ASSUME IndInv, NEW i \in Ids,
           OpenPart(i) \/ PayloadVerified(i) \/ ReceiveThrows(i) \/ DropPart(i) \/ Cancel(i)
    PROVE  IndInv'
<1>0. /\ TypeOK /\ RunOK(i) /\ run[i] \in RunType /\ parts \subseteq PartType
      /\ 1 \in 0..MaxNames
  BY ReceiveConstants DEF IndInv, TypeOK
<1>1. PartOf(i) \in PartType
  BY <1>0 DEF PartOf, PartType, RunType
<1>2. CASE OpenPart(i)
  <2> DEFINE r == [run[i] EXCEPT !.pc = "payload"]
  <2>1. MemoryStep(i, r) /\ run[i].pc # "idle"
    BY <1>0, <1>1, <1>2 DEF OpenPart, Goto, MemoryStep, RunType, RunOK, Phases
  <2> QED BY <2>1, MemoryStepKeeps
<1>3. CASE PayloadVerified(i)
  <2> DEFINE r == [run[i] EXCEPT !.pc = "name", !.cand = 1]
  <2>0. run' = [run EXCEPT ![i] = r] /\ r \in RunType
    BY <1>0, <1>3 DEF PayloadVerified, RunType, Phases, TypeOK
  <2>1. /\ r.pc = "name" /\ r.cand = 1 /\ r.offer = run[i].offer /\ r.att = run[i].att
        /\ r.mayExist = run[i].mayExist /\ r.committed = run[i].committed
    BY <1>0 DEF RunType
  <2>2. run[i].pc = "payload" /\ ~run[i].mayExist /\ ~run[i].committed
    BY <1>0, <1>3 DEF PayloadVerified, RunOK
  <2> HIDE DEF r
  <2>4. ~r.mayExist /\ ~r.committed
    BY <2>1, <2>2, Zenon
  <2>5. UNCHANGED <<mode, file, parts, rec, tries, activeBytes, req, scan, env>>
    BY <1>3 DEF PayloadVerified, disk
  <2>3. MemoryStep(i, r)
    BY <1>0, <2>0, <2>1, <2>2, <2>4, <2>5 DEF MemoryStep
  <2> QED BY <2>2, <2>3, MemoryStepKeeps
<1>4. CASE ReceiveThrows(i)
  <2>0. PICK a \in BOOLEAN : run' = [run EXCEPT ![i].pc = "fail", ![i].aborted = a]
    BY <1>0, <1>4 DEF ReceiveThrows, RunType
  <2> DEFINE r == [run[i] EXCEPT !.pc = "fail", !.aborted = a]
  <2>1. run' = [run EXCEPT ![i] = r] /\ r \in RunType
    BY <1>0, <2>0 DEF RunType, Phases, TypeOK
  <2>2. MemoryStep(i, r) /\ run[i].pc # "idle"
    BY <1>0, <1>4, <2>1 DEF ReceiveThrows, MemoryStep, RunType, RunOK, disk
  <2> QED BY <2>2, MemoryStepKeeps
<1>5. CASE DropPart(i)
  <2>0. PICK p \in {"dropped", "fail"} : Goto(i, p)
    BY <1>5 DEF DropPart, Goto, Throw
  <2> DEFINE r == [run[i] EXCEPT !.pc = p]
  <2>1. run' = [run EXCEPT ![i] = r] /\ r \in RunType
    BY <1>0, <2>0 DEF Goto, RunType, Phases
  <2>2. parts' \subseteq PartType
    BY <1>0, <1>5 DEF DropPart
  <2>3. MemoryStep(i, r) /\ run[i].pc # "idle"
    BY <1>0, <1>5, <2>1, <2>2 DEF DropPart, MemoryStep, RunType, RunOK
  <2> QED BY <2>3, MemoryStepKeeps
<1>6. CASE Cancel(i)
  <2> DEFINE r == [run[i] EXCEPT !.abort = TRUE]
  <2>1. run' = [run EXCEPT ![i] = r] /\ r \in RunType /\ run[i].pc # "idle"
    BY <1>0, <1>6 DEF Cancel, Active, RunType, TypeOK
  <2>2. MemoryStep(i, r)
    BY <1>0, <1>6, <2>1 DEF Cancel, MemoryStep, RunType, RunOK, disk
  <2> QED BY <2>1, <2>2, MemoryStepKeeps
<1> QED BY <1>2, <1>3, <1>4, <1>5, <1>6

(* The file a receive lands carries its id, its attempt and its content.     *)
LEMMA LandedFields ==
    ASSUME NEW i \in Ids, run[i].att \in Nat, run[i].offer.data \in Data \cup {Partial}
    PROVE  LET f == Landed(i, TRUE)
           IN /\ f \in FileType /\ f.by = i /\ f.att = run[i].att /\ f.linked
              /\ f.data = run[i].offer.data /\ f # None
<1> DEFINE f == [by |-> i, att |-> run[i].att, linked |-> TRUE, data |-> run[i].offer.data]
<1>1. f \in FileType /\ f.by = i /\ f.att = run[i].att /\ f.data = run[i].offer.data
  BY DEF FileType
<1>2. f.linked
  OBVIOUS
<1>3. f # None
  BY <1>1, ReceiveConstants
<1> QED BY <1>1, <1>2, <1>3 DEF Landed

(* link(2): an occupied name is left alone, a free one gets the content.     *)
LEMMA LinkKeeps ==
    ASSUME IndInv, Fs = "link", NEW i \in Ids, Link(i)
    PROVE  IndInv'
<1> DEFINE n == run[i].cand
<1>0. /\ TypeOK /\ RunOK(i) /\ FileOK(i) /\ RecordOK(i) /\ run[i] \in RunType
      /\ run[i].pc = "link" /\ run[i].pc # "idle"
  BY DEF IndInv, TypeOK, Link
<1>1. /\ n \in Names /\ ~run[i].mayExist /\ ~run[i].committed
      /\ run[i].offer \in Offers /\ run[i].att = tries[i] /\ run[i].att \in Nat
  BY <1>0, ReceiveConstants DEF RunOK, RunType, Names
<1>d. \/ Throw(i) /\ file' = file
      \/ /\ n # MaxNames /\ file' = file
         /\ run' = [run EXCEPT ![i].pc = "name", ![i].cand = @ + 1]
      \/ file[n] = None /\ Claim(i, TRUE) /\ AfterLink(i)
  BY Fs = "link" DEF Link
<1>u. UNCHANGED <<mode, parts, rec, tries, activeBytes, req, scan, env>>
  BY DEF Link
<1>2. CASE Throw(i) /\ file' = file
  <2> DEFINE r == [run[i] EXCEPT !.pc = "fail"]
  <2>1. run' = [run EXCEPT ![i] = r] /\ r \in RunType
    BY <1>0, <1>2 DEF Throw, RunType, Phases
  <2>2. MemoryStep(i, r)
    BY <1>0, <1>1, <1>2, <1>u, <2>1 DEF MemoryStep, RunType, TypeOK
  <2> QED BY <1>0, <2>2, MemoryStepKeeps
<1>4. CASE n # MaxNames /\ file' = file /\ run' = [run EXCEPT ![i].pc = "name", ![i].cand = @ + 1]
  <2> DEFINE r == [run[i] EXCEPT !.pc = "name", !.cand = n + 1]
  <2>0. n + 1 \in 0..MaxNames /\ n + 1 # 0
    BY <1>1, <1>4, ReceiveConstants DEF Names
  <2>1. run' = [run EXCEPT ![i] = r]
    BY <1>0, <1>4 DEF TypeOK
  <2>2. /\ r \in RunType /\ r.pc = "name" /\ r.cand = n + 1 /\ r.offer = run[i].offer
        /\ r.att = run[i].att /\ r.mayExist = run[i].mayExist /\ r.committed = run[i].committed
    BY <1>0, <2>0 DEF RunType, Phases
  <2> HIDE DEF r
  <2>3. MemoryStep(i, r)
    BY <1>0, <1>1, <1>4, <1>u, <2>0, <2>1, <2>2 DEF MemoryStep, TypeOK
  <2> QED BY <1>0, <2>3, MemoryStepKeeps
<1>3. CASE file[n] = None /\ Claim(i, TRUE) /\ AfterLink(i)
  <2> DEFINE f == Landed(i, TRUE)
             r == [run[i] EXCEPT !.pc = "linked", !.mayExist = TRUE]
  <2>1. /\ file[n] = None /\ file' = [file EXCEPT ![n] = f]
        /\ run' = [run EXCEPT ![i].pc = "linked", ![i].mayExist = TRUE]
        /\ UNCHANGED <<mode, parts, rec, tries, activeBytes, req, scan, env>>
    BY <1>3, <1>u DEF Claim, AfterLink
  <2>2. run' = [run EXCEPT ![i] = r]
    BY <1>0, <2>1 DEF TypeOK
  <2>3. /\ r \in RunType /\ r.pc = "linked" /\ r.mayExist /\ r.cand = n /\ ~r.committed
        /\ r.offer = run[i].offer /\ r.att = run[i].att
    BY <1>0, <1>1 DEF RunType, Phases
  <2>4. /\ f \in FileType /\ f.by = i /\ f.att = run[i].att /\ f.linked
        /\ f.data = run[i].offer.data /\ f # None
    <3>1. run[i].offer.data \in Data \cup {Partial}
      BY <1>1 DEF Data
    <3> QED BY <1>1, <3>1, LandedFields
  <2> HIDE DEF f, r
  <2>5. /\ run'[i] = r /\ run' \in [Ids -> RunType] /\ \A j \in Ids : j # i => run'[j] = run[j]
        /\ file'[n] = f /\ file' \in [Names -> FileType \cup {None}]
        /\ \A m \in Names : m # n => file'[m] = file[m]
    <3>1. run \in [Ids -> RunType] /\ file \in [Names -> FileType \cup {None}]
      BY <1>0 DEF TypeOK
    <3>2. file' = [file EXCEPT ![n] = f]
      BY <2>1
    <3> QED BY <1>1, <2>2, <2>3, <2>4, <3>1, <3>2
  <2>6. TypeOK'
    BY <1>0, <2>1, <2>5 DEF TypeOK, env
  <2>7. OwnStep(i)
    BY <1>1, <2>1, <2>4, <2>5 DEF OwnStep
  <2>8. RunOK(i)'
    BY <1>0, <1>1, <2>1, <2>3, <2>4, <2>5 DEF RunOK, Holds
  <2>9. FileOK(i)'
    <3> SUFFICES ASSUME NEW m \in Names, file'[m] # None, file'[m].by = i
                 PROVE  /\ file'[m].linked
                        /\ file'[m].att <= tries'[i]
                        /\ run'[i].pc # "idle" /\ file'[m].att = run'[i].att =>
                              run'[i].mayExist /\ run'[i].cand = m /\ run'[i].offer.data = file'[m].data
                        /\ "verify" \notin Faults /\ rec'[i] # None /\ rec'[i].att = file'[m].att =>
                              NamesFile(rec'[i], m, file'[m].data)
      BY DEF FileOK, NamesFile
    <3>1. CASE m = n
      BY <1>0, <1>1, <2>1, <2>3, <2>4, <2>5, <3>1 DEF RunOK, NamesFile
    <3>2. CASE m # n
      BY <1>0, <1>1, <2>1, <2>3, <2>5, <3>2 DEF FileOK, NamesFile
    <3> QED BY <3>1, <3>2
  <2>10. RecordOK(i)'
    <3>1. ASSUME NEW m \in Names, NEW d, Holds(m, d) PROVE Holds(m, d)'
      BY <2>1, <2>5, <3>1 DEF Holds, env
    <3>2. rec[i] # None => rec[i].path \in Names \cup {0}
      BY <1>0 DEF TypeOK, RecordType, Names
    <3> QED BY <1>0, <2>1, <3>1, <3>2 DEF RecordOK
  <2> QED BY <1>0, <2>6, <2>7, <2>8, <2>9, <2>10, OwnStepKeeps
<1> QED BY <1>d, <1>2, <1>3, <1>4

(* A receive whose file may exist saves a record r that names it, or nothing *)
(* at all, and continues with the memory q.                                  *)
NamingStep(i, r, q) ==
    /\ run' = [run EXCEPT ![i] = q]
    /\ rec' = [rec EXCEPT ![i] = r]
    /\ UNCHANGED <<mode, file, parts, tries, activeBytes, req, scan, env>>
    /\ q \in RunType
    /\ q.offer = run[i].offer /\ q.att = run[i].att /\ q.cand = run[i].cand
    /\ q.mayExist = run[i].mayExist
    /\ q.committed => q.mayExist
    /\ q.pc \in {"ack", "fail", "clean"} /\ (q.pc = "ack" => q.mayExist)
    /\ r \in RecordType /\ r.offer = run[i].offer /\ r.att = run[i].att
    /\ IF run[i].mayExist
       THEN r.state \in {"COMMITTING"} \cup Committed /\ r.path = run[i].cand
       ELSE r.state \in Failed

(* Such a save preserves the invariant.                                      *)
LEMMA NamingStepKeeps ==
    ASSUME IndInv, NEW i \in Ids, run[i].pc # "idle", NEW r, NEW q, NamingStep(i, r, q)
    PROVE  IndInv'
<1>0. TypeOK /\ RunOK(i) /\ FileOK(i) /\ RecordOK(i)
  BY DEF IndInv
<1>1. /\ run'[i] = q /\ run' \in [Ids -> RunType] /\ \A j \in Ids : j # i => run'[j] = run[j]
      /\ rec'[i] = r /\ rec' \in [Ids -> RecordType \cup {None}]
      /\ \A j \in Ids : j # i => rec'[j] = rec[j]
  BY <1>0 DEF TypeOK, NamingStep
<1>2. TypeOK'
  BY <1>0, <1>1 DEF TypeOK, NamingStep, env
<1>3. OwnStep(i)
  BY <1>1 DEF OwnStep, NamingStep
<1>4. RunOK(i)'
  BY <1>0, <1>1 DEF RunOK, NamingStep, Holds, env
<1>5. FileOK(i)'
  <2> SUFFICES ASSUME NEW m \in Names, file'[m] # None, file'[m].by = i
               PROVE  /\ file'[m].linked
                      /\ file'[m].att <= tries'[i]
                      /\ run'[i].pc # "idle" /\ file'[m].att = run'[i].att =>
                            run'[i].mayExist /\ run'[i].cand = m /\ run'[i].offer.data = file'[m].data
                      /\ "verify" \notin Faults /\ rec'[i] # None /\ rec'[i].att = file'[m].att =>
                            NamesFile(rec'[i], m, file'[m].data)
    BY DEF FileOK, NamesFile
  <2>1. file' = file /\ tries' = tries
    BY DEF NamingStep
  <2>2. /\ file[m].linked /\ file[m].att <= tries[i]
        /\ file[m].att = run[i].att =>
              run[i].mayExist /\ run[i].cand = m /\ run[i].offer.data = file[m].data
    BY <1>0, <2>1 DEF FileOK
  <2>3. file[m].att = r.att => NamesFile(r, m, file[m].data)
    BY <2>2 DEF NamingStep, NamesFile
  <2> QED BY <1>1, <2>1, <2>2, <2>3 DEF NamingStep
<1>6. RecordOK(i)'
  BY <1>0, <1>1 DEF RecordOK, RunOK, NamingStep, Holds, env, TypeOK, RunType, Committed, Failed
<1> QED BY <1>2, <1>3, <1>4, <1>5, <1>6, OwnStepKeeps

(* Saving DATA_COMMITTED, whether or not the save throws.                    *)
LEMMA SaveCommittedKeeps ==
    ASSUME IndInv, NEW i \in Ids, SaveCommitted(i)
    PROVE  IndInv'
<1> DEFINE r == Final(i, "DATA_COMMITTED")
<1>0. /\ TypeOK /\ RunOK(i) /\ run[i] \in RunType /\ parts \subseteq PartType
      /\ run[i].pc = "dropped" /\ run[i].pc # "idle"
  BY DEF IndInv, TypeOK, SaveCommitted
<1>1. run[i].mayExist
  BY <1>0 DEF RunOK
<1>2. /\ r \in RecordType /\ r.offer = run[i].offer /\ r.att = run[i].att
      /\ r.state = "DATA_COMMITTED" /\ r.path = run[i].cand
  BY <1>0, RecordFields DEF RecordStates, Failed
<1> HIDE DEF r
<1>3. UNCHANGED <<mode, file, parts, tries, activeBytes, req, scan, env>>
  BY DEF SaveCommitted
<1>4. PICK p \in {"ack", "fail"}, c \in BOOLEAN :
        /\ run' = [run EXCEPT ![i].pc = p, ![i].committed = c]
        /\ rec' = rec \/ rec' = [rec EXCEPT ![i] = r]
  <2>1. CASE rec' = [rec EXCEPT ![i] = r] /\ run' = [run EXCEPT ![i].pc = "ack", ![i].committed = TRUE]
    BY <2>1
  <2>2. CASE /\ rec' = rec \/ rec' = [rec EXCEPT ![i] = r]
             /\ run' = [run EXCEPT ![i].pc = "fail", ![i].committed = TRUE]
    BY <2>2
  <2>3. CASE Throw(i) /\ rec' = rec
    <3>1. run' = [run EXCEPT ![i].pc = "fail", ![i].committed = run[i].committed]
      BY <1>0, <2>3 DEF Throw, RunType, TypeOK
    <3> QED BY <1>0, <2>3, <3>1 DEF RunType
  <2> QED BY <2>1, <2>2, <2>3 DEF SaveCommitted, Save, SaveThrows, r
<1> DEFINE q == [run[i] EXCEPT !.pc = p, !.committed = c]
<1>5. /\ run' = [run EXCEPT ![i] = q] /\ q \in RunType
      /\ q.pc = p /\ q.offer = run[i].offer /\ q.att = run[i].att /\ q.cand = run[i].cand
      /\ q.mayExist = run[i].mayExist
  BY <1>0, <1>4 DEF RunType, TypeOK, Phases
<1> HIDE DEF q
<1>m. q.mayExist
  BY <1>1, <1>5, Zenon
<1>6. CASE rec' = rec
  <2>1. MemoryStep(i, q)
    BY <1>0, <1>m, <1>3, <1>4, <1>5, <1>6 DEF MemoryStep
  <2> QED BY <1>0, <2>1, MemoryStepKeeps
<1>7. CASE rec' = [rec EXCEPT ![i] = r]
  <2>1. NamingStep(i, r, q)
    BY <1>0, <1>1, <1>m, <1>2, <1>3, <1>4, <1>5, <1>7 DEF NamingStep, Committed
  <2> QED BY <1>0, <2>1, NamingStepKeeps
<1> QED BY <1>4, <1>6, <1>7

(* The record of the catch block, whether or not the save throws.            *)
LEMMA SaveFailureKeeps ==
    ASSUME IndInv, NEW i \in Ids, SaveFailure(i)
    PROVE  IndInv'
<1> DEFINE r == FailureRecord(i)
           q == [run[i] EXCEPT !.pc = "clean"]
<1>0. /\ TypeOK /\ RunOK(i) /\ run[i] \in RunType /\ parts \subseteq PartType
      /\ run[i].pc = "fail" /\ run[i].pc # "idle"
  BY DEF IndInv, TypeOK, SaveFailure
<1>2. /\ r \in RecordType /\ r.offer = run[i].offer /\ r.att = run[i].att
      /\ IF run[i].mayExist THEN r.state = "COMMITTING" /\ r.path = run[i].cand
                            ELSE r.state \in Failed
  <2>1. CASE run[i].mayExist
    BY <1>0, <2>1, RecordFields DEF FailureRecord, RecordStates
  <2>2. CASE ~run[i].mayExist
    <3>1. PICK s \in Failed : r = Final(i, s)
      BY <2>2 DEF FailureRecord, Failed
    <3>2. s \in RecordStates
      BY DEF RecordStates, Failed
    <3> HIDE DEF r
    <3> QED BY <1>0, <2>2, <3>1, <3>2, RecordFields
  <2> QED BY <2>1, <2>2
<1>3. UNCHANGED <<mode, file, parts, tries, activeBytes, req, scan, env>>
  BY DEF SaveFailure
<1>4. /\ Goto(i, "clean")
      /\ rec' = rec \/ rec' = [rec EXCEPT ![i] = r]
  BY DEF SaveFailure, Save, SaveThrows
<1> HIDE DEF r
<1>5. /\ run' = [run EXCEPT ![i] = q] /\ q \in RunType
      /\ q.pc = "clean" /\ q.offer = run[i].offer /\ q.att = run[i].att /\ q.cand = run[i].cand
      /\ q.mayExist = run[i].mayExist /\ q.committed = run[i].committed
  BY <1>0, <1>4 DEF Goto, RunType, Phases
<1> HIDE DEF q
<1>m. q.committed => q.mayExist
  BY <1>0, <1>5 DEF RunOK
<1>6. CASE rec' = rec
  <2>1. MemoryStep(i, q)
    BY <1>0, <1>m, <1>3, <1>5, <1>6 DEF MemoryStep
  <2> QED BY <1>0, <2>1, MemoryStepKeeps
<1>7. CASE rec' = [rec EXCEPT ![i] = r]
  <2>1. NamingStep(i, r, q)
    BY <1>0, <1>m, <1>2, <1>3, <1>5, <1>7 DEF NamingStep
  <2> QED BY <1>0, <2>1, NamingStepKeeps
<1> QED BY <1>4, <1>6, <1>7

(* The memory of an id without a receive.                                    *)
LEMMA IdleFields ==
    Idle \in RunType /\ Idle.pc = "idle" /\ ~Idle.mayExist /\ ~Idle.committed /\ Idle.cand = 0
<1>1. Idle \in RunType
  BY ReceiveConstants DEF Idle, RunType, Phases
<1>2. Idle.pc = "idle" /\ Idle.cand = 0
  BY DEF Idle
<1>3. ~Idle.mayExist
  BY DEF Idle
<1>4. ~Idle.committed
  BY DEF Idle
<1> QED BY <1>1, <1>2, <1>3, <1>4

(* The end of a receive forgets its memory.                                  *)
LEMMA SettleKeeps ==
    ASSUME IndInv, NEW i \in Ids, WriteAck(i) \/ CleanUp(i)
    PROVE  IndInv'
<1>0. /\ TypeOK /\ RunOK(i) /\ FileOK(i) /\ RecordOK(i) /\ run[i] \in RunType
      /\ parts \subseteq PartType /\ run[i].pc # "idle"
  BY DEF IndInv, TypeOK, WriteAck, CleanUp
<1>1. /\ Settle(i) /\ UNCHANGED <<mode, file, rec, tries, req, scan, env>>
      /\ parts' \subseteq PartType
  BY <1>0 DEF WriteAck, CleanUp, disk
<1>2. Idle \in RunType /\ Idle.pc = "idle" /\ ~Idle.mayExist /\ ~Idle.committed
  BY IdleFields
<1>3. run[i].offer \in Offers /\ run[i].offer.size \in Nat /\ activeBytes \in Nat
  BY <1>0, ReceiveConstants DEF RunOK, TypeOK
<1>4. activeBytes' \in Nat
  BY <1>1, <1>3 DEF Settle
<1>5. run'[i] = Idle /\ run' \in [Ids -> RunType] /\ \A j \in Ids : j # i => run'[j] = run[j]
  BY <1>0, <1>1, <1>2 DEF Settle, TypeOK
<1> HIDE DEF Idle
<1>6. TypeOK'
  BY <1>0, <1>1, <1>4, <1>5 DEF TypeOK, env
<1>7. OwnStep(i)
  BY <1>1, <1>5 DEF OwnStep
<1>8. RunOK(i)'
  BY <1>2, <1>5 DEF RunOK
<1>9. FileOK(i)'
  BY <1>0, <1>1, <1>2, <1>5 DEF FileOK, NamesFile
<1>10. RecordOK(i)'
  BY <1>0, <1>1 DEF RecordOK, Holds, env
<1> QED BY <1>0, <1>6, <1>7, <1>8, <1>9, <1>10, OwnStepKeeps

(* Every step of a receive preserves the invariant where links work.         *)
LEMMA ReceiveKeeps ==
    ASSUME IndInv, Fs = "link", NEW i \in Ids, Receive(i)
    PROVE  IndInv'
<1>1. CASE SavePreparing(i)
  BY <1>1, SaveThenKeeps DEF SavePreparing, RecordStates, Committed, Phases
<1>2. CASE SaveReady(i)
  BY <1>2, SaveThenKeeps DEF SaveReady, RecordStates, Committed, Phases
<1>3. CASE SaveTransferring(i)
  BY <1>3, SaveThenKeeps DEF SaveTransferring, RecordStates, Committed, Phases
<1>4. CASE SaveCommitting(i)
  BY <1>4, SaveThenKeeps DEF SaveCommitting, RecordStates, Committed, Phases
<1>5. CASE Rename(i) \/ CopyBegins(i) \/ CopyEnds(i)
  BY <1>5 DEF IndInv, RunOK, Rename, CopyBegins, CopyEnds
<1> QED
  BY <1>1, <1>2, <1>3, <1>4, <1>5, MemoryActionsKeep, LinkKeeps, SaveCommittedKeeps,
     SaveFailureKeeps, SettleKeeps DEF Receive

-----------------------------------------------------------------------------
(* The memory of a receive that was just admitted.                           *)
LEMMA NewRunFields ==
    ASSUME NEW o \in Offers, NEW a \in Nat
    PROVE  LET r == [Idle EXCEPT !.pc = "begin", !.offer = o, !.att = a]
           IN /\ r \in RunType /\ r.pc = "begin" /\ r.offer = o /\ r.att = a
              /\ ~r.mayExist /\ ~r.committed
<1> DEFINE r == [Idle EXCEPT !.pc = "begin", !.offer = o, !.att = a]
<1>1. Idle \in RunType
  BY IdleFields
<1>2. /\ r \in RunType /\ r.pc = "begin" /\ r.offer = o /\ r.att = a
      /\ r.mayExist = Idle.mayExist /\ r.committed = Idle.committed
  BY <1>1 DEF RunType, Phases
<1> HIDE DEF r
<1>3. ~r.mayExist /\ ~r.committed
  BY <1>2, IdleFields, Zenon
<1> QED BY <1>2, <1>3 DEF r

(* The prepare handler: admission starts an attempt that has landed nothing. *)
LEMMA PrepareKeeps ==
    ASSUME IndInv, NEW q \in Requests, Prepare(q)
    PROVE  IndInv'
<1>0. /\ TypeOK /\ req \in [Requests -> ReqType] /\ Asks[q] \in Offers /\ Asks[q].id \in Ids
      /\ Asks[q].size \in Nat
  BY ReceiveConstants DEF IndInv, TypeOK, Offers, Ids
<1>1. Answered \in ReqType /\ Answered.pc = "answered"
  BY DEF Answered, ReqType
<1>2. CASE PrepareRefused(q) \/ PrepareAnswered(q)
  <2>1. /\ req' = [req EXCEPT ![q] = Answered]
        /\ UNCHANGED <<mode, file, parts, rec, tries, run, activeBytes, scan, env>>
    BY <1>2 DEF PrepareRefused, PrepareAnswered, disk
  <2>2. TypeOK' /\ \A x \in Requests : req'[x].pc = "loaded" => mode' = "serving"
    BY <1>0, <1>1, <2>1 DEF TypeOK, env, IndInv
  <2> QED BY <2>1, <2>2 DEF IndInv, RunOK, FileOK, NamesFile, RecordOK, ScanOK, Holds, env
<1>3. CASE PrepareLoad(q)
  <2> DEFINE x == [pc |-> "loaded", existing |-> rec[Asks[q].id]]
  <2>0. mode = "serving"
    BY <1>3 DEF PrepareLoad
  <2>1. /\ req' = [req EXCEPT ![q] = x]
        /\ UNCHANGED <<mode, file, parts, rec, tries, run, activeBytes, scan, env>>
    BY <1>3 DEF PrepareLoad, disk
  <2>2. x \in ReqType
    BY <1>0 DEF ReqType, TypeOK
  <2> HIDE DEF x
  <2>3. TypeOK'
    BY <1>0, <2>1, <2>2 DEF TypeOK, env
  <2>4. \A y \in Requests : req'[y].pc = "loaded" => mode' = "serving"
    BY <2>0, <2>1
  <2> QED BY <2>1, <2>3, <2>4 DEF IndInv, RunOK, FileOK, NamesFile, RecordOK, ScanOK, Holds, env
<1>4. CASE PrepareAdmits(q)
  <2> DEFINE o == Asks[q]
             i == o.id
             r == [Idle EXCEPT !.pc = "begin", !.offer = o, !.att = tries[i] + 1]
  <2>0. i \in Ids /\ o \in Offers /\ tries[i] \in Nat /\ run[i].pc = "idle"
    BY <1>0, <1>4 DEF TypeOK, PrepareAdmits, Active
  <2>1. /\ r \in RunType /\ r.pc = "begin" /\ r.offer = o /\ r.att = tries[i] + 1
        /\ ~r.mayExist /\ ~r.committed
    <3>1. tries[i] + 1 \in Nat
      BY <2>0
    <3> QED BY <2>0, <3>1, NewRunFields
  <2>2. /\ req' = [req EXCEPT ![q] = Answered]
        /\ tries' = [tries EXCEPT ![i] = @ + 1]
        /\ run' = [run EXCEPT ![i] = r]
        /\ activeBytes' = activeBytes + o.size
        /\ UNCHANGED <<mode, file, parts, rec, scan, env>>
    BY <1>4 DEF PrepareAdmits
  <2>3. mode = "serving"
    BY <1>0, <1>4 DEF PrepareAdmits, IndInv
  <2> HIDE DEF r
  <2>4. /\ run'[i] = r /\ run' \in [Ids -> RunType] /\ \A j \in Ids : j # i => run'[j] = run[j]
        /\ tries'[i] = tries[i] + 1 /\ tries' \in [Ids -> Nat]
        /\ \A j \in Ids : j # i => tries'[j] = tries[j]
    BY <1>0, <2>0, <2>1, <2>2 DEF TypeOK
  <2>5. TypeOK'
    BY <1>0, <1>1, <2>2, <2>4 DEF TypeOK, env
  <2>6. \A y \in Requests : req'[y].pc = "loaded" => mode' = "serving"
    BY <2>2, <2>3
  <2>7. ASSUME NEW j \in Ids PROVE RunOK(j)' /\ FileOK(j)' /\ RecordOK(j)'
    <3>0. RunOK(j) /\ FileOK(j) /\ RecordOK(j)
      BY DEF IndInv
    <3>1. CASE j # i
      BY <3>0, <3>1, <2>2, <2>4 DEF RunOK, FileOK, NamesFile, RecordOK, Holds, env
    <3>2. CASE j = i
      <4>1. RunOK(i)'
        BY <2>0, <2>1, <2>2, <2>3, <2>4 DEF RunOK
      <4>2. FileOK(i)'
        <5>1. ASSUME NEW n \in Names, file[n] # None, file[n].by = i
              PROVE  file[n].att \in Nat /\ file[n].att <= tries[i]
          BY <1>0, <3>0, <3>2, <5>1 DEF FileOK, TypeOK, FileType
        <5> QED BY <3>0, <3>2, <2>0, <2>1, <2>2, <2>4, <5>1 DEF FileOK, NamesFile
      <4>3. RecordOK(i)'
        <5>1. rec[i] # None => rec[i].att \in Nat
          BY <1>0, <2>0 DEF TypeOK, RecordType
        <5> QED BY <3>0, <3>2, <2>0, <2>2, <2>4, <5>1 DEF RecordOK, Holds, env
      <4> QED BY <3>2, <4>1, <4>2, <4>3
    <3> QED BY <3>1, <3>2
  <2>8. ScanOK'
    BY <2>2 DEF IndInv, ScanOK, Holds, env
  <2> QED BY <2>5, <2>6, <2>7, <2>8 DEF IndInv
<1> QED BY <1>2, <1>3, <1>4 DEF Prepare

(* A crash forgets the memory and touches nothing on disk.                   *)
LEMMA CrashKeeps ==
    ASSUME IndInv, Crash
    PROVE  IndInv'
<1>0. TypeOK /\ Idle \in RunType
  BY IdleFields DEF IndInv
<1>1. /\ run' = [i \in Ids |-> Idle] /\ activeBytes' = 0 /\ mode' = "down"
      /\ scan' = NoScan /\ crashes' = crashes + 1
      /\ UNCHANGED <<file, parts, rec, tries, moves, touched>>
      /\ req' = [q \in Requests |-> IF req[q].pc = "new" THEN req[q] ELSE Answered]
  BY DEF Crash, disk
<1>2. NoScan \in ScanType /\ NoScan.todo = {} /\ NoScan.cur = None
  BY DEF NoScan, ScanType
<1>3. Answered \in ReqType /\ Answered.pc = "answered"
  BY DEF Answered, ReqType
<1>4. TypeOK'
  BY <1>0, <1>1, <1>2, <1>3 DEF TypeOK
<1>5. ASSUME NEW i \in Ids PROVE RunOK(i)' /\ FileOK(i)' /\ RecordOK(i)'
  <2>0. RunOK(i) /\ FileOK(i) /\ RecordOK(i) /\ run'[i] = Idle
    BY <1>1 DEF IndInv
  <2>1. RunOK(i)'
    BY <2>0, IdleFields DEF RunOK
  <2>2. FileOK(i)'
    BY <2>0, <1>1, IdleFields DEF FileOK, NamesFile
  <2>3. RecordOK(i)'
    BY <2>0, <1>1 DEF RecordOK, Holds
  <2> QED BY <2>1, <2>2, <2>3
<1>6. ScanOK'
  BY <1>1, <1>2 DEF ScanOK
<1>7. \A q \in Requests : req'[q].pc = "loaded" => mode' = "serving"
  BY <1>1, <1>3
<1> QED BY <1>4, <1>5, <1>6, <1>7 DEF IndInv

(* The scan starts on the undecided records while no receive runs.           *)
LEMMA StartKeeps ==
    ASSUME IndInv, Start
    PROVE  IndInv'
<1> DEFINE T == {i \in Ids : rec[i] # None /\ rec[i].state \notin Committed \cup Failed}
           x == [NoScan EXCEPT !.todo = T]
<1>0. TypeOK
  BY DEF IndInv
<1>1. /\ mode = "down" /\ mode' = "recovering" /\ scan' = x
      /\ UNCHANGED <<file, parts, rec, tries, run, activeBytes, req, env>>
  BY DEF Start, disk
<1>2. x \in ScanType /\ x.todo = T /\ x.cur = None
  BY DEF NoScan, ScanType
<1>3. \A i \in T : rec[i] # None /\ rec[i].state \in Undecided
  BY <1>0 DEF TypeOK, RecordType, Undecided
<1> HIDE DEF x, T
<1>4. TypeOK'
  BY <1>0, <1>1, <1>2 DEF TypeOK, env
<1>5. ASSUME NEW i \in Ids PROVE RunOK(i)' /\ FileOK(i)' /\ RecordOK(i)'
  <2>0. RunOK(i) /\ FileOK(i) /\ RecordOK(i)
    BY DEF IndInv
  <2>1. run[i] = Idle
    BY <2>0, <1>1 DEF RunOK
  <2>2. RunOK(i)'
    BY <2>1, <1>1, IdleFields DEF RunOK
  <2>3. FileOK(i)' /\ RecordOK(i)'
    BY <2>0, <1>1 DEF FileOK, NamesFile, RecordOK, Holds, env
  <2> QED BY <2>2, <2>3
<1>6. ScanOK'
  BY <1>1, <1>2, <1>3 DEF ScanOK
<1>7. \A q \in Requests : req'[q].pc = "loaded" => mode' = "serving"
  BY <1>1 DEF IndInv
<1> QED BY <1>4, <1>5, <1>6, <1>7 DEF IndInv

(* The verdict of the scan: a file of this attempt is always recognised.     *)
LEMMA VerifyKeeps ==
    ASSUME IndInv, NEW i \in Ids, RecoverVerify(i)
    PROVE  IndInv'
<1> DEFINE owned == rec[i].state = "COMMITTING" /\ Owns(i)
<1>0. TypeOK /\ ScanOK /\ FileOK(i) /\ scan \in ScanType
  BY DEF IndInv, TypeOK
<1>1. /\ i \in scan.todo /\ mode = "recovering"
      /\ UNCHANGED <<mode, file, parts, rec, tries, run, activeBytes, req, env>>
  BY DEF RecoverVerify, disk
<1>2. rec[i] # None /\ rec[i].state \in Undecided /\ rec[i] \in RecordType
  BY <1>0, <1>1 DEF ScanOK, TypeOK
<1>3. PICK v \in BOOLEAN : /\ scan' = [scan EXCEPT !.cur = i, !.pc = "drop", !.ok = v]
                           /\ v => owned
                           /\ "verify" \notin Faults /\ ~v => ~owned
  BY DEF RecoverVerify
<1>4. /\ scan' \in ScanType /\ scan'.todo = scan.todo /\ scan'.cur = i /\ scan'.ok = v
  BY <1>0, <1>3 DEF ScanType
<1>5. TypeOK'
  BY <1>0, <1>1, <1>4 DEF TypeOK, env
<1>6. owned => rec[i].path # 0 /\ Holds(rec[i].path, rec[i].offer.data)
  BY DEF Owns, Holds
<1>7. ASSUME NEW n \in Names, file[n] # None, file[n].by = i, file[n].att = rec[i].att,
             "verify" \notin Faults
      PROVE  owned
  <2>1. NamesFile(rec[i], n, file[n].data) /\ file[n].linked
    BY <1>0, <1>2, <1>7 DEF FileOK
  <2>2. rec[i].state = "COMMITTING" /\ rec[i].path = n /\ n # 0
    BY <1>2, <2>1 DEF NamesFile, Undecided, Names
  <2> QED BY <1>7, <2>1, <2>2 DEF Owns, NamesFile
<1> HIDE DEF owned
<1>8. ScanOK'
  <2>1. scan'.ok => /\ rec[i].path # 0 /\ Holds(rec[i].path, rec[i].offer.data)
    BY <1>3, <1>4, <1>6
  <2>2. ~scan'.ok /\ "verify" \notin Faults =>
           \A n \in Names : ~(file[n] # None /\ file[n].by = i /\ file[n].att = rec[i].att)
    BY <1>3, <1>4, <1>7
  <2>3. Holds(rec[i].path, rec[i].offer.data) => Holds(rec[i].path, rec[i].offer.data)'
    BY <1>1 DEF Holds, env
  <2> QED BY <1>0, <1>1, <1>4, <2>1, <2>2, <2>3 DEF ScanOK
<1>9. \A j \in Ids : RunOK(j)' /\ FileOK(j)' /\ RecordOK(j)'
  BY <1>1 DEF IndInv, RunOK, FileOK, NamesFile, RecordOK, Holds, env
<1> QED BY <1>1, <1>5, <1>8, <1>9 DEF IndInv

(* Dropping the part decides nothing.                                        *)
LEMMA RecoverDropKeeps ==
    ASSUME IndInv, RecoverDropPart
    PROVE  IndInv'
<1>0. TypeOK /\ ScanOK /\ scan \in ScanType /\ parts \subseteq PartType
  BY DEF IndInv, TypeOK
<1>1. /\ parts' \subseteq parts /\ scan' = [scan EXCEPT !.pc = "save"]
      /\ UNCHANGED <<mode, file, rec, tries, run, activeBytes, req, env>>
  BY DEF RecoverDropPart
<1>2. /\ scan' \in ScanType /\ scan'.todo = scan.todo /\ scan'.cur = scan.cur
      /\ scan'.ok = scan.ok
  BY <1>0, <1>1 DEF ScanType
<1>3. TypeOK'
  BY <1>0, <1>1, <1>2 DEF TypeOK, env
<1>4. ScanOK'
  BY <1>0, <1>1, <1>2 DEF ScanOK, Holds, env
<1>5. \A j \in Ids : RunOK(j)' /\ FileOK(j)' /\ RecordOK(j)'
  BY <1>1 DEF IndInv, RunOK, FileOK, NamesFile, RecordOK, Holds, env
<1> QED BY <1>1, <1>3, <1>4, <1>5 DEF IndInv

(* The decision of the scan is right when it is saved.                       *)
LEMMA RecoverSaveKeeps ==
    ASSUME IndInv, RecoverSave
    PROVE  IndInv'
<1>0. /\ TypeOK /\ ScanOK /\ scan \in ScanType /\ scan.cur # None /\ mode = "recovering"
      /\ UNCHANGED <<file, parts, tries, run, activeBytes, req, env>>
  BY DEF IndInv, TypeOK, RecoverSave
<1>1. PICK i \in Ids : i = scan.cur /\ i \in scan.todo /\ rec[i] # None
  BY <1>0 DEF ScanOK, ScanType
<1> DEFINE r == Recovered(i)
<1>2. rec[i] \in RecordType /\ FileOK(i) /\ RecordOK(i) /\ 0 \in 0..MaxNames
  BY <1>0, <1>1, ReceiveConstants DEF TypeOK, IndInv
<1>3. /\ r \in RecordType /\ r.att = rec[i].att /\ r.offer = rec[i].offer
      /\ scan.ok => r.state = "DATA_COMMITTED" /\ r.path = rec[i].path
      /\ ~scan.ok => r.state = "FAILED_CONFIRMED"
  <2>1. CASE scan.ok
    BY <1>2, <2>1 DEF Recovered, RecordType, RecordStates
  <2>2. CASE ~scan.ok
    BY <1>2, <2>2 DEF Recovered, RecordType, RecordStates
  <2> QED BY <2>1, <2>2
<1> HIDE DEF r
<1>4. /\ rec' = rec \/ rec' = [rec EXCEPT ![i] = r]
      /\ \/ mode' = "recovering" /\ scan' = [NoScan EXCEPT !.todo = scan.todo \ {i}]
            /\ rec' = [rec EXCEPT ![i] = r]
         \/ mode' = "refusing" /\ scan' = NoScan
  BY <1>0, <1>1 DEF RecoverSave, Save, SaveThrows, r
<1>5. /\ scan' \in ScanType /\ scan'.cur = None /\ scan'.todo \subseteq scan.todo \ {i}
      /\ scan'.todo # {} => mode' = "recovering"
  <2>1. CASE mode' = "recovering" /\ scan' = [NoScan EXCEPT !.todo = scan.todo \ {i}]
    BY <1>0, <2>1 DEF NoScan, ScanType
  <2>2. CASE scan' = NoScan
    BY <2>2 DEF NoScan, ScanType
  <2> QED BY <1>4, <2>1, <2>2
<1>6. rec' \in [Ids -> RecordType \cup {None}] /\ \A j \in Ids : j # i => rec'[j] = rec[j]
  BY <1>0, <1>1, <1>3, <1>4 DEF TypeOK
<1>7. TypeOK'
  BY <1>0, <1>4, <1>5, <1>6 DEF TypeOK, env
<1>8. ScanOK'
  BY <1>0, <1>5, <1>6 DEF ScanOK, ScanType
<1>9. ASSUME NEW j \in Ids PROVE RunOK(j)' /\ FileOK(j)' /\ RecordOK(j)'
  <2>0. RunOK(j) /\ FileOK(j) /\ RecordOK(j) /\ run[j] = Idle
    BY <1>0 DEF IndInv, RunOK
  <2>1. RunOK(j)'
    BY <2>0, <1>0, IdleFields DEF RunOK
  <2>2. CASE rec'[j] = rec[j]
    BY <2>0, <2>1, <2>2, <1>0 DEF FileOK, NamesFile, RecordOK, Holds, env
  <2>3. CASE rec'[j] # rec[j]
    <3>1. j = i /\ rec'[i] = r
      BY <2>3, <1>0, <1>4, <1>6 DEF TypeOK
    <3>2. FileOK(i)'
      <4> SUFFICES ASSUME NEW m \in Names, file[m] # None, file[m].by = i,
                          "verify" \notin Faults, r.att = file[m].att
                   PROVE  NamesFile(r, m, file[m].data)
        BY <1>0, <1>2, <2>0, <3>1 DEF FileOK, NamesFile
      <4>1. scan.ok
        BY <1>0, <1>1, <1>3 DEF ScanOK
      <4>2. NamesFile(rec[i], m, file[m].data)
        BY <1>1, <1>2, <1>3 DEF FileOK
      <4> QED BY <1>3, <4>1, <4>2 DEF NamesFile, Committed
    <3>3. RecordOK(i)'
      <4>1. CASE scan.ok
        BY <1>0, <1>1, <1>2, <1>3, <3>1, <4>1 DEF RecordOK, ScanOK, Holds, env
      <4>2. CASE ~scan.ok
        BY <1>0, <1>1, <1>2, <1>3, <3>1, <4>2 DEF RecordOK, Committed
      <4> QED BY <4>1, <4>2
    <3> QED BY <2>1, <3>1, <3>2, <3>3
  <2> QED BY <2>2, <2>1, <2>3
<1>10. \A q \in Requests : req'[q].pc = "loaded" => mode' = "serving"
  BY <1>0 DEF IndInv
<1> QED BY <1>7, <1>8, <1>9, <1>10 DEF IndInv

(* The service opens when every undecided record was decided.                *)
LEMMA RecoverDoneKeeps ==
    ASSUME IndInv, RecoverDone
    PROVE  IndInv'
<1>1. /\ mode' = "serving" /\ scan.todo = {} /\ scan.cur = None
      /\ UNCHANGED <<file, parts, rec, tries, run, activeBytes, req, scan, env>>
  BY DEF RecoverDone, disk
<1>2. TypeOK'
  BY <1>1 DEF IndInv, TypeOK, env
<1>3. ScanOK'
  BY <1>1 DEF ScanOK
<1>4. \A j \in Ids : RunOK(j)' /\ FileOK(j)' /\ RecordOK(j)'
  BY <1>1 DEF IndInv, RunOK, FileOK, NamesFile, RecordOK, Holds, env
<1> QED BY <1>1, <1>2, <1>3, <1>4 DEF IndInv

(* The notification completes a committed record and keeps what it names.    *)
LEMMA ResolveKeeps ==
    ASSUME IndInv, NEW i \in Ids, ResolveUri(i)
    PROVE  IndInv'
<1> DEFINE r == [rec[i] EXCEPT !.state = "COMPLETED"]
<1>0. /\ TypeOK /\ ScanOK /\ rec[i] # None /\ rec[i].state = "DATA_COMMITTED"
      /\ rec' = [rec EXCEPT ![i] = r]
      /\ UNCHANGED <<mode, file, parts, tries, run, activeBytes, req, scan, env>>
  BY DEF IndInv, ResolveUri, Save
<1>1. rec[i] \in RecordType
  BY <1>0 DEF TypeOK
<1>2. /\ r \in RecordType /\ r.state = "COMPLETED" /\ r.path = rec[i].path
      /\ r.att = rec[i].att /\ r.offer = rec[i].offer
  BY <1>1 DEF RecordType, RecordStates
<1> HIDE DEF r
<1>3. /\ rec'[i] = r /\ rec' \in [Ids -> RecordType \cup {None}]
      /\ \A j \in Ids : j # i => rec'[j] = rec[j]
  BY <1>0, <1>2 DEF TypeOK
<1>4. TypeOK'
  BY <1>0, <1>3 DEF TypeOK, env
<1>5. i \notin scan.todo
  BY <1>0 DEF ScanOK, Undecided, Committed
<1>6. ScanOK'
  BY <1>0, <1>3, <1>5 DEF ScanOK, Holds, env, TypeOK, ScanType
<1>7. ASSUME NEW j \in Ids PROVE RunOK(j)' /\ FileOK(j)' /\ RecordOK(j)'
  <2>0. RunOK(j) /\ FileOK(j) /\ RecordOK(j)
    BY DEF IndInv
  <2>1. CASE j # i
    BY <2>0, <2>1, <1>0, <1>3 DEF RunOK, FileOK, NamesFile, RecordOK, Holds, env
  <2>2. CASE j = i
    <3>1. RunOK(i)'
      BY <2>0, <2>2, <1>0 DEF RunOK, Holds, env
    <3>2. FileOK(i)'
      BY <2>0, <2>2, <1>0, <1>2, <1>3 DEF FileOK, NamesFile, Committed
    <3>3. RecordOK(i)'
      BY <2>0, <2>2, <1>0, <1>2, <1>3 DEF RecordOK, Holds, env, Committed
    <3> QED BY <2>2, <3>1, <3>2, <3>3
  <2> QED BY <2>1, <2>2
<1> QED BY <1>0, <1>4, <1>6, <1>7 DEF IndInv

(* What a step of the user does to a name.                                   *)
UserChange(n) ==
    \/ file'[n] = file[n]
    \/ file'[n] = None /\ n \in touched'
    \/ file[n] = None /\ file'[n].by = User

(* What the user does is never mistaken for a transfer's own file.           *)
LEMMA UserKeeps ==
    ASSUME IndInv, UserActs
    PROVE  IndInv'
<1>0. /\ TypeOK /\ ScanOK
      /\ UNCHANGED <<mode, parts, rec, tries, run, activeBytes, req, scan, crashes>>
  BY DEF IndInv, UserActs, UserCreates, UserDeletes
<1>1. /\ file' \in [Names -> FileType \cup {None}]
      /\ moves' \in Nat /\ touched' \subseteq Names /\ touched \subseteq touched'
      /\ \A n \in Names : UserChange(n)
  <2>1. ASSUME NEW n \in Names, UserDeletes(n) 
        PROVE  /\ file' \in [Names -> FileType \cup {None}] /\ moves' \in Nat
               /\ touched' \subseteq Names /\ touched \subseteq touched'
               /\ \A m \in Names : UserChange(m)
    BY <1>0, <2>1 DEF UserDeletes, TypeOK, UserChange
  <2>2. ASSUME NEW n \in Names, NEW d \in UserData, UserCreates(n, d) 
        PROVE  /\ file' \in [Names -> FileType \cup {None}] /\ moves' \in Nat
               /\ touched' \subseteq Names /\ touched \subseteq touched'
               /\ \A m \in Names : UserChange(m)
    <3> DEFINE f == [by |-> User, att |-> 0, linked |-> FALSE, data |-> d]
    <3>1. f \in FileType /\ f.by = User
      BY DEF FileType, Data
    <3>2. file' = [file EXCEPT ![n] = f] /\ file[n] = None /\ moves' = moves + 1 /\ touched' = touched
      BY <2>2 DEF UserCreates
    <3> HIDE DEF f
    <3> QED BY <1>0, <3>1, <3>2 DEF TypeOK, UserChange
  <2> QED BY <2>1, <2>2 DEF UserActs
<1>2. TypeOK'
  BY <1>0, <1>1 DEF TypeOK
<1>3. ASSUME NEW n \in Names, NEW d, Holds(n, d) PROVE Holds(n, d)'
  BY <1>1, <1>3 DEF Holds, UserChange
<1>4. ASSUME NEW n \in Names, file'[n] # None, file'[n].by \in Ids PROVE file'[n] = file[n]
  BY <1>1, <1>4, ReceiveConstants DEF UserChange
<1>5. ASSUME NEW i \in Ids PROVE RunOK(i)' /\ FileOK(i)' /\ RecordOK(i)'
  <2>0. RunOK(i) /\ FileOK(i) /\ RecordOK(i)
    BY DEF IndInv
  <2>1. /\ run[i].cand # 0 => run[i].cand \in Names
        /\ rec[i] # None => rec[i].path \in Names \cup {0}
    BY <1>0 DEF TypeOK, RunType, RecordType, Names
  <2>2. RunOK(i)'
    BY <2>0, <2>1, <1>0, <1>3 DEF RunOK
  <2>3. FileOK(i)'
    BY <2>0, <1>0, <1>4 DEF FileOK, NamesFile
  <2>4. RecordOK(i)'
    BY <2>0, <2>1, <1>0, <1>3 DEF RecordOK
  <2> QED BY <2>2, <2>3, <2>4
<1>6. ScanOK'
  <2>1. scan.cur # None => scan.cur \in Ids /\ rec[scan.cur] # None
    BY <1>0 DEF ScanOK, TypeOK, ScanType
  <2>2. scan.cur # None => rec[scan.cur].path \in Names \cup {0}
    BY <1>0, <2>1 DEF TypeOK, RecordType, Names
  <2> QED BY <1>0, <1>3, <1>4, <2>1, <2>2 DEF ScanOK
<1> QED BY <1>0, <1>2, <1>5, <1>6 DEF IndInv

(* Nothing has happened in the first state.                                  *)
LEMMA InitHolds ==
    ASSUME Init
    PROVE  IndInv
<1>0. Idle \in RunType /\ Idle.pc = "idle" /\ ~Idle.mayExist /\ ~Idle.committed
  BY IdleFields
<1>1. NoScan \in ScanType /\ NoScan.todo = {} /\ NoScan.cur = None
  BY DEF NoScan, ScanType
<1>2. [pc |-> "new", existing |-> None] \in ReqType
  BY DEF ReqType
<1>3. TypeOK
  BY <1>0, <1>1, <1>2 DEF Init, TypeOK
<1>4. ScanOK
  BY <1>1 DEF Init, ScanOK
<1>5. \A i \in Ids : RunOK(i) /\ FileOK(i) /\ RecordOK(i)
  BY <1>0 DEF Init, RunOK, FileOK, RecordOK
<1>6. \A q \in Requests : req[q].pc = "loaded" => mode = "serving"
  BY DEF Init
<1> QED BY <1>3, <1>4, <1>5, <1>6 DEF IndInv

-----------------------------------------------------------------------------
(* On a file system with hard links every step preserves the invariant.      *)
LEMMA NextKeeps ==
    ASSUME Fs = "link", IndInv, [Next]_vars
    PROVE  IndInv'
<1>1. CASE UNCHANGED vars
  BY <1>1 DEF vars, IndInv, TypeOK, RunOK, FileOK, NamesFile, RecordOK, ScanOK, Holds
<1>2. CASE Next
  <2>1. CASE Recover
    BY <2>1, StartKeeps, VerifyKeeps, RecoverDropKeeps, RecoverSaveKeeps, RecoverDoneKeeps
       DEF Recover
  <2> QED
    BY <1>2, <2>1, PrepareKeeps, ReceiveKeeps, MemoryActionsKeep, ResolveKeeps, CrashKeeps, UserKeeps
       DEF Next
<1> QED BY <1>1, <1>2

(* The inductive invariant: what a receive knows, what its record says and   *)
(* what lies on disk agree at every point where the gateway can crash.       *)
THEOREM ReceiveInvariant ==
    ASSUME Fs = "link"
    PROVE  Spec => []IndInv
<1>1. Init => IndInv
  BY InitHolds
<1>2. IndInv /\ [Next]_vars => IndInv'
  BY NextKeeps
<1> QED BY <1>1, <1>2, PTL DEF Spec

(* DATA_COMMITTED and COMPLETED are never wrong: the named file has the      *)
(* offered content unless the user removed it, for every combination of      *)
(* faults, crashes, retries and concurrent receives.                         *)
THEOREM ReceiveCommittedSound ==
    ASSUME Fs = "link"
    PROVE  Spec => []CommittedSound
<1>1. IndInv => CommittedSound
  BY DEF IndInv, CommittedSound, RecordOK, Holds
<1> QED BY <1>1, ReceiveInvariant, PTL

(* FAILED_CONFIRMED and CANCELED are never wrong as long as the recovery can *)
(* read the candidate file: the attempt has left no file under a final name. *)
THEOREM ReceiveFailureConfirmed ==
    ASSUME Fs = "link", "verify" \notin Faults
    PROVE  Spec => []FailureConfirmed
<1>1. IndInv => FailureConfirmed
  BY DEF IndInv, FailureConfirmed, FileOK, NamesFile, Committed, Failed
<1> QED BY <1>1, ReceiveInvariant, PTL

(* No step of the gateway touches a file that already has a final name.      *)
THEOREM ReceiveNoClobber ==
    ASSUME Fs = "link"
    PROVE  Spec => NoClobber
<1> DEFINE Keep == UserActs \/ \A n \in Names : file[n] # None => file'[n] = file[n]
<1>1. IndInv /\ [Next]_vars => [Keep]_vars
  <2> SUFFICES ASSUME IndInv, Next PROVE Keep
    OBVIOUS
  <2>1. CASE \E q \in Requests : Prepare(q)
    BY <2>1 DEF Prepare, PrepareRefused, PrepareLoad, PrepareAnswered, PrepareAdmits, disk
  <2>2. ASSUME NEW i \in Ids, Cancel(i) \/ ResolveUri(i) PROVE Keep
    BY <2>2 DEF Cancel, ResolveUri, disk
  <2>3. ASSUME NEW i \in Ids, Receive(i) PROVE Keep
    <3>0. run[i].pc \notin {"rename", "copy", "copying"} /\ file \in [Names -> FileType \cup {None}]
      BY DEF IndInv, RunOK, TypeOK
    <3>1. CASE Link(i)
      BY <3>0, <3>1 DEF Link, Claim
    <3>2. CASE SavePreparing(i) \/ SaveReady(i) \/ SaveTransferring(i) \/ SaveCommitting(i)
      BY <3>2 DEF SavePreparing, SaveReady, SaveTransferring, SaveCommitting, SaveThen
    <3>3. CASE \/ OpenPart(i) \/ PayloadVerified(i) \/ ReceiveThrows(i) \/ DropPart(i)
               \/ SaveCommitted(i) \/ WriteAck(i) \/ SaveFailure(i) \/ CleanUp(i)
      BY <3>3 DEF OpenPart, PayloadVerified, ReceiveThrows, DropPart, SaveCommitted, WriteAck,
                  SaveFailure, CleanUp, disk
    <3> QED BY <2>3, <3>0, <3>1, <3>2, <3>3 DEF Receive, Rename, CopyBegins, CopyEnds
  <2>4. CASE Recover \/ Crash
    BY <2>4 DEF Recover, Crash, Start, RecoverVerify, RecoverDropPart, RecoverSave, RecoverDone, disk
  <2> QED BY <2>1, <2>2, <2>3, <2>4 DEF Next
<1> QED BY <1>1, ReceiveInvariant, PTL DEF Spec, NoClobber

-----------------------------------------------------------------------------
(* Admission                                                                *)

(* The counter is the sum over the active receives, whatever the directory   *)
(* supports: only the shape of the memory matters.                           *)
Admitted == [i \in Ids |-> Reserved(i)]
MemoryOK ==
    /\ run \in [Ids -> RunType] /\ tries \in [Ids -> Nat]
    /\ \A i \in Ids : run[i].pc # "idle" => run[i].offer \in Offers
AdmissionInv ==
    /\ MemoryOK
    /\ IsFiniteSet(Bytes(Ids, Admitted)) /\ activeBytes = Cardinality(Bytes(Ids, Admitted))
    /\ activeBytes <= MaxBytes
    /\ IsFiniteSet(Active) /\ Cardinality(Active) <= MaxConcurrent

(* A reservation is a number of bytes.                                       *)
LEMMA AdmittedType == ASSUME MemoryOK, NEW i \in Ids PROVE Reserved(i) \in Nat
BY ReceiveConstants DEF MemoryOK, Reserved, Active

(* One transfer changes its bytes and the counter moves with it.             *)
LEMMA AdmissionMoves ==
    ASSUME AdmissionInv, MemoryOK', NEW i \in Ids,
           \A j \in Ids \ {i} : Reserved(j)' = Reserved(j),
           activeBytes + Reserved(i)' >= Reserved(i) =>
              activeBytes' = activeBytes + Reserved(i)' - Reserved(i),
           activeBytes' <= MaxBytes,
           IsFiniteSet(Active') /\ Cardinality(Active') <= MaxConcurrent
    PROVE  AdmissionInv'
<1>1. PICK f \in [Ids -> Nat] : f = Admitted
  BY AdmittedType DEF Admitted, AdmissionInv
<1>2. \A j \in Ids : Reserved(j)' \in Nat
  BY ReceiveConstants DEF MemoryOK, Reserved, Active
<1>3. PICK g \in [Ids -> Nat] : g = Admitted'
  BY <1>2 DEF Admitted
<1>4. f[i] = Reserved(i) /\ g[i] = Reserved(i)' /\ \A j \in Ids \ {i} : g[j] = f[j]
  BY <1>1, <1>3 DEF Admitted
<1>5. IsFiniteSet(Bytes(Ids, f)) /\ activeBytes = Cardinality(Bytes(Ids, f))
  BY <1>1 DEF AdmissionInv
<1>6. /\ IsFiniteSet(Bytes(Ids, g)) /\ activeBytes \in Nat /\ f[i] <= activeBytes
      /\ Cardinality(Bytes(Ids, g)) = activeBytes - f[i] + g[i]
  BY <1>4, <1>5, BytesChanged
<1>7. activeBytes' = activeBytes + g[i] - f[i]
  BY <1>4, <1>6
<1>8. activeBytes' = Cardinality(Bytes(Ids, g))
  BY <1>6, <1>7
<1> QED BY <1>3, <1>6, <1>8 DEF AdmissionInv

(* A step that keeps every receive active, or not, with its offer.           *)
SameReceives ==
    /\ activeBytes' = activeBytes
    /\ run' \in [Ids -> RunType] /\ tries' = tries
    /\ \A i \in Ids : (run'[i].pc = "idle" <=> run[i].pc = "idle") /\ run'[i].offer = run[i].offer

(* Such a step keeps the counter exact.                                      *)
LEMMA SameReceivesKeep == ASSUME AdmissionInv, SameReceives PROVE AdmissionInv'
<1>1. Active' = Active
  BY DEF Active, SameReceives
<1>2. \A i \in Ids : Reserved(i)' = Reserved(i)
  BY <1>1 DEF Reserved, SameReceives
<1>3. Admitted' = Admitted
  BY <1>2 DEF Admitted
<1>4. MemoryOK'
  BY DEF MemoryOK, SameReceives, AdmissionInv
<1> QED BY <1>1, <1>3, <1>4 DEF AdmissionInv, SameReceives

(* A receive that stays active and keeps its offer.                          *)
LEMMA PhaseKeeps ==
    ASSUME AdmissionInv, NEW i \in Ids, NEW r \in RunType, run' = [run EXCEPT ![i] = r],
           UNCHANGED <<activeBytes, tries>>, run[i].pc # "idle", r.pc # "idle",
           r.offer = run[i].offer
    PROVE  AdmissionInv'
<1>1. SameReceives
  BY DEF SameReceives, AdmissionInv, MemoryOK
<1> QED BY <1>1, SameReceivesKeep

(* A receive that goes on to another phase, or throws.                       *)
LEMMA GotoKeeps ==
    ASSUME AdmissionInv, NEW i \in Ids, NEW p \in Phases \ {"idle"}, Goto(i, p),
           UNCHANGED <<activeBytes, tries>>, run[i].pc # "idle"
    PROVE  AdmissionInv'
<1> DEFINE r == [run[i] EXCEPT !.pc = p]
<1>1. run[i] \in RunType
  BY DEF AdmissionInv, MemoryOK
<1>2. r \in RunType /\ r.pc = p /\ r.offer = run[i].offer
  BY <1>1 DEF RunType
<1>3. run' = [run EXCEPT ![i] = r]
  BY DEF Goto
<1> HIDE DEF r
<1> QED BY <1>2, <1>3, PhaseKeeps

(* The steps of a receive between its admission and its end.                 *)
LEMMA ReceivePhases ==
    ASSUME AdmissionInv, NEW i \in Ids, Receive(i), ~WriteAck(i), ~CleanUp(i)
    PROVE  AdmissionInv'
<1>1. run[i] \in RunType /\ 1 \in 0..MaxNames
  BY ReceiveConstants DEF AdmissionInv, MemoryOK
<1>2. CASE SavePreparing(i)
  BY <1>2, GotoKeeps DEF SavePreparing, SaveThen, Throw, Goto, Phases
<1>3. CASE SaveReady(i)
  BY <1>3, GotoKeeps DEF SaveReady, SaveThen, Throw, Goto, Phases
<1>4. CASE SaveTransferring(i)
  BY <1>4, GotoKeeps DEF SaveTransferring, SaveThen, Throw, Goto, Phases
<1>5. CASE OpenPart(i)
  BY <1>5, GotoKeeps DEF OpenPart, Phases
<1>6. CASE PayloadVerified(i)
  <2> DEFINE r == [run[i] EXCEPT !.pc = "name", !.cand = 1]
  <2>1. r \in RunType /\ r.pc = "name" /\ r.offer = run[i].offer
    BY <1>1 DEF RunType, Phases
  <2>2. run' = [run EXCEPT ![i] = r] /\ UNCHANGED <<activeBytes, tries>> /\ run[i].pc # "idle"
    BY <1>6 DEF PayloadVerified, disk, AdmissionInv, MemoryOK
  <2> HIDE DEF r
  <2> QED BY <2>1, <2>2, PhaseKeeps
<1>7. CASE ReceiveThrows(i)
  <2>1. PICK a \in {FALSE, run[i].abort} : run' = [run EXCEPT ![i].pc = "fail", ![i].aborted = a]
    BY <1>7 DEF ReceiveThrows
  <2> DEFINE r == [run[i] EXCEPT !.pc = "fail", !.aborted = a]
  <2>2. r \in RunType /\ r.pc = "fail" /\ r.offer = run[i].offer
    BY <1>1 DEF RunType, Phases
  <2>3. run' = [run EXCEPT ![i] = r] /\ UNCHANGED <<activeBytes, tries>> /\ run[i].pc # "idle"
    BY <1>7, <2>1 DEF ReceiveThrows, disk, AdmissionInv, MemoryOK
  <2> HIDE DEF r
  <2> QED BY <2>2, <2>3, PhaseKeeps
<1>8. CASE SaveCommitting(i)
  BY <1>8, GotoKeeps DEF SaveCommitting, SaveThen, Throw, Goto, Phases
<1>a. ASSUME NEW p \in {"linked"}, AfterLink(i), UNCHANGED <<activeBytes, tries>>, run[i].pc # "idle"
      PROVE  AdmissionInv'
  <2> DEFINE r == [run[i] EXCEPT !.pc = "linked", !.mayExist = TRUE]
  <2>1. r \in RunType /\ r.pc = "linked" /\ r.offer = run[i].offer
    BY <1>1 DEF RunType, Phases
  <2>2. run' = [run EXCEPT ![i] = r]
    BY <1>a DEF AfterLink, AdmissionInv, MemoryOK
  <2> HIDE DEF r
  <2> QED BY <1>a, <2>1, <2>2, PhaseKeeps
<1>9. CASE Link(i)
  <2>0. run[i].pc # "idle" /\ UNCHANGED <<activeBytes, tries>>
    BY <1>9 DEF Link
  <2>1. CASE Throw(i) \/ Goto(i, "rename")
    BY <2>0, <2>1, GotoKeeps DEF Throw, Goto, Phases
  <2>2. CASE AfterLink(i)
    BY <1>a, <2>0, <2>2
  <2>3. CASE run[i].cand # MaxNames /\ run' = [run EXCEPT ![i].pc = "name", ![i].cand = @ + 1]
    <3> DEFINE r == [run[i] EXCEPT !.pc = "name", !.cand = run[i].cand + 1]
    <3>1. run[i].cand + 1 \in 0..MaxNames
      BY <1>1, <2>3, ReceiveConstants DEF RunType
    <3>2. r \in RunType /\ r.pc = "name" /\ r.offer = run[i].offer
      BY <1>1, <3>1 DEF RunType, Phases
    <3>3. run' = [run EXCEPT ![i] = r]
      BY <2>3 DEF AdmissionInv, MemoryOK
    <3> HIDE DEF r
    <3> QED BY <2>0, <3>2, <3>3, PhaseKeeps
  <2> QED BY <1>9, <2>1, <2>2, <2>3 DEF Link
<1>10. CASE Rename(i)
  BY <1>a, <1>10, GotoKeeps DEF Rename, Phases
<1>11. CASE CopyBegins(i)
  BY <1>11, GotoKeeps DEF CopyBegins, Phases
<1>12. CASE CopyEnds(i)
  BY <1>a, <1>12, GotoKeeps DEF CopyEnds, Throw, Goto, Phases
<1>13. CASE DropPart(i)
  BY <1>13, GotoKeeps DEF DropPart, Throw, Goto, Phases
<1>14. CASE SaveCommitted(i)
  <2>0. run[i].pc # "idle" /\ UNCHANGED <<activeBytes, tries>>
    BY <1>14 DEF SaveCommitted
  <2>1. CASE Throw(i)
    BY <2>0, <2>1, GotoKeeps DEF Throw, Goto, Phases
  <2>2. ASSUME NEW p \in {"ack", "fail"}, run' = [run EXCEPT ![i].pc = p, ![i].committed = TRUE]
        PROVE  AdmissionInv'
    <3> DEFINE r == [run[i] EXCEPT !.pc = p, !.committed = TRUE]
    <3>1. r \in RunType /\ r.pc = p /\ r.offer = run[i].offer
      BY <1>1 DEF RunType, Phases
    <3>2. run' = [run EXCEPT ![i] = r]
      BY <2>2 DEF AdmissionInv, MemoryOK
    <3> HIDE DEF r
    <3> QED BY <2>0, <3>1, <3>2, PhaseKeeps
  <2> QED BY <1>14, <2>1, <2>2 DEF SaveCommitted
<1>15. CASE SaveFailure(i)
  BY <1>15, GotoKeeps DEF SaveFailure, Phases
<1> QED BY <1>2, <1>3, <1>4, <1>5, <1>6, <1>7, <1>8, <1>9, <1>10, <1>11, <1>12, <1>13, <1>14,
           <1>15 DEF Receive

(* The finally handler gives back exactly the bytes of its receive.          *)
LEMMA SlotReturned ==
    ASSUME AdmissionInv, NEW i \in Ids, run[i].pc # "idle", Settle(i), tries' = tries
    PROVE  AdmissionInv'
<1>1. Idle \in RunType /\ Idle.pc = "idle"
  BY ReceiveConstants DEF Idle, RunType, Phases
<1>2. MemoryOK
  BY DEF AdmissionInv
<1>3. run' = [run EXCEPT ![i] = Idle] /\ run' \in [Ids -> RunType]
  BY <1>1, <1>2 DEF Settle, MemoryOK
<1>4. run'[i] = Idle /\ \A j \in Ids \ {i} : run'[j] = run[j]
  BY <1>2, <1>3 DEF MemoryOK
<1>5. MemoryOK'
  BY <1>1, <1>2, <1>3, <1>4 DEF MemoryOK
<1>6. Active' \subseteq Active /\ i \in Active /\ i \notin Active'
  BY <1>1, <1>4 DEF Active
<1>7. Reserved(i) = run[i].offer.size /\ Reserved(i)' = 0
  BY <1>6 DEF Reserved
<1>8. \A j \in Ids \ {i} : Reserved(j)' = Reserved(j)
  BY <1>4 DEF Reserved, Active
<1>9. Reserved(i) \in Nat /\ activeBytes \in Nat
  BY <1>2, AdmittedType, FS_CardinalityType DEF AdmissionInv
<1>10. /\ activeBytes' <= activeBytes
       /\ activeBytes >= Reserved(i) => activeBytes' = activeBytes - Reserved(i)
  BY <1>7, <1>9 DEF Settle
<1>11. activeBytes' <= MaxBytes
  BY <1>9, <1>10, ReceiveConstants DEF AdmissionInv, Settle
<1>12. IsFiniteSet(Active') /\ Cardinality(Active') <= MaxConcurrent
  BY <1>6, TableShrinks, ReceiveConstants DEF AdmissionInv
<1>13. activeBytes + Reserved(i)' >= Reserved(i) =>
          activeBytes' = activeBytes + Reserved(i)' - Reserved(i)
  BY <1>7, <1>9, <1>10
<1> QED BY <1>5, <1>8, <1>11, <1>12, <1>13, AdmissionMoves

(* startFileReceive takes a slot and the offered bytes in one turn.          *)
LEMMA SlotTaken ==
    ASSUME AdmissionInv, NEW q \in Requests, PrepareAdmits(q)
    PROVE  AdmissionInv'
<1> DEFINE o == Asks[q]
           i == o.id
           r == [Idle EXCEPT !.pc = "begin", !.offer = o, !.att = tries[i] + 1]
<1>1. o \in Offers /\ i \in Ids /\ MemoryOK /\ o.size \in Nat
  BY ReceiveConstants DEF Offers, Ids, Requests, AdmissionInv
<1>2. /\ i \notin Active /\ HasRoom(o)
      /\ run' = [run EXCEPT ![i] = r] /\ tries' = [tries EXCEPT ![i] = @ + 1]
      /\ activeBytes' = activeBytes + o.size
  BY DEF PrepareAdmits
<1>3. tries[i] + 1 \in Nat
  BY <1>1 DEF MemoryOK
<1> HIDE DEF o, i
<1>4. r \in RunType /\ r.pc = "begin" /\ r.offer = o
  BY <1>1, <1>3, NewRunFields
<1> HIDE DEF r
<1>5. run'[i] = r /\ \A j \in Ids \ {i} : run'[j] = run[j]
  BY <1>1, <1>2 DEF MemoryOK
<1>6. MemoryOK'
  <2>1. run' \in [Ids -> RunType] /\ tries' \in [Ids -> Nat]
    BY <1>1, <1>2, <1>3, <1>4 DEF MemoryOK
  <2> QED BY <1>1, <1>4, <1>5, <2>1 DEF MemoryOK
<1>7. Active' \subseteq Active \cup {i} /\ i \in Active'
  BY <1>1, <1>4, <1>5 DEF Active
<1>8. Reserved(i) = 0 /\ Reserved(i)' = o.size
  BY <1>2, <1>4, <1>5, <1>7 DEF Reserved
<1>9. \A j \in Ids \ {i} : Reserved(j)' = Reserved(j)
  BY <1>5 DEF Reserved, Active
<1>10. activeBytes \in Nat
  BY FS_CardinalityType DEF AdmissionInv
<1>11. activeBytes' <= MaxBytes /\ ~(Cardinality(Active) >= MaxConcurrent)
  <2>1. Cardinality(Active) \in Nat
    BY FS_CardinalityType DEF AdmissionInv
  <2> QED BY <1>2, <2>1, ReceiveConstants DEF HasRoom
<1>12. IsFiniteSet(Active') /\ Cardinality(Active') <= MaxConcurrent
  BY <1>7, <1>11, TableGrows, ReceiveConstants DEF AdmissionInv
<1>13. activeBytes + Reserved(i)' >= Reserved(i) =>
          activeBytes' = activeBytes + Reserved(i)' - Reserved(i)
  BY <1>1, <1>2, <1>8, <1>10
<1> QED BY <1>1, <1>6, <1>9, <1>11, <1>12, <1>13, AdmissionMoves

(* No receive is active: at the start and after a crash.                     *)
LEMMA NothingAdmitted ==
    ASSUME run = [i \in Ids |-> Idle], activeBytes = 0, tries \in [Ids -> Nat]
    PROVE  AdmissionInv
<1>1. Idle \in RunType /\ Idle.pc = "idle"
  BY ReceiveConstants DEF Idle, RunType, Phases
<1>2. MemoryOK /\ Active = {}
  BY <1>1 DEF MemoryOK, Active
<1>3. \A i \in Ids : Admitted[i] = 0
  BY <1>2 DEF Admitted, Reserved
<1>4. IsFiniteSet(Bytes(Ids, Admitted)) /\ Cardinality(Bytes(Ids, Admitted)) = 0
  BY <1>3, BytesNone
<1>5. IsFiniteSet({}) /\ Cardinality({}) = 0
  BY FS_EmptySet
<1> QED BY <1>2, <1>4, <1>5, ReceiveConstants DEF AdmissionInv

(* Every step keeps the counter exact and within the limits.                 *)
LEMMA AdmissionStep == ASSUME AdmissionInv, [Next]_vars PROVE AdmissionInv'
<1>m. MemoryOK /\ run \in [Ids -> RunType]
  BY DEF AdmissionInv, MemoryOK
<1>1. ASSUME UNCHANGED <<run, activeBytes, tries>> PROVE AdmissionInv'
  BY <1>m, <1>1, SameReceivesKeep DEF SameReceives
<1>2. ASSUME NEW q \in Requests, Prepare(q) PROVE AdmissionInv'
  BY <1>1, <1>2, SlotTaken DEF Prepare, PrepareRefused, PrepareLoad, PrepareAnswered, disk
<1>3. ASSUME NEW i \in Ids, Receive(i) PROVE AdmissionInv'
  <2>1. CASE WriteAck(i)
    BY <2>1, SlotReturned DEF WriteAck, disk
  <2>2. CASE CleanUp(i)
    BY <2>2, SlotReturned DEF CleanUp
  <2> QED BY <1>3, <2>1, <2>2, ReceivePhases
<1>4. ASSUME NEW i \in Ids, Cancel(i) PROVE AdmissionInv'
  <2> DEFINE r == [run[i] EXCEPT !.abort = TRUE]
  <2>1. run' = [run EXCEPT ![i] = r] /\ UNCHANGED <<activeBytes, tries>> /\ run[i].pc # "idle"
    BY <1>4 DEF Cancel, disk, Active
  <2>2. r \in RunType /\ r.pc = run[i].pc /\ r.offer = run[i].offer
    BY <1>m DEF RunType
  <2> HIDE DEF r
  <2> QED BY <2>1, <2>2, PhaseKeeps
<1>5. ASSUME NEW i \in Ids, ResolveUri(i) PROVE AdmissionInv'
  BY <1>1, <1>5 DEF ResolveUri
<1>6. CASE Recover
  BY <1>1, <1>6 DEF Recover, Start, RecoverVerify, RecoverDropPart, RecoverSave, RecoverDone, disk
<1>7. CASE Crash
  <2>1. (run = [i \in Ids |-> Idle] /\ activeBytes = 0 /\ tries \in [Ids -> Nat])'
    BY <1>m, <1>7 DEF Crash, disk, MemoryOK
  <2>2. Idle \in RunType /\ Idle.pc = "idle"
    BY IdleFields
  <2>3. MemoryOK' /\ Active' = {}
    BY <2>1, <2>2 DEF MemoryOK, Active
  <2>4. PICK f : f = Admitted' /\ \A i \in Ids : f[i] = 0
    <3>1. \A i \in Ids : Reserved(i)' = 0
      BY <2>3 DEF Reserved
    <3>2. Admitted' = [i \in Ids |-> 0]
      BY <3>1 DEF Admitted
    <3> QED BY <3>2
  <2>5. IsFiniteSet(Bytes(Ids, f)) /\ Cardinality(Bytes(Ids, f)) = 0
    BY <2>4, BytesNone
  <2>6. IsFiniteSet({}) /\ Cardinality({}) = 0
    BY FS_EmptySet
  <2> QED BY <2>1, <2>3, <2>4, <2>5, <2>6, ReceiveConstants DEF AdmissionInv
<1>8. CASE UserActs
  BY <1>1, <1>8 DEF UserActs, UserCreates, UserDeletes
<1>9. CASE UNCHANGED vars
  BY <1>1, <1>9 DEF vars
<1> QED BY <1>2, <1>3, <1>4, <1>5, <1>6, <1>7, <1>8, <1>9 DEF Next

(* activeReceiveBytes is exactly the sum over the active receives and the    *)
(* limits hold, on every kind of file system and whatever fails: the slot    *)
(* taken by startFileReceive is given back once on every way out.            *)
THEOREM ReceiveAdmission == Spec => []AdmissionExact
<1>1. Init => AdmissionInv
  BY NothingAdmitted DEF Init
<1>2. AdmissionInv /\ [Next]_vars => AdmissionInv'
  BY AdmissionStep
<1>3. AdmissionInv => AdmissionExact
  <2> SUFFICES ASSUME AdmissionInv PROVE AdmissionExact
    OBVIOUS
  <2>1. \A i \in Ids : Admitted[i] = Reserved(i)
    BY DEF Admitted
  <2>2. UNION {{i} \X (1..Reserved(i)) : i \in Ids} = Bytes(Ids, Admitted)
    BY <2>1 DEF Bytes
  <2> QED BY <2>2 DEF AdmissionExact, AdmissionBounded, AdmissionInv
<1> QED BY <1>1, <1>2, <1>3, PTL DEF Spec

-----------------------------------------------------------------------------
(* The type                                                                 *)

(* What AdmissionInv does not say of the type, and that the recovery works   *)
(* on records there are.                                                     *)
DiskType ==
    /\ file \in [Names -> FileType \cup {None}]
    /\ parts \subseteq PartType
    /\ rec \in [Ids -> RecordType \cup {None}]
RestType ==
    /\ mode \in {"down", "recovering", "serving", "refusing"}
    /\ req \in [Requests -> ReqType]
    /\ scan \in ScanType
    /\ crashes \in Nat /\ moves \in Nat /\ touched \subseteq Names
Scanned == \A i \in Ids : i \in scan.todo \/ i = scan.cur => rec[i] # None
TypeInv == AdmissionInv /\ DiskType /\ RestType /\ Scanned

LEMMA TypeInvType ==
    ASSUME TypeInv
    PROVE  TypeOK /\ \A i \in Ids : run[i].pc # "idle" => run[i].offer \in Offers
BY FS_CardinalityType DEF TypeInv, AdmissionInv, MemoryOK, DiskType, RestType, TypeOK

(* The file a receive lands, complete or not.                                *)
LEMMA LandedType ==
    ASSUME TypeInv, NEW i \in Ids, run[i].pc # "idle", NEW l \in BOOLEAN
    PROVE  /\ Landed(i, l) \in FileType
           /\ [Landed(i, l) EXCEPT !.data = Partial] \in FileType
<1>1. run[i].att \in Nat /\ run[i].offer.data \in Data
  BY TypeInvType DEF TypeOK, RunType, Data
<1> QED BY <1>1 DEF Landed, FileType

(* A save by the receive of i.                                               *)
LEMMA SavingType ==
    ASSUME TypeInv, NEW i \in Ids, run[i].pc # "idle", NEW s \in RecordStates,
           NEW r \in {Record(i, s), Final(i, s)}, Save(i, r) \/ rec' = rec
    PROVE  rec' \in [Ids -> RecordType \cup {None}] /\ \A j \in Ids : rec[j] # None => rec'[j] # None
<1>1. r \in RecordType /\ r # None /\ rec \in [Ids -> RecordType \cup {None}]
  BY TypeInvType, RecordMade, ReceiveConstants DEF TypeOK
<1> HIDE DEF Record, Final
<1> QED BY <1>1 DEF Save

LEMMA ReceiveTypes ==
    ASSUME TypeInv, NEW i \in Ids, Receive(i)
    PROVE  DiskType' /\ RestType' /\ Scanned'
<1>0. /\ run[i].pc # "idle" /\ UNCHANGED <<mode, req, scan, env>> /\ PartOf(i) \in PartType
      /\ run[i] \in RunType
  BY TypeInvType DEF TypeOK, Receive, SavePreparing, SaveReady, SaveTransferring, OpenPart, PayloadVerified,
         ReceiveThrows, SaveCommitting, SaveThen, Link, Rename, CopyBegins, CopyEnds, DropPart,
         SaveCommitted, WriteAck, SaveFailure, CleanUp, PartOf, PartType, RunType
<1>1. RestType'
  BY <1>0 DEF TypeInv, RestType, env
<1>2. parts' \subseteq PartType
  BY <1>0 DEF TypeInv, DiskType, Receive, SavePreparing, SaveReady, SaveTransferring, OpenPart,
         PayloadVerified, ReceiveThrows, SaveCommitting, SaveThen, Link, Rename, CopyBegins, CopyEnds,
         DropPart, SaveCommitted, WriteAck, SaveFailure, CleanUp, disk
<1>3. file' \in [Names -> FileType \cup {None}]
  <2>1. CASE Link(i) \/ Rename(i) \/ CopyBegins(i) \/ CopyEnds(i)
    BY <1>0, <2>1, LandedType DEF Link, Rename, CopyBegins, CopyEnds, Claim, TypeInv, DiskType
  <2>2. CASE ~(Link(i) \/ Rename(i) \/ CopyBegins(i) \/ CopyEnds(i))
    BY <2>2 DEF TypeInv, DiskType, Receive, SavePreparing, SaveReady, SaveTransferring, OpenPart,
         PayloadVerified, ReceiveThrows, SaveCommitting, SaveThen, DropPart, SaveCommitted,
         WriteAck, SaveFailure, CleanUp, disk
  <2> QED BY <2>1, <2>2
<1>4. rec' \in [Ids -> RecordType \cup {None}] /\ \A j \in Ids : rec[j] # None => rec'[j] # None
  <2>1. CASE \/ SavePreparing(i) \/ SaveReady(i) \/ SaveTransferring(i) \/ SaveCommitting(i)
    BY <1>0, <2>1, SavingType DEF SavePreparing, SaveReady, SaveTransferring, SaveCommitting, SaveThen,
         SaveThrows, RecordStates
  <2>2. CASE SaveCommitted(i)
    BY <1>0, <2>2, SavingType DEF SaveCommitted, SaveThrows, RecordStates
  <2>3. CASE SaveFailure(i)
    <3>1. PICK s \in RecordStates : FailureRecord(i) \in {Record(i, s), Final(i, s)}
      BY DEF FailureRecord, RecordStates
    <3>2. rec' = rec \/ Save(i, FailureRecord(i))
      BY <2>3 DEF SaveFailure, SaveThrows
    <3> HIDE DEF FailureRecord
    <3> QED BY <1>0, <3>1, <3>2, SavingType
  <2>4. CASE ~(\/ SavePreparing(i) \/ SaveReady(i) \/ SaveTransferring(i) \/ SaveCommitting(i)
               \/ SaveCommitted(i) \/ SaveFailure(i))
    BY <2>4 DEF TypeInv, DiskType, Receive, OpenPart, PayloadVerified, ReceiveThrows, Link, Rename,
         CopyBegins, CopyEnds, DropPart, WriteAck, CleanUp, disk
  <2> QED BY <2>1, <2>2, <2>3, <2>4
<1>5. DiskType'
  BY <1>2, <1>3, <1>4 DEF DiskType
<1>6. Scanned'
  BY <1>0, <1>4 DEF TypeInv, Scanned
<1> QED BY <1>1, <1>5, <1>6

LEMMA RecoverTypes ==
    ASSUME TypeInv, Recover
    PROVE  DiskType' /\ RestType' /\ Scanned'
<1>0. TypeOK /\ scan \in ScanType /\ UNCHANGED <<file, req, env>> /\ None \notin Ids
  <2>1. TypeOK /\ scan \in ScanType /\ None \notin Ids
    BY TypeInvType, ReceiveConstants DEF TypeOK
  <2>2. UNCHANGED <<file, req, env>>
    BY DEF Recover, Start, RecoverVerify, RecoverDropPart, RecoverSave, RecoverDone, disk
  <2> QED BY <2>1, <2>2
<1>1. NoScan \in ScanType /\ NoScan.todo = {} /\ NoScan.cur = None
  BY DEF NoScan, ScanType
<1>2. CASE Start
  <2> DEFINE T == {i \in Ids : rec[i] # None /\ rec[i].state \notin Committed \cup Failed}
  <2>1. PICK S \in SUBSET Ids : scan' = [NoScan EXCEPT !.todo = S] /\ \A i \in S : rec[i] # None
    <3>1. scan' = [NoScan EXCEPT !.todo = T] /\ T \in SUBSET Ids /\ \A i \in T : rec[i] # None
      BY <1>2 DEF Start
    <3> HIDE DEF T
    <3> QED BY <3>1
  <2>2. scan' \in ScanType /\ scan'.todo = S /\ scan'.cur = None
    BY <2>1 DEF NoScan, ScanType
  <2> QED BY <1>0, <1>2, <2>1, <2>2 DEF Start, TypeInv, DiskType, RestType, Scanned, env, disk
<1>3. ASSUME NEW i \in Ids, RecoverVerify(i) PROVE DiskType' /\ RestType' /\ Scanned'
  <2>1. PICK b \in BOOLEAN : scan' = [scan EXCEPT !.cur = i, !.pc = "drop", !.ok = b]
    BY <1>3 DEF RecoverVerify, Owns
  <2>2. scan' \in ScanType /\ scan'.todo = scan.todo /\ scan'.cur = i /\ i \in scan.todo
    BY <1>0, <1>3, <2>1 DEF ScanType, RecoverVerify
  <2> QED BY <1>0, <1>3, <2>2 DEF RecoverVerify, TypeInv, DiskType, RestType, Scanned, env, disk
<1>4. CASE RecoverDropPart
  <2>1. scan' \in ScanType /\ scan'.todo = scan.todo /\ scan'.cur = scan.cur
    BY <1>0, <1>4 DEF RecoverDropPart, ScanType
  <2>2. parts' \subseteq parts /\ UNCHANGED <<mode, rec>>
    BY <1>4 DEF RecoverDropPart
  <2> QED BY <1>0, <2>1, <2>2 DEF TypeInv, DiskType, RestType, Scanned, env
<1>5. CASE RecoverSave
  <2>1. PICK i \in Ids : i = scan.cur /\ rec[i] # None
    BY <1>0, <1>5 DEF RecoverSave, TypeInv, Scanned, ScanType
  <2> DEFINE r == Recovered(i)
  <2>2. r \in RecordType /\ r # None
    <3>1. rec[i] \in RecordType /\ 0 \in 0..MaxNames
      BY <1>0, <2>1, ReceiveConstants DEF TypeOK
    <3>2. Recovered(i) \in RecordType
      BY <3>1 DEF Recovered, RecordType, RecordStates
    <3> QED BY <3>2, ReceiveConstants
  <2>3. rec' = rec \/ rec' = [rec EXCEPT ![i] = r]
    BY <1>5, <2>1 DEF RecoverSave, Save, SaveThrows
  <2> HIDE DEF r
  <2>4. rec' \in [Ids -> RecordType \cup {None}] /\ \A j \in Ids : rec[j] # None => rec'[j] # None
    BY <1>0, <2>2, <2>3 DEF TypeOK
  <2>6. scan' \in ScanType /\ scan'.todo \subseteq scan.todo /\ scan'.cur = None
    <3>1. CASE scan' = [NoScan EXCEPT !.todo = scan.todo \ {scan.cur}]
      BY <1>0, <3>1 DEF NoScan, ScanType
    <3> QED BY <1>1, <1>5, <3>1 DEF RecoverSave
  <2>7. mode' \in {mode, "refusing"} /\ parts' = parts
    BY <1>5 DEF RecoverSave
  <2> QED BY <1>0, <2>4, <2>6, <2>7 DEF TypeInv, DiskType, RestType, Scanned, env
<1>6. CASE RecoverDone
  BY <1>0, <1>6 DEF RecoverDone, TypeInv, DiskType, RestType, Scanned, env, disk
<1> QED BY <1>2, <1>3, <1>4, <1>5, <1>6 DEF Recover

LEMMA TypeStep ==
    ASSUME TypeInv, [Next]_vars
    PROVE  TypeInv'
<1>0. TypeOK /\ AdmissionInv'
  BY TypeInvType, AdmissionStep DEF TypeInv
<1> DEFINE Kept == DiskType' /\ RestType' /\ Scanned'
<1> SUFFICES Kept
  BY <1>0 DEF TypeInv
<1>1. ASSUME NEW q \in Requests, Prepare(q) PROVE Kept
  <2>1. UNCHANGED <<mode, file, parts, rec, scan, env>>
    BY <1>1 DEF Prepare, PrepareRefused, PrepareLoad, PrepareAnswered, PrepareAdmits, disk
  <2>2. rec[Asks[q].id] \in RecordType \cup {None}
    BY <1>0 DEF TypeOK, Ids, Offers, Requests
  <2>3. /\ Answered \in ReqType
        /\ [pc |-> "loaded", existing |-> rec[Asks[q].id]] \in ReqType
    BY <2>2 DEF Answered, ReqType
  <2>4. req' \in [Requests -> ReqType]
    BY <1>0, <1>1, <2>3 DEF Prepare, PrepareRefused, PrepareLoad, PrepareAnswered, PrepareAdmits, TypeOK
  <2> QED BY <2>1, <2>4 DEF TypeInv, DiskType, RestType, Scanned, env
<1>2. ASSUME NEW i \in Ids, Cancel(i) PROVE Kept
  BY <1>2 DEF Cancel, disk, env, TypeInv, DiskType, RestType, Scanned
<1>3. ASSUME NEW i \in Ids, ResolveUri(i) PROVE Kept
  <2> DEFINE r == [rec[i] EXCEPT !.state = "COMPLETED"]
  <2>1. rec[i] \in RecordType
    BY <1>0, <1>3 DEF ResolveUri, TypeOK
  <2>2. r \in RecordType /\ r # None
    BY <2>1, ReceiveConstants DEF RecordType, RecordStates
  <2>3. rec' = [rec EXCEPT ![i] = r]
    BY <1>3 DEF ResolveUri, Save
  <2> HIDE DEF r
  <2> QED BY <1>0, <1>3, <2>2, <2>3 DEF ResolveUri, env, TypeInv, DiskType, RestType, Scanned
<1>4. CASE Crash
  <2>1. NoScan \in ScanType /\ NoScan.todo = {} /\ NoScan.cur = None
    BY DEF NoScan, ScanType
  <2>2. Answered \in ReqType
    BY DEF Answered, ReqType
  <2> QED BY <1>0, <1>4, <2>1, <2>2, ReceiveConstants
          DEF Crash, disk, TypeOK, TypeInv, DiskType, RestType, Scanned
<1>5. CASE UserActs
  <2>1. PICK n \in Names : UserDeletes(n) \/ \E d \in UserData : UserCreates(n, d)
    BY <1>5 DEF UserActs
  <2>2. \A d \in UserData : [by |-> User, att |-> 0, linked |-> FALSE, data |-> d] \in FileType
    BY DEF FileType, Data
  <2>3. /\ file' \in [Names -> FileType \cup {None}] /\ moves' \in Nat /\ touched' \subseteq Names
        /\ UNCHANGED <<mode, parts, rec, req, scan, crashes>>
    BY <1>0, <2>1, <2>2 DEF UserDeletes, UserCreates, TypeOK
  <2> QED BY <2>3 DEF TypeInv, DiskType, RestType, Scanned
<1>6. CASE UNCHANGED vars
  BY <1>6 DEF vars, TypeInv, DiskType, RestType, Scanned
<1> QED BY <1>1, <1>2, <1>3, <1>4, <1>5, <1>6, ReceiveTypes, RecoverTypes DEF Next

LEMMA TypeInit == ASSUME Init PROVE TypeInv
<1>1. AdmissionInv
  BY NothingAdmitted DEF Init
<1>2. NoScan \in ScanType /\ NoScan.todo = {} /\ NoScan.cur = None
  BY DEF NoScan, ScanType
<1>3. [pc |-> "new", existing |-> None] \in ReqType
  BY DEF ReqType
<1> QED BY <1>1, <1>2, <1>3, ReceiveConstants DEF Init, TypeInv, DiskType, RestType, Scanned

(* The state of the receiving side keeps its type, on every kind of file     *)
(* system: a save or a verdict never concerns a record there is not.         *)
THEOREM ReceiveTypeCorrect == Spec => []TypeOK
<1>1. TypeInv => TypeOK
  BY TypeInvType
<1> QED BY <1>1, TypeInit, TypeStep, PTL DEF Spec
=============================================================================
