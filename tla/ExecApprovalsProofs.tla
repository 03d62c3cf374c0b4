------------------------- MODULE ExecApprovalsProofs -------------------------
(***************************************************************************)
(* Theorems about ExecApprovals, for any number of writers, any documents, *)
(* any number of attempts at the lock and any of the faults: writers       *)
(* exclude one another, the socket survives a round trip, and the writers  *)
(* together implement PolicyRegister.                                      *)
(*                                                                         *)
(* The last part is about SystemRun, which runs what was approved, for any *)
(* number of handlers, plans and commands: a process starts only with what *)
(* an operator approved, and the answer tells what became of it.           *)
(***************************************************************************)
EXTENDS ExecApprovals, SystemRun, TLAPS

(* A descriptor is open from OpenLock to the end of the call.              *)
Opened == \A w \in Writers : job[w].pc \notin {"idle", "open"} => job[w].fd # 0

(* flock(2): two writers never hold the same inode.                        *)
OneHolder ==
    \A v, w \in Writers : \A i \in Inodes : Holds(v, i) /\ Holds(w, i) => v = w

(* Past its check, and unless the lock file was swapped since, a writer    *)
(* holds the inode the path names.                                         *)
Guarded == ~exposed => \A w \in Writers : Critical(w) => job[w].fd = lock

(* A call carries the document it was sent.                                *)
Carried == \A w \in Writers : job[w].pc # "idle" => job[w].file \in Sent

(* Every read that fails is one of a missing file.                         *)
Reliable == "read" \notin Faults

(* The caller names a document.                                            *)
Hashed(w) == job[w].base \notin {None, Missing}

(* What is staged was merged with a document there has been.  Unless the   *)
(* lock was swapped, or a read failed for a caller that names none, it is  *)
(* the one on disk, and the one the caller named.                          *)
MergedFrom(w, d) ==
    /\ job[w].merged = MergeSocket(job[w].file, d)
    /\ ~exposed /\ (Reliable \/ Hashed(w)) => d = doc /\ BaseMatches(job[w].base, doc)
Staged ==
    \A w \in Writers : job[w].pc \in {"stage", "commit"} => \E d \in Contents : MergedFrom(w, d)

(* Writing needs a merged document.                                        *)
MergedTyped == \A w \in Writers : job[w].pc \in {"stage", "commit"} => job[w].merged \in Documents

IInv == TypeOK /\ Opened /\ OneHolder /\ Guarded /\ Carried /\ MergedTyped

USE FaultAssumption, BoundAssumption, DistinctAssumption, DocumentAssumption
-----------------------------------------------------------------------------
(* Storing a document over another gives a document.                       *)
LEMMA MergeTyped == ASSUME NEW f \in Documents, NEW c \in Contents
                    PROVE  MergeSocket(f, c) \in Documents
<1>1. /\ Parsed(c).path \in SocketPaths \cup {None}
      /\ Parsed(c).token \in Tokens \cup {None}
  BY DEF Parsed, DefaultDocument, Documents
<1>2. QED BY <1>1 DEF MergeSocket, PickPath, PickToken, Documents

(* A caller that sends back what get showed keeps the socket.              *)
LEMMA MergeEcho ==
  ASSUME NEW d \in Documents, NEW f \in Documents,
         f = [RedactDocument(d) EXCEPT !.policy = f.policy]
  PROVE  MergeSocket(f, d).path = d.path /\ MergeSocket(f, d).token = d.token
<1>1. f.token = None /\ f.path = IF d.path = None THEN None ELSE Trimmed(d.path)
  BY DEF RedactDocument, Documents
<1>2. Parsed(d) = d BY DEF Parsed
<1>3. QED BY <1>1, <1>2 DEF MergeSocket, PickPath, PickToken, Documents

LEMMA SnapshotTyped == TypeOK => Snapshots \subseteq Contents
  BY DEF TypeOK, Snapshots, Contents

LEMMA NewLockFree ==
  ASSUME TypeOK, NewLock
  PROVE  /\ lock' \in Inodes /\ lock' # 0 /\ lock' # lock
         /\ \A w \in Writers : job[w].fd # lock'
  BY DEF TypeOK, NewLock, FreeInodes

LEMMA IdleTyped == Idle \in Jobs
<1>1. 0 \in 0..(Attempts - 1) OBVIOUS
<1>2. QED BY <1>1 DEF Idle, Jobs, PCs

LEMMA InitIInv == Init => IInv
<1> SUFFICES ASSUME Init PROVE IInv OBVIOUS
<1>1. TypeOK BY IdleTyped DEF Init, TypeOK
<1>2. \A w \in Writers : job[w].pc = "idle" BY DEF Init, Idle
<1>3. QED
  BY <1>1, <1>2 DEF IInv, Opened, OneHolder, Guarded, Carried, MergedTyped, Holds, Critical

LEMMA IInvExcludes == IInv => WritersExclude
<1> SUFFICES ASSUME IInv, ~exposed, NEW v \in Writers, NEW w \in Writers,
                    Critical(v), Critical(w)
             PROVE  v = w
  BY DEF WritersExclude
<1>1. job[v].fd = lock /\ job[w].fd = lock /\ lock # 0
  BY DEF IInv, Guarded, Opened, Critical
<1>2. lock \in Inodes BY <1>1 DEF IInv, TypeOK
<1>3. Holds(v, lock) /\ Holds(w, lock) BY <1>1 DEF Holds, Critical
<1>4. QED BY <1>2, <1>3 DEF IInv, OneHolder

LEMMA StutterKeeps == IInv /\ UNCHANGED vars => IInv'
  BY DEF IInv, TypeOK, Opened, OneHolder, Guarded, Carried, MergedTyped, Holds, Critical, vars

(* The end of a call, for whatever reason.                                 *)
LEMMA FinishKeeps ==
  ASSUME IInv, NEW w \in Writers, Finish(w), doc' \in Contents, UNCHANGED lock,
         seen' \in [Writers -> Contents \cup {None}]
  PROVE  IInv'
<1>1. /\ job' = [job EXCEPT ![w] = Idle]
      /\ exposed' = (exposed /\ \E v \in Writers \ {w} : Critical(v))
  BY DEF Finish
<1>2. Idle \in Jobs BY IdleTyped
<1>3. TypeOK' BY <1>1, <1>2 DEF IInv, TypeOK
<1>4. \A v \in Writers : job'[v] = IF v = w THEN Idle ELSE job[v]
  BY <1>1 DEF IInv, TypeOK
<1>5. Opened' /\ Carried' /\ MergedTyped'
  BY <1>4 DEF IInv, Opened, Carried, MergedTyped, Idle
<1>6. OneHolder' BY <1>4 DEF IInv, OneHolder, Holds, Idle
<1>7. Guarded'
  <2>1. ~exposed' => ~exposed \/ \A v \in Writers \ {w} : ~Critical(v) BY <1>1
  <2>2. \A v \in Writers : Critical(v)' <=> v # w /\ Critical(v)
    BY <1>4 DEF Critical, Idle
  <2>3. \A v \in Writers \ {w} : job'[v].fd = job[v].fd BY <1>4
  <2>4. QED BY <2>1, <2>2, <2>3 DEF IInv, Guarded
<1>8. QED BY <1>3, <1>5, <1>6, <1>7 DEF IInv

(* A step within a call that leaves the lock file and its holders alone.   *)
LEMMA GoesOn ==
  ASSUME IInv, NEW w \in Writers, NEW j \in Jobs,
         job[w].pc # "idle", j.pc # "idle",
         job' = [job EXCEPT ![w] = j],
         doc' \in Contents, UNCHANGED <<lock, seen, exposed>>,
         j.fd = job[w].fd, j.file = job[w].file,
         job[w].pc # "open", j.pc # "open",
         j.pc # "wait" => \A v \in Writers \ {w} : ~Holds(v, j.fd),
         j.pc \in {"read", "stage", "commit", "answer"} => Critical(w) \/ j.fd = lock,
         j.pc \in {"stage", "commit"} => j.merged \in Documents
  PROVE  IInv'
<1>1. TypeOK' BY DEF IInv, TypeOK
<1>2. \A v \in Writers : job'[v] = IF v = w THEN j ELSE job[v]
  BY DEF IInv, TypeOK
<1>3. Opened' /\ Carried' /\ MergedTyped'
  BY <1>2 DEF IInv, Opened, Carried, MergedTyped
<1>4. OneHolder' BY <1>2 DEF IInv, OneHolder, Holds
<1>5. Guarded' BY <1>2 DEF IInv, Guarded, Critical
<1>6. QED BY <1>1, <1>3, <1>4, <1>5 DEF IInv

(* A holder's inode is its own.                                            *)
LEMMA HoldsAlone ==
  ASSUME IInv, NEW w \in Writers, job[w].pc \in {"check", "read", "stage", "commit", "answer"}
  PROVE  \A v \in Writers \ {w} : ~Holds(v, job[w].fd)
<1>1. job[w].fd \in Inodes BY DEF IInv, TypeOK, Jobs, Opened
<1>2. QED BY <1>1 DEF IInv, OneHolder, Holds

LEMMA GetKeeps == ASSUME IInv, NEW w \in Writers, Get(w) PROVE IInv'
<1>1. seen' \in [Writers -> Contents \cup {None}]
  BY SnapshotTyped DEF IInv, TypeOK, Get
<1>2. UNCHANGED <<doc, lock, job, exposed>> BY DEF Get
<1>3. QED
  BY <1>1, <1>2 DEF IInv, TypeOK, Opened, OneHolder, Guarded, Carried, MergedTyped, Holds, Critical

LEMMA SetKeeps == ASSUME IInv, NEW w \in Writers, Set(w) PROVE IInv'
<1>1. PICK f \in Sent, b \in {None, seen[w]} :
          job' = [job EXCEPT ![w] = [Idle EXCEPT !.pc = "open", !.base = b, !.file = f]]
  BY DEF Set
<1> DEFINE j == [Idle EXCEPT !.pc = "open", !.base = b, !.file = f]
<1>2. j \in Jobs
  <2>1. b \in Contents \cup {None} BY DEF IInv, TypeOK
  <2>2. QED BY <2>1, IdleTyped DEF Jobs, PCs
<1>3. j.pc = "open" /\ j.file = f BY DEF Idle
<1>4. UNCHANGED <<doc, lock, seen, exposed>> BY DEF Set
<1> HIDE DEF j
<1>5. TypeOK' BY <1>1, <1>2, <1>4 DEF IInv, TypeOK, j
<1>6. \A v \in Writers : job'[v] = IF v = w THEN j ELSE job[v]
  BY <1>1 DEF IInv, TypeOK, j
<1>7. Opened' /\ Carried' /\ MergedTyped'
  BY <1>3, <1>6 DEF IInv, Opened, Carried, MergedTyped
<1>8. OneHolder' BY <1>3, <1>6 DEF IInv, OneHolder, Holds
<1>9. Guarded' BY <1>3, <1>4, <1>6 DEF IInv, Guarded, Critical
<1>10. QED BY <1>5, <1>7, <1>8, <1>9 DEF IInv

(* A new lock file appears only when nobody past the check needs the old.  *)
LEMMA OpenLockKeeps == ASSUME IInv, NEW w \in Writers, OpenLock(w) PROVE IInv'
<1>1. job[w].pc = "open" /\ UNCHANGED <<doc, seen, exposed>> BY DEF OpenLock
<1>2. lock' \in Inodes /\ lock' # 0
  BY NewLockFree DEF OpenLock, IInv, TypeOK
<1>3. \A v \in Writers : Critical(v) /\ ~exposed => job[v].fd = lock'
  BY DEF OpenLock, IInv, Guarded, Opened, Critical
<1> DEFINE j == [job[w] EXCEPT !.pc = "wait", !.fd = lock']
<1>4. job' = [job EXCEPT ![w] = j] BY DEF OpenLock
<1>5. j \in Jobs /\ j.pc = "wait" /\ j.fd = lock' /\ j.file = job[w].file
  BY <1>2 DEF Jobs, PCs, IInv, TypeOK
<1> HIDE DEF j
<1>6. TypeOK' BY <1>1, <1>2, <1>4, <1>5 DEF IInv, TypeOK
<1>7. \A v \in Writers : job'[v] = IF v = w THEN j ELSE job[v]
  BY <1>4 DEF IInv, TypeOK
<1>8. Opened' /\ Carried' /\ MergedTyped'
  BY <1>1, <1>2, <1>5, <1>7 DEF IInv, Opened, Carried, MergedTyped
<1>9. OneHolder' BY <1>5, <1>7 DEF IInv, OneHolder, Holds
<1>10. Guarded' BY <1>1, <1>3, <1>5, <1>7 DEF IInv, Guarded, Critical
<1>11. QED BY <1>6, <1>8, <1>9, <1>10 DEF IInv

LEMMA FlockKeeps == ASSUME IInv, NEW w \in Writers, Flock(w) PROVE IInv'
<1> DEFINE j == [job[w] EXCEPT !.pc = "check"]
<1>1. job' = [job EXCEPT ![w] = j] BY DEF Flock, Goto
<1>2. j \in Jobs /\ j.pc = "check" /\ j.fd = job[w].fd /\ j.file = job[w].file
  BY DEF Jobs, PCs, IInv, TypeOK
<1>3. /\ job[w].pc = "wait" /\ UNCHANGED <<doc, lock, seen, exposed>>
      /\ \A v \in Writers \ {w} : ~Holds(v, j.fd)
  BY <1>2 DEF Flock
<1>4. doc' \in Contents BY <1>3 DEF IInv, TypeOK
<1> HIDE DEF j
<1>5. QED BY <1>1, <1>2, <1>3, <1>4, GoesOn

LEMMA CheckSameKeeps == ASSUME IInv, NEW w \in Writers, CheckSame(w) PROVE IInv'
<1> DEFINE j == [job[w] EXCEPT !.pc = "read"]
<1>1. job' = [job EXCEPT ![w] = j] BY DEF CheckSame, Goto
<1>2. j \in Jobs /\ j.pc = "read" /\ j.fd = job[w].fd /\ j.file = job[w].file
  BY DEF Jobs, PCs, IInv, TypeOK
<1>3. /\ job[w].pc = "check" /\ j.fd = lock /\ UNCHANGED <<doc, lock, seen, exposed>>
  BY <1>2 DEF CheckSame, LocksSameFile
<1>4. \A v \in Writers \ {w} : ~Holds(v, j.fd) BY <1>2, <1>3, HoldsAlone
<1>5. doc' \in Contents BY <1>3 DEF IInv, TypeOK
<1> HIDE DEF j
<1>6. QED BY <1>1, <1>2, <1>3, <1>4, <1>5, GoesOn

LEMMA CheckReplacedKeeps == ASSUME IInv, NEW w \in Writers, CheckReplaced(w) PROVE IInv'
<1>1. job[w].pc = "check" /\ UNCHANGED <<doc, lock, seen>> BY DEF CheckReplaced
<1>2. doc' \in Contents /\ seen' \in [Writers -> Contents \cup {None}]
  BY <1>1 DEF IInv, TypeOK
<1>3. CASE Finish(w) BY <1>1, <1>2, <1>3, FinishKeeps
<1>4. CASE /\ job[w].tries + 1 < Attempts
           /\ job' = [job EXCEPT ![w].pc = "open", ![w].fd = 0, ![w].tries = @ + 1]
           /\ UNCHANGED exposed
  <2> DEFINE j == [job[w] EXCEPT !.pc = "open", !.fd = 0, !.tries = @ + 1]
  <2>1. job' = [job EXCEPT ![w] = j] BY <1>4
  <2>2. j \in Jobs /\ j.pc = "open" /\ j.file = job[w].file
    BY <1>4 DEF Jobs, PCs, IInv, TypeOK
  <2> HIDE DEF j
  <2>3. TypeOK' BY <1>1, <1>4, <2>1, <2>2 DEF IInv, TypeOK
  <2>4. \A v \in Writers : job'[v] = IF v = w THEN j ELSE job[v]
    BY <2>1 DEF IInv, TypeOK
  <2>5. Opened' /\ Carried' /\ MergedTyped'
    BY <1>1, <2>2, <2>4 DEF IInv, Opened, Carried, MergedTyped
  <2>6. OneHolder' BY <2>2, <2>4 DEF IInv, OneHolder, Holds
  <2>7. Guarded' BY <1>1, <1>4, <2>2, <2>4 DEF IInv, Guarded, Critical
  <2>8. QED BY <2>3, <2>5, <2>6, <2>7 DEF IInv
<1>5. QED BY <1>3, <1>4 DEF CheckReplaced

LEMMA CompareKeeps == ASSUME IInv, NEW w \in Writers, Compare(w) PROVE IInv'
<1>1. job[w].pc = "read" /\ UNCHANGED <<doc, lock, seen>> BY DEF Compare
<1>2. doc' \in Contents /\ seen' \in [Writers -> Contents \cup {None}]
  BY <1>1 DEF IInv, TypeOK
<1>3. CASE Finish(w) BY <1>1, <1>2, <1>3, FinishKeeps
<1>4. ASSUME NEW s \in Snapshots, UNCHANGED exposed,
             job' = [job EXCEPT ![w].pc = "stage", ![w].merged = MergeSocket(job[w].file, s)]
      PROVE  IInv'
  <2> DEFINE j == [job[w] EXCEPT !.pc = "stage", !.merged = MergeSocket(job[w].file, s)]
  <2>1. job' = [job EXCEPT ![w] = j] BY <1>4
  <2>2. MergeSocket(job[w].file, s) \in Documents
    BY <1>1, MergeTyped, SnapshotTyped DEF IInv, Carried
  <2>3. /\ j \in Jobs /\ j.pc = "stage" /\ j.fd = job[w].fd /\ j.file = job[w].file
        /\ j.merged \in Documents
    BY <2>2 DEF Jobs, PCs, IInv, TypeOK
  <2>4. \A v \in Writers \ {w} : ~Holds(v, j.fd) BY <1>1, <2>3, HoldsAlone
  <2>5. Critical(w) BY <1>1 DEF Critical
  <2> HIDE DEF j
  <2>6. QED BY <1>1, <1>2, <1>4, <2>1, <2>3, <2>4, <2>5, GoesOn
<1>5. QED BY <1>3, <1>4 DEF Compare

LEMMA StageKeeps == ASSUME IInv, NEW w \in Writers, Stage(w) PROVE IInv'
<1> DEFINE j == [job[w] EXCEPT !.pc = "commit"]
<1>1. job' = [job EXCEPT ![w] = j] BY DEF Stage, Goto
<1>2. job[w].pc = "stage" /\ UNCHANGED <<doc, lock, seen, exposed>> BY DEF Stage
<1>3. /\ j \in Jobs /\ j.pc = "commit" /\ j.fd = job[w].fd /\ j.file = job[w].file
      /\ j.merged \in Documents
  BY <1>2 DEF Jobs, PCs, IInv, TypeOK, MergedTyped
<1>4. \A v \in Writers \ {w} : ~Holds(v, j.fd) BY <1>2, <1>3, HoldsAlone
<1>5. Critical(w) /\ doc' \in Contents BY <1>2 DEF Critical, IInv, TypeOK
<1> HIDE DEF j
<1>6. QED BY <1>1, <1>2, <1>3, <1>4, <1>5, GoesOn

LEMMA ReplaceKeeps == ASSUME IInv, NEW w \in Writers, Replace(w) PROVE IInv'
<1> DEFINE j == [job[w] EXCEPT !.pc = "answer"]
<1>1. job' = [job EXCEPT ![w] = j] BY DEF Replace, Goto
<1>2. job[w].pc = "commit" /\ UNCHANGED <<lock, seen, exposed>> BY DEF Replace
<1>3. j \in Jobs /\ j.pc = "answer" /\ j.fd = job[w].fd /\ j.file = job[w].file
  BY <1>2 DEF Jobs, PCs, IInv, TypeOK
<1>4. \A v \in Writers \ {w} : ~Holds(v, j.fd) BY <1>2, <1>3, HoldsAlone
<1>5. Critical(w) /\ doc' \in Contents
  BY <1>2 DEF Replace, Critical, IInv, MergedTyped, Contents
<1> HIDE DEF j
<1>6. QED BY <1>1, <1>2, <1>3, <1>4, <1>5, GoesOn

(* Answers, failures and crashes end the call.                             *)
LEMMA EndKeeps ==
  ASSUME IInv, NEW w \in Writers, Answer(w) \/ IoError(w) \/ Crash(w) PROVE IInv'
<1>1. Finish(w) /\ UNCHANGED <<doc, lock>> BY DEF Answer, IoError, Crash
<1>2. seen' \in [Writers -> Contents \cup {None}]
  BY SnapshotTyped DEF Answer, IoError, Crash, IInv, TypeOK
<1>3. doc' \in Contents BY <1>1 DEF IInv, TypeOK
<1>4. QED BY <1>1, <1>2, <1>3, FinishKeeps

LEMMA SwapLockKeeps == ASSUME IInv, SwapLock PROVE IInv'
<1>1. /\ UNCHANGED <<doc, job, seen>>
      /\ exposed' = (exposed \/ \E w \in Writers : Critical(w))
  BY DEF SwapLock
<1>2. lock' \in Inodes \cup {0} BY NewLockFree DEF SwapLock, IInv
<1>3. TypeOK' BY <1>1, <1>2 DEF IInv, TypeOK
<1>4. Guarded' BY <1>1 DEF Guarded, Critical
<1>5. QED
  BY <1>1, <1>3, <1>4 DEF IInv, Opened, OneHolder, Carried, MergedTyped, Holds

LEMMA NextKeeps == IInv /\ [Next]_vars => IInv'
  BY StutterKeeps, GetKeeps, SetKeeps, OpenLockKeeps, FlockKeeps, CheckSameKeeps,
     CheckReplacedKeeps, CompareKeeps, StageKeeps, ReplaceKeeps, EndKeeps, SwapLockKeeps
  DEF Next, Step

(* For any number of writers, and whatever happens to the lock file, to a  *)
(* read or to a process, the values keep their types.                      *)
THEOREM TypeCorrect == Spec => []TypeOK
<1>1. IInv => TypeOK BY DEF IInv
<1>2. QED BY <1>1, InitIInv, NextKeeps, PTL DEF Spec

(* _approvals_write_lock: no two writers are between check and release,    *)
(* unless the lock file is replaced while one of them is.                  *)
THEOREM Exclusion == Spec => []WritersExclude
  BY InitIInv, NextKeeps, IInvExcludes, PTL DEF Spec
-----------------------------------------------------------------------------
(* What sets do to the document.                                           *)
RInv == IInv /\ Staged

(* What is staged stays good as long as nothing is written and the lock is *)
(* not found stable again.                                                 *)
LEMMA StagedKept ==
  ASSUME Staged, UNCHANGED doc,
         \A v \in Writers : job'[v].pc \in {"stage", "commit"} =>
             /\ job[v].pc \in {"stage", "commit"}
             /\ job'[v].merged = job[v].merged
             /\ job'[v].file = job[v].file /\ job'[v].base = job[v].base
             /\ ~exposed' => ~exposed
  PROVE  Staged'
<1> SUFFICES ASSUME NEW v \in Writers, job'[v].pc \in {"stage", "commit"}
             PROVE  \E d \in Contents : MergedFrom(v, d)'
  BY DEF Staged
<1>1. PICK d \in Contents : MergedFrom(v, d) BY DEF Staged
<1>2. MergedFrom(v, d)' BY <1>1 DEF MergedFrom, Hashed
<1>3. QED BY <1>2

LEMMA StagedFinish ==
  ASSUME IInv, Staged, NEW w \in Writers, Finish(w), UNCHANGED doc PROVE Staged'
<1>1. /\ \A v \in Writers : job'[v] = IF v = w THEN Idle ELSE job[v]
      /\ exposed' = (exposed /\ \E v \in Writers \ {w} : Critical(v))
  BY DEF Finish, IInv, TypeOK
<1>2. ASSUME NEW v \in Writers, job'[v].pc \in {"stage", "commit"}
      PROVE  /\ job[v].pc \in {"stage", "commit"} /\ job'[v] = job[v]
             /\ ~exposed' => ~exposed
  <2>1. v # w /\ job'[v] = job[v] BY <1>1, <1>2 DEF Idle
  <2>2. Critical(v) BY <1>2, <2>1 DEF Critical
  <2>3. QED BY <1>1, <1>2, <2>1, <2>2
<1>3. QED BY <1>2, StagedKept

LEMMA StagedGoto ==
  ASSUME IInv, Staged, NEW w \in Writers, NEW pc, Goto(w, pc), UNCHANGED <<doc, exposed>>,
         pc \in {"stage", "commit"} => job[w].pc \in {"stage", "commit"}
  PROVE  Staged'
<1>1. \A v \in Writers : job'[v] = IF v = w THEN [job[v] EXCEPT !.pc = pc] ELSE job[v]
  BY DEF Goto, IInv, TypeOK
<1>2. \A v \in Writers : /\ job'[v].merged = job[v].merged /\ job'[v].file = job[v].file
                         /\ job'[v].base = job[v].base
                         /\ job'[v].pc = IF v = w THEN pc ELSE job[v].pc
  BY <1>1 DEF IInv, TypeOK, Jobs
<1>3. QED BY <1>2, StagedKept

(* The comparison stages what was read: a caller that names a document is  *)
(* refused when the read fails.                                            *)
LEMMA StagedCompare ==
  ASSUME IInv, Staged, NEW w \in Writers, Compare(w) PROVE Staged'
<1>1. UNCHANGED doc BY DEF Compare
<1>2. CASE Finish(w) BY <1>1, <1>2, StagedFinish
<1>3. ASSUME NEW s \in Snapshots, BaseMatches(job[w].base, s), UNCHANGED exposed,
             job' = [job EXCEPT ![w].pc = "stage",
                                ![w].merged = MergeSocket(job[w].file, s)]
      PROVE  Staged'
  <2>1. \A v \in Writers \ {w} : job'[v] = job[v] BY <1>3 DEF IInv, TypeOK
  <2>2. /\ job'[w].merged = MergeSocket(job[w].file, s)
        /\ job'[w].file = job[w].file /\ job'[w].base = job[w].base
    BY <1>3 DEF IInv, TypeOK, Jobs
  <2>3. Reliable \/ Hashed(w) => s = doc
    BY <1>3 DEF Snapshots, Reliable, Hashed, BaseMatches
  <2>4. MergedFrom(w, s)' BY <1>1, <1>3, <2>2, <2>3 DEF MergedFrom, Hashed
  <2>5. ASSUME NEW v \in Writers \ {w}, job'[v].pc \in {"stage", "commit"}
        PROVE  \E d \in Contents : MergedFrom(v, d)'
    <3>1. PICK d \in Contents : MergedFrom(v, d) BY <2>1, <2>5 DEF Staged
    <3>2. MergedFrom(v, d)' BY <1>1, <1>3, <2>1, <3>1 DEF MergedFrom, Hashed
    <3>3. QED BY <3>2
  <2>6. s \in Contents BY SnapshotTyped DEF IInv
  <2>7. QED BY <2>4, <2>5, <2>6 DEF Staged
<1>4. QED BY <1>2, <1>3 DEF Compare

(* A write finds nobody else staged, unless the lock was swapped.          *)
LEMMA StagedReplace ==
  ASSUME IInv, Staged, NEW w \in Writers, Replace(w) PROVE Staged'
<1>1. /\ job[w].pc = "commit" /\ UNCHANGED exposed
      /\ \A v \in Writers : job'[v] = IF v = w THEN [job[v] EXCEPT !.pc = "answer"] ELSE job[v]
  BY DEF Replace, Goto, IInv, TypeOK
<1> SUFFICES ASSUME NEW v \in Writers, job'[v].pc \in {"stage", "commit"}
             PROVE  \E d \in Contents : MergedFrom(v, d)'
  BY DEF Staged
<1>2. v # w /\ job'[v] = job[v] BY <1>1 DEF IInv, TypeOK, Jobs
<1>3. exposed'
  BY <1>1, <1>2, IInvExcludes DEF WritersExclude, Critical
<1>4. PICK d \in Contents : MergedFrom(v, d) BY <1>2 DEF Staged
<1>5. MergedFrom(v, d)' BY <1>2, <1>3, <1>4 DEF MergedFrom, Hashed
<1>6. QED BY <1>5

LEMMA InitRInv == Init => RInv
<1> SUFFICES ASSUME Init PROVE RInv OBVIOUS
<1>1. Staged BY DEF Init, Staged, Idle
<1>2. QED BY <1>1, InitIInv DEF RInv

LEMMA StagedStep ==
  ASSUME IInv, Staged, [Next]_vars PROVE Staged'
<1>1. CASE UNCHANGED vars
  BY <1>1, StagedKept DEF vars
<1>2. CASE SwapLock
  <2>1. UNCHANGED <<doc, job>> /\ (~exposed' => ~exposed) BY <1>2 DEF SwapLock
  <2>2. QED BY <2>1, StagedKept
<1>3. ASSUME NEW w \in Writers, Get(w) PROVE Staged'
  BY <1>3, StagedKept DEF Get
<1>4. ASSUME NEW w \in Writers, Set(w) PROVE Staged'
  <2>1. \A v \in Writers : job'[v].pc \in {"stage", "commit"} => job'[v] = job[v]
    BY <1>4 DEF Set, Idle, IInv, TypeOK
  <2>2. UNCHANGED <<doc, exposed>> BY <1>4 DEF Set
  <2>3. QED BY <2>1, <2>2, StagedKept
<1>5. ASSUME NEW w \in Writers, OpenLock(w) PROVE Staged'
  <2>1. \A v \in Writers : job'[v].pc \in {"stage", "commit"} => job'[v] = job[v]
    BY <1>5 DEF OpenLock, IInv, TypeOK, Jobs
  <2>2. UNCHANGED <<doc, exposed>> BY <1>5 DEF OpenLock
  <2>3. QED BY <2>1, <2>2, StagedKept
<1>6. ASSUME NEW w \in Writers, Flock(w) PROVE Staged'
  BY <1>6, StagedGoto DEF Flock
<1>7. ASSUME NEW w \in Writers, CheckSame(w) PROVE Staged'
  BY <1>7, StagedGoto DEF CheckSame
<1>8. ASSUME NEW w \in Writers, CheckReplaced(w) PROVE Staged'
  <2>1. UNCHANGED doc BY <1>8 DEF CheckReplaced
  <2>2. CASE Finish(w) BY <2>1, <2>2, StagedFinish
  <2>3. CASE /\ job' = [job EXCEPT ![w].pc = "open", ![w].fd = 0, ![w].tries = @ + 1]
             /\ UNCHANGED exposed
    <3>1. \A v \in Writers : job'[v].pc \in {"stage", "commit"} => job'[v] = job[v]
      BY <2>3 DEF IInv, TypeOK, Jobs
    <3>2. QED BY <2>1, <2>3, <3>1, StagedKept
  <2>4. QED BY <1>8, <2>2, <2>3 DEF CheckReplaced
<1>9. ASSUME NEW w \in Writers, Compare(w) PROVE Staged'
  BY <1>9, StagedCompare
<1>10. ASSUME NEW w \in Writers, Stage(w) PROVE Staged'
  BY <1>10, StagedGoto DEF Stage
<1>11. ASSUME NEW w \in Writers, Replace(w) PROVE Staged'
  BY <1>11, StagedReplace
<1>12. ASSUME NEW w \in Writers, Answer(w) \/ IoError(w) \/ Crash(w) PROVE Staged'
  <2>1. Finish(w) /\ UNCHANGED doc BY <1>12 DEF Answer, IoError, Crash
  <2>2. QED BY <2>1, StagedFinish
<1>13. QED
  BY <1>1, <1>2, <1>3, <1>4, <1>5, <1>6, <1>7, <1>8, <1>9, <1>10, <1>11, <1>12
  DEF Next, Step

LEMMA NextKeepsR == RInv /\ [Next]_vars => RInv'
  BY NextKeeps, StagedStep DEF RInv

(* A writer that goes from its commit to its answer replaces the document. *)
LEMMA CommitReplaces ==
  ASSUME RInv, [Next]_vars, NEW w \in Writers,
         job[w].pc = "commit", job'[w].pc = "answer", ~exposed
  PROVE  Replace(w)
<1>1. \A v \in Writers \ {w} : ~Critical(v)
  BY IInvExcludes DEF RInv, WritersExclude, Critical
<1> USE DEF RInv, IInv, TypeOK, Jobs
<1>2. ASSUME NEW v \in Writers, Set(v) PROVE FALSE BY <1>2 DEF Set, Idle
<1>3. ASSUME NEW v \in Writers, OpenLock(v) PROVE FALSE BY <1>3 DEF OpenLock
<1>4. ASSUME NEW v \in Writers, Flock(v) \/ CheckSame(v) \/ Stage(v) PROVE FALSE
  BY <1>4 DEF Flock, CheckSame, Stage, Goto
<1>5. ASSUME NEW v \in Writers, Finish(v) PROVE FALSE BY <1>5 DEF Finish, Idle
<1>6. ASSUME NEW v \in Writers, CheckReplaced(v) PROVE FALSE
  BY <1>5, <1>6 DEF CheckReplaced
<1>7. ASSUME NEW v \in Writers, Compare(v) PROVE FALSE
  BY <1>5, <1>7 DEF Compare
<1>8. ASSUME NEW v \in Writers, Replace(v) PROVE Replace(w)
  BY <1>1, <1>8 DEF Replace, Critical
<1>9. ~SwapLock BY DEF SwapLock
<1>10. \A v \in Writers : ~Get(v) BY DEF Get
<1>11. ASSUME NEW v \in Writers, Answer(v) \/ IoError(v) \/ Crash(v) PROVE FALSE
  BY <1>5, <1>11 DEF Answer, IoError, Crash
<1>12. ~UNCHANGED vars BY DEF vars
<1>13. QED
  BY <1>2, <1>3, <1>4, <1>6, <1>7, <1>8, <1>9, <1>10, <1>11, <1>12 DEF Next, Step

(* What it leaves, if reads do not fail or the caller names a document.    *)
LEMMA CommitMerges ==
  ASSUME RInv, [Next]_vars, NEW w \in Writers, Reliable \/ Hashed(w),
         job[w].pc = "commit", job'[w].pc = "answer", ~exposed
  PROVE  doc' = MergeSocket(job[w].file, doc) /\ BaseMatches(job[w].base, doc)
<1>1. Replace(w) BY CommitReplaces
<1>2. PICK d \in Contents : MergedFrom(w, d) BY DEF RInv, Staged
<1>3. QED BY <1>1, <1>2 DEF MergedFrom, Replace

(* A set that names a document replaces that document and no other, with   *)
(* the hidden socket of that document.                                     *)
HashedSetsCompare ==
    [][\A w \in Writers :
          job[w].pc = "commit" /\ job'[w].pc = "answer" /\ ~exposed /\ Hashed(w) =>
              doc = job[w].base /\ doc' = MergeSocket(job[w].file, doc)]_vars

(* handle_system_exec_approvals_set: what a failing read can do ends with  *)
(* the sets that carry no baseHash.  One that names a document replaces    *)
(* exactly that document, whatever reads and writes fail, processes die    *)
(* and other writers come in between.                                      *)
THEOREM HashedCompare == Spec => HashedSetsCompare
<1>1. RInv /\ [Next]_vars =>
        [\A w \in Writers :
            job[w].pc = "commit" /\ job'[w].pc = "answer" /\ ~exposed /\ Hashed(w) =>
                doc = job[w].base /\ doc' = MergeSocket(job[w].file, doc)]_vars
  <2>1. ASSUME RInv, [Next]_vars, NEW w \in Writers,
               job[w].pc = "commit", job'[w].pc = "answer", ~exposed, Hashed(w)
        PROVE  doc = job[w].base /\ doc' = MergeSocket(job[w].file, doc)
    BY <2>1, CommitMerges DEF Hashed, BaseMatches
  <2>2. QED BY <2>1
<1>2. QED BY <1>1, InitRInv, NextKeepsR, PTL DEF Spec, HashedSetsCompare

(* The write that sends back what get showed keeps the socket.             *)
LEMMA EchoStep ==
  ASSUME Reliable, RInv, [Next]_vars, NEW w \in Writers,
         job[w].pc = "commit", job'[w].pc = "answer", ~exposed, doc \in Documents,
         job[w].file = [RedactDocument(doc) EXCEPT !.policy = job[w].file.policy]
  PROVE  doc'.path = doc.path /\ doc'.token = doc.token
<1>1. doc' = MergeSocket(job[w].file, doc) BY CommitMerges
<1>2. job[w].file \in Documents BY DEF RInv, IInv, Carried
<1>3. QED BY <1>1, <1>2, MergeEcho

(* _merge_socket: a caller that sends back what get showed, with other     *)
(* rules, changes neither the socket's token nor its exact path, whatever  *)
(* other writers do in between.                                            *)
THEOREM EchoKept == Reliable => (Spec => EchoKeepsSocket)
<1> SUFFICES ASSUME Reliable PROVE Spec => EchoKeepsSocket OBVIOUS
<1>1. RInv /\ [Next]_vars =>
        [\A w \in Writers :
            (/\ job[w].pc = "commit" /\ job'[w].pc = "answer" /\ ~exposed
             /\ doc \in Documents
             /\ job[w].file = [RedactDocument(doc) EXCEPT !.policy = job[w].file.policy])
            => doc'.path = doc.path /\ doc'.token = doc.token]_vars
  BY EchoStep
<1>2. RInv /\ [Next]_vars => RInv' BY NextKeepsR
<1>3. QED BY <1>1, <1>2, InitRInv, PTL DEF Spec, EchoKeepsSocket
-----------------------------------------------------------------------------
(* A call that asks nothing of the register has ended or been carried out. *)
LEMMA PendingOf ==
  ASSUME IInv, NEW w \in Writers
  PROVE  /\ Pending[w] = None <=> job[w].pc \in {"idle", "answer"}
         /\ job[w].pc \notin {"idle", "answer"} =>
                Pending[w] = [base |-> job[w].base, file |-> job[w].file]
<1>1. Pending[w] = IF job[w].pc \in {"idle", "answer"} THEN None
                   ELSE [base |-> job[w].base, file |-> job[w].file]
  BY DEF Pending
<1>2. job[w].pc \notin {"idle", "answer"} =>
        [base |-> job[w].base, file |-> job[w].file]
            \in [base : Contents \cup {None}, file : Sent]
  BY DEF IInv, TypeOK, Jobs, Carried
<1>3. QED BY <1>1, <1>2

(* A step of one writer that neither starts nor settles a request.         *)
LEMMA PendingSame ==
  ASSUME IInv, NEW w \in Writers,
         \A v \in Writers \ {w} : job'[v] = job[v],
         job[w].pc \in {"idle", "answer"} <=> job'[w].pc \in {"idle", "answer"},
         job'[w].pc \notin {"idle", "answer"} =>
             job'[w].base = job[w].base /\ job'[w].file = job[w].file
  PROVE  Pending' = Pending
  BY DEF Pending

(* One that settles it.                                                    *)
LEMMA PendingSettled ==
  ASSUME IInv, NEW w \in Writers,
         \A v \in Writers \ {w} : job'[v] = job[v],
         job'[w].pc \in {"idle", "answer"}
  PROVE  Pending' = [Pending EXCEPT ![w] = None]
  BY DEF Pending

(* The end of a call gives the request up, unless it was carried out.      *)
LEMMA FinishRefines ==
  ASSUME IInv, NEW w \in Writers, Finish(w), UNCHANGED doc
  PROVE  Register!Next
<1>1. /\ \A v \in Writers \ {w} : job'[v] = job[v]
      /\ job'[w].pc = "idle"
  BY DEF Finish, Idle, IInv, TypeOK
<1>2. CASE job[w].pc \in {"idle", "answer"}
  <2>1. Pending' = Pending BY <1>1, <1>2, PendingSame
  <2>2. QED BY <2>1 DEF Register!Next, Register!Swap
<1>3. CASE job[w].pc \notin {"idle", "answer"}
  <2>1. Pending' = [Pending EXCEPT ![w] = None] BY <1>1, PendingSettled
  <2>2. Pending[w] # None BY <1>3, PendingOf
  <2>3. Register!GiveUp(w) BY <2>1, <2>2 DEF Register!GiveUp
  <2>4. QED BY <2>3 DEF Register!Next
<1>4. QED BY <1>2, <1>3

(* A call is a request.                                                    *)
LEMMA SetRefines == ASSUME IInv, NEW w \in Writers, Set(w) PROVE Register!Next
<1>1. PICK f \in Sent, b \in {None, seen[w]} :
          job' = [job EXCEPT ![w] = [Idle EXCEPT !.pc = "open", !.base = b, !.file = f]]
  BY DEF Set
<1>2. /\ \A v \in Writers \ {w} : job'[v] = job[v]
      /\ job'[w].pc = "open" /\ job'[w].base = b /\ job'[w].file = f
  BY <1>1 DEF Idle, IInv, TypeOK
<1> DEFINE r == [base |-> b, file |-> f]
<1>3. Pending' = [Pending EXCEPT ![w] = r] BY <1>2 DEF Pending
<1>4. r \in Register!Requests
  BY DEF Register!Requests, IInv, TypeOK
<1>5. Pending[w] = None /\ UNCHANGED doc BY PendingOf DEF Set
<1>6. Register!Ask(w) BY <1>3, <1>4, <1>5 DEF Register!Ask
<1>7. QED BY <1>6 DEF Register!Next

(* The replace is where the register changes.                              *)
LEMMA ReplaceRefines ==
  ASSUME Reliable, RInv, NEW w \in Writers, Replace(w) PROVE Register!Next
<1> USE DEF RInv
<1>1. /\ job[w].pc = "commit" /\ doc' = job[w].merged
      /\ \A v \in Writers \ {w} : job'[v] = job[v]
      /\ job'[w].pc = "answer"
  BY DEF Replace, Goto, IInv, TypeOK, Jobs
<1>2. Pending' = [Pending EXCEPT ![w] = None] BY <1>1, PendingSettled
<1>3. Pending[w] # None /\ Pending[w] = [base |-> job[w].base, file |-> job[w].file]
  BY <1>1, PendingOf
<1>4. PICK d \in Contents : MergedFrom(w, d) BY <1>1 DEF Staged
<1>5. /\ exposed \/ d = doc
      /\ doc' = MergeSocket(Pending[w].file, d)
  BY <1>1, <1>3, <1>4 DEF MergedFrom
<1>6. exposed \/ Register!Matches(Pending[w].base)
  BY <1>3, <1>4 DEF MergedFrom, BaseMatches, Register!Matches
<1>7. Register!Commit(w) BY <1>2, <1>3, <1>5, <1>6 DEF Register!Commit
<1>8. QED BY <1>7 DEF Register!Next

(* Every other step of a call is none of the register's business.          *)
LEMMA InnerRefines ==
  ASSUME IInv, NEW w \in Writers,
         OpenLock(w) \/ Flock(w) \/ CheckSame(w) \/ Stage(w)
  PROVE  Register!Next
<1>1. /\ \A v \in Writers \ {w} : job'[v] = job[v]
      /\ job[w].pc \in {"open", "wait", "check", "stage"}
      /\ job'[w].pc \in {"wait", "check", "read", "commit"}
      /\ job'[w].base = job[w].base /\ job'[w].file = job[w].file
  BY DEF OpenLock, Flock, CheckSame, Stage, Goto, IInv, TypeOK, Jobs
<1>2. UNCHANGED doc BY DEF OpenLock, Flock, CheckSame, Stage
<1>3. Pending' = Pending BY <1>1, PendingSame
<1>4. QED BY <1>2, <1>3 DEF Register!Next, Register!Swap

LEMMA CheckReplacedRefines ==
  ASSUME IInv, NEW w \in Writers, CheckReplaced(w) PROVE Register!Next
<1>1. job[w].pc = "check" /\ UNCHANGED doc BY DEF CheckReplaced
<1>2. CASE Finish(w) BY <1>1, <1>2, FinishRefines
<1>3. CASE job' = [job EXCEPT ![w].pc = "open", ![w].fd = 0, ![w].tries = @ + 1]
  <2>1. /\ \A v \in Writers \ {w} : job'[v] = job[v]
        /\ job'[w].pc = "open" /\ job'[w].base = job[w].base /\ job'[w].file = job[w].file
    BY <1>3 DEF IInv, TypeOK, Jobs
  <2>2. Pending' = Pending BY <1>1, <2>1, PendingSame
  <2>3. QED BY <1>1, <2>2 DEF Register!Next, Register!Swap
<1>4. QED BY <1>2, <1>3 DEF CheckReplaced

LEMMA CompareRefines ==
  ASSUME IInv, NEW w \in Writers, Compare(w) PROVE Register!Next
<1>1. job[w].pc = "read" /\ UNCHANGED doc BY DEF Compare
<1>2. CASE Finish(w) BY <1>1, <1>2, FinishRefines
<1>3. ASSUME NEW s \in Snapshots,
             job' = [job EXCEPT ![w].pc = "stage", ![w].merged = MergeSocket(job[w].file, s)]
      PROVE  Register!Next
  <2>1. /\ \A v \in Writers \ {w} : job'[v] = job[v]
        /\ job'[w].pc = "stage" /\ job'[w].base = job[w].base /\ job'[w].file = job[w].file
    BY <1>3 DEF IInv, TypeOK, Jobs
  <2>2. Pending' = Pending BY <1>1, <2>1, PendingSame
  <2>3. QED BY <1>1, <2>2 DEF Register!Next, Register!Swap
<1>4. QED BY <1>2, <1>3 DEF Compare

LEMMA InitRefines == Init => Register!Init
  BY DEF Init, Idle, Pending, Register!Init

LEMMA StepRefines ==
  ASSUME Reliable, RInv, [Next]_vars
  PROVE  [Register!Next]_(Register!vars)
<1>1. CASE UNCHANGED vars BY <1>1 DEF vars, Pending, Register!vars
<1>2. CASE SwapLock BY <1>2 DEF SwapLock, Pending, Register!Next, Register!Swap
<1>3. ASSUME NEW w \in Writers, Get(w) PROVE Register!Next
  BY <1>3 DEF Get, Pending, Register!Next, Register!Swap
<1>4. ASSUME NEW w \in Writers, Answer(w) \/ IoError(w) \/ Crash(w) PROVE Register!Next
  BY <1>4, FinishRefines DEF Answer, IoError, Crash, RInv
<1>5. QED
  BY <1>1, <1>2, <1>3, <1>4, SetRefines, ReplaceRefines, InnerRefines,
     CheckReplacedRefines, CompareRefines DEF Next, Step, RInv

(* The writers together are one register that a set replaces only when its *)
(* baseHash names the document there, and a set that fails replaces        *)
(* nothing: the docstrings of handle_system_exec_approvals_set and         *)
(* _approvals_write_lock.                                                  *)
THEOREM Refinement == Reliable => (Spec => ImplementsRegister)
<1> SUFFICES ASSUME Reliable PROVE Spec => ImplementsRegister OBVIOUS
<1>1. RInv /\ [Next]_vars => RInv' BY NextKeepsR
<1>2. RInv /\ [Next]_vars => [Register!Next]_(Register!vars) BY StepRefines
<1>3. QED
  BY <1>1, <1>2, InitRInv, InitRefines, PTL
  DEF Spec, ImplementsRegister, Register!Spec

-----------------------------------------------------------------------------
(* SystemRun.                                                              *)

(* A handler that has answered a command it ran.                           *)
Told(r) == run[r].pc = "idle" /\ run[r].ans \notin {Null, Refused}

(* Where the handler is says what has become of the child, and the flags   *)
(* of the answer are the ones of the path that led there.                  *)
Running(r) ==
    run[r].pc \in {"spawn", "communicate", "expired"} =>
        run[r].timedOut = FALSE /\ run[r].incomplete = FALSE
Started(r) ==
    run[r].pc \in {"communicate", "expired", "kill"} =>
        proc[r].child \in {"running", "succeeded", "failed"}
Draining(r) ==
    /\ run[r].pc \in {"kill", "drain"} => run[r].timedOut = TRUE
    /\ run[r].pc = "drain" =>
          proc[r].child \in {"succeeded", "failed", "killed"} /\ proc[r].desc # "group"
Settled(r) ==
    run[r].pc = "answer" =>
        /\ proc[r].child = "killed" => run[r].timedOut = TRUE
        /\ run[r].timedOut = TRUE => proc[r].desc # "group"
        /\ run[r].incomplete = FALSE => proc[r].pipes = {}
Over(r) ==
    run[r].pc = "answer" \/ Told(r) => proc[r].child \in {"succeeded", "failed", "killed"}

(* AnswerTrue, of one handler.                                             *)
Honest(r) ==
    Told(r) =>
        /\ run[r].ans.timedOut => proc[r].desc # "group"
        /\ proc[r].child = "killed" => run[r].ans.timedOut
        /\ run[r].ans.success <=> proc[r].child = "succeeded" /\ ~run[r].ans.timedOut
        /\ ~run[r].ans.incomplete => proc[r].pipes = {}

OnTrack(r) == Running(r) /\ Started(r) /\ Draining(r) /\ Settled(r) /\ Over(r) /\ Honest(r)
RunInv == RunTypeOK /\ RunsApprovedPlan /\ \A r \in Runs : OnTrack(r)

LEMMA CommandTyped ==
  ASSUME RunTypeOK, NEW q \in Requests, CwdAllowed(q)
  PROVE  CommandOf(q) \in Commands
  BY ConstantAssumption
  DEF RunTypeOK, Requests, CwdAllowed, CommandOf, ResolvedCwd,
         Commands, Cwds

LEMMA CommandsArePlans == Commands \subseteq Plans
  BY DEF Commands, Plans, Cwds

LEMMA ForeignTyped ==
  ASSUME NEW c \in Commands, NEW k \in {"cwd", "agent", "session"}
  PROVE  [c EXCEPT ![k] = Absent] \in Plans
<1>1. CASE k = "cwd" BY <1>1 DEF Commands, Plans, Cwds
<1>2. CASE k = "agent" BY <1>2 DEF Commands, Plans, Cwds
<1>3. CASE k = "session" BY <1>3 DEF Commands, Plans, Cwds
<1>4. QED BY <1>1, <1>2, <1>3

(* A plan that matches is the command: no key is left open.                *)
LEMMA MatchIsEqual ==
  ASSUME NEW p \in Plans, NEW c \in Commands, PlanMatches(p, c)
  PROVE  p = c
<1>1. p["cwd"] = c["cwd"] /\ p["agent"] = c["agent"] /\ p["session"] = c["session"]
  BY DEF PlanMatches
<1>2. p.cwd = c.cwd /\ p.agent = c.agent /\ p.session = c.session BY <1>1
<1>3. p.argv = c.argv /\ p.text = c.text BY DEF PlanMatches
<1>4. QED BY <1>2, <1>3 DEF Plans, Commands

LEMMA IdleRunTyped == IdleRun \in Handlers
  BY DEF IdleRun, Handlers, RunPCs, Answers

LEMMA InitRun == RunInit => RunInv
<1> SUFFICES ASSUME RunInit PROVE RunInv OBVIOUS
<1>1. IdleRun \in Handlers BY IdleRunTyped
<1>2. NoProcess \in Processes
  BY DEF NoProcess, Processes, Descendants
<1>3. RunTypeOK BY <1>1, <1>2 DEF RunInit, RunTypeOK
<1>4. RunsApprovedPlan BY DEF RunInit, IdleRun, RunsApprovedPlan
<1>5. ASSUME NEW r \in Runs PROVE OnTrack(r)
  BY DEF RunInit, IdleRun, OnTrack, Running, Started, Draining, Settled, Over, Honest, Told
<1>6. QED BY <1>3, <1>4, <1>5 DEF RunInv

(* The other handlers are not touched, so only the acting one is to check. *)
LEMMA OneHandler ==
  ASSUME RunInv, NEW r \in Runs, NEW h \in Handlers, NEW x \in Processes,
         run' = [run EXCEPT ![r] = h], proc' = [proc EXCEPT ![r] = x],
         UNCHANGED <<link, plans, approved>>,
         h.cmd = Null \/ h.cmd \in approved,
         OnTrack(r)'
  PROVE  RunInv'
<1>1. /\ run'[r] = h /\ proc'[r] = x
      /\ \A s \in Runs \ {r} : run'[s] = run[s] /\ proc'[s] = proc[s]
  BY DEF RunInv, RunTypeOK
<1>2. RunTypeOK' BY DEF RunInv, RunTypeOK
<1>3. RunsApprovedPlan' BY <1>1 DEF RunInv, RunsApprovedPlan
<1>4. ASSUME NEW s \in Runs PROVE OnTrack(s)'
  <2>1. CASE s = r BY <2>1
  <2>2. CASE s # r
    <3>1. run'[s] = run[s] /\ proc'[s] = proc[s] /\ OnTrack(s) BY <1>1, <2>2 DEF RunInv
    <3>2. QED
      BY <3>1 DEF OnTrack, Running, Started, Draining, Settled, Over, Honest, Told
  <2>3. QED BY <2>1, <2>2
<1>5. QED BY <1>2, <1>3, <1>4 DEF RunInv

(* One handler's state, its type and what the invariant says of it.        *)
LEMMA HandlerTyped ==
  ASSUME RunInv, NEW r \in Runs
  PROVE  /\ run[r] \in Handlers /\ proc[r] \in Processes
         /\ run[r].cmd = Null \/ run[r].cmd \in approved
         /\ run = [run EXCEPT ![r] = run[r]] /\ proc = [proc EXCEPT ![r] = proc[r]]
         /\ OnTrack(r)
  BY DEF RunInv, RunTypeOK, RunsApprovedPlan

LEMMA PlansKept ==
  ASSUME RunInv, Prepare \/ ForeignPlan \/ Approve \/ Retarget
  PROVE  RunInv'
<1>1. UNCHANGED <<run, proc>>
  BY DEF Prepare, ForeignPlan, Approve, Retarget
<1>2. \A r \in Runs : OnTrack(r)'
  BY <1>1 DEF RunInv, OnTrack, Running, Started, Draining, Settled, Over, Honest, Told
<1>3. plans' \subseteq Plans /\ plans \subseteq plans'
  <2>1. CASE Prepare
    BY <2>1, CommandTyped, CommandsArePlans DEF Prepare, RunInv, RunTypeOK
  <2>2. CASE ForeignPlan
    BY <2>2, ForeignTyped DEF ForeignPlan, RunInv, RunTypeOK
  <2>3. CASE Approve \/ Retarget
    BY <2>3 DEF Approve, Retarget, RunInv, RunTypeOK
  <2>4. QED BY <2>1, <2>2, <2>3
<1>4. approved' \subseteq plans' /\ approved \subseteq approved'
  BY <1>3 DEF Prepare, ForeignPlan, Approve, Retarget, RunInv, RunTypeOK
<1>5. link' \in Dirs \cup {Outside}
  BY DEF Prepare, ForeignPlan, Approve, Retarget, RunInv, RunTypeOK
<1>6. RunTypeOK' BY <1>1, <1>3, <1>4, <1>5 DEF RunInv, RunTypeOK
<1>7. RunsApprovedPlan' BY <1>1, <1>4 DEF RunInv, RunsApprovedPlan
<1>8. QED BY <1>2, <1>6, <1>7 DEF RunInv

LEMMA ForwardKeeps ==
  ASSUME RunInv, NEW r \in Runs, Forward(r) PROVE RunInv'
<1>1. NoProcess \in Processes BY DEF NoProcess, Processes, Descendants
<1>2. proc' = [proc EXCEPT ![r] = NoProcess] /\ UNCHANGED <<link, plans, approved>>
  BY DEF Forward
<1>3. CASE Refuse(r)
  <2> DEFINE h == [IdleRun EXCEPT !.ans = Refused]
  <2>1. h \in Handlers /\ h.pc = "idle" /\ h.ans = Refused /\ h.cmd = Null
    BY DEF IdleRun, Handlers, RunPCs, Answers
  <2>2. run' = [run EXCEPT ![r] = h] BY <1>3 DEF Refuse
  <2>3. run'[r] = h BY <2>2 DEF RunInv, RunTypeOK
  <2> HIDE DEF h
  <2>4. OnTrack(r)'
    BY <2>1, <2>3 DEF OnTrack, Running, Started, Draining, Settled, Over, Honest, Told
  <2>5. QED BY <1>1, <1>2, <2>1, <2>2, <2>4, OneHandler
<1>4. ASSUME NEW q \in Requests, NEW p \in plans \cup {Null}, NEW envelope \in BOOLEAN,
             envelope => p \in approved, Authorized(p, envelope), CwdAllowed(q),
             PlanMatches(p, CommandOf(q)),
             run' = [run EXCEPT ![r] =
                        [IdleRun EXCEPT !.pc = "spawn", !.cmd = CommandOf(q)]]
      PROVE  RunInv'
  <2> DEFINE c == CommandOf(q)
             h == [IdleRun EXCEPT !.pc = "spawn", !.cmd = c]
  <2>1. c \in Commands BY <1>4, CommandTyped DEF RunInv
  <2>2. p \in approved /\ p \in Plans BY <1>4 DEF Authorized, RunInv, RunTypeOK
  <2>3. c \in approved BY <1>4, <2>1, <2>2, MatchIsEqual
  <2> HIDE DEF c
  <2>4. h \in Handlers BY <2>1, IdleRunTyped DEF Handlers, RunPCs
  <2>5. h.pc = "spawn" /\ h.cmd = c /\ h.timedOut = FALSE /\ h.incomplete = FALSE
    BY DEF IdleRun
  <2>6. run' = [run EXCEPT ![r] = h] BY <1>4 DEF c
  <2>7. run'[r] = h BY <2>6 DEF RunInv, RunTypeOK
  <2> HIDE DEF h
  <2>8. OnTrack(r)'
    BY <2>5, <2>7 DEF OnTrack, Running, Started, Draining, Settled, Over, Honest, Told
  <2>9. QED BY <1>1, <1>2, <2>3, <2>4, <2>5, <2>6, <2>8, OneHandler
<1>5. QED BY <1>3, <1>4 DEF Forward

(* The handler, from the spawn to the answer.                               *)
LEMMA SpawnKeeps == ASSUME RunInv, NEW r \in Runs, Spawn(r) PROVE RunInv'
<1> DEFINE h == [run[r] EXCEPT !.pc = "communicate"]
           x == [child |-> "running", desc |-> "none", pipes |-> {"child"}]
<1>1. run' = [run EXCEPT ![r] = h] /\ proc' = [proc EXCEPT ![r] = x]
  BY HandlerTyped DEF Spawn
<1>2. h \in Handlers /\ x \in Processes /\ h.cmd = run[r].cmd
  BY HandlerTyped DEF Handlers, RunPCs, Answers, Processes, Descendants
<1>3. run'[r] = h /\ proc'[r] = x /\ OnTrack(r) BY <1>1, HandlerTyped DEF RunInv, RunTypeOK
<1>4. OnTrack(r)'
  BY <1>3, HandlerTyped
  DEF Spawn, Done, Alive, Handlers, Processes,
      OnTrack, Running, Started, Draining, Settled, Over, Honest, Told
<1>5. UNCHANGED <<link, plans, approved>> BY DEF Spawn
<1> HIDE DEF h, x
<1>6. QED BY <1>1, <1>2, <1>4, <1>5, HandlerTyped, OneHandler

LEMMA SpawnFailsKeeps == ASSUME RunInv, NEW r \in Runs, SpawnFails(r) PROVE RunInv'
<1> DEFINE h == [IdleRun EXCEPT !.ans = Refused]
<1>1. h \in Handlers /\ h.pc = "idle" /\ h.ans = Refused /\ h.cmd = Null
  BY DEF IdleRun, Handlers, RunPCs, Answers
<1>2. run' = [run EXCEPT ![r] = h] /\ proc' = [proc EXCEPT ![r] = proc[r]]
  BY HandlerTyped DEF SpawnFails, Refuse
<1>3. run'[r] = h BY <1>2 DEF RunInv, RunTypeOK
<1> HIDE DEF h
<1>4. OnTrack(r)'
  BY <1>1, <1>3 DEF OnTrack, Running, Started, Draining, Settled, Over, Honest, Told
<1>5. UNCHANGED <<link, plans, approved>> BY DEF SpawnFails
<1>6. QED BY <1>1, <1>2, <1>4, <1>5, HandlerTyped, OneHandler

LEMMA CommunicatedKeeps == ASSUME RunInv, NEW r \in Runs, Communicated(r) PROVE RunInv'
<1> DEFINE h == [run[r] EXCEPT !.pc = "answer"]
           x == proc[r]
<1>1. run' = [run EXCEPT ![r] = h] /\ proc' = [proc EXCEPT ![r] = x]
  BY HandlerTyped DEF Communicated
<1>2. h \in Handlers /\ x \in Processes /\ h.cmd = run[r].cmd
  BY HandlerTyped DEF Handlers, RunPCs, Answers, Processes, Descendants
<1>3. run'[r] = h /\ proc'[r] = x /\ OnTrack(r) BY <1>1, HandlerTyped DEF RunInv, RunTypeOK
<1>4. OnTrack(r)'
  BY <1>3, HandlerTyped
  DEF Communicated, Done, Alive, Handlers, Processes,
      OnTrack, Running, Started, Draining, Settled, Over, Honest, Told
<1>5. UNCHANGED <<link, plans, approved>> BY DEF Communicated
<1> HIDE DEF h, x
<1>6. QED BY <1>1, <1>2, <1>4, <1>5, HandlerTyped, OneHandler

LEMMA ExpiresKeeps == ASSUME RunInv, NEW r \in Runs, Expires(r) PROVE RunInv'
<1> DEFINE h == [run[r] EXCEPT !.pc = "expired"]
           x == proc[r]
<1>1. run' = [run EXCEPT ![r] = h] /\ proc' = [proc EXCEPT ![r] = x]
  BY HandlerTyped DEF Expires
<1>2. h \in Handlers /\ x \in Processes /\ h.cmd = run[r].cmd
  BY HandlerTyped DEF Handlers, RunPCs, Answers, Processes, Descendants
<1>3. run'[r] = h /\ proc'[r] = x /\ OnTrack(r) BY <1>1, HandlerTyped DEF RunInv, RunTypeOK
<1>4. OnTrack(r)'
  BY <1>3, HandlerTyped
  DEF Expires, Done, Alive, Handlers, Processes,
      OnTrack, Running, Started, Draining, Settled, Over, Honest, Told
<1>5. UNCHANGED <<link, plans, approved>> BY DEF Expires
<1> HIDE DEF h, x
<1>6. QED BY <1>1, <1>2, <1>4, <1>5, HandlerTyped, OneHandler

LEMMA TimesOutKeeps == ASSUME RunInv, NEW r \in Runs, TimesOut(r) PROVE RunInv'
<1> DEFINE h == [run[r] EXCEPT !.pc = "kill", !.timedOut = TRUE]
           x == proc[r]
<1>1. run' = [run EXCEPT ![r] = h] /\ proc' = [proc EXCEPT ![r] = x]
  BY HandlerTyped DEF TimesOut
<1>2. h \in Handlers /\ h.cmd = run[r].cmd /\ h.pc = "kill" /\ h.timedOut = TRUE
  <2>1. run[r] \in Handlers BY HandlerTyped
  <2>2. QED BY <2>1 DEF Handlers, RunPCs
<1>3. x \in Processes /\ x.child = "running"
  BY HandlerTyped DEF TimesOut, Alive
<1>4. run'[r] = h /\ proc'[r] = x BY <1>1 DEF RunInv, RunTypeOK
<1>5. UNCHANGED <<link, plans, approved>> BY DEF TimesOut
<1> HIDE DEF h, x
<1>6. OnTrack(r)'
  BY <1>2, <1>3, <1>4 DEF OnTrack, Running, Started, Draining, Settled, Over, Honest, Told
<1>7. QED BY <1>1, <1>2, <1>3, <1>5, <1>6, HandlerTyped, OneHandler

(* killpg: whatever the child did since poll(), it is gone now, and so is  *)
(* the rest of its process group.                                          *)
LEMMA KillGroupKeeps == ASSUME RunInv, NEW r \in Runs, KillGroup(r) PROVE RunInv'
<1> DEFINE h == [run[r] EXCEPT !.pc = "drain"]
           x == Killed(proc[r])
<1>1. run' = [run EXCEPT ![r] = h] /\ proc' = [proc EXCEPT ![r] = x]
  BY HandlerTyped DEF KillGroup
<1>2. h \in Handlers /\ h.cmd = run[r].cmd /\ h.pc = "drain" /\ h.timedOut = TRUE
  <2>1. run[r] \in Handlers BY HandlerTyped
  <2>2. run[r].timedOut = TRUE BY HandlerTyped DEF KillGroup, OnTrack, Draining
  <2>3. QED BY <2>1, <2>2 DEF Handlers, RunPCs
<1>3. x \in Processes /\ x.child \in {"succeeded", "failed", "killed"} /\ x.desc # "group"
  <2>1. proc[r] \in Processes /\ proc[r].child \in {"running", "succeeded", "failed"}
    BY HandlerTyped DEF KillGroup, OnTrack, Started
  <2>2. CASE proc[r].desc = "group"
    BY <2>1, <2>2 DEF Killed, Processes, Descendants
  <2>3. CASE proc[r].desc # "group"
    BY <2>1, <2>3 DEF Killed, Processes, Descendants
  <2>4. QED BY <2>2, <2>3
<1>4. run'[r] = h /\ proc'[r] = x BY <1>1 DEF RunInv, RunTypeOK
<1>5. UNCHANGED <<link, plans, approved>> BY DEF KillGroup
<1> HIDE DEF h, x
<1>6. OnTrack(r)'
  BY <1>2, <1>3, <1>4 DEF OnTrack, Running, Started, Draining, Settled, Over, Honest, Told
<1>7. QED BY <1>1, <1>2, <1>3, <1>5, <1>6, HandlerTyped, OneHandler

LEMMA ExitedAfterAllKeeps == ASSUME RunInv, NEW r \in Runs, ExitedAfterAll(r) PROVE RunInv'
<1> DEFINE h == [run[r] EXCEPT !.pc = "answer", !.incomplete = TRUE]
           x == proc[r]
<1>1. run' = [run EXCEPT ![r] = h] /\ proc' = [proc EXCEPT ![r] = x]
  BY HandlerTyped DEF ExitedAfterAll
<1>2. h \in Handlers /\ x \in Processes /\ h.cmd = run[r].cmd
  BY HandlerTyped DEF Handlers, RunPCs
<1>3. h.pc = "answer" /\ h.incomplete = TRUE /\ h.timedOut = run[r].timedOut
  BY HandlerTyped DEF Handlers
<1>4. run'[r] = h /\ proc'[r] = x BY <1>1 DEF RunInv, RunTypeOK
<1>5. UNCHANGED <<link, plans, approved>> BY DEF ExitedAfterAll
<1> HIDE DEF h
<1>6. OnTrack(r)'
  <2>1. /\ run'[r].pc = "answer" /\ run'[r].incomplete = TRUE
        /\ run'[r].timedOut = run[r].timedOut /\ proc'[r] = proc[r]
    BY <1>3, <1>4
  <2>2. QED
    BY <2>1, HandlerTyped
    DEF ExitedAfterAll, Alive, Handlers, Processes,
        OnTrack, Running, Started, Draining, Settled, Over, Honest, Told
<1>7. QED BY <1>1, <1>2, <1>5, <1>6, HandlerTyped, OneHandler

LEMMA DrainedKeeps == ASSUME RunInv, NEW r \in Runs, Drained(r) PROVE RunInv'
<1> DEFINE h == [run[r] EXCEPT !.pc = "answer"]
           x == proc[r]
<1>1. run' = [run EXCEPT ![r] = h] /\ proc' = [proc EXCEPT ![r] = x]
  BY HandlerTyped DEF Drained
<1>2. h \in Handlers /\ x \in Processes /\ h.cmd = run[r].cmd
  BY HandlerTyped DEF Handlers, RunPCs, Answers, Processes, Descendants
<1>3. run'[r] = h /\ proc'[r] = x /\ OnTrack(r) BY <1>1, HandlerTyped DEF RunInv, RunTypeOK
<1>4. OnTrack(r)'
  BY <1>3, HandlerTyped
  DEF Drained, Done, Alive, Handlers, Processes,
      OnTrack, Running, Started, Draining, Settled, Over, Honest, Told
<1>5. UNCHANGED <<link, plans, approved>> BY DEF Drained
<1> HIDE DEF h, x
<1>6. QED BY <1>1, <1>2, <1>4, <1>5, HandlerTyped, OneHandler

LEMMA DrainExpiresKeeps == ASSUME RunInv, NEW r \in Runs, DrainExpires(r) PROVE RunInv'
<1> DEFINE h == [run[r] EXCEPT !.pc = "answer", !.incomplete = TRUE]
           x == proc[r]
<1>1. run' = [run EXCEPT ![r] = h] /\ proc' = [proc EXCEPT ![r] = x]
  BY HandlerTyped DEF DrainExpires
<1>2. h \in Handlers /\ x \in Processes /\ h.cmd = run[r].cmd
  BY HandlerTyped DEF Handlers, RunPCs
<1>3. h.pc = "answer" /\ h.incomplete = TRUE /\ h.timedOut = run[r].timedOut
  BY HandlerTyped DEF Handlers
<1>4. run'[r] = h /\ proc'[r] = x BY <1>1 DEF RunInv, RunTypeOK
<1>5. UNCHANGED <<link, plans, approved>> BY DEF DrainExpires
<1> HIDE DEF h
<1>6. OnTrack(r)'
  <2>1. /\ run'[r].pc = "answer" /\ run'[r].incomplete = TRUE
        /\ run'[r].timedOut = run[r].timedOut /\ proc'[r] = proc[r]
    BY <1>3, <1>4
  <2>2. QED
    BY <2>1, HandlerTyped
    DEF DrainExpires, Alive, Handlers, Processes,
        OnTrack, Running, Started, Draining, Settled, Over, Honest, Told
<1>7. QED BY <1>1, <1>2, <1>5, <1>6, HandlerTyped, OneHandler

LEMMA ReportKeeps == ASSUME RunInv, NEW r \in Runs, Report(r) PROVE RunInv'
<1> DEFINE a == [success |-> ~run[r].timedOut /\ proc[r].child = "succeeded",
                 timedOut |-> run[r].timedOut,
                 incomplete |-> run[r].incomplete]
           h == [run[r] EXCEPT !.pc = "idle", !.ans = a]
           x == proc[r]
<1>1. run' = [run EXCEPT ![r] = h] /\ proc' = [proc EXCEPT ![r] = x]
  BY HandlerTyped DEF Report
<1>2. run[r] \in Handlers /\ x \in Processes BY HandlerTyped
<1>3. a \in Answers BY <1>2 DEF Handlers, Answers
<1>4. /\ a.success <=> ~run[r].timedOut /\ proc[r].child = "succeeded"
      /\ a.timedOut = run[r].timedOut /\ a.incomplete = run[r].incomplete
  OBVIOUS
<1> HIDE DEF a
<1>5. h \in Handlers /\ h.cmd = run[r].cmd /\ h.pc = "idle" /\ h.ans = a
  BY <1>2, <1>3 DEF Handlers, RunPCs
<1>6. run'[r] = h /\ proc'[r] = x BY <1>1 DEF RunInv, RunTypeOK
<1>7. UNCHANGED <<link, plans, approved>> BY DEF Report
<1> HIDE DEF h
<1>8. OnTrack(r)'
  <2>1. run[r].pc = "answer" /\ Settled(r) /\ Over(r)
    BY HandlerTyped DEF OnTrack, Report
  <2>2. run[r].timedOut \in BOOLEAN /\ run[r].incomplete \in BOOLEAN
    BY <1>2 DEF Handlers
  <2>3. QED
    BY <1>4, <1>5, <1>6, <2>1, <2>2
    DEF OnTrack, Running, Started, Draining, Settled, Over, Honest, Told
<1>9. QED BY <1>1, <1>2, <1>5, <1>7, <1>8, HandlerTyped, OneHandler

(* The command's own processes.  They may exit, leave the group or let     *)
(* go of a pipe at any time; a child that is gone starts nothing, so what  *)
(* was found out about it stays true.                                      *)
Moves(x, y) ==
    /\ y.child = x.child \/ (x.child = "running" /\ y.child \in {"succeeded", "failed"})
    /\ y.desc = "group" => x.desc = "group" \/ x.child = "running"
    /\ y.pipes \subseteq x.pipes \/ x.child = "running"

LEMMA MovesKeep ==
  ASSUME RunInv, NEW r \in Runs, NEW y \in Processes, Moves(proc[r], y),
         proc' = [proc EXCEPT ![r] = y], UNCHANGED <<link, plans, approved, run>>
  PROVE  RunInv'
<1>1. /\ run[r] \in Handlers /\ proc[r] \in Processes /\ OnTrack(r)
      /\ run[r].cmd = Null \/ run[r].cmd \in approved
      /\ run' = [run EXCEPT ![r] = run[r]]
  BY HandlerTyped
<1>2. run'[r] = run[r] /\ proc'[r] = y BY DEF RunInv, RunTypeOK
<1>3. OnTrack(r)'
  <2>1. Told(r) => y.child = proc[r].child /\ proc[r].child # "running"
    BY <1>1 DEF OnTrack, Over, Moves
  <2>2. run[r].pc \in {"answer", "drain"} =>
          y.child = proc[r].child /\ proc[r].child # "running"
    BY <1>1 DEF OnTrack, Over, Draining, Moves
  <2>3. (Running(r) /\ Started(r))'
    BY <1>1, <1>2 DEF OnTrack, Running, Started, Moves
  <2>4. (Draining(r) /\ Settled(r) /\ Over(r) /\ Honest(r))'
    BY <1>1, <1>2, <2>1, <2>2
    DEF OnTrack, Draining, Settled, Over, Honest, Told, Moves
  <2>5. QED BY <2>3, <2>4 DEF OnTrack
<1>4. QED BY <1>1, <1>3, OneHandler

LEMMA CommandKeeps == ASSUME RunInv, NEW r \in Runs, Command(r) PROVE RunInv'
<1>1. proc[r] \in Processes BY HandlerTyped
<1>2. CASE Fork(r)
  <2>1. PICK held \in BOOLEAN :
          proc' = [proc EXCEPT ![r].desc = "group",
                               ![r].pipes = IF held /\ "child" \in @ THEN @ \cup {"desc"} ELSE @]
    BY <1>2 DEF Fork
  <2> DEFINE w == IF held /\ "child" \in proc[r].pipes
                  THEN proc[r].pipes \cup {"desc"} ELSE proc[r].pipes
             y == [proc[r] EXCEPT !.desc = "group", !.pipes = w]
  <2>2. w \in SUBSET {"child", "desc"} BY <1>1 DEF Processes
  <2>3. proc' = [proc EXCEPT ![r] = y]
    BY <1>1, <2>1 DEF RunInv, RunTypeOK, Processes
  <2> HIDE DEF w
  <2>4. y \in Processes /\ Moves(proc[r], y)
    <3>1. y \in Processes BY <1>1, <2>2 DEF Processes, Descendants
    <3>2. y.child = proc[r].child
      BY <1>1 DEF Processes
    <3> HIDE DEF y
    <3>3. QED BY <1>2, <3>1, <3>2 DEF Fork, Alive, Moves
  <2> HIDE DEF y
  <2>5. QED BY <1>2, <2>3, <2>4, MovesKeep DEF Fork
<1>3. CASE LeaveGroup(r)
  <2> DEFINE y == [proc[r] EXCEPT !.desc = "left"]
  <2>1. proc' = [proc EXCEPT ![r] = y] BY <1>3 DEF LeaveGroup
  <2>2. y \in Processes /\ Moves(proc[r], y)
    <3>1. y \in Processes BY <1>1 DEF Processes, Descendants
    <3>2. y.child = proc[r].child /\ y.desc = "left" /\ y.pipes = proc[r].pipes
      BY <1>1 DEF Processes
    <3> HIDE DEF y
    <3>3. QED BY <3>1, <3>2 DEF Moves
  <2> HIDE DEF y
  <2>3. QED BY <1>3, <2>1, <2>2, MovesKeep DEF LeaveGroup
<1>4. CASE DescendantExits(r)
  <2> DEFINE y == [proc[r] EXCEPT !.desc = "none", !.pipes = @ \ {"desc"}]
  <2>1. proc' = [proc EXCEPT ![r] = y]
    BY <1>1, <1>4 DEF DescendantExits, RunInv, RunTypeOK, Processes
  <2>2. y \in Processes /\ Moves(proc[r], y)
    <3>1. y \in Processes BY <1>1 DEF Processes, Descendants
    <3>2. y.child = proc[r].child /\ y.desc = "none" /\ y.pipes = proc[r].pipes \ {"desc"}
      BY <1>1 DEF Processes
    <3> HIDE DEF y
    <3>3. QED BY <3>1, <3>2 DEF Moves
  <2> HIDE DEF y
  <2>3. QED BY <1>4, <2>1, <2>2, MovesKeep DEF DescendantExits
<1>5. CASE ClosesPipes(r)
  <2>1. PICK who \in proc[r].pipes : proc' = [proc EXCEPT ![r].pipes = @ \ {who}]
    BY <1>5 DEF ClosesPipes
  <2> DEFINE y == [proc[r] EXCEPT !.pipes = @ \ {who}]
  <2>2. proc' = [proc EXCEPT ![r] = y] BY <2>1
  <2>3. y \in Processes /\ Moves(proc[r], y)
    <3>1. y \in Processes BY <1>1 DEF Processes, Descendants
    <3>2. y.child = proc[r].child /\ y.desc = proc[r].desc /\ y.pipes = proc[r].pipes \ {who}
      BY <1>1 DEF Processes
    <3> HIDE DEF y
    <3>3. QED BY <3>1, <3>2 DEF Moves
  <2> HIDE DEF y
  <2>4. QED BY <1>5, <2>2, <2>3, MovesKeep DEF ClosesPipes
<1>6. CASE ChildExits(r)
  <2>1. PICK how \in {"succeeded", "failed"} :
          proc' = [proc EXCEPT ![r].child = how, ![r].pipes = @ \ {"child"}]
    BY <1>6 DEF ChildExits
  <2> DEFINE y == [proc[r] EXCEPT !.child = how, !.pipes = @ \ {"child"}]
  <2>2. proc' = [proc EXCEPT ![r] = y]
    BY <1>1, <2>1 DEF RunInv, RunTypeOK, Processes
  <2>3. y \in Processes /\ Moves(proc[r], y)
    BY <1>1, <1>6 DEF Processes, ChildExits, Alive, Moves
  <2> HIDE DEF y
  <2>4. QED BY <1>6, <2>2, <2>3, MovesKeep DEF ChildExits
<1>7. QED BY <1>2, <1>3, <1>4, <1>5, <1>6 DEF Command

LEMMA NextKeepsRun == RunInv /\ [RunNext]_runVars => RunInv'
<1> SUFFICES ASSUME RunInv, [RunNext]_runVars PROVE RunInv' OBVIOUS
<1>1. CASE UNCHANGED runVars
  BY <1>1
  DEF runVars, RunInv, RunTypeOK, RunsApprovedPlan,
      OnTrack, Running, Started, Draining, Settled, Over, Honest, Told
<1>2. CASE Prepare \/ ForeignPlan \/ Approve \/ Retarget BY <1>2, PlansKept
<1>3. ASSUME NEW r \in Runs, Handler(r) PROVE RunInv'
  BY <1>3, SpawnKeeps, SpawnFailsKeeps, CommunicatedKeeps, ExpiresKeeps, TimesOutKeeps,
     KillGroupKeeps, ExitedAfterAllKeeps, DrainedKeeps, DrainExpiresKeeps, ReportKeeps
  DEF Handler
<1>4. QED BY <1>1, <1>2, <1>3, ForwardKeeps, CommandKeeps DEF RunNext

(* Whatever is forwarded, and whatever the command's processes do, the     *)
(* handler's place in the code tells the state of the child.               *)
THEOREM RunInvariance == RunSpec => []RunInv
  BY InitRun, NextKeepsRun, PTL DEF RunSpec

(* The handlers and the processes of system.run keep their types.          *)
THEOREM RunTypeCorrect == RunSpec => []RunTypeOK
<1>1. RunInv => RunTypeOK BY DEF RunInv
<1>2. QED BY <1>1, RunInvariance, PTL

(* A process only ever starts with the argument vector, text, directory,   *)
(* agent and session of a plan an operator approved: the approval-bound    *)
(* fields of system_run.py.                                                *)
THEOREM ApprovedOnly == RunSpec => []RunsApprovedPlan
<1>1. RunInv => RunsApprovedPlan BY DEF RunInv
<1>2. QED BY <1>1, RunInvariance, PTL

(* What handle_system_run answers is what became of the command, whatever  *)
(* its processes do between poll(), killpg and the drain: a timeout leaves *)
(* nothing of the process group, a killed child is reported as timed out,  *)
(* success is the child's own exit, and complete output is all there can   *)
(* be.                                                                     *)
THEOREM AnsweredTruly == RunSpec => []AnswerTrue
<1>1. RunInv => AnswerTrue
  BY DEF RunInv, OnTrack, Over, Honest, Told, AnswerTrue, Alive
<1>2. QED BY <1>1, RunInvariance, PTL
=============================================================================
