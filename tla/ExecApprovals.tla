---------------------------- MODULE ExecApprovals ----------------------------
(***************************************************************************)
(* The exec approval policy document and the processes that replace it     *)
(* (commands/exec_approvals.py): system.execApprovals.get hands out the    *)
(* document and its hash, system.execApprovals.set replaces it when the    *)
(* hash the caller sends back is still the document's.                     *)
(*                                                                         *)
(* A writer is a process: the node, and the one that takes over from it    *)
(* while it is still stopping.  Between two of a writer's system calls the *)
(* others run.  Someone may also replace or remove the lock file, the case *)
(* _approvals_write_lock checks for.                                       *)
(*                                                                         *)
(* A document stands for its bytes and for their sha256.  Its rules are a  *)
(* policy name; of the schema checks only the verdict is kept.  A socket   *)
(* path is a name with or without blanks around it, because the code trims *)
(* what it shows and must not trim what it stores.                         *)
(***************************************************************************)
EXTENDS Integers, FiniteSets

CONSTANTS
    Writers,
    Policies,
    Names,       \* socket paths, trimmed
    Tokens,      \* socket tokens
    None,        \* an absent field, no baseHash, no file
    Missing,     \* no document, and _MISSING_HASH
    Malformed,   \* bytes that are not a valid document
    Sent,        \* the documents callers send
    Found,       \* what may be on disk at the start
    Attempts,    \* _LOCK_ACQUIRE_ATTEMPTS
    Inodes,      \* numbers for lock files: one more than writers
    Faults       \* what may go wrong, see FaultKinds

FaultKinds == {"crash", "io", "read", "swap"}

ASSUME FaultAssumption == Faults \subseteq FaultKinds
ASSUME BoundAssumption == Attempts \in Nat \ {0} /\ Inodes \subseteq Nat \ {0}
ASSUME DistinctAssumption ==
    /\ Missing # Malformed /\ None \notin Tokens
    /\ None # Missing /\ None # Malformed

SocketPaths == [name : Names, padded : BOOLEAN]
Documents == [policy : Policies, path : SocketPaths \cup {None}, token : Tokens \cup {None}]
Contents == Documents \cup {Missing, Malformed}

ASSUME DocumentAssumption ==
    /\ None \notin Documents /\ Missing \notin Documents /\ Malformed \notin Documents
    /\ None \notin SocketPaths /\ None \notin [base : Contents \cup {None}, file : Sent]
    /\ Sent \subseteq Documents /\ Found \subseteq Contents

VARIABLES
    doc,      \* what is at exec-approvals.json
    lock,     \* the inode at exec-approvals.json.lock, 0 when there is none
    job,      \* [Writers -> the set call in progress]
    seen,     \* [Writers -> the hash the caller last received]
    exposed   \* the lock file changed under a writer that is past its check

vars == <<doc, lock, job, seen, exposed>>

PCs == {"idle", "open", "wait", "check", "read", "stage", "commit", "answer"}
Jobs == [pc : PCs, fd : Inodes \cup {0}, tries : 0..(Attempts - 1), base : Contents \cup {None},
         file : Sent \cup {None}, merged : Documents \cup {None}]
Idle == [pc |-> "idle", fd |-> 0, tries |-> 0, base |-> None, file |-> None, merged |-> None]

-----------------------------------------------------------------------------
(* What the two conversions of a socket do.                                *)
Trimmed(p) == [p EXCEPT !.padded = FALSE]
RedactDocument(d) ==
    [d EXCEPT !.token = None, !.path = IF @ = None THEN None ELSE Trimmed(@)]

(* _read_snapshot gives the fail-closed default for bytes it cannot use,   *)
(* and the default has no socket.                                          *)
DefaultPolicy == CHOOSE p \in Policies : TRUE
DefaultDocument == [policy |-> DefaultPolicy, path |-> None, token |-> None]
Parsed(c) == IF c \in Documents THEN c ELSE DefaultDocument

PickPathAsSent(sent, stored) == IF sent = None THEN stored ELSE sent
PickPath(sent, stored) ==
    IF sent = None \/ (stored # None /\ sent = Trimmed(stored)) THEN stored ELSE sent
PickToken(sent, stored) == IF sent = None THEN stored ELSE sent
MergeSocket(f, c) ==
    [f EXCEPT !.path = PickPath(@, Parsed(c).path), !.token = PickToken(@, Parsed(c).token)]

(* A read fails as if the file were absent.                                *)
Snapshots == {doc} \cup (IF "read" \in Faults THEN {Missing} ELSE {})

Holds(w, inode) == job[w].pc \in {"check", "read", "stage", "commit", "answer"}
                   /\ job[w].fd = inode

(* A number no open descriptor and no name refers to.                      *)
FreeInodes == {i \in Inodes : i # lock /\ \A w \in Writers : job[w].fd # i}
NewLock == \E i \in FreeInodes : (\A j \in FreeInodes : i <= j) /\ lock' = i

Critical(w) == job[w].pc \in {"read", "stage", "commit", "answer"}

Init ==
    /\ doc \in Found
    /\ lock = 0
    /\ job = [w \in Writers |-> Idle]
    /\ seen = [w \in Writers |-> None]
    /\ exposed = FALSE

-----------------------------------------------------------------------------
Goto(w, pc) == job' = [job EXCEPT ![w].pc = pc]

(* The call ends; closing the descriptor gives up the lock.  Which of the  *)
(* answers the caller gets (the new snapshot, INVALID_REQUEST, IO_ERROR)   *)
(* shows in the step that ends the call.                                   *)
Finish(w) ==
    /\ job' = [job EXCEPT ![w] = Idle]
    /\ exposed' = (exposed /\ \E v \in Writers \ {w} : Critical(v))

Get(w) ==
    /\ job[w].pc = "idle"
    /\ \E s \in Snapshots : seen' = [seen EXCEPT ![w] = s]
    /\ UNCHANGED <<doc, lock, job, exposed>>

(* The caller sends a valid document, with the hash it has or with none.   *)
(* A document that fails validation, or a directory that cannot be made,   *)
(* is refused before the lock is touched.                                  *)
Set(w) ==
    /\ job[w].pc = "idle"
    /\ \E f \in Sent, b \in {None, seen[w]} :
          job' = [job EXCEPT ![w] = [Idle EXCEPT !.pc = "open", !.base = b, !.file = f]]
    /\ UNCHANGED <<doc, lock, seen, exposed>>

OpenLock(w) ==
    /\ job[w].pc = "open"
    /\ IF lock = 0 THEN NewLock ELSE UNCHANGED lock
    /\ job' = [job EXCEPT ![w].pc = "wait", ![w].fd = lock']
    /\ UNCHANGED <<doc, seen, exposed>>

Flock(w) ==
    /\ job[w].pc = "wait"
    /\ \A v \in Writers : ~Holds(v, job[w].fd)
    /\ Goto(w, "check")
    /\ UNCHANGED <<doc, lock, seen, exposed>>

LocksAnyFile(w) == job[w].fd # 0
LocksSameFile(w) == job[w].fd = lock
CheckSame(w) ==
    /\ job[w].pc = "check"
    /\ LocksSameFile(w)
    /\ Goto(w, "read")
    /\ UNCHANGED <<doc, lock, seen, exposed>>
CheckReplacedForever(w) ==
    /\ job[w].pc = "check"
    /\ ~LocksSameFile(w)
    /\ job' = [job EXCEPT ![w].pc = "open", ![w].fd = 0]
    /\ UNCHANGED <<doc, lock, seen, exposed>>
CheckReplaced(w) ==
    /\ job[w].pc = "check"
    /\ ~LocksSameFile(w)
    /\ IF job[w].tries + 1 < Attempts
       THEN /\ job' = [job EXCEPT ![w].pc = "open", ![w].fd = 0, ![w].tries = @ + 1]
            /\ UNCHANGED exposed
       ELSE Finish(w)
    /\ UNCHANGED <<doc, lock, seen>>

BaseOptional(base, c) == base = None \/ base = c
BaseMatches(base, c) == IF c # Missing THEN base = c ELSE base \in {None, Missing}

Compare(w) ==
    /\ job[w].pc = "read"
    /\ \E s \in Snapshots :
          \/ /\ BaseMatches(job[w].base, s)
             /\ job' = [job EXCEPT ![w].pc = "stage",
                                   ![w].merged = MergeSocket(job[w].file, s)]
             /\ UNCHANGED exposed
          \/ ~BaseMatches(job[w].base, s) /\ Finish(w)
    /\ UNCHANGED <<doc, lock, seen>>

(* The document is written to a temporary file beside it; a failure        *)
(* removes that file again.                                                *)
Stage(w) ==
    /\ job[w].pc = "stage"
    /\ Goto(w, "commit")
    /\ UNCHANGED <<doc, lock, seen, exposed>>

Replace(w) ==
    /\ job[w].pc = "commit"
    /\ doc' = job[w].merged
    /\ Goto(w, "answer")
    /\ UNCHANGED <<lock, seen, exposed>>

(* The answer is a fresh snapshot, still under the lock.                   *)
Answer(w) ==
    /\ job[w].pc = "answer"
    /\ \E s \in Snapshots : seen' = [seen EXCEPT ![w] = s]
    /\ Finish(w)
    /\ UNCHANGED <<doc, lock>>

IoError(w) ==
    /\ "io" \in Faults
    /\ job[w].pc \in {"open", "wait", "stage", "commit"}
    /\ Finish(w)
    /\ UNCHANGED <<doc, lock, seen>>

(* The process dies; its locks go with it.                                 *)
Crash(w) ==
    /\ "crash" \in Faults
    /\ job[w].pc # "idle"
    /\ Finish(w)
    /\ UNCHANGED <<doc, lock, seen>>

(* Someone renames a file over the lock file, or removes it.               *)
SwapLock ==
    /\ "swap" \in Faults
    /\ lock # 0
    /\ NewLock \/ lock' = 0
    /\ exposed' = (exposed \/ \E w \in Writers : Critical(w))
    /\ UNCHANGED <<doc, job, seen>>

Step(w) == \/ OpenLock(w) \/ Flock(w) \/ CheckSame(w) \/ CheckReplaced(w)
           \/ Compare(w) \/ Stage(w) \/ Replace(w) \/ Answer(w)
Next == SwapLock \/ \E w \in Writers :
            Get(w) \/ Set(w) \/ Step(w) \/ IoError(w) \/ Crash(w)

Spec == Init /\ [][Next]_vars
(* A writer that can run does, and flock(2) serves its waiters in turn.    *)
Fairness == \A w \in Writers : WF_vars(Step(w)) /\ SF_vars(Flock(w))
FairSpec == Spec /\ Fairness

-----------------------------------------------------------------------------
TypeOK ==
    /\ doc \in Contents
    /\ lock \in Inodes \cup {0}
    /\ job \in [Writers -> Jobs]
    /\ seen \in [Writers -> Contents \cup {None}]
    /\ exposed \in BOOLEAN

(* No two writers are between their check and their release at once,       *)
(* whatever happens to the lock file while they wait for it: this is what  *)
(* _locks_same_file is for.  So the document a set answers with is the one *)
(* it wrote.  The exception is the documented one.                         *)
WritersExclude ==
    ~exposed => \A v, w \in Writers : Critical(v) /\ Critical(w) => v = w

(* Sending back what get disclosed, with other rules, never changes the    *)
(* stored socket: its token, which get hides, and the exact path, which    *)
(* get trims.                                                              *)
EchoKeepsSocket ==
    [][\A w \in Writers :
          (/\ job[w].pc = "commit" /\ job'[w].pc = "answer" /\ ~exposed
           /\ doc \in Documents
           /\ job[w].file = [RedactDocument(doc) EXCEPT !.policy = job[w].file.policy])
          => doc'.path = doc.path /\ doc'.token = doc.token]_vars

(* Every set is answered, however often the lock file is replaced.         *)
EverySetAnswered == \A w \in Writers : job[w].pc # "idle" ~> job[w].pc = "idle"

(* The writers together implement the register of PolicyRegister.          *)
Pending == [w \in Writers |->
              IF job[w].pc \in {"idle", "answer"} THEN None
              ELSE [base |-> job[w].base, file |-> job[w].file]]
Register == INSTANCE PolicyRegister WITH
    Clients <- Writers, Bases <- Contents \cup {None},
    Stored <- Contents, Carry <- MergeSocket, reg <- doc, req <- Pending
ImplementsRegister == Register!Spec
=============================================================================
