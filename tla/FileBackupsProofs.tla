-------------------------- MODULE FileBackupsProofs --------------------------
(***************************************************************************)
(* Proofs about FileBackups, for any paths, files, contents and faults.    *)
(* JobOK is what the handler's locals hold at each point: it is the part   *)
(* that makes NoDanglingVersion inductive (a line is appended only while   *)
(* its body is already among the objects).                                 *)
(***************************************************************************)
EXTENDS FileBackups, TLAPS

JobOK ==
    /\ job.pc # "idle" => /\ job.path \in Paths /\ job.id \in Ids
                          /\ job.kind \in Kinds
    /\ job.kind = "move" => job.dst \in Paths
    /\ job.pc \in {"source", "history", "unlink_log"} => job.kind = "move"
    /\ job.pc \in {"object", "append"} => job.cap \in Contents
    /\ job.pc = "append" => job.cap \in objects
    /\ job.kind \in {"write", "patch", "restore"} => job.data \in Contents

IInv == TypeOK /\ JobOK /\ NoDanglingVersion

USE PathAssumption, ContentAssumption, NoneAssumption, FaultAssumption, BoundAssumption

LEMMA InitInv == Init => IInv
  <1> SUFFICES ASSUME Init PROVE IInv
    OBVIOUS
  <1>1. TypeOK
    BY DEF Init, TypeOK, Idle, NoReply, JobType, ReplyType, Bytes, Codes, PCs, Kinds
  <1>2. JobOK
    BY DEF Init, JobOK, Idle
  <1>3. NoDanglingVersion
    BY DEF Init, NoDanglingVersion
  <1> QED BY <1>1, <1>2, <1>3 DEF IInv

(* A command that ends leaves the idle job and a well-formed reply.        *)
LEMMA ReturnTypes ==
  ASSUME job \in JobType, NEW b \in Bytes, Return(b)
  PROVE  /\ job' = Idle /\ job' \in JobType /\ reply' \in ReplyType
  BY DEF Return, JobType, ReplyType, Idle, Bytes, Codes, PCs, Kinds

LEMMA AbortTypes ==
  ASSUME NEW c \in Codes, Abort(c)
  PROVE  /\ job' = Idle /\ job' \in JobType /\ reply' \in ReplyType
  BY DEF Abort, JobType, ReplyType, NoReply, Idle, Bytes, PCs, Kinds

LEMMA IdleOK == ASSUME job' = Idle PROVE JobOK'
  BY DEF JobOK, Idle

(* A started command has its locals in order; nothing else changes.        *)
LEMMA StartInv ==
  ASSUME IInv, NEW k \in Kinds, NEW p \in Paths, NEW d \in Paths \cup {None},
         NEW cap \in Bytes, NEW id \in Ids, NEW data \in Bytes,
         k = "move" => d \in Paths,
         k \in {"write", "patch", "restore"} => data \in Contents,
         Start(k, p, d, cap, id, data)
  PROVE  IInv'
  <1>1. TypeOK'
    BY DEF IInv, TypeOK, Start, NoReply, JobType, ReplyType, Bytes, Codes, PCs, Kinds
  <1>2. JobOK'
    BY DEF IInv, JobOK, Start, Bytes, Kinds
  <1>3. NoDanglingVersion'
    BY DEF IInv, NoDanglingVersion, Start
  <1> QED BY <1>1, <1>2, <1>3 DEF IInv

LEMMA PrefixedIds ==
  ASSUME NEW id \in Ids
  PROVE  RestoreFrom(id) \in Ids /\ PreMove(id) \in Ids
  <1> DEFINE words == {"restore-from", "pre-move"}
  <1>1. id.prefixes \in Seq(words) /\ id.base \in Proposals
    BY DEF Ids
  <1>2. ASSUME NEW w \in words PROVE <<w>> \o id.prefixes \in Seq(words)
    <2>1. <<w>> \in Seq(words)
      OBVIOUS
    <2> QED BY <1>1, <2>1
  <1> QED BY <1>1, <1>2 DEF Ids, RestoreFrom, PreMove, Prefixed

LEMMA NewIds == ASSUME NEW b \in Proposals PROVE ProposalId(b) \in Ids
  BY DEF Ids, ProposalId

LEMMA RequestInv == ASSUME IInv, Request PROVE IInv'
  <1>0. live \in [Files -> Bytes] /\ \A p \in Paths : FileOf[p] \in Files
    BY DEF IInv, TypeOK
  <1>1. ASSUME NEW p \in Paths, NEW b \in Proposals, NEW c \in Contents,
               FsWrite(p, c, ProposalId(b)) \/ FsPatch(p, c, ProposalId(b))
        PROVE  IInv'
    <2>1. live[FileOf[p]] \in Bytes /\ None \in Bytes /\ c \in Bytes
      BY <1>0 DEF Bytes
    <2>2. \E k \in {"write", "patch"} : Start(k, p, None, live[FileOf[p]], ProposalId(b), c)
      BY <1>1 DEF FsWrite, FsPatch
    <2> QED BY <2>1, <2>2, StartInv, NewIds DEF Kinds
  <1>2. ASSUME NEW p \in Paths, NEW b \in Proposals, FsDelete(p, ProposalId(b)) PROVE IInv'
    <2>1. live[FileOf[p]] \in Bytes /\ None \in Bytes
      BY <1>0 DEF Bytes
    <2> QED BY <1>2, <2>1, StartInv, NewIds DEF FsDelete, Kinds
  <1>3. ASSUME NEW s \in Paths, NEW d \in Paths, NEW b \in Proposals,
               FsMove(s, d, ProposalId(b)) PROVE IInv'
    <2>1. CASE Exists(d)
      <3>1. live[FileOf[d]] \in Bytes /\ None \in Bytes
        BY <1>0 DEF Bytes
      <3>2. Start("move", s, d, live[FileOf[d]], ProposalId(b), None)
        BY <1>3, <2>1 DEF FsMove
      <3> QED BY <3>1, <3>2, StartInv, NewIds DEF Kinds
    <2>2. CASE ~Exists(d)
      <3>0. job' = [Idle EXCEPT !.pc = "source", !.kind = "move", !.path = s, !.dst = d,
                                !.id = ProposalId(b)]
        BY <1>3, <2>2 DEF FsMove
      <3>4. job' \in JobType
        BY <3>0, NewIds DEF Idle, JobType, Bytes, PCs, Kinds
      <3>5. reply' \in ReplyType
        BY <1>3, <2>2 DEF FsMove, NoReply, ReplyType, Bytes, Codes
      <3>1. TypeOK'
        BY <1>3, <2>2, <3>4, <3>5 DEF FsMove, IInv, TypeOK
      <3>2. JobOK'
        BY <1>3, <2>2, NewIds DEF FsMove, IInv, JobOK, Idle, Kinds
      <3>3. NoDanglingVersion'
        BY <1>3, <2>2 DEF FsMove, IInv, NoDanglingVersion
      <3> QED BY <3>1, <3>2, <3>3 DEF IInv
    <2> QED BY <2>1, <2>2
  <1>4. ASSUME Refused PROVE IInv'
    <2>1. TypeOK'
      BY <1>4 DEF Refused, IInv, TypeOK, NoReply, ReplyType, Bytes, Codes
    <2>2. JobOK' /\ NoDanglingVersion'
      BY <1>4 DEF Refused, IInv, JobOK, NoDanglingVersion
    <2> QED BY <2>1, <2>2 DEF IInv
  <1>5. ASSUME NEW p \in Paths, NEW sel \in Selectors(index[p]), FsRestore(p, sel) PROVE IInv'
    <2> DEFINE i == ResolveVersion(index[p], sel)
               cap == IF Exists(p) THEN live[FileOf[p]] ELSE Empty
    <2>1. i \in DOMAIN index[p]
      BY <1>5 DEF FsRestore
    <2>2. Start("restore", p, None, cap, RestoreFrom(index[p][i].id), index[p][i].sha)
      BY <1>5 DEF FsRestore
    <2> HIDE DEF i
    <2>3. index[p][i] \in Versions
      BY <2>1 DEF IInv, TypeOK
    <2>4. index[p][i].sha \in Contents /\ index[p][i].id \in Ids
      BY <2>3 DEF Versions
    <2>5. cap \in Bytes /\ None \in Bytes /\ index[p][i].sha \in Bytes
      BY <1>0, <2>4 DEF Bytes
    <2> QED BY <2>2, <2>4, <2>5, PrefixedIds, StartInv DEF Kinds
  <1> QED BY <1>1, <1>2, <1>3, <1>4, <1>5 DEF Request

LEMMA CaptureInv == ASSUME IInv, Capture PROVE IInv'
  <1>0. job \in JobType /\ reply \in ReplyType /\ JobOK /\ NoDanglingVersion /\ TypeOK
    BY DEF IInv, TypeOK
  <1>1. CASE StoreObject
    <2>1. TypeOK'
      BY <1>0, <1>1 DEF StoreObject, TypeOK, JobOK, JobType, PCs
    <2>2. JobOK'
      BY <1>0, <1>1 DEF StoreObject, JobOK, JobType
    <2>3. NoDanglingVersion'
      BY <1>0, <1>1 DEF StoreObject, NoDanglingVersion
    <2> QED BY <2>1, <2>2, <2>3 DEF IInv
  <1>2. CASE StoreObjectFails \/ AppendFails
    <2>1. \E c \in Codes : Abort(c)
      BY <1>2 DEF StoreObjectFails, AppendFails, Codes
    <2>2. job' = Idle /\ job' \in JobType /\ reply' \in ReplyType
      BY <2>1, AbortTypes
    <2>3. UNCHANGED <<live, trash, objects, index, broken, now, disturbed>>
      BY <1>2 DEF StoreObjectFails, AppendFails
    <2> QED BY <1>0, <2>2, <2>3, IdleOK DEF IInv, TypeOK, NoDanglingVersion
  <1>3. ASSUME job.pc = "append"
        PROVE  CapPath \in Paths /\ CapId \in Ids /\ job.cap \in Contents /\ job.cap \in objects
    BY <1>0, <1>3, PrefixedIds DEF JobOK, CapPath, CapId, CapturesDst
  <1>4. ASSUME AfterAppend, job.pc = "append", UNCHANGED index \/ NoDanglingVersion'
        PROVE  job' \in JobType /\ JobOK' /\ NoDanglingVersion'
    <2>1. job' \in JobType
      BY <1>0, <1>4 DEF AfterAppend, JobType, PCs
    <2>2. JobOK'
      BY <1>0, <1>4 DEF AfterAppend, JobOK, JobType, CapturesDst
    <2> QED BY <1>0, <1>4, <2>1, <2>2 DEF AfterAppend, NoDanglingVersion
  <1>5. CASE AppendLine
    <2> DEFINE v == [sha |-> job.cap, id |-> CapId, ts |-> now]
               q == CapPath
    <2>1. job.pc = "append" /\ AfterAppend
      BY <1>5 DEF AppendLine
    <2>2. q \in Paths /\ v \in Versions
      BY <1>0, <1>3, <2>1 DEF Versions, TypeOK
    <2>3. CASE broken[q] = "torn"
      <3>1. broken' = [broken EXCEPT ![q] = "yes"] /\ UNCHANGED <<index, disturbed>>
        BY <1>5, <2>3 DEF AppendLine
      <3>2. TypeOK'
        BY <1>0, <1>4, <2>1, <2>2, <3>1 DEF TypeOK, AfterAppend
      <3> QED BY <1>4, <2>1, <3>1, <3>2 DEF IInv
    <2>4. CASE broken[q] # "torn"
      <3>1. index' = [index EXCEPT ![q] = Append(index[q], v)] /\ UNCHANGED <<broken, disturbed>>
        BY <1>5, <2>4 DEF AppendLine
      <3> HIDE DEF q, v
      <3>2. index[q] \in Seq(Versions) /\ Append(index[q], v) \in Seq(Versions)
        BY <1>0, <2>2 DEF TypeOK
      <3>3. index' \in [Paths -> Seq(Versions)]
        BY <1>0, <2>2, <3>1, <3>2 DEF TypeOK
      <3>4. NoDanglingVersion'
        <4> SUFFICES ASSUME NEW p \in Paths, NEW i \in DOMAIN index'[p]
                     PROVE  index'[p][i].sha \in objects'
          BY DEF NoDanglingVersion
        <4>1. objects' = objects /\ v.sha \in objects
          BY <1>3, <2>1 DEF AfterAppend, v
        <4>2. CASE p # q
          BY <1>0, <3>1, <4>1, <4>2 DEF NoDanglingVersion, TypeOK
        <4>3. CASE p = q
          <5>1. index'[p] = Append(index[q], v)
            BY <1>0, <3>1, <4>3, <2>2 DEF TypeOK
          <5>2. CASE i = Len(index[q]) + 1
            BY <3>2, <4>1, <5>1, <5>2
          <5>3. CASE i # Len(index[q]) + 1
            <6>1. i \in DOMAIN index[q] /\ index'[p][i] = index[q][i]
              BY <3>2, <5>1, <5>3
            <6> QED BY <1>0, <2>2, <4>1, <6>1 DEF NoDanglingVersion
          <5> QED BY <5>2, <5>3
        <4> QED BY <4>2, <4>3
      <3>5. TypeOK'
        BY <1>0, <1>4, <2>1, <3>1, <3>3, <3>4 DEF TypeOK, AfterAppend
      <3> QED BY <1>4, <2>1, <3>4, <3>5 DEF IInv
    <2> QED BY <2>3, <2>4
  <1>6. CASE ShortWrite
    <2>1. job.pc = "append" /\ AfterAppend /\ UNCHANGED index
          /\ broken' = [broken EXCEPT ![CapPath] = "torn"] /\ disturbed' = disturbed + 1
      BY <1>6 DEF ShortWrite
    <2>2. TypeOK'
      BY <1>0, <1>3, <1>4, <2>1 DEF TypeOK, AfterAppend
    <2> QED BY <1>4, <2>1, <2>2 DEF IInv
  <1>7. CASE ReadSource
    <2>1. job.pc = "source" /\ job.path \in Paths /\ job.kind = "move"
          /\ UNCHANGED <<live, trash, objects, index, broken, now, disturbed>>
      BY <1>0, <1>7 DEF ReadSource, JobOK
    <2>2. CASE Exists(job.path)
      <3>1. live[FileOf[job.path]] \in Contents
        BY <1>0, <2>1, <2>2 DEF Exists, TypeOK, Bytes
      <3>2. UNCHANGED reply
            /\ job' = [job EXCEPT !.pc = "object", !.cap = live[FileOf[job.path]],
                                  !.data = live[FileOf[job.path]]]
        BY <1>7, <2>2 DEF ReadSource
      <3>3. job' \in JobType
        BY <1>0, <3>1, <3>2 DEF JobType, PCs, Bytes
      <3>4. JobOK'
        BY <1>0, <2>1, <3>1, <3>2 DEF JobOK, JobType, Kinds
      <3> QED BY <1>0, <2>1, <3>2, <3>3, <3>4 DEF IInv, TypeOK, NoDanglingVersion
    <2>3. CASE ~Exists(job.path)
      <3>1. Abort("READ_ERROR")
        BY <1>7, <2>3 DEF ReadSource
      <3>2. job' = Idle /\ job' \in JobType /\ reply' \in ReplyType
        BY <3>1, AbortTypes DEF Codes
      <3> QED BY <1>0, <2>1, <3>2, IdleOK DEF IInv, TypeOK, NoDanglingVersion
    <2> QED BY <2>2, <2>3
  <1> QED BY <1>1, <1>2, <1>5, <1>6, <1>7 DEF Capture

LEMMA ApplyInv == ASSUME IInv, Apply PROVE IInv'
  <1>0. job \in JobType /\ reply \in ReplyType /\ JobOK /\ NoDanglingVersion /\ TypeOK
    BY DEF IInv, TypeOK
  <1>a. ASSUME job.pc # "idle"
        PROVE  job.path \in Paths /\ FileOf[job.path] \in Files /\ live[FileOf[job.path]] \in Bytes
    BY <1>0, <1>a DEF JobOK, TypeOK
  <1>1. CASE ApplyWrite
    <2> DEFINE was == live[FileOf[job.path]]
    <2>1. /\ job.pc = "apply" /\ job.kind \in {"write", "patch", "restore"}
          /\ live' = [live EXCEPT ![FileOf[job.path]] = job.data]
          /\ UNCHANGED <<trash, objects, index, broken, now, disturbed>>
      BY <1>1 DEF ApplyWrite
    <2>2. live' \in [Files -> Bytes]
      BY <1>0, <1>a, <2>1 DEF TypeOK, JobOK, Bytes
    <2>3. CASE job.kind = "restore"
      <3>1. UNCHANGED reply /\ job' = [job EXCEPT !.pc = "purge", !.prior = was]
        BY <1>1, <2>3 DEF ApplyWrite
      <3>2. job' \in JobType
        BY <1>0, <1>a, <2>1, <3>1 DEF JobType, PCs
      <3>3. JobOK'
        BY <1>0, <2>1, <3>1 DEF JobOK, JobType
      <3> QED BY <1>0, <2>1, <2>2, <3>1, <3>2, <3>3 DEF IInv, TypeOK, NoDanglingVersion
    <2>4. CASE job.kind # "restore"
      <3>1. Return(was)
        BY <1>1, <2>4 DEF ApplyWrite
      <3>2. job' = Idle /\ job' \in JobType /\ reply' \in ReplyType
        BY <1>0, <1>a, <2>1, <3>1, ReturnTypes DEF Codes
      <3> QED BY <1>0, <2>1, <2>2, <3>2, IdleOK DEF IInv, TypeOK, NoDanglingVersion
    <2> QED BY <2>3, <2>4
  <1>2. CASE ApplyDelete
    <2>1. trash' \subseteq Files
      BY <1>0, <1>a, <1>2 DEF ApplyDelete, Exists, TypeOK, Bytes
    <2>2. job' \in JobType
      BY <1>0, <1>2 DEF ApplyDelete, JobType, PCs
    <2>3. JobOK'
      BY <1>0, <1>2 DEF ApplyDelete, JobOK, JobType
    <2> QED BY <1>0, <1>2, <2>1, <2>2, <2>3 DEF ApplyDelete, IInv, TypeOK, NoDanglingVersion
  <1>3. CASE UnlinkLive
    <2>1. live' \in [Files -> Bytes]
      BY <1>0, <1>a, <1>3 DEF UnlinkLive, TypeOK, Bytes
    <2>2. job' = Idle /\ job' \in JobType /\ reply' \in ReplyType
      BY <1>0, <1>a, <1>3, ReturnTypes DEF UnlinkLive, Codes
    <2> QED BY <1>0, <1>3, <2>1, <2>2, IdleOK DEF UnlinkLive, IInv, TypeOK, NoDanglingVersion
  <1>4. CASE ApplyMove
    <2>1. job.dst \in Paths /\ FileOf[job.dst] \in Files /\ live[FileOf[job.dst]] \in Bytes
      BY <1>0, <1>4 DEF ApplyMove, JobOK, TypeOK
    <2>2. live' \in [Files -> Bytes]
      BY <1>0, <1>a, <1>4, <2>1 DEF ApplyMove, TypeOK, Bytes
    <2>3. job' \in JobType
      BY <1>0, <1>4, <2>1 DEF ApplyMove, JobType, PCs
    <2>4. JobOK'
      BY <1>0, <1>4 DEF ApplyMove, JobOK, JobType
    <2> QED BY <1>0, <1>4, <2>2, <2>3, <2>4 DEF ApplyMove, IInv, TypeOK, NoDanglingVersion
  <1>5. CASE ApplyFails
    <2>1. ApplyError \in Codes /\ Abort(ApplyError)
      BY <1>5 DEF ApplyFails, ApplyError, Codes
    <2>2. job' = Idle /\ job' \in JobType /\ reply' \in ReplyType
      BY <2>1, AbortTypes
    <2> QED BY <1>0, <1>5, <2>2, IdleOK DEF ApplyFails, IInv, TypeOK, NoDanglingVersion
  <1> QED BY <1>1, <1>2, <1>3, <1>4, <1>5 DEF Apply

(* The lines of a concatenation are the lines of its halves.               *)
LEMMA ConcatLines ==
  ASSUME NEW s \in Seq(Versions), NEW t \in Seq(Versions), NEW i \in DOMAIN (s \o t)
  PROVE  \/ i \in DOMAIN s /\ (s \o t)[i] = s[i]
         \/ \E j \in DOMAIN t : (s \o t)[i] = t[j]
  <1>1. i \in 1..(Len(s) + Len(t)) /\ DOMAIN s = 1..Len(s) /\ DOMAIN t = 1..Len(t)
    OBVIOUS
  <1>2. CASE i <= Len(s)
    BY <1>1, <1>2
  <1>3. CASE i > Len(s)
    <2>1. i - Len(s) \in DOMAIN t /\ (s \o t)[i] = t[i - Len(s)]
      BY <1>1, <1>3
    <2> QED BY <2>1
  <1> QED BY <1>1, <1>2, <1>3

LEMMA FinishInv == ASSUME IInv, Finish PROVE IInv'
  <1>0. job \in JobType /\ reply \in ReplyType /\ JobOK /\ NoDanglingVersion /\ TypeOK
    BY DEF IInv, TypeOK
  <1>a. job.prior \in Bytes
    BY <1>0 DEF JobType
  <1>b. ASSUME job.pc \in {"history", "unlink_log"}
        PROVE  /\ job.path \in Paths /\ job.dst \in Paths
               /\ index[job.path] \in Seq(Versions) /\ index[job.dst] \in Seq(Versions)
               /\ broken[job.path] \in {"no", "torn", "yes"}
    BY <1>0, <1>b DEF JobOK, TypeOK
  <1>1. CASE RenameHistory
    <2>1. /\ job.pc = "history" /\ UNCHANGED <<live, trash, objects, now, disturbed>>
      BY <1>1 DEF RenameHistory
    <2>2. CASE HasLog(job.dst)
      <3>1. /\ index' = [index EXCEPT ![job.dst] = index[job.path] \o index[job.dst]]
            /\ broken' = [broken EXCEPT ![job.dst] = MergedBroken(job.path, job.dst)]
            /\ job' = [job EXCEPT !.pc = "unlink_log"]
            /\ UNCHANGED reply
        BY <1>1, <2>2 DEF RenameHistory, Merged
      <3>2. index' \in [Paths -> Seq(Versions)]
        <4>1. index[job.path] \o index[job.dst] \in Seq(Versions)
          BY <1>b, <2>1
        <4> QED BY <1>0, <1>b, <2>1, <3>1, <4>1 DEF TypeOK
      <3>3. broken' \in [Paths -> {"no", "torn", "yes"}]
        BY <1>0, <1>b, <2>1, <3>1 DEF TypeOK, MergedBroken
      <3>4. job' \in JobType
        BY <1>0, <3>1 DEF JobType, PCs
      <3>5. JobOK'
        BY <1>0, <2>1, <3>1 DEF JobOK, JobType
      <3>6. NoDanglingVersion'
        <4> SUFFICES ASSUME NEW p \in Paths, NEW i \in DOMAIN index'[p]
                     PROVE  index'[p][i].sha \in objects
          BY <2>1 DEF NoDanglingVersion
        <4>1. CASE p # job.dst
          BY <1>0, <3>1, <4>1 DEF NoDanglingVersion, TypeOK
        <4>2. CASE p = job.dst
          <5>1. index'[p] = index[job.path] \o index[job.dst]
            BY <1>0, <3>1, <4>2 DEF TypeOK
          <5>2. CASE i \in DOMAIN index[job.path] /\ index'[p][i] = index[job.path][i]
            BY <1>0, <1>b, <2>1, <5>2 DEF NoDanglingVersion
          <5>3. CASE \E j \in DOMAIN index[job.dst] : index'[p][i] = index[job.dst][j]
            BY <1>0, <1>b, <2>1, <5>3 DEF NoDanglingVersion
          <5>4. /\ index[job.path] \in Seq(Versions) /\ index[job.dst] \in Seq(Versions)
                /\ i \in DOMAIN (index[job.path] \o index[job.dst])
            BY <1>b, <2>1, <5>1
          <5>5. \/ /\ i \in DOMAIN index[job.path]
                   /\ (index[job.path] \o index[job.dst])[i] = index[job.path][i]
                \/ \E j \in DOMAIN index[job.dst] :
                      (index[job.path] \o index[job.dst])[i] = index[job.dst][j]
            <6> DEFINE s == index[job.path]  t == index[job.dst]
            <6>1. s \in Seq(Versions) /\ t \in Seq(Versions) /\ i \in DOMAIN (s \o t)
              BY <5>4
            <6> HIDE DEF s, t
            <6>2. \/ i \in DOMAIN s /\ (s \o t)[i] = s[i]
                  \/ \E j \in DOMAIN t : (s \o t)[i] = t[j]
              BY <6>1, ConcatLines
            <6> QED BY <6>2 DEF s, t
          <5> QED BY <5>1, <5>2, <5>3, <5>5, Zenon
        <4> QED BY <4>1, <4>2
      <3> QED BY <1>0, <2>1, <3>1, <3>2, <3>3, <3>4, <3>5, <3>6 DEF IInv, TypeOK
    <2>3. CASE ~HasLog(job.dst)
      <3>1. /\ index' = [index EXCEPT ![job.dst] = index[job.path], ![job.path] = <<>>]
            /\ broken' = [broken EXCEPT ![job.dst] = broken[job.path], ![job.path] = "no"]
            /\ Return(job.prior)
        BY <1>1, <2>3 DEF RenameHistory
      <3>2. job' = Idle /\ job' \in JobType /\ reply' \in ReplyType
        BY <1>0, <1>a, <3>1, ReturnTypes DEF Codes
      <3>3. /\ job.path \in Paths /\ job.dst \in Paths /\ <<>> \in Seq(Versions)
            /\ DOMAIN index = Paths /\ DOMAIN broken = Paths
        BY <1>0, <1>b, <2>1 DEF TypeOK
      <3>5. ASSUME NEW p \in Paths
            PROVE  \/ index'[p] = <<>> /\ broken'[p] = "no"
                   \/ \E q \in Paths : index'[p] = index[q] /\ broken'[p] = broken[q]
        BY <3>1, <3>3
      <3>6. index' \in [Paths -> Seq(Versions)]
        <4>1. DOMAIN index' = Paths /\ index' = [p \in Paths |-> index'[p]]
          BY <3>1, <3>3
        <4>2. \A p \in Paths : index'[p] \in Seq(Versions)
          BY <1>0, <3>3, <3>5 DEF TypeOK
        <4> QED BY <4>1, <4>2
      <3>7. broken' \in [Paths -> {"no", "torn", "yes"}]
        BY <1>0, <1>b, <2>1, <3>1, <3>3 DEF TypeOK
      <3>4. NoDanglingVersion'
        <4> SUFFICES ASSUME NEW p \in Paths, NEW i \in DOMAIN index'[p]
                     PROVE  index'[p][i].sha \in objects
          BY <2>1 DEF NoDanglingVersion
        <4> QED BY <1>0, <3>5 DEF NoDanglingVersion
      <3> QED BY <1>0, <2>1, <3>2, <3>4, <3>6, <3>7, IdleOK DEF IInv, TypeOK
    <2> QED BY <2>2, <2>3
  <1>2. CASE UnlinkLog
    <2>1. job' = Idle /\ job' \in JobType /\ reply' \in ReplyType
      BY <1>0, <1>a, <1>2, ReturnTypes DEF UnlinkLog, Codes
    <2>2. index' \in [Paths -> Seq(Versions)] /\ broken' \in [Paths -> {"no", "torn", "yes"}]
      BY <1>0, <1>b, <1>2 DEF UnlinkLog, TypeOK
    <2>3. NoDanglingVersion'
      BY <1>0, <1>b, <1>2 DEF UnlinkLog, NoDanglingVersion, TypeOK
    <2> QED BY <1>0, <1>2, <2>1, <2>2, <2>3, IdleOK DEF UnlinkLog, IInv, TypeOK
  <1>3. CASE RenameFails
    <2>1. Return(job.prior) \/ \E c \in Codes : Abort(c)
      BY <1>3 DEF RenameFails, Codes
    <2>2. job' = Idle /\ job' \in JobType /\ reply' \in ReplyType
      BY <1>0, <1>a, <2>1, ReturnTypes, AbortTypes
    <2> QED BY <1>0, <1>3, <2>2, IdleOK DEF RenameFails, IInv, TypeOK, NoDanglingVersion
  <1>4. CASE Purge
    <2>1. trash' \subseteq trash
      BY <1>4 DEF Purge
    <2>2. job' = Idle /\ job' \in JobType /\ reply' \in ReplyType
      BY <1>0, <1>a, <1>4, ReturnTypes DEF Purge, Codes
    <2> QED BY <1>0, <1>4, <2>1, <2>2, IdleOK DEF Purge, IInv, TypeOK, NoDanglingVersion
  <1> QED BY <1>1, <1>2, <1>3, <1>4 DEF Finish

LEMMA StepInv == IInv /\ [Next]_vars => IInv'
  <1> SUFFICES ASSUME IInv, [Next]_vars PROVE IInv'
    OBVIOUS
  <1>1. CASE Crash
    <2>1. job' \in JobType /\ reply' \in ReplyType
      BY <1>1 DEF Crash, Idle, NoReply, JobType, ReplyType, Bytes, Codes, PCs, Kinds
    <2> QED BY <1>1, <2>1, IdleOK DEF Crash, IInv, TypeOK, NoDanglingVersion
  <1>2. CASE ExternalChange
    <2>1. live' \in [Files -> Bytes]
      BY <1>2 DEF ExternalChange, IInv, TypeOK
    <2>2. JobOK'
      BY <1>2 DEF ExternalChange, IInv, JobOK
    <2> QED BY <1>2, <2>1, <2>2 DEF ExternalChange, IInv, TypeOK, NoDanglingVersion
  <1>3. CASE Tick
    <2>1. JobOK'
      BY <1>3 DEF Tick, IInv, JobOK
    <2> QED BY <1>3, <2>1 DEF Tick, IInv, TypeOK, NoDanglingVersion
  <1>4. CASE UNCHANGED vars
    <2>1. JobOK'
      BY <1>4 DEF vars, IInv, JobOK
    <2> QED BY <1>4, <2>1 DEF vars, IInv, TypeOK, NoDanglingVersion
  <1> QED BY <1>1, <1>2, <1>3, <1>4, RequestInv, CaptureInv, ApplyInv, FinishInv DEF Next

(* The state keeps its types, for any paths, contents and faults: an       *)
(* absent file never reaches the object store or a log.                    *)
THEOREM TypeCorrect == Spec => []TypeOK
  <1>1. IInv => TypeOK
    BY DEF IInv
  <1> QED BY <1>1, InitInv, StepInv, PTL DEF Spec

(* capture() stores a body before its line and rename_history copies lines *)
(* whose bodies are stored, so a crash, a full disk or a failed call       *)
(* leaves orphan bodies at worst, never a version that cannot be fetched.  *)
THEOREM NoDangling == Spec => []NoDanglingVersion
  <1>1. IInv => NoDanglingVersion
    BY DEF IInv
  <1> QED BY <1>1, InitInv, StepInv, PTL DEF Spec

-----------------------------------------------------------------------------
(* Between the rewrite of the destination's log and the unlink of the      *)
(* source's, the first begins with the second.                             *)
MergeOK ==
    /\ job.kind = "move" => job.path # job.dst
    /\ job.pc = "unlink_log" => Begins(index[job.path], index[job.dst])

LEMMA Reflexive == ASSUME NEW s \in Seq(Versions) PROVE Begins(s, s)
  BY DEF Begins

LEMMA EmptyBegins == ASSUME NEW s \in Seq(Versions) PROVE Begins(<<>>, s)
  BY DEF Begins

LEMMA AppendBegins ==
  ASSUME NEW s \in Seq(Versions), NEW v \in Versions PROVE Begins(s, Append(s, v))
  BY DEF Begins

LEMMA ConcatKeeps ==
  ASSUME NEW s \in Seq(Versions), NEW t \in Seq(Versions)
  PROVE  Begins(s, s \o t) /\ Ends(t, s \o t)
  <1>1. Len(s \o t) = Len(s) + Len(t) /\ Len(s) \in Nat /\ Len(t) \in Nat
    OBVIOUS
  <1>2. Begins(s, s \o t)
    BY <1>1 DEF Begins
  <1>3. ASSUME NEW i \in 1..Len(t) PROVE (s \o t)[Len(s) + i] = t[i]
    OBVIOUS
  <1>4. Ends(t, s \o t)
    <2>1. Len(t) <= Len(s \o t) /\ Len(s \o t) - Len(t) = Len(s)
      BY <1>1
    <2> QED BY <1>3, <2>1 DEF Ends
  <1> QED BY <1>2, <1>4

(* The only steps that touch a log are an append and rename_history.       *)
LEMMA OtherSteps ==
  ASSUME [Next]_vars, ~AppendLine, ~RenameHistory, ~UnlinkLog
  PROVE  UNCHANGED index
  <1>1. CASE Request
    BY <1>1 DEF Request, FsWrite, FsPatch, FsDelete, FsMove, FsRestore, Refused, Start
  <1>2. CASE Capture
    BY <1>2 DEF Capture, StoreObject, StoreObjectFails, ShortWrite, AppendFails, ReadSource
  <1>3. CASE Apply
    BY <1>3 DEF Apply, ApplyWrite, ApplyDelete, UnlinkLive, ApplyMove, ApplyFails
  <1>4. CASE Finish
    BY <1>4 DEF Finish, RenameFails, Purge
  <1> QED BY <1>1, <1>2, <1>3, <1>4 DEF Next, Crash, ExternalChange, Tick, vars

LEMMA MergeInit == Init => MergeOK
  BY DEF Init, MergeOK, Idle

LEMMA MergeStep == IInv /\ MergeOK /\ [Next]_vars => MergeOK'
  <1> SUFFICES ASSUME IInv, MergeOK, [Next]_vars PROVE MergeOK'
    OBVIOUS
  <1>0. job \in JobType /\ JobOK /\ TypeOK
    BY DEF IInv, TypeOK
  <1>a. ASSUME job' = Idle PROVE MergeOK'
    BY <1>a DEF MergeOK, Idle
  <1>b. ASSUME job'.kind = job.kind, job'.path = job.path, job'.dst = job.dst,
               job'.pc # "unlink_log"
        PROVE  MergeOK'
    BY <1>b DEF MergeOK
  <1>1. CASE Request
    <2>1. ASSUME NEW s \in Paths, NEW d \in Paths, NEW b \in Proposals,
                 FsMove(s, d, ProposalId(b)) PROVE MergeOK'
      <3>1. s # d
        BY <2>1 DEF FsMove
      <3>2. CASE Exists(d)
        BY <2>1, <3>1, <3>2 DEF FsMove, MergeOK, Start
      <3>3. CASE ~Exists(d)
        <4>1. job' = [Idle EXCEPT !.pc = "source", !.kind = "move", !.path = s, !.dst = d,
                                  !.id = ProposalId(b)]
          BY <2>1, <3>3 DEF FsMove
        <4> QED BY <3>1, <4>1 DEF MergeOK, Idle
      <3> QED BY <3>2, <3>3
    <2>2. ASSUME NEW k \in {"write", "patch", "delete", "restore"}, NEW p, NEW d, NEW c,
                 NEW b, NEW x, Start(k, p, d, c, b, x) PROVE MergeOK'
      BY <2>2 DEF MergeOK, Start
    <2>3. ASSUME Refused PROVE MergeOK'
      BY <2>3 DEF Refused, MergeOK
    <2>4. ASSUME NEW p \in Paths, NEW sel \in Selectors(index[p]), FsRestore(p, sel) PROVE MergeOK'
      BY <2>2, <2>4 DEF FsRestore
    <2>5. ASSUME NEW p \in Paths, NEW b \in Proposals,
                 FsDelete(p, ProposalId(b)) \/ \E c \in Contents :
                    FsWrite(p, c, ProposalId(b)) \/ FsPatch(p, c, ProposalId(b))
          PROVE  MergeOK'
      BY <2>2, <2>5 DEF FsDelete, FsWrite, FsPatch
    <2> QED BY <1>1, <2>1, <2>3, <2>4, <2>5 DEF Request
  <1>2. CASE Capture
    <2>1. CASE StoreObject \/ AppendLine \/ ShortWrite
      <3>1. job' = [job EXCEPT !.pc = "append"] \/ job' = [job EXCEPT !.pc = "source"]
            \/ job' = [job EXCEPT !.pc = "apply"]
        BY <2>1 DEF StoreObject, AppendLine, ShortWrite, AfterAppend
      <3> QED BY <1>0, <1>b, <3>1 DEF JobType
    <2>2. CASE StoreObjectFails \/ AppendFails
      BY <1>a, <2>2 DEF StoreObjectFails, AppendFails, Abort
    <2>3. CASE ReadSource
      BY <1>0, <1>a, <1>b, <2>3 DEF ReadSource, Abort, JobType
    <2> QED BY <1>2, <2>1, <2>2, <2>3 DEF Capture
  <1>3. CASE Apply
    <2>1. CASE ApplyWrite
      BY <1>0, <1>a, <1>b, <2>1 DEF ApplyWrite, Return, JobType
    <2>2. CASE ApplyDelete \/ ApplyMove
      BY <1>0, <1>b, <2>2 DEF ApplyDelete, ApplyMove, JobType
    <2>3. CASE UnlinkLive \/ ApplyFails
      BY <1>a, <2>3 DEF UnlinkLive, ApplyFails, Abort, Return
    <2> QED BY <1>3, <2>1, <2>2, <2>3 DEF Apply
  <1>4. CASE Finish
    <2>1. CASE RenameHistory /\ HasLog(job.dst)
      <3>1. /\ job.pc = "history" /\ job' = [job EXCEPT !.pc = "unlink_log"]
            /\ index' = [index EXCEPT ![job.dst] = index[job.path] \o index[job.dst]]
        BY <2>1 DEF RenameHistory, Merged
      <3>2. job.kind = "move" /\ job.path \in Paths /\ job.dst \in Paths /\ job.path # job.dst
        BY <1>0, <3>1 DEF JobOK, MergeOK
      <3>3. index[job.path] \in Seq(Versions) /\ index[job.dst] \in Seq(Versions)
        BY <1>0, <3>2 DEF TypeOK
      <3>4. /\ index'[job.path] = index[job.path]
            /\ index'[job.dst] = index[job.path] \o index[job.dst]
        BY <1>0, <3>1, <3>2 DEF TypeOK
      <3>5. job'.path = job.path /\ job'.dst = job.dst
        BY <1>0, <3>1 DEF JobType
      <3>6. Begins(index[job.path], index[job.path] \o index[job.dst])
        BY <3>3, ConcatKeeps
      <3>7. Begins(index'[job'.path], index'[job'.dst])
        BY <3>4, <3>5, <3>6
      <3> QED BY <3>2, <3>5, <3>7 DEF MergeOK
    <2>2. CASE RenameHistory /\ ~HasLog(job.dst)
      BY <1>a, <2>2 DEF RenameHistory, Return
    <2>3. CASE UnlinkLog \/ RenameFails \/ Purge
      BY <1>a, <2>3 DEF UnlinkLog, RenameFails, Purge, Abort, Return
    <2> QED BY <1>4, <2>1, <2>2, <2>3 DEF Finish
  <1>5. CASE Crash
    BY <1>a, <1>5 DEF Crash
  <1>6. CASE ExternalChange \/ Tick \/ UNCHANGED vars
    BY <1>6 DEF ExternalChange, Tick, vars, MergeOK
  <1> QED BY <1>1, <1>2, <1>3, <1>4, <1>5, <1>6 DEF Next

LEMMA StepKeepsLogs == IInv /\ MergeOK /\ [Next]_vars => LogsKept
  <1> SUFFICES ASSUME IInv, MergeOK, [Next]_vars, NEW p \in Paths
               PROVE  \E q \in Paths : Begins(index[p], index'[q]) \/ Ends(index[p], index'[q])
    BY DEF LogsKept
  <1>0. JobOK /\ TypeOK /\ index \in [Paths -> Seq(Versions)] /\ index[p] \in Seq(Versions)
    BY DEF IInv, TypeOK
  <1>a. ASSUME index'[p] = index[p]
        PROVE  \E q \in Paths : Begins(index[p], index'[q]) \/ Ends(index[p], index'[q])
    BY <1>0, <1>a, Reflexive
  <1>1. CASE AppendLine
    <2> DEFINE v == [sha |-> job.cap, id |-> CapId, ts |-> now]
    <2>1. CASE broken[CapPath] = "torn" \/ p # CapPath
      BY <1>0, <1>1, <1>a, <2>1 DEF AppendLine
    <2>2. CASE broken[CapPath] # "torn" /\ p = CapPath
      <3>1. index'[p] = Append(index[p], v)
        BY <1>0, <1>1, <2>2 DEF AppendLine
      <3>2. v \in Versions
        BY <1>0, <1>1, PrefixedIds DEF AppendLine, JobOK, TypeOK, Versions, CapId, CapturesDst
      <3> HIDE DEF v
      <3>3. Begins(index[p], Append(index[p], v))
        BY <1>0, <3>2, AppendBegins
      <3> QED BY <3>1, <3>3
    <2> QED BY <2>1, <2>2
  <1>2. CASE RenameHistory
    <2>1. job.pc = "history" /\ job.path \in Paths /\ job.dst \in Paths /\ job.path # job.dst
      BY <1>0, <1>2 DEF RenameHistory, JobOK, MergeOK
    <2>2. index[job.path] \in Seq(Versions) /\ index[job.dst] \in Seq(Versions)
      BY <1>0, <2>1
    <2>3. CASE HasLog(job.dst)
      <3>1. index' = [index EXCEPT ![job.dst] = index[job.path] \o index[job.dst]]
        BY <1>2, <2>3 DEF RenameHistory, Merged
      <3>2. CASE p = job.dst
        <4>1. index'[p] = index[job.path] \o index[p]
          BY <1>0, <3>1, <3>2
        <4>2. Ends(index[p], index[job.path] \o index[p])
          BY <1>0, <2>2, ConcatKeeps
        <4> QED BY <4>1, <4>2
      <3>3. CASE p # job.dst
        BY <1>0, <1>a, <3>1, <3>3
      <3> QED BY <3>2, <3>3
    <2>4. CASE ~HasLog(job.dst)
      <3>1. index' = [index EXCEPT ![job.dst] = index[job.path], ![job.path] = <<>>]
        BY <1>2, <2>4 DEF RenameHistory
      <3>2. index'[job.dst] = index[job.path]
        BY <1>0, <2>1, <3>1
      <3>3. CASE p = job.path
        BY <1>0, <2>1, <3>2, <3>3, Reflexive
      <3>4. CASE p = job.dst
        <4>1. index[p] = <<>>
          BY <2>4, <3>4 DEF HasLog
        <4>2. Begins(<<>>, index[job.path])
          BY <2>2, EmptyBegins
        <4> QED BY <2>1, <3>2, <4>1, <4>2
      <3>5. CASE p # job.path /\ p # job.dst
        BY <1>0, <1>a, <3>1, <3>5
      <3> QED BY <3>3, <3>4, <3>5
    <2> QED BY <2>3, <2>4
  <1>3. CASE UnlinkLog
    <2>1. /\ job.path \in Paths /\ job.dst \in Paths /\ job.path # job.dst
          /\ Begins(index[job.path], index[job.dst])
          /\ index' = [index EXCEPT ![job.path] = <<>>]
      BY <1>0, <1>3 DEF UnlinkLog, JobOK, MergeOK
    <2>2. index'[job.dst] = index[job.dst]
      BY <1>0, <2>1
    <2>3. CASE p = job.path
      BY <2>1, <2>2, <2>3
    <2>4. CASE p # job.path
      BY <1>0, <1>a, <2>1, <2>4
    <2> QED BY <2>3, <2>4
  <1> QED BY <1>1, <1>2, <1>3, <1>a, OtherSteps

(* No append, move, crash or failed call loses or reorders a recorded      *)
(* version, for any paths and faults: rename_history rewrites the          *)
(* destination's log before it unlinks the source's, and between the two   *)
(* every line is still in a log (MergeOK).                                 *)
THEOREM LogsNeverLost == Spec => HistoryNeverLost
  <1>1. Init => IInv /\ MergeOK
    BY InitInv, MergeInit
  <1>2. IInv /\ MergeOK /\ [Next]_vars => (IInv /\ MergeOK)'
    BY StepInv, MergeStep
  <1>3. IInv /\ MergeOK /\ [Next]_vars => [LogsKept]_vars
    BY StepKeepsLogs
  <1> QED BY <1>1, <1>2, <1>3, PTL DEF Spec, HistoryNeverLost

-----------------------------------------------------------------------------
(* While nobody else has changed a file and no write was cut short, the    *)
(* bytes a command replaces are those it captured, and they can be read    *)
(* back.                                                                   *)

LastIs(p, c) == index[p] # <<>> /\ Last(index[p]).sha = c
Backed(p) == Exists(p) => LastIs(p, live[FileOf[p]])

(* What is in hand is what is on disk, from the read to the mutation; then *)
(* the bytes that were replaced head the log they are to be undone from.   *)
InHand ==
    /\ job.pc \in {"object", "append"} =>
          IF CapturesDst THEN job.cap = live[FileOf[job.dst]]
          ELSE Exists(job.path) => job.cap = live[FileOf[job.path]]
    /\ job.pc \in {"apply", "unlink_live"} => Backed(job.path)
    /\ job.kind = "move" =>
          /\ FileOf[job.path] # FileOf[job.dst] /\ job.pc \notin {"unlink_live", "purge"}
          /\ job.pc \in {"source", "apply"} => Backed(job.dst)
          /\ job.pc \in {"object", "append"} /\ job.data # None => Backed(job.dst)
Replaced ==
    /\ job.pc = "purge" /\ job.prior # None => LastIs(job.path, job.prior)
    /\ job.pc \in {"history", "unlink_log"} /\ job.prior # None => LastIs(job.dst, job.prior)
    /\ reply.code = "ok" =>
          reply.path \in Paths /\ (reply.prior # None => LastIs(reply.path, reply.prior))
Whole == (\A p \in Paths : broken[p] = "no") /\ (job.pc # "idle" => reply = NoReply)
Undo == InHand /\ Replaced /\ Whole

LEMMA IdleUndo ==
  ASSUME Whole, job' = Idle, UNCHANGED broken,
         reply'.code = "ok" =>
             /\ reply'.path \in Paths
             /\ reply'.prior # None => LastIs(reply.path, reply.prior)'
  PROVE  Undo'
  BY DEF Undo, InHand, Replaced, Whole, Idle

LEMMA StartUndo ==
  ASSUME Undo, NEW k \in Kinds, NEW p \in Paths, NEW d, NEW cap, NEW id, NEW data,
         Start(k, p, d, cap, id, data),
         k # "move" => (Exists(p) => cap = live[FileOf[p]]),
         k = "move" => /\ cap = live[FileOf[d]] /\ cap # None /\ data = None
                       /\ FileOf[p] # FileOf[d]
  PROVE  Undo'
  <1>1. /\ job'.pc = (IF cap = None THEN "apply" ELSE "object") /\ job'.kind = k
        /\ job'.path = p /\ job'.dst = d /\ job'.cap = cap /\ job'.prior = None
        /\ job'.data = data /\ reply' = NoReply
        /\ live' = live /\ index' = index /\ broken' = broken
    BY DEF Start
  <1>2. \A q : Exists(q)' <=> Exists(q)
    BY <1>1 DEF Exists
  <1>3. InHand'
    <2>1. job'.pc \in {"object", "append"} =>
             IF CapturesDst' THEN job'.cap = live'[FileOf[job'.dst]]
             ELSE Exists(p)' => job'.cap = live'[FileOf[job'.path]]
      BY <1>1, <1>2 DEF CapturesDst
    <2>2. job'.pc \in {"apply", "unlink_live"} => ~Exists(p)' /\ k # "move"
      BY <1>1, <1>2 DEF Exists
    <2> QED BY <1>1, <2>1, <2>2 DEF InHand, Backed, Exists
  <1>4. Replaced'
    BY <1>1 DEF Replaced, NoReply
  <1>5. Whole'
    BY <1>1 DEF Whole, Undo
  <1> QED BY <1>3, <1>4, <1>5 DEF Undo

LEMMA RequestUndo == ASSUME IInv, Undo, Request PROVE Undo'
  <1>1. ASSUME NEW p \in Paths, NEW b \in Proposals, NEW c \in Contents,
               FsWrite(p, c, ProposalId(b)) \/ FsPatch(p, c, ProposalId(b))
        PROVE  Undo'
    BY <1>1, StartUndo DEF FsWrite, FsPatch, Kinds
  <1>2. ASSUME NEW p \in Paths, NEW b \in Proposals, FsDelete(p, ProposalId(b)) PROVE Undo'
    BY <1>2, StartUndo DEF FsDelete, Kinds
  <1>3. ASSUME NEW p \in Paths, NEW b \in Proposals, NEW d \in Paths,
               FsMove(p, d, ProposalId(b))
        PROVE  Undo'
    <2>1. CASE Exists(d)
      BY <1>3, <2>1, StartUndo DEF FsMove, Kinds, Exists
    <2>2. CASE ~Exists(d)
      <3>1. /\ reply' = NoReply /\ live' = live /\ index' = index /\ broken' = broken
            /\ job' = [Idle EXCEPT !.pc = "source", !.kind = "move", !.path = p, !.dst = d,
                                   !.id = ProposalId(b)]
            /\ FileOf[p] # FileOf[d]
        BY <1>3, <2>2 DEF FsMove
      <3>2. /\ job'.pc = "source" /\ job'.kind = "move" /\ job'.path = p /\ job'.dst = d
        BY <3>1 DEF Idle
      <3>3. Backed(d)'
        BY <2>2, <3>1 DEF Backed, Exists
      <3> QED BY <3>1, <3>2, <3>3 DEF Undo, InHand, Replaced, Whole, NoReply, Backed, Exists,
                                      LastIs
    <2> QED BY <2>1, <2>2
  <1>4. ASSUME Refused PROVE Undo'
    <2>1. /\ reply'.code = "refused" /\ job' = job /\ job.pc = "idle" /\ live' = live
          /\ index' = index /\ broken' = broken
      BY <1>4 DEF Refused, NoReply
    <2> QED BY <2>1 DEF Undo, InHand, Replaced, Whole, Backed, Exists, LastIs, CapturesDst
  <1>5. ASSUME NEW p \in Paths, NEW sel, FsRestore(p, sel) PROVE Undo'
    BY <1>5, StartUndo DEF FsRestore, Kinds
  <1> QED BY <1>1, <1>2, <1>3, <1>4, <1>5 DEF Request

(* A command that fails says nothing about what was replaced.              *)
LEMMA AbortUndo ==
  ASSUME Undo, NEW c \in Codes \ {"ok"}, Abort(c), UNCHANGED broken
  PROVE  Undo'
  BY IdleUndo DEF Abort, NoReply, Undo

LEMMA AppendedIsLast ==
  ASSUME NEW log \in Seq(Versions), NEW v \in Versions
  PROVE  Append(log, v) # <<>> /\ Last(Append(log, v)) = v
  <1>1. Len(Append(log, v)) = Len(log) + 1 /\ Len(log) \in Nat
    OBVIOUS
  <1>2. Append(log, v)[Len(log) + 1] = v
    OBVIOUS
  <1> QED BY <1>1, <1>2 DEF Last

LEMMA ConcatLast ==
  ASSUME NEW s \in Seq(Versions), NEW t \in Seq(Versions), t # <<>>
  PROVE  s \o t # <<>> /\ Last(s \o t) = Last(t)
  <1>1. Len(s \o t) = Len(s) + Len(t) /\ Len(s) \in Nat /\ Len(t) \in Nat
    OBVIOUS
  <1>2. Len(t) >= 1
    BY <1>1
  <1>3. (s \o t)[Len(s) + Len(t)] = t[Len(t)]
    BY <1>1, <1>2
  <1> QED BY <1>1, <1>2, <1>3 DEF Last

(* _atomic_append_line puts what is in hand at the end of its log.         *)
LEMMA AppendUndo ==
  ASSUME IInv, Undo, AppendLine
  PROVE  Undo'
  <1>1. /\ job \in JobType /\ index \in [Paths -> Seq(Versions)] /\ now \in Nat /\ JobOK
        /\ InHand /\ Whole
    BY DEF IInv, TypeOK, Undo
  <1>2. job.pc = "append" /\ AfterAppend /\ live' = live /\ reply' = reply
    BY DEF AppendLine, AfterAppend
  <1>3. /\ CapPath \in Paths /\ CapId \in Ids /\ job.cap \in Contents /\ job.path \in Paths
        /\ job.kind = "move" => job.dst \in Paths
    BY <1>1, <1>2, PrefixedIds DEF JobOK, CapPath, CapId, CapturesDst
  <1> DEFINE v == [sha |-> job.cap, id |-> CapId, ts |-> now]
  <1>4. /\ index' = [index EXCEPT ![CapPath] = Append(@, v)] /\ broken' = broken
    BY <1>1, <1>3 DEF AppendLine, Whole
  <1>5. v \in Versions /\ v.sha = job.cap
    BY <1>1, <1>3 DEF Versions
  <1> HIDE DEF v
  <1>6. index'[CapPath] # <<>> /\ Last(index'[CapPath]).sha = job.cap
    <2>1. index'[CapPath] = Append(index[CapPath], v)
      BY <1>1, <1>3, <1>4
    <2>2. index'[CapPath] # <<>> /\ Last(index'[CapPath]) = v
      BY <1>1, <1>3, <1>5, <2>1, AppendedIsLast
    <2> QED BY <1>5, <2>2
  <1>7. \A q \in Paths : q # CapPath => index'[q] = index[q]
    BY <1>1, <1>3, <1>4
  <1>8. /\ job'.pc = (IF CapturesDst THEN "source" ELSE "apply") /\ job'.kind = job.kind
        /\ job'.path = job.path /\ job'.dst = job.dst /\ job'.data = job.data
        /\ job'.cap = job.cap
    BY <1>1, <1>2 DEF AfterAppend, JobType
  <1>9. CASE CapturesDst
    <2>1. CapPath = job.dst /\ job.kind = "move" /\ job.cap = live[FileOf[job.dst]]
      BY <1>1, <1>2, <1>9 DEF CapPath, CapturesDst, InHand
    <2>2. job'.pc = "source"
      BY <1>8, <1>9
    <2>3. Backed(job.dst)'
      BY <1>2, <1>8, <1>6, <2>1 DEF Backed, Exists, LastIs
    <2>4. FileOf[job'.path] # FileOf[job'.dst]
      BY <1>1, <1>8, <2>1 DEF InHand
    <2>5. InHand'
      BY <2>2, <2>3, <2>4 DEF InHand
    <2> QED BY <1>1, <1>2, <1>4, <2>2, <2>5 DEF Undo, Replaced, Whole, NoReply
  <1>10. CASE ~CapturesDst
    <2>1. CapPath = job.path /\ (Exists(job.path) => job.cap = live[FileOf[job.path]])
      BY <1>1, <1>2, <1>10 DEF CapPath, InHand
    <2>2. job'.pc = "apply"
      BY <1>8, <1>10
    <2>3. Backed(job.path)'
      BY <1>2, <1>8, <1>6, <2>1 DEF Backed, Exists, LastIs
    <2>4. ASSUME job.kind = "move" PROVE Backed(job.dst)' /\ FileOf[job'.path] # FileOf[job'.dst]
      <3>1. job.data # None /\ Backed(job.dst) /\ FileOf[job.path] # FileOf[job.dst]
        BY <1>1, <1>2, <1>10, <2>4 DEF CapturesDst, InHand
      <3>2. index'[job.dst] = index[job.dst]
        BY <1>3, <1>7, <2>1, <2>4, <3>1
      <3> QED BY <1>2, <1>8, <3>1, <3>2 DEF Backed, Exists, LastIs
    <2>5. InHand'
      BY <1>8, <2>2, <2>3, <2>4 DEF InHand
    <2> QED BY <1>1, <1>2, <1>4, <2>2, <2>5 DEF Undo, Replaced, Whole, NoReply
  <1> QED BY <1>9, <1>10

LEMMA CaptureUndo ==
  ASSUME IInv, Undo, Capture, ~ShortWrite
  PROVE  Undo'
  <1>1. job \in JobType /\ JobOK /\ InHand /\ Whole
    BY DEF IInv, TypeOK, Undo
  <1>2. CASE StoreObject
    <2>1. /\ job.pc = "object" /\ job'.pc = "append" /\ job'.kind = job.kind
          /\ job'.path = job.path /\ job'.dst = job.dst /\ job'.data = job.data
          /\ job'.cap = job.cap /\ live' = live /\ index' = index /\ broken' = broken
          /\ reply' = reply
      BY <1>1, <1>2 DEF StoreObject, JobType
    <2>2. InHand'
      BY <1>1, <2>1 DEF InHand, CapturesDst, Backed, Exists, LastIs
    <2> QED BY <1>1, <2>1, <2>2 DEF Undo, Replaced, Whole, NoReply
  <1>3. CASE StoreObjectFails \/ AppendFails
    <2>1. PICK c \in Codes \ {"ok"} : Abort(c)
      BY <1>3 DEF StoreObjectFails, AppendFails, Codes
    <2>2. UNCHANGED broken
      BY <1>3 DEF StoreObjectFails, AppendFails
    <2> QED BY <2>1, <2>2, AbortUndo
  <1>4. CASE ReadSource
    <2>1. CASE Exists(job.path)
      <3>1. /\ job.pc = "source" /\ job'.pc = "object" /\ job'.kind = job.kind
            /\ job'.path = job.path /\ job'.dst = job.dst
            /\ job'.cap = live[FileOf[job.path]] /\ job'.data = live[FileOf[job.path]]
            /\ live' = live /\ index' = index /\ broken' = broken /\ reply' = reply
        BY <1>1, <1>4, <2>1 DEF ReadSource, JobType
      <3>2. job.kind = "move" /\ job'.data # None
        BY <1>1, <2>1, <3>1 DEF JobOK, Exists
      <3>3. InHand'
        BY <1>1, <3>1, <3>2 DEF InHand, CapturesDst, Backed, Exists, LastIs
      <3> QED BY <1>1, <3>1, <3>3 DEF Undo, Replaced, Whole, NoReply
    <2>2. CASE ~Exists(job.path)
      <3>1. Abort("READ_ERROR") /\ UNCHANGED broken
        BY <1>4, <2>2 DEF ReadSource
      <3> QED BY <3>1, AbortUndo DEF Codes
    <2> QED BY <2>1, <2>2
  <1> QED BY <1>2, <1>3, <1>4, AppendUndo DEF Capture

(* The mutation replaces bytes that are the last line of their log, and    *)
(* changes no log.                                                         *)
LEMMA ApplyUndo ==
  ASSUME IInv, Undo, Apply
  PROVE  Undo'
  <1>1. job \in JobType /\ JobOK /\ InHand /\ Whole
    BY DEF IInv, TypeOK, Undo
  <1>2. CASE ApplyWrite
    <2>1. /\ job.pc = "apply" /\ index' = index /\ broken' = broken
          /\ job.path \in Paths /\ job.kind # "move"
      BY <1>1, <1>2 DEF ApplyWrite, JobOK
    <2>2. live[FileOf[job.path]] # None => LastIs(job.path, live[FileOf[job.path]])
      BY <1>1, <2>1 DEF InHand, Backed, Exists
    <2>3. CASE job.kind = "restore"
      <3>1. /\ job'.pc = "purge" /\ job'.prior = live[FileOf[job.path]] /\ job'.kind = job.kind
            /\ job'.path = job.path /\ reply' = reply
        BY <1>1, <1>2, <2>3 DEF ApplyWrite, JobType
      <3>2. InHand'
        BY <2>1, <3>1 DEF InHand
      <3>3. Replaced'
        BY <1>1, <2>1, <2>2, <3>1 DEF Replaced, LastIs, Whole, NoReply
      <3> QED BY <1>1, <2>1, <3>1, <3>2, <3>3 DEF Undo, Whole
    <2>4. CASE job.kind # "restore"
      <3>1. Return(live[FileOf[job.path]])
        BY <1>2, <2>4 DEF ApplyWrite
      <3>2. reply'.path = job.path /\ reply'.prior = live[FileOf[job.path]] /\ job' = Idle
        BY <2>1, <3>1 DEF Return
      <3> QED BY <1>1, <2>1, <2>2, <3>2, IdleUndo DEF LastIs
    <2> QED BY <2>3, <2>4
  <1>3. CASE ApplyDelete
    <2>1. /\ job.pc = "apply" /\ job'.pc = "unlink_live" /\ job'.path = job.path
          /\ job.kind = "delete" /\ job'.kind = "delete" /\ live' = live /\ index' = index
          /\ broken' = broken /\ reply' = reply
      BY <1>1, <1>3 DEF ApplyDelete, JobType
    <2>2. InHand'
      BY <1>1, <2>1 DEF InHand, Backed, Exists, LastIs
    <2> QED BY <1>1, <2>1, <2>2 DEF Undo, Replaced, Whole, NoReply
  <1>4. CASE UnlinkLive
    <2>1. /\ job.pc = "unlink_live" /\ Return(live[FileOf[job.path]]) /\ index' = index
          /\ broken' = broken /\ Exists(job.path) /\ job.path \in Paths
      BY <1>1, <1>4 DEF UnlinkLive, JobOK
    <2>2. LastIs(job.path, live[FileOf[job.path]])
      BY <1>1, <2>1 DEF InHand, Backed
    <2>3. /\ reply'.path = (IF job.kind = "move" THEN job.dst ELSE job.path) /\ job' = Idle
          /\ reply'.prior = live[FileOf[job.path]]
      BY <2>1 DEF Return
    <2>4. job.kind # "move"
      BY <1>1, <2>1 DEF InHand
    <2> QED BY <1>1, <2>1, <2>2, <2>3, <2>4, IdleUndo DEF LastIs
  <1>5. CASE ApplyMove
    <2>1. /\ job.pc = "apply" /\ job.kind = "move" /\ index' = index /\ broken' = broken
          /\ job'.pc = "history" /\ job'.kind = "move" /\ job'.path = job.path
          /\ job'.dst = job.dst /\ job'.prior = live[FileOf[job.dst]] /\ reply' = reply
      BY <1>1, <1>5 DEF ApplyMove, JobType
    <2>2. live[FileOf[job.dst]] # None => LastIs(job.dst, live[FileOf[job.dst]])
      BY <1>1, <2>1 DEF InHand, Backed, Exists
    <2>3. InHand'
      BY <1>1, <2>1 DEF InHand
    <2>4. Replaced'
      BY <1>1, <2>1, <2>2 DEF Replaced, LastIs, Whole, NoReply
    <2> QED BY <1>1, <2>1, <2>3, <2>4 DEF Undo, Whole
  <1>6. CASE ApplyFails
    BY <1>6, AbortUndo DEF ApplyFails, ApplyError, Codes
  <1> QED BY <1>2, <1>3, <1>4, <1>5, <1>6 DEF Apply

(* rename_history prepends the source's lines, so the destination's last   *)
(* line stays the last; a destination without a log had no bytes to keep.  *)
LEMMA FinishUndo ==
  ASSUME IInv, Undo, Finish
  PROVE  Undo'
  <1>1. /\ job \in JobType /\ JobOK /\ InHand /\ Whole /\ Replaced
        /\ index \in [Paths -> Seq(Versions)] /\ broken \in [Paths -> {"no", "torn", "yes"}]
    BY DEF IInv, TypeOK, Undo
  <1>2. ASSUME job.pc \in {"history", "unlink_log"}
        PROVE  /\ job.kind = "move" /\ job.path \in Paths /\ job.dst \in Paths
               /\ job.path # job.dst /\ broken[job.path] = "no" /\ broken[job.dst] = "no"
               /\ job.prior # None => LastIs(job.dst, job.prior)
    BY <1>1, <1>2 DEF JobOK, InHand, Whole, Replaced
  <1>3. ASSUME Return(job.prior), job.kind = "move", broken' = broken,
               job.dst \in Paths, job.prior # None => LastIs(job.dst, job.prior),
               job.prior # None => index'[job.dst] = index[job.dst]
        PROVE  Undo'
    <2>1. reply'.path = job.dst /\ reply'.prior = job.prior /\ job' = Idle
      BY <1>3 DEF Return
    <2> QED BY <1>1, <1>3, <2>1, IdleUndo DEF LastIs
  <1>4. CASE RenameHistory /\ HasLog(job.dst)
    <2>1. /\ job.pc = "history" /\ job'.pc = "unlink_log" /\ job'.kind = job.kind
          /\ job'.path = job.path /\ job'.dst = job.dst /\ job'.prior = job.prior
          /\ reply' = reply
          /\ index' = [index EXCEPT ![job.dst] = index[job.path] \o index[job.dst]]
          /\ broken' = [broken EXCEPT ![job.dst] = MergedBroken(job.path, job.dst)]
      BY <1>1, <1>4 DEF RenameHistory, Merged, JobType
    <2>2. MergedBroken(job.path, job.dst) = "no"
      BY <1>2, <2>1 DEF MergedBroken
    <2>3. \A q \in Paths : broken'[q] = "no"
      BY <1>1, <2>1, <2>2 DEF Whole
    <2>4. ASSUME job.prior # None PROVE LastIs(job.dst, job.prior)'
      <3>1. index[job.dst] # <<>> /\ Last(index[job.dst]).sha = job.prior
        BY <1>2, <2>1, <2>4 DEF LastIs
      <3>2. index'[job.dst] = index[job.path] \o index[job.dst]
        BY <1>1, <1>2, <2>1
      <3>3. index[job.path] \in Seq(Versions) /\ index[job.dst] \in Seq(Versions)
        BY <1>1, <1>2, <2>1
      <3>4. index'[job.dst] # <<>> /\ Last(index'[job.dst]) = Last(index[job.dst])
        BY <3>1, <3>2, <3>3, ConcatLast
      <3> QED BY <2>1, <3>1, <3>4 DEF LastIs
    <2>5. InHand'
      BY <1>1, <1>2, <2>1 DEF InHand
    <2>6. Replaced'
      BY <1>1, <2>1, <2>4 DEF Replaced, Whole, NoReply
    <2> QED BY <1>1, <2>1, <2>3, <2>5, <2>6 DEF Undo, Whole
  <1>5. CASE RenameHistory /\ ~HasLog(job.dst)
    <2>1. /\ job.pc = "history" /\ Return(job.prior)
          /\ broken' = [broken EXCEPT ![job.dst] = broken[job.path], ![job.path] = "no"]
      BY <1>5 DEF RenameHistory
    <2>2. job.prior = None
      BY <1>2, <1>5, <2>1 DEF HasLog, LastIs
    <2>3. broken' = broken
      BY <1>1, <1>2, <2>1 DEF Whole
    <2> QED BY <1>2, <1>3, <2>1, <2>2, <2>3
  <1>6. CASE UnlinkLog
    <2>1. /\ job.pc = "unlink_log" /\ Return(job.prior)
          /\ broken' = [broken EXCEPT ![job.path] = "no"]
          /\ index' = [index EXCEPT ![job.path] = <<>>]
      BY <1>6 DEF UnlinkLog
    <2>2. broken' = broken /\ index'[job.dst] = index[job.dst]
      BY <1>1, <1>2, <2>1
    <2> QED BY <1>2, <1>3, <2>1, <2>2
  <1>7. CASE RenameFails
    <2>1. job.pc \in {"history", "unlink_log"} /\ index' = index /\ broken' = broken
      BY <1>7 DEF RenameFails
    <2>2. CASE Return(job.prior)
      BY <1>2, <1>3, <2>1, <2>2
    <2>3. CASE Abort("COMMAND_ERROR")
      BY <1>1, <2>1, <2>3, AbortUndo DEF Abort, Codes
    <2> QED BY <1>7, <2>2, <2>3 DEF RenameFails
  <1>8. CASE Purge
    <2>1. job.pc = "purge" /\ Return(job.prior) /\ index' = index /\ broken' = broken
      BY <1>8 DEF Purge
    <2>2. /\ job' = Idle /\ reply'.prior = job.prior
          /\ reply'.path = (IF job.kind = "move" THEN job.dst ELSE job.path)
      BY <2>1 DEF Return
    <2>3. job.path \in Paths /\ (job.prior # None => LastIs(job.path, job.prior))
      BY <1>1, <2>1 DEF JobOK, Replaced
    <2>4. job.kind # "move"
      BY <1>1, <2>1 DEF InHand
    <2> QED BY <1>1, <2>1, <2>2, <2>3, <2>4, IdleUndo DEF LastIs
  <1> QED BY <1>4, <1>5, <1>6, <1>7, <1>8 DEF Finish

LEMMA UndoInit == Init => Undo
  BY DEF Init, Undo, InHand, Replaced, Whole, Idle, NoReply, CapturesDst

(* A short write or a change by another process is counted for good.       *)
LEMMA Counted ==
  ASSUME IInv, [Next]_vars, disturbed' = 0
  PROVE  disturbed = 0 /\ ~ShortWrite /\ ~ExternalChange
  <1>1. disturbed \in Nat
    BY DEF IInv, TypeOK
  <1>2. ~ShortWrite /\ ~ExternalChange
    BY <1>1 DEF ShortWrite, ExternalChange
  <1>3. CASE Request
    BY <1>2, <1>3 DEF Request, FsWrite, FsPatch, FsDelete, FsMove, FsRestore, Refused, Start
  <1>4. CASE Capture
    BY <1>2, <1>4 DEF Capture, StoreObject, StoreObjectFails, AppendLine, AppendFails, ReadSource
  <1>5. CASE Apply
    BY <1>2, <1>5 DEF Apply, ApplyWrite, ApplyDelete, UnlinkLive, ApplyMove, ApplyFails
  <1>6. CASE Finish
    BY <1>2, <1>6 DEF Finish, RenameHistory, UnlinkLog, RenameFails, Purge
  <1> QED BY <1>2, <1>3, <1>4, <1>5, <1>6 DEF Next, Crash, Tick, vars

LEMMA UndoStep ==
  ASSUME IInv, disturbed = 0 => Undo, [Next]_vars, disturbed' = 0
  PROVE  Undo'
  <1>0. Undo /\ ~ShortWrite /\ ~ExternalChange
    BY Counted
  <1>1. CASE Crash
    BY <1>0, <1>1, IdleUndo DEF Crash, NoReply, Undo
  <1>2. CASE Tick \/ UNCHANGED vars
    BY <1>0, <1>2 DEF Tick, vars, Undo, InHand, Replaced, Whole, Backed, LastIs, Exists,
                      CapturesDst
  <1> QED BY <1>0, <1>1, <1>2, RequestUndo, CaptureUndo, ApplyUndo, FinishUndo DEF Next

(* fs.restore version=-1 takes the last line.                              *)
LEMMA MinusOneIsLast ==
  ASSUME NEW log \in Seq(Versions), log # <<>>
  PROVE  /\ ResolveVersion(log, [by |-> "version", value |-> -1]) = Len(log)
         /\ Len(log) # 0
  <1> DEFINE sel == [by |-> "version", value |-> -1]
             n == Len(log)
  <1>1. n \in Nat /\ n # 0 /\ DOMAIN log = 1..n
    OBVIOUS
  <1>2. sel.by = "version" /\ sel.value = -1
    OBVIOUS
  <1> HIDE DEF sel, n
  <1>3. Matching(log, sel) = {n}
    <2>1. Matching(log, sel) = {i \in DOMAIN log : i = -1 \/ i = Len(log) + 1 + -1}
      BY <1>2 DEF Matching
    <2> QED BY <1>1, <2>1 DEF n
  <1>4. (CHOOSE i \in {n} : \A j \in {n} : j <= i) = n
    BY <1>1
  <1>5. ResolveVersion(log, sel) = n
    BY <1>2, <1>3, <1>4 DEF ResolveVersion
  <1> QED BY <1>1, <1>5 DEF sel, n

LEMMA UndoUndoes ==
  ASSUME IInv, disturbed = 0 => Undo
  PROVE  LastVersionUndoes
  <1> DEFINE log == index[reply.path]
             sel == [by |-> "version", value |-> -1]
  <1> SUFFICES ASSUME Undo, reply.code = "ok", reply.prior # None
               PROVE  /\ Readable(reply.path) /\ ResolveVersion(log, sel) # 0
                      /\ log[ResolveVersion(log, sel)].sha = reply.prior
    BY DEF LastVersionUndoes
  <1>1. reply.path \in Paths /\ Readable(reply.path)
    BY DEF Undo, Replaced, Whole, Readable
  <1>2. log # <<>> /\ Last(log).sha = reply.prior
    BY DEF Undo, Replaced, LastIs
  <1>3. log \in Seq(Versions)
    BY <1>1 DEF IInv, TypeOK
  <1>4. ResolveVersion(log, sel) = Len(log) /\ Len(log) # 0
    BY <1>2, <1>3, MinusOneIsLast
  <1> QED BY <1>1, <1>2, <1>4 DEF Last

(* "Every applied proposal is file-level reversible", for any paths,       *)
(* contents and proposals, through crashes and failing calls: after an ok, *)
(* fs.restore version=-1 selects the bytes the command replaced, until the *)
(* first short write or change by another process.                         *)
THEOREM Reversible == Spec => []LastVersionUndoes
  <1> DEFINE Inv == IInv /\ (disturbed = 0 => Undo)
  <1>1. Init => Inv
    BY InitInv, UndoInit
  <1>2. Inv /\ [Next]_vars => Inv'
    BY StepInv, UndoStep
  <1>3. Inv => LastVersionUndoes
    BY UndoUndoes
  <1> QED BY <1>1, <1>2, <1>3, PTL DEF Spec

(* Only the three mutations change a live file.                            *)
LEMMA OnlyApply ==
  ASSUME [Next]_vars, ~ApplyWrite, ~UnlinkLive, ~ApplyMove, ~ExternalChange
  PROVE  live' = live
  <1>1. CASE Request
    BY <1>1 DEF Request, FsWrite, FsPatch, FsDelete, FsMove, FsRestore, Refused, Start
  <1>2. CASE Capture
    BY <1>2 DEF Capture, StoreObject, StoreObjectFails, AppendLine, ShortWrite, AfterAppend,
                AppendFails, ReadSource
  <1>3. CASE Apply
    BY <1>3 DEF Apply, ApplyDelete, ApplyFails
  <1>4. CASE Finish
    BY <1>4 DEF Finish, RenameHistory, UnlinkLog, RenameFails, Purge
  <1> QED BY <1>1, <1>2, <1>3, <1>4 DEF Next, Crash, Tick, vars

LEMMA BackedCaptured ==
  ASSUME IInv, Undo, NEW p \in Paths, Exists(p), Backed(p)
  PROVE  Captured(FileOf[p])
  <1>1. index[p] # <<>> /\ Last(index[p]).sha = live[FileOf[p]] /\ index[p] \in Seq(Versions)
    BY DEF Backed, LastIs, IInv, TypeOK
  <1>2. Len(index[p]) \in DOMAIN index[p]
    BY <1>1
  <1> QED BY <1>1, <1>2 DEF Captured, Last, Readable, Undo, Whole

LEMMA ChangesCaptured ==
  ASSUME IInv, Undo, [Next]_vars, ~ExternalChange, NEW f \in Files,
         live[f] # None, live'[f] # live[f]
  PROVE  Captured(f)
  <1>1. JobOK /\ InHand /\ live \in [Files -> Bytes]
    BY DEF IInv, TypeOK, Undo
  <1>2. CASE ApplyWrite \/ UnlinkLive
    <2>1. job.pc \in {"apply", "unlink_live"} /\ job.path \in Paths /\ Backed(job.path)
      BY <1>1, <1>2 DEF ApplyWrite, UnlinkLive, JobOK, InHand
    <2>2. f = FileOf[job.path]
      BY <1>1, <1>2 DEF ApplyWrite, UnlinkLive
    <2> QED BY <2>1, <2>2, BackedCaptured DEF Exists
  <1>3. CASE ApplyMove
    <2>1. /\ job.path \in Paths /\ Backed(job.path) /\ job.dst \in Paths /\ Backed(job.dst)
      BY <1>1, <1>3 DEF ApplyMove, JobOK, InHand
    <2>2. f = FileOf[job.path] \/ f = FileOf[job.dst]
      BY <1>1, <1>3 DEF ApplyMove
    <2> QED BY <2>1, <2>2, BackedCaptured DEF Exists
  <1> QED BY <1>2, <1>3, OnlyApply

(* "Captures prior bytes of any file the node is about to mutate": at the  *)
(* step that replaces or removes a file its bytes are in its own readable  *)
(* log, whatever the order of crashes and failing calls.                   *)
THEOREM CapturedFirst == Spec => OverwritesOnlyCaptured
  <1> DEFINE Inv == IInv /\ (disturbed = 0 => Undo)
  <1>1. Init => Inv
    BY InitInv, UndoInit
  <1>2. Inv /\ [Next]_vars => Inv'
    BY StepInv, UndoStep
  <1>3. ExternalChange => job' = job
    BY DEF ExternalChange
  <1>4. Inv /\ [Next]_vars => ReplacesCaptured
    BY <1>3, ChangesCaptured DEF ReplacesCaptured
  <1> QED BY <1>1, <1>2, <1>4, PTL DEF Spec, OverwritesOnlyCaptured
=============================================================================
