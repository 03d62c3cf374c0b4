----------------------------- MODULE VisionProofs -----------------------------
(***************************************************************************)
(* NewestWins is proved from an inductive invariant that says what the two *)
(* parts of the single flight's registry mean: a running request of a       *)
(* source is the one in flight or a superseded one, and the superseded ones *)
(* are those that were overtaken and have not been answered yet.            *)
(***************************************************************************)
EXTENDS Vision, TLAPS

(* The life of a request: nothing before it arrives, nothing left after.   *)
Lives ==
    /\ \A r \in Requests : task[r] # "none" => caller[r] = "awaiting"
    /\ \A r \in Requests : caller[r] = "awaiting" => task[r] # "none"
    /\ \A r \in Requests : r \in cancel => caller[r] = "awaiting"
    /\ \A r \in Requests : src[r] # None => caller[r] = "awaiting"

(* The registry names requests of that source which have not been answered. *)
Named ==
    \A s \in Sources : inflight[s] # 0 =>
        caller[inflight[s]] = "awaiting" /\ src[inflight[s]] = s

(* A running request of a source is in flight or superseded.               *)
Known ==
    \A r \in Requests : Running(r) /\ src[r] # None =>
        inflight[src[r]] = r \/ r \in superseded

(* The superseded requests are the overtaken ones that have no answer yet;  *)
(* they have been told to stop and can end in no other way.                 *)
Marked ==
    /\ \A r \in superseded : r \in cancel /\ r \in overtaken
    /\ \A r \in superseded : Running(r) \/ task[r] = "cancelled"
    /\ \A r \in overtaken : r \in superseded \/ caller[r] = "SUPERSEDED"
    /\ \A r \in Requests : caller[r] = "SUPERSEDED" => r \in overtaken

IInv == TypeOK /\ Lives /\ Named /\ Known /\ Marked

USE ConstantAssumption DEF Requests

(* The invariant holds at first.                                           *)
LEMMA InitIInv == Init => IInv
  BY DEF Init, IInv, TypeOK, Lives, Named, Known, Marked, Running, Ended, Answers

(* The invariant gives the property.                                       *)
LEMMA IInvNewest == IInv => NewestWins
  BY DEF IInv, TypeOK, Lives, Named, Known, Marked, NewestWins, Running, Ended, Answers

LEMMA StutterKeeps == IInv /\ UNCHANGED vars => IInv'
  BY DEF IInv, TypeOK, Lives, Named, Known, Marked, vars, flights, Running

LEMMA RefuseKeeps ==
  ASSUME IInv, NEW r \in Requests, Refuse(r) PROVE IInv'
<1>1. caller[r] = "idle" /\ caller' = [caller EXCEPT ![r] = "refused"]
  BY DEF Refuse, Arrives
<1>2. UNCHANGED <<up, quit, src, task, stale, cancel, future, inflight, superseded, overtaken>>
  BY DEF Refuse, flights
<1> USE <1>1, <1>2 DEF IInv, TypeOK
<1>3. TypeOK'              BY DEF Answers
<1>4. Lives'               BY DEF Lives
<1>5. Named'               BY DEF Named
<1>6. Known' /\ Marked'    BY DEF Known, Marked, Running
<1>7. QED BY <1>3, <1>4, <1>5, <1>6

LEMMA StartKeeps ==
  ASSUME IInv, NEW r \in Requests, Start(r) PROVE IInv'
<1>1. CASE task' = [task EXCEPT ![r] = "sending"] /\ UNCHANGED <<src, cancel, flights>>
  <2>1. caller[r] = "idle" /\ caller' = [caller EXCEPT ![r] = "awaiting"]
    BY DEF Start, Arrives
  <2>2. UNCHANGED <<up, quit, src, stale, cancel, future, inflight, superseded, overtaken>>
    BY <1>1 DEF Start, flights
  <2>3. src[r] = None BY <2>1 DEF IInv, Lives
  <2> USE <1>1, <2>1, <2>2 DEF IInv, TypeOK
  <2>4. TypeOK'           OBVIOUS
  <2>5. Lives' /\ Named'  BY DEF Lives, Named
  <2>6. Known'            BY <2>3 DEF Known, Running, Ended, Lives
  <2>7. Marked'           BY DEF Marked, Running, Ended, Lives
  <2>8. QED BY <2>4, <2>5, <2>6, <2>7
<1>2. ASSUME NEW s \in Sources, Enter(r, s), src' = [src EXCEPT ![r] = s] PROVE IInv'
  <2>1. TypeOK'
    BY <1>2 DEF IInv, TypeOK, Start, Enter, Replaced, Answers
  <2>2. Lives'
    BY <1>2 DEF IInv, TypeOK, Lives, Named, Start, Arrives, Enter, Replaced, Done, Answers, Ended
  <2>3. Named'
    BY <1>2 DEF IInv, TypeOK, Lives, Named, Start, Arrives, Enter
  <2>4. Known'
    BY <1>2 DEF IInv, TypeOK, Lives, Named, Known, Start, Arrives, Enter, Replaced, Running, Done, Ended
  <2>5. Marked'
    BY <1>2 DEF IInv, TypeOK, Lives, Named, Known, Marked, Start, Arrives, Enter, Replaced, Running, Done, Ended, Answers
  <2>6. QED BY <2>1, <2>2, <2>3, <2>4, <2>5 DEF IInv
<1>3. QED BY <1>1, <1>2 DEF Start

LEMMA CancelCallerKeeps ==
  ASSUME IInv, NEW r \in Requests, CancelCaller(r) PROVE IInv'
  BY DEF IInv, TypeOK, Lives, Named, Known, Marked, CancelCaller, flights, Running, Done, Ended

(* Only its own entry leaves the registry, so a later request stays known. *)
LEMMA ResumeKeeps ==
  ASSUME IInv, NEW r \in Requests, Resume(r) PROVE IInv'
<1>1. TypeOK'
  BY DEF IInv, TypeOK, Resume, Leaves, Outcome, Answers, Done, Ended
<1>2. Lives'
  BY DEF IInv, TypeOK, Lives, Resume, Outcome, Done, Ended, Answers
<1>3. Named'
  BY DEF IInv, TypeOK, Named, Resume, Leaves
<1>4. Known'
  BY DEF IInv, TypeOK, Known, Resume, Leaves, Running, Done, Ended
<1>5. Marked'
  <2>1. r \in superseded <=> caller'[r] = "SUPERSEDED"
    BY DEF IInv, TypeOK, Marked, Resume, Outcome, Running, Done, Ended
  <2>2. QED BY <2>1 DEF IInv, TypeOK, Marked, Resume, Running, Done, Ended
<1>6. QED BY <1>1, <1>2, <1>3, <1>4, <1>5 DEF IInv

(* A running task goes on to e; a cancelled one can only end as cancelled. *)
LEMMA TaskGoesOn ==
  ASSUME IInv, NEW r \in Requests, Running(r),
         NEW e \in {"sending", "waiting", "text", "failed", "cancelled"},
         r \in cancel => e = "cancelled",
         task' = [task EXCEPT ![r] = e],
         UNCHANGED <<up, caller, quit, src, stale, cancel, future, flights>>
  PROVE  IInv'
<1>1. UNCHANGED <<inflight, superseded, overtaken>> BY DEF flights
<1> USE <1>1 DEF IInv, TypeOK
<1>2. TypeOK'           BY DEF Ended
<1>3. Lives' /\ Named'  BY DEF Lives, Named, Running, Ended
<1>4. Known'            BY DEF Known, Running, Ended
<1>5. Marked'           BY DEF Marked, Running, Ended
<1>6. QED BY <1>2, <1>3, <1>4, <1>5

LEMMA TaskKeeps ==
  ASSUME IInv, NEW r \in Requests,
         Begin(r) \/ SendReturns(r) \/ Stops(r) \/ Returns(r)
  PROVE  IInv'
<1>1. Running(r) BY DEF Begin, SendReturns, Stops, Returns, Running, Ended
<1>2. PICK e \in {"sending", "waiting", "text", "failed", "cancelled"} :
          /\ r \in cancel => e = "cancelled"
          /\ task' = [task EXCEPT ![r] = e]
  <2>1. CASE Begin(r)       BY <2>1 DEF Begin
  <2>2. CASE SendReturns(r) BY <2>2 DEF SendReturns
  <2>3. CASE Stops(r)       BY <2>3 DEF Stops
  <2>4. CASE Returns(r)     BY <2>4 DEF Returns, IInv, TypeOK
  <2>5. QED BY <2>1, <2>2, <2>3, <2>4
<1>3. UNCHANGED <<up, caller, quit, src, stale, cancel, future, flights>>
  BY DEF Begin, SendReturns, Stops, Returns
<1>4. QED BY <1>1, <1>2, <1>3, TaskGoesOn

(* Deadlines and answers change the future only.                           *)
LEMMA FutureKeeps ==
  ASSUME IInv, NEW r \in Requests, Deadline(r) \/ Answer(r) PROVE IInv'
<1>1. TypeOK' BY DEF IInv, TypeOK, flights, Deadline, Answer
<1>2. UNCHANGED <<caller, src, task, cancel, inflight, superseded, overtaken>>
  BY DEF flights, Deadline, Answer
<1>3. QED BY <1>1, <1>2 DEF IInv, Lives, Named, Known, Marked, Running

LEMMA LinkKeeps == ASSUME IInv, Disconnect \/ Reconnect PROVE IInv'
<1>1. TypeOK' BY DEF IInv, TypeOK, flights, Disconnect, Reconnect
<1>2. UNCHANGED <<caller, src, task, cancel, inflight, superseded, overtaken>>
  BY DEF flights, Disconnect, Reconnect
<1>3. QED BY <1>1, <1>2 DEF IInv, Lives, Named, Known, Marked, Running

LEMMA NextKeeps == IInv /\ [Next]_vars => IInv'
  BY StutterKeeps, RefuseKeeps, StartKeeps, CancelCallerKeeps, ResumeKeeps, TaskKeeps,
     FutureKeeps, LinkKeeps
  DEF Next, Step

(* The values the handlers, tasks, futures and registry take.              *)
THEOREM TypeCorrect == Spec => []TypeOK
<1>1. IInv => TypeOK BY DEF IInv
<1>2. QED BY <1>1, InitIInv, NextKeeps, PTL DEF Spec

(* For any number of requests and sources: the newest request of a source   *)
(* replaces the older ones, and only those are told so (SingleFlight.run).  *)
THEOREM Newest == Spec => []NewestWins
  BY InitIInv, NextKeeps, IInvNewest, PTL DEF Spec
=============================================================================
