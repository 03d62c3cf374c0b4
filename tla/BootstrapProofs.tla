--------------------------- MODULE BootstrapProofs ---------------------------
(***************************************************************************)
(* Theorems about Bootstrap, for any number of config flows, of tokens and *)
(* of starts of the node, and whichever writes fail.                       *)
(***************************************************************************)
EXTENDS Bootstrap, TLAPS

Issued == 0..last
RequestSet == [flow : Flows, n : 1..3, bearer : Issued]
ReplySet == [flow : Flows, n : 1..3, token : Issued]
Work == [at : {"serving", "rotating", "rotated"}, req : RequestSet, token : Issued]
Places == [at : {"idle", "fetch", "claim", "form", "done"}, n : 0..3, token : Issued]

Servings == [boot : Nat, marked : BOOLEAN]

(* Nothing goes by a token that has not been generated.                    *)
Typed ==
    /\ last \in Tokens /\ boots \in 0..MaxBoots /\ served \in Seq(Servings)
    /\ disk \in [token : Issued, consumed : BOOLEAN, claimed : BOOLEAN]
    /\ node \in [up : BOOLEAN, window : BOOLEAN, api : Issued \cup {Explicit},
                 boot : Issued, claim : Issued, rotated : Issued]
    /\ busy \in Work \cup {None}
    /\ options \in [reset : BOOLEAN, explicit : BOOLEAN]
    /\ requests \subseteq RequestSet /\ replies \subseteq ReplySet
    /\ flow \in [Flows -> Places]
    /\ entry \in Issued /\ retired \subseteq Issued \ {0}
    /\ given \subseteq Issued \X Issued

(* A node that is down holds nothing; its parts agree while it runs.       *)
Runtime ==
    /\ ~node.up => node = Down /\ busy = None /\ requests = {}
    /\ node.boot = 0 \/ node.claim = 0
    /\ node.rotated # 0 => node.rotated = node.api

(* A flow's first request is the GET, and only that one has no bearer.     *)
Numbered ==
    /\ \A r \in requests : r.bearer = 0 <=> r.n = 1
    /\ \A f \in Flows :
        /\ flow[f].at = "fetch" => flow[f].n = 1
        /\ flow[f].at = "claim" => flow[f].n \in {2, 3} /\ flow[f].token # 0
    /\ busy # None => /\ busy.req.bearer = 0 <=> busy.req.n = 1
                      /\ busy.at = "serving" <=> busy.req.bearer = 0

(* A serving whose marker was written is the last one, and no boot has two. *)
Counted ==
    /\ \A i, j \in 1..Len(served) :
        i < j => served[i].boot < served[j].boot /\ ~served[i].marked
    /\ \A i \in 1..Len(served) :
        /\ served[i].boot <= boots
        /\ served[i].marked => disk.consumed
        /\ node.boot # 0 => served[i].boot < boots
        /\ busy # None /\ busy.at = "serving" => ~served[i].marked
    /\ busy # None /\ busy.at = "serving" => node.boot # 0

Replacing == busy # None /\ busy.at \in {"rotating", "rotated"}

(* While a claim is carried out the old token is off the disk and the new  *)
(* one is not yet what the node answers with.                              *)
Exchange ==
    /\ disk.token \notin retired
    /\ node.rotated # 0 => disk.consumed
    /\ Replacing => /\ node.rotated = 0 /\ given = {} /\ disk.consumed
                    /\ busy.token # 0 /\ busy.token \notin retired
                    /\ disk.token = IF busy.at = "rotated" THEN busy.token ELSE 0
    /\ busy # None /\ busy.at = "serving" => busy.token = node.boot
    /\ \A a \in given : a[2] = node.rotated /\ node.rotated # 0

(* t was never handed out by the GET: no bearer of a claim can be t.       *)
Unserved(t) ==
    /\ \A r \in requests : r.bearer # t
    /\ \A m \in replies : m.n = 1 => m.token # t
    /\ \A f \in Flows : flow[f].at = "claim" => flow[f].token # t
    /\ node.boot # t /\ node.claim # t
    /\ busy # None => busy.req.bearer # t
    /\ \A a \in given : a[1] # t

(* What a claim makes is not handed out by the GET until the node restarts. *)
Fresh ==
    /\ node.rotated # 0 => Unserved(node.rotated)
    /\ Replacing => Unserved(busy.token)

(* t is the token of the node, unless a claim set out to replace it.       *)
Works(t) ==
    t # 0 /\ t \notin retired =>
        disk.token = t /\ (node.up /\ node.api # Explicit => node.api = t)

(* Whatever a claim answers with works, wherever the answer has got to.    *)
ClaimsWork ==
    /\ Works(node.rotated) /\ Works(entry)
    /\ \A m \in replies : m.n # 1 => Works(m.token)
    /\ \A f \in Flows : flow[f].at = "form" => Works(flow[f].token)

IInv == Typed /\ Runtime /\ Numbered /\ Counted /\ Exchange /\ Fresh /\ ClaimsWork

USE ConstantAssumption
-----------------------------------------------------------------------------
LEMMA IInvImplies == IInv => TypeOK /\ StoredTokenWorks /\ ServedOnce
<1> SUFFICES ASSUME IInv PROVE TypeOK /\ StoredTokenWorks /\ ServedOnce OBVIOUS
<1>1. Issued \subseteq Tokens BY DEF IInv, Typed, Issued, Tokens
<1>2. TypeOK BY <1>1 DEF IInv, Typed, Runtime, TypeOK
<1>3. StoredTokenWorks BY DEF IInv, ClaimsWork, Works, StoredTokenWorks
<1>4. ServedOnce
  <2>1. DOMAIN served = 1..Len(served) BY DEF IInv, Typed
  <2>2. QED BY <2>1 DEF IInv, Counted, Exchange, Fresh, Unserved, Runtime, ServedOnce
<1>5. QED BY <1>2, <1>3, <1>4

LEMMA InitIInv == Init => IInv
<1> SUFFICES ASSUME Init PROVE IInv OBVIOUS
<1>1. last = 0 /\ Issued = 0..0 /\ 0 \in Issued BY DEF Init, Issued
<1>2. Typed
  BY <1>1 DEF Init, Typed, Tokens, Down, Work, RequestSet, ReplySet, Places
<1>3. Runtime /\ Numbered BY DEF Init, Runtime, Numbered, Down
<1>3a. Counted
  <2>1. Len(served) = 0 /\ busy = None BY DEF Init
  <2>2. QED BY <2>1 DEF Counted
<1>4. Exchange /\ Fresh /\ ClaimsWork
  BY DEF Init, Exchange, Fresh, ClaimsWork, Works, Replacing, Down
<1>5. QED BY <1>2, <1>3, <1>3a, <1>4 DEF IInv

LEMMA StutterKeeps == IInv /\ UNCHANGED vars => IInv'
  BY DEF IInv, Typed, Runtime, Numbered, Counted, Exchange, Fresh, ClaimsWork, Unserved,
         Works, Replacing, Work, RequestSet, ReplySet, Places, Issued, vars

(* A new token widens the types.                                           *)
LEMMA Wider ==
  ASSUME last \in Nat, last' \in Nat, last <= last'
  PROVE  /\ Issued \subseteq Issued' /\ Work \subseteq Work'
         /\ RequestSet \subseteq RequestSet' /\ ReplySet \subseteq ReplySet'
         /\ Places \subseteq Places'
<1>1. Issued \subseteq Issued' BY DEF Issued
<1>2. RequestSet \subseteq RequestSet' /\ ReplySet \subseteq ReplySet' /\ Places \subseteq Places'
  BY <1>1 DEF RequestSet, ReplySet, Places
<1>3. Work \subseteq Work' BY <1>1, <1>2 DEF Work
<1>4. QED BY <1>1, <1>2, <1>3

(* With no new token the types are the same.                               *)
LEMMA Same ==
  ASSUME UNCHANGED last
  PROVE  /\ Issued' = Issued /\ Work' = Work /\ RequestSet' = RequestSet
         /\ ReplySet' = ReplySet /\ Places' = Places
  BY DEF Issued, Work, RequestSet, ReplySet, Places

LEMMA StartsFields ==
  ASSUME NEW api
  PROVE  /\ Starts(api).up /\ Starts(api).window /\ Starts(api).api = api
         /\ Starts(api).boot = IF api = Explicit THEN 0 ELSE api
         /\ Starts(api).claim = 0 /\ Starts(api).rotated = 0
         /\ Starts(api) \in [up : BOOLEAN, window : BOOLEAN, api : {api},
                             boot : {IF api = Explicit THEN 0 ELSE api},
                             claim : {0}, rotated : {0}]
<1> DEFINE b == IF api = Explicit THEN 0 ELSE api
<1>1. Down \in [up : BOOLEAN, window : BOOLEAN, api : {0}, boot : {0}, claim : {0}, rotated : {0}]
  BY DEF Down
<1>2. Down.claim = 0 /\ Down.rotated = 0 BY DEF Down
<1>3. Starts(api) = [Down EXCEPT !.up = TRUE, !.window = TRUE, !.api = api, !.boot = b]
  BY DEF Starts
<1> HIDE DEF b
<1>4. /\ Starts(api).up /\ Starts(api).window /\ Starts(api).api = api
      /\ Starts(api).boot = b /\ Starts(api).claim = 0 /\ Starts(api).rotated = 0
      /\ Starts(api) \in [up : BOOLEAN, window : BOOLEAN, api : {api}, boot : {b},
                          claim : {0}, rotated : {0}]
  BY <1>1, <1>2, <1>3
<1>5. QED BY <1>4 DEF b

LEMMA StartKeeps == ASSUME IInv, Start PROVE IInv'
<1> USE DEF IInv
<1>1. /\ ~node.up /\ boots < MaxBoots /\ boots' = boots + 1 /\ given' = {}
      /\ served' = IF options.reset THEN <<>> ELSE served
      /\ UNCHANGED <<busy, options, requests, replies, flow, entry, retired>>
  BY DEF Start, net, setup
<1>2. busy = None /\ requests = {} /\ node = Down BY <1>1 DEF Runtime
<1>3. /\ disk'.consumed = IF options.reset THEN FALSE ELSE disk.consumed
      /\ disk'.claimed = IF options.reset THEN FALSE ELSE disk.claimed
      /\ disk' \in [token : {disk'.token}, consumed : BOOLEAN, claimed : BOOLEAN]
  BY DEF Start, ResetMarkers, Typed
<1>4. PICK api \in Issued' \cup {Explicit} :
          /\ last' \in Tokens /\ last <= last'
          /\ node' = Starts(api)
          /\ disk'.token \in Issued'
          /\ api = Explicit \/ api = disk'.token \/ (api = 0 /\ disk'.token = 0)
          /\ disk'.token = disk.token \/ (disk.token = 0 /\ disk'.token = last + 1 /\ last' = last + 1)
  <2> USE DEF Typed, Issued, Tokens
  <2>1. CASE /\ node' = Starts(Explicit) /\ disk' = ResetMarkers(disk) /\ UNCHANGED last
    BY <2>1 DEF ResetMarkers
  <2>2. CASE /\ node' = Starts(disk.token) /\ disk' = ResetMarkers(disk) /\ UNCHANGED last
    BY <2>2 DEF ResetMarkers
  <2>3. CASE /\ disk.token = 0 /\ last < MaxTokens /\ last' = last + 1
             /\ node' = Starts(last + 1)
             /\ disk' = [ResetMarkers(disk) EXCEPT !.token = last + 1]
    <3>1. disk'.token = last + 1 BY <2>3 DEF ResetMarkers
    <3>2. QED BY <2>3, <3>1
  <2>4. CASE /\ disk.token = 0 /\ node' = Starts(0)
             /\ disk' = ResetMarkers(disk) /\ UNCHANGED last
    BY <2>4 DEF ResetMarkers
  <2>5. QED BY <2>1, <2>2, <2>3, <2>4 DEF Start
<1>5. /\ node'.up /\ node'.window /\ node'.api = api /\ node'.claim = 0 /\ node'.rotated = 0
      /\ node'.boot = IF api = Explicit THEN 0 ELSE api
      /\ node' \in [up : BOOLEAN, window : BOOLEAN, api : Issued' \cup {Explicit},
                    boot : Issued', claim : Issued', rotated : Issued']
  <2>1. 0 \in Issued' BY <1>4 DEF Issued, Tokens
  <2>2. QED BY <1>4, <2>1, StartsFields
<1>6. Typed'
  <2>1. last \in Nat /\ last' \in Nat BY <1>4 DEF Typed, Tokens
  <2>2. boots' \in 0..MaxBoots /\ served' \in Seq(Servings) BY <1>1 DEF Typed
  <2>3. QED BY <1>1, <1>2, <1>3, <1>4, <1>5, <2>1, <2>2, Wider DEF Typed
<1>7. Runtime' /\ Numbered'
  BY <1>1, <1>2, <1>3, <1>5 DEF Runtime, Numbered
<1>7a. Counted'
  <2>1. CASE options.reset
    <3>1. Len(served') = 0 BY <1>1, <2>1
    <3>2. QED BY <1>1, <1>2, <3>1 DEF Counted
  <2>2. CASE ~options.reset
    <3>1. served' = served /\ disk'.consumed = disk.consumed /\ boots' = boots + 1
      BY <1>1, <1>3, <2>2
    <3>2. ASSUME NEW i \in 1..Len(served)
          PROVE  served[i].boot <= boots' /\ served[i].boot < boots'
      <4>1. served \in Seq(Servings) /\ boots \in Nat BY DEF Typed
      <4>2. served[i] \in Servings BY <4>1
      <4>3. served[i].boot \in Nat BY <4>2 DEF Servings
      <4>4. QED BY <3>1, <4>1, <4>3 DEF Counted
    <3>3. QED BY <1>1, <1>2, <3>1, <3>2 DEF Counted
  <2>3. QED BY <2>1, <2>2
<1>8. Exchange' /\ Fresh'
  <2>1. disk'.token \notin retired BY <1>4 DEF Exchange, Typed, Issued, Tokens
  <2>2. QED BY <1>1, <1>2, <1>5, <2>1 DEF Exchange, Fresh, Replacing
<1>9. ClaimsWork'
  <2>1. ASSUME NEW u, Works(u) PROVE Works(u)'
    BY <1>1, <1>4, <1>5, <2>1 DEF Works
  <2>2. Works(0)' BY DEF Works
  <2>3. QED BY <1>1, <1>5, <2>1, <2>2 DEF ClaimsWork
<1>10. QED BY <1>6, <1>7, <1>7a, <1>8, <1>9

LEMMA StartDiesKeeps == ASSUME IInv, StartDies PROVE IInv'
<1> USE DEF IInv
<1>1. /\ ~node.up /\ boots' = boots + 1 /\ boots < MaxBoots /\ served' = <<>>
      /\ disk' = [disk EXCEPT !.consumed = FALSE]
      /\ UNCHANGED <<node, busy, options, last, requests, replies, flow, entry, given, retired>>
  BY DEF StartDies, net, setup
<1>2. /\ disk'.token = disk.token /\ disk'.consumed = FALSE
      /\ disk' \in [token : Issued, consumed : BOOLEAN, claimed : BOOLEAN]
  BY <1>1 DEF Typed
<1>3. busy = None /\ requests = {} /\ node = Down BY <1>1 DEF Runtime
<1>4. boots' \in 0..MaxBoots BY <1>1 DEF Typed
<1>5. Typed' BY <1>1, <1>2, <1>4, Same DEF Typed
<1>6. Runtime' /\ Numbered' BY <1>1, <1>2, <1>3 DEF Runtime, Numbered
<1>7. Counted'
  <2>1. Len(served') = 0 BY <1>1
  <2>2. QED BY <1>1, <1>3, <2>1 DEF Counted
<1>8. Exchange' /\ Fresh' /\ ClaimsWork'
  BY <1>1, <1>2, <1>3 DEF Exchange, Fresh, ClaimsWork, Works, Replacing, Down
<1>9. QED BY <1>5, <1>6, <1>7, <1>8

LEMMA CrashKeeps == ASSUME IInv, Crash PROVE IInv'
<1> USE DEF IInv
<1>1. /\ node' = Down /\ busy' = None /\ requests' = {} /\ given' = {}
      /\ UNCHANGED <<disk, last, options, boots, replies, flow, entry, served, retired>>
  BY DEF Crash, files, setup
<1>2. 0 \in Issued BY DEF Typed, Issued, Tokens
<1>3. Typed' BY <1>1, <1>2, Same DEF Typed, Down
<1>4. Runtime' /\ Numbered' /\ Counted' BY <1>1 DEF Runtime, Numbered, Counted, Down
<1>5. Exchange' /\ Fresh' BY <1>1 DEF Exchange, Fresh, Replacing, Down
<1>6. ClaimsWork' BY <1>1 DEF ClaimsWork, Works, Down
<1>7. QED BY <1>3, <1>4, <1>5, <1>6

LEMMA WindowClosesKeeps == ASSUME IInv, WindowCloses PROVE IInv'
<1> USE DEF IInv
<1>1. /\ node.window /\ node' = [node EXCEPT !.window = FALSE]
      /\ UNCHANGED <<disk, last, busy, options, boots, requests, replies, flow, entry,
                     served, given, retired>>
  BY DEF WindowCloses, files, net, setup, record
<1>2. node.up BY <1>1 DEF Runtime, Down
<1>3. /\ node'.up /\ node'.api = node.api /\ node'.boot = node.boot
      /\ node'.claim = node.claim /\ node'.rotated = node.rotated
      /\ node' \in [up : BOOLEAN, window : BOOLEAN, api : Issued \cup {Explicit},
                    boot : Issued, claim : Issued, rotated : Issued]
  BY <1>1, <1>2 DEF Typed
<1>4. Typed' BY <1>1, <1>3, Same DEF Typed
<1>5. Runtime' /\ Numbered' /\ Counted'
  BY <1>1, <1>2, <1>3 DEF Runtime, Numbered, Counted
<1>6. Exchange' /\ Fresh' BY <1>1, <1>3 DEF Exchange, Fresh, Unserved, Replacing
<1>7. ClaimsWork' BY <1>1, <1>2, <1>3 DEF ClaimsWork, Works
<1>8. QED BY <1>4, <1>5, <1>6, <1>7

LEMMA SetOptionsKeeps == ASSUME IInv, SetOptions PROVE IInv'
<1> USE DEF IInv
<1>1. /\ options' \in [reset : BOOLEAN, explicit : BOOLEAN]
      /\ UNCHANGED <<disk, last, node, busy, boots, requests, replies, flow, entry,
                     served, given, retired>>
  BY DEF SetOptions, files, net, setup, record
<1>2. Typed' BY <1>1, Same DEF Typed
<1>3. Runtime' /\ Numbered' /\ Counted' BY <1>1 DEF Runtime, Numbered, Counted
<1>4. Exchange' /\ Fresh' /\ ClaimsWork'
  BY <1>1 DEF Exchange, Fresh, Unserved, Replacing, ClaimsWork, Works
<1>5. QED BY <1>2, <1>3, <1>4
-----------------------------------------------------------------------------

LEMMA ReplyFields ==
  ASSUME NEW r \in RequestSet, NEW token \in Issued
  PROVE  /\ Reply(r, token) \in ReplySet
         /\ Reply(r, token).n = r.n /\ Reply(r, token).token = token
  BY DEF Reply, ReplySet, RequestSet

(* What an answer does to the messages.                                    *)
LEMMA Answered ==
  ASSUME Typed, NEW r \in RequestSet, NEW token \in Issued, Answers(r, token)
  PROVE  /\ requests' \subseteq requests /\ requests' \subseteq RequestSet
         /\ replies' \subseteq ReplySet
         /\ \A m \in replies' : m \in replies \/ (m.n = r.n /\ m.token = token)
  BY ReplyFields DEF Typed, Answers

(* A request that is answered with a refusal.                              *)
LEMMA DenyKeeps ==
  ASSUME IInv, NEW r \in RequestSet, Answers(r, 0), busy' \in {busy, None},
         UNCHANGED <<disk, last, node, options, boots, flow, entry, served, given, retired>>
  PROVE  IInv'
<1> USE DEF IInv
<1>1. 0 \in Issued BY DEF Typed, Issued, Tokens
<1>2. /\ requests' \subseteq requests /\ requests' \subseteq RequestSet
      /\ replies' \subseteq ReplySet
      /\ \A m \in replies' : m \in replies \/ m.token = 0
  BY <1>1, Answered
<1>3. Typed' BY <1>2, Same DEF Typed
<1>4. Runtime' /\ Counted' BY <1>2 DEF Runtime, Counted
<1>5. Numbered' BY <1>2 DEF Numbered
<1>6. Exchange' BY DEF Exchange, Replacing
<1>7. ASSUME NEW u, u # 0, Unserved(u) PROVE Unserved(u)' BY <1>2, <1>7 DEF Unserved
<1>8. Fresh' BY <1>7 DEF Fresh, Replacing, Exchange
<1>9. ASSUME NEW u, Works(u) PROVE Works(u)' BY <1>9 DEF Works
<1>10. Works(0)' BY DEF Works
<1>11. ClaimsWork' BY <1>2, <1>9, <1>10 DEF ClaimsWork
<1>12. QED BY <1>3, <1>4, <1>5, <1>6, <1>8, <1>11

LEMMA RefusalsKeep ==
  ASSUME IInv, NEW r \in requests, BootstrapRefuses(r) \/ ClaimRefuses(r) \/ RotateFails(r)
  PROVE  IInv'
<1>1. r \in RequestSet BY DEF IInv, Typed
<1>2. /\ Answers(r, 0) /\ busy' \in {busy, None}
      /\ UNCHANGED <<disk, last, node, options, boots, flow, entry, served, given, retired>>
  BY DEF BootstrapRefuses, ClaimRefuses, RotateFails, files, setup, record
<1>3. QED BY <1>1, <1>2, DenyKeeps

(* The GET marks the token as handed out, or fails to.                     *)
LEMMA BootstrapMarksKeeps ==
  ASSUME IInv, NEW r \in requests, BootstrapMarks(r) PROVE IInv'
<1> USE DEF IInv
<1>1. /\ node.up /\ busy = None /\ r.bearer = 0 /\ ~disk.consumed /\ node.boot # 0
      /\ disk' = [disk EXCEPT !.consumed = TRUE] \/ disk' = disk
      /\ busy' = [at |-> "serving", req |-> r, token |-> node.boot]
      /\ UNCHANGED <<last, node, options, boots, requests, replies, flow, entry, served,
                     given, retired>>
  BY DEF BootstrapMarks, Handles, AlreadyServed, net, setup, record
<1>2. /\ busy'.at = "serving" /\ busy'.req = r /\ busy'.token = node.boot
      /\ r \in RequestSet /\ busy' \in Work
  BY <1>1 DEF Typed, Work
<1>3. /\ disk'.token = disk.token
      /\ disk' \in [token : Issued, consumed : BOOLEAN, claimed : BOOLEAN]
  BY <1>1 DEF Typed
<1>4. Typed' BY <1>1, <1>2, <1>3, Same DEF Typed
<1>5. Runtime' BY <1>1 DEF Runtime
<1>6. Numbered' BY <1>1, <1>2 DEF Numbered
<1>7. Counted' BY <1>1, <1>2 DEF Counted
<1>8. node.rotated = 0 /\ given = {} BY <1>1 DEF Exchange
<1>9. Exchange' /\ Fresh'
  BY <1>1, <1>2, <1>3, <1>8 DEF Exchange, Fresh, Replacing
<1>10. ClaimsWork' BY <1>1, <1>3 DEF ClaimsWork, Works
<1>11. QED BY <1>4, <1>5, <1>6, <1>7, <1>9, <1>10

LEMMA BootstrapServesKeeps == ASSUME IInv, BootstrapServes PROVE IInv'
<1> USE DEF IInv
<1>1. /\ busy # None /\ busy.at = "serving" /\ busy' = None
      /\ node' = [node EXCEPT !.boot = 0, !.claim = busy.token]
      /\ served' = Append(served, [boot |-> boots, marked |-> disk.consumed])
      /\ Answers(busy.req, busy.token)
      /\ UNCHANGED <<disk, last, options, boots, flow, entry, given, retired>>
  BY DEF BootstrapServes, AfterServing, files, setup
<1>2. busy.req \in RequestSet /\ busy.token \in Issued /\ busy.req.n = 1 /\ busy.token = node.boot
  BY <1>1 DEF Typed, Work, Numbered, Exchange
<1>3. /\ requests' \subseteq requests /\ requests' \subseteq RequestSet
      /\ replies' \subseteq ReplySet
      /\ \A m \in replies' : m \in replies \/ (m.n = 1 /\ m.token = node.boot)
  BY <1>1, <1>2, Answered
<1>4. 0 \in Issued BY DEF Typed, Issued, Tokens
<1>5. /\ node'.up = node.up /\ node'.api = node.api /\ node'.rotated = node.rotated
      /\ node'.boot = 0 /\ node'.claim = node.boot
      /\ node' \in [up : BOOLEAN, window : BOOLEAN, api : Issued \cup {Explicit},
                    boot : Issued, claim : Issued, rotated : Issued]
  BY <1>1, <1>2, <1>4 DEF Typed
<1>6. node.up BY <1>1 DEF Runtime
<1>7. served' \in Seq(Servings) /\ boots \in Nat
  <2>1. boots \in Nat /\ disk.consumed \in BOOLEAN BY DEF Typed
  <2>2. [boot |-> boots, marked |-> disk.consumed] \in Servings BY <2>1 DEF Servings
  <2>3. QED BY <1>1, <2>1, <2>2 DEF Typed
<1>8. Typed' BY <1>1, <1>3, <1>5, <1>7, Same DEF Typed
<1>9. Runtime' BY <1>5, <1>6 DEF Runtime
<1>10. Numbered' BY <1>1, <1>3 DEF Numbered
<1>11. Counted'
  <2> DEFINE new == [boot |-> boots, marked |-> disk.consumed]
  <2>1. new.boot = boots /\ new.marked = disk.consumed OBVIOUS
  <2>2. /\ Len(served) \in Nat /\ Len(served') = Len(served) + 1
        /\ served'[Len(served) + 1] = new
        /\ \A i \in 1..Len(served) : served'[i] = served[i]
    BY <1>1 DEF Typed
  <2> HIDE DEF new
  <2>3. \A i \in 1..Len(served) : served[i].boot < boots /\ ~served[i].marked
    BY <1>1 DEF Counted
  <2>4. \A i \in 1..Len(served') : i \in 1..Len(served) \/ i = Len(served) + 1 BY <2>2
  <2>5. ASSUME NEW i \in 1..Len(served'), NEW j \in 1..Len(served'), i < j
        PROVE  served'[i].boot < served'[j].boot /\ ~served'[i].marked
    <3>1. i \in 1..Len(served) /\ served'[i] = served[i] BY <2>2, <2>4, <2>5
    <3>2. CASE j \in 1..Len(served) BY <2>2, <2>5, <3>1, <3>2 DEF Counted
    <3>3. CASE j = Len(served) + 1 BY <2>1, <2>2, <2>3, <3>1, <3>3
    <3>4. QED BY <2>4, <3>2, <3>3
  <2>6. ASSUME NEW i \in 1..Len(served')
        PROVE  served'[i].boot <= boots /\ (served'[i].marked => disk.consumed)
    <3>1. CASE i \in 1..Len(served) BY <2>2, <3>1 DEF Counted
    <3>2. CASE i = Len(served) + 1 BY <1>7, <2>1, <2>2, <3>2
    <3>3. QED BY <2>4, <3>1, <3>2
  <2>7. boots' = boots /\ disk' = disk /\ node'.boot = 0 /\ busy' = None BY <1>1, <1>5
  <2>8. QED BY <2>5, <2>6, <2>7 DEF Counted
<1>12. Exchange' BY <1>1, <1>5 DEF Exchange, Replacing
<1>13. ASSUME NEW u, u # 0, Unserved(u) PROVE Unserved(u)'
  BY <1>1, <1>3, <1>5, <1>13 DEF Unserved
<1>14. Fresh' BY <1>1, <1>5, <1>13 DEF Fresh, Replacing
<1>15. ASSUME NEW u, Works(u) PROVE Works(u)' BY <1>1, <1>5, <1>15 DEF Works
<1>16. ClaimsWork' BY <1>1, <1>3, <1>5, <1>15 DEF ClaimsWork
<1>17. QED BY <1>8, <1>9, <1>10, <1>11, <1>12, <1>14, <1>16

(* The second claim with the served token gets the same answer.            *)
LEMMA ClaimRepeatsKeeps ==
  ASSUME IInv, NEW r \in requests, ClaimRepeats(r) PROVE IInv'
<1> USE DEF IInv
<1>1. /\ r.bearer # 0 /\ node.rotated # 0 /\ busy = None
      /\ given' = given \cup {<<r.bearer, node.rotated>>}
      /\ Answers(r, node.rotated)
      /\ UNCHANGED <<disk, last, node, busy, options, boots, flow, entry, served, retired>>
  BY DEF ClaimRepeats, Handles, files, setup
<1>2. r \in RequestSet /\ r.bearer \in Issued /\ node.rotated \in Issued /\ r.n # 1
  BY <1>1 DEF Typed, RequestSet, Numbered
<1>3. /\ requests' \subseteq requests /\ requests' \subseteq RequestSet
      /\ replies' \subseteq ReplySet
      /\ \A m \in replies' : m \in replies \/ (m.n # 1 /\ m.token = node.rotated)
  BY <1>1, <1>2, Answered
<1>4. given' \subseteq Issued \X Issued BY <1>1, <1>2 DEF Typed
<1>5. Typed' BY <1>1, <1>3, <1>4, Same DEF Typed
<1>6. Runtime' /\ Counted' BY <1>1, <1>3 DEF Runtime, Counted
<1>7. Numbered' BY <1>1, <1>3 DEF Numbered
<1>8. \A a \in given' : a \in given \/ (a[1] = r.bearer /\ a[2] = node.rotated) BY <1>1
<1>9. Exchange' BY <1>1, <1>8 DEF Exchange, Replacing
<1>10. Unserved(node.rotated) BY <1>1 DEF Fresh
<1>11. r.bearer # node.rotated BY <1>10 DEF Unserved
<1>12. Unserved(node.rotated)' BY <1>1, <1>3, <1>8, <1>10, <1>11 DEF Unserved
<1>13. Fresh' BY <1>1, <1>12 DEF Fresh, Replacing
<1>14. ASSUME NEW u, Works(u) PROVE Works(u)' BY <1>1, <1>14 DEF Works
<1>15. ClaimsWork' BY <1>1, <1>3, <1>14 DEF ClaimsWork
<1>16. QED BY <1>5, <1>6, <1>7, <1>9, <1>13, <1>15

(* A claim is carried out at most once while the node runs: the token that *)
(* came of it is nobody's bearer.                                          *)
LEMMA FirstRotation ==
  ASSUME IInv, NEW r \in requests, MayRotate(r)
  PROVE  node.rotated = 0 /\ given = {} /\ disk.consumed
<1>1. node.rotated # 0 => r.bearer # node.api
  BY DEF IInv, Fresh, Unserved, Runtime
<1>2. node.rotated = 0 BY <1>1 DEF MayRotate
<1>3. QED BY <1>2 DEF IInv, Exchange, MayRotate

LEMMA NewUnserved ==
  ASSUME Typed
  PROVE  Unserved(last + 1) /\ last + 1 \notin Issued /\ last + 1 \notin retired
<1>1. last \in Nat /\ last + 1 \notin Issued BY DEF Typed, Issued, Tokens
<1>2. /\ \A r \in requests : r.bearer \in Issued
      /\ \A m \in replies : m.token \in Issued
      /\ \A f \in Flows : flow[f].token \in Issued
      /\ \A a \in given : a[1] \in Issued
      /\ node.boot \in Issued /\ node.claim \in Issued
      /\ busy # None => busy.req.bearer \in Issued
  BY DEF Typed, RequestSet, ReplySet, Places, Work
<1>3. QED BY <1>1, <1>2 DEF Unserved, Typed

LEMMA RotateOpensKeeps == ASSUME IInv, NEW r \in requests, RotateOpens(r) PROVE IInv'
<1> USE DEF IInv
<1>1. /\ MayRotate(r) /\ last < MaxTokens /\ last' = last + 1
      /\ disk' = [disk EXCEPT !.token = 0]
      /\ busy' = [at |-> "rotating", req |-> r, token |-> last + 1]
      /\ retired' = retired \cup ({disk.token} \ {0})
      /\ UNCHANGED <<node, options, boots, requests, replies, flow, entry, served, given>>
  BY DEF RotateOpens, net, setup
<1>2. node.up /\ r.bearer # 0 /\ busy = None BY <1>1 DEF MayRotate, Handles
<1>3. node.rotated = 0 /\ given = {} /\ disk.consumed BY <1>1, FirstRotation
<1>4. last \in Nat /\ last' \in Tokens /\ last' \in Issued' /\ 0 \in Issued'
  BY <1>1 DEF Typed, Issued, Tokens
<1>5. /\ Issued \subseteq Issued' /\ RequestSet \subseteq RequestSet'
      /\ ReplySet \subseteq ReplySet' /\ Places \subseteq Places'
  BY <1>1, <1>4, Wider DEF Tokens
<1>6. /\ busy'.at = "rotating" /\ busy'.req = r /\ busy'.token = last + 1
      /\ busy' \in Work'
  BY <1>1, <1>4, <1>5 DEF Typed, Work
<1>7. /\ disk'.token = 0 /\ disk'.consumed /\ disk.token \in Issued
      /\ disk' \in [token : Issued', consumed : BOOLEAN, claimed : BOOLEAN]
  BY <1>1, <1>3, <1>4 DEF Typed
<1>8. Typed' BY <1>1, <1>4, <1>5, <1>6, <1>7 DEF Typed
<1>9. Runtime' BY <1>1, <1>2 DEF Runtime
<1>10. Numbered' BY <1>1, <1>2, <1>6 DEF Numbered
<1>11. Counted' BY <1>1, <1>6, <1>7 DEF Counted
<1>12. Unserved(last + 1) /\ last + 1 \notin Issued /\ last + 1 \notin retired BY NewUnserved
<1>13. last + 1 # 0 /\ last + 1 \notin retired' BY <1>1, <1>4, <1>7, <1>12
<1>14. 0 \notin retired' BY <1>1 DEF Typed
<1>15. Exchange'
  BY <1>1, <1>3, <1>6, <1>7, <1>13, <1>14 DEF Exchange, Replacing
<1>16. \A u : Unserved(u) /\ r.bearer # u => Unserved(u)' BY <1>1, <1>6 DEF Unserved
<1>17. Fresh'
  <2>1. r.bearer # last + 1 BY <1>12 DEF Unserved
  <2>2. Unserved(busy.token)' BY <1>6, <1>12, <1>16, <2>1 DEF Unserved
  <2>3. QED BY <1>1, <1>3, <2>2 DEF Fresh
<1>18. ASSUME NEW u, Works(u) PROVE Works(u)' BY <1>1, <1>18 DEF Works
<1>19. ClaimsWork' BY <1>1, <1>18 DEF ClaimsWork
<1>20. QED BY <1>8, <1>9, <1>10, <1>11, <1>15, <1>17, <1>19

LEMMA RotateWritesKeeps == ASSUME IInv, RotateWrites PROVE IInv'
<1> USE DEF IInv
<1>1. /\ busy # None /\ busy.at = "rotating"
      /\ disk' = [disk EXCEPT !.token = busy.token]
      /\ busy' = [busy EXCEPT !.at = "rotated"]
      /\ UNCHANGED <<last, node, options, boots, requests, replies, flow, entry, served,
                     given, retired>>
  BY DEF RotateWrites, net, setup, record
<1>2. /\ busy'.at = "rotated" /\ busy'.req = busy.req /\ busy'.token = busy.token
      /\ busy' \in Work /\ busy.token \in Issued
  BY <1>1 DEF Typed, Work
<1>3. /\ disk'.token = busy.token /\ disk'.consumed = disk.consumed
      /\ disk' \in [token : Issued, consumed : BOOLEAN, claimed : BOOLEAN]
  BY <1>1, <1>2 DEF Typed
<1>4. Replacing /\ disk.token = 0 BY <1>1 DEF Replacing, Exchange
<1>5. Typed' BY <1>1, <1>2, <1>3, Same DEF Typed
<1>6. Runtime' BY <1>1 DEF Runtime
<1>7. Numbered' BY <1>1, <1>2 DEF Numbered
<1>8. Counted' BY <1>1, <1>2, <1>3 DEF Counted
<1>9. Exchange' BY <1>1, <1>2, <1>3, <1>4 DEF Exchange, Replacing
<1>10. \A u : Unserved(u) => Unserved(u)' BY <1>1, <1>2 DEF Unserved
<1>11. Fresh' BY <1>1, <1>2, <1>4, <1>10 DEF Fresh, Replacing
<1>12. ASSUME NEW u, Works(u) PROVE Works(u)' BY <1>1, <1>4, <1>12 DEF Works
<1>13. ClaimsWork' BY <1>1, <1>12 DEF ClaimsWork
<1>14. QED BY <1>5, <1>6, <1>7, <1>8, <1>9, <1>11, <1>13

(* The node goes by the token it has written before it answers with it.    *)
LEMMA ClaimAnswersKeeps == ASSUME IInv, ClaimAnswers PROVE IInv'
<1> USE DEF IInv
<1>1. /\ busy # None /\ busy.at = "rotated" /\ busy' = None
      /\ node' = [node EXCEPT !.api = busy.token, !.rotated = busy.token]
      /\ disk' = [disk EXCEPT !.claimed = TRUE] \/ disk' = disk
      /\ given' = given \cup {<<busy.req.bearer, busy.token>>}
      /\ Answers(busy.req, busy.token)
      /\ UNCHANGED <<last, options, boots, flow, entry, served, retired>>
  BY DEF ClaimAnswers, AfterClaim, setup
<1>2. /\ busy.req \in RequestSet /\ busy.token \in Issued /\ busy.req.bearer \in Issued
      /\ busy.req.n # 1
  BY <1>1 DEF Typed, Work, RequestSet, Numbered
<1>3. Replacing BY <1>1 DEF Replacing
<1>4. /\ node.rotated = 0 /\ given = {} /\ disk.consumed /\ busy.token # 0
      /\ busy.token \notin retired /\ disk.token = busy.token
  BY <1>1, <1>3 DEF Exchange
<1>5. /\ requests' \subseteq requests /\ requests' \subseteq RequestSet
      /\ replies' \subseteq ReplySet
      /\ \A m \in replies' : m \in replies \/ (m.n # 1 /\ m.token = busy.token)
  BY <1>1, <1>2, Answered
<1>6. /\ node'.up = node.up /\ node'.boot = node.boot /\ node'.claim = node.claim
      /\ node'.api = busy.token /\ node'.rotated = busy.token
      /\ node' \in [up : BOOLEAN, window : BOOLEAN, api : Issued \cup {Explicit},
                    boot : Issued, claim : Issued, rotated : Issued]
  BY <1>1, <1>2 DEF Typed
<1>7. /\ disk'.token = disk.token /\ disk'.consumed
      /\ disk' \in [token : Issued, consumed : BOOLEAN, claimed : BOOLEAN]
  BY <1>1, <1>4 DEF Typed
<1>8. node.up BY <1>1 DEF Runtime
<1>9. given' = {<<busy.req.bearer, busy.token>>} BY <1>1, <1>4
<1>10. Typed' BY <1>1, <1>2, <1>5, <1>6, <1>7, <1>9, Same DEF Typed
<1>11. Runtime' BY <1>6, <1>8 DEF Runtime
<1>12. Numbered' BY <1>1, <1>5 DEF Numbered
<1>13. Counted' BY <1>1, <1>7 DEF Counted
<1>14. Exchange' BY <1>1, <1>4, <1>6, <1>7, <1>9 DEF Exchange, Replacing
<1>15. Unserved(busy.token) BY <1>3 DEF Fresh
<1>16. \A u : Unserved(u) => Unserved(u)' BY <1>1, <1>5, <1>6, <1>9 DEF Unserved
<1>17. Fresh' BY <1>1, <1>6, <1>15, <1>16 DEF Fresh, Replacing
<1>18. ASSUME NEW u, Works(u) PROVE Works(u)'
  BY <1>1, <1>4, <1>6, <1>7, <1>18 DEF Works
<1>19. ClaimsWork'
  <2>1. Works(node.rotated)' BY <1>4, <1>6, <1>7 DEF Works
  <2>2. \A m \in replies' : m.n # 1 => Works(m.token)'
    BY <1>4, <1>5, <1>6, <1>7, <1>18 DEF ClaimsWork, Works
  <2>3. QED BY <1>1, <1>18, <2>1, <2>2 DEF ClaimsWork
<1>20. QED BY <1>10, <1>11, <1>12, <1>13, <1>14, <1>17, <1>19
-----------------------------------------------------------------------------
(* The config flow.                                                        *)
LEMMA Moved ==
  ASSUME Typed, NEW f \in Flows, NEW where \in {"idle", "fetch", "claim", "form", "done"},
         NEW n \in 0..3, NEW token \in Issued, At(f, where, n, token), UNCHANGED last
  PROVE  /\ flow' \in [Flows -> Places']
         /\ \A g \in Flows \ {f} : flow'[g] = flow[g]
         /\ flow'[f].at = where /\ flow'[f].n = n /\ flow'[f].token = token
<1>1. Places' = Places BY Same
<1>2. [at |-> where, n |-> n, token |-> token] \in Places BY DEF Places
<1>3. QED BY <1>1, <1>2 DEF At, Typed

(* A flow moves on without a new claim, and what it stores works.          *)
LEMMA FlowKeeps ==
  ASSUME IInv, NEW f \in Flows, NEW where \in {"fetch", "form", "done"}, NEW n \in 0..3,
         NEW token \in Issued, At(f, where, n, token),
         where = "fetch" => n = 1, where = "form" => Works(token),
         requests' \subseteq RequestSet, ~node.up => requests' = {},
         \A r \in requests' : r \in requests \/ (r.bearer = 0 /\ r.n = 1),
         replies' \subseteq replies, entry' \in Issued, Works(entry'),
         UNCHANGED <<disk, last, node, busy, options, boots, served, given, retired>>
  PROVE  IInv'
<1> USE DEF IInv
<1>1. /\ flow' \in [Flows -> Places']
      /\ \A g \in Flows \ {f} : flow'[g] = flow[g]
      /\ flow'[f].at = where /\ flow'[f].n = n /\ flow'[f].token = token
  BY Moved
<1>2. Typed' BY <1>1, Same DEF Typed
<1>3. Runtime' /\ Counted' BY DEF Runtime, Counted
<1>4. Numbered' BY <1>1 DEF Numbered
<1>5. Exchange' BY DEF Exchange, Replacing
<1>6. \A u : u # 0 /\ Unserved(u) => Unserved(u)' BY <1>1 DEF Unserved
<1>7. Fresh' BY <1>6 DEF Fresh, Replacing, Exchange
<1>8. \A u : Works(u) => Works(u)' BY DEF Works
<1>9. ClaimsWork' BY <1>1, <1>8 DEF ClaimsWork, Works
<1>10. QED BY <1>2, <1>3, <1>4, <1>5, <1>7, <1>9

(* A flow sends a claim with the token the GET gave it.                    *)
LEMMA ClaimSentKeeps ==
  ASSUME IInv, NEW f \in Flows, NEW n \in {2, 3}, NEW token \in Issued, token # 0,
         node.rotated # 0 => token # node.rotated,
         Replacing => token # busy.token,
         At(f, "claim", n, token), Sends(f, n, token), replies' \subseteq replies,
         UNCHANGED <<disk, last, node, busy, options, boots, entry, served, given, retired>>
  PROVE  IInv'
<1> USE DEF IInv
<1>1. /\ flow' \in [Flows -> Places']
      /\ \A g \in Flows \ {f} : flow'[g] = flow[g]
      /\ flow'[f].at = "claim" /\ flow'[f].n = n /\ flow'[f].token = token
  BY Moved
<1> DEFINE q == Request(f, n, token)
<1>2. q \in RequestSet /\ q.n = n /\ q.bearer = token BY DEF Request, RequestSet
<1>3. requests' = IF node.up THEN requests \cup {q} ELSE requests BY DEF Sends
<1> HIDE DEF q
<1>4. Typed' BY <1>1, <1>2, <1>3, Same DEF Typed
<1>5. Runtime' /\ Counted' BY <1>3 DEF Runtime, Counted
<1>6. Numbered' BY <1>1, <1>2, <1>3 DEF Numbered
<1>7. Exchange' BY DEF Exchange, Replacing
<1>8. \A u : u # token /\ Unserved(u) => Unserved(u)' BY <1>1, <1>2, <1>3 DEF Unserved
<1>9. Fresh' BY <1>8 DEF Fresh, Replacing
<1>10. \A u : Works(u) => Works(u)' BY DEF Works
<1>11. ClaimsWork' BY <1>1, <1>10 DEF ClaimsWork
<1>12. QED BY <1>4, <1>5, <1>6, <1>7, <1>9, <1>11

LEMMA FlowStartsKeeps == ASSUME IInv, NEW f \in Flows, FlowStarts(f) PROVE IInv'
<1>1. /\ At(f, "fetch", 1, 0) /\ Sends(f, 1, 0)
      /\ UNCHANGED <<disk, last, node, busy, options, boots, replies, entry, served, given, retired>>
  BY DEF FlowStarts, files, record
<1>2. 0 \in Issued BY DEF IInv, Typed, Issued, Tokens
<1> DEFINE q == Request(f, 1, 0)
<1>3. q \in RequestSet /\ q.n = 1 /\ q.bearer = 0 BY <1>2 DEF Request, RequestSet
<1>4. requests' = IF node.up THEN requests \cup {q} ELSE requests BY <1>1 DEF Sends
<1> HIDE DEF q
<1>5. /\ requests' \subseteq RequestSet /\ (~node.up => requests' = {})
      /\ \A r \in requests' : r \in requests \/ (r.bearer = 0 /\ r.n = 1)
  BY <1>3, <1>4 DEF IInv, Typed, Runtime
<1>6. entry' \in Issued /\ Works(entry') BY <1>1 DEF IInv, Typed, ClaimsWork
<1>7. QED BY <1>1, <1>2, <1>5, <1>6, FlowKeeps

(* Leaving for the form, with what the claim answered or with nothing.     *)
LEMMA ToFormKeeps ==
  ASSUME IInv, NEW f \in Flows, NEW token \in Issued, Works(token),
         At(f, "form", flow[f].n, token), replies' \subseteq replies,
         UNCHANGED <<disk, last, node, busy, options, boots, requests, entry, served, given, retired>>
  PROVE  IInv'
<1>1. flow[f].n \in 0..3 BY DEF IInv, Typed, Places
<1>2. /\ requests' \subseteq RequestSet /\ (~node.up => requests' = {})
      /\ \A r \in requests' : r \in requests \/ (r.bearer = 0 /\ r.n = 1)
  BY DEF IInv, Typed, Runtime
<1>3. entry' \in Issued /\ Works(entry') BY DEF IInv, Typed, ClaimsWork
<1>4. QED BY <1>1, <1>2, <1>3, FlowKeeps

LEMMA FlowHearsKeeps == ASSUME IInv, NEW f \in Flows, FlowHears(f) PROVE IInv'
<1>1. PICK m \in replies :
        /\ m.flow = f /\ m.n = flow[f].n /\ flow[f].at \in {"fetch", "claim"}
        /\ replies' = replies \ {m}
        /\ IF flow[f].at = "fetch" /\ m.token # 0
           THEN At(f, "claim", 2, m.token) /\ Sends(f, 2, m.token)
           ELSE At(f, "form", flow[f].n, m.token) /\ UNCHANGED requests
        /\ UNCHANGED <<files, node, busy, options, boots, entry, record>>
  BY DEF FlowHears
<1>2. /\ replies' \subseteq replies /\ m.token \in Issued
      /\ UNCHANGED <<disk, last, node, busy, options, boots, entry, served, given, retired>>
  BY <1>1 DEF IInv, Typed, ReplySet, files, record
<1>3. CASE flow[f].at = "fetch" /\ m.token # 0
  <2>1. m.n = 1 BY <1>1, <1>3 DEF IInv, Numbered
  <2>2. (node.rotated # 0 => m.token # node.rotated) /\ (Replacing => m.token # busy.token)
    BY <2>1 DEF IInv, Fresh, Unserved
  <2>3. At(f, "claim", 2, m.token) /\ Sends(f, 2, m.token) BY <1>1, <1>3
  <2>4. QED BY <1>2, <1>3, <2>2, <2>3, ClaimSentKeeps
<1>4. CASE ~(flow[f].at = "fetch" /\ m.token # 0)
  <2>1. Works(m.token)
    <3>1. CASE m.token = 0 BY <3>1 DEF Works
    <3>2. CASE flow[f].at = "claim"
      <4>1. m.n # 1 BY <1>1, <3>2 DEF IInv, Numbered
      <4>2. QED BY <4>1 DEF IInv, ClaimsWork
    <3>3. QED BY <1>1, <1>4, <3>1, <3>2
  <2>2. At(f, "form", flow[f].n, m.token) /\ UNCHANGED requests BY <1>1, <1>4
  <2>3. QED BY <1>2, <2>1, <2>2, ToFormKeeps
<1>5. QED BY <1>3, <1>4

LEMMA FlowTimesOutKeeps == ASSUME IInv, NEW f \in Flows, FlowTimesOut(f) PROVE IInv'
<1>1. /\ replies' \subseteq replies
      /\ UNCHANGED <<disk, last, node, busy, options, boots, entry, served, given, retired>>
  BY DEF FlowTimesOut, files, record
<1>2. CASE flow[f].at = "claim" /\ flow[f].n = 2
  <2>1. flow[f].token \in Issued /\ flow[f].token # 0
    BY <1>2 DEF IInv, Typed, Places, Numbered
  <2>2. /\ node.rotated # 0 => flow[f].token # node.rotated
        /\ Replacing => flow[f].token # busy.token
    BY <1>2 DEF IInv, Fresh, Unserved
  <2>3. At(f, "claim", 3, flow[f].token) /\ Sends(f, 3, flow[f].token)
    BY <1>2 DEF FlowTimesOut
  <2>4. QED BY <1>1, <2>1, <2>2, <2>3, ClaimSentKeeps
<1>3. CASE ~(flow[f].at = "claim" /\ flow[f].n = 2)
  <2>1. At(f, "form", flow[f].n, 0) /\ UNCHANGED requests BY <1>3 DEF FlowTimesOut
  <2>2. 0 \in Issued /\ Works(0) BY DEF IInv, Typed, Issued, Tokens, Works
  <2>3. QED BY <1>1, <2>1, <2>2, ToFormKeeps
<1>4. QED BY <1>2, <1>3

LEMMA FlowEndsKeeps == ASSUME IInv, NEW f \in Flows, FlowEnds(f) PROVE IInv'
<1>1. /\ flow[f].at = "form" /\ At(f, "done", flow[f].n, 0)
      /\ entry' \in {entry, flow[f].token}
      /\ UNCHANGED <<disk, last, node, busy, options, boots, requests, replies, served, given, retired>>
  BY DEF FlowEnds, files, net, record
<1>2. flow[f].n \in 0..3 /\ flow[f].token \in Issued /\ 0 \in Issued
  BY DEF IInv, Typed, Places, Issued, Tokens
<1>3. entry' \in Issued /\ Works(entry') BY <1>1, <1>2 DEF IInv, Typed, ClaimsWork
<1>4. /\ requests' \subseteq RequestSet /\ (~node.up => requests' = {})
      /\ \A r \in requests' : r \in requests \/ (r.bearer = 0 /\ r.n = 1)
  BY <1>1 DEF IInv, Typed, Runtime
<1>5. QED BY <1>1, <1>2, <1>3, <1>4, FlowKeeps

LEMMA RemoveEntryKeeps == ASSUME IInv, RemoveEntry PROVE IInv'
<1> USE DEF IInv
<1>1. /\ entry' = 0
      /\ UNCHANGED <<disk, last, node, busy, options, boots, requests, replies, flow,
                     served, given, retired>>
  BY DEF RemoveEntry, files, net, record
<1>2. 0 \in Issued BY DEF Typed, Issued, Tokens
<1>3. Typed' BY <1>1, <1>2, Same DEF Typed
<1>4. Runtime' /\ Numbered' /\ Counted' BY <1>1 DEF Runtime, Numbered, Counted
<1>5. Exchange' /\ Fresh' /\ ClaimsWork'
  BY <1>1 DEF Exchange, Fresh, Unserved, Replacing, ClaimsWork, Works
<1>6. QED BY <1>3, <1>4, <1>5

LEMMA NextKeeps == IInv /\ [Next]_vars => IInv'
  BY StutterKeeps, StartKeeps, StartDiesKeeps, CrashKeeps, WindowClosesKeeps,
     SetOptionsKeeps, RefusalsKeep, BootstrapMarksKeeps, BootstrapServesKeeps,
     ClaimRepeatsKeeps, RotateOpensKeeps, RotateWritesKeeps, ClaimAnswersKeeps,
     FlowStartsKeeps, FlowHearsKeeps, FlowTimesOutKeeps, FlowEndsKeeps, RemoveEntryKeeps
  DEF Next

(* A node that is down holds nothing, one that runs has handed its token   *)
(* out or not, and what it rotated to is what its API goes by.             *)
THEOREM TypeCorrect == Spec => []TypeOK
  BY InitIInv, NextKeeps, IInvImplies, PTL DEF Spec

(* bootstrap_claim: wherever the node dies, and whichever of its writes    *)
(* fails, the token an integration has stored is the one on the node's     *)
(* disk and the one it goes by, until a later claim sets out to replace it. *)
THEOREM StoredWorks == Spec => []StoredTokenWorks
  BY InitIInv, NextKeeps, IInvImplies, PTL DEF Spec

(* A claim with the served token that was answered before is answered      *)
(* alike: the node remembers what it rotated to as long as it runs.        *)
LEMMA RepeatsAlike == IInv /\ [Next]_vars => [RetriesAgree]_vars
<1> SUFFICES ASSUME IInv, Next, NEW r \in requests \ requests', NEW a \in given,
                    node.up', Known(r.bearer), r.bearer = a[1]
             PROVE  Reply(r, a[2]) \in replies'
  BY DEF RetriesAgree
<1>1. /\ r.bearer # 0 /\ ~Replacing
      /\ a[2] = node.rotated /\ node.rotated # 0
  BY DEF IInv, Exchange, Known
<1>2. ASSUME NEW q, NEW t, Answers(q, t) PROVE q = r BY <1>2 DEF Answers
<1>3. ASSUME NEW q \in requests, ClaimRepeats(q) PROVE Reply(r, a[2]) \in replies'
  BY <1>1, <1>2, <1>3 DEF ClaimRepeats, Answers
<1>4. ASSUME NEW q \in requests, ClaimRefuses(q) PROVE FALSE
  BY <1>1, <1>2, <1>4 DEF ClaimRefuses
<1>5. ASSUME NEW q \in requests, RotateFails(q) PROVE FALSE
  <2>1. CASE MayRotate(q) BY <2>1, FirstRotation
  <2>2. CASE busy # None /\ busy.at = "rotating" BY <1>1, <2>2 DEF Replacing
  <2>3. QED BY <1>5, <2>1, <2>2 DEF RotateFails
<1>6. ASSUME NEW q \in requests, BootstrapRefuses(q) PROVE FALSE
  BY <1>1, <1>2, <1>6 DEF BootstrapRefuses
<1>7. ASSUME BootstrapServes PROVE FALSE
  <2>1. busy # None /\ busy.at = "serving" /\ busy.req = r
    BY <1>2, <1>7 DEF BootstrapServes
  <2>2. QED BY <1>1, <2>1 DEF IInv, Numbered
<1>8. ASSUME ClaimAnswers PROVE FALSE
  <2>1. Replacing BY <1>8 DEF ClaimAnswers, Replacing
  <2>2. QED BY <1>1, <2>1
<1>9. ASSUME NEW q \in requests, BootstrapMarks(q) \/ RotateOpens(q) PROVE FALSE
  <2>1. requests' = requests BY <1>9 DEF BootstrapMarks, RotateOpens, net
  <2>2. QED BY <2>1
<1>10. ASSUME Crash PROVE FALSE BY <1>10 DEF Crash, Down
<1>11. ASSUME Start \/ StartDies \/ WindowCloses \/ SetOptions \/ RotateWrites \/ RemoveEntry
       PROVE FALSE
  <2>1. requests' = requests
    BY <1>11 DEF Start, StartDies, WindowCloses, SetOptions, RotateWrites, RemoveEntry, net
  <2>2. QED BY <2>1
<1>12. ASSUME NEW f \in Flows, FlowStarts(f) \/ FlowHears(f) \/ FlowTimesOut(f) \/ FlowEnds(f)
       PROVE FALSE
  <2>1. ASSUME NEW n, NEW t, Sends(f, n, t) PROVE requests \subseteq requests'
    BY <2>1 DEF Sends
  <2>2. requests \subseteq requests'
    <3>1. CASE FlowStarts(f) BY <2>1, <3>1 DEF FlowStarts
    <3>2. CASE FlowHears(f) BY <2>1, <3>2 DEF FlowHears
    <3>3. CASE FlowTimesOut(f) BY <2>1, <3>3 DEF FlowTimesOut
    <3>4. CASE FlowEnds(f) BY <3>4 DEF FlowEnds, net
    <3>5. QED BY <1>12, <3>1, <3>2, <3>3, <3>4
  <2>3. QED BY <2>2
<1>13. QED
  BY <1>3, <1>4, <1>5, <1>6, <1>7, <1>8, <1>9, <1>10, <1>11, <1>12 DEF Next

(* bootstrap: a token is served once in a run of the node, and once between *)
(* two resets of the markers if its marker could be written; once claimed   *)
(* it is not the token of the API again, not even after a restart; and      *)
(* while the node that served it runs, every claim with it that comes after *)
(* an answered one gets the same answer, never a refusal.                   *)
THEOREM HandedOver == Spec => HandedOverOnce
<1>1. Spec => []IInv BY InitIInv, NextKeeps, PTL DEF Spec
<1>2. IInv /\ [Next]_vars => [ServedOnce' /\ RetriesAgree]_vars
  <2>1. IInv' => ServedOnce' BY IInvImplies, PTL
  <2>2. QED BY <2>1, NextKeeps, RepeatsAlike
<1>3. QED BY <1>1, <1>2, PTL DEF Spec, HandedOverOnce
=============================================================================
