-------------------------- MODULE FileService_proofs -------------------------
(***************************************************************************)
(* What lies in the data directory was shared, and the last writer that    *)
(* met no other stands, for any number of requests, users and assets and   *)
(* any number of crashes and failures.  Whoever meets no writer: a         *)
(* decryption succeeds, a delete removes what its user owns, and an update *)
(* keeps the creation time.  And the types of the file service.            *)
(***************************************************************************)
EXTENDS FileService, TLAPS

TxFields  == {"stage", "key", "blind", "read", "write", "answer"}
ReqFields == {"pc", "op", "id", "user", "key", "at", "got", "result", "alone", "after"}

Puts == {"encrypt", "update"}

Shape ==
  /\ DOMAIN tx = Requests /\ \A r \in Requests : DOMAIN tx[r] = TxFields
  /\ DOMAIN req = Requests /\ \A r \in Requests : DOMAIN req[r] = ReqFields
  /\ DOMAIN file = Ids

\* The transaction r was endorsed as this request's put.
Shares(r, id, key) ==
  /\ tx[r].stage \notin {"idle", "refused"}
  /\ tx[r].key = id
  /\ tx[r].write.body.put = r /\ tx[r].write.body.key = key

\* The same in the next state, of an id and a key of this one.
SharesNext(r, id, key) ==
  /\ tx'[r].stage \notin {"idle", "refused"}
  /\ tx'[r].key = id
  /\ tx'[r].write.body.put = r /\ tx'[r].write.body.key = key

\* Only puts come to the file, and only after their transaction has committed.
RequestInv ==
  \A r \in Requests :
    /\ Active(r) => req[r].id \in Ids
    /\ req[r].pc \in {"draw", "created", "truncate", "fill"} => req[r].op \in Puts
    /\ req[r].pc \in {"submit", "wait"} => req[r].op \in Writers
    /\ req[r].pc \in {"wait", "truncate", "fill"} /\ req[r].op \in Puts
         => Shares(r, req[r].id, req[r].key)
    /\ req[r].pc \in {"truncate", "fill"} => tx[r].stage = "committed"

FilesInv ==
  \A id \in Ids :
    file[id].state = "whole" =>
      /\ file[id].put \in Requests
      /\ tx[file[id].put].stage = "committed"
      /\ Shares(file[id].put, id, file[id].key)

FileInv == Shape /\ RequestInv /\ FilesInv

-----------------------------------------------------------------------------
(***************************************************************************)
(* The ledger, as the file service sees it.                                *)
(***************************************************************************)

\* What has been endorsed stays as it was, and what has committed stays so.
CallsKept ==
  /\ DOMAIN tx' = Requests /\ \A r \in Requests : DOMAIN tx'[r] = TxFields
  /\ \A r \in Requests : tx[r].stage \notin {"idle", "refused"} =>
       /\ tx'[r].stage \notin {"idle", "refused"}
       /\ tx'[r].key = tx[r].key /\ tx'[r].write = tx[r].write
  /\ \A r \in Requests : tx[r].stage = "committed" => tx'[r].stage = "committed"

LEMMA LedgerKeepsCalls ==
  ASSUME Shape, NEW r \in Requests,
         \/ Ledger!Commit(r) \/ Ledger!Invalidate(r) \/ Ledger!Drop(r)
         \/ Ledger!Answer(r) \/ Ledger!GiveUp(r) \/ Ledger!Refuse(r)
  PROVE  CallsKept
<1>1. CASE Ledger!Commit(r)
  BY <1>1 DEF Ledger!Commit, Shape, CallsKept, TxFields
<1>2. CASE Ledger!Invalidate(r) \/ Ledger!Drop(r)
  BY <1>2 DEF Ledger!Invalidate, Ledger!Drop, Shape, CallsKept, TxFields
<1>3. CASE Ledger!Answer(r) \/ Ledger!GiveUp(r)
  BY <1>3 DEF Ledger!Answer, Ledger!GiveUp, Shape, CallsKept, TxFields
<1>4. CASE Ledger!Refuse(r)
  BY <1>4 DEF Ledger!Refuse, Shape, CallsKept, TxFields
<1>5. QED
  BY <1>1, <1>2, <1>3, <1>4

LEMMA EndorsementKeepsCalls ==
  ASSUME Shape, NEW r \in Requests, NEW k, NEW blind, NEW asset,
         Ledger!Simulated(r, k, blind, asset)
  PROVE  CallsKept /\ tx'[r].key = k /\ tx'[r].write = asset /\ tx'[r].stage = "endorsed"
BY DEF Ledger!Simulated, Shape, CallsKept, TxFields

\* While nobody touches the directory, the files stay what the ledger accepted.
LEMMA FilesStay ==
  ASSUME FileInv, CallsKept, file' = file
  PROVE  FilesInv'
BY DEF FileInv, FilesInv, Shares, CallsKept

-----------------------------------------------------------------------------
(***************************************************************************)
(* The invariant is kept.                                                  *)
(***************************************************************************)
LEMMA FileInvInit == Init => FileInv
BY DEF Init, Ledger!Init, Ledger!Unused, FileInv, Shape, RequestInv, FilesInv, NewRequest, NoFile,
       Active, TxFields, ReqFields

\* What a step of one request must keep of the others.
LEMMA OthersKept ==
  ASSUME FileInv, CallsKept, NEW r \in Requests, NEW q,
         req' = [req EXCEPT ![r] = q],
         DOMAIN q = ReqFields,
         q.pc \notin {"idle", "done"} => q.id \in Ids,
         q.pc \in {"draw", "created", "truncate", "fill"} => q.op \in Puts,
         q.pc \in {"submit", "wait"} => q.op \in Writers,
         q.pc \in {"wait", "truncate", "fill"} /\ q.op \in Puts => SharesNext(r, q.id, q.key),
         q.pc \in {"truncate", "fill"} => tx'[r].stage = "committed"
  PROVE  /\ RequestInv'
         /\ DOMAIN req' = Requests /\ \A s \in Requests : DOMAIN req'[s] = ReqFields
<1>1. DOMAIN req' = Requests /\ req'[r] = q /\ \A s \in Requests \ {r} : req'[s] = req[s]
  BY DEF FileInv, Shape
<1>2. ASSUME NEW s \in Requests \ {r}, NEW id, NEW key, Shares(s, id, key)
      PROVE  SharesNext(s, id, key)
  BY <1>2 DEF Shares, SharesNext, CallsKept
<1>3. RequestInv'
  <2>1. \A s \in Requests : \A id, key : SharesNext(s, id, key) <=>
          /\ tx'[s].stage \notin {"idle", "refused"}
          /\ tx'[s].key = id
          /\ tx'[s].write.body.put = s /\ tx'[s].write.body.key = key
    BY DEF SharesNext
  <2>2. QED
    BY <1>1, <1>2, <2>1 DEF FileInv, RequestInv, CallsKept, Active, Shares
<1>4. QED
  BY <1>1, <1>3 DEF FileInv, Shape

\* Starting a request, which touches neither ledger nor files.
LEMMA BeginKeepsInv ==
  ASSUME FileInv, NEW r \in Requests, NEW u, NEW id \in Ids, NEW op, NEW pc,
         Begin(r, u, id, op, pc), tx' = tx, file' = file,
         \/ pc = "draw" /\ op \in Puts
         \/ pc = "submit" /\ op \in Writers
         \/ pc = "load"
  PROVE  FileInv'
<1> DEFINE q == [NewRequest(id, u) EXCEPT !.pc = pc, !.op = op,
                   !.key = IF op = "decrypt" THEN world[id].body.key ELSE 0,
                   !.alone = (Unsettled(id) = {}), !.after = last[id]]
<1>1. CallsKept
  BY DEF FileInv, Shape, CallsKept
<1>2. DOMAIN q = ReqFields /\ q.id = id /\ q.pc = pc /\ q.op = op
  BY DEF NewRequest, ReqFields
<1>3. req' = [req EXCEPT ![r] = q]
  BY DEF Begin
<1> HIDE DEF q
<1>4. RequestInv' /\ DOMAIN req' = Requests /\ \A s \in Requests : DOMAIN req'[s] = ReqFields
  BY <1>1, <1>2, <1>3, OthersKept
<1>5. QED
  BY <1>1, <1>4, FilesStay DEF FileInv, Shape, CallsKept

LEMMA StartKeepsInv ==
  ASSUME FileInv, NEW r \in Requests, Start(r)
  PROVE  FileInv'
<1>1. PICK u \in Users, id \in Ids :
        \/ StartEncrypt(r, u, id) \/ StartUpdate(r, u, id)
        \/ StartDelete(r, u, id) \/ StartDecrypt(r, u, id)
  BY DEF Start
<1>2. CASE StartEncrypt(r, u, id)
  BY <1>2, BeginKeepsInv DEF StartEncrypt, Puts
<1>3. CASE StartUpdate(r, u, id)
  BY <1>3, BeginKeepsInv DEF StartUpdate, Puts
<1>4. CASE StartDelete(r, u, id)
  BY <1>4, BeginKeepsInv DEF StartDelete, Writers
<1>5. CASE StartDecrypt(r, u, id)
  BY <1>5, BeginKeepsInv DEF StartDecrypt
<1>6. QED
  BY <1>1, <1>2, <1>3, <1>4, <1>5

\* Steps of a request that change its own state and perhaps the ledger's.
LEMMA QuietStepKeepsInv ==
  ASSUME FileInv, NEW r \in Requests,
         \/ DrawSecret(r) \/ KeepCreatedAt(r) \/ QueryFails(r) \/ SubmitFails(r)
         \/ WriteFails(r) \/ LoadCiphertextOrg(r) \/ OpenFile(r)
  PROVE  FileInv'
<1>1. CallsKept /\ file' = file
  <2>1. CASE SubmitFails(r)
    BY <2>1, LedgerKeepsCalls DEF SubmitFails, FileInv
  <2>2. CASE ~SubmitFails(r)
    BY <2>2 DEF DrawSecret, KeepCreatedAt, QueryFails, WriteFails, LoadCiphertextOrg, OpenFile,
                FileInv, Shape, CallsKept
  <2>3. QED
    BY <2>1, <2>2
<1>2. CASE DrawSecret(r)
  <2> DEFINE q == [req[r] EXCEPT !.key = draws, !.at = r,
                     !.pc = IF req[r].op = "update" THEN "created" ELSE "submit"]
  <2>1. req' = [req EXCEPT ![r] = q] /\ req[r].pc = "draw"
    BY <1>2 DEF DrawSecret, FileInv, Shape
  <2>2. /\ DOMAIN q = ReqFields /\ q.id = req[r].id /\ q.op = req[r].op
        /\ q.pc \in {"created", "submit"}
    BY DEF FileInv, Shape, ReqFields
  <2> HIDE DEF q
  <2>3. q.id \in Ids /\ q.op \in Puts
    BY <2>1, <2>2 DEF FileInv, RequestInv, Active
  <2>4. RequestInv' /\ DOMAIN req' = Requests /\ \A s \in Requests : DOMAIN req'[s] = ReqFields
    BY <1>1, <2>1, <2>2, <2>3, OthersKept DEF Puts, Writers
  <2>5. QED
    BY <1>1, <2>4, FilesStay DEF FileInv, Shape, CallsKept
<1>3. CASE KeepCreatedAt(r) \/ QueryFails(r)
  <2>1. \E at : req' = [req EXCEPT ![r] = [req[r] EXCEPT !.pc = "submit", !.at = at]]
    <3>1. CASE KeepCreatedAt(r)
      <4> DEFINE at == IF Exists(req[r].id) THEN world[req[r].id].createdAt ELSE r
      <4>1. req' = [req EXCEPT ![r] = [req[r] EXCEPT !.pc = "submit", !.at = at]]
        BY <3>1 DEF KeepCreatedAt, FileInv, Shape
      <4>2. QED
        BY <4>1
    <3>2. CASE QueryFails(r)
      <4>1. req' = [req EXCEPT ![r] = [req[r] EXCEPT !.pc = "submit", !.at = req[r].at]]
        BY <3>2 DEF QueryFails, Step, FileInv, Shape, ReqFields
      <4>2. QED
        BY <4>1
    <3>3. QED
      BY <1>3, <3>1, <3>2
  <2>2. PICK at : req' = [req EXCEPT ![r] = [req[r] EXCEPT !.pc = "submit", !.at = at]]
    BY <2>1
  <2> DEFINE q == [req[r] EXCEPT !.pc = "submit", !.at = at]
  <2>3. DOMAIN q = ReqFields /\ q.id = req[r].id /\ q.op = req[r].op /\ q.pc = "submit"
    BY DEF FileInv, Shape, ReqFields
  <2>4. req' = [req EXCEPT ![r] = q]
    BY <2>2
  <2> HIDE DEF q
  <2>5. q.id \in Ids /\ q.op \in Writers
    BY <1>3, <2>3 DEF FileInv, RequestInv, Active, Step, QueryFails, KeepCreatedAt, Puts, Writers
  <2>6. RequestInv' /\ DOMAIN req' = Requests /\ \A s \in Requests : DOMAIN req'[s] = ReqFields
    BY <1>1, <2>3, <2>4, <2>5, OthersKept
  <2>7. QED
    BY <1>1, <2>6, FilesStay DEF FileInv, Shape, CallsKept
<1>4. CASE SubmitFails(r) \/ WriteFails(r) \/ LoadCiphertextOrg(r) \/ OpenFile(r)
  <2>1. \E q : /\ req' = [req EXCEPT ![r] = q]
               /\ DOMAIN q = ReqFields /\ q.id = req[r].id /\ q.pc \in {"done", "open"}
               /\ req[r].pc \notin {"idle", "done"}
    <3>1. CASE SubmitFails(r) \/ WriteFails(r)
      <4> DEFINE q == [req[r] EXCEPT !.pc = "done", !.result = "error"]
      <4>1. req' = [req EXCEPT ![r] = q] /\ DOMAIN q = ReqFields /\ q.id = req[r].id /\ q.pc = "done"
        BY <3>1 DEF SubmitFails, WriteFails, Finish, FileInv, Shape, ReqFields
      <4>2. req[r].pc \notin {"idle", "done"}
        BY <3>1 DEF SubmitFails, WriteFails, Finish
      <4>3. QED
        BY <4>1, <4>2
    <3>2. CASE LoadCiphertextOrg(r)
      <4> DEFINE q == [req[r] EXCEPT !.pc = "open"]
      <4>1. req' = [req EXCEPT ![r] = q] /\ DOMAIN q = ReqFields /\ q.id = req[r].id /\ q.pc = "open"
        BY <3>2 DEF LoadCiphertextOrg, Step, FileInv, Shape, ReqFields
      <4>2. req[r].pc \notin {"idle", "done"}
        BY <3>2 DEF LoadCiphertextOrg, Step
      <4>3. QED
        BY <4>1, <4>2
    <3>3. CASE OpenFile(r)
      <4> DEFINE f == file[req[r].id]
                 q == [req[r] EXCEPT !.pc = "done",
                        !.result = IF f.state = "whole" /\ f.key = req[r].key
                                   THEN "ok" ELSE "error",
                        !.got = IF f.state = "whole" /\ f.key = req[r].key
                                THEN f.put ELSE Nil]
      <4>1. req' = [req EXCEPT ![r] = q] /\ DOMAIN q = ReqFields /\ q.id = req[r].id /\ q.pc = "done"
        BY <3>3 DEF OpenFile, FileInv, Shape, ReqFields
      <4>2. req[r].pc \notin {"idle", "done"}
        BY <3>3 DEF OpenFile
      <4>3. QED
        BY <4>1, <4>2
    <3>4. QED
      BY <1>4, <3>1, <3>2, <3>3
  <2>2. PICK q : /\ req' = [req EXCEPT ![r] = q]
                 /\ DOMAIN q = ReqFields /\ q.id = req[r].id /\ q.pc \in {"done", "open"}
                 /\ req[r].pc \notin {"idle", "done"}
    BY <2>1
  <2>3. q.id \in Ids
    BY <2>2 DEF FileInv, RequestInv, Active
  <2>4. RequestInv' /\ DOMAIN req' = Requests /\ \A s \in Requests : DOMAIN req'[s] = ReqFields
    BY <1>1, <2>2, <2>3, OthersKept
  <2>5. QED
    BY <1>1, <2>4, FilesStay DEF FileInv, Shape, CallsKept
<1>5. QED
  BY <1>2, <1>3, <1>4

\* A put is endorsed as the put of its request.
LEMMA SubmitKeepsInv ==
  ASSUME FileInv, NEW r \in Requests, SubmitPut(r) \/ SubmitDelete(r)
  PROVE  FileInv'
<1> DEFINE q == [req[r] EXCEPT !.pc = "wait"]
<1>1. req' = [req EXCEPT ![r] = q] /\ file' = file /\ req[r].pc = "submit"
  BY DEF SubmitPut, SubmitDelete, Step, FileInv, Shape
<1>2. /\ DOMAIN q = ReqFields /\ q.id = req[r].id /\ q.op = req[r].op /\ q.key = req[r].key
      /\ q.pc = "wait"
  BY DEF FileInv, Shape, ReqFields
<1> HIDE DEF q
<1>3. q.id \in Ids /\ q.op \in Writers
  BY <1>1, <1>2 DEF FileInv, RequestInv, Active
<1>4. CallsKept /\ (q.op \in Puts => SharesNext(r, q.id, q.key))
  <2>1. CASE SubmitPut(r)
    <3> DEFINE asset == [version |-> world[req[r].id].version + 1,
                         body |-> [put |-> r, key |-> req[r].key, owner |-> req[r].user],
                         createdAt |-> IF req[r].at = NoTime THEN world[req[r].id].createdAt
                                       ELSE req[r].at,
                         writer |-> r]
    <3>1. Ledger!Simulated(r, req[r].id, FALSE, asset)
      BY <2>1 DEF SubmitPut, Ledger!PutCiphertext
    <3>2. asset.body.put = r /\ asset.body.key = req[r].key
      OBVIOUS
    <3> HIDE DEF asset
    <3>3. CallsKept /\ tx'[r].key = req[r].id /\ tx'[r].write = asset /\ tx'[r].stage = "endorsed"
      BY <3>1, EndorsementKeepsCalls DEF FileInv
    <3>4. QED
      BY <1>2, <3>2, <3>3 DEF SharesNext
  <2>2. CASE SubmitDelete(r)
    <3>1. Ledger!Simulated(r, req[r].id, TRUE, Ledger!Absent)
      BY <2>2 DEF SubmitDelete, Ledger!DeleteCiphertext
    <3>2. CallsKept
      BY <3>1, EndorsementKeepsCalls DEF FileInv
    <3>3. q.op \notin Puts
      BY <1>2, <2>2 DEF SubmitDelete, Puts
    <3>4. QED
      BY <3>2, <3>3
  <2>3. QED
    BY <2>1, <2>2
<1>5. RequestInv' /\ DOMAIN req' = Requests /\ \A s \in Requests : DOMAIN req'[s] = ReqFields
  BY <1>1, <1>2, <1>3, <1>4, OthersKept
<1>6. QED
  BY <1>1, <1>4, <1>5, FilesStay DEF FileInv, Shape, CallsKept

\* A request comes to the file only when the answer says that it has committed.
LEMMA AnswerKeepsInv ==
  ASSUME FileInv, NEW r \in Requests, SubmitReturns(r)
  PROVE  FileInv'
<1>1. CallsKept /\ file' = file /\ req[r].pc = "wait"
  BY LedgerKeepsCalls DEF SubmitReturns, FileInv
<1>2. tx'[r].answer = "ok" => tx'[r].stage = "committed"
  BY DEF SubmitReturns, Ledger!Answer, Ledger!GiveUp, FileInv, Shape, TxFields
<1>3. req[r].id \in Ids /\ req[r].op \in Writers
  BY <1>1 DEF FileInv, RequestInv, Active
<1>4. req[r].op \in Puts => SharesNext(r, req[r].id, req[r].key)
  BY <1>1 DEF FileInv, RequestInv, Shares, SharesNext, CallsKept
<1>5. CASE tx'[r].answer = "ok"
  <2> DEFINE q == [req[r] EXCEPT !.pc = IF req[r].op = "delete" THEN "remove" ELSE "truncate"]
  <2>1. req' = [req EXCEPT ![r] = q]
    BY <1>5 DEF SubmitReturns, Step, FileInv, Shape
  <2>2. /\ DOMAIN q = ReqFields /\ q.id = req[r].id /\ q.op = req[r].op /\ q.key = req[r].key
        /\ q.pc = IF req[r].op = "delete" THEN "remove" ELSE "truncate"
    BY DEF FileInv, Shape, ReqFields
  <2> HIDE DEF q
  <2>3. RequestInv' /\ DOMAIN req' = Requests /\ \A s \in Requests : DOMAIN req'[s] = ReqFields
    BY <1>1, <1>2, <1>3, <1>4, <1>5, <2>1, <2>2, OthersKept DEF Puts, Writers
  <2>4. QED
    BY <1>1, <2>3, FilesStay DEF FileInv, Shape, CallsKept
<1>6. CASE tx'[r].answer # "ok"
  <2> DEFINE q == [req[r] EXCEPT !.pc = "done", !.result = "error"]
  <2>1. req' = [req EXCEPT ![r] = q]
    BY <1>6 DEF SubmitReturns, Finish, FileInv, Shape
  <2>2. DOMAIN q = ReqFields /\ q.pc = "done"
    BY DEF FileInv, Shape, ReqFields
  <2> HIDE DEF q
  <2>3. RequestInv' /\ DOMAIN req' = Requests /\ \A s \in Requests : DOMAIN req'[s] = ReqFields
    BY <1>1, <2>1, <2>2, OthersKept
  <2>4. QED
    BY <1>1, <2>3, FilesStay DEF FileInv, Shape, CallsKept
<1>7. QED
  BY <1>5, <1>6

\* The directory: what is written there was accepted before.
LEMMA FileStepKeepsInv ==
  ASSUME FileInv, NEW r \in Requests, TruncateFile(r) \/ FillFile(r) \/ RemoveFile(r)
  PROVE  FileInv'
<1>1. tx' = tx /\ req[r].pc \in {"truncate", "fill", "remove"}
  BY DEF TruncateFile, FillFile, RemoveFile, Step, Finish
<1>2. CallsKept
  BY <1>1 DEF FileInv, Shape, CallsKept
<1>3. \E q : /\ req' = [req EXCEPT ![r] = q]
             /\ DOMAIN q = ReqFields /\ q.id = req[r].id /\ q.op = req[r].op /\ q.key = req[r].key
             /\ (q.pc = "done" \/ (req[r].pc = "truncate" /\ q.pc = "fill"))
  <2>1. CASE TruncateFile(r)
    <3> DEFINE q == [req[r] EXCEPT !.pc = "fill"]
    <3>1. /\ req' = [req EXCEPT ![r] = q]
          /\ DOMAIN q = ReqFields /\ q.id = req[r].id /\ q.op = req[r].op /\ q.key = req[r].key
          /\ req[r].pc = "truncate" /\ q.pc = "fill"
      BY <2>1 DEF TruncateFile, Step, FileInv, Shape, ReqFields
    <3> HIDE DEF q
    <3>2. QED
      BY <3>1
  <2>2. CASE FillFile(r) \/ RemoveFile(r)
    <3> DEFINE q == [req[r] EXCEPT !.pc = "done", !.result = "ok"]
    <3>1. /\ req' = [req EXCEPT ![r] = q]
          /\ DOMAIN q = ReqFields /\ q.id = req[r].id /\ q.op = req[r].op /\ q.key = req[r].key
          /\ q.pc = "done"
      BY <2>2 DEF FillFile, RemoveFile, Finish, FileInv, Shape, ReqFields
    <3>2. QED
      BY <3>1
  <2>3. QED
    BY <2>1, <2>2
<1>4. PICK q : /\ req' = [req EXCEPT ![r] = q]
               /\ DOMAIN q = ReqFields /\ q.id = req[r].id /\ q.op = req[r].op /\ q.key = req[r].key
               /\ (q.pc = "done" \/ (req[r].pc = "truncate" /\ q.pc = "fill"))
  BY <1>3
<1>5. req[r].id \in Ids
  BY <1>1 DEF FileInv, RequestInv, Active
<1>6. req[r].pc \in {"truncate", "fill"} =>
        /\ req[r].op \in Puts /\ tx[r].stage = "committed"
        /\ Shares(r, req[r].id, req[r].key)
  BY DEF FileInv, RequestInv
<1>7. RequestInv' /\ DOMAIN req' = Requests /\ \A s \in Requests : DOMAIN req'[s] = ReqFields
  <2>1. Shares(r, req[r].id, req[r].key) => SharesNext(r, req[r].id, req[r].key)
    BY <1>1 DEF Shares, SharesNext
  <2>2. q.pc \in {"truncate", "fill"} =>
          tx'[r].stage = "committed" /\ q.op \in Puts /\ SharesNext(r, q.id, q.key)
    BY <1>1, <1>4, <1>6, <2>1
  <2>3. QED
    BY <1>2, <1>4, <1>5, <2>2, OthersKept
<1>8. DOMAIN file' = Ids /\ FilesInv'
  <2>1. \/ file' = file
        \/ file' = [file EXCEPT ![req[r].id] = BrokenFile]
        \/ file' = [file EXCEPT ![req[r].id] = NoFile]
        \/ /\ FillFile(r)
           /\ file' = [file EXCEPT ![req[r].id] =
                         [state |-> "whole", put |-> r, key |-> req[r].key]]
    BY DEF TruncateFile, FillFile, RemoveFile
  <2>2. CASE file' = file
    BY <1>2, <2>2, FilesStay DEF FileInv, Shape
  <2>3. CASE \/ file' = [file EXCEPT ![req[r].id] = BrokenFile]
             \/ file' = [file EXCEPT ![req[r].id] = NoFile]
    BY <1>1, <2>3 DEF FileInv, FilesInv, Shape, Shares, BrokenFile, NoFile
  <2>4. CASE /\ FillFile(r)
             /\ file' = [file EXCEPT ![req[r].id] =
                           [state |-> "whole", put |-> r, key |-> req[r].key]]
    <3>1. tx[r].stage = "committed" /\ Shares(r, req[r].id, req[r].key)
      BY <1>6, <2>4 DEF FillFile, Finish
    <3>2. QED
      BY <1>1, <2>4, <3>1 DEF FileInv, FilesInv, Shape, Shares
  <2>5. QED
    BY <2>1, <2>2, <2>3, <2>4
<1>9. QED
  BY <1>2, <1>7, <1>8 DEF FileInv, Shape, CallsKept

\* A crash ends the requests and leaves ledger and files alone.
LEMMA CrashKeepsInv ==
  ASSUME FileInv, Crash
  PROVE  FileInv'
<1>1. tx' = tx /\ file' = file
  BY DEF Crash
<1>2. CallsKept
  BY <1>1 DEF FileInv, Shape, CallsKept
<1>3. DOMAIN req' = Requests /\ \A s \in Requests : DOMAIN req'[s] = ReqFields
  BY DEF Crash, FileInv, Shape, ReqFields
<1>4. \A s \in Requests : req'[s].pc \in {"idle", "done"}
  BY DEF Crash, FileInv, Shape, ReqFields, Active
<1>5. RequestInv'
  BY <1>4 DEF RequestInv, Active
<1>6. QED
  BY <1>1, <1>2, <1>3, <1>5, FilesStay DEF FileInv, Shape, CallsKept

\* The network commits and refuses transactions while requests wait, or after
\* they have ended.
LEMMA LedgerStepKeepsInv ==
  ASSUME FileInv, NEW r \in Requests, LedgerStep(r)
  PROVE  FileInv'
<1>1. CallsKept /\ req' = req /\ file' = file
  BY LedgerKeepsCalls DEF LedgerStep, FileInv
<1>2. RequestInv'
  BY <1>1 DEF FileInv, RequestInv, Shares, CallsKept, Active
<1>3. QED
  BY <1>1, <1>2, FilesStay DEF FileInv, Shape, CallsKept

-----------------------------------------------------------------------------
\* file_service.go:49-132: the inductive invariant of the puts: a request writes
\* its file only after the ledger has accepted its own ciphertext.
THEOREM FileInvariant == Spec => []FileInv
<1>1. ASSUME FileInv, [Next]_vars
      PROVE  FileInv'
  <2>1. CASE UNCHANGED vars
    BY <1>1, <2>1 DEF vars, FileInv, Shape, RequestInv, FilesInv, Shares, Active
  <2>2. CASE Crash
    BY <1>1, <2>2, CrashKeepsInv
  <2>3. ASSUME NEW r \in Requests,
               Start(r) \/ Continue(r) \/ LedgerStep(r) \/ QueryFails(r) \/ WriteFails(r)
        PROVE  FileInv'
    BY <1>1, <2>3, StartKeepsInv, QuietStepKeepsInv, SubmitKeepsInv, AnswerKeepsInv,
       FileStepKeepsInv, LedgerStepKeepsInv DEF Continue
  <2>4. QED
    BY <1>1, <2>1, <2>2, <2>3 DEF Next
<1>2. QED
  BY <1>1, FileInvInit, PTL DEF Spec

\* file_service.go:49-132: a file holds only content whose ciphertext the ledger
\* has accepted, sealed with the key inside that ciphertext, for any number of
\* requests, crashes and failures.
THEOREM StoredFilesAreCommitted == Spec => []StoredFilesCommitted
<1>1. FileInv => StoredFilesCommitted
  BY DEF FileInv, FilesInv, Shares, StoredFilesCommitted
<1>2. QED
  BY <1>1, FileInvariant, PTL

-----------------------------------------------------------------------------
(***************************************************************************)
(* The last writer stands.                                                 *)
(***************************************************************************)

Sent(r) == tx[r].stage \notin {"idle", "refused"}

StandShape ==
  /\ DOMAIN last = Ids /\ Ids \subseteq DOMAIN world
  /\ \A id \in Ids : world[id].version \in Nat

\* A request sends its transaction once, for its own asset, content and key.
SentInv ==
  \A r \in Requests :
    /\ req[r].pc \in {"idle", "draw", "created", "submit"} => tx[r].stage = "idle"
    /\ req[r].pc = "remove" => req[r].op = "delete"
    /\ req[r].pc \in {"load", "open"} => req[r].op = "decrypt"
    /\ req[r].pc = "remove" => tx[r].stage = "committed"
    /\ Sent(r) =>
         /\ req[r].op \in Writers /\ tx[r].key = req[r].id
         /\ req[r].op = "delete" => tx[r].write.version = 0
         /\ req[r].op \in Puts =>
              /\ tx[r].write.version \in Nat \ {0}
              /\ tx[r].write.body.put = r /\ tx[r].write.body.key = req[r].key

Settled(q, id) ==
  req[q].id = id /\ req[q].op \in Writers => ~Active(q) /\ tx[q].stage # "endorsed"

\* Where the last writer p has met no other, everybody else has settled, and its
\* transaction and its file are the last ones.
Stands(p, id) ==
  /\ \A q \in Requests \ {p} : Settled(q, id)
  /\ tx[p].stage = "committed" => world[id] = tx[p].write
  /\ req[p].pc = "fill" => file[id].state # "whole"
  /\ req[p].result = "ok" =>
       /\ tx[p].stage = "committed"
       /\ req[p].op \in Puts =>
            file[id] = [state |-> "whole", put |-> p, key |-> req[p].key]

StandInv ==
  \A id \in Ids :
    last[id] # Nil =>
      /\ last[id] \in Requests
      /\ req[last[id]].pc # "idle" /\ req[last[id]].op \in Writers /\ req[last[id]].id = id
      /\ req[last[id]].pc # "done" => req[last[id]].result = "none"
      /\ req[last[id]].alone => Stands(last[id], id)

WriterInv == FileInv /\ StandShape /\ SentInv /\ StandInv

LEMMA WriterInvInit == Init => WriterInv
<1>1. Init => StandShape /\ SentInv /\ StandInv
  BY DEF Init, Ledger!Init, Ledger!Unused, Ledger!Keys, Ledger!Absent, NewRequest, StandShape,
         SentInv, StandInv, Sent
<1>2. QED
  BY <1>1, FileInvInit DEF WriterInv

\* One request takes a step: it keeps its asset and its kind, and nobody else's
\* transaction moves.
OwnStep(r, q) ==
  /\ req' = [req EXCEPT ![r] = q] /\ Active(r)
  /\ q.id = req[r].id /\ q.op = req[r].op /\ q.alone = req[r].alone
  /\ last' = last /\ world' = world /\ DOMAIN tx' = Requests
  /\ \A s \in Requests \ {r} : tx'[s] = tx[s]
  /\ tx'[r].stage = "committed" <=> tx[r].stage = "committed"
  /\ tx[r].stage = "committed" => tx'[r].write = tx[r].write
  /\ DOMAIN file' = Ids
  /\ \A id \in Ids : id # req[r].id \/ req[r].op \notin Writers => file'[id] = file[id]

\* What the request must have seen to for SentInv.
SentWell(r, q) ==
  /\ q.pc \in {"idle", "draw", "created", "submit"} => tx'[r].stage = "idle"
  /\ q.pc = "remove" => q.op = "delete"
  /\ q.pc \in {"load", "open"} => q.op = "decrypt"
  /\ q.pc = "remove" => tx'[r].stage = "committed"
  /\ tx'[r].stage \notin {"idle", "refused"} =>
       /\ q.op \in Writers /\ tx'[r].key = q.id
       /\ q.op = "delete" => tx'[r].write.version = 0
       /\ q.op \in Puts =>
            /\ tx'[r].write.version \in Nat \ {0}
            /\ tx'[r].write.body.put = r /\ tx'[r].write.body.key = q.key

\* What it must have seen to as an undisturbed last writer.
StandsWell(r, q) ==
  /\ q.pc # "idle"
  /\ q.pc # "done" => q.result = req[r].result
  /\ req[r].op \in Writers => (q.pc = "fill" => file'[req[r].id].state # "whole")
  /\ req[r].op \in Writers /\ q.result = "ok" =>
       /\ tx'[r].stage = "committed"
       /\ req[r].op \in Puts =>
            file'[req[r].id] = [state |-> "whole", put |-> r, key |-> q.key]

LEMMA SentKept ==
  ASSUME WriterInv, NEW r \in Requests, NEW q,
         req' = [req EXCEPT ![r] = q], \A s \in Requests \ {r} : tx'[s] = tx[s],
         SentWell(r, q)
  PROVE  SentInv'
<1>1. req'[r] = q /\ \A s \in Requests \ {r} : req'[s] = req[s]
  BY DEF WriterInv, FileInv, Shape
<1>2. QED
  BY <1>1 DEF WriterInv, SentInv, SentWell, Sent

LEMMA StandKept ==
  ASSUME WriterInv, NEW r \in Requests, NEW q, OwnStep(r, q),
         last[req[r].id] = r /\ req[r].alone => StandsWell(r, q),
         q.pc # "idle", q.pc # "done" => q.result = req[r].result
  PROVE  StandInv'
<1>1. req'[r] = q /\ \A s \in Requests \ {r} : req'[s] = req[s]
  BY DEF WriterInv, FileInv, Shape, OwnStep
<1> SUFFICES ASSUME NEW id \in Ids, last[id] # Nil
             PROVE  /\ last[id] \in Requests
                    /\ req'[last[id]].pc # "idle" /\ req'[last[id]].op \in Writers
                    /\ req'[last[id]].id = id
                    /\ req'[last[id]].pc # "done" => req'[last[id]].result = "none"
                    /\ req'[last[id]].alone => Stands(last[id], id)'
  BY DEF StandInv, OwnStep
<1>0. PICK p : p = last[id]
  OBVIOUS
<1>2. /\ p \in Requests /\ req[p].pc # "idle" /\ req[p].op \in Writers /\ req[p].id = id
      /\ req[p].pc # "done" => req[p].result = "none"
      /\ req[p].alone => Stands(p, id)
  BY <1>0 DEF WriterInv, StandInv
<1>3. /\ req'[p].pc # "idle" /\ req'[p].op \in Writers /\ req'[p].id = id
      /\ req'[p].pc # "done" => req'[p].result = "none"
      /\ req'[p].alone = req[p].alone
  BY <1>1, <1>2 DEF OwnStep, Active
<1>4. ASSUME req[p].alone
      PROVE  Stands(p, id)'
  <2>1. Stands(p, id)
    BY <1>2, <1>4
  <2>2. \A s \in Requests \ {p} : Settled(s, id)'
    BY <1>1, <2>1 DEF Stands, Settled, OwnStep, Active
  <2>3. CASE p = r
    <3>1. StandsWell(r, q)
      BY <1>0, <1>2, <1>4, <2>3
    <3>2. QED
      BY <1>1, <1>2, <2>1, <2>2, <2>3, <3>1 DEF Stands, StandsWell, OwnStep
  <2>4. CASE p # r
    <3>1. id # req[r].id \/ req[r].op \notin Writers
      BY <1>2, <2>1, <2>4 DEF Stands, Settled, OwnStep
    <3>2. file'[id] = file[id]
      BY <3>1 DEF OwnStep
    <3>3. QED
      BY <1>1, <1>2, <2>1, <2>2, <2>4, <3>2 DEF Stands, OwnStep
  <2>5. QED
    BY <2>3, <2>4
<1>5. QED
  BY <1>0, <1>2, <1>3, <1>4 DEF OwnStep

LEMMA OwnStepKeepsWriterInv ==
  ASSUME WriterInv, FileInv', NEW r \in Requests, NEW q, OwnStep(r, q), SentWell(r, q),
         last[req[r].id] = r /\ req[r].alone => StandsWell(r, q),
         q.pc # "idle", q.pc # "done" => q.result = req[r].result
  PROVE  WriterInv'
<1>1. SentInv'
  BY SentKept DEF OwnStep
<1>2. StandInv'
  BY StandKept
<1>3. StandShape'
  BY DEF OwnStep, WriterInv, StandShape
<1>4. QED
  BY <1>1, <1>2, <1>3 DEF WriterInv

\* A writer that starts is the last one from then on, and undisturbed only if
\* all the others have settled.
LEMMA BeginKeepsWriterInv ==
  ASSUME WriterInv, FileInv', NEW r \in Requests, NEW u, NEW id \in Ids, NEW op, NEW pc,
         Begin(r, u, id, op, pc), tx' = tx, file' = file, world' = world,
         \/ pc = "draw" /\ op \in Puts
         \/ pc = "submit" /\ op = "delete"
         \/ pc = "load" /\ op = "decrypt"
  PROVE  WriterInv'
<1> DEFINE q == [NewRequest(id, u) EXCEPT !.pc = pc, !.op = op,
                   !.key = IF op = "decrypt" THEN world[id].body.key ELSE 0,
                   !.alone = (Unsettled(id) = {}), !.after = last[id]]
<1>1. /\ q.id = id /\ q.pc = pc /\ q.op = op /\ q.result = "none"
      /\ q.alone = (Unsettled(id) = {})
  BY DEF NewRequest
<1>2. req' = [req EXCEPT ![r] = q] /\ req[r].pc = "idle"
  BY DEF Begin
<1> HIDE DEF q
<1>3. req'[r] = q /\ \A s \in Requests \ {r} : req'[s] = req[s]
  BY <1>2 DEF WriterInv, FileInv, Shape
<1>4. tx[r].stage = "idle"
  BY <1>2 DEF WriterInv, SentInv
<1>5. SentInv'
  <2>1. SentWell(r, q)
    BY <1>1, <1>4 DEF SentWell, Puts
  <2>2. QED
    BY <1>2, <2>1, SentKept
<1>6. \A i \in Ids : last[i] # Nil => last[i] # r
  BY <1>2 DEF WriterInv, StandInv
<1>7. ASSUME NEW i \in Ids, last[i] # Nil, last'[i] = last[i],
             op \notin Writers \/ id # i
      PROVE  /\ last[i] \in Requests /\ req'[last[i]].pc # "idle"
             /\ req'[last[i]].op \in Writers /\ req'[last[i]].id = i
             /\ req'[last[i]].pc # "done" => req'[last[i]].result = "none"
             /\ req'[last[i]].alone => Stands(last[i], i)'
  <2>1. PICK p \in Requests : p = last[i] /\ p # r
    BY <1>6, <1>7 DEF WriterInv, StandInv
  <2>2. req'[p] = req[p]
    BY <1>3, <2>1
  <2>3. ASSUME req[p].alone PROVE Stands(p, i)'
    <3>1. Stands(p, i)
      BY <1>7, <2>1, <2>3 DEF WriterInv, StandInv
    <3>2. \A s \in Requests \ {p} : Settled(s, i)'
      BY <1>1, <1>3, <1>7, <3>1 DEF Stands, Settled, Active
    <3>3. QED
      BY <2>2, <3>1, <3>2 DEF Stands
  <2>4. QED
    BY <1>7, <2>1, <2>2, <2>3 DEF WriterInv, StandInv
<1>8. ASSUME op \in Writers
      PROVE  /\ req'[r].pc # "idle" /\ req'[r].op \in Writers /\ req'[r].id = id
             /\ req'[r].pc # "done" => req'[r].result = "none"
             /\ req'[r].alone => Stands(r, id)'
  <2>1. ASSUME req'[r].alone PROVE Stands(r, id)'
    <3>1. Unsettled(id) = {}
      BY <1>1, <1>3, <2>1
    <3>2. \A s \in Requests \ {r} : Settled(s, id)'
      BY <1>3, <3>1 DEF Unsettled, Settled, Active
    <3>3. QED
      BY <1>1, <1>3, <1>4, <3>2 DEF Stands
  <2>2. QED
    BY <1>1, <1>3, <1>8, <2>1
<1>9. CASE op \in Writers
  <2>1. /\ last' = [last EXCEPT ![id] = r] /\ last'[id] = r
        /\ \A i \in Ids \ {id} : last'[i] = last[i]
    BY <1>9 DEF Begin, WriterInv, StandShape
  <2>2. StandInv'
    BY <1>7, <1>8, <1>9, <2>1 DEF StandInv
  <2>3. StandShape'
    BY <2>1 DEF WriterInv, StandShape
  <2>4. QED
    BY <1>5, <2>2, <2>3 DEF WriterInv
<1>10. CASE op \notin Writers
  <2>1. last' = last
    BY <1>10 DEF Begin
  <2>2. StandInv'
    BY <1>7, <1>10, <2>1 DEF StandInv
  <2>3. StandShape'
    BY <2>1 DEF WriterInv, StandShape
  <2>4. QED
    BY <1>5, <2>2, <2>3 DEF WriterInv
<1>11. QED
  BY <1>9, <1>10

LEMMA StartKeepsWriterInv ==
  ASSUME WriterInv, FileInv', NEW r \in Requests, Start(r)
  PROVE  WriterInv'
<1>1. PICK u \in Users, id \in Ids :
        \/ StartEncrypt(r, u, id) \/ StartUpdate(r, u, id)
        \/ StartDelete(r, u, id) \/ StartDecrypt(r, u, id)
  BY DEF Start
<1>2. CASE StartEncrypt(r, u, id)
  BY <1>2, BeginKeepsWriterInv DEF StartEncrypt, Puts
<1>3. CASE StartUpdate(r, u, id)
  BY <1>3, BeginKeepsWriterInv DEF StartUpdate, Puts
<1>4. CASE StartDelete(r, u, id)
  BY <1>4, BeginKeepsWriterInv DEF StartDelete
<1>5. CASE StartDecrypt(r, u, id)
  BY <1>5, BeginKeepsWriterInv DEF StartDecrypt
<1>6. QED
  BY <1>1, <1>2, <1>3, <1>4, <1>5

\* Drawing the secret and looking up the creation time come before the
\* transaction.
LEMMA PrepareKeepsWriterInv ==
  ASSUME WriterInv, FileInv', NEW r \in Requests,
         DrawSecret(r) \/ KeepCreatedAt(r) \/ QueryFails(r)
  PROVE  WriterInv'
<1>1. /\ tx' = tx /\ world' = world /\ file' = file /\ last' = last
      /\ req[r].pc \in {"draw", "created"}
  BY DEF DrawSecret, KeepCreatedAt, QueryFails, Step
<1>2. /\ req[r].op \in Puts /\ tx[r].stage = "idle"
      /\ DOMAIN req = Requests /\ DOMAIN req[r] = ReqFields
      /\ DOMAIN tx = Requests /\ DOMAIN file = Ids
  BY <1>1 DEF WriterInv, FileInv, RequestInv, SentInv, Shape
<1>3. \E q : /\ req' = [req EXCEPT ![r] = q]
             /\ q.id = req[r].id /\ q.op = req[r].op /\ q.alone = req[r].alone
             /\ q.result = req[r].result /\ q.pc \in {"created", "submit"}
  <2>1. CASE DrawSecret(r)
    <3> DEFINE q == [req[r] EXCEPT !.key = draws, !.at = r,
                       !.pc = IF req[r].op = "update" THEN "created" ELSE "submit"]
    <3>1. /\ req' = [req EXCEPT ![r] = q]
          /\ q.id = req[r].id /\ q.op = req[r].op /\ q.alone = req[r].alone
          /\ q.result = req[r].result /\ q.pc \in {"created", "submit"}
      BY <1>2, <2>1 DEF DrawSecret, ReqFields
    <3> HIDE DEF q
    <3>2. QED
      BY <3>1
  <2>2. CASE KeepCreatedAt(r)
    <3> DEFINE q == [req[r] EXCEPT !.pc = "submit",
                       !.at = IF Exists(req[r].id) THEN world[req[r].id].createdAt ELSE r]
    <3>1. /\ req' = [req EXCEPT ![r] = q]
          /\ q.id = req[r].id /\ q.op = req[r].op /\ q.alone = req[r].alone
          /\ q.result = req[r].result /\ q.pc \in {"created", "submit"}
      BY <1>2, <2>2 DEF KeepCreatedAt, ReqFields
    <3> HIDE DEF q
    <3>2. QED
      BY <3>1
  <2>3. CASE QueryFails(r)
    <3> DEFINE q == [req[r] EXCEPT !.pc = "submit"]
    <3>1. /\ req' = [req EXCEPT ![r] = q]
          /\ q.id = req[r].id /\ q.op = req[r].op /\ q.alone = req[r].alone
          /\ q.result = req[r].result /\ q.pc \in {"created", "submit"}
      BY <1>2, <2>3 DEF QueryFails, Step, ReqFields
    <3> HIDE DEF q
    <3>2. QED
      BY <3>1
  <2>4. QED
    BY <2>1, <2>2, <2>3
<1>4. PICK q : /\ req' = [req EXCEPT ![r] = q]
               /\ q.id = req[r].id /\ q.op = req[r].op /\ q.alone = req[r].alone
               /\ q.result = req[r].result /\ q.pc \in {"created", "submit"}
  BY <1>3
<1>5. OwnStep(r, q) /\ SentWell(r, q)
  BY <1>1, <1>2, <1>4 DEF OwnStep, SentWell, Active
<1>6. ASSUME last[req[r].id] = r PROVE StandsWell(r, q)
  <2>1. req[r].id \in Ids
    BY <1>1 DEF WriterInv, FileInv, RequestInv, Active
  <2>2. req[r].result = "none"
    BY <1>1, <1>6, <2>1, FileServiceAssumption DEF WriterInv, StandInv
  <2>3. QED
    BY <1>4, <2>2 DEF StandsWell
<1>7. QED
  BY <1>4, <1>5, <1>6, OwnStepKeepsWriterInv

\* After the transaction, and in a decryption, only the program counter, the
\* result and what was read change.
Proceeds(r, q) ==
  /\ req' = [req EXCEPT ![r] = q]
  /\ q.id = req[r].id /\ q.op = req[r].op /\ q.alone = req[r].alone /\ q.key = req[r].key
  /\ q.pc \in {"fill", "open", "done"}
  /\ q.pc # "done" => q.result = req[r].result

LEMMA ProceedKeepsWriterInv ==
  ASSUME WriterInv, FileInv', NEW r \in Requests, NEW q, Proceeds(r, q), Active(r),
         tx' = tx, world' = world, last' = last,
         \A id \in Ids : id # req[r].id \/ req[r].op \notin Writers => file'[id] = file[id],
         q.pc = "open" => req[r].op = "decrypt",
         last[req[r].id] = r /\ req[r].alone => StandsWell(r, q)
  PROVE  WriterInv'
<1>1. OwnStep(r, q)
  BY DEF Proceeds, OwnStep, WriterInv, FileInv, Shape
<1>2. SentWell(r, q)
  BY DEF Proceeds, SentWell, WriterInv, SentInv, Sent
<1>3. QED
  BY <1>1, <1>2, OwnStepKeepsWriterInv DEF Proceeds

\* A decryption is nobody's last writer.
LEMMA DecryptKeepsWriterInv ==
  ASSUME WriterInv, FileInv', NEW r \in Requests, LoadCiphertextOrg(r) \/ OpenFile(r)
  PROVE  WriterInv'
<1>1. /\ tx' = tx /\ world' = world /\ file' = file /\ last' = last
      /\ Active(r) /\ req[r].pc \in {"load", "open"}
  BY DEF LoadCiphertextOrg, OpenFile, Step, Active
<1>2. req[r].op = "decrypt" /\ req[r].id \in Ids /\ DOMAIN req = Requests /\ DOMAIN req[r] = ReqFields
  BY <1>1 DEF WriterInv, SentInv, FileInv, RequestInv, Shape
<1>3. last[req[r].id] # r
  BY <1>2, FileServiceAssumption DEF WriterInv, StandInv, Writers
<1>4. \E q : Proceeds(r, q)
  <2>1. CASE LoadCiphertextOrg(r)
    <3> DEFINE q == [req[r] EXCEPT !.pc = "open"]
    <3>1. Proceeds(r, q)
      BY <1>2, <2>1 DEF LoadCiphertextOrg, Step, Proceeds, ReqFields
    <3> HIDE DEF q
    <3>2. QED
      BY <3>1
  <2>2. CASE OpenFile(r)
    <3> DEFINE f == file[req[r].id]
               q == [req[r] EXCEPT !.pc = "done",
                      !.result = IF f.state = "whole" /\ f.key = req[r].key
                                 THEN "ok" ELSE "error",
                      !.got = IF f.state = "whole" /\ f.key = req[r].key
                              THEN f.put ELSE Nil]
    <3>1. Proceeds(r, q)
      BY <1>2, <2>2 DEF OpenFile, Proceeds, ReqFields
    <3> HIDE DEF q
    <3>2. QED
      BY <3>1
  <2>3. QED
    BY <2>1, <2>2
<1>5. PICK q : Proceeds(r, q)
  BY <1>4
<1>6. QED
  BY <1>1, <1>2, <1>3, <1>5, ProceedKeepsWriterInv

\* The directory.  An undisturbed writer finds its file as it truncated it, so
\* that what it writes is whole.
LEMMA FileStepKeepsWriterInv ==
  ASSUME WriterInv, FileInv', NEW r \in Requests,
         TruncateFile(r) \/ FillFile(r) \/ RemoveFile(r) \/ WriteFails(r)
  PROVE  WriterInv'
<1>1. /\ tx' = tx /\ world' = world /\ last' = last
      /\ Active(r) /\ req[r].pc \in {"truncate", "fill", "remove"}
      /\ DOMAIN req = Requests /\ DOMAIN req[r] = ReqFields /\ DOMAIN file = Ids
  BY DEF TruncateFile, FillFile, RemoveFile, WriteFails, Step, Finish, Active, WriterInv, FileInv, Shape
<1>2. /\ req[r].id \in Ids /\ tx[r].stage = "committed"
      /\ req[r].pc \in {"truncate", "fill"} => req[r].op \in Puts
      /\ req[r].pc = "remove" => req[r].op = "delete"
  BY <1>1 DEF WriterInv, FileInv, RequestInv, SentInv
<1>3. CASE TruncateFile(r)
  <2> DEFINE q == [req[r] EXCEPT !.pc = "fill"]
  <2>1. Proceeds(r, q) /\ q.pc = "fill" /\ q.result = req[r].result
    BY <1>1, <1>3 DEF TruncateFile, Step, Proceeds, ReqFields
  <2> HIDE DEF q
  <2>2. /\ file'[req[r].id] = BrokenFile
        /\ \A id \in Ids : id # req[r].id => file'[id] = file[id]
    BY <1>1, <1>2, <1>3 DEF TruncateFile
  <2>3. req[r].pc = "truncate"
    BY <1>3 DEF TruncateFile, Step
  <2>4. ASSUME last[req[r].id] = r PROVE StandsWell(r, q)
    <3>1. req[r].result = "none"
      BY <1>2, <2>3, <2>4, FileServiceAssumption DEF WriterInv, StandInv
    <3>2. QED
      BY <2>1, <2>2, <3>1 DEF StandsWell, BrokenFile
  <2>5. QED
    BY <1>1, <1>2, <2>1, <2>2, <2>3, <2>4, ProceedKeepsWriterInv DEF Puts, Writers
<1>4. CASE FillFile(r) \/ RemoveFile(r)
  <2> DEFINE q == [req[r] EXCEPT !.pc = "done", !.result = "ok"]
  <2>1. Proceeds(r, q) /\ q.pc = "done" /\ q.key = req[r].key
    BY <1>1, <1>4 DEF FillFile, RemoveFile, Finish, Proceeds, ReqFields
  <2> HIDE DEF q
  <2>2. /\ \A id \in Ids : id # req[r].id => file'[id] = file[id]
        /\ req[r].op \in Writers
    BY <1>1, <1>2, <1>4 DEF FillFile, RemoveFile, Puts, Writers
  <2>3. ASSUME last[req[r].id] = r, req[r].alone PROVE StandsWell(r, q)
    <3>1. CASE RemoveFile(r)
      <4>1. req[r].op \notin Puts
        BY <1>2, <3>1 DEF RemoveFile, Finish, Puts
      <4>2. QED
        BY <1>1, <1>2, <2>1, <4>1 DEF StandsWell
    <3>2. CASE FillFile(r)
      <4>1. req[r].pc = "fill"
        BY <3>2 DEF FillFile, Finish
      <4>2. file[req[r].id].state # "whole"
        <5>1. Stands(r, req[r].id)
          BY <1>2, <2>3, FileServiceAssumption DEF WriterInv, StandInv
        <5>2. QED
          BY <4>1, <5>1 DEF Stands
      <4>3. file'[req[r].id] = [state |-> "whole", put |-> r, key |-> req[r].key]
        BY <1>1, <1>2, <3>2, <4>2 DEF FillFile
      <4>4. QED
        BY <1>1, <1>2, <2>1, <4>3 DEF StandsWell
    <3>3. QED
      BY <1>4, <3>1, <3>2
  <2>4. QED
    BY <1>1, <2>1, <2>2, <2>3, ProceedKeepsWriterInv
<1>5. CASE WriteFails(r)
  <2> DEFINE q == [req[r] EXCEPT !.pc = "done", !.result = "error"]
  <2>1. Proceeds(r, q) /\ q.pc = "done" /\ q.result = "error" /\ file' = file
    BY <1>1, <1>5 DEF WriteFails, Finish, Proceeds, ReqFields
  <2> HIDE DEF q
  <2>2. StandsWell(r, q)
    BY <2>1 DEF StandsWell
  <2>3. QED
    BY <1>1, <2>1, <2>2, ProceedKeepsWriterInv
<1>6. QED
  BY <1>3, <1>4, <1>5

\* The transaction: one of the request's own asset.
LEMMA SubmitKeepsWriterInv ==
  ASSUME WriterInv, FileInv', NEW r \in Requests, SubmitPut(r) \/ SubmitDelete(r)
  PROVE  WriterInv'
<1> DEFINE q == [req[r] EXCEPT !.pc = "wait"]
<1>1. /\ req' = [req EXCEPT ![r] = q] /\ file' = file /\ last' = last
      /\ req[r].pc = "submit" /\ Active(r)
  BY DEF SubmitPut, SubmitDelete, Step, WriterInv, FileInv, Shape, Active
<1>2. /\ q.id = req[r].id /\ q.op = req[r].op /\ q.key = req[r].key /\ q.pc = "wait"
      /\ q.alone = req[r].alone /\ q.result = req[r].result
  BY DEF WriterInv, FileInv, Shape, ReqFields
<1> HIDE DEF q
<1>3. /\ req[r].id \in Ids /\ req[r].op \in Writers /\ tx[r].stage = "idle"
      /\ world[req[r].id].version \in Nat
  BY <1>1 DEF WriterInv, FileInv, RequestInv, SentInv, StandShape, Active
<1>4. /\ world' = world /\ DOMAIN tx' = Requests /\ \A s \in Requests \ {r} : tx'[s] = tx[s]
      /\ tx'[r].stage = "endorsed" /\ tx'[r].key = req[r].id
      /\ req[r].op = "delete" => tx'[r].write.version = 0
      /\ req[r].op \in Puts =>
           /\ tx'[r].write.version \in Nat \ {0}
           /\ tx'[r].write.body.put = r /\ tx'[r].write.body.key = req[r].key
  <2>1. ASSUME NEW blind, NEW asset, Ledger!Simulated(r, req[r].id, blind, asset)
        PROVE  /\ world' = world /\ DOMAIN tx' = Requests
               /\ \A s \in Requests \ {r} : tx'[s] = tx[s]
               /\ tx'[r].stage = "endorsed" /\ tx'[r].key = req[r].id
               /\ tx'[r].write = asset
    BY <2>1 DEF Ledger!Simulated, WriterInv, FileInv, Shape
  <2>2. CASE SubmitPut(r)
    <3> DEFINE asset == [version |-> world[req[r].id].version + 1,
                         body |-> [put |-> r, key |-> req[r].key, owner |-> req[r].user],
                         createdAt |-> IF req[r].at = NoTime THEN world[req[r].id].createdAt
                                       ELSE req[r].at,
                         writer |-> r]
    <3>1. Ledger!Simulated(r, req[r].id, FALSE, asset)
      BY <2>2 DEF SubmitPut, Ledger!PutCiphertext
    <3>2. /\ asset.body.put = r /\ asset.body.key = req[r].key
          /\ asset.version = world[req[r].id].version + 1
      OBVIOUS
    <3>3. req[r].op # "delete"
      BY <2>2 DEF SubmitPut
    <3> HIDE DEF asset
    <3>4. asset.version \in Nat \ {0}
      BY <1>3, <3>2
    <3>5. QED
      BY <2>1, <3>1, <3>2, <3>3, <3>4, ZenonT(60)
  <2>3. CASE SubmitDelete(r)
    <3>1. Ledger!Simulated(r, req[r].id, TRUE, Ledger!Absent)
      BY <2>3 DEF SubmitDelete, Ledger!DeleteCiphertext
    <3>2. req[r].op \notin Puts /\ Ledger!Absent.version = 0
      BY <2>3 DEF SubmitDelete, Puts, Ledger!Absent
    <3>3. QED
      BY <2>1, <3>1, <3>2
  <2>4. QED
    BY <2>2, <2>3
<1>5. OwnStep(r, q) /\ SentWell(r, q)
  <2>1. OwnStep(r, q)
    BY <1>1, <1>2, <1>3, <1>4 DEF OwnStep, WriterInv, FileInv, Shape
  <2>2. SentWell(r, q)
    BY <1>2, <1>3, <1>4 DEF SentWell
  <2>3. QED
    BY <2>1, <2>2
<1>6. ASSUME last[req[r].id] = r PROVE StandsWell(r, q)
  <2>1. req[r].result = "none"
    BY <1>1, <1>3, <1>6, FileServiceAssumption DEF WriterInv, StandInv
  <2>2. QED
    BY <1>2, <2>1 DEF StandsWell
<1>7. QED
  BY <1>2, <1>5, <1>6, OwnStepKeepsWriterInv

LEMMA SubmitFailsKeepsWriterInv ==
  ASSUME WriterInv, FileInv', NEW r \in Requests, SubmitFails(r)
  PROVE  WriterInv'
<1> DEFINE q == [req[r] EXCEPT !.pc = "done", !.result = "error"]
<1>1. /\ req' = [req EXCEPT ![r] = q] /\ file' = file /\ last' = last
      /\ req[r].pc = "submit" /\ Active(r)
  BY DEF SubmitFails, Finish, WriterInv, FileInv, Shape, Active
<1>2. /\ q.id = req[r].id /\ q.op = req[r].op /\ q.alone = req[r].alone
      /\ q.pc = "done" /\ q.result = "error"
  BY DEF WriterInv, FileInv, Shape, ReqFields
<1> HIDE DEF q
<1>3. /\ world' = world /\ DOMAIN tx' = Requests /\ \A s \in Requests \ {r} : tx'[s] = tx[s]
      /\ tx[r].stage = "idle" /\ tx'[r].stage = "refused"
  BY DEF SubmitFails, Ledger!Refuse, WriterInv, FileInv, Shape, TxFields
<1>4. OwnStep(r, q) /\ SentWell(r, q) /\ StandsWell(r, q)
  BY <1>1, <1>2, <1>3 DEF OwnStep, SentWell, StandsWell, WriterInv, FileInv, Shape
<1>5. QED
  BY <1>2, <1>4, OwnStepKeepsWriterInv

LEMMA AnswerKeepsWriterInv ==
  ASSUME WriterInv, FileInv', NEW r \in Requests, SubmitReturns(r)
  PROVE  WriterInv'
<1>1. file' = file /\ last' = last /\ req[r].pc = "wait" /\ Active(r)
  BY DEF SubmitReturns, Active
<1>2. /\ world' = world /\ DOMAIN tx' = Requests /\ \A s \in Requests \ {r} : tx'[s] = tx[s]
      /\ tx'[r].stage = tx[r].stage /\ tx'[r].key = tx[r].key /\ tx'[r].write = tx[r].write
      /\ tx'[r].answer = "ok" => tx[r].stage = "committed"
  BY DEF SubmitReturns, Ledger!Answer, Ledger!GiveUp, WriterInv, FileInv, Shape, TxFields
<1>3. req[r].id \in Ids /\ req[r].op \in Writers
  BY <1>1 DEF WriterInv, FileInv, RequestInv, Active
<1>4. \E q : /\ req' = [req EXCEPT ![r] = q]
             /\ q.id = req[r].id /\ q.op = req[r].op /\ q.alone = req[r].alone /\ q.key = req[r].key
             /\ \/ q.pc = "done" /\ q.result = "error"
                \/ /\ q.pc = (IF req[r].op = "delete" THEN "remove" ELSE "truncate")
                   /\ q.result = req[r].result /\ tx[r].stage = "committed"
  <2>1. CASE tx'[r].answer = "ok"
    <3> DEFINE q == [req[r] EXCEPT !.pc = IF req[r].op = "delete" THEN "remove" ELSE "truncate"]
    <3>1. req' = [req EXCEPT ![r] = q]
      BY <2>1 DEF SubmitReturns, Step, WriterInv, FileInv, Shape
    <3>2. /\ q.id = req[r].id /\ q.op = req[r].op /\ q.alone = req[r].alone /\ q.key = req[r].key
          /\ q.pc = (IF req[r].op = "delete" THEN "remove" ELSE "truncate")
          /\ q.result = req[r].result
      BY DEF WriterInv, FileInv, Shape, ReqFields
    <3> HIDE DEF q
    <3>3. QED
      BY <1>2, <2>1, <3>1, <3>2
  <2>2. CASE tx'[r].answer # "ok"
    <3> DEFINE q == [req[r] EXCEPT !.pc = "done", !.result = "error"]
    <3>1. req' = [req EXCEPT ![r] = q]
      BY <2>2 DEF SubmitReturns, Finish, WriterInv, FileInv, Shape
    <3>2. /\ q.id = req[r].id /\ q.op = req[r].op /\ q.alone = req[r].alone /\ q.key = req[r].key
          /\ q.pc = "done" /\ q.result = "error"
      BY DEF WriterInv, FileInv, Shape, ReqFields
    <3> HIDE DEF q
    <3>3. QED
      BY <3>1, <3>2
  <2>3. QED
    BY <2>1, <2>2
<1>5. PICK q :
        /\ req' = [req EXCEPT ![r] = q]
        /\ q.id = req[r].id /\ q.op = req[r].op /\ q.alone = req[r].alone /\ q.key = req[r].key
        /\ \/ q.pc = "done" /\ q.result = "error"
           \/ /\ q.pc = (IF req[r].op = "delete" THEN "remove" ELSE "truncate")
              /\ q.result = req[r].result /\ tx[r].stage = "committed"
  BY <1>4
<1>6. OwnStep(r, q)
  BY <1>1, <1>2, <1>5 DEF OwnStep, WriterInv, FileInv, Shape
<1>7. SentWell(r, q)
  BY <1>2, <1>3, <1>5 DEF SentWell, WriterInv, SentInv, Sent
<1>8. ASSUME last[req[r].id] = r PROVE StandsWell(r, q)
  <2>1. req[r].result = "none"
    BY <1>1, <1>3, <1>8, FileServiceAssumption DEF WriterInv, StandInv
  <2>2. QED
    BY <1>5, <2>1 DEF StandsWell
<1>9. QED
  BY <1>5, <1>6, <1>7, <1>8, OwnStepKeepsWriterInv

\* The network settles transactions, each once.  One of an asset whose last
\* writer is undisturbed can only be that writer's own.
LEMMA LedgerStepKeepsWriterInv ==
  ASSUME WriterInv, FileInv', NEW r \in Requests, LedgerStep(r)
  PROVE  WriterInv'
<1>1. req' = req /\ file' = file /\ last' = last
  BY DEF LedgerStep
<1>2. /\ tx[r].stage = "endorsed" /\ \A s \in Requests \ {r} : tx'[s] = tx[s]
      /\ tx'[r].stage \in {"committed", "invalid", "dropped"}
      /\ tx'[r].key = tx[r].key /\ tx'[r].write = tx[r].write
      /\ world' = IF tx'[r].stage = "committed"
                  THEN [world EXCEPT ![tx[r].key] = tx[r].write] ELSE world
  <2>1. CASE Ledger!Commit(r)
    BY <2>1 DEF Ledger!Commit, WriterInv, FileInv, Shape, TxFields
  <2>2. CASE Ledger!Invalidate(r) \/ Ledger!Drop(r)
    BY <2>2 DEF Ledger!Invalidate, Ledger!Drop, WriterInv, FileInv, Shape, TxFields
  <2>3. QED
    BY <2>1, <2>2 DEF LedgerStep
<1>3. /\ req[r].op \in Writers /\ tx[r].key = req[r].id /\ tx[r].write.version \in Nat
      /\ req[r].pc \notin {"idle", "draw", "created", "submit", "remove"}
  BY <1>2 DEF WriterInv, SentInv, Sent, Writers, Puts
<1>4. SentInv'
  BY <1>1, <1>2, <1>3 DEF WriterInv, SentInv, Sent
<1>5. StandShape'
  BY <1>1, <1>2, <1>3 DEF WriterInv, StandShape
<1>6. ASSUME NEW id \in Ids, NEW p \in Requests, p = last[id], last[id] # Nil, req[p].alone
      PROVE  Stands(p, id)'
  <2>1. Stands(p, id) /\ req[p].id = id
    BY <1>6 DEF WriterInv, StandInv
  <2>2. \A s \in Requests \ {p} : Settled(s, id)'
    BY <1>1, <1>2, <2>1 DEF Stands, Settled, Active
  <2>3. CASE p = r
    <3>1. id \in DOMAIN world
      BY DEF WriterInv, StandShape
    <3>2. tx'[p].stage = "committed" => world'[id] = tx'[p].write
      BY <1>2, <1>3, <2>1, <2>3, <3>1
    <3>3. req[p].result # "ok"
      BY <1>2, <2>1, <2>3 DEF Stands
    <3>4. QED
      BY <1>1, <2>1, <2>2, <3>2, <3>3 DEF Stands
  <2>4. CASE p # r
    <3>1. tx[r].key # id
      BY <1>2, <1>3, <2>1, <2>4 DEF Stands, Settled
    <3>2. world'[id] = world[id]
      BY <1>2, <3>1
    <3>3. QED
      BY <1>1, <1>2, <2>1, <2>2, <2>4, <3>2 DEF Stands
  <2>5. QED
    BY <2>3, <2>4
<1>7. StandInv'
  BY <1>1, <1>6 DEF WriterInv, StandInv
<1>8. QED
  BY <1>4, <1>5, <1>7 DEF WriterInv

\* A crash ends the requests: what a writer had not finished is no success.
LEMMA CrashKeepsWriterInv ==
  ASSUME WriterInv, FileInv', Crash
  PROVE  WriterInv'
<1>1. tx' = tx /\ world' = world /\ file' = file /\ last' = last
  BY DEF Crash
<1>2. \A s \in Requests :
        /\ req'[s].id = req[s].id /\ req'[s].op = req[s].op
        /\ req'[s].key = req[s].key /\ req'[s].alone = req[s].alone
        /\ \/ ~Active(s) /\ req'[s].pc = req[s].pc /\ req'[s].result = req[s].result
           \/ Active(s) /\ req'[s].pc = "done" /\ req'[s].result = "crashed"
  BY DEF Crash, WriterInv, FileInv, Shape, ReqFields
<1>3. SentInv'
  BY <1>1, <1>2 DEF WriterInv, SentInv, Sent, Active
<1>4. StandShape'
  BY <1>1 DEF WriterInv, StandShape
<1>5. ASSUME NEW id \in Ids, NEW p \in Requests, p = last[id], last[id] # Nil, req[p].alone
      PROVE  Stands(p, id)'
  <2>1. Stands(p, id)
    BY <1>5 DEF WriterInv, StandInv
  <2>2. \A s \in Requests \ {p} : Settled(s, id)'
    BY <1>1, <1>2, <2>1 DEF Stands, Settled, Active
  <2>3. QED
    BY <1>1, <1>2, <2>1, <2>2 DEF Stands, Active
<1>6. StandInv'
  BY <1>1, <1>2, <1>5 DEF WriterInv, StandInv, Active
<1>7. QED
  BY <1>3, <1>4, <1>6 DEF WriterInv

-----------------------------------------------------------------------------
\* file_service.go:49-194: the inductive invariant of the writers: where the
\* last writer of an asset met no other, everybody else has settled, and asset
\* and file are its own as soon as it has written them.
THEOREM WriterInvariant == Spec => []WriterInv
<1>1. ASSUME WriterInv, FileInv', [Next]_vars
      PROVE  WriterInv'
  <2>1. CASE UNCHANGED vars
    BY <1>1, <2>1 DEF vars, WriterInv, StandShape, SentInv, StandInv, Stands, Settled, Sent, Active
  <2>2. CASE Crash
    BY <1>1, <2>2, CrashKeepsWriterInv
  <2>3. ASSUME NEW r \in Requests,
               Start(r) \/ Continue(r) \/ LedgerStep(r) \/ QueryFails(r) \/ WriteFails(r)
        PROVE  WriterInv'
    BY <1>1, <2>3, StartKeepsWriterInv, PrepareKeepsWriterInv, DecryptKeepsWriterInv,
       FileStepKeepsWriterInv, SubmitKeepsWriterInv, SubmitFailsKeepsWriterInv,
       AnswerKeepsWriterInv, LedgerStepKeepsWriterInv DEF Continue
  <2>4. QED
    BY <1>1, <2>1, <2>2, <2>3 DEF Next
<1>2. QED
  BY <1>1, WriterInvInit, FileInvariant, PTL DEF Spec

\* file_service.go:49-194: a success reported by a put or a delete that no other
\* writer of the asset overlapped is the truth about the asset and the file, for
\* any number of requests, and after any earlier crashes, timeouts and races.
THEOREM LastWritersStand == Spec => []LastWriterStands
<1>1. WriterInv => LastWriterStands
  <2> SUFFICES ASSUME WriterInv, NEW id \in Ids, NEW p, p = last[id],
                      p # Nil, req[p].alone, req[p].result = "ok"
               PROVE  IF req[p].op = "delete"
                      THEN ~Exists(id)
                      ELSE /\ Exists(id) /\ world[id].body.put = p
                           /\ file[id] = [state |-> "whole", put |-> p,
                                          key |-> world[id].body.key]
    BY DEF LastWriterStands
  <2>1. p \in Requests /\ req[p].op \in Writers /\ Stands(p, id)
    BY DEF WriterInv, StandInv
  <2>2. world[id] = tx[p].write /\ Sent(p)
    BY <2>1 DEF Stands, Sent
  <2>3. CASE req[p].op = "delete"
    BY <2>1, <2>2, <2>3 DEF WriterInv, SentInv, Exists
  <2>4. CASE req[p].op \in Puts
    <3>1. /\ world[id].version > 0 /\ world[id].body.put = p
          /\ world[id].body.key = req[p].key
      BY <2>1, <2>2, <2>4 DEF WriterInv, SentInv
    <3>2. QED
      BY <2>1, <2>4, <3>1 DEF Stands, Exists, Puts
  <2>5. QED
    BY <2>1, <2>3, <2>4 DEF Writers, Puts
<1>2. QED
  BY <1>1, WriterInvariant, PTL

-----------------------------------------------------------------------------
(***************************************************************************)
(* A decryption that no writer overlaps.                                   *)
(***************************************************************************)

\* No asset without a writer that started.
StartedInv ==
  /\ \A r \in Requests :
       /\ req[r].pc = "idle" => req[r].op = "none"
       /\ req[r].op \in Writers => req[r].id \in Ids /\ last[req[r].id] # Nil
  /\ \A id \in Ids : Exists(id) => last[id] # Nil

\* The decryption r, which began after the last writer p had finished.
Follows(r, p) ==
  /\ req[p].pc = "done"
  /\ req[p].alone /\ req[p].result = "ok" =>
       /\ req[p].op \in Puts /\ req[r].key = req[p].key
       /\ req[r].result \in {"ok", "error"} => req[r].result = "ok" /\ req[r].got = p

DecryptInv ==
  \A r \in Requests :
    req[r].op = "decrypt" =>
      /\ req[r].id \in Ids
      /\ req[r].after \in Requests /\ req[req[r].after].pc # "idle"
      /\ req[r].pc # "done" => req[r].result = "none"
      /\ req[r].alone /\ req[r].after = last[req[r].id] => Follows(r, req[r].after)

ReaderInv == StartedInv /\ DecryptInv

LEMMA ReaderInvInit == Init => ReaderInv
BY DEF Init, Ledger!Init, Ledger!Unused, Ledger!Keys, Ledger!Absent, NewRequest, ReaderInv,
       StartedInv, DecryptInv, Exists, Writers

\* What every step of a request leaves alone.
LEMMA ContinueKeeps ==
  ASSUME WriterInv, NEW r \in Requests, Continue(r) \/ QueryFails(r) \/ WriteFails(r)
  PROVE  /\ Active(r) /\ last' = last /\ world' = world
         /\ \A s \in Requests \ {r} : req'[s] = req[s]
         /\ req'[r].id = req[r].id /\ req'[r].op = req[r].op
         /\ req'[r].alone = req[r].alone /\ req'[r].after = req[r].after
         /\ req'[r].pc # "idle"
         /\ req[r].op = "decrypt" => LoadCiphertextOrg(r) \/ OpenFile(r)
<1> USE DEF WriterInv, FileInv, Shape, ReqFields
<1>1. CASE DrawSecret(r) \/ KeepCreatedAt(r) \/ QueryFails(r)
  <2>1. req[r].op # "decrypt"
    BY <1>1 DEF DrawSecret, KeepCreatedAt, QueryFails, Step, RequestInv, Puts
  <2>2. CASE DrawSecret(r)
    BY <2>1, <2>2 DEF DrawSecret, Active
  <2>3. CASE KeepCreatedAt(r)
    BY <2>1, <2>3 DEF KeepCreatedAt, Active
  <2>4. CASE QueryFails(r)
    BY <2>1, <2>4 DEF QueryFails, Step, Active
  <2>5. QED
    BY <1>1, <2>2, <2>3, <2>4
<1>2. CASE SubmitPut(r) \/ SubmitDelete(r) \/ SubmitFails(r) \/ SubmitReturns(r)
  <2>1. req[r].op # "decrypt" /\ world' = world
    BY <1>2 DEF SubmitPut, SubmitDelete, SubmitFails, SubmitReturns, Step, Finish, RequestInv, Writers,
       Ledger!PutCiphertext, Ledger!DeleteCiphertext, Ledger!Simulated, Ledger!Refuse, Ledger!Answer,
       Ledger!GiveUp
  <2>2. CASE SubmitPut(r) \/ SubmitDelete(r)
    BY <2>1, <2>2 DEF SubmitPut, SubmitDelete, Step, Active
  <2>3. CASE SubmitFails(r)
    BY <2>1, <2>3 DEF SubmitFails, Finish, Active
  <2>4. CASE SubmitReturns(r)
    BY <2>1, <2>4 DEF SubmitReturns, Step, Finish, Active
  <2>5. QED
    BY <1>2, <2>2, <2>3, <2>4
<1>3. CASE TruncateFile(r) \/ FillFile(r) \/ RemoveFile(r) \/ WriteFails(r)
  <2>1. req[r].op # "decrypt"
    BY <1>3 DEF TruncateFile, FillFile, RemoveFile, WriteFails, Step, Finish, RequestInv, SentInv, Puts
  <2>2. CASE TruncateFile(r)
    BY <2>1, <2>2 DEF TruncateFile, Step, Active
  <2>3. CASE FillFile(r) \/ RemoveFile(r) \/ WriteFails(r)
    BY <2>1, <2>3 DEF FillFile, RemoveFile, WriteFails, Finish, Active
  <2>4. QED
    BY <1>3, <2>2, <2>3
<1>4. CASE LoadCiphertextOrg(r)
  BY <1>4 DEF LoadCiphertextOrg, Step, Active
<1>5. CASE OpenFile(r)
  BY <1>5 DEF OpenFile, Active
<1>6. QED
  BY <1>1, <1>2, <1>3, <1>4, <1>5 DEF Continue

\* A step of a request under way.
LEMMA ContinueKeepsReaderInv ==
  ASSUME WriterInv, ReaderInv, NEW r \in Requests,
         Continue(r) \/ QueryFails(r) \/ WriteFails(r)
  PROVE  ReaderInv'
<1>1. /\ Active(r) /\ last' = last /\ world' = world
      /\ \A s \in Requests \ {r} : req'[s] = req[s]
      /\ req'[r].id = req[r].id /\ req'[r].op = req[r].op
      /\ req'[r].alone = req[r].alone /\ req'[r].after = req[r].after
      /\ req'[r].pc # "idle"
      /\ req[r].op = "decrypt" => LoadCiphertextOrg(r) \/ OpenFile(r)
  BY ContinueKeeps
<1>2. StartedInv'
  BY <1>1 DEF ReaderInv, StartedInv, Exists
<1>3. ASSUME req[r].op = "decrypt"
      PROVE  /\ req'[r].key = req[r].key
             /\ \/ req'[r].result = "none" /\ req'[r].pc # "done"
                \/ OpenFile(r)
  <2>1. DOMAIN req = Requests /\ DOMAIN req[r] = ReqFields /\ req[r].result = "none"
    BY <1>1, <1>3 DEF WriterInv, FileInv, Shape, ReaderInv, DecryptInv, Active
  <2>2. CASE LoadCiphertextOrg(r)
    BY <2>1, <2>2 DEF LoadCiphertextOrg, Step, ReqFields
  <2>3. CASE OpenFile(r)
    BY <2>1, <2>3 DEF OpenFile, ReqFields
  <2>4. QED
    BY <1>1, <1>3, <2>2, <2>3
<1>4. ASSUME NEW s \in Requests, NEW p \in Requests, req[s].op = "decrypt", Follows(s, p),
             req[s].alone, req[s].after = p, last[req[s].id] = p
      PROVE  Follows(s, p)'
  <2>1. p # r /\ req'[p] = req[p]
    BY <1>1, <1>4 DEF Follows, Active
  <2>2. CASE s # r
    BY <1>1, <1>4, <2>1, <2>2 DEF Follows
  <2>3. CASE s = r /\ ~OpenFile(r)
    BY <1>3, <1>4, <2>1, <2>3 DEF Follows
  <2>4. CASE s = r /\ OpenFile(r)
    <3>1. ASSUME req[p].alone, req[p].result = "ok"
          PROVE  req'[r].result = "ok" /\ req'[r].got = p
      <4>1. req[p].op \in Puts /\ req[r].key = req[p].key
        BY <1>4, <2>4, <3>1 DEF Follows
      <4>2. req[r].id \in Ids
        BY <1>4, <2>4 DEF ReaderInv, DecryptInv
      <4>3. last[req[r].id] # Nil
        BY <1>4, <2>4, FileServiceAssumption
      <4>4. Stands(p, req[r].id)
        BY <1>4, <2>4, <3>1, <4>2, <4>3 DEF WriterInv, StandInv
      <4>5. file[req[r].id] = [state |-> "whole", put |-> p, key |-> req[r].key]
        BY <3>1, <4>1, <4>4 DEF Stands
      <4>6. QED
        BY <2>4, <4>5 DEF OpenFile, WriterInv, FileInv, Shape, ReqFields
    <3>2. QED
      BY <1>3, <1>4, <2>1, <2>4, <3>1 DEF Follows
  <2>5. QED
    BY <2>2, <2>3, <2>4
<1>5. ASSUME NEW s \in Requests, req[s].op = "decrypt", req'[s].pc # "done"
      PROVE  req'[s].result = "none"
  <2>1. CASE s # r
    BY <1>1, <1>5, <2>1 DEF ReaderInv, DecryptInv
  <2>2. CASE s = r
    <3>1. OpenFile(r) => req'[r].pc = "done"
      BY DEF OpenFile, WriterInv, FileInv, Shape, ReqFields
    <3>2. QED
      BY <1>3, <1>5, <2>2, <3>1
  <2>3. QED
    BY <2>1, <2>2
<1>6. \A s \in Requests :
        /\ req'[s].op = req[s].op /\ req'[s].id = req[s].id
        /\ req'[s].alone = req[s].alone /\ req'[s].after = req[s].after
        /\ req[s].pc # "idle" => req'[s].pc # "idle"
  BY <1>1
<1>7. DecryptInv'
  BY <1>1, <1>4, <1>5, <1>6 DEF ReaderInv, DecryptInv
<1>8. QED
  BY <1>2, <1>7 DEF ReaderInv

LEMMA BeginKeepsReaderInv ==
  ASSUME WriterInv, ReaderInv, NEW r \in Requests, NEW u, NEW id \in Ids, NEW op, NEW pc,
         Begin(r, u, id, op, pc), world' = world, pc \notin {"idle", "done"},
         \/ op \in Writers
         \/ op = "decrypt" /\ Exists(id)
  PROVE  ReaderInv'
<1> DEFINE q == [NewRequest(id, u) EXCEPT !.pc = pc, !.op = op,
                   !.key = IF op = "decrypt" THEN world[id].body.key ELSE 0,
                   !.alone = (Unsettled(id) = {}), !.after = last[id]]
<1>1. /\ q.id = id /\ q.pc = pc /\ q.op = op /\ q.result = "none" /\ q.after = last[id]
      /\ q.alone = (Unsettled(id) = {})
      /\ op = "decrypt" => q.key = world[id].body.key
  BY DEF NewRequest
<1>2. req' = [req EXCEPT ![r] = q] /\ req[r].pc = "idle"
  BY DEF Begin
<1> HIDE DEF q
<1>3. /\ req'[r] = q /\ \A s \in Requests \ {r} : req'[s] = req[s]
      /\ DOMAIN last = Ids
  BY <1>2 DEF WriterInv, FileInv, Shape, StandShape
<1>4. req[r].op = "none"
  BY <1>2 DEF ReaderInv, StartedInv
<1>5. last' = IF op \in Writers THEN [last EXCEPT ![id] = r] ELSE last
  BY DEF Begin
<1>6. /\ \A i \in Ids : last[i] # Nil => last'[i] # Nil
      /\ \A i \in Ids : last'[i] # r => last'[i] = last[i]
      /\ op \in Writers => last'[id] = r
  BY <1>3, <1>5, FileServiceAssumption
<1>7. StartedInv'
  BY <1>1, <1>3, <1>6, FileServiceAssumption DEF ReaderInv, StartedInv, Exists
<1>8. ASSUME NEW s \in Requests \ {r}, req[s].op = "decrypt"
      PROVE  /\ req[s].id \in Ids /\ req[s].after \in Requests
             /\ req'[req[s].after].pc # "idle"
             /\ req[s].pc # "done" => req[s].result = "none"
             /\ req[s].alone /\ req[s].after = last'[req[s].id] => Follows(s, req[s].after)'
  <2>1. PICK p \in Requests : p = req[s].after
    BY <1>8 DEF ReaderInv, DecryptInv
  <2>2. p # r /\ req'[p] = req[p]
    BY <1>2, <1>3, <1>8, <2>1 DEF ReaderInv, DecryptInv
  <2>3. req[s].id \in Ids
    BY <1>8 DEF ReaderInv, DecryptInv
  <2>4. ASSUME req[s].alone, p = last'[req[s].id] PROVE Follows(s, p)'
    <3>1. Follows(s, p)
      BY <1>6, <1>8, <2>1, <2>2, <2>3, <2>4 DEF ReaderInv, DecryptInv
    <3>2. QED
      BY <1>3, <2>2, <3>1 DEF Follows
  <2>5. req'[s] = req[s]
    BY <1>3
  <2>6. QED
    BY <1>8, <2>1, <2>2, <2>3, <2>4, <2>5 DEF ReaderInv, DecryptInv
<1>9. ASSUME op = "decrypt", Exists(id)
      PROVE  /\ last[id] \in Requests /\ req'[last[id]].pc # "idle"
             /\ q.alone => Follows(r, last[id])'
  <2>1. PICK p \in Requests : p = last[id] /\ p # Nil
    BY <1>9 DEF WriterInv, StandInv, ReaderInv, StartedInv
  <2>2. req[p].pc # "idle" /\ req[p].op \in Writers /\ req[p].id = id
    BY <2>1 DEF WriterInv, StandInv
  <2>3. req'[p] = req[p]
    BY <1>2, <1>3, <2>2
  <2>4. last'[id] = p
    BY <1>5, <1>9, <2>1 DEF Writers
  <2>5. ASSUME q.alone PROVE Follows(r, p)'
    <3>1. req[p].pc = "done"
      BY <1>1, <2>2, <2>5 DEF Unsettled, Active
    <3>2. ASSUME req[p].alone, req[p].result = "ok"
          PROVE  req[p].op \in Puts /\ q.key = req[p].key
      <4>1. Stands(p, id)
        BY <2>1, <3>2 DEF WriterInv, StandInv
      <4>2. world[id] = tx[p].write /\ Sent(p)
        BY <3>2, <4>1 DEF Stands, Sent
      <4>3. req[p].op \in Puts
        BY <1>9, <2>2, <4>2 DEF WriterInv, SentInv, Exists, Writers, Puts
      <4>4. QED
        BY <1>1, <1>9, <4>2, <4>3 DEF WriterInv, SentInv
    <3>3. QED
      BY <1>1, <1>3, <2>3, <3>1, <3>2 DEF Follows
  <2>6. QED
    BY <2>1, <2>2, <2>3, <2>4, <2>5, <1>5, <1>9 DEF Writers
<1>10. DecryptInv'
  BY <1>1, <1>3, <1>5, <1>8, <1>9 DEF DecryptInv, Writers
<1>11. QED
  BY <1>7, <1>10 DEF ReaderInv

LEMMA StartKeepsReaderInv ==
  ASSUME WriterInv, ReaderInv, NEW r \in Requests, Start(r)
  PROVE  ReaderInv'
<1>1. PICK u \in Users, id \in Ids :
        \/ StartEncrypt(r, u, id) \/ StartUpdate(r, u, id)
        \/ StartDelete(r, u, id) \/ StartDecrypt(r, u, id)
  BY DEF Start
<1>2. CASE StartEncrypt(r, u, id)
  BY <1>2, BeginKeepsReaderInv DEF StartEncrypt, Writers
<1>3. CASE StartUpdate(r, u, id)
  BY <1>3, BeginKeepsReaderInv DEF StartUpdate, Writers
<1>4. CASE StartDelete(r, u, id)
  BY <1>4, BeginKeepsReaderInv DEF StartDelete, Writers
<1>5. CASE StartDecrypt(r, u, id)
  BY <1>5, BeginKeepsReaderInv DEF StartDecrypt
<1>6. QED
  BY <1>1, <1>2, <1>3, <1>4, <1>5

LEMMA LedgerStepKeepsReaderInv ==
  ASSUME WriterInv, ReaderInv, NEW r \in Requests, LedgerStep(r)
  PROVE  ReaderInv'
<1>1. req' = req /\ last' = last
  BY DEF LedgerStep
<1>2. req[r].op \in Writers /\ tx[r].key = req[r].id
  BY DEF LedgerStep, Ledger!Commit, Ledger!Invalidate, Ledger!Drop, WriterInv, SentInv, Sent
<1>3. \A id \in Ids : id # req[r].id => world'[id] = world[id]
  BY <1>2 DEF LedgerStep, Ledger!Commit, Ledger!Invalidate, Ledger!Drop, WriterInv, StandShape
<1>4. StartedInv'
  BY <1>1, <1>2, <1>3 DEF ReaderInv, StartedInv, Exists
<1>5. DecryptInv'
  BY <1>1 DEF ReaderInv, DecryptInv, Follows
<1>6. QED
  BY <1>4, <1>5 DEF ReaderInv

LEMMA CrashKeepsReaderInv ==
  ASSUME WriterInv, ReaderInv, Crash
  PROVE  ReaderInv'
<1>1. world' = world /\ last' = last
  BY DEF Crash
<1>2. \A s \in Requests :
        \/ ~Active(s) /\ req'[s] = req[s]
        \/ /\ Active(s) /\ req'[s].pc = "done" /\ req'[s].result = "crashed"
           /\ req'[s].id = req[s].id /\ req'[s].op = req[s].op /\ req'[s].key = req[s].key
           /\ req'[s].alone = req[s].alone /\ req'[s].after = req[s].after
  BY DEF Crash, WriterInv, FileInv, Shape, ReqFields
<1>3. StartedInv'
  BY <1>1, <1>2 DEF ReaderInv, StartedInv, Exists, Active
<1>4. ASSUME NEW s \in Requests, NEW p \in Requests, Follows(s, p)
      PROVE  Follows(s, p)'
  <2>1. req'[p] = req[p]
    BY <1>2, <1>4 DEF Follows, Active
  <2>2. QED
    BY <1>2, <1>4, <2>1 DEF Follows
<1>5. DecryptInv'
  BY <1>1, <1>2, <1>4 DEF ReaderInv, DecryptInv, Active
<1>6. QED
  BY <1>3, <1>5 DEF ReaderInv

\* file_service.go:236-306: what a decryption that meets no writer can rely on,
\* next to WriterInv: it follows a writer that has finished, and holds its key.
THEOREM ReaderInvariant == Spec => []ReaderInv
<1>1. ASSUME WriterInv, ReaderInv, [Next]_vars
      PROVE  ReaderInv'
  <2>1. CASE UNCHANGED vars
    BY <1>1, <2>1 DEF vars, ReaderInv, StartedInv, DecryptInv, Follows, Exists
  <2>2. CASE Crash
    BY <1>1, <2>2, CrashKeepsReaderInv
  <2>3. ASSUME NEW r \in Requests,
               Start(r) \/ Continue(r) \/ LedgerStep(r) \/ QueryFails(r) \/ WriteFails(r)
        PROVE  ReaderInv'
    BY <1>1, <2>3, StartKeepsReaderInv, ContinueKeepsReaderInv, LedgerStepKeepsReaderInv
  <2>4. QED
    BY <1>1, <2>1, <2>2, <2>3 DEF Next
<1>2. QED
  BY <1>1, ReaderInvInit, WriterInvariant, PTL DEF Spec

\* file_service.go:236-306: a decryption that no writer of the asset overlaps,
\* after a successful undisturbed write, succeeds and returns what that write
\* stored, whatever happened to the asset before.
THEOREM QuietDecryptsSucceed == Spec => []QuietDecryptSucceeds
<1>1. ReaderInv => QuietDecryptSucceeds
  BY DEF ReaderInv, DecryptInv, Follows, QuietDecryptSucceeds
<1>2. QED
  BY <1>1, ReaderInvariant, PTL

-----------------------------------------------------------------------------
(***************************************************************************)
(* What an undisturbed writer found when it began is still so.             *)
(***************************************************************************)

\* Until its transaction commits, the asset is as the writer p found it.
Found(p, id) ==
  /\ req[p].op = "delete" => world[id].body.owner = req[p].user
  /\ req[p].op = "encrypt" => ~Exists(id)
  /\ faults = 0 /\ req[p].op = "update" /\ Exists(id) =>
       /\ req[p].pc = "submit" => req[p].at = world[id].createdAt
       /\ tx[p].stage = "endorsed" => tx[p].write.createdAt = world[id].createdAt

FoundInv ==
  /\ faults \in Nat
  /\ \A r \in Requests : Sent(r) /\ req[r].op \in Puts => tx[r].write.writer = r
  /\ \A id \in Ids :
       last[id] # Nil /\ req[last[id]].alone /\ tx[last[id]].stage # "committed" =>
         Found(last[id], id)

LEMMA FoundInvInit == Init => FoundInv
BY DEF Init, Ledger!Init, Ledger!Unused, FoundInv, Sent

\* What every step of a request leaves alone in the ledger.
LEMMA ContinueKeepsLedger ==
  ASSUME WriterInv, FoundInv, NEW r \in Requests,
         Continue(r) \/ QueryFails(r) \/ WriteFails(r)
  PROVE  /\ \A s \in Requests \ {r} : tx'[s] = tx[s]
         /\ req'[r].user = req[r].user
         /\ faults' \in Nat /\ (faults' = 0 => faults = 0 /\ ~QueryFails(r))
         /\ \/ /\ tx'[r].stage = tx[r].stage /\ tx'[r].write = tx[r].write
            \/ SubmitPut(r) \/ SubmitDelete(r) \/ SubmitFails(r)
<1> USE DEF WriterInv, FileInv, Shape, ReqFields, TxFields, FoundInv
<1>1. CASE DrawSecret(r) \/ KeepCreatedAt(r) \/ LoadCiphertextOrg(r) \/ OpenFile(r)
  <2>1. ~QueryFails(r)
    BY <1>1 DEF DrawSecret, KeepCreatedAt, LoadCiphertextOrg, OpenFile, QueryFails, Fault
  <2>2. QED
    BY <1>1, <2>1 DEF DrawSecret, KeepCreatedAt, LoadCiphertextOrg, OpenFile, Step
<1>2. CASE QueryFails(r)
  BY <1>2 DEF QueryFails, Step, Fault
<1>3. CASE TruncateFile(r) \/ FillFile(r) \/ RemoveFile(r) \/ WriteFails(r)
  <2>1. req[r].pc # "created" /\ tx' = tx
    BY <1>3 DEF TruncateFile, FillFile, RemoveFile, WriteFails, Step, Finish
  <2>2. req'[r].user = req[r].user
    BY <1>3 DEF TruncateFile, FillFile, RemoveFile, WriteFails, Step, Finish
  <2>3. faults' \in Nat /\ (faults' = 0 => faults = 0)
    BY <1>3 DEF TruncateFile, FillFile, RemoveFile, WriteFails, Fault
  <2>4. QED
    BY <2>1, <2>2, <2>3 DEF QueryFails, Step
<1>4. CASE SubmitPut(r) \/ SubmitDelete(r) \/ SubmitFails(r)
  <2>1. req[r].pc # "created" /\ faults' = faults /\ req'[r].user = req[r].user
    BY <1>4 DEF SubmitPut, SubmitDelete, SubmitFails, Step, Finish
  <2>2. \A s \in Requests \ {r} : tx'[s] = tx[s]
    BY <1>4 DEF SubmitPut, SubmitDelete, SubmitFails, Ledger!PutCiphertext, Ledger!DeleteCiphertext,
                Ledger!Simulated, Ledger!Refuse
  <2>3. QED
    BY <1>4, <2>1, <2>2 DEF QueryFails, Step
<1>5. CASE SubmitReturns(r)
  <2>1. req[r].pc # "created" /\ faults' = faults /\ req'[r].user = req[r].user
    BY <1>5 DEF SubmitReturns, Step, Finish
  <2>2. /\ \A s \in Requests \ {r} : tx'[s] = tx[s]
        /\ tx'[r].stage = tx[r].stage /\ tx'[r].write = tx[r].write
    BY <1>5 DEF SubmitReturns, Ledger!Answer, Ledger!GiveUp
  <2>3. QED
    BY <2>1, <2>2 DEF QueryFails, Step
<1>6. QED
  BY <1>1, <1>2, <1>3, <1>4, <1>5 DEF Continue

\* An update comes to its transaction by way of the query.
LEMMA UpdateQueries ==
  ASSUME WriterInv, NEW r \in Requests, Continue(r) \/ QueryFails(r) \/ WriteFails(r),
         req[r].op = "update", req'[r].pc = "submit"
  PROVE  KeepCreatedAt(r) \/ QueryFails(r)
<1> USE DEF WriterInv, FileInv, Shape, ReqFields
<1>1. ~DrawSecret(r)
  BY DEF DrawSecret
<1>2. ~(SubmitPut(r) \/ SubmitDelete(r) \/ TruncateFile(r) \/ LoadCiphertextOrg(r) \/ OpenFile(r))
  BY DEF SubmitPut, SubmitDelete, TruncateFile, LoadCiphertextOrg, OpenFile, Step
<1>3. ~(SubmitFails(r) \/ FillFile(r) \/ RemoveFile(r) \/ WriteFails(r))
  BY DEF SubmitFails, FillFile, RemoveFile, WriteFails, Finish
<1>4. ~SubmitReturns(r)
  BY DEF SubmitReturns, Step, Finish
<1>5. QED
  BY <1>1, <1>2, <1>3, <1>4 DEF Continue

LEMMA ContinueKeepsFoundInv ==
  ASSUME WriterInv, FoundInv, NEW r \in Requests,
         Continue(r) \/ QueryFails(r) \/ WriteFails(r)
  PROVE  FoundInv'
<1>1. /\ Active(r) /\ last' = last /\ world' = world
      /\ \A s \in Requests \ {r} : req'[s] = req[s]
      /\ req'[r].id = req[r].id /\ req'[r].op = req[r].op /\ req'[r].alone = req[r].alone
  BY ContinueKeeps
<1>2. /\ \A s \in Requests \ {r} : tx'[s] = tx[s]
      /\ req'[r].user = req[r].user
      /\ faults' \in Nat /\ (faults' = 0 => faults = 0 /\ ~QueryFails(r))
      /\ \/ /\ tx'[r].stage = tx[r].stage /\ tx'[r].write = tx[r].write
         \/ SubmitPut(r) \/ SubmitDelete(r) \/ SubmitFails(r)
  BY ContinueKeepsLedger
<1>3. CASE SubmitPut(r)
  <2>1. /\ req'[r].pc = "wait" /\ req[r].pc = "submit" /\ req[r].op \in Puts
        /\ tx[r].stage = "idle" /\ tx'[r].stage = "endorsed"
        /\ tx'[r].write.writer = r
        /\ tx'[r].write.createdAt = IF req[r].at = NoTime THEN world[req[r].id].createdAt
                                    ELSE req[r].at
    BY <1>3 DEF SubmitPut, Ledger!PutCiphertext, Ledger!Simulated, Step, Puts,
                WriterInv, FileInv, Shape, ReqFields
  <2>2. \A s \in Requests : Sent(s)' /\ req'[s].op \in Puts => tx'[s].write.writer = s
    BY <1>1, <1>2, <2>1 DEF FoundInv, Sent
  <2>3. ASSUME NEW id \in Ids, last[id] # Nil, req'[last[id]].alone, tx'[last[id]].stage # "committed"
        PROVE  Found(last[id], id)'
    <3>1. PICK p \in Requests : p = last[id] /\ req[p].id = id
      BY <2>3 DEF WriterInv, StandInv
    <3>2. Found(p, id) /\ last'[id] = p
      BY <1>1, <1>2, <2>1, <2>3, <3>1 DEF FoundInv
    <3>3. CASE p # r
      BY <1>1, <1>2, <3>1, <3>2, <3>3 DEF Found, Exists
    <3>4. CASE p = r
      BY <1>1, <1>2, <2>1, <3>1, <3>2, <3>4 DEF Found, Exists, Puts
    <3>5. QED
      BY <3>1, <3>2, <3>3, <3>4
  <2>4. QED
    BY <1>1, <1>2, <2>2, <2>3 DEF FoundInv
<1>4. CASE ~SubmitPut(r)
  <2>1. /\ tx'[r].stage = "endorsed" /\ req[r].op \in Puts =>
             tx[r].stage = "endorsed" /\ tx'[r].write = tx[r].write
        /\ Sent(r)' /\ req[r].op \in Puts => Sent(r) /\ tx'[r].write = tx[r].write
        /\ tx'[r].stage # "committed" => tx[r].stage # "committed"
    <3>1. CASE SubmitDelete(r)
      BY <3>1 DEF SubmitDelete, Ledger!DeleteCiphertext, Ledger!Simulated, Puts
    <3>2. CASE SubmitFails(r)
      BY <3>2 DEF SubmitFails, Ledger!Refuse, Sent, WriterInv, FileInv, Shape, TxFields
    <3>3. CASE ~SubmitDelete(r) /\ ~SubmitFails(r)
      BY <1>2, <1>4, <3>3 DEF Sent
    <3>4. QED
      BY <3>1, <3>2, <3>3
  <2>2. \A s \in Requests : Sent(s)' /\ req'[s].op \in Puts => tx'[s].write.writer = s
    BY <1>1, <1>2, <2>1 DEF FoundInv, Sent
  <2>3. ASSUME NEW id \in Ids, last[id] # Nil, req'[last[id]].alone, tx'[last[id]].stage # "committed"
        PROVE  Found(last[id], id)'
    <3>1. PICK p \in Requests : p = last[id] /\ req[p].id = id
      BY <2>3 DEF WriterInv, StandInv
    <3>2. Found(p, id) /\ last'[id] = p
      BY <1>1, <1>2, <2>1, <2>3, <3>1 DEF FoundInv
    <3>3. CASE p # r
      BY <1>1, <1>2, <3>1, <3>2, <3>3 DEF Found, Exists
    <3>4. CASE p = r
      <4>1. ASSUME faults' = 0, req[r].op = "update", Exists(id), req'[r].pc = "submit"
            PROVE  req'[r].at = world[id].createdAt
        <5>1. KeepCreatedAt(r)
          BY <1>2, <4>1, UpdateQueries
        <5>2. QED
          BY <3>1, <3>4, <4>1, <5>1 DEF KeepCreatedAt, WriterInv, FileInv, Shape, ReqFields
      <4>2. QED
        BY <1>1, <1>2, <2>1, <3>1, <3>2, <3>4, <4>1 DEF Found, Exists, Puts
    <3>5. QED
      BY <3>1, <3>2, <3>3, <3>4
  <2>4. QED
    BY <1>1, <1>2, <2>2, <2>3 DEF FoundInv
<1>5. QED
  BY <1>3, <1>4

LEMMA StartKeepsFoundInv ==
  ASSUME WriterInv, ReaderInv, FoundInv, NEW r \in Requests, Start(r)
  PROVE  FoundInv'
<1>1. PICK u \in Users, id \in Ids, op \in Writers \cup {"decrypt"}, pc \in {"draw", "submit", "load"} :
        /\ Begin(r, u, id, op, pc)
        /\ op = "encrypt" => last[id] = Nil
        /\ op = "update"  => pc = "draw"
        /\ op = "delete"  => world[id].body.owner = u
  BY DEF Start, StartEncrypt, StartUpdate, StartDelete, StartDecrypt, Writers
<1>2. tx' = tx /\ world' = world /\ faults' = faults
  BY DEF Start, StartEncrypt, StartUpdate, StartDelete, StartDecrypt
<1>3. /\ req[r].pc = "idle" /\ tx[r].stage = "idle"
      /\ \A s \in Requests \ {r} : req'[s] = req[s]
      /\ req'[r].id = id /\ req'[r].op = op /\ req'[r].user = u /\ req'[r].pc = pc
  BY <1>1 DEF Begin, NewRequest, WriterInv, FileInv, Shape, SentInv
<1>4. \A s \in Requests : Sent(s)' /\ req'[s].op \in Puts => tx'[s].write.writer = s
  BY <1>2, <1>3 DEF FoundInv, Sent
<1>5. ASSUME NEW i \in Ids, NEW p \in Requests, p = last'[i], p # r, req'[p].alone, tx'[p].stage # "committed"
      PROVE  Found(p, i)'
  <2>1. last[i] = p
    BY <1>1, <1>5 DEF Begin, WriterInv, StandShape
  <2>2. p # Nil
    BY FileServiceAssumption
  <2>3. Found(p, i)
    BY <1>2, <1>3, <1>5, <2>1, <2>2 DEF FoundInv
  <2>4. QED
    BY <1>2, <1>3, <1>5, <2>3 DEF Found, Exists
<1>6. ASSUME NEW i \in Ids, r = last'[i]
      PROVE  Found(r, i)'
  <2>1. last[i] # r
    BY <1>3, FileServiceAssumption DEF WriterInv, StandInv
  <2>2. i = id
    BY <1>1, <1>6, <2>1 DEF Begin, WriterInv, StandShape
  <2>3. op = "encrypt" => ~Exists(id)
    BY <1>1 DEF ReaderInv, StartedInv
  <2>4. QED
    BY <1>1, <1>2, <1>3, <2>2, <2>3 DEF Found, Exists
<1>7. \A i \in Ids : last'[i] # Nil => last'[i] \in Requests
  BY <1>1 DEF Begin, WriterInv, StandInv, StandShape
<1>8. QED
  BY <1>2, <1>4, <1>5, <1>6, <1>7 DEF FoundInv

LEMMA LedgerStepKeepsFoundInv ==
  ASSUME WriterInv, FoundInv, NEW r \in Requests, LedgerStep(r)
  PROVE  FoundInv'
<1>1. req' = req /\ last' = last /\ faults' = faults
  BY DEF LedgerStep
<1>2. /\ tx[r].stage = "endorsed" /\ \A s \in Requests \ {r} : tx'[s] = tx[s]
      /\ tx'[r].stage \in {"committed", "invalid", "dropped"}
      /\ tx'[r].write = tx[r].write
      /\ tx'[r].stage # "committed" => world' = world
      /\ \A id \in Ids : tx[r].key # id => world'[id] = world[id]
  <2>1. CASE Ledger!Commit(r)
    BY <2>1 DEF Ledger!Commit, WriterInv, FileInv, Shape, TxFields, StandShape
  <2>2. CASE Ledger!Invalidate(r) \/ Ledger!Drop(r)
    BY <2>2 DEF Ledger!Invalidate, Ledger!Drop, WriterInv, FileInv, Shape, TxFields
  <2>3. QED
    BY <2>1, <2>2 DEF LedgerStep
<1>3. req[r].op \in Writers /\ tx[r].key = req[r].id
  BY <1>2 DEF WriterInv, SentInv, Sent
<1>4. \A s \in Requests : Sent(s)' /\ req'[s].op \in Puts => tx'[s].write.writer = s
  BY <1>1, <1>2 DEF FoundInv, Sent
<1>5. ASSUME NEW id \in Ids, NEW p \in Requests, p = last[id], last[id] # Nil,
             req[p].alone, tx'[p].stage # "committed"
      PROVE  Found(p, id)'
  <2>1. tx[p].stage # "committed"
    BY <1>2, <1>5
  <2>2. Found(p, id)
    BY <1>5, <2>1 DEF FoundInv
  <2>3. world'[id] = world[id]
    <3>1. CASE p = r
      BY <1>2, <1>5, <3>1
    <3>2. CASE p # r
      <4>1. Settled(r, id)
        BY <1>5, <3>2 DEF WriterInv, StandInv, Stands
      <4>2. QED
        BY <1>2, <1>3, <4>1 DEF Settled
    <3>3. QED
      BY <3>1, <3>2
  <2>4. tx'[p].stage = "endorsed" => tx'[p] = tx[p]
    BY <1>2
  <2>5. QED
    BY <1>1, <2>2, <2>3, <2>4 DEF Found, Exists
<1>6. QED
  BY <1>1, <1>4, <1>5 DEF FoundInv, WriterInv, StandInv

LEMMA CrashKeepsFoundInv ==
  ASSUME WriterInv, FoundInv, Crash
  PROVE  FoundInv'
<1>1. tx' = tx /\ world' = world /\ last' = last /\ faults' \in Nat /\ faults' # 0
  <2>1. faults \in Nat
    BY DEF FoundInv
  <2>2. faults' = faults + 1
    BY DEF Crash, Fault
  <2>3. faults' \in Nat /\ faults' # 0
    BY <2>1, <2>2
  <2>4. QED
    BY <2>3 DEF Crash
<1>2. \A s \in Requests :
        /\ req'[s].op = req[s].op /\ req'[s].user = req[s].user
        /\ req'[s].alone = req[s].alone /\ (req'[s].pc = req[s].pc \/ req'[s].pc = "done")
  BY DEF Crash, WriterInv, FileInv, Shape, ReqFields
<1>3. \A id \in Ids : last[id] # Nil => last[id] \in Requests
  BY DEF WriterInv, StandInv
<1>4. QED
  BY <1>1, <1>2, <1>3 DEF FoundInv, Found, Exists, Sent

\* file_service.go:49-194: what an undisturbed writer found when it began (the
\* owner that a delete checked, the creation time that an update took over)
\* still holds when its transaction commits.
THEOREM FoundInvariant == Spec => []FoundInv
<1>1. ASSUME WriterInv, ReaderInv, FoundInv, [Next]_vars
      PROVE  FoundInv'
  <2>1. CASE UNCHANGED vars
    BY <1>1, <2>1 DEF vars, FoundInv, Found, Exists, Sent
  <2>2. CASE Crash
    BY <1>1, <2>2, CrashKeepsFoundInv
  <2>3. ASSUME NEW r \in Requests,
               Start(r) \/ Continue(r) \/ LedgerStep(r) \/ QueryFails(r) \/ WriteFails(r)
        PROVE  FoundInv'
    BY <1>1, <2>3, StartKeepsFoundInv, ContinueKeepsFoundInv, LedgerStepKeepsFoundInv
  <2>4. QED
    BY <1>1, <2>1, <2>2, <2>3 DEF Next
<1>2. QED
  BY <1>1, FoundInvInit, WriterInvariant, ReaderInvariant, PTL DEF Spec

\* Only a commit moves the world state.
LEMMA WorldMovesByCommit ==
  ASSUME WriterInv, [Next]_vars, NEW id \in Ids, world'[id] # world[id]
  PROVE  \E r \in Requests : Ledger!Commit(r) /\ tx[r].key = id
<1>1. ~UNCHANGED vars /\ ~Crash
  BY DEF vars, Crash
<1>2. PICK r \in Requests :
        Start(r) \/ Continue(r) \/ LedgerStep(r) \/ QueryFails(r) \/ WriteFails(r)
  BY <1>1 DEF Next
<1>3. ~Start(r)
  BY DEF Start, StartEncrypt, StartUpdate, StartDelete, StartDecrypt
<1>4. ~(Continue(r) \/ QueryFails(r) \/ WriteFails(r))
  BY ContinueKeeps
<1>5. Ledger!Commit(r)
  BY <1>2, <1>3, <1>4 DEF LedgerStep, Ledger!Invalidate, Ledger!Drop
<1>6. tx[r].key = id
  BY <1>5 DEF Ledger!Commit, WriterInv, StandShape
<1>7. QED
  BY <1>5, <1>6

\* Where the last writer met no other, a commit is its own.
LEMMA CommitIsTheLastWriters ==
  ASSUME WriterInv, NEW r \in Requests, Ledger!Commit(r), NEW id \in Ids, tx[r].key = id,
         last[id] # Nil, req[last[id]].alone
  PROVE  /\ last[id] = r /\ tx[r].stage = "endorsed" /\ req[r].op \in Writers
         /\ world'[id] = tx[r].write
<1>1. tx[r].stage = "endorsed" /\ world'[id] = tx[r].write
  BY DEF Ledger!Commit, WriterInv, StandShape
<1>2. req[r].op \in Writers /\ req[r].id = id
  BY <1>1 DEF WriterInv, SentInv, Sent
<1>3. Stands(last[id], id)
  BY DEF WriterInv, StandInv
<1>4. last[id] = r
  BY <1>1, <1>2, <1>3 DEF Stands, Settled
<1>5. QED
  BY <1>1, <1>2, <1>4

LEMMA DeletesAreOwners ==
  ASSUME WriterInv, FoundInv, [Next]_vars, NEW id \in Ids,
         Exists(id), ~Exists(id)', last[id] # Nil, req[last[id]].alone
  PROVE  req[last[id]].user = world[id].body.owner
<1>1. PICK r \in Requests : Ledger!Commit(r) /\ tx[r].key = id
  BY WorldMovesByCommit DEF Exists
<1>2. /\ last[id] = r /\ tx[r].stage = "endorsed" /\ req[r].op \in Writers
      /\ world'[id] = tx[r].write
  BY <1>1, CommitIsTheLastWriters
<1>3. req[r].op = "delete"
  BY <1>2 DEF WriterInv, SentInv, Sent, Writers, Puts, Exists
<1>4. QED
  BY <1>2, <1>3 DEF FoundInv, Found

LEMMA UpdatesKeepTime ==
  ASSUME WriterInv, ReaderInv, FoundInv, [Next]_vars, NEW id \in Ids,
         Exists(id), Exists(id)', world'[id] # world[id], req[last[id]].alone, faults = 0
  PROVE  world'[id].createdAt = world[id].createdAt
<1>1. PICK r \in Requests : Ledger!Commit(r) /\ tx[r].key = id
  BY WorldMovesByCommit
<1>2. last[id] # Nil
  BY DEF ReaderInv, StartedInv
<1>3. /\ last[id] = r /\ tx[r].stage = "endorsed" /\ req[r].op \in Writers
      /\ world'[id] = tx[r].write
  BY <1>1, <1>2, CommitIsTheLastWriters
<1>4. req[r].op # "delete"
  BY <1>3 DEF WriterInv, SentInv, Sent, Exists
<1>5. req[r].op = "update"
  BY <1>2, <1>3, <1>4 DEF FoundInv, Found, Writers
<1>6. QED
  BY <1>2, <1>3, <1>5 DEF FoundInv, Found

\* file_service.go:178-194: the asset a Delete removes still belongs to the user
\* whose ownership was checked, unless another writer came between the check and
\* the commit, for any number of requests.
THEOREM OwnersDelete == Spec => OwnerDeletes
<1>1. WriterInv /\ FoundInv /\ [Next]_vars =>
        [\A id \in Ids :
           /\ Exists(id) /\ ~Exists(id)'
           /\ last[id] # Nil /\ req[last[id]].alone
           => req[last[id]].user = world[id].body.owner]_vars
  BY DeletesAreOwners
<1>2. QED
  BY <1>1, WriterInvariant, FoundInvariant, PTL DEF OwnerDeletes, Spec

\* file_service.go:105-112: an update leaves the creation time as it was, unless
\* the query for it failed or another writer came between, for any number of
\* requests.
THEOREM CreationTimesKept == Spec => CreatedAtKept
<1>1. WriterInv /\ ReaderInv /\ FoundInv /\ [Next]_vars =>
        [\A id \in Ids :
           /\ Exists(id) /\ Exists(id)' /\ world'[id] # world[id]
           /\ last[id] = world'[id].writer /\ req[world'[id].writer].alone
           /\ faults = 0
           => world'[id].createdAt = world[id].createdAt]_vars
  BY UpdatesKeepTime
<1>2. QED
  BY <1>1, WriterInvariant, ReaderInvariant, FoundInvariant, PTL DEF CreatedAtKept, Spec

-----------------------------------------------------------------------------
(***************************************************************************)
(* Type correctness, for all requests, users and assets.                   *)
(***************************************************************************)
TypeInv ==
  /\ TypeOK
  /\ \A id \in Ids : Exists(id) => world[id].body \in Body /\ world[id].createdAt \in Requests
  /\ \A r \in Requests :
       /\ req[r].pc \in {"draw", "created", "submit"} => req[r].user \in Users
       /\ req[r].pc \in {"created", "submit"} /\ req[r].op \in Puts => req[r].at \in Requests
       /\ Sent(r) /\ req[r].op \in Puts =>
            tx[r].write.body \in Body /\ tx[r].write.createdAt \in Requests

LEMMA TypeInvInit == Init => TypeInv
<1> SUFFICES ASSUME Init PROVE TypeInv
  OBVIOUS
<1>1. Ledger!TypeOK
  BY DEF Init, Ledger!Init, Ledger!TypeOK, Ledger!Unused, Ledger!Absent, Ledger!TxState, Ledger!Asset,
         Ledger!Stages, Ledger!Keys
<1>2. TypeOK
  BY <1>1, FileServiceAssumption DEF Init, TypeOK, NoFile, File, NewRequest, Request, Writers
<1>3. QED
  BY <1>2 DEF Init, Ledger!Init, Ledger!Unused, Ledger!Absent, Ledger!Keys, NewRequest, TypeInv, Exists, Sent

\* The ledger's part: a call of one request, or a step of the network.
LEMMA LedgerStaysTyped ==
  ASSUME TypeInv, WriterInv, NEW r \in Requests,
         \/ Ledger!Commit(r) \/ Ledger!Invalidate(r) \/ Ledger!Drop(r)
         \/ Ledger!Answer(r) \/ Ledger!GiveUp(r) \/ Ledger!Refuse(r)
  PROVE  /\ Ledger!TypeOK'
         /\ \A id \in Ids : Exists(id)' => world'[id].body \in Body /\ world'[id].createdAt \in Requests
         /\ \A s \in Requests : tx'[s].write = tx[s].write /\ (Sent(s)' => Sent(s))
<1>1. /\ world \in [Ledger!Keys -> Ledger!Asset] /\ tx \in [Requests -> Ledger!TxState]
  BY DEF TypeInv, TypeOK, Ledger!TypeOK
<1>2. CASE Ledger!Commit(r)
  <2>1. /\ world' = [world EXCEPT ![tx[r].key] = tx[r].write]
        /\ tx' = [tx EXCEPT ![r].stage = "committed"] /\ tx[r].stage = "endorsed"
    BY <1>2 DEF Ledger!Commit
  <2>2. Ledger!TypeOK'
    BY <1>1, <2>1 DEF Ledger!TypeOK, Ledger!TxState, Ledger!Stages
  <2>3. ASSUME NEW id \in Ids, Exists(id)'
        PROVE  world'[id].body \in Body /\ world'[id].createdAt \in Requests
    <3>1. CASE id = tx[r].key
      <4>1. world'[id] = tx[r].write
        BY <1>1, <2>1, <3>1 DEF Ledger!Keys
      <4>2. req[r].op \in Puts
        BY <2>1, <2>3, <4>1 DEF WriterInv, SentInv, Sent, Exists, Writers, Puts
      <4>3. QED
        BY <2>1, <4>1, <4>2 DEF TypeInv, Sent
    <3>2. CASE id # tx[r].key
      BY <1>1, <2>1, <2>3, <3>2 DEF Ledger!Keys, Exists, TypeInv
    <3>3. QED
      BY <3>1, <3>2
  <2>4. QED
    BY <1>1, <2>1, <2>2, <2>3 DEF Sent, Ledger!TxState
<1>3. CASE Ledger!Invalidate(r) \/ Ledger!Drop(r) \/ Ledger!Refuse(r)
  <2>1. PICK stage \in Ledger!Stages, answer \in {"none", "ok", "failed", "unknown"} :
          /\ tx' = [tx EXCEPT ![r] = [tx[r] EXCEPT !.stage = stage, !.answer = answer]]
          /\ stage = "refused" \/ Sent(r)
    <3>1. CASE Ledger!Invalidate(r) \/ Ledger!Drop(r)
      <4>1. \E stage \in Ledger!Stages :
              /\ tx' = [tx EXCEPT ![r] = [tx[r] EXCEPT !.stage = stage, !.answer = tx[r].answer]]
              /\ Sent(r)
        BY <1>1, <3>1 DEF Ledger!Invalidate, Ledger!Drop, Ledger!Stages, Ledger!TxState, Sent
      <4>2. tx[r].answer \in {"none", "ok", "failed", "unknown"}
        BY <1>1 DEF Ledger!TxState
      <4>3. QED
        BY <4>1, <4>2
    <3>2. CASE Ledger!Refuse(r)
      BY <1>1, <3>2 DEF Ledger!Refuse, Ledger!Stages, Ledger!TxState
    <3>3. QED
      BY <1>3, <3>1, <3>2
  <2>2. world' = world
    BY <1>3 DEF Ledger!Invalidate, Ledger!Drop, Ledger!Refuse
  <2>3. Ledger!TypeOK'
    BY <1>1, <2>1, <2>2 DEF Ledger!TypeOK, Ledger!TxState
  <2>4. \A s \in Requests : tx'[s].write = tx[s].write /\ (Sent(s)' => Sent(s))
    BY <1>1, <2>1 DEF Sent, Ledger!TxState
  <2>5. QED
    BY <2>2, <2>3, <2>4 DEF TypeInv, Exists
<1>4. CASE Ledger!Answer(r) \/ Ledger!GiveUp(r)
  <2>1. PICK answer \in {"none", "ok", "failed", "unknown"} :
          tx' = [tx EXCEPT ![r].answer = answer]
    BY <1>4 DEF Ledger!Answer, Ledger!GiveUp
  <2>2. world' = world
    BY <1>4 DEF Ledger!Answer, Ledger!GiveUp
  <2>3. Ledger!TypeOK'
    BY <1>1, <2>1, <2>2 DEF Ledger!TypeOK, Ledger!TxState
  <2>4. \A s \in Requests : tx'[s].write = tx[s].write /\ (Sent(s)' => Sent(s))
    BY <1>1, <2>1 DEF Sent, Ledger!TxState
  <2>5. QED
    BY <2>2, <2>3, <2>4 DEF TypeInv, Exists
<1>5. QED
  BY <1>2, <1>3, <1>4

\* The request's part, where the ledger's is done.
LEMMA RequestStaysTyped ==
  ASSUME TypeInv, NEW r \in Requests, NEW q \in Request, req' = [req EXCEPT ![r] = q],
         Ledger!TypeOK', file' \in [Ids -> File], draws' \in Nat, faults' \in 0..MaxFaults,
         last' \in [Ids -> Requests \cup {Nil}],
         \A id \in Ids : Exists(id)' => world'[id].body \in Body /\ world'[id].createdAt \in Requests,
         \A s \in Requests \ {r} : tx'[s].write = tx[s].write /\ (Sent(s)' => Sent(s)),
         q.pc \in {"draw", "created", "submit"} => q.user \in Users,
         q.pc \in {"created", "submit"} /\ q.op \in Puts => q.at \in Requests,
         Sent(r)' /\ q.op \in Puts =>
           tx'[r].write.body \in Body /\ tx'[r].write.createdAt \in Requests
  PROVE  TypeInv'
<1>1. req \in [Requests -> Request]
  BY DEF TypeInv, TypeOK
<1>2. req' \in [Requests -> Request] /\ req'[r] = q /\ \A s \in Requests \ {r} : req'[s] = req[s]
  BY <1>1
<1>3. TypeOK'
  BY <1>2 DEF TypeOK
<1>4. ASSUME NEW s \in Requests
      PROVE  /\ req'[s].pc \in {"draw", "created", "submit"} => req'[s].user \in Users
             /\ req'[s].pc \in {"created", "submit"} /\ req'[s].op \in Puts => req'[s].at \in Requests
             /\ Sent(s)' /\ req'[s].op \in Puts =>
                  tx'[s].write.body \in Body /\ tx'[s].write.createdAt \in Requests
  <2>1. CASE s = r
    BY <1>2, <2>1
  <2>2. CASE s # r
    <3>1. req'[s] = req[s] /\ tx'[s].write = tx[s].write /\ (Sent(s)' => Sent(s))
      BY <1>2, <2>2
    <3>2. QED
      BY <3>1 DEF TypeInv
  <2>3. QED
    BY <2>1, <2>2
<1>5. QED
  BY <1>3, <1>4 DEF TypeInv

\* A request as Begin fills it in.
LEMMA BegunIsTyped ==
  ASSUME NEW q0 \in Request, NEW key \in Nat, NEW after \in Requests \cup {Nil},
         NEW alone \in BOOLEAN, NEW op \in Writers \cup {"decrypt"},
         NEW pc \in {"draw", "submit", "load"}
  PROVE  [q0 EXCEPT !.pc = pc, !.op = op, !.key = key, !.alone = alone, !.after = after] \in Request
<1> DEFINE q1 == [q0 EXCEPT !.pc = pc, !.op = op]
           q2 == [q1 EXCEPT !.key = key, !.alone = alone, !.after = after]
<1>1. q1 \in Request
  BY ZenonT(60) DEF Request, Writers
<1>2. [q0 EXCEPT !.pc = pc, !.op = op, !.key = key, !.alone = alone, !.after = after] = q2
  OBVIOUS
<1> HIDE DEF q1
<1>3. q2 \in Request
  BY <1>1, ZenonT(60) DEF Request
<1>4. QED
  BY <1>2, <1>3

LEMMA BeginStaysTyped ==
  ASSUME TypeInv, WriterInv, NEW r \in Requests, NEW u \in Users, NEW id \in Ids,
         NEW op \in Writers \cup {"decrypt"}, NEW pc \in {"draw", "submit", "load"},
         Begin(r, u, id, op, pc), op = "decrypt" => Exists(id), op \in Puts => pc = "draw",
         tx' = tx, world' = world, file' = file, faults' = faults, draws' \in Nat
  PROVE  TypeInv'
<1> DEFINE key   == IF op = "decrypt" THEN world[id].body.key ELSE 0
           alone == (Unsettled(id) = {})
           q == [NewRequest(id, u) EXCEPT !.pc = pc, !.op = op, !.key = key,
                                          !.alone = alone, !.after = last[id]]
<1>1. last \in [Ids -> Requests \cup {Nil}] /\ req \in [Requests -> Request]
  BY DEF TypeInv, TypeOK
<1>2. op = "decrypt" => world[id].body.key \in Nat
  BY DEF TypeInv, Body
<1>3. /\ key \in Nat /\ alone \in BOOLEAN /\ last[id] \in Requests \cup {Nil}
      /\ NewRequest(id, u) \in Request
  BY <1>1, <1>2 DEF NewRequest, Request, Writers
<1>4. req' = [req EXCEPT ![r] = q] /\ req[r].pc = "idle"
  BY DEF Begin
<1> HIDE DEF key, alone
<1>5. q \in Request /\ q.pc = pc /\ q.op = op /\ q.user = u
  <2>1. q \in Request
    BY <1>3, BegunIsTyped
  <2>2. QED
    BY <2>1 DEF NewRequest
<1> HIDE DEF q
<1>6. last' \in [Ids -> Requests \cup {Nil}]
  BY <1>1 DEF Begin
<1>7. tx[r].stage = "idle"
  BY <1>4 DEF WriterInv, SentInv
<1>8. /\ Ledger!TypeOK' /\ file' \in [Ids -> File] /\ faults' \in 0..MaxFaults
      /\ \A i \in Ids : Exists(i)' => world'[i].body \in Body /\ world'[i].createdAt \in Requests
  BY DEF TypeInv, TypeOK, Ledger!TypeOK, Exists
<1>9. \A s \in Requests : tx'[s].write = tx[s].write /\ (Sent(s)' => Sent(s))
  BY DEF Sent
<1>10. QED
  BY <1>4, <1>5, <1>6, <1>7, <1>8, <1>9, RequestStaysTyped DEF Sent, Puts

LEMMA StartStaysTyped ==
  ASSUME TypeInv, WriterInv, NEW r \in Requests, Start(r)
  PROVE  TypeInv'
<1>1. PICK u \in Users, id \in Ids, op \in Writers \cup {"decrypt"}, pc \in {"draw", "submit", "load"} :
        /\ Begin(r, u, id, op, pc)
        /\ op = "decrypt" => Exists(id)
        /\ op \in Puts => pc = "draw"
  BY DEF Start, StartEncrypt, StartUpdate, StartDelete, StartDecrypt, Writers, Puts
<1>2. tx' = tx /\ world' = world /\ file' = file /\ faults' = faults /\ draws' \in Nat
  <2>1. draws \in Nat
    BY DEF TypeInv, TypeOK
  <2>2. QED
    BY <2>1 DEF Start, StartEncrypt, StartUpdate, StartDelete, StartDecrypt, LoadOrg
<1>3. QED
  BY <1>1, <1>2, BeginStaysTyped

\* Steps that leave the ledger alone.
LEMMA LocalStepStaysTyped ==
  ASSUME TypeInv, WriterInv, NEW r \in Requests, NEW q \in Request,
         req' = [req EXCEPT ![r] = q], q.op = req[r].op,
         world' = world, tx' = tx, last' = last,
         file' \in [Ids -> File], draws' \in Nat, faults' \in 0..MaxFaults,
         q.pc \in {"draw", "created", "submit"} => q.user \in Users,
         q.pc \in {"created", "submit"} /\ q.op \in Puts => q.at \in Requests
  PROVE  TypeInv'
<1>1. /\ Ledger!TypeOK' /\ last' \in [Ids -> Requests \cup {Nil}]
      /\ \A i \in Ids : Exists(i)' => world'[i].body \in Body /\ world'[i].createdAt \in Requests
  BY DEF TypeInv, TypeOK, Ledger!TypeOK, Exists
<1>2. \A s \in Requests : tx'[s].write = tx[s].write /\ (Sent(s)' => Sent(s))
  BY DEF Sent
<1>3. Sent(r)' /\ q.op \in Puts => tx'[r].write.body \in Body /\ tx'[r].write.createdAt \in Requests
  BY <1>2 DEF TypeInv
<1>4. QED
  BY <1>1, <1>2, <1>3, RequestStaysTyped

LEMMA FaultIsTyped ==
  ASSUME TypeInv, Fault
  PROVE  faults' \in 0..MaxFaults
<1>1. faults \in 0..MaxFaults /\ MaxFaults \in Nat
  BY FileServiceAssumption DEF TypeInv, TypeOK
<1>2. faults < MaxFaults /\ faults' = faults + 1
  BY DEF Fault
<1>3. QED
  BY <1>1, <1>2

LEMMA PrepareStaysTyped ==
  ASSUME TypeInv, WriterInv, NEW r \in Requests,
         DrawSecret(r) \/ KeepCreatedAt(r) \/ QueryFails(r)
  PROVE  TypeInv'
<1>1. /\ req \in [Requests -> Request] /\ req[r] \in Request /\ file \in [Ids -> File]
      /\ draws \in Nat /\ faults \in 0..MaxFaults
  BY DEF TypeInv, TypeOK
<1>2. req[r].pc \in {"draw", "created"} /\ req[r].id \in Ids
  BY DEF DrawSecret, KeepCreatedAt, QueryFails, Step, WriterInv, FileInv, RequestInv, Active
<1>3. req[r].user \in Users /\ req[r].op \in Puts
  BY <1>2 DEF TypeInv, WriterInv, FileInv, RequestInv
<1>4. CASE DrawSecret(r)
  <2> DEFINE pc == IF req[r].op = "update" THEN "created" ELSE "submit"
             q1 == [req[r] EXCEPT !.key = draws, !.at = r]
             q  == [q1 EXCEPT !.pc = pc]
  <2>1. req' = [req EXCEPT ![r] = q]
    BY <1>1, <1>4 DEF DrawSecret
  <2>2. q \in Request /\ q.op = req[r].op /\ q.user = req[r].user /\ q.at = r
    <3>1. q1 \in Request /\ q1.op = req[r].op /\ q1.user = req[r].user /\ q1.at = r
      BY <1>1 DEF Request
    <3>2. pc \in {"created", "submit"}
      OBVIOUS
    <3> HIDE DEF q1, pc
    <3>3. QED
      BY <3>1, <3>2 DEF Request
  <2>3. /\ world' = world /\ tx' = tx /\ last' = last /\ file' = file /\ faults' = faults
        /\ draws' \in Nat
    BY <1>1, <1>4 DEF DrawSecret
  <2> HIDE DEF q
  <2>4. QED
    BY <1>1, <1>3, <2>1, <2>2, <2>3, LocalStepStaysTyped
<1>5. CASE KeepCreatedAt(r)
  <2> DEFINE at == IF Exists(req[r].id) THEN world[req[r].id].createdAt ELSE r
             q  == [req[r] EXCEPT !.pc = "submit", !.at = at]
  <2>1. req' = [req EXCEPT ![r] = q]
    BY <1>1, <1>5 DEF KeepCreatedAt
  <2>2. at \in Requests
    BY <1>2 DEF TypeInv
  <2> HIDE DEF at
  <2>3. q \in Request /\ q.op = req[r].op /\ q.user = req[r].user /\ q.at = at
    BY <1>1, <2>2 DEF Request
  <2>4. /\ world' = world /\ tx' = tx /\ last' = last /\ file' = file /\ faults' = faults
        /\ draws' = draws
    BY <1>5 DEF KeepCreatedAt
  <2> HIDE DEF q
  <2>5. QED
    BY <1>1, <1>3, <2>1, <2>2, <2>3, <2>4, LocalStepStaysTyped
<1>6. CASE QueryFails(r)
  <2> DEFINE q == [req[r] EXCEPT !.pc = "submit"]
  <2>1. req' = [req EXCEPT ![r] = q] /\ req[r].pc = "created"
    BY <1>1, <1>6 DEF QueryFails, Step
  <2>2. q \in Request /\ q.op = req[r].op /\ q.user = req[r].user /\ q.at = req[r].at
    BY <1>1 DEF Request
  <2>3. req[r].at \in Requests
    BY <1>3, <2>1 DEF TypeInv
  <2>4. world' = world /\ tx' = tx /\ last' = last /\ file' = file /\ draws' = draws /\ Fault
    BY <1>6 DEF QueryFails
  <2> HIDE DEF q
  <2>5. QED
    BY <1>1, <1>3, <2>1, <2>2, <2>3, <2>4, FaultIsTyped, LocalStepStaysTyped
<1>7. QED
  BY <1>4, <1>5, <1>6

LEMMA FinishStaysTyped ==
  ASSUME TypeInv, WriterInv, NEW r \in Requests,
         \/ TruncateFile(r) \/ FillFile(r) \/ RemoveFile(r) \/ WriteFails(r)
         \/ LoadCiphertextOrg(r) \/ OpenFile(r)
  PROVE  TypeInv'
<1>1. /\ req \in [Requests -> Request] /\ req[r] \in Request /\ file \in [Ids -> File]
      /\ draws \in Nat /\ faults \in 0..MaxFaults
  BY DEF TypeInv, TypeOK
<1>2. req[r].id \in Ids
  BY DEF TruncateFile, FillFile, RemoveFile, WriteFails, LoadCiphertextOrg, OpenFile, Step, Finish,
         WriterInv, FileInv, RequestInv, Active
<1>3. world' = world /\ tx' = tx /\ last' = last /\ draws' \in Nat /\ faults' \in 0..MaxFaults
  BY <1>1, FaultIsTyped DEF TruncateFile, FillFile, RemoveFile, WriteFails, LoadCiphertextOrg, OpenFile,
     LoadOrg
<1>4. file' \in [Ids -> File]
  <2>1. /\ BrokenFile \in File /\ NoFile \in File
        /\ [state |-> "whole", put |-> r, key |-> req[r].key] \in File
    BY <1>1 DEF BrokenFile, NoFile, File, Request
  <2>2. \/ file' = file
        \/ \E f \in File : file' = [file EXCEPT ![req[r].id] = f]
    BY <2>1 DEF TruncateFile, FillFile, RemoveFile, WriteFails, LoadCiphertextOrg, OpenFile
  <2>3. QED
    BY <1>1, <2>2
<1>5. \E q \in Request : /\ req' = [req EXCEPT ![r] = q]
                         /\ q.pc \in {"fill", "open", "done"} /\ q.op = req[r].op
  <2>1. CASE TruncateFile(r) \/ LoadCiphertextOrg(r)
    <3> DEFINE q(pc) == [req[r] EXCEPT !.pc = pc]
    <3>1. \A pc \in {"fill", "open"} : q(pc) \in Request /\ q(pc).pc = pc /\ q(pc).op = req[r].op
      BY <1>1 DEF Request
    <3>2. req' = [req EXCEPT ![r] = q("fill")] \/ req' = [req EXCEPT ![r] = q("open")]
      BY <1>1, <2>1 DEF TruncateFile, LoadCiphertextOrg, Step
    <3> HIDE DEF q
    <3>3. QED
      BY <3>1, <3>2
  <2>2. CASE FillFile(r) \/ RemoveFile(r) \/ WriteFails(r)
    <3> DEFINE q(result) == [req[r] EXCEPT !.pc = "done", !.result = result]
    <3>1. \A result \in {"ok", "error"} :
            q(result) \in Request /\ q(result).pc = "done" /\ q(result).op = req[r].op
      BY <1>1 DEF Request
    <3>2. req' = [req EXCEPT ![r] = q("ok")] \/ req' = [req EXCEPT ![r] = q("error")]
      BY <1>1, <2>2 DEF FillFile, RemoveFile, WriteFails, Finish
    <3> HIDE DEF q
    <3>3. QED
      BY <3>1, <3>2
  <2>3. CASE OpenFile(r)
    <3> DEFINE f      == file[req[r].id]
               opens  == f.state = "whole" /\ f.key = req[r].key
               result == IF opens THEN "ok" ELSE "error"
               got    == IF opens THEN f.put ELSE Nil
               q0     == [req[r] EXCEPT !.pc = "done"]
               q1     == [q0 EXCEPT !.result = result]
               q      == [q1 EXCEPT !.got = got]
    <3>1. req' = [req EXCEPT ![r] = q]
      BY <1>1, <2>3 DEF OpenFile
    <3>2. result \in {"ok", "error"} /\ got \in Requests \cup {Nil}
      BY <1>1, <1>2 DEF File
    <3> HIDE DEF result, got
    <3>3. q0 \in Request /\ q0.pc = "done" /\ q0.op = req[r].op
      BY <1>1 DEF Request
    <3> HIDE DEF q0
    <3>4. q1 \in Request /\ q1.pc = "done" /\ q1.op = req[r].op
      BY <3>2, <3>3 DEF Request
    <3> HIDE DEF q1
    <3>5. q \in Request /\ q.pc = "done" /\ q.op = req[r].op
      BY <3>2, <3>4 DEF Request
    <3> HIDE DEF q
    <3>6. QED
      BY <3>1, <3>5
  <2>4. QED
    BY <2>1, <2>2, <2>3
<1>6. PICK q \in Request : /\ req' = [req EXCEPT ![r] = q]
                           /\ q.pc \in {"fill", "open", "done"} /\ q.op = req[r].op
  BY <1>5
<1>7. QED
  BY <1>3, <1>4, <1>6, LocalStepStaysTyped

\* A proposal of the request's own: typed, and of the content and time it names.
LEMMA SubmitStaysTyped ==
  ASSUME TypeInv, WriterInv, NEW r \in Requests, SubmitPut(r) \/ SubmitDelete(r)
  PROVE  TypeInv'
<1>1. /\ req \in [Requests -> Request] /\ req[r] \in Request /\ tx \in [Requests -> Ledger!TxState]
      /\ world \in [Ledger!Keys -> Ledger!Asset] /\ req[r].pc = "submit" /\ world' = world
      /\ req[r].id \in Ids
  <2>1. req[r].pc = "submit"
    BY DEF SubmitPut, SubmitDelete, Step
  <2>2. req[r].id \in Ids
    BY <2>1 DEF WriterInv, FileInv, RequestInv, Active
  <2>3. world' = world
    BY DEF SubmitPut, SubmitDelete, Ledger!PutCiphertext, Ledger!DeleteCiphertext, Ledger!Simulated
  <2>4. QED
    BY <2>1, <2>2, <2>3 DEF TypeInv, TypeOK, Ledger!TypeOK
<1>2. /\ world[req[r].id] \in Ledger!Asset /\ req[r].id \in Ledger!Keys
      /\ req[r].user \in Users
  BY <1>1 DEF Ledger!Keys, TypeInv
<1>3. \E asset \in Ledger!Asset, blind \in BOOLEAN :
        /\ Ledger!Simulated(r, req[r].id, blind, asset)
        /\ req[r].op \in Puts => asset.body \in Body /\ asset.createdAt \in Requests
  <2>1. CASE SubmitPut(r)
    <3> DEFINE body      == [put |-> r, key |-> req[r].key, owner |-> req[r].user]
               createdAt == IF req[r].at = NoTime THEN world[req[r].id].createdAt ELSE req[r].at
               asset     == [version |-> world[req[r].id].version + 1, body |-> body,
                             createdAt |-> createdAt, writer |-> r]
    <3>1. Ledger!Simulated(r, req[r].id, FALSE, asset)
      BY <2>1 DEF SubmitPut, Ledger!PutCiphertext
    <3>2. body \in Body /\ req[r].at \in Requests
      BY <1>1, <1>2, <2>1 DEF Body, Request, TypeInv, SubmitPut, Puts
    <3>3. createdAt \in Requests
      BY <1>2, <3>2 DEF Ledger!Asset
    <3> HIDE DEF body, createdAt
    <3>4. asset \in Ledger!Asset /\ asset.body = body /\ asset.createdAt = createdAt
      BY <1>2, <3>2, <3>3 DEF Ledger!Asset
    <3> HIDE DEF asset
    <3>5. QED
      BY <3>1, <3>2, <3>3, <3>4
  <2>2. CASE SubmitDelete(r)
    <3>1. Ledger!Simulated(r, req[r].id, TRUE, Ledger!Absent) /\ req[r].op \notin Puts
      BY <2>2 DEF SubmitDelete, Ledger!DeleteCiphertext, Puts
    <3>2. Ledger!Absent \in Ledger!Asset
      BY DEF Ledger!Absent, Ledger!Asset
    <3>3. QED
      BY <3>1, <3>2
  <2>3. QED
    BY <2>1, <2>2
<1>4. PICK asset \in Ledger!Asset, blind \in BOOLEAN :
        /\ Ledger!Simulated(r, req[r].id, blind, asset)
        /\ req[r].op \in Puts => asset.body \in Body /\ asset.createdAt \in Requests
  BY <1>3
<1>5. /\ Ledger!TypeOK' /\ tx'[r].write = asset
      /\ \A s \in Requests \ {r} : tx'[s].write = tx[s].write /\ (Sent(s)' => Sent(s))
  <2> DEFINE read == IF blind THEN Nil ELSE world[req[r].id].writer
             call == [stage |-> "endorsed", key |-> req[r].id, blind |-> blind,
                      read |-> read, write |-> asset, answer |-> "none"]
  <2>1. tx' = [tx EXCEPT ![r] = call]
    BY <1>4 DEF Ledger!Simulated
  <2>2. read \in Requests \cup {Nil}
    BY <1>2 DEF Ledger!Asset
  <2> HIDE DEF read
  <2>3. call \in Ledger!TxState /\ call.write = asset
    BY <1>2, <2>2 DEF Ledger!TxState, Ledger!Stages
  <2> HIDE DEF call
  <2>4. QED
    BY <1>1, <2>1, <2>3 DEF Ledger!TypeOK, Sent
<1>6. PICK q \in Request : req' = [req EXCEPT ![r] = q] /\ q.pc = "wait" /\ q.op = req[r].op
  <2> DEFINE q == [req[r] EXCEPT !.pc = "wait"]
  <2>1. q \in Request /\ q.pc = "wait" /\ q.op = req[r].op
    BY <1>1 DEF Request
  <2>2. req' = [req EXCEPT ![r] = q]
    BY <1>1 DEF SubmitPut, SubmitDelete, Step
  <2> HIDE DEF q
  <2>3. QED
    BY <2>1, <2>2
<1>7. /\ file' \in [Ids -> File] /\ draws' \in Nat /\ faults' \in 0..MaxFaults
      /\ last' \in [Ids -> Requests \cup {Nil}]
      /\ \A i \in Ids : Exists(i)' => world'[i].body \in Body /\ world'[i].createdAt \in Requests
  BY <1>1 DEF SubmitPut, SubmitDelete, TypeInv, TypeOK, Exists
<1>8. QED
  BY <1>4, <1>5, <1>6, <1>7, RequestStaysTyped

LEMMA AnswerStaysTyped ==
  ASSUME TypeInv, WriterInv, NEW r \in Requests, SubmitFails(r) \/ SubmitReturns(r)
  PROVE  TypeInv'
<1>1. /\ Ledger!TypeOK'
      /\ \A id \in Ids : Exists(id)' => world'[id].body \in Body /\ world'[id].createdAt \in Requests
      /\ \A s \in Requests : tx'[s].write = tx[s].write /\ (s # r /\ Sent(s)' => Sent(s))
      /\ Sent(r)' => Sent(r)
  BY LedgerStaysTyped DEF SubmitFails, SubmitReturns
<1>2. req \in [Requests -> Request] /\ req[r] \in Request
  BY DEF TypeInv, TypeOK
<1>3. \E q \in Request : /\ req' = [req EXCEPT ![r] = q]
                         /\ q.pc \in {"remove", "truncate", "done"} /\ q.op = req[r].op
  <2> DEFINE on(pc) == [req[r] EXCEPT !.pc = pc]
             failed == [req[r] EXCEPT !.pc = "done", !.result = "error"]
  <2>1. /\ \A pc \in {"remove", "truncate"} : on(pc) \in Request /\ on(pc).pc = pc /\ on(pc).op = req[r].op
        /\ failed \in Request /\ failed.pc = "done" /\ failed.op = req[r].op
    <3>1. \A pc \in {"remove", "truncate"} : on(pc) \in Request /\ on(pc).pc = pc /\ on(pc).op = req[r].op
      BY <1>2 DEF Request
    <3>2. failed \in Request /\ failed.pc = "done" /\ failed.op = req[r].op
      BY <1>2, ZenonT(60) DEF Request
    <3>3. QED
      BY <3>1, <3>2
  <2>2. \/ req' = [req EXCEPT ![r] = on("remove")]
        \/ req' = [req EXCEPT ![r] = on("truncate")]
        \/ req' = [req EXCEPT ![r] = failed]
    <3>1. CASE SubmitFails(r)
      BY <1>2, <3>1 DEF SubmitFails, Finish
    <3>2. CASE SubmitReturns(r) /\ tx'[r].answer = "ok"
      BY <1>2, <3>2 DEF SubmitReturns, Step
    <3>3. CASE SubmitReturns(r) /\ tx'[r].answer # "ok"
      BY <1>2, <3>3 DEF SubmitReturns, Finish
    <3>4. QED
      BY <3>1, <3>2, <3>3
  <2> HIDE DEF on, failed
  <2>3. QED
    BY <2>1, <2>2
<1>4. PICK q \in Request : /\ req' = [req EXCEPT ![r] = q]
                           /\ q.pc \in {"remove", "truncate", "done"} /\ q.op = req[r].op
  BY <1>3
<1>5. /\ file' \in [Ids -> File] /\ draws' \in Nat /\ faults' \in 0..MaxFaults
      /\ last' \in [Ids -> Requests \cup {Nil}]
  BY DEF SubmitFails, SubmitReturns, TypeInv, TypeOK
<1>6. Sent(r)' /\ q.op \in Puts => tx'[r].write.body \in Body /\ tx'[r].write.createdAt \in Requests
  BY <1>1, <1>4 DEF TypeInv
<1>7. QED
  BY <1>1, <1>4, <1>5, <1>6, RequestStaysTyped

LEMMA LedgerStepStaysTyped ==
  ASSUME TypeInv, WriterInv, NEW r \in Requests, LedgerStep(r)
  PROVE  TypeInv'
<1>1. req' = req /\ file' = file /\ draws' = draws /\ last' = last /\ faults' = faults
  BY DEF LedgerStep
<1>2. /\ Ledger!TypeOK'
      /\ \A id \in Ids : Exists(id)' => world'[id].body \in Body /\ world'[id].createdAt \in Requests
      /\ \A s \in Requests : tx'[s].write = tx[s].write /\ (Sent(s)' => Sent(s))
  BY LedgerStaysTyped DEF LedgerStep
<1>3. QED
  BY <1>1, <1>2 DEF TypeInv, TypeOK

LEMMA CrashStaysTyped ==
  ASSUME TypeInv, WriterInv, Crash
  PROVE  TypeInv'
<1>1. world' = world /\ tx' = tx /\ file' = file /\ last' = last /\ draws' = 0 /\ Fault
  BY DEF Crash
<1>2. faults' \in 0..MaxFaults
  BY <1>1, FaultIsTyped
<1>3. \A s \in Requests :
        /\ req'[s] \in Request /\ req'[s].op = req[s].op
        /\ req'[s].pc = "done" \/ req'[s] = req[s]
  <2> SUFFICES ASSUME NEW s \in Requests
               PROVE  /\ req'[s] \in Request /\ req'[s].op = req[s].op
                      /\ req'[s].pc = "done" \/ req'[s] = req[s]
    OBVIOUS
  <2> DEFINE ended == [req[s] EXCEPT !.pc = "done", !.result = "crashed"]
  <2>1. req[s] \in Request
    BY DEF TypeInv, TypeOK
  <2>2. ended \in Request /\ ended.pc = "done" /\ ended.op = req[s].op
    BY <2>1, ZenonT(60) DEF Request
  <2>3. req'[s] = ended \/ req'[s] = req[s]
    BY DEF Crash
  <2> HIDE DEF ended
  <2>4. QED
    BY <2>1, <2>2, <2>3
<1>4. req' \in [Requests -> Request]
  BY <1>3 DEF Crash
<1>5. QED
  BY <1>1, <1>2, <1>3, <1>4 DEF TypeInv, TypeOK, Ledger!TypeOK, Exists, Sent

\* file_service.go:49-306: every variable keeps its type; that a put always has a
\* user and a time, and an asset a body, is needed for it.
THEOREM TypeInvariant == Spec => []TypeInv
<1>1. ASSUME WriterInv, TypeInv, [Next]_vars
      PROVE  TypeInv'
  <2>1. CASE UNCHANGED vars
    BY <1>1, <2>1 DEF vars, TypeInv, TypeOK, Ledger!TypeOK, Exists, Sent
  <2>2. CASE Crash
    BY <1>1, <2>2, CrashStaysTyped
  <2>3. ASSUME NEW r \in Requests,
               Start(r) \/ Continue(r) \/ LedgerStep(r) \/ QueryFails(r) \/ WriteFails(r)
        PROVE  TypeInv'
    BY <1>1, <2>3, StartStaysTyped, PrepareStaysTyped, SubmitStaysTyped, AnswerStaysTyped,
       FinishStaysTyped, LedgerStepStaysTyped DEF Continue
  <2>4. QED
    BY <1>1, <2>1, <2>2, <2>3 DEF Next
<1>2. QED
  BY <1>1, TypeInvInit, WriterInvariant, PTL DEF Spec

\* file_service.go:49-306: type correctness, for all requests, users and assets.
THEOREM TypeCorrect == Spec => []TypeOK
<1>1. TypeInv => TypeOK
  BY DEF TypeInv
<1>2. QED
  BY <1>1, TypeInvariant, PTL
=============================================================================
