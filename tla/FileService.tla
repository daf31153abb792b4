---------------------------- MODULE FileService -----------------------------
(***************************************************************************)
(* user_client/service/file_service.go: encrypting, updating, deleting and *)
(* decrypting shared files.  The ciphertext of the content key is an asset *)
(* of the ledger, the content itself a file <id>.bin on the client's disk; *)
(* nothing makes the two writes one.  All requests of the process share    *)
(* one ABE engine (abe/engine.go), which takes no lock.                    *)
(*                                                                         *)
(* A request is a goroutine serving one HTTP call; it makes at most one    *)
(* SubmitTransaction, so requests name the ledger's transactions.          *)
(*                                                                         *)
(* Abstractions.  Policies and attribute keys are left out: a request that *)
(* fails its checks before its first effect is one that was never made,    *)
(* and the decrypting user holds the keys the policy asks for.  A content  *)
(* is named by the request that stored it, a time by the request that read *)
(* the clock.                                                              *)
(***************************************************************************)
EXTENDS Naturals, FiniteSets

CONSTANTS
  Requests, Users, Ids, Params, Nil, NoTime,
  MaxFaults     \* bound on crashes, failed queries and failed file operations

ASSUME FileServiceAssumption == MaxFaults \in Nat /\ Nil \notin Requests

VARIABLES
  world, tx,    \* the ledger
  file,         \* the data directory: [Ids -> File]
  draws,        \* secrets drawn from the engine's generator since its last load
  req,          \* the requests: [Requests -> Request]
  last,         \* history: the last writer of each asset to have started
  faults        \* how many faults have happened

vars == <<world, tx, file, draws, req, last, faults>>

Body == [put : Requests, key : Nat, owner : Users]

Ledger == INSTANCE ABELedger WITH Tx <- Requests, Bodies <- Body, Times <- Requests

File == [state : {"none", "broken", "whole"}, put : Requests \cup {Nil}, key : Nat]

NoFile     == [state |-> "none",   put |-> Nil, key |-> 0]
BrokenFile == [state |-> "broken", put |-> Nil, key |-> 0]

Writers == {"encrypt", "update", "delete"}

Request ==
  [pc     : {"idle", "load", "draw", "created", "submit", "wait", "truncate",
             "fill", "remove", "open", "done"},
   op     : Writers \cup {"none", "decrypt"},
   id     : Ids \cup {Nil}, user : Users \cup {Nil},
   key    : Nat,                   \* the drawn secret, or the one decrypted
   at     : Requests \cup {Nil},   \* createdAt to be written
   got    : Requests \cup {Nil},   \* whose content a decryption returned
   result : {"none", "ok", "error", "crashed"},
   alone  : BOOLEAN,               \* history: no other writer was at work
   after  : Requests \cup {Nil}]   \* history: last writer when it started

NewRequest(id, u) ==
  [pc |-> "idle", op |-> "none", id |-> id, user |-> u, key |-> 0, at |-> Nil,
   got |-> Nil, result |-> "none", alone |-> FALSE, after |-> Nil]

Init ==
  /\ Ledger!Init
  /\ file = [id \in Ids |-> NoFile]
  /\ draws = 0
  /\ req = [r \in Requests |-> NewRequest(Nil, Nil)]
  /\ last = [id \in Ids |-> Nil]
  /\ faults = 0

-----------------------------------------------------------------------------
Active(r) == req[r].pc \notin {"idle", "done"}

\* A writer of the asset that may still change it: it is running, or its
\* transaction outlives it.
Unsettled(id) ==
  {r \in Requests : /\ req[r].id = id /\ req[r].op \in Writers
                    /\ Active(r) \/ tx[r].stage = "endorsed"}

Exists(id) == world[id].version > 0

Begin(r, u, id, op, pc) ==
  /\ req[r].pc = "idle"
  /\ req' = [req EXCEPT ![r] =
       [NewRequest(id, u) EXCEPT !.pc = pc, !.op = op,
          !.key = IF op = "decrypt" THEN world[id].body.key ELSE 0,
          !.alone = (Unsettled(id) = {}), !.after = last[id]]]
  /\ last' = IF op \in Writers THEN [last EXCEPT ![id] = r] ELSE last

Step(r, from, to) == req[r].pc = from /\ req' = [req EXCEPT ![r].pc = to]

Finish(r, from, result) ==
  /\ req[r].pc = from
  /\ req' = [req EXCEPT ![r].pc = "done", ![r].result = result]

Fault == faults < MaxFaults /\ faults' = faults + 1

-----------------------------------------------------------------------------
(***************************************************************************)
(* Encrypt and Update: putEncrypted.                                       *)
(***************************************************************************)

\* LoadOrgFromJSON seeds the engine's generator anew.
LoadOrg == draws' = 0

\* Up to LoadOrgFromJSON, which is the first effect of a put.  A new asset's
\* id holds the time in nanoseconds: no request has used it.
StartEncrypt(r, u, id) ==
  /\ last[id] = Nil
  /\ Begin(r, u, id, "encrypt", "draw")
  /\ LoadOrg
  /\ UNCHANGED <<world, tx, file, faults>>

\* Any asset id is accepted, whoever owns it and whether or not it exists.
StartUpdate(r, u, id) ==
  /\ Begin(r, u, id, "update", "draw")
  /\ LoadOrg
  /\ UNCHANGED <<world, tx, file, faults>>

\* Faulty variant: an update has no creation time to fall back on.
DrawSecretNoTime(r) ==
  /\ req[r].pc = "draw"
  /\ req' = [req EXCEPT ![r].key = draws,
                        ![r].at = IF req[r].op = "update" THEN Nil ELSE r,
                        ![r].pc = IF req[r].op = "update" THEN "created" ELSE "submit"]
  /\ draws' = draws + 1
  /\ UNCHANGED <<world, tx, file, last, faults>>

\* NewSecret: the generator's next value.  It yields the content key, and the
\* content is sealed with it before anything is written.
DrawSecret(r) ==
  /\ req[r].pc = "draw"
  /\ req' = [req EXCEPT ![r].key = draws,
                        ![r].at = r,
                        ![r].pc = IF req[r].op = "update" THEN "created" ELSE "submit"]
  /\ draws' = draws + 1
  /\ UNCHANGED <<world, tx, file, last, faults>>

\* Faulty variant: the creation time is always the present.
KeepCreatedAtNow(r) ==
  /\ Step(r, "created", "submit")
  /\ UNCHANGED <<world, tx, file, draws, last, faults>>

\* An update takes over the creation time it finds on the ledger ...
KeepCreatedAt(r) ==
  /\ req[r].pc = "created"
  /\ req' = [req EXCEPT ![r].pc = "submit",
                        ![r].at = IF Exists(req[r].id) THEN world[req[r].id].createdAt
                                                       ELSE r]
  /\ UNCHANGED <<world, tx, file, draws, last, faults>>

\* ... and goes on with the present time if the query fails.
QueryFails(r) ==
  /\ Step(r, "created", "submit")
  /\ Fault
  /\ UNCHANGED <<world, tx, file, draws, last>>

SubmitPut(r) ==
  /\ req[r].op \in {"encrypt", "update"}
  /\ Step(r, "submit", "wait")
  /\ Ledger!PutCiphertext(r, req[r].id,
       [put |-> r, key |-> req[r].key, owner |-> req[r].user], req[r].at)
  /\ UNCHANGED <<file, draws, last, faults>>

\* Faulty variant: the error is logged and the file written all the same.
SubmitFailsIgnored(r) ==
  /\ Step(r, "submit", "truncate")
  /\ Ledger!Refuse(r)
  /\ UNCHANGED <<file, draws, last, faults>>

\* SubmitTransaction fails before the transaction is sent.
SubmitFails(r) ==
  /\ Finish(r, "submit", "error")
  /\ Ledger!Refuse(r)
  /\ UNCHANGED <<file, draws, last, faults>>

\* Faulty variant: an error of the commit is passed over.
SubmitReturnsIgnored(r) ==
  /\ Step(r, "wait", IF req[r].op = "delete" THEN "remove" ELSE "truncate")
  /\ Ledger!Answer(r) \/ Ledger!GiveUp(r)
  /\ UNCHANGED <<file, draws, last, faults>>

\* SubmitTransaction returns; an error of any kind ends the request here.
SubmitReturns(r) ==
  /\ req[r].pc = "wait"
  /\ Ledger!Answer(r) \/ Ledger!GiveUp(r)
  /\ IF tx'[r].answer = "ok"
     THEN Step(r, "wait", IF req[r].op = "delete" THEN "remove" ELSE "truncate")
     ELSE Finish(r, "wait", "error")
  /\ UNCHANGED <<file, draws, last, faults>>

\* Faulty variant: the file is opened without O_TRUNC.
OpenUntruncated(r) ==
  /\ Step(r, "truncate", "fill")
  /\ UNCHANGED <<world, tx, file, draws, last, faults>>

\* os.WriteFile opens the file with O_TRUNC ...
TruncateFile(r) ==
  /\ Step(r, "truncate", "fill")
  /\ file' = [file EXCEPT ![req[r].id] = BrokenFile]
  /\ UNCHANGED <<world, tx, draws, last, faults>>

\* Faulty variant: the content is sealed with a secret drawn anew.
FillFileNewKey(r) ==
  /\ Finish(r, "fill", "ok")
  /\ file' = [file EXCEPT ![req[r].id] =
                [state |-> "whole", put |-> r, key |-> draws]]
  /\ UNCHANGED <<world, tx, draws, last, faults>>

\* ... and writes from its start.  What another writer has put there meanwhile
\* may be longer, and then its tail remains.
FillFile(r) ==
  /\ Finish(r, "fill", "ok")
  /\ \/ file' = [file EXCEPT ![req[r].id] =
                   [state |-> "whole", put |-> r, key |-> req[r].key]]
     \/ /\ file[req[r].id].state = "whole"
        /\ file' = [file EXCEPT ![req[r].id] = BrokenFile]
  /\ UNCHANGED <<world, tx, draws, last, faults>>

\* Faulty variant: the error of os.WriteFile is ignored.
WriteFailsIgnored(r) ==
  /\ Finish(r, "truncate", "ok") \/ Finish(r, "fill", "ok")
  /\ Fault
  /\ UNCHANGED <<world, tx, file, draws, last>>

\* The file cannot be opened, or not be written.
WriteFails(r) ==
  /\ Finish(r, "truncate", "error") \/ Finish(r, "fill", "error")
  /\ Fault
  /\ UNCHANGED <<world, tx, file, draws, last>>

-----------------------------------------------------------------------------
(***************************************************************************)
(* Delete.                                                                 *)
(***************************************************************************)

\* Faulty variant: nobody compares the owner.
StartDeleteAnyone(r, u, id) ==
  /\ Exists(id)
  /\ Begin(r, u, id, "delete", "submit")
  /\ UNCHANGED <<world, tx, file, draws, faults>>

\* The owner is compared with the asset as it is now.
StartDelete(r, u, id) ==
  /\ Exists(id)
  /\ world[id].body.owner = u
  /\ Begin(r, u, id, "delete", "submit")
  /\ UNCHANGED <<world, tx, file, draws, faults>>

SubmitDelete(r) ==
  /\ req[r].op = "delete"
  /\ Step(r, "submit", "wait")
  /\ Ledger!DeleteCiphertext(r, req[r].id)
  /\ UNCHANGED <<file, draws, last, faults>>

\* The result of os.Remove is ignored.
RemoveFile(r) ==
  /\ Finish(r, "remove", "ok")
  /\ \/ file' = [file EXCEPT ![req[r].id] = NoFile] /\ UNCHANGED faults
     \/ UNCHANGED file /\ Fault
  /\ UNCHANGED <<world, tx, draws, last>>

-----------------------------------------------------------------------------
(***************************************************************************)
(* Decrypt: the asset first, the file at the end.                          *)
(***************************************************************************)

StartDecrypt(r, u, id) ==
  /\ Exists(id)
  /\ Begin(r, u, id, "decrypt", "load")
  /\ UNCHANGED <<world, tx, file, draws, faults>>

LoadCiphertextOrg(r) ==
  /\ Step(r, "load", "open")
  /\ LoadOrg
  /\ UNCHANGED <<world, tx, file, last, faults>>

\* The file is opened with the key recovered from the asset; GCM detects any
\* other key, and any damage.
OpenFile(r) ==
  /\ req[r].pc = "open"
  /\ LET f == file[req[r].id] IN
     req' = [req EXCEPT ![r].pc = "done",
               ![r].result = IF f.state = "whole" /\ f.key = req[r].key
                             THEN "ok" ELSE "error",
               ![r].got = IF f.state = "whole" /\ f.key = req[r].key
                          THEN f.put ELSE Nil]
  /\ UNCHANGED <<world, tx, file, draws, last, faults>>

-----------------------------------------------------------------------------
\* The process stops and is started again: its requests are gone, its files
\* and the transactions it has sent are not.
Crash ==
  /\ Fault
  /\ \E r \in Requests : Active(r)
  /\ req' = [r \in Requests |->
               IF Active(r) THEN [req[r] EXCEPT !.pc = "done", !.result = "crashed"]
                            ELSE req[r]]
  /\ draws' = 0
  /\ UNCHANGED <<world, tx, file, last>>

LedgerStep(r) ==
  /\ Ledger!Commit(r) \/ Ledger!Invalidate(r) \/ Ledger!Drop(r)
  /\ UNCHANGED <<file, draws, req, last, faults>>

Start(r) ==
  \E u \in Users, id \in Ids :
    \/ StartEncrypt(r, u, id)
    \/ StartUpdate(r, u, id)
    \/ StartDelete(r, u, id)
    \/ StartDecrypt(r, u, id)

Continue(r) ==
  \/ DrawSecret(r) \/ KeepCreatedAt(r)
  \/ SubmitPut(r) \/ SubmitDelete(r) \/ SubmitFails(r) \/ SubmitReturns(r)
  \/ TruncateFile(r) \/ FillFile(r) \/ RemoveFile(r)
  \/ LoadCiphertextOrg(r) \/ OpenFile(r)

Next ==
  \/ \E r \in Requests : \/ Start(r) \/ Continue(r) \/ LedgerStep(r)
                         \/ QueryFails(r) \/ WriteFails(r)
  \/ Crash

Spec == Init /\ [][Next]_vars
-----------------------------------------------------------------------------
(***************************************************************************)
(* Properties.                                                             *)
(***************************************************************************)

\* Every variable has its type.
TypeOK ==
  /\ Ledger!TypeOK
  /\ file \in [Ids -> File]
  /\ draws \in Nat
  /\ req \in [Requests -> Request]
  /\ last \in [Ids -> Requests \cup {Nil}]
  /\ faults \in 0..MaxFaults

\* A file holds only content whose ciphertext the ledger has accepted, sealed
\* with the very key inside that ciphertext: not even requests that meet in
\* the engine, or a crash, leave content behind that was never shared.
StoredFilesCommitted ==
  \A id \in Ids :
    file[id].state = "whole" =>
      LET p == file[id].put IN
        /\ tx[p].stage = "committed" /\ tx[p].key = id
        /\ tx[p].write.body.put = p
        /\ tx[p].write.body.key = file[id].key

\* The last writer stands: when no other writer of the asset was at work while
\* it ran, a reported success means that the asset and the file are both its
\* own (putEncrypted) or that the asset is gone (Delete), whatever earlier
\* crashes, timeouts and races had left behind.
LastWriterStands ==
  \A id \in Ids :
    LET p == last[id] IN
      p # Nil /\ req[p].alone /\ req[p].result = "ok" =>
        IF req[p].op = "delete"
        THEN ~Exists(id)
        ELSE /\ Exists(id) /\ world[id].body.put = p
             /\ file[id] = [state |-> "whole", put |-> p, key |-> world[id].body.key]

\* A reader with the keys gets the content: a decryption that no writer of the
\* asset overlaps, after a successful undisturbed write, succeeds and returns
\* what that write stored.
QuietDecryptSucceeds ==
  \A r \in Requests :
    /\ req[r].op = "decrypt" /\ req[r].alone
    /\ req[r].result \in {"ok", "error"}
    /\ req[r].after = last[req[r].id]
    /\ req[last[req[r].id]].alone /\ req[last[req[r].id]].result = "ok"
    => req[r].result = "ok" /\ req[r].got = last[req[r].id]

\* An update leaves the asset's creation time as it was, unless the query for
\* it failed or another writer came between.
CreatedAtKept ==
  [][\A id \in Ids :
       /\ Exists(id) /\ Exists(id)' /\ world'[id] # world[id]
       /\ last[id] = world'[id].writer /\ req[world'[id].writer].alone
       /\ faults = 0
       => world'[id].createdAt = world[id].createdAt]_vars

\* The asset a Delete removes still belongs to the user whose ownership was
\* checked before the transaction was sent, unless another writer came
\* between the check and the commit.
OwnerDeletes ==
  [][\A id \in Ids :
       /\ Exists(id) /\ ~Exists(id)'
       /\ last[id] # Nil /\ req[last[id]].alone
       => req[last[id]].user = world[id].body.owner]_vars
=============================================================================
