----------------------------- MODULE AuthAdmin ------------------------------
(***************************************************************************)
(* auth_admin/main.go: one server per organization.  initOrg creates the   *)
(* organization's group and authority keys, or loads the ones recorded in  *)
(* the database, and then publishes the public key in the global           *)
(* parameters on the ledger by reading the whole table of keys, adding its *)
(* own and writing the table back; handleIssueKey issues user keys.  Both  *)
(* work on the server's single ABE engine (abe/engine.go), which takes no  *)
(* lock; initOrg is called by the console and by the HTTP handler.         *)
(*                                                                         *)
(* A request is one call of initOrg or of handleIssueKey; a call of        *)
(* initOrg submits at most one transaction, so requests name the ledger's  *)
(* transactions.  A group and a key pair are named by the request that     *)
(* drew them: each draw is fresh.                                          *)
(***************************************************************************)
EXTENDS Naturals, FiniteSets

CONSTANTS
  Requests, Orgs, Params, Nil, NoTime,
  MaxFaults     \* bound on crashes, failed database calls and failed queries

ASSUME AuthAdminAssumption == MaxFaults \in Nat /\ Nil \notin Requests

VARIABLES
  world, tx,    \* the ledger
  engine,       \* each server's ABE engine
  row,          \* each organization's row of the database
  req,          \* the requests
  faults,       \* how many faults have happened
  disturbed     \* history: the organizations for which two calls of initOrg
                \* overlapped, or a database error was passed over

vars == <<world, tx, engine, row, req, faults, disturbed>>

(***************************************************************************)
(* A half of an authority's key pair: the group it lives in and the draw   *)
(* it comes from.                                                          *)
(***************************************************************************)
Key == [group : Requests \cup {Nil}, draw : Requests \cup {Nil}]
NoKey == [group |-> Nil, draw |-> Nil]

\* OrgJSON, AuthPubJSON and AuthPrvJSON: in a row, and in the engine.
Record == [org : Requests \cup {Nil}, pub : Key, prv : Key]
NoRecord == [org |-> Nil, pub |-> NoKey, prv |-> NoKey]

\* orgPubKeys of the global parameters; NoKey where the table has no entry.
Table == [Orgs -> Key]
EmptyTable == [o \in Orgs |-> NoKey]

Ledger == INSTANCE ABELedger
            WITH Tx <- Requests, Ids <- {}, Bodies <- Table, Times <- {}

Request ==
  [pc     : {"idle", "save", "loadOrg", "loadAuth", "initOrg", "initAuth",
             "readOrg", "readPub", "readPrv", "lookup", "create", "update",
             "sync", "submit", "wait", "issue", "done"},
   op     : {"none", "init", "issue"},
   org    : Orgs \cup {Nil},
   rec    : Record,      \* the row it read, or the record it is building
   table  : Table,       \* the table it will write
   issued : Key,         \* the authority key a user key was issued under
   alone  : BOOLEAN]     \* history: a call of initOrg that no other has met,
                         \* and none has followed so far

NewRequest == [pc |-> "idle", op |-> "none", org |-> Nil, rec |-> NoRecord,
               table |-> EmptyTable, issued |-> NoKey, alone |-> FALSE]

Init ==
  /\ Ledger!Init
  /\ engine = [o \in Orgs |-> NoRecord]
  /\ row = [o \in Orgs |-> NoRecord]
  /\ req = [r \in Requests |-> NewRequest]
  /\ faults = 0
  /\ disturbed = {}

-----------------------------------------------------------------------------
ledger == <<world, tx>>

Present(o) == row[o] # NoRecord

Active(r) == req[r].pc \notin {"idle", "done"}

Initializing(o) == {r \in Requests : Active(r) /\ req[r].org = o /\ req[r].op = "init"}

Step(r, from, to) == req[r].pc = from /\ req' = [req EXCEPT ![r].pc = to]

Fault == faults < MaxFaults /\ faults' = faults + 1

\* No call of initOrg is under way, nor a transaction of one.
Quiet == \A q \in Requests :
           req[q].op = "init" => ~Active(q) /\ tx[q].stage # "endorsed"

Begin(r, o, op, pc, rec) ==
  /\ req[r].pc = "idle"
  /\ req' = [q \in Requests |->
       IF q = r
       THEN [NewRequest EXCEPT !.pc = pc, !.op = op, !.org = o, !.rec = rec,
                               !.alone = op = "init" /\ Quiet]
       ELSE [req[q] EXCEPT !.alone = @ /\ op # "init"]]

-----------------------------------------------------------------------------
(***************************************************************************)
(* initOrg.                                                                *)
(***************************************************************************)

\* Faulty variant: the existing row is not looked at.
StartInitAfresh(r, o) ==
  /\ Begin(r, o, "init", "initOrg", NoRecord)
  /\ disturbed' = IF Initializing(o) = {} THEN disturbed ELSE disturbed \cup {o}
  /\ UNCHANGED <<ledger, engine, row, faults>>

\* A complete row is used again; otherwise a new record is made.
StartInit(r, o) ==
  /\ IF Present(o) THEN Begin(r, o, "init", "save", row[o])
                   ELSE Begin(r, o, "init", "initOrg", NoRecord)
  /\ disturbed' = IF Initializing(o) = {} THEN disturbed ELSE disturbed \cup {o}
  /\ UNCHANGED <<ledger, engine, row, faults>>

\* A failed query counts as "no row".
StartInitQueryFails(r, o) ==
  /\ Begin(r, o, "init", "initOrg", NoRecord)
  /\ Fault
  /\ disturbed' = disturbed \cup {o}
  /\ UNCHANGED <<ledger, engine, row>>

\* Faulty variant: the row is saved from the engine, before it is loaded.
SaveRowFromEngine(r) ==
  /\ Step(r, "save", "loadOrg")
  /\ row' = [row EXCEPT ![req[r].org] = engine[req[r].org]]
  /\ UNCHANGED <<ledger, engine, faults, disturbed>>

\* Save writes back every column of the row that was read.
SaveRow(r) ==
  /\ Step(r, "save", "loadOrg")
  /\ row' = [row EXCEPT ![req[r].org] = req[r].rec]
  /\ UNCHANGED <<ledger, engine, faults, disturbed>>

SaveFails(r) ==
  /\ Step(r, "save", "done")
  /\ Fault
  /\ UNCHANGED <<ledger, engine, row, disturbed>>

LoadOrgFromJSON(r) ==
  /\ Step(r, "loadOrg", "loadAuth")
  /\ engine' = [engine EXCEPT ![req[r].org].org = req[r].rec.org]
  /\ UNCHANGED <<ledger, row, faults, disturbed>>

LoadAuthFromJSON(r) ==
  /\ Step(r, "loadAuth", IF req[r].op = "init" THEN "sync" ELSE "issue")
  /\ engine' = [engine EXCEPT ![req[r].org].pub = req[r].rec.pub,
                              ![req[r].org].prv = req[r].rec.prv]
  /\ UNCHANGED <<ledger, row, faults, disturbed>>

InitOrg(r) ==
  /\ Step(r, "initOrg", "initAuth")
  /\ engine' = [engine EXCEPT ![req[r].org].org = r]
  /\ UNCHANGED <<ledger, row, faults, disturbed>>

\* The key pair is drawn in the engine's present group.
InitAuthority(r) ==
  LET o == req[r].org
      k == [group |-> engine[o].org, draw |-> r]
  IN /\ Step(r, "initAuth", "readOrg")
     /\ engine' = [engine EXCEPT ![o].pub = k, ![o].prv = k]
     /\ UNCHANGED <<ledger, row, faults, disturbed>>

\* The record is put together from three readings of the engine.
ReadEngine(r) ==
  LET e == engine[req[r].org] IN
  /\ \/ /\ req[r].pc = "readOrg"
        /\ req' = [req EXCEPT ![r].rec.org = e.org, ![r].pc = "readPub"]
     \/ /\ req[r].pc = "readPub"
        /\ req' = [req EXCEPT ![r].rec.pub = e.pub, ![r].pc = "readPrv"]
     \/ /\ req[r].pc = "readPrv"
        /\ req' = [req EXCEPT ![r].rec.prv = e.prv, ![r].pc = "lookup"]
  /\ UNCHANGED <<ledger, engine, row, faults, disturbed>>

\* FirstOrCreate looks for the row ...
LookupRow(r) ==
  /\ Step(r, "lookup", IF Present(req[r].org) THEN "update" ELSE "create")
  /\ UNCHANGED <<ledger, engine, row, faults, disturbed>>

\* Faulty variant: only a row that exists is written.
StoreRowUpdatesOnly(r) ==
  /\ Step(r, "create", "sync") \/ Step(r, "update", "sync")
  /\ row' = IF req[r].pc = "create" THEN row
            ELSE [row EXCEPT ![req[r].org] = req[r].rec]
  /\ UNCHANGED <<ledger, engine, faults, disturbed>>

\* ... and creates it, which the unique index on the name refuses if there is
\* one by now, or assigns the new values to the row it found.
StoreRow(r) ==
  /\ Step(r, "create", "sync") \/ Step(r, "update", "sync")
  /\ row' = IF req[r].pc = "create" /\ Present(req[r].org) THEN row
            ELSE [row EXCEPT ![req[r].org] = req[r].rec]
  /\ UNCHANGED <<ledger, engine, faults, disturbed>>

\* The error of FirstOrCreate is not looked at: the call goes on.
StoreFails(r) ==
  /\ req[r].pc \in {"lookup", "create", "update"}
  /\ req' = [req EXCEPT ![r].pc = "sync", ![r].alone = FALSE]
  /\ Fault
  /\ disturbed' = disturbed \cup {req[r].org}
  /\ UNCHANGED <<ledger, engine, row>>

-----------------------------------------------------------------------------
(***************************************************************************)
(* syncGlobalParamsToChain.  Its failures are logged and not returned.     *)
(***************************************************************************)
GatewayUnavailable(r) ==
  /\ Step(r, "sync", "done")
  /\ UNCHANGED <<ledger, engine, row, faults, disturbed>>

\* Faulty variant: an entry the table already has is left alone.
WithOwnKeyOnce(r, table) ==
  IF table[req[r].org] # NoKey THEN table
  ELSE [table EXCEPT ![req[r].org] = req[r].rec.pub]

WithOwnKey(r, table) == [table EXCEPT ![req[r].org] = req[r].rec.pub]

ReadParams(r) ==
  /\ req[r].pc = "sync"
  /\ req' = [req EXCEPT ![r].pc = "submit",
               ![r].table = WithOwnKey(r, IF world[Params].version > 0
                                          THEN world[Params].body ELSE EmptyTable)]
  /\ UNCHANGED <<ledger, engine, row, faults, disturbed>>

\* A failed query counts as an empty table.
ReadParamsFails(r) ==
  /\ req[r].pc = "sync"
  /\ req' = [req EXCEPT ![r].pc = "submit", ![r].table = WithOwnKey(r, EmptyTable)]
  /\ Fault
  /\ UNCHANGED <<ledger, engine, row, disturbed>>

\* The server signs with its organization's administrator identity.
SubmitParams(r) ==
  /\ Step(r, "submit", "wait")
  /\ \E caller \in Ledger!Callers : Ledger!PutGlobalParams(r, caller, req[r].table)
  /\ UNCHANGED <<engine, row, faults, disturbed>>

SubmitFails(r) ==
  /\ Step(r, "submit", "done")
  /\ Ledger!Refuse(r)
  /\ UNCHANGED <<engine, row, faults, disturbed>>

SubmitReturns(r) ==
  /\ Step(r, "wait", "done")
  /\ Ledger!Answer(r) \/ Ledger!GiveUp(r)
  /\ UNCHANGED <<engine, row, faults, disturbed>>

-----------------------------------------------------------------------------
(***************************************************************************)
(* handleIssueKey: the row is loaded into the engine, and the key issued   *)
(* under whatever authority key the engine then holds.                     *)
(***************************************************************************)
\* Faulty variant: the engine is trusted to hold the organization's keys.
StartIssueFromEngine(r, o) ==
  /\ Begin(r, o, "issue", "issue", row[o])
  /\ UNCHANGED <<ledger, engine, row, faults, disturbed>>

StartIssue(r, o) ==
  /\ Present(o)
  /\ Begin(r, o, "issue", "loadOrg", row[o])
  /\ UNCHANGED <<ledger, engine, row, faults, disturbed>>

IssueUserKey(r) ==
  /\ req[r].pc = "issue"
  /\ req' = [req EXCEPT ![r].pc = "done", ![r].issued = engine[req[r].org].prv]
  /\ UNCHANGED <<ledger, engine, row, faults, disturbed>>

-----------------------------------------------------------------------------
\* Faulty variant: bootstrapOrg leaves no engine behind when there is no row.
CrashNoEngine(o) ==
  /\ Fault
  /\ \E r \in Requests : Active(r) /\ req[r].org = o
  /\ req' = [r \in Requests |-> IF Active(r) /\ req[r].org = o
                                THEN [req[r] EXCEPT !.pc = "done"] ELSE req[r]]
  /\ engine' = [engine EXCEPT ![o] = IF Present(o) THEN [NoRecord EXCEPT !.org = row[o].org]
                                     ELSE Nil]
  /\ UNCHANGED <<ledger, row, disturbed>>

\* A server stops and is started again: bootstrapOrg loads the group only.
Crash(o) ==
  /\ Fault
  /\ \E r \in Requests : Active(r) /\ req[r].org = o
  /\ req' = [r \in Requests |-> IF Active(r) /\ req[r].org = o
                                THEN [req[r] EXCEPT !.pc = "done"] ELSE req[r]]
  /\ engine' = [engine EXCEPT ![o] = [NoRecord EXCEPT !.org = row[o].org]]
  /\ UNCHANGED <<ledger, row, disturbed>>

LedgerStep(r) ==
  /\ Ledger!Commit(r) \/ Ledger!Invalidate(r) \/ Ledger!Drop(r)
  /\ UNCHANGED <<engine, row, req, faults, disturbed>>

Start(r, o) == StartInit(r, o) \/ StartInitQueryFails(r, o) \/ StartIssue(r, o)

Continue(r) ==
  \/ SaveRow(r) \/ SaveFails(r) \/ LoadOrgFromJSON(r) \/ LoadAuthFromJSON(r)
  \/ InitOrg(r) \/ InitAuthority(r) \/ ReadEngine(r)
  \/ LookupRow(r) \/ StoreRow(r) \/ StoreFails(r)
  \/ GatewayUnavailable(r) \/ ReadParams(r) \/ ReadParamsFails(r)
  \/ SubmitParams(r) \/ SubmitFails(r) \/ SubmitReturns(r)
  \/ IssueUserKey(r)

Next ==
  \/ \E r \in Requests : (\E o \in Orgs : Start(r, o)) \/ Continue(r) \/ LedgerStep(r)
  \/ \E o \in Orgs : Crash(o)

Spec == Init /\ [][Next]_vars

-----------------------------------------------------------------------------
(***************************************************************************)
(* Properties.                                                             *)
(***************************************************************************)

\* Every variable has its type.
TypeOK ==
  /\ Ledger!TypeOK
  /\ engine \in [Orgs -> Record]
  /\ row \in [Orgs -> Record]
  /\ req \in [Requests -> Request]
  /\ faults \in 0..MaxFaults
  /\ disturbed \subseteq Orgs

Published(o) == IF world[Params].version > 0 THEN world[Params].body[o] ELSE NoKey

\* The public key that encryptors take from the ledger is the one whose
\* private half the organization has on record, whichever of the two servers
\* wrote the table last, and through crashes and late commits.
PublishedKeyRecorded ==
  \A o \in Orgs \ disturbed :
    Published(o) # NoKey => Published(o) = row[o].pub

\* The group, the public and the private key of a row belong together,
\* whichever crashes and failed calls interrupted the calls that wrote them.
RecordBelongsTogether ==
  \A o \in Orgs \ disturbed :
    Present(o) => row[o].pub = row[o].prv /\ row[o].pub.group = row[o].org

\* Every user key is issued under the recorded private key, so it opens what
\* is encrypted under the published public key, although another request can
\* reload the engine between loading and issuing.
IssuedUnderPublishedKey ==
  \A r \in Requests :
    req[r].issued # NoKey /\ req[r].org \notin disturbed =>
      /\ req[r].issued = row[req[r].org].prv
      /\ Published(req[r].org) \in {NoKey, req[r].issued}

\* Initializing an organization again, in whatever state a crash left it,
\* never replaces the keys that user keys and ciphertexts depend on.
KeysNeverReplaced ==
  [][\A o \in Orgs \ disturbed' : Present(o) => row'[o] = row[o]]_vars

\* Calling initOrg again repairs what went wrong before: when no other call
\* met it, its own database calls worked and the ledger has confirmed its
\* write, the published key is the recorded one, even after overlapping calls
\* and passed-over errors had set the two apart.
QuietInitRepairs ==
  \A r \in Requests :
    req[r].alone /\ req[r].pc = "done" /\ tx[r].answer = "ok" =>
      Published(req[r].org) = row[req[r].org].pub

\* What "synchronizing" an organization's parameters should achieve: when the
\* ledger has confirmed the write of initOrg and the call has returned, the
\* organization's key is in the table.
SynchronizedKeyIsPublished ==
  \A r \in Requests :
    req[r].pc = "done" /\ tx[r].answer = "ok" => Published(req[r].org) # NoKey

\* What a multi-authority policy needs: two published authority keys lie in
\* one group.  FillAuthPubsFromChain refuses a policy over any others.
AuthoritiesShareGroup ==
  \A o, p \in Orgs :
    Published(o) # NoKey /\ Published(p) # NoKey =>
      Published(o).group = Published(p).group
=============================================================================
