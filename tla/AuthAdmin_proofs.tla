--------------------------- MODULE AuthAdmin_proofs -------------------------
(***************************************************************************)
(* The keys of an organization for which no two calls of initOrg have met  *)
(* and no database error was passed over; and that a call which no other   *)
(* meets repairs what was passed over before: for any number of requests,  *)
(* organizations, crashes and failures.                                    *)
(***************************************************************************)
EXTENDS AuthAdmin, TLAPS

TxFields  == {"stage", "key", "blind", "read", "write", "answer"}
ReqFields == {"pc", "op", "org", "rec", "table", "issued", "alone"}
RecFields == {"org", "pub", "prv"}

Shape ==
  /\ DOMAIN tx = Requests /\ Params \in DOMAIN world
  /\ \A r \in Requests :
       /\ DOMAIN tx[r] = TxFields
       /\ tx[r].stage = "endorsed" =>
            tx[r].key = Params /\ DOMAIN tx[r].write.body = Orgs
  /\ world[Params].version > 0 => DOMAIN world[Params].body = Orgs
  /\ DOMAIN engine = Orgs /\ \A o \in Orgs : DOMAIN engine[o] = RecFields
  /\ DOMAIN row = Orgs
  /\ DOMAIN req = Requests
  /\ \A r \in Requests :
       /\ DOMAIN req[r] = ReqFields
       /\ DOMAIN req[r].rec = RecFields /\ DOMAIN req[r].table = Orgs
       /\ Active(r) => req[r].org \in Orgs /\ req[r].op \in {"init", "issue"}
       /\ req[r].issued # NoKey => req[r].org \in Orgs
  /\ \A o \in Orgs : DOMAIN row[o] = RecFields

Pair(r) == [group |-> r, draw |-> r]

\* What the call r records is what it drew itself.
DrawnBy(rec, r) == rec.org = r /\ rec.pub = Pair(r) /\ rec.prv = Pair(r)

RecordInv(o) == Present(o) => \E r \in Requests : DrawnBy(row[o], r)

\* A call of initOrg that has found the row, or made it, holds what is in it;
\* one that is making a record has the engine for itself.
InitCall(r, o) ==
  /\ req[r].pc \notin {"update", "issue"}
  /\ req[r].pc \in {"save", "loadOrg", "loadAuth", "sync", "submit", "wait"} =>
       Present(o) /\ req[r].rec = row[o]
  /\ req[r].pc \in {"initOrg", "initAuth", "readOrg", "readPub", "readPrv", "lookup", "create"} =>
       ~Present(o)
  /\ req[r].pc \in {"initAuth", "readOrg", "readPub", "readPrv"} => engine[o].org = r
  /\ req[r].pc \in {"readOrg", "readPub", "readPrv"} =>
       engine[o].pub = Pair(r) /\ engine[o].prv = Pair(r)
  /\ req[r].pc \in {"readPub", "readPrv", "lookup", "create"} => req[r].rec.org = r
  /\ req[r].pc \in {"readPrv", "lookup", "create"} => req[r].rec.pub = Pair(r)
  /\ req[r].pc \in {"lookup", "create"} => req[r].rec.prv = Pair(r)

InitInv(o) ==
  \A r \in Initializing(o) : InitCall(r, o) /\ \A s \in Initializing(o) : s = r

\* A key issue has the row's keys in the engine when it issues.
IssueCall(r, o) ==
  /\ req[r].pc \in {"loadOrg", "loadAuth", "issue"}
  /\ Present(o) /\ req[r].rec = row[o]
  /\ req[r].pc = "issue" => engine[o].prv = row[o].prv

IssueInv(o) ==
  \A r \in Requests :
    /\ Active(r) /\ req[r].org = o /\ req[r].op = "issue" => IssueCall(r, o)
    /\ req[r].issued # NoKey /\ req[r].org = o => Present(o) /\ req[r].issued = row[o].prv

\* Every table of keys, whoever is about to write it, has the recorded public
\* key or none.
TableInv(o) ==
  /\ Published(o) \in {NoKey, row[o].pub}
  /\ \A r \in Requests :
       /\ req[r].pc = "submit" => req[r].table[o] \in {NoKey, row[o].pub}
       /\ tx[r].stage = "endorsed" => tx[r].write.body[o] \in {NoKey, row[o].pub}

OrgInv(o) == RecordInv(o) /\ InitInv(o) /\ IssueInv(o) /\ TableInv(o)

AdminInv == Shape /\ \A o \in Orgs \ disturbed : OrgInv(o)

-----------------------------------------------------------------------------
(***************************************************************************)
(* What a step leaves alone.                                               *)
(***************************************************************************)

Kept(r) == /\ req'[r].op = req[r].op /\ req'[r].org = req[r].org
           /\ req'[r].rec = req[r].rec /\ req'[r].table = req[r].table
           /\ req'[r].issued = req[r].issued

\* Only the call r goes on.
Only(r) ==
  /\ DOMAIN req' = Requests /\ \A s \in Requests : DOMAIN req'[s] = ReqFields
  /\ \A s \in Requests \ {r} : req'[s].pc = req[s].pc /\ Kept(s)

\* The tables of keys on their way to the ledger, and the one there.
TablesKept(o) ==
  /\ Published(o)' \in {NoKey, row[o].pub}
  /\ \A s \in Requests :
       tx'[s].stage = "endorsed" => tx'[s].write.body[o] \in {NoKey, row[o].pub}

LEMMA StepIsOnly ==
  ASSUME Shape, NEW r \in Requests, NEW from, NEW to, Step(r, from, to)
  PROVE  Only(r) /\ Kept(r) /\ req[r].pc = from /\ req'[r].pc = to
BY DEF Shape, Step, Only, Kept, ReqFields

LEMMA LedgerAlone ==
  ASSUME NEW o \in Orgs, TableInv(o), UNCHANGED ledger
  PROVE  TablesKept(o)
BY DEF TableInv, TablesKept, ledger, Published

\* A step of a call leaves the other organizations' keys as they are.
LEMMA OthersStay ==
  ASSUME NEW o \in Orgs, OrgInv(o), NEW r \in Requests, Only(r), TablesKept(o),
         engine'[o] = engine[o], row'[o] = row[o],
         req'[r].org # o,
         req'[r].pc = "submit" => req'[r].table[o] \in {NoKey, row[o].pub}
  PROVE  OrgInv(o)'
<1>1. \A s \in Requests : req'[s].org = o /\ Active(s)' =>
        s # r /\ Active(s) /\ req'[s].pc = req[s].pc /\ Kept(s)
  BY DEF Only, Kept, Active
<1>2. RecordInv(o)'
  BY DEF OrgInv, RecordInv, Present, DrawnBy, Pair
<1>3. InitInv(o)'
  <2>1. \A s \in Initializing(o)' : s \in Initializing(o) /\ req'[s].pc = req[s].pc /\ Kept(s)
    BY <1>1 DEF Initializing, Kept
  <2>2. ASSUME NEW s \in Initializing(o)'
        PROVE  InitCall(s, o)'
    <3>1. InitCall(s, o) /\ req'[s].pc = req[s].pc /\ req'[s].rec = req[s].rec
      BY <2>1 DEF OrgInv, InitInv, Kept
    <3>2. QED
      BY <3>1 DEF InitCall, Present
  <2>3. QED
    BY <2>1, <2>2 DEF OrgInv, InitInv
<1>4. IssueInv(o)'
  BY <1>1 DEF OrgInv, IssueInv, IssueCall, Present, Only, Kept
<1>5. TableInv(o)'
  BY DEF OrgInv, TableInv, TablesKept, Only, Kept
<1>6. QED
  BY <1>2, <1>3, <1>4, <1>5 DEF OrgInv

\* A call of initOrg, alone with its organization, that leaves the row alone.
LEMMA InitStays ==
  ASSUME NEW o \in Orgs, OrgInv(o), NEW r \in Initializing(o), Only(r), TablesKept(o),
         row'[o] = row[o],
         \/ engine'[o].prv = engine[o].prv
         \/ ~Present(o)
         \/ engine'[o].prv = row[o].prv,
         req'[r].org = o, req'[r].op = "init", req'[r].issued = req[r].issued,
         Active(r)' => InitCall(r, o)',
         req'[r].pc = "submit" => req'[r].table[o] \in {NoKey, row[o].pub}
  PROVE  OrgInv(o)'
<1>1. r \in Requests /\ req[r].org = o /\ Active(r)
  BY DEF Initializing
<1>2. RecordInv(o)'
  BY DEF OrgInv, RecordInv, Present, DrawnBy, Pair
<1>3. \A s \in Initializing(o)' : s = r
  BY <1>1 DEF OrgInv, InitInv, Initializing, Only, Kept, Active
<1>4. InitInv(o)'
  BY <1>3 DEF InitInv, Initializing
<1>5. IssueInv(o)'
  <2>1. \A s \in Requests \ {r} : Active(s)' <=> Active(s)
    BY DEF Only, Active
  <2>2. QED
    BY <1>1, <2>1 DEF OrgInv, IssueInv, IssueCall, Present, Only, Kept
<1>6. TableInv(o)'
  BY <1>1 DEF OrgInv, TableInv, TablesKept, Only, Kept
<1>7. QED
  BY <1>2, <1>4, <1>5, <1>6 DEF OrgInv

\* A step of a key issue.
LEMMA IssueStays ==
  ASSUME NEW o \in Orgs, OrgInv(o), NEW r \in Requests, Only(r), TablesKept(o),
         Present(o), row'[o] = row[o],
         \/ engine'[o].prv = engine[o].prv
         \/ engine'[o].prv = row[o].prv,
         req'[r].org = o, req'[r].op = "issue", req'[r].pc # "submit",
         ~(Active(r) /\ req[r].org = o /\ req[r].op = "init"),
         req'[r].issued # NoKey => req'[r].issued = row[o].prv,
         Active(r)' => IssueCall(r, o)'
  PROVE  OrgInv(o)'
<1>1. RecordInv(o)'
  BY DEF OrgInv, RecordInv, Present, DrawnBy, Pair
<1>2. \A s \in Initializing(o)' : s \in Initializing(o) /\ s # r /\ req'[s].pc = req[s].pc /\ Kept(s)
  BY DEF Initializing, Only, Kept, Active
<1>3. InitInv(o)'
  <2>1. \A s \in Initializing(o)' : InitCall(s, o)'
    BY <1>2 DEF OrgInv, InitInv, InitCall, Present, Kept, Initializing, Active
  <2>2. QED
    BY <1>2, <2>1 DEF OrgInv, InitInv
<1>4. IssueInv(o)'
  <2>1. \A s \in Requests \ {r} : Active(s)' <=> Active(s)
    BY DEF Only, Active
  <2>2. QED
    BY <2>1 DEF OrgInv, IssueInv, IssueCall, Present, Only, Kept
<1>5. TableInv(o)'
  BY DEF OrgInv, TableInv, TablesKept, Only, Kept
<1>6. QED
  BY <1>1, <1>3, <1>4, <1>5 DEF OrgInv

-----------------------------------------------------------------------------
(***************************************************************************)
(* Steps of a call that leave the ledger alone.                            *)
(***************************************************************************)

LEMMA CallKinds ==
  ASSUME AdminInv, NEW r \in Requests, Active(r), NEW o, o = req[r].org, o \notin disturbed
  PROVE  /\ o \in Orgs /\ OrgInv(o)
         /\ \/ req[r].op = "init" /\ r \in Initializing(o) /\ InitCall(r, o)
            \/ req[r].op = "issue" /\ IssueCall(r, o)
BY DEF AdminInv, Shape, OrgInv, InitInv, IssueInv, Initializing

LEMMA ShapeStays ==
  ASSUME Shape, NEW r \in Requests, Active(r), Only(r), UNCHANGED ledger,
         DOMAIN engine' = Orgs, \A o \in Orgs : DOMAIN engine'[o] = RecFields,
         DOMAIN row' = Orgs, \A o \in Orgs : DOMAIN row'[o] = RecFields,
         DOMAIN req'[r].rec = RecFields, DOMAIN req'[r].table = Orgs,
         req'[r].org = req[r].org, req'[r].op = req[r].op
  PROVE  Shape'
<1>1. \A s \in Requests : /\ DOMAIN req'[s].rec = RecFields /\ DOMAIN req'[s].table = Orgs
                          /\ req'[s].org = req[s].org /\ req'[s].op = req[s].op
                          /\ Active(s)' => Active(s)
                          /\ req'[s].issued # NoKey => req'[s].org \in Orgs
  BY DEF Shape, Only, Kept, Active
<1>2. QED
  BY <1>1 DEF Shape, Only, ledger

\* It suffices to look at the call's own organization.
LEMMA OwnSuffices ==
  ASSUME AdminInv, Shape', NEW r \in Requests, Only(r), UNCHANGED ledger,
         NEW p, p = req'[r].org, disturbed \subseteq disturbed',
         \A o \in Orgs \ {p} : engine'[o] = engine[o] /\ row'[o] = row[o],
         req'[r].pc = "submit" =>
           \A o \in Orgs \ disturbed : req'[r].table[o] \in {NoKey, row[o].pub},
         p \in Orgs \ disturbed' => OrgInv(p)'
  PROVE  AdminInv'
<1>1. SUFFICES ASSUME NEW o \in Orgs \ disturbed', o # p
               PROVE  OrgInv(o)'
  BY DEF AdminInv
<1>2. OrgInv(o) /\ TablesKept(o)
  BY <1>1, LedgerAlone DEF AdminInv, OrgInv
<1>3. QED
  BY <1>1, <1>2, OthersStay

LEMMA SaveRowKeepsInv ==
  ASSUME AdminInv, NEW r \in Requests, SaveRow(r)
  PROVE  AdminInv'
<1> DEFINE p == req[r].org
<1>1. Only(r) /\ Kept(r) /\ req[r].pc = "save" /\ req'[r].pc = "loadOrg"
  BY StepIsOnly DEF SaveRow, AdminInv
<1>2. Active(r) /\ p \in Orgs
  BY <1>1 DEF Active, AdminInv, Shape
<1>3. /\ UNCHANGED <<ledger, engine, disturbed>>
      /\ DOMAIN row' = Orgs /\ row'[p] = req[r].rec
      /\ \A o \in Orgs \ {p} : row'[o] = row[o]
  BY <1>2 DEF SaveRow, AdminInv, Shape
<1>4. Shape'
  BY <1>1, <1>2, <1>3, ShapeStays DEF AdminInv, Shape, Kept
<1>5. ASSUME p \notin disturbed
      PROVE  OrgInv(p)'
  <2>1. /\ OrgInv(p) /\ r \in Initializing(p) /\ InitCall(r, p) /\ req[r].op = "init"
        /\ row[p] = req[r].rec
    BY <1>1, <1>2, <1>5, CallKinds DEF IssueCall, InitCall
  <2>2. row'[p] = row[p] /\ TablesKept(p)
    BY <1>2, <1>3, <2>1, LedgerAlone DEF OrgInv
  <2>3. InitCall(r, p)'
    BY <1>1, <1>3, <2>1, <2>2 DEF InitCall, Kept, Present
  <2>4. QED
    BY <1>1, <1>2, <1>3, <2>1, <2>2, <2>3, InitStays DEF Kept
<1>6. QED
  BY <1>1, <1>2, <1>3, <1>4, <1>5, OwnSuffices DEF Kept

\* Steps that only move on: a failed save, an unreachable gateway, and the look
\* for the row, which is not there when the call has drawn new keys.
LEMMA MoveKeepsInv ==
  ASSUME AdminInv, NEW r \in Requests,
         SaveFails(r) \/ GatewayUnavailable(r) \/ LookupRow(r)
  PROVE  AdminInv'
<1> DEFINE p == req[r].org
<1>1. /\ Only(r) /\ Kept(r)
      /\ \/ req[r].pc \in {"save", "sync"} /\ req'[r].pc = "done"
         \/ /\ req[r].pc = "lookup"
            /\ req'[r].pc = IF Present(p) THEN "update" ELSE "create"
  BY StepIsOnly DEF SaveFails, GatewayUnavailable, LookupRow, AdminInv
<1>2. Active(r) /\ p \in Orgs
  BY <1>1 DEF Active, AdminInv, Shape
<1>3. UNCHANGED <<ledger, engine, row, disturbed>>
  BY DEF SaveFails, GatewayUnavailable, LookupRow
<1>4. Shape'
  BY <1>1, <1>2, <1>3, ShapeStays DEF AdminInv, Shape, Kept
<1>5. ASSUME p \notin disturbed
      PROVE  OrgInv(p)'
  <2>1. OrgInv(p) /\ r \in Initializing(p) /\ InitCall(r, p) /\ req[r].op = "init"
    BY <1>1, <1>2, <1>5, CallKinds DEF IssueCall
  <2>2. TablesKept(p)
    BY <1>2, <1>3, <2>1, LedgerAlone DEF OrgInv
  <2>3. Active(r)' => InitCall(r, p)'
    BY <1>1, <1>3, <2>1 DEF InitCall, Kept, Present, Active
  <2>4. QED
    BY <1>1, <1>2, <1>3, <2>1, <2>2, <2>3, InitStays DEF Kept
<1>6. QED
  BY <1>1, <1>2, <1>3, <1>4, <1>5, OwnSuffices DEF Kept

\* Loading the record into the engine, for initOrg and for a key issue.
LEMMA LoadKeepsInv ==
  ASSUME AdminInv, NEW r \in Requests, LoadOrgFromJSON(r) \/ LoadAuthFromJSON(r)
  PROVE  AdminInv'
<1> DEFINE p == req[r].org
<1>1. /\ Only(r) /\ Kept(r)
      /\ \/ req[r].pc = "loadOrg" /\ req'[r].pc = "loadAuth" /\ LoadOrgFromJSON(r)
         \/ /\ req[r].pc = "loadAuth" /\ LoadAuthFromJSON(r)
            /\ req'[r].pc = IF req[r].op = "init" THEN "sync" ELSE "issue"
  BY StepIsOnly DEF LoadOrgFromJSON, LoadAuthFromJSON, AdminInv
<1>2. Active(r) /\ p \in Orgs
  BY <1>1 DEF Active, AdminInv, Shape
<1>3. /\ UNCHANGED <<ledger, row, disturbed>>
      /\ DOMAIN engine' = Orgs /\ \A o \in Orgs \ {p} : engine'[o] = engine[o]
      /\ DOMAIN engine'[p] = RecFields
      /\ engine'[p].prv = IF req[r].pc = "loadOrg" THEN engine[p].prv ELSE req[r].rec.prv
  <2>1. CASE LoadOrgFromJSON(r)
    BY <1>1, <1>2, <2>1 DEF LoadOrgFromJSON, Step, AdminInv, Shape, RecFields
  <2>2. CASE LoadAuthFromJSON(r)
    BY <1>1, <1>2, <2>2 DEF LoadAuthFromJSON, Step, AdminInv, Shape, RecFields
  <2>3. QED
    BY <2>1, <2>2
<1>4. Shape'
  BY <1>1, <1>2, <1>3, ShapeStays DEF AdminInv, Shape, Kept
<1>5. ASSUME p \notin disturbed
      PROVE  OrgInv(p)'
  <2>1. OrgInv(p)
    BY <1>2, <1>5, CallKinds
  <2>2. TablesKept(p)
    BY <1>2, <1>3, <2>1, LedgerAlone DEF OrgInv
  <2>3. CASE req[r].op = "init"
    <3>1. r \in Initializing(p) /\ InitCall(r, p)
      BY <1>2, <1>5, <2>3, CallKinds
    <3>2. InitCall(r, p)'
      BY <1>1, <1>3, <2>3, <3>1 DEF InitCall, Kept, Present
    <3>3. QED
      BY <1>1, <1>2, <1>3, <2>1, <2>2, <2>3, <3>1, <3>2, InitStays DEF InitCall, Kept
  <2>4. CASE req[r].op = "issue"
    <3>1. IssueCall(r, p)
      BY <1>2, <1>5, <2>4, CallKinds
    <3>2. IssueCall(r, p)'
      BY <1>1, <1>3, <2>4, <3>1 DEF IssueCall, Kept, Present
    <3>3. req[r].issued # NoKey => req[r].issued = row[p].prv
      BY <2>1 DEF OrgInv, IssueInv
    <3>4. QED
      BY <1>1, <1>2, <1>3, <2>1, <2>2, <2>4, <3>1, <3>2, <3>3, IssueStays DEF IssueCall, Kept
  <2>5. QED
    BY <1>2, <1>5, <2>3, <2>4, CallKinds
<1>6. QED
  BY <1>1, <1>2, <1>3, <1>4, <1>5, OwnSuffices DEF Kept

\* Drawing a group and a key pair.
LEMMA DrawKeepsInv ==
  ASSUME AdminInv, NEW r \in Requests, InitOrg(r) \/ InitAuthority(r)
  PROVE  AdminInv'
<1> DEFINE p == req[r].org
<1>1. /\ Only(r) /\ Kept(r)
      /\ \/ req[r].pc = "initOrg" /\ req'[r].pc = "initAuth" /\ InitOrg(r)
         \/ req[r].pc = "initAuth" /\ req'[r].pc = "readOrg" /\ InitAuthority(r)
  BY StepIsOnly DEF InitOrg, InitAuthority, AdminInv
<1>2. Active(r) /\ p \in Orgs
  BY <1>1 DEF Active, AdminInv, Shape
<1>3. /\ UNCHANGED <<ledger, row, disturbed>>
      /\ DOMAIN engine' = Orgs /\ \A o \in Orgs \ {p} : engine'[o] = engine[o]
      /\ DOMAIN engine'[p] = RecFields
      /\ req[r].pc = "initOrg" => engine'[p].org = r
      /\ req[r].pc = "initAuth" =>
           LET k == [group |-> engine[p].org, draw |-> r]
           IN engine'[p].org = engine[p].org /\ engine'[p].pub = k /\ engine'[p].prv = k
  <2>1. CASE InitOrg(r)
    BY <1>1, <1>2, <2>1 DEF InitOrg, Step, AdminInv, Shape, RecFields
  <2>2. CASE InitAuthority(r)
    BY <1>1, <1>2, <2>2 DEF InitAuthority, Step, AdminInv, Shape, RecFields
  <2>3. QED
    BY <2>1, <2>2
<1>4. Shape'
  BY <1>1, <1>2, <1>3, ShapeStays DEF AdminInv, Shape, Kept
<1>5. ASSUME p \notin disturbed
      PROVE  OrgInv(p)'
  <2>1. OrgInv(p) /\ r \in Initializing(p) /\ InitCall(r, p) /\ req[r].op = "init"
    BY <1>1, <1>2, <1>5, CallKinds DEF IssueCall
  <2>2. TablesKept(p) /\ ~Present(p)
    BY <1>1, <1>2, <1>3, <2>1, LedgerAlone DEF OrgInv, InitCall
  <2>3. InitCall(r, p)'
    BY <1>1, <1>3, <2>1 DEF InitCall, Kept, Present, Pair
  <2>4. QED
    BY <1>1, <1>2, <1>3, <2>1, <2>2, <2>3, InitStays DEF Kept
<1>6. QED
  BY <1>1, <1>2, <1>3, <1>4, <1>5, OwnSuffices DEF Kept

\* The readings of the engine give what the call has drawn: nobody has
\* reloaded the engine in between.
LEMMA ReadKeepsInv ==
  ASSUME AdminInv, NEW r \in Requests, ReadEngine(r)
  PROVE  AdminInv'
<1> DEFINE p == req[r].org
           e == engine[p]
           f == req[r].rec
           g == req'[r].rec
<1>1. /\ Only(r) /\ UNCHANGED <<ledger, engine, row, disturbed>>
      /\ req'[r].org = p /\ req'[r].op = req[r].op /\ req'[r].issued = req[r].issued
      /\ req'[r].table = req[r].table /\ DOMAIN g = RecFields
      /\ \/ /\ req[r].pc = "readOrg" /\ req'[r].pc = "readPub"
            /\ g.org = e.org
         \/ /\ req[r].pc = "readPub" /\ req'[r].pc = "readPrv"
            /\ g.org = f.org /\ g.pub = e.pub
         \/ /\ req[r].pc = "readPrv" /\ req'[r].pc = "lookup"
            /\ g.org = f.org /\ g.pub = f.pub /\ g.prv = e.prv
  BY DEF ReadEngine, AdminInv, Shape, Only, Kept, ReqFields, RecFields
<1>2. Active(r) /\ p \in Orgs
  BY <1>1 DEF Active, AdminInv, Shape
<1>3. Shape'
  BY <1>1, <1>2, ShapeStays DEF AdminInv, Shape
<1>4. ASSUME p \notin disturbed
      PROVE  OrgInv(p)'
  <2>1. OrgInv(p) /\ r \in Initializing(p) /\ InitCall(r, p) /\ req[r].op = "init"
    BY <1>1, <1>2, <1>4, CallKinds DEF IssueCall
  <2>2. TablesKept(p)
    BY <1>1, <1>2, <2>1, LedgerAlone DEF OrgInv
  <2>3. InitCall(r, p)'
    BY <1>1, <2>1 DEF InitCall, Present
  <2>4. QED
    BY <1>1, <1>2, <2>1, <2>2, <2>3, InitStays
<1>5. QED
  BY <1>1, <1>2, <1>3, <1>4, OwnSuffices

\* The row is created while there is none, and never replaced.
LEMMA StoreKeepsInv ==
  ASSUME AdminInv, NEW r \in Requests, StoreRow(r)
  PROVE  AdminInv'
<1> DEFINE p == req[r].org
<1>1. Only(r) /\ Kept(r) /\ req[r].pc \in {"create", "update"} /\ req'[r].pc = "sync"
  BY StepIsOnly DEF StoreRow, AdminInv
<1>2. Active(r) /\ p \in Orgs
  BY <1>1 DEF Active, AdminInv, Shape
<1>3. /\ UNCHANGED <<ledger, engine, disturbed>>
      /\ DOMAIN row' = Orgs /\ \A o \in Orgs \ {p} : row'[o] = row[o]
      /\ row'[p] = IF req[r].pc = "create" /\ Present(p) THEN row[p] ELSE req[r].rec
  BY <1>2 DEF StoreRow, AdminInv, Shape
<1>4. Shape'
  BY <1>1, <1>2, <1>3, ShapeStays DEF AdminInv, Shape, Kept
<1>5. ASSUME p \notin disturbed
      PROVE  OrgInv(p)'
  <2>1. OrgInv(p) /\ r \in Initializing(p) /\ InitCall(r, p) /\ req[r].op = "init"
    BY <1>1, <1>2, <1>5, CallKinds DEF IssueCall
  <2>2. ~Present(p) /\ DrawnBy(req[r].rec, r) /\ row'[p] = req[r].rec
    BY <1>1, <1>3, <2>1 DEF InitCall, DrawnBy
  <2>3. row[p].pub = NoKey /\ row'[p].org = r /\ row'[p] # NoRecord
    BY <2>2, AuthAdminAssumption DEF Present, NoRecord, DrawnBy
  <2>4. RecordInv(p)' /\ Present(p)'
    <3>1. p' = p
      BY <1>1 DEF Kept
    <3>2. DrawnBy(row'[p], r)
      BY <2>2
    <3>3. QED
      BY <1>2, <2>3, <3>1, <3>2 DEF RecordInv, DrawnBy, Present, Pair
  <2>5. InitInv(p)'
    <3>1. \A s \in Initializing(p)' : s = r
      BY <1>1, <1>2, <2>1 DEF OrgInv, InitInv, Initializing, Only, Kept, Active
    <3>2. InitCall(r, p)'
      BY <1>1, <2>2, <2>4 DEF InitCall, Kept
    <3>3. QED
      BY <3>1, <3>2 DEF InitInv
  <2>6. IssueInv(p)'
    <3>1. \A s \in Requests : /\ req'[s].org = req[s].org /\ req'[s].op = req[s].op
                              /\ req'[s].issued = req[s].issued
                              /\ Active(s)' => Active(s)
      BY <1>1, <1>2 DEF Only, Kept, Active
    <3>2. \A s \in Requests : req'[s].org = p => req'[s].issued = NoKey /\
                                ~(Active(s)' /\ req'[s].op = "issue")
      BY <2>1, <2>2, <3>1 DEF OrgInv, IssueInv, IssueCall
    <3>3. QED
      BY <1>1, <3>2 DEF IssueInv, Kept
  <2>7. TableInv(p)'
    <3>1. p' = p /\ Published(p)' = Published(p) /\ tx' = tx
      BY <1>1, <1>3 DEF Kept, Published, ledger
    <3>2. \A s \in Requests : req'[s].pc = "submit" =>
            req[s].pc = "submit" /\ req'[s].table = req[s].table
      BY <1>1 DEF Only, Kept
    <3>3. /\ Published(p) = NoKey
          /\ \A s \in Requests :
               /\ req[s].pc = "submit" => req[s].table[p] = NoKey
               /\ tx[s].stage = "endorsed" => tx[s].write.body[p] = NoKey
      BY <2>1, <2>3 DEF OrgInv, TableInv
    <3>4. QED
      BY <3>1, <3>2, <3>3 DEF TableInv
  <2>8. QED
    BY <2>4, <2>5, <2>6, <2>7 DEF OrgInv
<1>6. QED
  BY <1>1, <1>2, <1>3, <1>4, <1>5, OwnSuffices DEF Kept

\* A passed-over error of the database disturbs the organization.
LEMMA StoreFailsKeepsInv ==
  ASSUME AdminInv, NEW r \in Requests, StoreFails(r)
  PROVE  AdminInv'
<1> DEFINE p == req[r].org
<1>1. /\ Only(r) /\ Kept(r) /\ UNCHANGED <<ledger, engine, row>>
      /\ req[r].pc \in {"lookup", "create", "update"} /\ req'[r].pc = "sync"
      /\ disturbed' = disturbed \cup {p}
  BY DEF StoreFails, AdminInv, Shape, Only, Kept, ReqFields
<1>2. Active(r) /\ p \in Orgs
  BY <1>1 DEF Active, AdminInv, Shape
<1>3. Shape'
  BY <1>1, <1>2, ShapeStays DEF AdminInv, Shape, Kept
<1>4. QED
  BY <1>1, <1>2, <1>3, OwnSuffices DEF Kept

\* The table that is read and completed holds recorded keys only.
LEMMA ReadParamsKeepsInv ==
  ASSUME AdminInv, NEW r \in Requests, ReadParams(r) \/ ReadParamsFails(r)
  PROVE  AdminInv'
<1> DEFINE p == req[r].org
           read == req'[r].table
<1>1. /\ Only(r) /\ UNCHANGED <<ledger, engine, row, disturbed>>
      /\ req'[r].org = p /\ req'[r].op = req[r].op /\ req'[r].issued = req[r].issued
      /\ req'[r].rec = req[r].rec /\ req[r].pc = "sync" /\ req'[r].pc = "submit"
      /\ \/ read = WithOwnKey(r, EmptyTable)
         \/ /\ world[Params].version > 0
            /\ read = WithOwnKey(r, world[Params].body)
  BY DEF ReadParams, ReadParamsFails, AdminInv, Shape, Only, Kept, ReqFields
<1>2. Active(r) /\ p \in Orgs
  BY <1>1 DEF Active, AdminInv, Shape
<1>3. /\ DOMAIN read = Orgs /\ read[p] = req[r].rec.pub
      /\ \A o \in Orgs \ {p} : read[o] \in {NoKey, Published(o)}
  BY <1>1, <1>2 DEF WithOwnKey, EmptyTable, Published, AdminInv, Shape
<1>4. Shape'
  BY <1>1, <1>2, <1>3, ShapeStays DEF AdminInv, Shape
<1>5. ASSUME p \notin disturbed
      PROVE  OrgInv(p)' /\ read[p] = row[p].pub
  <2>1. OrgInv(p) /\ r \in Initializing(p) /\ InitCall(r, p) /\ req[r].op = "init"
    BY <1>1, <1>2, <1>5, CallKinds DEF IssueCall
  <2>2. TablesKept(p)
    BY <1>1, <1>2, <2>1, LedgerAlone DEF OrgInv
  <2>3. InitCall(r, p)' /\ read[p] = row[p].pub
    BY <1>1, <1>3, <2>1 DEF InitCall, Present
  <2>4. QED
    BY <1>1, <1>2, <2>1, <2>2, <2>3, InitStays
<1>6. \A o \in Orgs \ disturbed : read[o] \in {NoKey, row[o].pub}
  BY <1>3, <1>5 DEF AdminInv, OrgInv, TableInv
<1>7. QED
  BY <1>1, <1>2, <1>4, <1>5, <1>6, OwnSuffices

\* A user key is issued under the recorded private key.
LEMMA IssueKeepsInv ==
  ASSUME AdminInv, NEW r \in Requests, IssueUserKey(r)
  PROVE  AdminInv'
<1> DEFINE p == req[r].org
<1>1. /\ Only(r) /\ UNCHANGED <<ledger, engine, row, disturbed>>
      /\ req'[r].org = p /\ req'[r].op = req[r].op /\ req'[r].issued = engine[p].prv
      /\ req'[r].rec = req[r].rec /\ req'[r].table = req[r].table
      /\ req[r].pc = "issue" /\ req'[r].pc = "done"
  BY DEF IssueUserKey, AdminInv, Shape, Only, Kept, ReqFields
<1>2. Active(r) /\ p \in Orgs
  BY <1>1 DEF Active, AdminInv, Shape
<1>3. Shape'
  BY <1>1, <1>2, ShapeStays DEF AdminInv, Shape
<1>4. ASSUME p \notin disturbed
      PROVE  OrgInv(p)'
  <2>1. OrgInv(p) /\ IssueCall(r, p) /\ req[r].op = "issue"
    BY <1>1, <1>2, <1>4, CallKinds DEF InitCall
  <2>2. TablesKept(p)
    BY <1>1, <1>2, <2>1, LedgerAlone DEF OrgInv
  <2>3. Present(p) /\ req'[r].issued = row[p].prv
    BY <1>1, <2>1 DEF IssueCall
  <2>4. ~Active(r)'
    BY <1>1 DEF Active
  <2>5. QED
    BY <1>1, <1>2, <2>1, <2>2, <2>3, <2>4, IssueStays
<1>5. QED
  BY <1>1, <1>2, <1>3, <1>4, OwnSuffices

-----------------------------------------------------------------------------
(***************************************************************************)
(* Starting a call.                                                        *)
(***************************************************************************)

\* A call of initOrg that meets no other.
LEMMA InitBegins ==
  ASSUME NEW o \in Orgs, OrgInv(o), NEW r \in Requests, Only(r), TablesKept(o),
         req[r].pc = "idle", engine'[o] = engine[o], row'[o] = row[o],
         Initializing(o) = {}, req'[r].org = o, req'[r].op = "init",
         req'[r].issued = NoKey, req'[r].pc # "submit", InitCall(r, o)'
  PROVE  OrgInv(o)'
<1>1. \A s \in Requests \ {r} : Active(s)' <=> Active(s)
  BY DEF Only, Active
<1>2. RecordInv(o)'
  BY DEF OrgInv, RecordInv, Present, DrawnBy, Pair
<1>3. \A s \in Initializing(o)' : s = r
  BY <1>1 DEF Initializing, Only, Kept
<1>4. InitInv(o)'
  BY <1>3 DEF InitInv
<1>5. IssueInv(o)'
  BY <1>1 DEF OrgInv, IssueInv, IssueCall, Present, Only, Kept
<1>6. TableInv(o)'
  BY DEF OrgInv, TableInv, TablesKept, Only, Kept
<1>7. QED
  BY <1>2, <1>4, <1>5, <1>6 DEF OrgInv

LEMMA StartKeepsInv ==
  ASSUME AdminInv, NEW r \in Requests, NEW p \in Orgs, Start(r, p)
  PROVE  AdminInv'
<1>1. /\ Only(r) /\ UNCHANGED <<ledger, engine, row>>
      /\ req[r].pc = "idle" /\ req'[r].org = p /\ req'[r].issued = NoKey
      /\ DOMAIN req'[r].rec = RecFields /\ DOMAIN req'[r].table = Orgs
      /\ req'[r].op \in {"init", "issue"} /\ req'[r].pc # "submit"
  <2>1. UNCHANGED <<ledger, engine, row>>
    BY DEF Start, StartInit, StartInitQueryFails, StartIssue
  <2>2. PICK op \in {"init", "issue"}, pc \in {"save", "initOrg", "loadOrg"},
             rec \in {NoRecord, row[p]} : Begin(r, p, op, pc, rec)
    BY DEF Start, StartInit, StartInitQueryFails, StartIssue
  <2>3. DOMAIN rec = RecFields
    BY DEF NoRecord, RecFields, AdminInv, Shape
  <2>4. /\ Only(r) /\ req[r].pc = "idle"
        /\ req'[r].org = p /\ req'[r].issued = NoKey /\ req'[r].op = op /\ req'[r].pc = pc
        /\ req'[r].rec = rec /\ req'[r].table = EmptyTable
    BY <2>2, ZenonT(60) DEF Begin, NewRequest, AdminInv, Shape, Only, Kept, ReqFields
  <2>5. QED
    BY <2>1, <2>3, <2>4 DEF EmptyTable
<1>2. \/ /\ req'[r].op = "init"
         /\ p \notin disturbed' => Initializing(p) = {}
         /\ req'[r].pc = IF Present(p) THEN "save" ELSE "initOrg"
         /\ Present(p) => req'[r].rec = row[p]
      \/ p \in disturbed'
      \/ /\ req'[r].op = "issue" /\ req'[r].pc = "loadOrg"
         /\ Present(p) /\ req'[r].rec = row[p]
  BY ZenonT(60) DEF Start, StartInit, StartInitQueryFails, StartIssue, Begin, NewRequest
<1>3. disturbed \subseteq disturbed'
  BY DEF Start, StartInit, StartInitQueryFails, StartIssue
<1>4. Shape'
  <2>1. \A s \in Requests \ {r} :
          /\ req'[s].org = req[s].org /\ req'[s].op = req[s].op
          /\ req'[s].rec = req[s].rec /\ req'[s].table = req[s].table
          /\ req'[s].issued = req[s].issued
          /\ Active(s)' => Active(s)
    BY <1>1 DEF Only, Kept, Active
  <2>2. QED
    BY <1>1, <2>1 DEF AdminInv, Shape, Only, ledger
<1>5. ASSUME p \notin disturbed'
      PROVE  OrgInv(p)'
  <2>1. OrgInv(p) /\ TablesKept(p)
    BY <1>1, <1>3, <1>5, LedgerAlone DEF AdminInv, OrgInv
  <2>2. CASE /\ req'[r].op = "init" /\ Initializing(p) = {}
             /\ req'[r].pc = IF Present(p) THEN "save" ELSE "initOrg"
             /\ Present(p) => req'[r].rec = row[p]
    <3>1. InitCall(r, p)'
      BY <1>1, <2>2 DEF InitCall, Present
    <3>2. QED
      BY <1>1, <2>1, <2>2, <3>1, InitBegins
  <2>3. CASE /\ req'[r].op = "issue" /\ req'[r].pc = "loadOrg"
             /\ Present(p) /\ req'[r].rec = row[p]
    <3>1. IssueCall(r, p)'
      BY <1>1, <2>3 DEF IssueCall, Present
    <3>2. ~Active(r)
      BY <1>1 DEF Active
    <3>3. QED
      BY <1>1, <2>1, <2>3, <3>1, <3>2, IssueStays
  <2>4. QED
    BY <1>2, <1>5, <2>2, <2>3
<1>6. QED
  BY <1>1, <1>3, <1>4, <1>5, OwnSuffices

-----------------------------------------------------------------------------
(***************************************************************************)
(* Steps of the ledger.                                                    *)
(***************************************************************************)

\* What a call sends is the table it has completed.
LEMMA SubmitKeepsInv ==
  ASSUME AdminInv, NEW r \in Requests,
         SubmitParams(r) \/ SubmitFails(r) \/ SubmitReturns(r)
  PROVE  AdminInv'
<1>1. /\ Only(r) /\ Kept(r) /\ UNCHANGED <<engine, row, disturbed>>
      /\ \/ req[r].pc = "submit" /\ req'[r].pc \in {"wait", "done"}
         \/ req[r].pc = "wait" /\ req'[r].pc = "done"
  BY StepIsOnly DEF SubmitParams, SubmitFails, SubmitReturns, AdminInv
<1>2. Active(r)
  BY <1>1 DEF Active
<1>3. /\ world' = world /\ DOMAIN tx' = Requests
      /\ \A s \in Requests :
           /\ DOMAIN tx'[s] = TxFields
           /\ tx'[s].stage = "endorsed" =>
                \/ /\ tx[s].stage = "endorsed"
                   /\ tx'[s].key = tx[s].key /\ tx'[s].write = tx[s].write
                \/ /\ s = r /\ req[r].pc = "submit"
                   /\ tx'[s].key = Params /\ tx'[s].write.body = req[r].table
  <2>1. CASE SubmitParams(r)
    BY <2>1 DEF SubmitParams, Step, Ledger!PutGlobalParams, Ledger!Simulated,
                AdminInv, Shape, TxFields
  <2>2. CASE SubmitFails(r)
    BY <2>2 DEF SubmitFails, Ledger!Refuse, AdminInv, Shape, TxFields
  <2>3. CASE SubmitReturns(r)
    BY <2>3 DEF SubmitReturns, Ledger!Answer, Ledger!GiveUp, AdminInv, Shape, TxFields
  <2>4. QED
    BY <2>1, <2>2, <2>3
<1>4. Shape'
  <2>1. \A s \in Requests : /\ req'[s].org = req[s].org /\ req'[s].op = req[s].op
                            /\ req'[s].rec = req[s].rec /\ req'[s].table = req[s].table
                            /\ req'[s].issued = req[s].issued
                            /\ Active(s)' => Active(s)
    BY <1>1, <1>2 DEF Only, Kept, Active
  <2>2. QED
    BY <1>1, <1>3, <2>1 DEF AdminInv, Shape, Only
<1>5. ASSUME NEW o \in Orgs \ disturbed
      PROVE  OrgInv(o)'
  <2>1. OrgInv(o) /\ TablesKept(o)
    BY <1>3 DEF AdminInv, OrgInv, TableInv, TablesKept, Published
  <2>2. CASE req[r].org # o
    BY <1>1, <2>1, <2>2, OthersStay DEF Kept
  <2>3. CASE req[r].org = o
    <3>1. r \in Initializing(o) /\ InitCall(r, o) /\ req[r].op = "init"
      BY <1>1, <1>2, <2>3, CallKinds DEF IssueCall
    <3>2. Active(r)' => InitCall(r, o)'
      BY <1>1, <3>1 DEF InitCall, Kept, Present, Active
    <3>3. QED
      BY <1>1, <2>1, <2>3, <3>1, <3>2, InitStays DEF Kept
  <2>4. QED
    BY <2>2, <2>3
<1>6. QED
  BY <1>1, <1>4, <1>5 DEF AdminInv

\* The table that is committed was endorsed.
LEMMA LedgerStepKeepsInv ==
  ASSUME AdminInv, NEW r \in Requests, LedgerStep(r)
  PROVE  AdminInv'
<1>1. /\ UNCHANGED <<engine, row, req, disturbed>> /\ DOMAIN tx' = Requests
      /\ tx[r].stage = "endorsed"
      /\ world' = world \/ world' = [world EXCEPT ![tx[r].key] = tx[r].write]
      /\ \A s \in Requests :
           /\ DOMAIN tx'[s] = TxFields
           /\ tx'[s].stage = "endorsed" =>
                /\ tx[s].stage = "endorsed"
                /\ tx'[s].key = tx[s].key /\ tx'[s].write = tx[s].write
  <2>1. CASE Ledger!Commit(r)
    BY <2>1 DEF LedgerStep, Ledger!Commit, AdminInv, Shape, TxFields
  <2>2. CASE Ledger!Invalidate(r) \/ Ledger!Drop(r)
    BY <2>2 DEF LedgerStep, Ledger!Invalidate, Ledger!Drop, AdminInv, Shape, TxFields
  <2>3. QED
    BY <2>1, <2>2 DEF LedgerStep
<1>2. /\ Params \in DOMAIN world'
      /\ world'[Params] = world[Params] \/ world'[Params] = tx[r].write
  BY <1>1 DEF AdminInv, Shape
<1>3. Shape'
  BY <1>1, <1>2 DEF AdminInv, Shape, Active
<1>4. ASSUME NEW o \in Orgs \ disturbed
      PROVE  OrgInv(o)'
  <2>1. OrgInv(o)
    BY DEF AdminInv
  <2>2. TablesKept(o)
    BY <1>1, <1>2, <2>1 DEF OrgInv, TableInv, TablesKept, Published
  <2>3. RecordInv(o)' /\ InitInv(o)' /\ IssueInv(o)'
    BY <1>1, <2>1 DEF OrgInv, RecordInv, InitInv, InitCall, IssueInv, IssueCall, Initializing,
                      Active, Present, DrawnBy
  <2>4. TableInv(o)'
    BY <1>1, <2>1, <2>2 DEF OrgInv, TableInv, TablesKept
  <2>5. QED
    BY <2>3, <2>4 DEF OrgInv
<1>5. QED
  BY <1>1, <1>3, <1>4 DEF AdminInv

-----------------------------------------------------------------------------
\* A crash ends the calls of one server and empties its engine.
LEMMA CrashKeepsInv ==
  ASSUME AdminInv, NEW p \in Orgs, Crash(p)
  PROVE  AdminInv'
<1>1. /\ UNCHANGED <<ledger, row, disturbed>>
      /\ DOMAIN engine' = Orgs /\ \A o \in Orgs \ {p} : engine'[o] = engine[o]
      /\ DOMAIN engine'[p] = RecFields
  BY DEF Crash, NoRecord, RecFields, AdminInv, Shape
<1>2. /\ DOMAIN req' = Requests
      /\ \A s \in Requests : DOMAIN req'[s] = ReqFields /\ Kept(s)
  BY DEF Crash, AdminInv, Shape, Kept, ReqFields
<1>3. \A s \in Requests :
        /\ req'[s].pc = req[s].pc \/ req'[s].pc = "done"
        /\ Active(s)' => req'[s].pc = req[s].pc /\ Active(s) /\ req[s].org # p
  BY DEF Crash, AdminInv, Shape, Active, ReqFields
<1>4. Shape'
  BY <1>1, <1>2, <1>3 DEF AdminInv, Shape, Kept, ledger
<1>5. ASSUME NEW o \in Orgs \ disturbed
      PROVE  OrgInv(o)'
  <2>1. OrgInv(o)
    BY DEF AdminInv
  <2>2. RecordInv(o)' /\ TableInv(o)'
    BY <1>1, <1>2, <1>3, <2>1 DEF OrgInv, RecordInv, TableInv, Published, Present, DrawnBy,
                                  Pair, Kept, ledger
  <2>3. \A s \in Initializing(o)' : s \in Initializing(o) /\ o # p /\ req'[s].pc = req[s].pc
    BY <1>2, <1>3 DEF Initializing, Kept
  <2>4. ASSUME NEW s \in Initializing(o)'
        PROVE  InitCall(s, o)'
    <3>1. /\ InitCall(s, o) /\ req'[s].pc = req[s].pc /\ req'[s].rec = req[s].rec
          /\ engine'[o] = engine[o]
      BY <1>1, <1>2, <2>1, <2>3 DEF OrgInv, InitInv, Kept, Initializing
    <3>2. QED
      BY <1>1, <3>1 DEF InitCall, Present
  <2>5. InitInv(o)'
    BY <2>1, <2>3, <2>4 DEF OrgInv, InitInv
  <2>6. IssueInv(o)'
    BY <1>1, <1>2, <1>3, <2>1 DEF OrgInv, IssueInv, IssueCall, Present, Kept
  <2>7. QED
    BY <2>2, <2>5, <2>6 DEF OrgInv
<1>6. QED
  BY <1>1, <1>4, <1>5 DEF AdminInv

LEMMA AdminInvInit == Init => AdminInv
<1> SUFFICES ASSUME Init PROVE AdminInv
  OBVIOUS
<1>1. /\ \A r \in Requests : req[r] = NewRequest
      /\ DOMAIN req = Requests
      /\ engine = [o \in Orgs |-> NoRecord] /\ row = [o \in Orgs |-> NoRecord]
  BY DEF Init
<1>2. /\ \A r \in Requests : tx[r].stage = "idle" /\ DOMAIN tx[r] = TxFields
      /\ DOMAIN tx = Requests
  BY DEF Init, Ledger!Init, Ledger!Unused, TxFields
<1>3. Params \in DOMAIN world /\ world[Params].version = 0
  BY DEF Init, Ledger!Init, Ledger!Absent, Ledger!Keys
<1>4. /\ NewRequest.pc = "idle" /\ NewRequest.issued = NoKey /\ DOMAIN NewRequest = ReqFields
      /\ DOMAIN NewRequest.rec = RecFields /\ DOMAIN NewRequest.table = Orgs
      /\ DOMAIN NoRecord = RecFields
  BY DEF NewRequest, NoRecord, EmptyTable, ReqFields, RecFields
<1>5. Shape
  BY <1>1, <1>2, <1>3, <1>4 DEF Shape, Active
<1>6. ASSUME NEW o \in Orgs
      PROVE  OrgInv(o)
  BY <1>1, <1>2, <1>3, <1>4 DEF OrgInv, RecordInv, InitInv, IssueInv, TableInv, Initializing, Active,
                    Present, Published
<1>7. QED
  BY <1>5, <1>6 DEF AdminInv

-----------------------------------------------------------------------------
\* The invariant of an organization's keys in engine, row, tables and calls is
\* kept by every step.
LEMMA NextKeepsInv ==
  ASSUME AdminInv, [Next]_vars
  PROVE  AdminInv'
<1>1. CASE UNCHANGED vars
  BY <1>1 DEF vars, AdminInv, Shape, OrgInv, RecordInv, InitInv, InitCall, IssueInv, IssueCall,
              TableInv, Initializing, Active, Present, Published, DrawnBy
<1>2. CASE \E o \in Orgs : Crash(o)
  BY <1>2, CrashKeepsInv
<1>3. ASSUME NEW r \in Requests,
             (\E o \in Orgs : Start(r, o)) \/ Continue(r) \/ LedgerStep(r)
      PROVE  AdminInv'
  BY <1>3, StartKeepsInv, SaveRowKeepsInv, MoveKeepsInv, LoadKeepsInv, DrawKeepsInv, ReadKeepsInv,
     StoreKeepsInv, StoreFailsKeepsInv, ReadParamsKeepsInv, IssueKeepsInv, SubmitKeepsInv,
     LedgerStepKeepsInv DEF Continue
<1>4. QED
  BY <1>1, <1>2, <1>3 DEF Next

\* A row that is there is written only with what it already holds.
LEMMA RowsAreKept ==
  ASSUME AdminInv, Next, NEW o \in Orgs \ disturbed', Present(o)
  PROVE  row'[o] = row[o]
<1>1. CASE \E r \in Requests : SaveRow(r) \/ StoreRow(r)
  <2>1. PICK r \in Requests : SaveRow(r) \/ StoreRow(r)
    BY <1>1
  <2>2. /\ Active(r) /\ o \in Orgs \ disturbed /\ req[r].org \in Orgs
        /\ req[r].pc \in {"save", "create", "update"}
        /\ \/ row' = row
           \/ row' = [row EXCEPT ![req[r].org] = req[r].rec]
    BY <2>1 DEF SaveRow, StoreRow, Step, Active, AdminInv, Shape
  <2>3. CASE req[r].org = o
    <3>1. InitCall(r, o)
      BY <2>2, <2>3, CallKinds DEF IssueCall
    <3>2. QED
      BY <2>2, <2>3, <3>1 DEF InitCall, AdminInv, Shape
  <2>4. QED
    BY <2>2, <2>3 DEF AdminInv, Shape
<1>2. CASE ~\E r \in Requests : SaveRow(r) \/ StoreRow(r)
  BY <1>2 DEF Next, Start, StartInit, StartInitQueryFails, StartIssue, Continue, SaveFails,
              LoadOrgFromJSON, LoadAuthFromJSON, InitOrg, InitAuthority, ReadEngine, LookupRow,
              StoreFails, GatewayUnavailable, ReadParams, ReadParamsFails, SubmitParams,
              SubmitFails, SubmitReturns, IssueUserKey, LedgerStep, Crash
<1>3. QED
  BY <1>1, <1>2

-----------------------------------------------------------------------------
\* auth_admin/main.go:212-298, 342-378: for any number of calls, crashes, failures,
\* lost and late transactions, each undisturbed organization has its keys from
\* one call, and every copy of its public key on the way to the ledger is the
\* recorded one.
THEOREM KeyInvariant == Spec => []AdminInv
<1>1. AdminInv /\ [Next]_vars => AdminInv'
  BY NextKeepsInv
<1>2. QED
  BY <1>1, AdminInvInit, PTL DEF Spec

\* auth_admin/main.go:266-298: the published public key is the recorded one.
THEOREM PublishedIsRecorded == Spec => []PublishedKeyRecorded
<1>1. AdminInv => PublishedKeyRecorded
  BY DEF AdminInv, OrgInv, TableInv, PublishedKeyRecorded
<1>2. QED
  BY <1>1, KeyInvariant, PTL

\* auth_admin/main.go:237-257: a record's group, public and private key belong
\* together.
THEOREM RecordsBelongTogether == Spec => []RecordBelongsTogether
<1>1. ASSUME AdminInv, NEW o \in Orgs \ disturbed, Present(o)
      PROVE  row[o].pub = row[o].prv /\ row[o].pub.group = row[o].org
  <2>1. PICK r \in Requests : DrawnBy(row[o], r)
    BY <1>1 DEF AdminInv, OrgInv, RecordInv
  <2>2. QED
    BY <2>1 DEF DrawnBy, Pair
<1>2. AdminInv => RecordBelongsTogether
  BY <1>1 DEF RecordBelongsTogether
<1>3. QED
  BY <1>2, KeyInvariant, PTL

\* auth_admin/main.go:342-378: a user key is issued under the private half of what
\* is published, although any request may reload the engine.
THEOREM IssuedUnderPublished == Spec => []IssuedUnderPublishedKey
<1>1. ASSUME AdminInv, NEW r \in Requests,
             req[r].issued # NoKey, req[r].org \notin disturbed
      PROVE  /\ req[r].issued = row[req[r].org].prv
             /\ Published(req[r].org) \in {NoKey, req[r].issued}
  <2> DEFINE o == req[r].org
  <2>1. OrgInv(o)
    BY <1>1 DEF AdminInv, Shape
  <2>2. Present(o) /\ req[r].issued = row[o].prv
    BY <1>1, <2>1 DEF OrgInv, IssueInv
  <2>3. row[o].pub = row[o].prv
    BY <2>1, <2>2 DEF OrgInv, RecordInv, DrawnBy
  <2>4. Published(o) \in {NoKey, row[o].pub}
    BY <2>1 DEF OrgInv, TableInv
  <2>5. QED
    BY <2>2, <2>3, <2>4
<1>2. AdminInv => IssuedUnderPublishedKey
  BY <1>1 DEF IssuedUnderPublishedKey
<1>3. QED
  BY <1>2, KeyInvariant, PTL

\* auth_admin/main.go:212-257: initOrg never replaces the keys of a row.
THEOREM KeysAreKept == Spec => KeysNeverReplaced
<1>1. AdminInv /\ [Next]_vars =>
        [\A o \in Orgs \ disturbed' : Present(o) => row'[o] = row[o]]_vars
  BY RowsAreKept
<1>2. QED
  BY <1>1, KeyInvariant, PTL DEF Spec, KeysNeverReplaced

-----------------------------------------------------------------------------
(***************************************************************************)
(* Type correctness.  That a table can be taken from the ledger rests on   *)
(* what is under way to it; that a step finds its organization, on how far *)
(* the call is.                                                            *)
(***************************************************************************)

\* How far a call is, and what it has sent.
CallInv(r) ==
  /\ req[r].pc = "idle" <=> req[r].op = "none"
  /\ req[r].op # "none" => req[r].org \in Orgs
  /\ req[r].op = "issue" => req[r].pc \in {"loadOrg", "loadAuth", "issue", "done"}
  /\ req[r].alone => req[r].op = "init"
  /\ tx[r].stage # "idle" => req[r].op = "init" /\ req[r].pc \in {"wait", "done"}
  /\ tx[r].answer = "ok" => tx[r].stage = "committed"
  /\ tx[r].stage = "endorsed" =>
       tx[r].key = Params /\ tx[r].write.version > 0 /\ tx[r].write.body \in Table

TypeInv ==
  /\ TypeOK
  /\ world[Params].version > 0 => world[Params].body \in Table
  /\ \A r \in Requests : CallInv(r)

(***************************************************************************)
(* A call of initOrg that no other has met and none has followed: the      *)
(* others have ended and their transactions are settled, so what it holds  *)
(* is what the row holds, and what it sends, and at last what is           *)
(* published, is the key of that row.                                      *)
(***************************************************************************)
OthersSettled(r) ==
  \A q \in Requests \ {r} : req[q].op = "init" => ~Active(q) /\ tx[q].stage # "endorsed"

CarriesRow(r) ==
  LET o == req[r].org IN
  /\ req[r].pc \in {"save", "loadOrg", "loadAuth", "sync"} => req[r].rec = row[o]
  /\ req[r].pc = "create" => ~Present(o)
  /\ req[r].pc = "submit" => req[r].table[o] = row[o].pub
  /\ tx[r].stage = "endorsed" => tx[r].write.body[o] = row[o].pub
  /\ tx[r].stage = "committed" => Published(o) = row[o].pub

AloneInv == \A r \in Requests : req[r].alone => OthersSettled(r) /\ CarriesRow(r)
LEMMA RequestUpdated ==
  ASSUME NEW q \in Request
  PROVE  /\ \A pc \in {"save", "loadOrg", "loadAuth", "initOrg", "initAuth",
                       "readOrg", "readPub", "readPrv", "lookup", "create", "update",
                       "sync", "submit", "wait", "issue", "done"} :
              [q EXCEPT !.pc = pc] \in Request
         /\ \A rec \in Record : [q EXCEPT !.rec = rec] \in Request
         /\ \A table \in Table : [q EXCEPT !.table = table] \in Request
         /\ \A key \in Key : [q EXCEPT !.issued = key] \in Request
         /\ \A b \in BOOLEAN : [q EXCEPT !.alone = b] \in Request
BY DEF Request

LEMMA RecordsTyped == /\ NoRecord \in Record /\ NoKey \in Key
                      /\ EmptyTable \in Table
                      /\ NewRequest \in Request
                      /\ NewRequest.op = "none" /\ NewRequest.pc = "idle" /\ ~NewRequest.alone
<1>1. NoKey \in Key
  BY DEF NoKey, Key
<1>2. NoRecord \in Record /\ EmptyTable \in Table
  BY <1>1 DEF NoRecord, Record, EmptyTable, Table
<1>3. FALSE \in BOOLEAN
  OBVIOUS
<1>4. NewRequest \in Request
  BY <1>1, <1>2, <1>3 DEF NewRequest, Request
<1>5. QED
  BY <1>1, <1>2, <1>4 DEF NewRequest


LEMMA FaultCounted == ASSUME TypeInv, Fault PROVE faults' \in 0..MaxFaults
BY AuthAdminAssumption DEF TypeInv, TypeOK, Fault

\* A step of a call that has sent nothing yet.
LEMMA CallMoves ==
  ASSUME TypeInv, NEW r \in Requests, NEW q \in Request, req' = [req EXCEPT ![r] = q],
         UNCHANGED ledger,
         engine' \in [Orgs -> Record], row' \in [Orgs -> Record],
         faults' \in 0..MaxFaults, disturbed' \subseteq Orgs,
         tx[r].stage = "idle",
         q.op = req[r].op, q.org = req[r].org, q.alone => req[r].alone,
         req[r].pc # "idle", q.pc # "idle",
         req[r].op = "issue" => q.pc \in {"loadOrg", "loadAuth", "issue", "done"}
  PROVE  TypeInv'
<1>1. req \in [Requests -> Request]
  BY DEF TypeInv, TypeOK
<1>2. req' \in [Requests -> Request] /\ req'[r] = q /\ \A s \in Requests \ {r} : req'[s] = req[s]
  BY <1>1
<1>3. TypeOK'
  BY <1>2 DEF TypeInv, TypeOK, ledger, Ledger!TypeOK
<1>4. \A s \in Requests : CallInv(s)'
  <2>1. TAKE s \in Requests
  <2>2. CASE s = r
    BY <1>2, <2>2 DEF TypeInv, CallInv, ledger
  <2>3. CASE s # r
    BY <1>2, <2>3 DEF TypeInv, CallInv, ledger
  <2>4. QED
    BY <2>2, <2>3
<1>5. QED
  BY <1>3, <1>4 DEF TypeInv, ledger

\* What is known of a call that goes on.
LEMMA CallGoesOn ==
  ASSUME TypeInv, NEW r \in Requests, Active(r)
  PROVE  /\ req[r] \in Request /\ req[r].rec \in Record /\ req[r].table \in Table
         /\ req[r].org \in Orgs /\ req[r].op \in {"init", "issue"}
         /\ engine[req[r].org] \in Record /\ row[req[r].org] \in Record
         /\ req[r].pc # "wait" => tx[r].stage = "idle"
         /\ req[r].pc \notin {"loadOrg", "loadAuth", "issue"} => req[r].op = "init"
<1>1. req[r] \in Request /\ CallInv(r) /\ engine \in [Orgs -> Record] /\ row \in [Orgs -> Record]
  BY DEF TypeInv, TypeOK
<1>2. req[r].rec \in Record /\ req[r].table \in Table /\ req[r].op \in {"none", "init", "issue"}
  BY <1>1 DEF Request
<1>3. QED
  BY <1>1, <1>2 DEF CallInv, Active

\* Its next place.
LEMMA StepsTyped ==
  ASSUME TypeInv, NEW r \in Requests, NEW from, NEW to, Step(r, from, to),
         UNCHANGED ledger,
         engine' \in [Orgs -> Record], row' \in [Orgs -> Record],
         faults' \in 0..MaxFaults, disturbed' \subseteq Orgs,
         from \notin {"idle", "wait", "done"},
         to \in {"loadOrg", "loadAuth", "initAuth", "readOrg", "create", "update",
                 "sync", "issue", "done"},
         req[r].op = "issue" => to \in {"loadOrg", "loadAuth", "issue", "done"}
  PROVE  TypeInv'
<1> DEFINE q == [req[r] EXCEPT !.pc = to]
<1>1. Active(r) /\ req[r].pc = from /\ req' = [req EXCEPT ![r] = q]
  BY DEF Step, Active
<1>2. req[r] \in Request /\ tx[r].stage = "idle"
  BY <1>1, CallGoesOn
<1>3. q \in Request
  BY <1>2, RequestUpdated
<1>4. q.op = req[r].op /\ q.org = req[r].org /\ q.alone = req[r].alone /\ q.pc = to
  BY <1>2 DEF Request
<1>5. QED
  BY <1>1, <1>2, <1>3, <1>4, CallMoves

LEMMA EngineLoaded ==
  ASSUME engine \in [Orgs -> Record], NEW o \in Orgs, NEW a \in Requests \cup {Nil},
         NEW k \in Key, NEW l \in Key
  PROVE  /\ [engine EXCEPT ![o].org = a] \in [Orgs -> Record]
         /\ [engine EXCEPT ![o].pub = k, ![o].prv = l] \in [Orgs -> Record]
<1>1. engine[o] \in Record
  OBVIOUS
<1>2. [engine[o] EXCEPT !.org = a] \in Record /\ [engine[o] EXCEPT !.pub = k, !.prv = l] \in Record
  BY <1>1 DEF Record
<1>3. /\ [engine EXCEPT ![o].org = a] = [engine EXCEPT ![o] = [engine[o] EXCEPT !.org = a]]
      /\ [engine EXCEPT ![o].pub = k, ![o].prv = l]
           = [engine EXCEPT ![o] = [engine[o] EXCEPT !.pub = k, !.prv = l]]
  BY <1>1
<1>4. QED
  BY <1>2, <1>3

LEMMA MovesKeepTypes ==
  ASSUME TypeInv, NEW r \in Requests,
         \/ SaveRow(r) \/ SaveFails(r) \/ LoadOrgFromJSON(r) \/ LoadAuthFromJSON(r)
         \/ InitOrg(r) \/ InitAuthority(r) \/ LookupRow(r) \/ StoreRow(r)
         \/ GatewayUnavailable(r)
  PROVE  TypeInv'
<1> DEFINE o == req[r].org
<1>1. Active(r)
  BY DEF SaveRow, SaveFails, LoadOrgFromJSON, LoadAuthFromJSON, InitOrg, InitAuthority, LookupRow,
         StoreRow, GatewayUnavailable, Step, Active
<1>2. /\ o \in Orgs /\ req[r].rec \in Record /\ engine[o] \in Record
      /\ req[r].op \in {"init", "issue"}
      /\ req[r].pc \notin {"loadOrg", "loadAuth", "issue"} => req[r].op = "init"
  BY <1>1, CallGoesOn
<1>3. /\ engine \in [Orgs -> Record] /\ row \in [Orgs -> Record]
      /\ faults \in 0..MaxFaults /\ disturbed \subseteq Orgs
  BY DEF TypeInv, TypeOK
<1>4. [row EXCEPT ![o] = req[r].rec] \in [Orgs -> Record]
  BY <1>2, <1>3
<1>5. CASE SaveRow(r)
  BY <1>2, <1>3, <1>4, <1>5, StepsTyped DEF SaveRow, Step
<1>6. CASE SaveFails(r)
  BY <1>2, <1>3, <1>6, StepsTyped, FaultCounted DEF SaveFails, Step
<1>7. CASE LoadOrgFromJSON(r)
  <2>1. req[r].rec.org \in Requests \cup {Nil} /\ NoKey \in Key
    BY <1>2, RecordsTyped DEF Record
  <2>2. engine' \in [Orgs -> Record]
    BY <1>2, <1>3, <1>7, <2>1, EngineLoaded DEF LoadOrgFromJSON
  <2>3. QED
    BY <1>3, <1>7, <2>2, StepsTyped DEF LoadOrgFromJSON
<1>8. CASE LoadAuthFromJSON(r)
  <2>1. req[r].rec.pub \in Key /\ req[r].rec.prv \in Key /\ Nil \in Requests \cup {Nil}
    BY <1>2 DEF Record
  <2>2. engine' \in [Orgs -> Record]
    BY <1>2, <1>3, <1>8, <2>1, EngineLoaded DEF LoadAuthFromJSON
  <2>3. QED
    BY <1>2, <1>3, <1>8, <2>2, StepsTyped DEF LoadAuthFromJSON
<1>9. CASE InitOrg(r)
  <2>1. engine' \in [Orgs -> Record]
    BY <1>2, <1>3, <1>9, RecordsTyped, EngineLoaded DEF InitOrg
  <2>2. QED
    BY <1>2, <1>3, <1>9, <2>1, StepsTyped DEF InitOrg, Step
<1>10. CASE InitAuthority(r)
  <2>1. [group |-> engine[o].org, draw |-> r] \in Key /\ Nil \in Requests \cup {Nil}
    BY <1>2 DEF Record, Key
  <2>2. engine' \in [Orgs -> Record]
    BY <1>2, <1>3, <1>10, <2>1, EngineLoaded DEF InitAuthority
  <2>3. QED
    BY <1>2, <1>3, <1>10, <2>2, StepsTyped DEF InitAuthority, Step
<1>11. CASE LookupRow(r)
  BY <1>2, <1>3, <1>11, StepsTyped DEF LookupRow, Step
<1>12. CASE StoreRow(r)
  <2>1. row' \in [Orgs -> Record]
    BY <1>3, <1>4, <1>12 DEF StoreRow
  <2>2. QED
    BY <1>2, <1>3, <1>12, <2>1, StepsTyped DEF StoreRow, Step
<1>13. CASE GatewayUnavailable(r)
  BY <1>3, <1>13, StepsTyped DEF GatewayUnavailable
<1>14. QED
  BY <1>5, <1>6, <1>7, <1>8, <1>9, <1>10, <1>11, <1>12, <1>13

LEMMA ReadEngineKeepsTypes ==
  ASSUME TypeInv, NEW r \in Requests, ReadEngine(r)
  PROVE  TypeInv'
<1> DEFINE o == req[r].org
           e == engine[o]
<1>1. Active(r) /\ req[r].pc \in {"readOrg", "readPub", "readPrv"} /\ UNCHANGED <<ledger, engine, row, faults, disturbed>>
  BY DEF ReadEngine, Active
<1>2. /\ req[r] \in Request /\ req[r].rec \in Record /\ e \in Record
      /\ tx[r].stage = "idle" /\ req[r].op = "init"
  BY <1>1, CallGoesOn
<1>3. PICK rec \in Record, pc \in {"readPub", "readPrv", "lookup"} :
        req' = [req EXCEPT ![r] = [[req[r] EXCEPT !.rec = rec] EXCEPT !.pc = pc]]
  <2>1. /\ [req[r].rec EXCEPT !.org = e.org] \in Record
        /\ [req[r].rec EXCEPT !.pub = e.pub] \in Record
        /\ [req[r].rec EXCEPT !.prv = e.prv] \in Record
    BY <1>2 DEF Record
  <2>2. CASE req[r].pc = "readOrg"
    <3>1. req' = [req EXCEPT ![r] = [[req[r] EXCEPT !.rec = [req[r].rec EXCEPT !.org = e.org]]
                                      EXCEPT !.pc = "readPub"]]
      BY <2>2 DEF ReadEngine
    <3>2. QED
      BY <2>1, <3>1
  <2>3. CASE req[r].pc = "readPub"
    <3>1. req' = [req EXCEPT ![r] = [[req[r] EXCEPT !.rec = [req[r].rec EXCEPT !.pub = e.pub]]
                                      EXCEPT !.pc = "readPrv"]]
      BY <2>3 DEF ReadEngine
    <3>2. QED
      BY <2>1, <3>1
  <2>4. CASE req[r].pc = "readPrv"
    <3>1. req' = [req EXCEPT ![r] = [[req[r] EXCEPT !.rec = [req[r].rec EXCEPT !.prv = e.prv]]
                                      EXCEPT !.pc = "lookup"]]
      BY <2>4 DEF ReadEngine
    <3>2. QED
      BY <2>1, <3>1
  <2>5. QED
    BY <1>1, <2>2, <2>3, <2>4
<1> DEFINE q == [[req[r] EXCEPT !.rec = rec] EXCEPT !.pc = pc]
<1>4. q \in Request
  BY <1>2, RequestUpdated
<1>5. q.op = req[r].op /\ q.org = req[r].org /\ q.alone = req[r].alone /\ q.pc = pc
  BY <1>2 DEF Request
<1>6. QED
  BY <1>1, <1>2, <1>3, <1>4, <1>5, CallMoves DEF TypeInv, TypeOK

LEMMA StoreFailsKeepsTypes ==
  ASSUME TypeInv, NEW r \in Requests, StoreFails(r)
  PROVE  TypeInv'
<1>1. Active(r) /\ UNCHANGED <<ledger, engine, row>>
      /\ req[r].pc \in {"lookup", "create", "update"}
  BY DEF StoreFails, Active
<1>2. /\ req[r] \in Request /\ req[r].org \in Orgs
      /\ tx[r].stage = "idle" /\ req[r].op = "init"
  BY <1>1, CallGoesOn
<1> DEFINE q == [[req[r] EXCEPT !.pc = "sync"] EXCEPT !.alone = FALSE]
<1>3. req' = [req EXCEPT ![r] = q]
  BY DEF StoreFails
<1>4. q \in Request
  BY <1>2, RequestUpdated
<1>5. q.op = req[r].op /\ q.org = req[r].org /\ q.alone = FALSE /\ q.pc = "sync"
  BY <1>2 DEF Request
<1>6. disturbed' \subseteq Orgs /\ faults' \in 0..MaxFaults
  BY <1>2, FaultCounted DEF StoreFails, TypeInv, TypeOK
<1>7. QED
  BY <1>1, <1>2, <1>3, <1>4, <1>5, <1>6, CallMoves DEF TypeInv, TypeOK

\* The table it will write is what it has read, with its own key.
LEMMA ParamsReadTyped ==
  ASSUME TypeInv, NEW r \in Requests, ReadParams(r) \/ ReadParamsFails(r)
  PROVE  /\ Active(r) /\ req[r].pc = "sync" /\ req[r] \in Request
         /\ UNCHANGED <<ledger, engine, row, disturbed>>
         /\ \E table \in Table :
              /\ req' = [req EXCEPT ![r] = [[req[r] EXCEPT !.pc = "submit"] EXCEPT !.table = table]]
              /\ table[req[r].org] = req[r].rec.pub
<1>1. Active(r) /\ req[r].pc = "sync" /\ UNCHANGED <<ledger, engine, row, disturbed>>
  BY DEF ReadParams, ReadParamsFails, Active
<1>2. req[r] \in Request /\ req[r].rec \in Record /\ req[r].org \in Orgs
  BY <1>1, CallGoesOn
<1>3. PICK before \in Table :
        req' = [req EXCEPT ![r].pc = "submit", ![r].table = WithOwnKey(r, before)]
  BY RecordsTyped DEF TypeInv, ReadParams, ReadParamsFails
<1>4. WithOwnKey(r, before) \in Table /\ WithOwnKey(r, before)[req[r].org] = req[r].rec.pub
  BY <1>2 DEF WithOwnKey, Table, Record
<1>5. req' = [req EXCEPT ![r] = [[req[r] EXCEPT !.pc = "submit"]
                                  EXCEPT !.table = WithOwnKey(r, before)]]
  BY <1>3
<1>6. QED
  BY <1>1, <1>2, <1>4, <1>5

LEMMA ReadParamsKeepsTypes ==
  ASSUME TypeInv, NEW r \in Requests, ReadParams(r) \/ ReadParamsFails(r)
  PROVE  TypeInv'
<1>1. PICK table \in Table :
        req' = [req EXCEPT ![r] = [[req[r] EXCEPT !.pc = "submit"] EXCEPT !.table = table]]
  BY ParamsReadTyped
<1>2. /\ Active(r) /\ req[r].pc = "sync" /\ req[r] \in Request
      /\ UNCHANGED <<ledger, engine, row, disturbed>>
  BY ParamsReadTyped
<1> DEFINE q == [[req[r] EXCEPT !.pc = "submit"] EXCEPT !.table = table]
<1>3. q \in Request
  BY <1>2, RequestUpdated
<1>4. q.op = req[r].op /\ q.org = req[r].org /\ q.alone = req[r].alone /\ q.pc = "submit"
  BY <1>2 DEF Request
<1>5. tx[r].stage = "idle" /\ req[r].op = "init"
  BY <1>2, CallGoesOn
<1>6. faults' \in 0..MaxFaults
  BY FaultCounted DEF ReadParams, ReadParamsFails, TypeInv, TypeOK
<1>7. QED
  BY <1>1, <1>2, <1>3, <1>4, <1>5, <1>6, CallMoves DEF TypeInv, TypeOK

LEMMA IssueKeepsTypes ==
  ASSUME TypeInv, NEW r \in Requests, IssueUserKey(r)
  PROVE  TypeInv'
<1> DEFINE key == engine[req[r].org].prv
           q == [[req[r] EXCEPT !.pc = "done"] EXCEPT !.issued = key]
<1>1. /\ Active(r) /\ UNCHANGED <<ledger, engine, row, faults, disturbed>>
      /\ req' = [req EXCEPT ![r] = q] /\ req[r].pc = "issue"
  BY DEF IssueUserKey, Active
<1>2. req[r] \in Request /\ key \in Key /\ tx[r].stage = "idle"
  BY <1>1, CallGoesOn DEF Record
<1>3. q \in Request
  BY <1>2, RequestUpdated
<1>4. q.op = req[r].op /\ q.org = req[r].org /\ q.alone = req[r].alone /\ q.pc = "done"
  BY <1>2 DEF Request
<1>5. QED
  BY <1>1, <1>2, <1>3, <1>4, CallMoves DEF TypeInv, TypeOK

-----------------------------------------------------------------------------
\* A call that sends, or hears of, its transaction.
LEMMA SendsKeepTypes ==
  ASSUME TypeInv, NEW r \in Requests, SubmitParams(r) \/ SubmitFails(r) \/ SubmitReturns(r)
  PROVE  TypeInv'
<1>1. /\ Active(r) /\ UNCHANGED <<world, engine, row, faults, disturbed>>
      /\ req[r].pc \in {"submit", "wait"}
      /\ \E to \in {"wait", "done"} : req' = [req EXCEPT ![r] = [req[r] EXCEPT !.pc = to]]
  BY DEF SubmitParams, SubmitFails, SubmitReturns, Step, Active,
         Ledger!PutGlobalParams, Ledger!Simulated, Ledger!Refuse, Ledger!Answer, Ledger!GiveUp
<1>2. PICK to \in {"wait", "done"} : req' = [req EXCEPT ![r] = [req[r] EXCEPT !.pc = to]]
  BY <1>1
<1>3. req[r] \in Request /\ req[r].table \in Table /\ req[r].op = "init" /\ req[r].org \in Orgs
  BY <1>1, CallGoesOn
<1>4. [req[r] EXCEPT !.pc = to] \in Request
  BY <1>3, RequestUpdated
<1>5. /\ req \in [Requests -> Request] /\ tx \in [Requests -> Ledger!TxState]
      /\ world \in [Ledger!Keys -> Ledger!Asset] /\ Params \in Ledger!Keys
      /\ CallInv(r)
  BY DEF TypeInv, TypeOK, Ledger!TypeOK, Ledger!Keys
<1>6. /\ req' \in [Requests -> Request] /\ \A s \in Requests \ {r} : req'[s] = req[s]
      /\ req'[r].op = "init" /\ req'[r].org \in Orgs /\ req'[r].pc = to
  BY <1>2, <1>3, <1>4, <1>5 DEF Request
<1>7. PICK t \in Ledger!TxState : /\ tx' = [tx EXCEPT ![r] = t]
                                  /\ t.answer = "ok" => t.stage = "committed"
                                  /\ t.stage = "endorsed" =>
                                       t.key = Params /\ t.write.version > 0 /\ t.write.body \in Table
  <2>1. CASE SubmitParams(r)
    <3> DEFINE a == [version |-> world[Params].version + 1, body |-> req[r].table,
                     createdAt |-> NoTime, writer |-> r]
               t == [stage |-> "endorsed", key |-> Params, blind |-> FALSE,
                     read |-> world[Params].writer, write |-> a, answer |-> "none"]
    <3>1. tx' = [tx EXCEPT ![r] = t]
      BY <2>1 DEF SubmitParams, Ledger!PutGlobalParams, Ledger!Simulated
    <3>2. world[Params] \in Ledger!Asset
      BY <1>5
    <3>3. a \in Ledger!Asset /\ a.version > 0 /\ world[Params].writer \in Requests \cup {Nil}
      BY <1>3, <3>2 DEF Ledger!Asset
    <3>4. FALSE \in BOOLEAN
      OBVIOUS
    <3>5. t \in Ledger!TxState
      BY <1>5, <3>3, <3>4 DEF Ledger!TxState, Ledger!Stages
    <3>6. QED
      BY <1>3, <3>1, <3>3, <3>5
  <2>2. CASE SubmitFails(r)
    <3> DEFINE t == [tx[r] EXCEPT !.stage = "refused", !.answer = "failed"]
    <3>1. tx' = [tx EXCEPT ![r] = t]
      BY <2>2 DEF SubmitFails, Ledger!Refuse
    <3>2. t \in Ledger!TxState /\ t.answer = "failed" /\ t.stage = "refused"
      BY <1>5 DEF Ledger!TxState, Ledger!Stages
    <3>3. QED
      BY <3>1, <3>2
  <2>3. CASE SubmitReturns(r)
    <3>1. PICK a \in {"ok", "failed", "unknown"} :
            /\ tx' = [tx EXCEPT ![r] = [tx[r] EXCEPT !.answer = a]]
            /\ a = "ok" => tx[r].stage = "committed"
      BY <2>3 DEF SubmitReturns, Ledger!Answer, Ledger!GiveUp
    <3> DEFINE t == [tx[r] EXCEPT !.answer = a]
    <3>2. /\ t \in Ledger!TxState /\ t.answer = a /\ t.stage = tx[r].stage /\ t.key = tx[r].key
          /\ t.write = tx[r].write
      BY <1>5 DEF Ledger!TxState
    <3>3. QED
      BY <1>5, <3>1, <3>2 DEF CallInv
  <2>4. QED
    BY <2>1, <2>2, <2>3
<1>8. tx' \in [Requests -> Ledger!TxState] /\ tx'[r] = t /\ \A s \in Requests \ {r} : tx'[s] = tx[s]
  BY <1>5, <1>7
<1>9. TypeOK'
  BY <1>1, <1>6, <1>8 DEF TypeInv, TypeOK, Ledger!TypeOK
<1>10. ASSUME NEW s \in Requests
       PROVE  CallInv(s)'
  <2>1. CASE s = r
    BY <1>6, <1>7, <1>8, <2>1 DEF CallInv
  <2>2. CASE s # r
    BY <1>6, <1>8, <2>2 DEF TypeInv, CallInv
  <2>3. QED
    BY <2>1, <2>2
<1>11. QED
  BY <1>1, <1>9, <1>10 DEF TypeInv

LEMMA LedgerStepKeepsTypes ==
  ASSUME TypeInv, NEW r \in Requests, LedgerStep(r)
  PROVE  TypeInv'
<1>1. /\ tx \in [Requests -> Ledger!TxState] /\ world \in [Ledger!Keys -> Ledger!Asset]
      /\ Params \in Ledger!Keys /\ CallInv(r)
  BY DEF TypeInv, TypeOK, Ledger!TypeOK, Ledger!Keys
<1>2. UNCHANGED <<engine, row, req, faults, disturbed>> /\ tx[r].stage = "endorsed"
  BY DEF LedgerStep, Ledger!Commit, Ledger!Invalidate, Ledger!Drop
<1>3. PICK stage \in {"committed", "invalid", "dropped"} :
        tx' = [tx EXCEPT ![r] = [tx[r] EXCEPT !.stage = stage]]
  BY DEF LedgerStep, Ledger!Commit, Ledger!Invalidate, Ledger!Drop
<1>4. /\ [tx[r] EXCEPT !.stage = stage] \in Ledger!TxState
      /\ tx'[r].stage = stage /\ tx'[r].answer = tx[r].answer
      /\ tx' \in [Requests -> Ledger!TxState] /\ \A s \in Requests \ {r} : tx'[s] = tx[s]
  BY <1>1, <1>3 DEF Ledger!TxState, Ledger!Stages
<1>5. world' = world \/ world' = [world EXCEPT ![Params] = tx[r].write]
  BY <1>1, <1>2 DEF LedgerStep, Ledger!Commit, Ledger!Invalidate, Ledger!Drop, CallInv
<1>6. tx[r].write \in Ledger!Asset /\ tx[r].write.body \in Table /\ tx[r].answer # "ok"
  BY <1>1, <1>2 DEF CallInv, Ledger!TxState
<1>7. world' \in [Ledger!Keys -> Ledger!Asset]
  BY <1>1, <1>5, <1>6
<1>8. world'[Params].version > 0 => world'[Params].body \in Table
  BY <1>1, <1>5, <1>6 DEF TypeInv
<1>9. ASSUME NEW s \in Requests
      PROVE  CallInv(s)'
  <2>1. CASE s = r
    BY <1>1, <1>2, <1>4, <1>6, <2>1 DEF CallInv
  <2>2. CASE s # r
    BY <1>2, <1>4, <2>2 DEF TypeInv, CallInv
  <2>3. QED
    BY <2>1, <2>2
<1>10. TypeOK'
  BY <1>2, <1>4, <1>7 DEF TypeInv, TypeOK, Ledger!TypeOK
<1>11. QED
  BY <1>8, <1>9, <1>10 DEF TypeInv

-----------------------------------------------------------------------------
\* What a new call is, and what it does to the others' histories.
Begun(r, o, op, pc, rec) ==
  /\ req' \in [Requests -> Request] /\ req[r].pc = "idle"
  /\ req'[r].pc = pc /\ req'[r].op = op /\ req'[r].org = o /\ req'[r].rec = rec
  /\ req'[r].alone => op = "init" /\ Quiet
  /\ \A s \in Requests \ {r} :
       /\ req'[s].alone => req[s].alone /\ op = "issue"
       /\ req'[s] = [req[s] EXCEPT !.alone = req'[s].alone]

LEMMA BeginTyped ==
  ASSUME TypeInv, NEW r \in Requests, NEW o \in Orgs, NEW op \in {"init", "issue"},
         NEW pc \in {"save", "loadOrg", "initOrg"}, NEW rec \in Record,
         Begin(r, o, op, pc, rec)
  PROVE  Begun(r, o, op, pc, rec)
<1>1. req \in [Requests -> Request]
  BY DEF TypeInv, TypeOK
<1> DEFINE b == op = "init" /\ Quiet
           n == [NewRequest EXCEPT !.pc = pc, !.op = op, !.org = o, !.rec = rec, !.alone = b]
           m(s) == [req[s] EXCEPT !.alone = req[s].alone /\ op # "init"]
<1>2. b \in BOOLEAN
  BY Zenon
<1>3. \A a \in BOOLEAN :
        LET k == [NewRequest EXCEPT !.pc = pc, !.op = op, !.org = o, !.rec = rec, !.alone = a]
        IN  /\ k \in Request /\ k.pc = pc /\ k.op = op /\ k.org = o /\ k.rec = rec /\ k.alone = a
  BY RecordsTyped DEF Request
<1>4. n \in Request /\ n.pc = pc /\ n.op = op /\ n.org = o /\ n.rec = rec /\ n.alone = b
  BY <1>2, <1>3
<1>5. ASSUME NEW s \in Requests
      PROVE  /\ m(s) \in Request /\ m(s).alone = (req[s].alone /\ op # "init")
             /\ m(s) = [req[s] EXCEPT !.alone = m(s).alone]
  <2>1. req[s] \in Request
    BY <1>1
  <2>2. \A a \in BOOLEAN : LET k == [req[s] EXCEPT !.alone = a]
                           IN  k \in Request /\ k.alone = a /\ k = [req[s] EXCEPT !.alone = k.alone]
    BY <2>1 DEF Request
  <2>3. (req[s].alone /\ op # "init") \in BOOLEAN
    BY Zenon
  <2>4. QED
    BY <2>2, <2>3
<1>6. req' = [q \in Requests |-> IF q = r THEN n ELSE m(q)] /\ req[r].pc = "idle"
  BY DEF Begin
<1> HIDE DEF n, m
<1>7. req'[r] = n /\ \A s \in Requests \ {r} : req'[s] = m(s)
  BY <1>6
<1>8. req' \in [Requests -> Request]
  BY <1>4, <1>5, <1>6
<1>9. ASSUME NEW s \in Requests \ {r}
      PROVE  /\ req'[s].alone => req[s].alone /\ op = "issue"
             /\ req'[s] = [req[s] EXCEPT !.alone = req'[s].alone]
  <2>1. req'[s] = m(s)
    BY <1>7
  <2>2. m(s).alone = (req[s].alone /\ op # "init") /\ m(s) = [req[s] EXCEPT !.alone = m(s).alone]
    BY <1>5
  <2>3. req'[s].alone = (req[s].alone /\ op # "init")
    BY <2>1, <2>2, Zenon
  <2>4. QED
    BY <2>1, <2>2, <2>3
<1>10. QED
  BY <1>4, <1>6, <1>7, <1>8, <1>9 DEF Begun

\* Which new calls there are.
LEMMA StartBegins ==
  ASSUME TypeInv, NEW r \in Requests, NEW o \in Orgs, Start(r, o)
  PROVE  /\ UNCHANGED <<ledger, engine, row>>
         /\ faults' \in 0..MaxFaults /\ disturbed' \subseteq Orgs
         /\ \E op \in {"init", "issue"}, pc \in {"save", "loadOrg", "initOrg"}, rec \in Record :
              /\ Begin(r, o, op, pc, rec)
              /\ op = "issue" => pc = "loadOrg"
              /\ op = "init" => pc # "loadOrg"
              /\ pc = "save" => rec = row[o]
<1>1. /\ row[o] \in Record /\ NoRecord \in Record
      /\ faults \in 0..MaxFaults /\ disturbed \subseteq Orgs
  BY RecordsTyped DEF TypeInv, TypeOK
<1>2. CASE StartInit(r, o)
  BY <1>1, <1>2 DEF StartInit
<1>3. CASE StartInitQueryFails(r, o)
  BY <1>1, <1>3, FaultCounted DEF StartInitQueryFails
<1>4. CASE StartIssue(r, o)
  BY <1>1, <1>4 DEF StartIssue
<1>5. QED
  BY <1>2, <1>3, <1>4 DEF Start

LEMMA StartKeepsTypes ==
  ASSUME TypeInv, NEW r \in Requests, NEW o \in Orgs, Start(r, o)
  PROVE  TypeInv'
<1>1. PICK op \in {"init", "issue"}, pc \in {"save", "loadOrg", "initOrg"}, rec \in Record :
        /\ Begin(r, o, op, pc, rec)
        /\ op = "issue" => pc = "loadOrg"
  BY StartBegins
<1>2. Begun(r, o, op, pc, rec)
  BY <1>1, BeginTyped
<1>3. TypeOK' /\ UNCHANGED <<world, tx>>
  BY <1>2, StartBegins DEF Begun, TypeInv, TypeOK, ledger, Ledger!TypeOK
<1>4. ASSUME NEW s \in Requests
      PROVE  CallInv(s)'
  <2>1. CallInv(s) /\ req[s] \in Request
    BY DEF TypeInv, TypeOK
  <2>2. CASE s = r
    <3>1. tx[r].stage = "idle"
      BY <1>2, <2>1, <2>2 DEF CallInv, Begun
    <3>2. QED
      BY <1>1, <1>2, <1>3, <2>1, <2>2, <3>1 DEF CallInv, Begun
  <2>3. CASE s # r
    <3>1. req'[s].pc = req[s].pc /\ req'[s].op = req[s].op /\ req'[s].org = req[s].org
      BY <1>2, <2>1, <2>3 DEF Request, Begun
    <3>2. QED
      BY <1>2, <1>3, <2>1, <2>3, <3>1 DEF CallInv, Begun
  <2>4. QED
    BY <2>2, <2>3
<1>5. QED
  BY <1>3, <1>4 DEF TypeInv

LEMMA CrashKeepsTypes ==
  ASSUME TypeInv, NEW o \in Orgs, Crash(o)
  PROVE  TypeInv'
<1>1. /\ req \in [Requests -> Request] /\ engine \in [Orgs -> Record] /\ row \in [Orgs -> Record]
      /\ UNCHANGED <<world, tx, row, disturbed>> /\ faults' \in 0..MaxFaults
  BY FaultCounted DEF TypeInv, TypeOK, Crash, ledger
<1>2. [NoRecord EXCEPT !.org = row[o].org] \in Record
  BY <1>1, RecordsTyped DEF Record
<1>3. engine' \in [Orgs -> Record]
  BY <1>1, <1>2 DEF Crash
<1>4. ASSUME NEW s \in Requests
      PROVE  /\ req'[s] \in Request
             /\ \/ req'[s] = req[s]
                \/ Active(s) /\ req'[s] = [req[s] EXCEPT !.pc = "done"]
  <2>1. req[s] \in Request
    BY <1>1
  <2>2. [req[s] EXCEPT !.pc = "done"] \in Request
    BY <2>1, RequestUpdated
  <2>3. QED
    BY <2>1, <2>2 DEF Crash
<1>5. req' \in [Requests -> Request]
  BY <1>4 DEF Crash
<1>6. ASSUME NEW s \in Requests
      PROVE  CallInv(s)'
  <2>1. CallInv(s) /\ req[s] \in Request
    BY <1>1 DEF TypeInv
  <2>2. CASE req'[s] = req[s]
    BY <1>1, <2>1, <2>2 DEF CallInv
  <2>3. CASE Active(s) /\ req'[s] = [req[s] EXCEPT !.pc = "done"]
    <3>1. /\ req'[s].pc = "done" /\ req'[s].op = req[s].op /\ req'[s].org = req[s].org
          /\ req'[s].alone = req[s].alone
      BY <2>1, <2>3 DEF Request
    <3>2. QED
      BY <1>1, <2>1, <2>3, <3>1 DEF CallInv, Active
  <2>4. QED
    BY <1>4, <2>2, <2>3
<1>7. QED
  BY <1>1, <1>3, <1>5, <1>6 DEF TypeInv, TypeOK, Ledger!TypeOK

LEMMA TypesInit == Init => TypeInv
<1> SUFFICES ASSUME Init PROVE TypeInv
  OBVIOUS
<1>1. Ledger!Absent \in Ledger!Asset
  BY DEF Ledger!Absent, Ledger!Asset
<1>2. FALSE \in BOOLEAN
  OBVIOUS
<1>3. Ledger!Unused \in Ledger!TxState
  BY <1>1, <1>2 DEF Ledger!Unused, Ledger!TxState, Ledger!Keys, Ledger!Stages
<1>4. Ledger!TypeOK
  BY <1>1, <1>3 DEF Init, Ledger!Init, Ledger!TypeOK
<1>5. TypeOK
  BY <1>4, RecordsTyped, AuthAdminAssumption DEF Init, TypeOK
<1>6. world[Params].version = 0
  BY DEF Init, Ledger!Init, Ledger!Absent, Ledger!Keys
<1>7. ASSUME NEW r \in Requests
      PROVE  CallInv(r)
  <2>1. req[r] = NewRequest /\ tx[r].stage = "idle" /\ tx[r].answer = "none"
    BY DEF Init, Ledger!Init, Ledger!Unused
  <2>2. QED
    BY <2>1, RecordsTyped DEF CallInv
<1>8. QED
  BY <1>5, <1>6, <1>7 DEF TypeInv

LEMMA NextKeepsTypes ==
  ASSUME TypeInv, [Next]_vars
  PROVE  TypeInv'
<1>1. CASE UNCHANGED vars
  BY <1>1 DEF vars, TypeInv, TypeOK, Ledger!TypeOK, CallInv
<1>2. CASE \E o \in Orgs : Crash(o)
  BY <1>2, CrashKeepsTypes
<1>3. ASSUME NEW r \in Requests,
             (\E o \in Orgs : Start(r, o)) \/ Continue(r) \/ LedgerStep(r)
      PROVE  TypeInv'
  BY <1>3, StartKeepsTypes, MovesKeepTypes, ReadEngineKeepsTypes, StoreFailsKeepsTypes,
     ReadParamsKeepsTypes, IssueKeepsTypes, SendsKeepTypes, LedgerStepKeepsTypes DEF Continue
<1>4. QED
  BY <1>1, <1>2, <1>3 DEF Next

\* auth_admin/main.go:212-378: every variable keeps its type; a table read from
\* the ledger is a table because nothing else is ever sent there.
THEOREM TypeInvariant == Spec => []TypeInv
<1>1. TypeInv /\ [Next]_vars => TypeInv'
  BY NextKeepsTypes
<1>2. QED
  BY <1>1, TypesInit, PTL DEF Spec

THEOREM TypeCorrect == Spec => []TypeOK
<1>1. TypeInv => TypeOK
  BY DEF TypeInv
<1>2. QED
  BY <1>1, TypeInvariant, PTL

-----------------------------------------------------------------------------
(***************************************************************************)
(* A call of initOrg that no other has met repairs what it finds.          *)
(***************************************************************************)

\* A call that goes on, or its transaction, leaves the other calls alone.
LEMMA OthersWait ==
  ASSUME TypeInv, NEW r \in Requests, Continue(r) \/ LedgerStep(r)
  PROVE  /\ \A s \in Requests \ {r} : req'[s] = req[s] /\ tx'[s] = tx[s]
         /\ req'[r].op = req[r].op /\ req'[r].org = req[r].org
         /\ req'[r].alone => req[r].alone
<1>1. req \in [Requests -> Request] /\ tx \in [Requests -> Ledger!TxState]
  BY DEF TypeInv, TypeOK, Ledger!TypeOK
<1>2. req[r] \in Request
  BY <1>1
<1>3. CASE LedgerStep(r)
  BY <1>1, <1>3 DEF LedgerStep, Ledger!Commit, Ledger!Invalidate, Ledger!Drop
<1>4. CASE ReadParams(r) \/ ReadParamsFails(r)
  <2>1. PICK table \in Table :
          req' = [req EXCEPT ![r] = [[req[r] EXCEPT !.pc = "submit"] EXCEPT !.table = table]]
    BY <1>4, ParamsReadTyped
  <2>2. UNCHANGED tx
    BY <1>4 DEF ReadParams, ReadParamsFails, ledger
  <2>3. QED
    BY <1>1, <1>2, <2>1, <2>2 DEF Request
<1>5. CASE ReadEngine(r)
  BY <1>1, <1>2, <1>5 DEF ReadEngine, ledger, Request
<1>6. CASE StoreFails(r) \/ IssueUserKey(r)
  BY <1>1, <1>2, <1>6 DEF StoreFails, IssueUserKey, ledger, Request
<1>7. ASSUME NEW from, NEW to, Step(r, from, to)
      PROVE  /\ \A s \in Requests \ {r} : req'[s] = req[s]
             /\ req'[r].op = req[r].op /\ req'[r].org = req[r].org
             /\ req'[r].alone => req[r].alone
  BY <1>1, <1>2, <1>7 DEF Step, Request
<1>8. CASE SubmitParams(r) \/ SubmitFails(r) \/ SubmitReturns(r)
  <2>1. \A s \in Requests \ {r} : tx'[s] = tx[s]
    BY <1>1, <1>8 DEF SubmitParams, SubmitFails, SubmitReturns, Ledger!PutGlobalParams,
                      Ledger!Simulated, Ledger!Refuse, Ledger!Answer, Ledger!GiveUp
  <2>2. \E from, to : Step(r, from, to)
    BY <1>8 DEF SubmitParams, SubmitFails, SubmitReturns
  <2>3. QED
    BY <1>7, <2>1, <2>2
<1>9. CASE \/ SaveRow(r) \/ SaveFails(r) \/ LoadOrgFromJSON(r) \/ LoadAuthFromJSON(r)
           \/ InitOrg(r) \/ InitAuthority(r) \/ LookupRow(r) \/ StoreRow(r)
           \/ GatewayUnavailable(r)
  <2>1. UNCHANGED tx
    BY <1>9 DEF SaveRow, SaveFails, LoadOrgFromJSON, LoadAuthFromJSON, InitOrg, InitAuthority,
                LookupRow, StoreRow, GatewayUnavailable, ledger
  <2>2. \E from, to : Step(r, from, to)
    BY <1>9 DEF SaveRow, SaveFails, LoadOrgFromJSON, LoadAuthFromJSON, InitOrg, InitAuthority,
                LookupRow, StoreRow, GatewayUnavailable
  <2>3. QED
    BY <1>7, <2>1, <2>2
<1>10. QED
  BY <1>3, <1>4, <1>5, <1>6, <1>8, <1>9 DEF Continue

LEMMA AloneIsInit ==
  ASSUME TypeInv, NEW s \in Requests, req[s].alone
  PROVE  req[s].op = "init" /\ req[s].org \in Orgs /\ req[s].pc # "idle"
BY DEF TypeInv, CallInv

\* Beside a call that is alone only keys are issued.
LEMMA OthersIssue ==
  ASSUME TypeInv, AloneInv, NEW s \in Requests, req[s].alone, NEW r \in Requests \ {s},
         Continue(r) \/ LedgerStep(r)
  PROVE  req[r].op = "issue" /\ UNCHANGED <<world, tx, row>>
<1>1. OthersSettled(s) /\ CallInv(r)
  BY DEF TypeInv, AloneInv
<1>2. ~LedgerStep(r)
  BY <1>1 DEF OthersSettled, LedgerStep, Ledger!Commit, Ledger!Invalidate, Ledger!Drop, CallInv
<1>3. Active(r)
  BY <1>2 DEF Continue, SaveRow, SaveFails, LoadOrgFromJSON, LoadAuthFromJSON, InitOrg,
              InitAuthority, ReadEngine, LookupRow, StoreRow, StoreFails, GatewayUnavailable,
              ReadParams, ReadParamsFails, SubmitParams, SubmitFails, SubmitReturns,
              IssueUserKey, Step, Active
<1>4. req[r].op = "issue"
  BY <1>1, <1>3, CallGoesOn DEF OthersSettled
<1>5. req[r].pc \in {"loadOrg", "loadAuth", "issue"}
  BY <1>1, <1>3, <1>4 DEF CallInv, Active
<1>6. LoadOrgFromJSON(r) \/ LoadAuthFromJSON(r) \/ IssueUserKey(r)
  BY <1>2, <1>5 DEF Continue, SaveRow, SaveFails, InitOrg,
              InitAuthority, ReadEngine, LookupRow, StoreRow, StoreFails, GatewayUnavailable,
              ReadParams, ReadParamsFails, SubmitParams, SubmitFails, SubmitReturns, Step
<1>7. QED
  BY <1>4, <1>6 DEF LoadOrgFromJSON, LoadAuthFromJSON, IssueUserKey, ledger

LEMMA SettledStays ==
  ASSUME TypeInv, AloneInv, NEW r \in Requests, Continue(r) \/ LedgerStep(r),
         NEW s \in Requests, req'[s].alone
  PROVE  /\ req[s].alone /\ OthersSettled(s)'
         /\ s # r => CarriesRow(s)'
<1>1. /\ \A q \in Requests \ {r} : req'[q] = req[q] /\ tx'[q] = tx[q]
      /\ req'[r].op = req[r].op
      /\ req'[r].alone => req[r].alone
  BY OthersWait
<1>2. req[s].alone /\ OthersSettled(s) /\ CarriesRow(s)
  BY <1>1 DEF AloneInv
<1>3. CASE s = r
  BY <1>1, <1>2, <1>3 DEF OthersSettled, Active
<1>4. CASE s # r
  <2>1. req[r].op = "issue" /\ UNCHANGED <<world, tx, row>> /\ req'[s] = req[s]
    BY <1>1, <1>2, <1>4, OthersIssue
  <2>2. OthersSettled(s)'
    BY <1>1, <1>2, <1>4, <2>1 DEF OthersSettled, Active
  <2>3. CarriesRow(s)'
    BY <1>2, <2>1 DEF CarriesRow, Present, Published
  <2>4. QED
    BY <1>2, <2>2, <2>3
<1>5. QED
  BY <1>3, <1>4

\* Calling, it comes to hold what the row holds.
LEMMA MoveCarriesRow ==
  ASSUME TypeInv, NEW r \in Requests, CarriesRow(r), req[r].op = "init",
         \/ SaveRow(r) \/ SaveFails(r) \/ LoadOrgFromJSON(r) \/ LoadAuthFromJSON(r)
         \/ InitOrg(r) \/ InitAuthority(r) \/ LookupRow(r) \/ StoreRow(r)
         \/ GatewayUnavailable(r)
  PROVE  CarriesRow(r)'
<1> DEFINE o == req[r].org
<1>1. Active(r) /\ req[r].pc # "wait"
  BY DEF SaveRow, SaveFails, LoadOrgFromJSON, LoadAuthFromJSON, InitOrg, InitAuthority, LookupRow,
         StoreRow, GatewayUnavailable, Step, Active
<1>2. /\ req[r] \in Request /\ o \in Orgs /\ tx[r].stage = "idle"
  BY <1>1, CallGoesOn
<1>3. /\ req \in [Requests -> Request] /\ row \in [Orgs -> Record]
  BY DEF TypeInv, TypeOK
<1>4. /\ UNCHANGED tx
      /\ req'[r].org = o /\ req'[r].rec = req[r].rec /\ req'[r].table = req[r].table
  <2>1. \E from, to : Step(r, from, to)
    BY DEF SaveRow, SaveFails, LoadOrgFromJSON, LoadAuthFromJSON, InitOrg, InitAuthority, LookupRow,
           StoreRow, GatewayUnavailable
  <2>2. UNCHANGED tx
    BY DEF SaveRow, SaveFails, LoadOrgFromJSON, LoadAuthFromJSON, InitOrg, InitAuthority, LookupRow,
           StoreRow, GatewayUnavailable, ledger
  <2>3. QED
    BY <1>2, <1>3, <2>1, <2>2 DEF Step, Request
<1>5. \A from, to : Step(r, from, to) => req[r].pc = from /\ req'[r].pc = to
  BY <1>2, <1>3 DEF Step, Request
<1>6. CASE SaveRow(r)
  BY <1>2, <1>3, <1>4, <1>5, <1>6 DEF SaveRow, CarriesRow
<1>7. CASE StoreRow(r)
  <2>1. req'[r].pc = "sync" /\ req[r].pc \in {"create", "update"}
    BY <1>5, <1>7 DEF StoreRow
  <2>2. row'[o] = req[r].rec
    BY <1>2, <1>3, <1>7, <2>1 DEF StoreRow, CarriesRow, Present
  <2>3. QED
    BY <1>2, <1>4, <2>1, <2>2 DEF CarriesRow
<1>8. CASE LookupRow(r)
  <2>1. /\ req'[r].pc = IF Present(o) THEN "update" ELSE "create"
        /\ row' = row
    BY <1>5, <1>8 DEF LookupRow
  <2>2. QED
    BY <1>2, <1>4, <2>1 DEF CarriesRow, Present
<1>9. CASE LoadOrgFromJSON(r) \/ LoadAuthFromJSON(r)
  <2>1. /\ req'[r].pc \in {"loadAuth", "sync"} /\ row' = row
        /\ req[r].pc \in {"loadOrg", "loadAuth"}
    BY <1>5, <1>9 DEF LoadOrgFromJSON, LoadAuthFromJSON
  <2>2. QED
    BY <1>2, <1>4, <2>1 DEF CarriesRow
<1>10. CASE InitOrg(r) \/ InitAuthority(r) \/ SaveFails(r) \/ GatewayUnavailable(r)
  <2>1. req'[r].pc \in {"initAuth", "readOrg", "done"}
    BY <1>5, <1>10 DEF InitOrg, InitAuthority, SaveFails, GatewayUnavailable
  <2>2. QED
    BY <1>2, <1>4, <2>1 DEF CarriesRow
<1>11. QED
  BY <1>6, <1>7, <1>8, <1>9, <1>10

\* Publishing, it sends the row's key.
LEMMA PublishCarriesRow ==
  ASSUME TypeInv, NEW r \in Requests, CarriesRow(r), req[r].op = "init", req'[r].alone,
         \/ ReadEngine(r) \/ StoreFails(r) \/ ReadParams(r) \/ ReadParamsFails(r)
         \/ SubmitParams(r) \/ SubmitFails(r) \/ SubmitReturns(r) \/ IssueUserKey(r)
         \/ LedgerStep(r)
  PROVE  CarriesRow(r)'
<1> DEFINE o == req[r].org
<1>1. /\ req \in [Requests -> Request] /\ tx \in [Requests -> Ledger!TxState] /\ CallInv(r)
      /\ world \in [Ledger!Keys -> Ledger!Asset] /\ Params \in Ledger!Keys
  BY DEF TypeInv, TypeOK, Ledger!TypeOK, Ledger!Keys
<1>2. req[r] \in Request /\ o \in Orgs
  BY <1>1 DEF CallInv
<1>3. CASE ReadEngine(r)
  <2>1. /\ UNCHANGED <<tx, row, world>> /\ req[r].pc \in {"readOrg", "readPub", "readPrv"}
        /\ req'[r].pc \in {"readPub", "readPrv", "lookup"}
    BY <1>1, <1>2, <1>3 DEF ReadEngine, ledger, Request
  <2>2. tx[r].stage = "idle"
    BY <1>1, <2>1 DEF CallInv
  <2>3. QED
    BY <2>1, <2>2 DEF CarriesRow
<1>4. ~StoreFails(r)
  BY <1>1, <1>2 DEF StoreFails, Request
<1>5. CASE IssueUserKey(r)
  <2>1. UNCHANGED <<tx, row, world>> /\ req[r].pc = "issue" /\ req'[r].pc = "done"
    BY <1>1, <1>2, <1>5 DEF IssueUserKey, ledger, Request
  <2>2. tx[r].stage = "idle"
    BY <1>1, <2>1 DEF CallInv
  <2>3. QED
    BY <2>1, <2>2 DEF CarriesRow
<1>6. CASE ReadParams(r) \/ ReadParamsFails(r)
  <2>1. PICK table \in Table :
          /\ req' = [req EXCEPT ![r] = [[req[r] EXCEPT !.pc = "submit"] EXCEPT !.table = table]]
          /\ table[o] = req[r].rec.pub
    BY <1>6, ParamsReadTyped
  <2>2. /\ req'[r].pc = "submit" /\ req'[r].org = o /\ req'[r].table = table
    BY <1>1, <1>2, <2>1 DEF Request
  <2>3. /\ UNCHANGED <<tx, row, world>> /\ req[r].pc = "sync"
    BY <1>6 DEF ReadParams, ReadParamsFails, ledger
  <2>4. tx[r].stage = "idle" /\ req[r].rec = row[o]
    BY <1>1, <2>3 DEF CallInv, CarriesRow
  <2>5. QED
    BY <2>1, <2>2, <2>3, <2>4 DEF CarriesRow
<1>7. CASE SubmitParams(r) \/ SubmitFails(r) \/ SubmitReturns(r)
  <2>1. /\ UNCHANGED <<row, world>> /\ req[r].pc \in {"submit", "wait"}
        /\ req'[r].pc \in {"wait", "done"} /\ req'[r].org = o
    BY <1>1, <1>2, <1>7 DEF SubmitParams, SubmitFails, SubmitReturns, Step, Request,
          Ledger!PutGlobalParams, Ledger!Simulated, Ledger!Refuse, Ledger!Answer, Ledger!GiveUp
  <2>2. CASE SubmitParams(r)
    <3>1. req[r].pc = "submit" /\ tx'[r].stage = "endorsed" /\ tx'[r].write.body = req[r].table
      BY <1>1, <2>2 DEF SubmitParams, Step, Ledger!PutGlobalParams, Ledger!Simulated
    <3>2. QED
      BY <2>1, <3>1 DEF CarriesRow
  <2>3. CASE SubmitFails(r)
    <3>1. tx'[r].stage = "refused"
      BY <1>1, <2>3 DEF SubmitFails, Ledger!Refuse, Ledger!TxState
    <3>2. QED
      BY <2>1, <3>1 DEF CarriesRow
  <2>4. CASE SubmitReturns(r)
    <3>1. tx'[r].stage = tx[r].stage /\ tx'[r].write = tx[r].write
      BY <1>1, <2>4 DEF SubmitReturns, Ledger!Answer, Ledger!GiveUp, Ledger!TxState
    <3>2. QED
      BY <2>1, <3>1 DEF CarriesRow, Published
  <2>5. QED
    BY <1>7, <2>2, <2>3, <2>4
<1>8. CASE LedgerStep(r)
  <2>1. UNCHANGED <<row, req>> /\ tx[r].stage = "endorsed" /\ req[r].pc \in {"wait", "done"}
    BY <1>1, <1>8 DEF LedgerStep, Ledger!Commit, Ledger!Invalidate, Ledger!Drop, CallInv
  <2>2. CASE Ledger!Commit(r)
    <3>1. tx'[r].stage = "committed" /\ world'[Params] = tx[r].write /\ tx[r].write.version > 0
      BY <1>1, <2>2 DEF Ledger!Commit, Ledger!TxState, CallInv
    <3>2. QED
      BY <2>1, <3>1 DEF CarriesRow, Published
  <2>3. CASE Ledger!Invalidate(r) \/ Ledger!Drop(r)
    <3>1. tx'[r].stage \in {"invalid", "dropped"}
      BY <1>1, <2>3 DEF Ledger!Invalidate, Ledger!Drop, Ledger!TxState
    <3>2. QED
      BY <2>1, <3>1 DEF CarriesRow
  <2>4. QED
    BY <1>8, <2>2, <2>3 DEF LedgerStep
<1>9. QED
  BY <1>3, <1>4, <1>5, <1>6, <1>7, <1>8

\* A new call of initOrg is alone only where the others have settled.
LEMMA StartKeepsAlone ==
  ASSUME TypeInv, AloneInv, NEW r \in Requests, NEW o \in Orgs, Start(r, o)
  PROVE  AloneInv'
<1>1. PICK op \in {"init", "issue"}, pc \in {"save", "loadOrg", "initOrg"}, rec \in Record :
        /\ Begin(r, o, op, pc, rec)
        /\ op = "issue" => pc = "loadOrg"
        /\ op = "init" => pc # "loadOrg"
        /\ pc = "save" => rec = row[o]
  BY StartBegins
<1>2. Begun(r, o, op, pc, rec)
  BY <1>1, BeginTyped
<1>3. UNCHANGED <<world, tx, row>> /\ req \in [Requests -> Request]
  BY StartBegins DEF ledger, TypeInv, TypeOK
<1>4. tx[r].stage = "idle"
  BY <1>2 DEF TypeInv, CallInv, Begun
<1>5. \A s \in Requests \ {r} :
        /\ req'[s].pc = req[s].pc /\ req'[s].op = req[s].op /\ req'[s].org = req[s].org
        /\ req'[s].rec = req[s].rec /\ req'[s].table = req[s].table
        /\ req'[s].alone => req[s].alone /\ op = "issue"
  BY <1>2, <1>3 DEF Begun, Request
<1>6. ASSUME NEW s \in Requests, req'[s].alone
      PROVE  OthersSettled(s)' /\ CarriesRow(s)'
  <2>1. CASE s = r
    <3>1. Quiet /\ op = "init"
      BY <1>2, <1>6, <2>1 DEF Begun
    <3>2. OthersSettled(s)'
      BY <1>3, <1>5, <2>1, <3>1 DEF OthersSettled, Quiet, Active
    <3>3. CarriesRow(s)'
      BY <1>1, <1>2, <1>3, <1>4, <2>1, <3>1 DEF CarriesRow, Begun
    <3>4. QED
      BY <3>2, <3>3
  <2>2. CASE s # r
    <3>1. req[s].alone /\ op = "issue"
      BY <1>5, <1>6, <2>2
    <3>2. OthersSettled(s) /\ CarriesRow(s)
      BY <3>1 DEF AloneInv
    <3>3. OthersSettled(s)'
      BY <1>2, <1>3, <1>5, <2>2, <3>1, <3>2 DEF OthersSettled, Active, Begun
    <3>4. CarriesRow(s)'
      BY <1>3, <1>5, <2>2, <3>2 DEF CarriesRow, Present, Published
    <3>5. QED
      BY <3>3, <3>4
  <2>3. QED
    BY <2>1, <2>2
<1>7. QED
  BY <1>6 DEF AloneInv

LEMMA CrashKeepsAlone ==
  ASSUME TypeInv, AloneInv, NEW o \in Orgs, Crash(o)
  PROVE  AloneInv'
<1>1. req \in [Requests -> Request] /\ UNCHANGED <<world, tx, row>>
  BY DEF TypeInv, TypeOK, Crash, ledger
<1>2. ASSUME NEW s \in Requests
      PROVE  /\ req'[s].op = req[s].op /\ req'[s].org = req[s].org /\ req'[s].alone = req[s].alone
             /\ req'[s].rec = req[s].rec /\ req'[s].table = req[s].table
             /\ req'[s].pc \in {req[s].pc, "done"}
  <2>1. req[s] \in Request
    BY <1>1
  <2>2. req'[s] = req[s] \/ req'[s] = [req[s] EXCEPT !.pc = "done"]
    BY DEF Crash
  <2>3. QED
    BY <2>1, <2>2 DEF Request
<1>3. ASSUME NEW s \in Requests, req'[s].alone
      PROVE  OthersSettled(s)' /\ CarriesRow(s)'
  <2>1. OthersSettled(s) /\ CarriesRow(s)
    BY <1>2, <1>3 DEF AloneInv
  <2>2. OthersSettled(s)'
    BY <1>1, <1>2, <2>1 DEF OthersSettled, Active
  <2>3. CarriesRow(s)'
    BY <1>1, <1>2, <2>1 DEF CarriesRow, Present, Published
  <2>4. QED
    BY <2>2, <2>3
<1>4. QED
  BY <1>3 DEF AloneInv

LEMMA NextKeepsAlone ==
  ASSUME TypeInv, AloneInv, [Next]_vars
  PROVE  AloneInv'
<1>1. CASE UNCHANGED vars
  BY <1>1 DEF vars, AloneInv, OthersSettled, CarriesRow, Active, Present, Published
<1>2. CASE \E o \in Orgs : Crash(o)
  BY <1>2, CrashKeepsAlone
<1>3. ASSUME NEW r \in Requests, Continue(r) \/ LedgerStep(r)
      PROVE  AloneInv'
  <2>1. ASSUME NEW s \in Requests, req'[s].alone
        PROVE  OthersSettled(s)' /\ CarriesRow(s)'
    <3>1. req[s].alone /\ OthersSettled(s)' /\ (s # r => CarriesRow(s)')
      BY <1>3, <2>1, SettledStays
    <3>2. CASE s = r
      <4>1. CarriesRow(r) /\ req[r].op = "init"
        BY <3>1, <3>2, AloneIsInit DEF AloneInv
      <4>2. CarriesRow(r)'
        BY <1>3, <2>1, <3>2, <4>1, MoveCarriesRow, PublishCarriesRow DEF Continue
      <4>3. QED
        BY <3>1, <3>2, <4>2
    <3>3. QED
      BY <3>1, <3>2
  <2>2. QED
    BY <2>1 DEF AloneInv
<1>4. CASE \E r \in Requests, o \in Orgs : Start(r, o)
  BY <1>4, StartKeepsAlone
<1>5. QED
  BY <1>1, <1>2, <1>3, <1>4 DEF Next

\* auth_admin/main.go:212-298: what a call of initOrg holds, sends and publishes
\* while no other interferes is the key of the row, whatever went wrong before.
THEOREM AloneInvariant == Spec => []AloneInv
<1>1. Init => AloneInv
  BY RecordsTyped DEF Init, AloneInv
<1>2. TypeInv /\ AloneInv /\ [Next]_vars => AloneInv'
  BY NextKeepsAlone
<1>3. QED
  BY <1>1, <1>2, TypeInvariant, PTL DEF Spec

\* auth_admin/main.go:212-298: a call of initOrg that no other has met, whose
\* database calls worked and whose write is confirmed, leaves the recorded key
\* published, also where overlapping calls and passed-over errors had set the
\* two apart.
THEOREM QuietInitsRepair == Spec => []QuietInitRepairs
<1>1. ASSUME TypeInv, AloneInv, NEW r \in Requests,
             req[r].alone, req[r].pc = "done", tx[r].answer = "ok"
      PROVE  Published(req[r].org) = row[req[r].org].pub
  <2>1. CarriesRow(r) /\ tx[r].stage = "committed"
    BY <1>1 DEF AloneInv, TypeInv, CallInv
  <2>2. QED
    BY <2>1 DEF CarriesRow
<1>2. TypeInv /\ AloneInv => QuietInitRepairs
  BY <1>1 DEF QuietInitRepairs
<1>3. QED
  BY <1>2, TypeInvariant, AloneInvariant, PTL
=============================================================================
