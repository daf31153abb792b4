----------------------------- MODULE UserClient ------------------------------
(***************************************************************************)
(* The process user_client beside the console of Orchestrator: its         *)
(* connection to the chain (user_client/main.go, utils/gateway), opened    *)
(* once, and the registration of users (service/auth_service.go), which    *)
(* registers and enrolls a name at the certificate authority with          *)
(* fabric-ca-client (utils/fabricca/client.go) and then stores the account *)
(* in MySQL.  Nothing locks out the console meanwhile: the authority and   *)
(* the database may be wiped between two steps of a registration.          *)
(***************************************************************************)
EXTENDS Orchestrator

CONSTANTS
  Users,      \* the names of users
  Requests,   \* calls of Register
  Nil

ASSUME ClientAssumption == Nil \notin Requests

VARIABLES
  process,    \* "down" or "up"
  instance,   \* gateway.instance: the generation of its certificates, 0 for nil
  req,        \* the requests
  names,      \* the authority's users: who registered a name, with its secret
  rows        \* the accounts: who stored one, and its certificate

clientVars == <<process, instance, req, names, rows>>
allVars == <<vars, clientVars>>

Row == [owner : Requests \cup {Nil}, cert : 0 .. MaxCerts]
NoRow == [owner |-> Nil, cert |-> 0]

Request == [pc : {"idle", "check", "registrar", "register", "enroll", "create", "done"},
            user : Users \cup {Nil}, cert : 0 .. MaxCerts]

ClientTypeOK ==
  /\ process \in {"down", "up"}
  /\ instance \in 0 .. MaxCerts
  /\ req \in [Requests -> Request]
  /\ names \in [Users -> Requests \cup {Nil}]
  /\ rows \in [Users -> Row]

ClientInit ==
  /\ Init
  /\ process = "down" /\ instance = 0
  /\ req = [r \in Requests |-> [pc |-> "idle", user |-> Nil, cert |-> 0]]
  /\ names = [u \in Users |-> Nil]
  /\ rows = [u \in Users |-> NoRow]

-----------------------------------------------------------------------------
\* A step of the console.  The authority forgets its users with its files, the
\* database its accounts with its tables.
Console ==
  /\ Next
  /\ names' = IF world'.authority = world.authority THEN names ELSE [u \in Users |-> Nil]
  /\ rows' = IF world'.tables THEN rows ELSE [u \in Users |-> NoRow]
  /\ UNCHANGED <<process, instance, req>>

(***************************************************************************)
(* The process.  db.Init makes the tables; gateway.Init is called once and *)
(* only where the files of org1's administrator are found, which are among *)
(* the first certificates that are made.                                   *)
(***************************************************************************)
StartClient ==
  /\ process = "down"
  /\ process' = "up"
  /\ world' = [world EXCEPT !.tables = TRUE]
  /\ instance' \in CASE world.certs = "none"    -> {0}
                    [] world.certs = "partial" -> {0, world.authority}
                    [] OTHER                   -> {world.authority}
  /\ UNCHANGED <<cmd, last, faults, req, names, rows>>

\* The process ends, and its requests with it.
StopClient ==
  /\ process = "up"
  /\ Fault("stop")
  /\ process' = "down" /\ instance' = 0
  /\ req' = [r \in Requests |-> IF req[r].pc = "idle" THEN req[r] ELSE [req[r] EXCEPT !.pc = "done"]]
  /\ UNCHANGED <<world, cmd, last, names, rows>>

-----------------------------------------------------------------------------
(***************************************************************************)
(* Register.                                                               *)
(***************************************************************************)
Goto(r, pc) == req' = [req EXCEPT ![r].pc = pc]

\* An authority whose files were removed under it refuses everything.
AuthorityAnswers == world.cas = "running" /\ world.authority # 0

Begin(r, u) ==
  /\ process = "up" /\ req[r].pc = "idle"
  /\ req' = [req EXCEPT ![r].pc = "check", ![r].user = u]
  /\ UNCHANGED <<vars, process, instance, names, rows>>

\* Any error of the query counts as "no such user".
Check(r) ==
  /\ req[r].pc = "check"
  /\ Goto(r, IF rows[req[r].user] # NoRow THEN "done" ELSE "registrar")
  /\ UNCHANGED <<vars, process, instance, names, rows>>

\* ensureRegistrarHome: the certificate found there is used without a look at
\* who issued it.
EnsureRegistrarHome(r) ==
  /\ req[r].pc = "registrar"
  /\ IF world.registrar # 0 \/ AuthorityAnswers
     THEN /\ world' = [world EXCEPT !.registrar = IF @ # 0 THEN @ ELSE world.authority]
          /\ Goto(r, "register")
     ELSE Goto(r, "done") /\ UNCHANGED world
  /\ UNCHANGED <<cmd, last, faults, process, instance, names, rows>>

\* fabric-ca register: a name the authority knows is refused, and so is a
\* registrar whose certificate is another authority's.
RegisterName(r) ==
  LET u == req[r].user IN
  /\ req[r].pc = "register"
  /\ IF AuthorityAnswers /\ world.registrar = world.authority /\ names[u] = Nil
     THEN names' = [names EXCEPT ![u] = r] /\ Goto(r, "enroll")
     ELSE UNCHANGED names /\ Goto(r, "done")
  /\ UNCHANGED <<vars, process, instance, rows>>

\* Faulty variant: the account is left to a later request.
EnrollOnly(r) ==
  /\ req[r].pc = "enroll"
  /\ req' = [req EXCEPT ![r].pc = "done"]
  /\ UNCHANGED <<vars, process, instance, names, rows>>

\* Faulty variant: a failed enrollment goes unnoticed.
EnrollUnchecked(r) ==
  /\ req[r].pc = "enroll"
  /\ req' = [req EXCEPT ![r].pc = "create",
                        ![r].cert = IF AuthorityAnswers THEN world.authority ELSE 0]
  /\ UNCHANGED <<vars, process, instance, names, rows>>

\* fabric-ca enroll with the request's own secret.
Enroll(r) ==
  /\ req[r].pc = "enroll"
  /\ req' = IF AuthorityAnswers /\ names[req[r].user] = r
            THEN [req EXCEPT ![r].pc = "create", ![r].cert = world.authority]
            ELSE [req EXCEPT ![r].pc = "done"]
  /\ UNCHANGED <<vars, process, instance, names, rows>>

\* The unique index refuses a second account of one name.
Create(r) ==
  LET u == req[r].user IN
  /\ req[r].pc = "create"
  /\ rows' = IF world.tables /\ rows[u] = NoRow
             THEN [rows EXCEPT ![u] = [owner |-> r, cert |-> req[r].cert]] ELSE rows
  /\ Goto(r, "done")
  /\ UNCHANGED <<vars, process, instance, names>>

\* The call of the authority, or the database's insert, fails.
CallFails(r) ==
  /\ Fault("call")
  /\ req[r].pc \in {"registrar", "register", "enroll", "create"}
  /\ Goto(r, "done")
  /\ UNCHANGED <<world, cmd, last, process, instance, names, rows>>

RequestStep(r) ==
  \/ Check(r) \/ EnsureRegistrarHome(r) \/ RegisterName(r) \/ Enroll(r) \/ Create(r)

ClientNext ==
  \/ Console
  \/ StartClient \/ StopClient
  \/ \E r \in Requests : RequestStep(r) \/ CallFails(r) \/ \E u \in Users : Begin(r, u)

ClientSpec == ClientInit /\ [][ClientNext]_allVars

\* The console and the requests run on, the process is started, and the
\* operator resumes a network that does not serve.
ClientFairSpec ==
  /\ ClientSpec
  /\ WF_allVars(Console /\ Step)
  /\ SF_allVars(Console /\ ~Serving /\ Choose("resume"))
  /\ WF_allVars(StartClient)
  /\ \A r \in Requests : WF_allVars(RequestStep(r))

-----------------------------------------------------------------------------
(***************************************************************************)
(* Properties.                                                             *)
(***************************************************************************)

\* client.go:141-161, main.go:179: a registrar certificate kept on disk is one
\* of the authority that runs, so that registrations are not refused.
RegistrarFits ==
  world.cas = "running" /\ world.registrar # 0 => world.registrar = world.authority

\* auth_service.go:24-55: an account has a certificate, and one of the present
\* authority is that of the request that registered its name there, whatever
\* two registrations of one name and the console do meanwhile.
AccountsKnownToCA ==
  \A u \in Users : rows[u] # NoRow =>
    /\ rows[u].cert # 0
    /\ rows[u].cert = world.authority => names[u] = rows[u].owner

\* auth_service.go:35-54: a registration that the authority has accepted ends
\* with the account, unless the authority stops or is made anew meanwhile: the
\* name, which the authority will not register again, is not used up in vain.
NamesGetAccounts ==
  \A r \in Requests :
    req[r].pc = "enroll" ~>
      \/ \E u \in Users : rows[u].owner = r
      \/ world.cas # "running"
      \/ \A u \in Users : names[u] # r

\* main.go:129: when the network serves and goes on serving, the interfaces of
\* user_client that use the chain come to work.
ClientServes == <>[](Serving /\ process = "up") => <>[](instance = world.authority)
=============================================================================
