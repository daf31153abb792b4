---------------------------- MODULE Orchestrator -----------------------------
(***************************************************************************)
(* main.go and utils/fabricdocker: the console that cleans, deploys,       *)
(* pauses and resumes the blockchain network.  A command is a fixed        *)
(* sequence of calls of docker, of network.sh, of the file system and of   *)
(* MySQL; some errors are returned, the others only logged.  What the      *)
(* calls change outlives the console, which may be stopped between any two *)
(* of them, and so may Docker itself.                                      *)
(*                                                                         *)
(* Certificates are named by the generation of the certificate authority   *)
(* that signed them, chaincode packages by the order in which they were    *)
(* made (the archive holds time stamps, so each build has an id of its     *)
(* own).  0 stands for none.                                               *)
(***************************************************************************)
EXTENDS Naturals, SequencesExt

CONSTANTS
  Menu,         \* the commands the operator chooses from
  Kinds,        \* the kinds of faults that happen
  MaxFaults,    \* bound on them
  MaxCerts,     \* bound on generations of certificates
  MaxPackages,  \* bound on chaincode packages
  Retries       \* ccaasReadyRetries

ASSUME OrchestratorAssumption ==
  /\ Menu \subseteq {"clean", "deploy", "pause", "resume", "deployCC"}
  /\ Kinds \subseteq {"kill", "error", "warn", "query", "docker", "call", "stop"}
  /\ MaxFaults \in Nat /\ MaxCerts \in Nat /\ MaxPackages \in Nat
  /\ Retries \in Nat \ {0}

VARIABLES
  world,    \* what is on disk, in Docker and in MySQL
  cmd,      \* the command being executed
  last,     \* history: the last command and how it ended, and whether the last
            \* cleaning was broken off or passed over an error
  faults    \* how many faults have happened

vars == <<world, cmd, last, faults>>

Peers == 1 .. 2

-----------------------------------------------------------------------------
\* A chaincode container: the package it serves, and whether Docker removes
\* it when it stops.
Container == [id : 0 .. MaxPackages, up : BOOLEAN, rm : BOOLEAN]
NoContainer == [id |-> 0, up |-> FALSE, rm |-> FALSE]

\* The volumes of the peers and of the orderer: the authority of the channel's
\* genesis block, the packages in the order queryinstalled lists them, the
\* package of the committed definition, and who approved the next one.
Volumes == [channel : 0 .. MaxCerts, installed : BoundedSeq(1 .. MaxPackages, MaxPackages),
            committed : 0 .. MaxPackages, approved : SUBSET Peers]
NoVolumes == [channel |-> 0, installed |-> << >>, committed |-> 0, approved |-> {}]

Containers == {"absent", "stopped", "running"}

World ==
  [certs     : {"none", "partial", "passing", "complete"},  \* peerOrganizations, ordererOrganizations
   authority : 0 .. MaxCerts,                    \* organizations/fabric-ca
   core      : Containers,                       \* orderer and peers
   cas       : Containers,                       \* the three authorities
   ccaas     : [Peers -> Container],
   image     : BOOLEAN,                          \* the chaincode's docker image
   volumes   : Volumes,
   cached    : 0 .. MaxPackages,                 \* data/fabric/ccaas_package_id.txt
   registrar : 0 .. MaxCerts,                    \* data/fabric-ca-registrar
   tables    : BOOLEAN,                          \* the database has its tables
   seeded    : 0 .. MaxCerts,                    \* the certificates of the seeded users
   handle    : BOOLEAN,                          \* the console's db.instance is set
   nCerts    : 0 .. MaxCerts,                    \* generations made so far
   nPackages : 0 .. MaxPackages]                 \* packages made so far

ZeroWorld ==
  [certs |-> "none", authority |-> 0, core |-> "absent", cas |-> "absent",
   ccaas |-> [o \in Peers |-> NoContainer], image |-> FALSE, volumes |-> NoVolumes,
   cached |-> 0, registrar |-> 0, tables |-> FALSE, seeded |-> 0, handle |-> FALSE,
   nCerts |-> 0, nPackages |-> 0]

Command == [name : Menu \cup {"none"}, tries : 0 .. Retries, package : 0 .. MaxPackages,
            fallback : BOOLEAN,  \* a failure of EnsureCCAASContainers leads to a deployment
            quiet : BOOLEAN,     \* history: no fault so far
            repairable : BOOLEAN]  \* history: what it began with, see Repairable
Idle == [name |-> "none", todo |-> << >>, tries |-> 0, package |-> 0,
         fallback |-> FALSE, quiet |-> TRUE, repairable |-> FALSE]

Nothing ==
  [name |-> "none", ok |-> FALSE, quiet |-> FALSE, repairable |-> FALSE, halfClean |-> FALSE]

TypeOK ==
  /\ world \in World
  /\ [f \in DOMAIN cmd \ {"todo"} |-> cmd[f]] \in Command
  /\ cmd.todo # << >> <=> cmd.name # "none"
  /\ last.name \in Menu \cup {"none"}
  /\ faults \in 0 .. MaxFaults

Init == world = ZeroWorld /\ cmd = Idle /\ last = Nothing /\ faults = 0

-----------------------------------------------------------------------------
(***************************************************************************)
(* The commands.                                                           *)
(***************************************************************************)

EnsureCCAAS == <<"image", "resolve", "startCCAAS">>

DeployChaincode == <<"build", "install", "approve1", "approve2", "commit", "runCCAAS">> \o EnsureCCAAS

Network == <<"ensureCrypto", "sync", "startCAs", "enroll", "enrollRest", "startCore", "join", "seed">>

StopNetwork == <<"cleanup", "downVolumes", "downCerts", "cleanup", "wipeOrgs", "wipeCAs">>

CleanLocalData == <<"removeRegistrar", "removeCache">>

Reset == <<"drop", "create">>

\* Faulty variants: the file with the package id survives, or the registrar's
\* certificate does.
FullCleanKeepingCache ==
  <<"stopCCAAS">> \o StopNetwork \o <<"cleanup", "removeVolumes", "removeRegistrar">> \o Reset
FullCleanKeepingRegistrar ==
  <<"stopCCAAS">> \o StopNetwork \o <<"cleanup", "removeVolumes", "removeCache">> \o Reset

FullClean ==
  <<"stopCCAAS">> \o StopNetwork \o <<"cleanup", "removeVolumes">> \o CleanLocalData \o Reset

Steps(name) ==
  CASE name = "clean"    -> FullClean
    [] name = "deploy"   -> <<"cleanup">> \o Network \o DeployChaincode
    [] name = "pause"    -> <<"stopCCAAS", "stopContainers">>
    [] name = "resume"   -> <<"startContainers", "verify">> \o EnsureCCAAS
    [] name = "deployCC" -> DeployChaincode

\* There is no channel, and no certificates that CryptoMaterialReady takes for
\* complete although they are not.
Repairable == world.volumes.channel = 0 /\ world.certs # "passing"

\* The operator chooses from the menu; the bounds on certificates and
\* packages are kept here.
Choose(name) ==
  /\ cmd = Idle
  /\ name \in {"deploy", "deployCC"} => world.nPackages < MaxPackages
  /\ name = "deploy" => world.nCerts < MaxCerts
  /\ cmd' = [Idle EXCEPT !.name = name, !.todo = Steps(name), !.fallback = name = "resume",
                         !.repairable = Repairable]
  /\ UNCHANGED <<world, last, faults>>

At(step) == cmd.todo # << >> /\ Head(cmd.todo) = step

\* Faulty variant: the command's end is not noticed.
ProceedWithoutEnd == cmd' = [cmd EXCEPT !.todo = Tail(@)] /\ UNCHANGED last

\* The command goes on, or returns nil after its last step.
Proceed ==
  IF Len(cmd.todo) > 1
  THEN /\ cmd' = [cmd EXCEPT !.todo = Tail(@)]
       /\ UNCHANGED last
  ELSE /\ cmd' = Idle
       /\ last' = [name |-> cmd.name, ok |-> TRUE, quiet |-> cmd.quiet,
                   repairable |-> cmd.repairable,
                   halfClean |-> IF cmd.name = "clean" THEN ~cmd.quiet ELSE last.halfClean]

Then(w) == world' = w /\ Proceed /\ UNCHANGED faults

End(quiet) ==
  /\ cmd' = Idle
  /\ last' = [name |-> cmd.name, ok |-> FALSE, quiet |-> quiet,
              repairable |-> cmd.repairable,
              halfClean |-> last.halfClean \/ cmd.name = "clean"]

\* A step returns an error.  ensureChaincodeReady answers one of
\* EnsureCCAASContainers with a deployment of the chaincode.
Error(quiet) ==
  IF cmd.fallback /\ Head(cmd.todo) \in {"image", "resolve", "startCCAAS"}
  THEN /\ cmd' = [cmd EXCEPT !.todo = DeployChaincode, !.tries = 0, !.fallback = FALSE,
                             !.quiet = quiet]
       /\ UNCHANGED last
  ELSE End(quiet)

Fails == UNCHANGED world /\ Error(cmd.quiet) /\ UNCHANGED faults

-----------------------------------------------------------------------------
(***************************************************************************)
(* docker and the files.                                                   *)
(***************************************************************************)
Stopped(c) == IF c.rm THEN NoContainer ELSE [c EXCEPT !.up = FALSE]
Halt(c) == IF c = "running" THEN "stopped" ELSE c

StopCCAASContainers ==
  /\ At("stopCCAAS")
  /\ Then([world EXCEPT !.ccaas = [o \in Peers |-> Stopped(@[o])]])

StopContainers ==
  /\ At("stopContainers")
  /\ Then([world EXCEPT !.core = Halt(@), !.cas = Halt(@)])

StartContainers ==
  LET start(c) == IF c = "stopped" THEN "running" ELSE c IN
  /\ At("startContainers")
  /\ Then([world EXCEPT !.core = IF world.certs = "complete" THEN start(@) ELSE @,
                        !.cas = start(@)])

VerifyCoreContainersRunning ==
  /\ At("verify")
  /\ IF world.core = "running" THEN Then(world) ELSE Fails

\* Cleanup removes every container and the chaincode's image, and no volume.
Cleanup ==
  /\ At("cleanup")
  /\ Then([world EXCEPT !.core = "absent", !.cas = "absent", !.image = FALSE,
                        !.ccaas = [o \in Peers |-> NoContainer]])

NoCerts(w) == [w EXCEPT !.certs = "none", !.authority = 0]

\* Eight paths are looked at.  Of the certificates that the containers need it
\* may be those made last, the orderer's for TLS among them, that are missing.
CryptoMaterialReady == world.certs \in {"passing", "complete"} /\ world.authority # 0

\* Faulty variant: what is left of the certificates is kept.
EnsureCryptoMaterialKept == At("ensureCrypto") /\ Then(world)

EnsureCryptoMaterial ==
  /\ At("ensureCrypto")
  /\ Then(IF CryptoMaterialReady THEN world ELSE NoCerts(world))

WipeNetworkArtifacts ==
  \/ At("wipeOrgs") /\ Then([world EXCEPT !.certs = "none"])
  \/ At("wipeCAs") /\ Then(NoCerts(world))

\* Docker keeps a volume that a container uses, running or not.
CleanupVolumes ==
  /\ At("removeVolumes")
  /\ Then(IF world.core = "absent" THEN [world EXCEPT !.volumes = NoVolumes] ELSE world)

RemoveLocalData ==
  \/ At("removeRegistrar") /\ Then([world EXCEPT !.registrar = 0])
  \/ At("removeCache") /\ Then([world EXCEPT !.cached = 0])

\* db.Reset.
ResetDatabase ==
  \/ At("drop") /\ Then([world EXCEPT !.tables = FALSE, !.seeded = 0])
  \/ At("create") /\ Then([world EXCEPT !.handle = FALSE])

-----------------------------------------------------------------------------
(***************************************************************************)
(* network.sh down, and up createChannel -ca.  createOrgs is skipped where *)
(* the directory of the peers' certificates exists; the authorities are    *)
(* started by createOrgs alone, and their certificate is waited for        *)
(* without a limit.                                                        *)
(***************************************************************************)
NetworkDown ==
  \/ At("downVolumes") /\ Then([world EXCEPT !.volumes = NoVolumes, !.core = "absent", !.cas = "absent"])
  \/ At("downCerts") /\ Then(NoCerts(world))

\* createChannel: containers of four images or more run where there are no
\* certificates, that is, those of the network and of its authorities.
SyncCerts ==
  /\ At("sync")
  /\ Then(IF world.certs = "none" /\ world.core = "running" /\ world.cas = "running"
          THEN NoCerts([world EXCEPT !.volumes = NoVolumes, !.core = "absent", !.cas = "absent"])
          ELSE world)

CreateOrgs ==
  \/ /\ At("startCAs")
     /\ Then(IF world.certs # "none" THEN world
             ELSE [world EXCEPT !.cas = "running",
                                !.authority = IF @ = 0 THEN world.nCerts + 1 ELSE @,
                                !.nCerts = IF world.authority = 0 THEN @ + 1 ELSE @])
  \/ /\ At("enroll")
     /\ world.certs = "none" => world.authority # 0
     /\ Then([world EXCEPT !.certs = IF @ = "none" THEN "partial" ELSE @])
  \/ /\ At("enrollRest")
     /\ Then([world EXCEPT !.certs = IF @ = "partial" /\ world.cas = "running" THEN "complete" ELSE @])

\* Without its certificates a container exits at once.
StartCore ==
  /\ At("startCore")
  /\ Then([world EXCEPT !.core = IF world.certs = "complete" THEN "running" ELSE "stopped"])

\* A peer that has the channel's ledger refuses to join.
CreateChannel ==
  /\ At("join")
  /\ IF world.core = "running" /\ world.volumes.channel = 0
     THEN Then([world EXCEPT !.volumes.channel = world.authority])
     ELSE Fails

\* db.Init makes the tables when it makes the handle.
Tables == world.tables \/ ~world.handle

\* Faulty variant: a row that exists is left alone.
SeedOnce ==
  /\ At("seed")
  /\ Then([world EXCEPT !.tables = Tables, !.handle = TRUE,
                        !.seeded = IF Tables /\ @ = 0 THEN world.authority ELSE @])

\* db.Init and SeedFabricUsers.
Seed ==
  /\ At("seed")
  /\ Then([world EXCEPT !.tables = Tables, !.handle = TRUE,
                        !.seeded = IF Tables THEN world.authority ELSE @])

-----------------------------------------------------------------------------
(***************************************************************************)
(* network.sh deployCCAAS.                                                 *)
(***************************************************************************)
Build == At("build") /\ Then([world EXCEPT !.image = TRUE])

\* The peers list packages by file name, which ends in a hash.
Install ==
  /\ At("install")
  /\ IF world.core # "running" THEN Fails
     ELSE LET p == world.nPackages + 1 IN
          /\ p <= MaxPackages
          /\ \E i \in 1 .. Len(world.volumes.installed) + 1 :
               world' = [world EXCEPT !.nPackages = p, !.volumes.installed = InsertAt(@, i, p)]
          /\ cmd' = [cmd EXCEPT !.todo = Tail(@), !.package = p]
          /\ UNCHANGED <<last, faults>>

\* A peer answers for a channel that it has joined.
ChannelAnswers ==
  /\ world.core = "running"
  /\ world.volumes.channel # 0 /\ world.volumes.channel = world.authority

\* After the first approval, checkCommitReadiness insists that the second
\* organization has not approved.
Approve ==
  \/ /\ At("approve1")
     /\ IF ChannelAnswers /\ 2 \notin world.volumes.approved
        THEN Then([world EXCEPT !.volumes.approved = @ \cup {1}])
        ELSE Fails
  \/ /\ At("approve2")
     /\ IF ChannelAnswers
        THEN Then([world EXCEPT !.volumes.approved = @ \cup {2}])
        ELSE Fails

Commit ==
  /\ At("commit")
  /\ IF ChannelAnswers
     THEN Then([world EXCEPT !.volumes.committed = cmd.package, !.volumes.approved = {}])
     ELSE Fails

\* docker run fails where the name is taken; only the second result counts.
StartDockerContainer ==
  /\ At("runCCAAS")
  /\ world' = [world EXCEPT !.ccaas =
       [o \in Peers |-> IF @[o] = NoContainer
                        THEN [id |-> cmd.package, up |-> TRUE, rm |-> TRUE] ELSE @[o]]]
  /\ IF world.ccaas[2] = NoContainer THEN Proceed ELSE Error(cmd.quiet)
  /\ UNCHANGED faults

-----------------------------------------------------------------------------
(***************************************************************************)
(* EnsureCCAASContainers.                                                  *)
(***************************************************************************)
DockerImageExists == At("image") /\ IF world.image THEN Then(world) ELSE Fails

CanAnswer ==
  world.core = "running" /\ world.certs = "complete" /\ world.volumes.installed # << >>

\* No answer, as from a peer that has just been started.
NoAnswer == "query" \in Kinds \/ ~CanAnswer

StillQuiet == cmd.quiet /\ ~CanAnswer

Resolved(p, quiet) ==
  /\ world' = [world EXCEPT !.cached = p]
  /\ cmd' = [cmd EXCEPT !.todo = Tail(@), !.package = p, !.tries = 0, !.quiet = quiet]
  /\ UNCHANGED <<last, faults>>

\* The answer of the peer, the first package of the chaincode's name.
QueryInstalled ==
  At("resolve") /\ CanAnswer /\ Resolved(Head(world.volumes.installed), cmd.quiet)

\* Faulty variant: the peer is asked until it answers.
QueryAgainForever ==
  /\ At("resolve") /\ NoAnswer
  /\ UNCHANGED vars

QueryAgain ==
  /\ At("resolve") /\ NoAnswer
  /\ cmd.tries + 1 < Retries
  /\ cmd' = [cmd EXCEPT !.tries = @ + 1, !.quiet = StillQuiet]
  /\ UNCHANGED <<world, last, faults>>

\* After the last attempt, the id kept in the file.
UseCache ==
  /\ At("resolve") /\ NoAnswer
  /\ cmd.tries + 1 = Retries
  /\ IF world.cached # 0 THEN Resolved(world.cached, StillQuiet)
     ELSE UNCHANGED <<world, faults>> /\ Error(StillQuiet)

\* Faulty variant: a container that exists is taken to be running.
StartCCAASAbsent ==
  /\ At("startCCAAS")
  /\ Then([world EXCEPT !.ccaas =
       [o \in Peers |-> IF @[o] # NoContainer THEN @[o]
                        ELSE [id |-> cmd.package, up |-> TRUE, rm |-> FALSE]]])

\* docker rm -f and docker run for each container that is not running.
StartCCAAS ==
  /\ At("startCCAAS")
  /\ Then([world EXCEPT !.ccaas =
       [o \in Peers |-> IF @[o].up THEN @[o]
                        ELSE [id |-> cmd.package, up |-> TRUE, rm |-> FALSE]]])

-----------------------------------------------------------------------------
(***************************************************************************)
(* Faults.                                                                 *)
(***************************************************************************)
Fault(kind) == kind \in Kinds /\ faults < MaxFaults /\ faults' = faults + 1

\* The certificates there may be when createOrgs breaks off in its last step:
\* those that CryptoMaterialReady looks at may all have been made.
BrokenOff ==
  IF At("enrollRest") /\ world.certs = "partial" /\ world.cas = "running"
  THEN {"partial", "passing"} ELSE {world.certs}

\* Steps whose errors are logged and passed over.
Warned == {"stopCCAAS", "cleanup", "downVolumes", "downCerts", "removeVolumes", "startCAs",
           "enrollRest", "startCore", "seed", "stopContainers", "startContainers"}

StepIgnored ==
  /\ Fault("warn")
  /\ cmd.todo # << >> /\ Head(cmd.todo) \in Warned
  /\ cmd' = [cmd EXCEPT !.todo = Tail(@), !.quiet = FALSE]
  /\ Len(cmd.todo) > 1
  /\ \E certs \in BrokenOff : world' = [world EXCEPT !.certs = certs]
  /\ UNCHANGED last

StepFails ==
  /\ Fault("error")
  /\ cmd.todo # << >> /\ Head(cmd.todo) \notin Warned \cup {"resolve"}
  /\ Error(FALSE)
  /\ UNCHANGED world

\* handleSignals, or a crash: the console is started again.
Killed ==
  /\ Fault("kill")
  /\ cmd # Idle
  /\ End(FALSE)
  /\ \E certs \in BrokenOff : world' = [world EXCEPT !.handle = FALSE, !.certs = certs]

\* Docker or WSL is restarted: every container stops.
DockerRestarts ==
  /\ Fault("docker")
  /\ world.core = "running" \/ world.cas = "running"
  /\ \E certs \in BrokenOff :
       world' = [world EXCEPT !.certs = certs, !.core = Halt(@), !.cas = Halt(@),
                              !.ccaas = [o \in Peers |-> Stopped(@[o])]]
  /\ cmd' = IF cmd = Idle THEN Idle ELSE [cmd EXCEPT !.quiet = FALSE]
  /\ last' = [Nothing EXCEPT !.halfClean = last.halfClean]

-----------------------------------------------------------------------------
CleanStep == WipeNetworkArtifacts \/ Cleanup \/ CleanupVolumes \/ RemoveLocalData \/ NetworkDown
NetworkStep == EnsureCryptoMaterial \/ SyncCerts \/ CreateOrgs \/ StartCore \/ CreateChannel
ContainerStep == StopCCAASContainers \/ StopContainers \/ StartContainers \/ VerifyCoreContainersRunning
ChaincodeStep == Build \/ Install \/ Approve \/ Commit \/ StartDockerContainer
DatabaseStep == ResetDatabase \/ Seed
EnsureStep == DockerImageExists \/ QueryInstalled \/ QueryAgain \/ UseCache \/ StartCCAAS

\* The console's own steps.
Step == CleanStep \/ DatabaseStep \/ NetworkStep \/ ContainerStep \/ ChaincodeStep \/ EnsureStep

Next ==
  \/ \E name \in Menu : Choose(name)
  \/ Step
  \/ StepIgnored \/ StepFails \/ Killed \/ DockerRestarts

Spec == Init /\ [][Next]_vars

\* The console runs its command on; an operator who finds the network down
\* and the console free tries to resume it, as the console's messages advise.
Serving ==
  /\ world.core = "running"
  /\ world.volumes.channel = world.authority /\ world.volumes.channel # 0
  /\ world.volumes.committed # 0
  /\ \A o \in Peers : world.ccaas[o].up /\ world.ccaas[o].id = world.volumes.committed

FairSpec == Spec /\ WF_vars(Step) /\ SF_vars(~Serving /\ Choose("resume"))

-----------------------------------------------------------------------------
(***************************************************************************)
(* Properties.                                                             *)
(***************************************************************************)
Ended(name) == last.name = name /\ last.ok /\ cmd = Idle

\* main.go:129-141: once ResumeNetwork has returned nil, the chaincode
\* containers serve the committed package, so the chain can be used.
ReadyMeansServing == Ended("resume") => Serving

\* ccaas.go:20-59, 102-122: while the volumes hold one package, every
\* chaincode container runs it, whatever id the file holds, whether or not the
\* peer answers and whatever failed or was broken off before, other than in the
\* last cleaning, which may leave the file or a container to the next deployment.
OnePackageServed ==
  ~last.halfClean /\ world.volumes.committed # 0 /\ Len(world.volumes.installed) = 1 =>
    \A o \in Peers : world.ccaas[o].up => world.ccaas[o].id = world.volumes.committed

\* main.go:154-176: a cleaning in which no call fails leaves nothing, whatever
\* interrupted commands and failed calls came before it.
CleanReachesZero ==
  Ended("clean") /\ last.quiet =>
    [world EXCEPT !.nCerts = 0, !.nPackages = 0] = ZeroWorld

\* main.go:154-176: when FullClean returns nil, nothing of the network, of its
\* ledger or of the database is left.
CleanMeansZero ==
  Ended("clean") => [world EXCEPT !.nCerts = 0, !.nPackages = 0] = ZeroWorld

\* main.go:250-310: a deployment in which no call fails, begun where there is no
\* channel yet and no incomplete set of certificates that passes for complete,
\* ends well with the chaincode served, whatever an earlier interrupted one has
\* left.
DeployRepairs ==
  last.name = "deploy" /\ last.quiet /\ last.repairable /\ cmd = Idle => last.ok /\ Serving

\* artifacts.go:81: certificates that are not complete are removed before the
\* network is brought up, so that it is never started with a part of them:
\* "若证书不完整则清理残留目录，迫使 network.sh 重新 createOrgs".
IncompleteIsRegenerated ==
  cmd.name = "deploy" /\ cmd.quiet /\ At("startCore") => world.certs = "complete"

\* main.go:117-127: once ResumeNetwork has returned nil, the containers of the
\* network run again, the authorities among them.
ResumeRestoresCAs == Ended("resume") => world.cas = "running"

\* db.go:26-62, main.go:262: when a deployment in which no call fails has ended
\* well, the database has its tables: db.Init has made them.
DeployedHasTables == Ended("deploy") /\ last.quiet => world.tables

\* seed.go:28-130: after a deployment in which no call fails the rows of the
\* network's own users hold certificates of the present authority, also when
\* the certificates were made anew under the rows of an earlier deployment.
SeededUsersCurrent ==
  Ended("deploy") /\ last.quiet /\ world.tables => world.seeded = world.authority

\* Every command comes back to the menu, or waits for an authority that did
\* not start (network.sh:230-237).
CommandReturns == cmd # Idle ~> (cmd = Idle \/ At("enroll"))

\* preflight.go:41-42: a network whose containers stopped serves again when
\* resuming is tried again and again.
ServiceReturns == world.volumes.committed # 0 ~> Serving
=============================================================================
