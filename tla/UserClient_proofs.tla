-------------------------- MODULE UserClient_proofs --------------------------
(***************************************************************************)
(* The console, for any menu, any faults and any bounds, and beside it the *)
(* registrations of users.                                                 *)
(*                                                                         *)
(* The command that the console runs is always a suffix of its program, so *)
(* the number of steps it has left tells where it is, and each invariant   *)
(* says what holds from which point of a command on.                       *)
(*                                                                         *)
(* Accounts belong to whoever the authority knows under their names, for   *)
(* any users and registrations.  Two facts carry that proof: an authority  *)
(* is never made twice under one number, so a certificate of an earlier    *)
(* one is never taken for one of the present, and an authority registers a *)
(* name once.                                                              *)
(***************************************************************************)
EXTENDS UserClient, SequenceTheorems, TLAPS

-----------------------------------------------------------------------------
(***************************************************************************)
(* The programs of the commands.                                           *)
(***************************************************************************)
CleanSteps ==
  {"stopCCAAS", "cleanup", "downVolumes", "downCerts", "wipeOrgs", "wipeCAs",
   "removeVolumes", "removeRegistrar", "removeCache", "drop", "create"}

ChaincodeSteps ==
  {"build", "install", "approve1", "approve2", "commit", "runCCAAS",
   "image", "resolve", "startCCAAS"}

DeploySteps ==
  {"cleanup", "ensureCrypto", "sync", "startCAs", "enroll", "enrollRest", "startCore", "join", "seed"}
  \cup ChaincodeSteps

PauseSteps == {"stopCCAAS", "stopContainers"}

ResumeSteps == {"startContainers", "verify", "image", "resolve", "startCCAAS"}

StepNames == CleanSteps \cup DeploySteps \cup PauseSteps \cup ResumeSteps

\* main.go:154-176, main.go:218-248: the thirteen steps of a cleaning.
LEMMA CleanProgram ==
  /\ FullClean \in Seq(CleanSteps) /\ Len(FullClean) = 13
  /\ FullClean[1] = "stopCCAAS" /\ FullClean[2] = "cleanup" /\ FullClean[3] = "downVolumes"
  /\ FullClean[4] = "downCerts" /\ FullClean[5] = "cleanup" /\ FullClean[6] = "wipeOrgs"
  /\ FullClean[7] = "wipeCAs" /\ FullClean[8] = "cleanup" /\ FullClean[9] = "removeVolumes"
  /\ FullClean[10] = "removeRegistrar" /\ FullClean[11] = "removeCache"
  /\ FullClean[12] = "drop" /\ FullClean[13] = "create"
  BY DEF FullClean, StopNetwork, CleanLocalData, Reset, CleanSteps

\* main.go:293-310: the nine steps of a deployment of the chaincode.
LEMMA ChaincodeProgram ==
  /\ DeployChaincode \in Seq(ChaincodeSteps) /\ Len(DeployChaincode) = 9
  /\ DeployChaincode[1] = "build" /\ DeployChaincode[2] = "install"
  /\ DeployChaincode[3] = "approve1" /\ DeployChaincode[4] = "approve2"
  /\ DeployChaincode[5] = "commit" /\ DeployChaincode[6] = "runCCAAS"
  /\ DeployChaincode[7] = "image" /\ DeployChaincode[8] = "resolve"
  /\ DeployChaincode[9] = "startCCAAS"
  BY DEF DeployChaincode, EnsureCCAAS, ChaincodeSteps

\* main.go:250-275: those of the network, and then those of the chaincode.
LEMMA DeployProgram ==
  LET D == Steps("deploy") IN
  /\ D \in Seq(DeploySteps) /\ Len(D) = 18
  /\ D[1] = "cleanup" /\ D[2] = "ensureCrypto" /\ D[3] = "sync" /\ D[4] = "startCAs"
  /\ D[5] = "enroll" /\ D[6] = "enrollRest" /\ D[7] = "startCore" /\ D[8] = "join"
  /\ D[9] = "seed"
  /\ D[10] = "build" /\ D[11] = "install" /\ D[12] = "approve1" /\ D[13] = "approve2"
  /\ D[14] = "commit" /\ D[15] = "runCCAAS" /\ D[16] = "image" /\ D[17] = "resolve"
  /\ D[18] = "startCCAAS"
<1> DEFINE N == <<"cleanup">> \o Network
<1>1. /\ N \in Seq(DeploySteps) /\ Len(N) = 9
      /\ N[1] = "cleanup" /\ N[2] = "ensureCrypto" /\ N[3] = "sync" /\ N[4] = "startCAs"
      /\ N[5] = "enroll" /\ N[6] = "enrollRest" /\ N[7] = "startCore" /\ N[8] = "join"
      /\ N[9] = "seed"
  BY DEF Network, DeploySteps
<1>2. DeployChaincode \in Seq(DeploySteps) /\ Len(DeployChaincode) = 9
  <2>1. ChaincodeSteps \subseteq DeploySteps
    BY DEF DeploySteps
  <2>2. QED
    BY <2>1, ChaincodeProgram
<1>3. Steps("deploy") = N \o DeployChaincode
  BY DEF Steps
<1> HIDE DEF N
<1>4. /\ Steps("deploy") \in Seq(DeploySteps) /\ Len(Steps("deploy")) = 18
      /\ \A i \in 1 .. 9 : Steps("deploy")[i] = N[i]
      /\ \A i \in 1 .. 9 : Steps("deploy")[9 + i] = DeployChaincode[i]
  <2>1. /\ N \o DeployChaincode \in Seq(DeploySteps)
        /\ Len(N \o DeployChaincode) = Len(N) + Len(DeployChaincode)
        /\ \A i \in 1 .. Len(N) : (N \o DeployChaincode)[i] = N[i]
        /\ \A i \in 1 .. Len(DeployChaincode) : (N \o DeployChaincode)[Len(N) + i] = DeployChaincode[i]
    <3>1. N \in Seq(DeploySteps) /\ DeployChaincode \in Seq(DeploySteps)
      BY <1>1, <1>2
    <3>2. QED
      BY <3>1
  <2>2. Len(N) = 9 /\ Len(DeployChaincode) = 9 /\ 9 + 9 = 18
    BY <1>1, <1>2
  <2>3. QED
    BY <1>3, <2>1, <2>2
<1>5. \A i \in 1 .. 9 : Steps("deploy")[i] = N[i]
  BY <1>4
<1>6. /\ Steps("deploy")[1] = N[1] /\ Steps("deploy")[2] = N[2] /\ Steps("deploy")[3] = N[3]
      /\ Steps("deploy")[4] = N[4] /\ Steps("deploy")[5] = N[5] /\ Steps("deploy")[6] = N[6]
      /\ Steps("deploy")[7] = N[7] /\ Steps("deploy")[8] = N[8] /\ Steps("deploy")[9] = N[9]
  BY <1>5
<1> DEFINE D == Steps("deploy")
<1>7. /\ D[10] = DeployChaincode[1] /\ D[11] = DeployChaincode[2] /\ D[12] = DeployChaincode[3]
      /\ D[13] = DeployChaincode[4] /\ D[14] = DeployChaincode[5] /\ D[15] = DeployChaincode[6]
      /\ D[16] = DeployChaincode[7] /\ D[17] = DeployChaincode[8] /\ D[18] = DeployChaincode[9]
  <2>1. \A i \in 1 .. 9 : D[9 + i] = DeployChaincode[i]
    BY <1>4
  <2>2. D[9 + 1] = DeployChaincode[1] /\ D[9 + 2] = DeployChaincode[2] /\ D[9 + 3] = DeployChaincode[3]
        /\ D[9 + 4] = DeployChaincode[4] /\ D[9 + 5] = DeployChaincode[5] /\ D[9 + 6] = DeployChaincode[6]
        /\ D[9 + 7] = DeployChaincode[7] /\ D[9 + 8] = DeployChaincode[8] /\ D[9 + 9] = DeployChaincode[9]
    BY <2>1
  <2>3. QED
    BY <2>2
<1> HIDE DEF D
<1>8. QED
  BY <1>1, <1>4, <1>6, <1>7, ChaincodeProgram DEF D

LEMMA PauseProgram ==
  LET P == Steps("pause") IN
  /\ P \in Seq(PauseSteps) /\ Len(P) = 2
  /\ P[1] = "stopCCAAS" /\ P[2] = "stopContainers"
  BY DEF Steps, PauseSteps

LEMMA ResumeProgram ==
  LET P == Steps("resume") IN
  /\ P \in Seq(ResumeSteps) /\ Len(P) = 5
  /\ P[1] = "startContainers" /\ P[2] = "verify" /\ P[3] = "image"
  /\ P[4] = "resolve" /\ P[5] = "startCCAAS"
  BY DEF Steps, EnsureCCAAS, ResumeSteps

LEMMA NamedPrograms ==
  Steps("clean") = FullClean /\ Steps("deployCC") = DeployChaincode
  BY DEF Steps

-----------------------------------------------------------------------------
(***************************************************************************)
(* The command that runs is on its course.                                 *)
(***************************************************************************)
Program == IF cmd.name = "resume" /\ ~cmd.fallback THEN DeployChaincode ELSE Steps(cmd.name)

\* How many steps are left.
Left == Len(cmd.todo)

CommandType ==
  [name : Menu \cup {"none"}, todo : Seq(StepNames), tries : 0 .. Retries,
   package : 0 .. MaxPackages, fallback : BOOLEAN, quiet : BOOLEAN, repairable : BOOLEAN]

CommandInv ==
  /\ cmd \in CommandType
  /\ cmd.name = "none" => cmd = Idle
  /\ cmd.fallback => cmd.name = "resume"
  /\ cmd.name # "none" =>
       /\ Left \in 1 .. Len(Program)
       /\ \A i \in 1 .. Left : cmd.todo[i] = Program[Len(Program) - Left + i]

LEMMA IdleTyped == Idle \in CommandType /\ Idle.name = "none" /\ ~Idle.fallback
  BY OrchestratorAssumption DEF Idle, CommandType, StepNames

LEMMA NoneIsNoCommand == "none" \notin Menu
  BY OrchestratorAssumption

LEMMA StepsTyped ==
  /\ DeployChaincode \in Seq(StepNames) /\ Len(DeployChaincode) \in Nat \ {0}
  /\ \A name \in Menu : Steps(name) \in Seq(StepNames) /\ Len(Steps(name)) \in Nat \ {0}
<1>1. /\ CleanSteps \subseteq StepNames /\ ChaincodeSteps \subseteq StepNames
      /\ DeploySteps \subseteq StepNames /\ PauseSteps \subseteq StepNames
      /\ ResumeSteps \subseteq StepNames
  BY DEF StepNames, DeploySteps
<1>2. Steps("clean") \in Seq(StepNames) /\ Len(Steps("clean")) \in Nat \ {0}
  <2>1. FullClean \in Seq(StepNames) /\ Len(FullClean) \in Nat \ {0}
    BY <1>1, CleanProgram
  <2>2. QED
    BY <2>1, NamedPrograms
<1>3. /\ DeployChaincode \in Seq(StepNames) /\ Len(DeployChaincode) \in Nat \ {0}
      /\ Steps("deployCC") \in Seq(StepNames) /\ Len(Steps("deployCC")) \in Nat \ {0}
  <2>1. DeployChaincode \in Seq(StepNames) /\ Len(DeployChaincode) \in Nat \ {0}
    BY <1>1, ChaincodeProgram
  <2>2. QED
    BY <2>1, NamedPrograms
<1>4. Steps("deploy") \in Seq(StepNames) /\ Len(Steps("deploy")) \in Nat \ {0}
  BY <1>1, DeployProgram
<1>5. Steps("pause") \in Seq(StepNames) /\ Len(Steps("pause")) \in Nat \ {0}
  BY <1>1, PauseProgram
<1>6. Steps("resume") \in Seq(StepNames) /\ Len(Steps("resume")) \in Nat \ {0}
  BY <1>1, ResumeProgram
<1>7. \A name \in Menu : name \in {"clean", "deploy", "pause", "resume", "deployCC"}
  BY OrchestratorAssumption
<1>8. QED
  BY <1>2, <1>3, <1>4, <1>5, <1>6, <1>7

LEMMA ProgramTyped ==
  ASSUME cmd.name \in Menu
  PROVE  Len(Program) \in Nat /\ Program \in Seq(StepNames)
  BY StepsTyped DEF Program

\* A command is idle or has a step to take.
LEMMA RunningOrIdle ==
  ASSUME CommandInv
  PROVE  /\ cmd # Idle => cmd.name \in Menu
         /\ cmd.todo # << >> <=> cmd # Idle
         /\ cmd # Idle => /\ Left \in 1 .. Len(Program)
                          /\ Head(cmd.todo) = Program[Len(Program) - Left + 1]
<1>1. Idle.name = "none" /\ Idle.todo = << >>
  BY DEF Idle
<1>2. cmd.todo \in Seq(StepNames) /\ (cmd.name = "none" \/ cmd.name \in Menu)
  BY DEF CommandInv, CommandType
<1>3. CASE cmd.name = "none"
  <2>1. cmd = Idle
    BY <1>3 DEF CommandInv
  <2>2. QED
    BY <1>1, <2>1
<1>4. CASE cmd.name # "none"
  <2>1. cmd.name \in Menu /\ cmd # Idle
    BY <1>1, <1>2, <1>4
  <2>2. Len(Program) \in Nat
    BY <2>1, ProgramTyped
  <2>3. /\ Left \in 1 .. Len(Program)
        /\ \A i \in 1 .. Left : cmd.todo[i] = Program[Len(Program) - Left + i]
    BY <1>4 DEF CommandInv
  <2>4. cmd.todo[1] = Program[Len(Program) - Left + 1]
    BY <2>2, <2>3
  <2>5. cmd.todo # << >> /\ Head(cmd.todo) = cmd.todo[1]
    BY <1>2, <2>2, <2>3 DEF Left
  <2>6. QED
    BY <2>1, <2>3, <2>4, <2>5
<1>5. QED
  BY <1>3, <1>4

\* Where a cleaning is, by the number of steps that are left.
LEMMA CleanAt ==
  ASSUME CommandInv, cmd.name = "clean"
  PROVE  /\ Left \in 1 .. 13
         /\ Left = 13 <=> At("stopCCAAS")
         /\ Left \in {12, 9, 6} <=> At("cleanup")
         /\ Left = 11 <=> At("downVolumes")
         /\ Left = 10 <=> At("downCerts")
         /\ Left = 8 <=> At("wipeOrgs")
         /\ Left = 7 <=> At("wipeCAs")
         /\ Left = 5 <=> At("removeVolumes")
         /\ Left = 4 <=> At("removeRegistrar")
         /\ Left = 3 <=> At("removeCache")
         /\ Left = 2 <=> At("drop")
         /\ Left = 1 <=> At("create")
         /\ \A s \in StepNames \ CleanSteps : ~At(s)
<1>1. Program = FullClean
  BY NamedPrograms DEF Program
<1>2. cmd # Idle
  BY DEF Idle
<1>3. /\ Left \in 1 .. 13 /\ cmd.todo # << >>
      /\ Head(cmd.todo) = FullClean[14 - Left]
  <2>1. /\ Left \in 1 .. Len(Program) /\ cmd.todo # << >>
        /\ Head(cmd.todo) = Program[Len(Program) - Left + 1]
    BY <1>2, RunningOrIdle
  <2>2. Program = FullClean /\ Len(FullClean) = 13
    BY <1>1, CleanProgram
  <2>3. QED
    BY <2>1, <2>2
<1>4. Head(cmd.todo) \in CleanSteps
  <2>1. FullClean \in Seq(CleanSteps) /\ Len(FullClean) = 13
    BY CleanProgram
  <2>2. \A i \in 1 .. Len(FullClean) : FullClean[i] \in CleanSteps
    BY <2>1, ElementOfSeq
  <2>3. 14 - Left \in 1 .. 13
    BY <1>3
  <2>4. QED
    BY <1>3, <2>1, <2>2, <2>3
<1>5. \A s : At(s) <=> FullClean[14 - Left] = s
  BY <1>3 DEF At
<1>6. \A s \in StepNames \ CleanSteps : ~At(s)
  BY <1>3, <1>4, <1>5
<1> DEFINE H == FullClean[14 - Left]
<1>7. /\ Left = 13 <=> H = "stopCCAAS"
      /\ Left \in {12, 9, 6} <=> H = "cleanup"
      /\ Left = 11 <=> H = "downVolumes"
      /\ Left = 10 <=> H = "downCerts"
      /\ Left = 8 <=> H = "wipeOrgs"
      /\ Left = 7 <=> H = "wipeCAs"
      /\ Left = 5 <=> H = "removeVolumes"
      /\ Left = 4 <=> H = "removeRegistrar"
      /\ Left = 3 <=> H = "removeCache"
      /\ Left = 2 <=> H = "drop"
      /\ Left = 1 <=> H = "create"
  <2>1. Left \in {1, 2, 3, 4, 5, 6, 7, 8, 9, 10, 11, 12, 13}
    BY <1>3
  <2>2. QED
    BY <2>1, CleanProgram
<1>8. QED
  BY <1>3, <1>5, <1>6, <1>7

\* Where a deployment of the network is.
LEMMA DeployAt ==
  ASSUME CommandInv, cmd.name = "deploy"
  PROVE  /\ Left \in 1 .. 18
         /\ Left = 18 <=> At("cleanup")
         /\ Left = 17 <=> At("ensureCrypto")
         /\ Left = 16 <=> At("sync")
         /\ Left = 15 <=> At("startCAs")
         /\ Left = 14 <=> At("enroll")
         /\ Left = 13 <=> At("enrollRest")
         /\ Left = 12 <=> At("startCore")
         /\ Left = 11 <=> At("join")
         /\ Left = 10 <=> At("seed")
         /\ Left = 9 <=> At("build")
         /\ Left = 8 <=> At("install")
         /\ Left = 7 <=> At("approve1")
         /\ Left = 6 <=> At("approve2")
         /\ Left = 5 <=> At("commit")
         /\ Left = 4 <=> At("runCCAAS")
         /\ Left = 3 <=> At("image")
         /\ Left = 2 <=> At("resolve")
         /\ Left = 1 <=> At("startCCAAS")
         /\ \A s \in StepNames \ DeploySteps : ~At(s)
<1>1. Program = Steps("deploy")
  BY DEF Program
<1>2. cmd # Idle
  BY DEF Idle
<1>3. /\ Left \in 1 .. 18 /\ cmd.todo # << >>
      /\ Head(cmd.todo) = Steps("deploy")[19 - Left]
  <2>1. /\ Left \in 1 .. Len(Program) /\ cmd.todo # << >>
        /\ Head(cmd.todo) = Program[Len(Program) - Left + 1]
    BY <1>2, RunningOrIdle
  <2>2. Len(Program) = 18
    BY <1>1, DeployProgram
  <2>3. Left \in 1 .. 18 /\ Len(Program) - Left + 1 = 19 - Left
    BY <2>1, <2>2
  <2>4. Head(cmd.todo) = Steps("deploy")[19 - Left]
    BY <1>1, <2>1, <2>3, Zenon
  <2>5. QED
    BY <2>1, <2>3, <2>4
<1>4. Head(cmd.todo) \in DeploySteps
  <2>1. Steps("deploy") \in Seq(DeploySteps) /\ Len(Steps("deploy")) = 18
    BY DeployProgram
  <2>2. \A i \in 1 .. Len(Steps("deploy")) : Steps("deploy")[i] \in DeploySteps
    BY <2>1, ElementOfSeq
  <2>3. 19 - Left \in 1 .. 18
    BY <1>3
  <2>4. QED
    BY <1>3, <2>1, <2>2, <2>3
<1>5. \A s : At(s) <=> Steps("deploy")[19 - Left] = s
  BY <1>3 DEF At
<1>6. \A s \in StepNames \ DeploySteps : ~At(s)
  BY <1>3, <1>4, <1>5
<1> DEFINE H == Steps("deploy")[19 - Left]
<1>7. /\ Left = 18 <=> H = "cleanup"
      /\ Left = 17 <=> H = "ensureCrypto"
      /\ Left = 16 <=> H = "sync"
      /\ Left = 15 <=> H = "startCAs"
      /\ Left = 14 <=> H = "enroll"
      /\ Left = 13 <=> H = "enrollRest"
      /\ Left = 12 <=> H = "startCore"
      /\ Left = 11 <=> H = "join"
      /\ Left = 10 <=> H = "seed"
      /\ Left = 9 <=> H = "build"
      /\ Left = 8 <=> H = "install"
      /\ Left = 7 <=> H = "approve1"
      /\ Left = 6 <=> H = "approve2"
      /\ Left = 5 <=> H = "commit"
      /\ Left = 4 <=> H = "runCCAAS"
      /\ Left = 3 <=> H = "image"
      /\ Left = 2 <=> H = "resolve"
      /\ Left = 1 <=> H = "startCCAAS"
  <2>1. Left \in {1, 2, 3, 4, 5, 6, 7, 8, 9, 10, 11, 12, 13, 14, 15, 16, 17, 18}
    BY <1>3
  <2>2. QED
    BY <2>1, DeployProgram, SMTT(60)
<1>8. QED
  BY <1>3, <1>5, <1>6, <1>7

\* Where a deployment of the chaincode is, chosen or fallen back to.
LEMMA ChaincodeAt ==
  ASSUME CommandInv, cmd.name = "deployCC" \/ (cmd.name = "resume" /\ ~cmd.fallback)
  PROVE  /\ Left \in 1 .. 9
         /\ Left = 9 <=> At("build")
         /\ Left = 8 <=> At("install")
         /\ Left = 7 <=> At("approve1")
         /\ Left = 6 <=> At("approve2")
         /\ Left = 5 <=> At("commit")
         /\ Left = 4 <=> At("runCCAAS")
         /\ Left = 3 <=> At("image")
         /\ Left = 2 <=> At("resolve")
         /\ Left = 1 <=> At("startCCAAS")
         /\ \A s \in StepNames \ ChaincodeSteps : ~At(s)
<1>1. Program = DeployChaincode
  BY NamedPrograms DEF Program
<1>2. cmd # Idle
  BY DEF Idle
<1>3. /\ Left \in 1 .. 9 /\ cmd.todo # << >>
      /\ Head(cmd.todo) = DeployChaincode[10 - Left]
  <2>1. /\ Left \in 1 .. Len(Program) /\ cmd.todo # << >>
        /\ Head(cmd.todo) = Program[Len(Program) - Left + 1]
    BY <1>2, RunningOrIdle
  <2>2. Program = DeployChaincode /\ Len(DeployChaincode) = 9
    BY <1>1, ChaincodeProgram
  <2>3. QED
    BY <2>1, <2>2
<1>4. Head(cmd.todo) \in ChaincodeSteps
  <2>1. DeployChaincode \in Seq(ChaincodeSteps) /\ Len(DeployChaincode) = 9
    BY ChaincodeProgram
  <2>2. \A i \in 1 .. Len(DeployChaincode) : DeployChaincode[i] \in ChaincodeSteps
    BY <2>1, ElementOfSeq
  <2>3. 10 - Left \in 1 .. 9
    BY <1>3
  <2>4. QED
    BY <1>3, <2>1, <2>2, <2>3
<1>5. \A s : At(s) <=> DeployChaincode[10 - Left] = s
  BY <1>3 DEF At
<1>6. \A s \in StepNames \ ChaincodeSteps : ~At(s)
  BY <1>3, <1>4, <1>5
<1> DEFINE H == DeployChaincode[10 - Left]
<1>7. /\ Left = 9 <=> H = "build"
      /\ Left = 8 <=> H = "install"
      /\ Left = 7 <=> H = "approve1"
      /\ Left = 6 <=> H = "approve2"
      /\ Left = 5 <=> H = "commit"
      /\ Left = 4 <=> H = "runCCAAS"
      /\ Left = 3 <=> H = "image"
      /\ Left = 2 <=> H = "resolve"
      /\ Left = 1 <=> H = "startCCAAS"
  <2>1. Left \in {1, 2, 3, 4, 5, 6, 7, 8, 9}
    BY <1>3
  <2>2. QED
    BY <2>1, ChaincodeProgram
<1>8. QED
  BY <1>3, <1>5, <1>6, <1>7

\* Where a pause is.
LEMMA PauseAt ==
  ASSUME CommandInv, cmd.name = "pause"
  PROVE  /\ Left \in 1 .. 2
         /\ Left = 2 <=> At("stopCCAAS")
         /\ Left = 1 <=> At("stopContainers")
         /\ \A s \in StepNames \ PauseSteps : ~At(s)
<1>1. Program = Steps("pause")
  BY DEF Program
<1>2. cmd # Idle
  BY DEF Idle
<1>3. /\ Left \in 1 .. 2 /\ cmd.todo # << >>
      /\ Head(cmd.todo) = Steps("pause")[3 - Left]
  <2>1. /\ Left \in 1 .. Len(Program) /\ cmd.todo # << >>
        /\ Head(cmd.todo) = Program[Len(Program) - Left + 1]
    BY <1>2, RunningOrIdle
  <2>2. Program = Steps("pause") /\ Len(Steps("pause")) = 2
    BY <1>1, PauseProgram
  <2>3. QED
    BY <2>1, <2>2, SMTT(30)
<1>4. Head(cmd.todo) \in PauseSteps
  <2>1. Steps("pause") \in Seq(PauseSteps) /\ Len(Steps("pause")) = 2
    BY PauseProgram
  <2>2. \A i \in 1 .. Len(Steps("pause")) : Steps("pause")[i] \in PauseSteps
    BY <2>1, ElementOfSeq
  <2>3. 3 - Left \in 1 .. 2
    BY <1>3
  <2>4. QED
    BY <1>3, <2>1, <2>2, <2>3
<1>5. \A s : At(s) <=> Steps("pause")[3 - Left] = s
  BY <1>3 DEF At
<1>6. \A s \in StepNames \ PauseSteps : ~At(s)
  BY <1>3, <1>4, <1>5
<1> DEFINE H == Steps("pause")[3 - Left]
<1>7. /\ Left = 2 <=> H = "stopCCAAS"
      /\ Left = 1 <=> H = "stopContainers"
  <2>1. Left \in {1, 2}
    BY <1>3
  <2>2. QED
    BY <2>1, PauseProgram
<1>8. QED
  BY <1>3, <1>5, <1>6, <1>7

\* Where the resumption of the network is.
LEMMA ResumeAt ==
  ASSUME CommandInv, cmd.name = "resume", cmd.fallback
  PROVE  /\ Left \in 1 .. 5
         /\ Left = 5 <=> At("startContainers")
         /\ Left = 4 <=> At("verify")
         /\ Left = 3 <=> At("image")
         /\ Left = 2 <=> At("resolve")
         /\ Left = 1 <=> At("startCCAAS")
         /\ \A s \in StepNames \ ResumeSteps : ~At(s)
<1>1. Program = Steps("resume")
  BY DEF Program
<1>2. cmd # Idle
  BY DEF Idle
<1>3. /\ Left \in 1 .. 5 /\ cmd.todo # << >>
      /\ Head(cmd.todo) = Steps("resume")[6 - Left]
  <2>1. /\ Left \in 1 .. Len(Program) /\ cmd.todo # << >>
        /\ Head(cmd.todo) = Program[Len(Program) - Left + 1]
    BY <1>2, RunningOrIdle
  <2>2. Len(Program) = 5
    BY <1>1, ResumeProgram
  <2>3. Left \in 1 .. 5 /\ Len(Program) - Left + 1 = 6 - Left
    BY <2>1, <2>2
  <2>4. Head(cmd.todo) = Steps("resume")[6 - Left]
    BY <1>1, <2>1, <2>3, Zenon
  <2>5. QED
    BY <2>1, <2>3, <2>4
<1>4. Head(cmd.todo) \in ResumeSteps
  <2>1. Steps("resume") \in Seq(ResumeSteps) /\ Len(Steps("resume")) = 5
    BY ResumeProgram
  <2>2. \A i \in 1 .. Len(Steps("resume")) : Steps("resume")[i] \in ResumeSteps
    BY <2>1, ElementOfSeq
  <2>3. 6 - Left \in 1 .. 5
    BY <1>3
  <2>4. QED
    BY <1>3, <2>1, <2>2, <2>3
<1>5. \A s : At(s) <=> Steps("resume")[6 - Left] = s
  BY <1>3 DEF At
<1>6. \A s \in StepNames \ ResumeSteps : ~At(s)
  BY <1>3, <1>4, <1>5
<1> DEFINE H == Steps("resume")[6 - Left]
<1>7. /\ Left = 5 <=> H = "startContainers"
      /\ Left = 4 <=> H = "verify"
      /\ Left = 3 <=> H = "image"
      /\ Left = 2 <=> H = "resolve"
      /\ Left = 1 <=> H = "startCCAAS"
  <2>1. Left \in {1, 2, 3, 4, 5}
    BY <1>3
  <2>2. QED
    BY <2>1, ResumeProgram
<1>8. QED
  BY <1>3, <1>5, <1>6, <1>7

-----------------------------------------------------------------------------
(***************************************************************************)
(* What a step does to the command.                                        *)
(***************************************************************************)
Started ==
  /\ cmd = Idle
  /\ \E name \in Menu :
       cmd' = [Idle EXCEPT !.name = name, !.todo = Steps(name), !.fallback = name = "resume",
                           !.repairable = Repairable]
  /\ last' = last

\* What a command carries from one step to the next.
Carried ==
  /\ cmd # Idle /\ cmd' \in CommandType
  /\ cmd'.name = cmd.name /\ cmd'.repairable = cmd.repairable
  /\ cmd'.quiet => cmd.quiet

Advanced ==
  /\ Carried
  /\ Left > 1 /\ cmd'.todo = Tail(cmd.todo) /\ cmd'.fallback = cmd.fallback
  /\ last' = last

Waited ==
  /\ Carried
  /\ cmd'.todo = cmd.todo /\ cmd'.fallback = cmd.fallback

FellBack ==
  /\ Carried
  /\ cmd.fallback /\ ~cmd'.fallback /\ cmd'.todo = DeployChaincode
  /\ cmd'.package = cmd.package
  /\ last' = last

Completed ==
  /\ cmd # Idle /\ Left = 1 /\ cmd' = Idle
  /\ last' = [name |-> cmd.name, ok |-> TRUE, quiet |-> cmd.quiet, repairable |-> cmd.repairable,
              halfClean |-> IF cmd.name = "clean" THEN ~cmd.quiet ELSE last.halfClean]

Failed(quiet) ==
  /\ cmd # Idle /\ cmd' = Idle
  /\ last' = [name |-> cmd.name, ok |-> FALSE, quiet |-> quiet, repairable |-> cmd.repairable,
              halfClean |-> last.halfClean \/ cmd.name = "clean"]

\* A command that goes on keeps its course.
LEMMA AdvancedKeepsCourse ==
  ASSUME CommandInv, Advanced
  PROVE  CommandInv' /\ Left' = Left - 1
<1>1. /\ cmd \in CommandType /\ cmd # Idle
      /\ cmd.fallback => cmd.name = "resume"
  BY DEF CommandInv, Advanced, Carried
<1>2. cmd.todo \in Seq(StepNames) /\ cmd.todo # << >> /\ cmd.name \in Menu
  BY <1>1, RunningOrIdle DEF CommandType
<1>3. /\ Len(Tail(cmd.todo)) = Len(cmd.todo) - 1
      /\ \A i \in 1 .. Len(Tail(cmd.todo)) : Tail(cmd.todo)[i] = cmd.todo[i + 1]
  BY <1>2, HeadTailProperties
<1>4. Left' = Left - 1 /\ Program' = Program
  BY <1>3 DEF Left, Advanced, Carried, Program
<1>5. Len(Program) \in Nat /\ Left \in Nat /\ Left \in 1 .. Len(Program)
  BY <1>1, <1>2, ProgramTyped, RunningOrIdle DEF Left
<1>6. Left' \in 1 .. Len(Program)'
  BY <1>4, <1>5 DEF Advanced
<1>7. ASSUME NEW i \in 1 .. Left'
      PROVE  cmd'.todo[i] = Program'[Len(Program)' - Left' + i]
  <2>1. i + 1 \in 1 .. Left /\ i \in 1 .. Len(Tail(cmd.todo))
    BY <1>3, <1>4, <1>5, <1>7 DEF Left
  <2>2. cmd'.todo[i] = cmd.todo[i + 1]
    BY <1>3, <2>1 DEF Advanced
  <2>3. cmd.todo[i + 1] = Program[Len(Program) - Left + (i + 1)]
    <3>1. cmd.name # "none"
      BY <1>2, NoneIsNoCommand
    <3>2. QED
      BY <2>1, <3>1 DEF CommandInv
  <2>4. Len(Program) - Left + (i + 1) = Len(Program)' - Left' + i
    BY <1>4, <1>5, <2>1
  <2>5. QED
    BY <1>4, <2>2, <2>3, <2>4
<1>8. cmd' \in CommandType /\ cmd'.name = cmd.name /\ cmd'.fallback = cmd.fallback
  BY DEF Advanced, Carried
<1>9. QED
  BY <1>1, <1>2, <1>4, <1>6, <1>7, <1>8, NoneIsNoCommand DEF CommandInv

LEMMA WaitedKeepsCourse ==
  ASSUME CommandInv, Waited
  PROVE  CommandInv' /\ Left' = Left
<1>1. cmd' \in CommandType /\ cmd'.name = cmd.name /\ cmd'.fallback = cmd.fallback /\ cmd'.todo = cmd.todo
  BY DEF Waited, Carried
<1>2. Left' = Left /\ Program' = Program
  BY <1>1 DEF Left, Program
<1>3. cmd.name # "none"
  BY RunningOrIdle, NoneIsNoCommand DEF Waited, Carried
<1>4. QED
  BY <1>1, <1>2, <1>3 DEF CommandInv

LEMMA FellBackKeepsCourse ==
  ASSUME CommandInv, FellBack
  PROVE  CommandInv' /\ Left' = 9 /\ cmd.name = "resume"
<1>1. /\ cmd' \in CommandType /\ cmd'.name = "resume" /\ ~cmd'.fallback
      /\ cmd'.todo = DeployChaincode /\ cmd.name = "resume"
  BY DEF FellBack, Carried, CommandInv
<1>2. Program' = DeployChaincode /\ Left' = 9
  BY <1>1, ChaincodeProgram DEF Program, Left
<1>3. Len(Program)' = 9
  BY <1>2, ChaincodeProgram
<1>4. Left' \in 1 .. Len(Program)'
  BY <1>2, <1>3
<1>5. \A i \in 1 .. Left' : cmd'.todo[i] = Program'[Len(Program)' - Left' + i]
  BY <1>1, <1>2, <1>3
<1>6. QED
  BY <1>1, <1>2, <1>4, <1>5 DEF CommandInv

LEMMA StartedKeepsCourse ==
  ASSUME CommandInv, Started
  PROVE  CommandInv' /\ Left' = Len(Program)' /\ cmd'.name \in Menu /\ cmd'.quiet
<1>1. PICK name \in Menu :
        cmd' = [Idle EXCEPT !.name = name, !.todo = Steps(name), !.fallback = name = "resume",
                            !.repairable = Repairable]
  BY DEF Started
<1>2. /\ cmd'.name = name /\ cmd'.todo = Steps(name) /\ cmd'.fallback = (name = "resume")
      /\ cmd'.quiet = TRUE
  BY <1>1 DEF Idle
<1>3. Program' = Steps(name)
  BY <1>2 DEF Program
<1>4. Len(Program)' \in Nat \ {0} /\ Program' \in Seq(StepNames)
  BY <1>3, StepsTyped
<1>5. cmd' \in CommandType
  <2>1. cmd' = [name |-> name, todo |-> Steps(name), tries |-> 0, package |-> 0,
                fallback |-> name = "resume", quiet |-> TRUE, repairable |-> Repairable]
    BY <1>1 DEF Idle
  <2>2. 0 \in 0 .. Retries /\ 0 \in 0 .. MaxPackages /\ Steps(name) \in Seq(StepNames)
    BY StepsTyped, OrchestratorAssumption
  <2>3. QED
    BY <2>1, <2>2 DEF CommandType, Repairable
<1>6. Left' = Len(Program)'
  BY <1>2, <1>3 DEF Left
<1>7. ASSUME NEW i \in 1 .. Left'
      PROVE  cmd'.todo[i] = Program'[Len(Program)' - Left' + i]
  <2>1. Len(Program)' - Left' + i = i
    BY <1>4, <1>6
  <2>2. QED
    BY <1>2, <1>3, <2>1
<1>8. Left' \in 1 .. Len(Program)'
  BY <1>4, <1>6
<1>9. QED
  BY <1>2, <1>4, <1>5, <1>6, <1>7, <1>8, NoneIsNoCommand DEF CommandInv

LEMMA IdleIsOnCourse ==
  ASSUME cmd' = Idle
  PROVE  CommandInv'
  BY IdleTyped DEF CommandInv

-----------------------------------------------------------------------------
(***************************************************************************)
(* Sequences of packages.                                                  *)
(***************************************************************************)
Elements(s) == {s[i] : i \in 1 .. Len(s)}

LEMMA BoundedSequence ==
  ASSUME NEW S, NEW n \in Nat, NEW s
  PROVE  s \in BoundedSeq(S, n) <=> s \in Seq(S) /\ Len(s) <= n
<1>1. ASSUME s \in BoundedSeq(S, n)
      PROVE  s \in Seq(S) /\ Len(s) <= n
  <2>1. PICK m \in 0 .. n : s \in [1 .. m -> S]
    BY <1>1 DEF BoundedSeq, SeqOf
  <2>2. s \in Seq(S)
    BY <2>1, SeqDef
  <2>3. 1 .. Len(s) = 1 .. m /\ Len(s) \in Nat
    BY <2>1, <2>2, LenProperties
  <2>4. QED
    BY <2>1, <2>2, <2>3
<1>2. ASSUME s \in Seq(S), Len(s) <= n
      PROVE  s \in BoundedSeq(S, n)
  <2>1. Len(s) \in 0 .. n /\ s \in [1 .. Len(s) -> S]
    BY <1>2, LenProperties
  <2>2. QED
    BY <2>1 DEF BoundedSeq, SeqOf
<1>3. QED
  BY <1>1, <1>2

\* What an insertion holds.
LEMMA Inserted ==
  ASSUME NEW S, NEW s \in Seq(S), NEW e \in S, NEW i \in 1 .. Len(s) + 1
  PROVE  /\ InsertAt(s, i, e) \in Seq(S)
         /\ Len(InsertAt(s, i, e)) = Len(s) + 1
         /\ Elements(InsertAt(s, i, e)) = Elements(s) \cup {e}
<1> DEFINE before == SubSeq(s, 1, i - 1)
           after == SubSeq(s, i, Len(s))
           m == before \o <<e>>
           t == InsertAt(s, i, e)
<1>1. Len(s) \in Nat
  OBVIOUS
<1>2. /\ before \in Seq(S) /\ Len(before) = i - 1
      /\ \A k \in 1 .. i - 1 : before[k] = s[k]
  <2>1. \A k \in 1 .. i - 1 : s[k] \in S
    BY <1>1, ElementOfSeq
  <2>2. QED
    BY <1>1, <2>1, SubSeqProperties
<1>3. /\ after \in Seq(S) /\ Len(after) = Len(s) + 1 - i
      /\ \A k \in 1 .. Len(s) + 1 - i : after[k] = s[i + k - 1]
  <2>1. \A k \in i .. Len(s) : s[k] \in S
    BY <1>1, ElementOfSeq
  <2>2. QED
    BY <1>1, <2>1, SubSeqProperties
<1> HIDE DEF before, after
<1>4. /\ m \in Seq(S) /\ Len(m) = i
      /\ \A k \in 1 .. i - 1 : m[k] = s[k]
      /\ m[i] = e
  BY <1>1, <1>2
<1>5. t = m \o after
  BY DEF InsertAt, before, after
<1> HIDE DEF t, m
<1>6. /\ t \in Seq(S) /\ Len(t) = Len(s) + 1
      /\ \A k \in 1 .. i : t[k] = m[k]
      /\ \A k \in 1 .. Len(s) + 1 - i : t[i + k] = after[k]
  <2>1. m \in Seq(S) /\ after \in Seq(S)
    BY <1>3, <1>4
  <2>2. /\ m \o after \in Seq(S) /\ Len(m \o after) = Len(m) + Len(after)
        /\ \A k \in 1 .. Len(m) : (m \o after)[k] = m[k]
        /\ \A k \in 1 .. Len(after) : (m \o after)[Len(m) + k] = after[k]
    BY <2>1
  <2>3. Len(m) = i /\ Len(after) = Len(s) + 1 - i /\ i + (Len(s) + 1 - i) = Len(s) + 1
    BY <1>1, <1>3, <1>4
  <2>4. QED
    BY <1>5, <2>2, <2>3
<1>7. /\ \A k \in 1 .. i - 1 : t[k] = s[k]
      /\ t[i] = e
      /\ \A k \in i .. Len(s) : t[k + 1] = s[k]
  <2>1. ASSUME NEW k \in i .. Len(s)
        PROVE  t[k + 1] = s[k]
    <3>1. k - i + 1 \in 1 .. Len(s) + 1 - i /\ i + (k - i + 1) = k + 1 /\ i + (k - i + 1) - 1 = k
      BY <1>1
    <3>2. t[i + (k - i + 1)] = after[k - i + 1] /\ after[k - i + 1] = s[i + (k - i + 1) - 1]
      BY <1>3, <1>6, <3>1
    <3>3. QED
      BY <3>1, <3>2
  <2>2. QED
    BY <1>1, <1>4, <1>6, <2>1
<1>8. Elements(t) \subseteq Elements(s) \cup {e}
  <2>1. ASSUME NEW k \in 1 .. Len(t)
        PROVE  t[k] \in Elements(s) \cup {e}
    <3>1. CASE k < i
      BY <1>1, <1>7, <3>1 DEF Elements
    <3>2. CASE k = i
      BY <1>7, <3>2
    <3>3. CASE k > i
      <4>1. k - 1 \in i .. Len(s) /\ (k - 1) + 1 = k
        BY <1>1, <1>6, <3>3
      <4>2. t[k] = s[k - 1] /\ k - 1 \in 1 .. Len(s)
        BY <1>1, <1>7, <4>1
      <4>3. QED
        BY <4>2 DEF Elements
    <3>4. QED
      BY <1>1, <1>6, <3>1, <3>2, <3>3
  <2>2. QED
    BY <2>1 DEF Elements
<1>9. Elements(s) \cup {e} \subseteq Elements(t)
  <2>1. ASSUME NEW k \in 1 .. Len(s)
        PROVE  s[k] \in Elements(t)
    <3>1. CASE k < i
      BY <1>1, <1>6, <1>7, <3>1 DEF Elements
    <3>2. CASE k >= i
      <4>1. k \in i .. Len(s) /\ k + 1 \in 1 .. Len(t)
        BY <1>1, <1>6, <3>2
      <4>2. s[k] = t[k + 1]
        BY <1>7, <4>1
      <4>3. QED
        BY <4>1, <4>2 DEF Elements
    <3>3. QED
      BY <1>1, <3>1, <3>2
  <2>2. e \in Elements(t)
    BY <1>1, <1>6, <1>7 DEF Elements
  <2>3. QED
    BY <2>1, <2>2 DEF Elements
<1>10. QED
  BY <1>6, <1>8, <1>9 DEF t

-----------------------------------------------------------------------------
(***************************************************************************)
(* The world, field by field.                                              *)
(***************************************************************************)
Fields ==
  {"certs", "authority", "core", "cas", "ccaas", "image", "volumes", "cached",
   "registrar", "tables", "seeded", "handle", "nCerts", "nPackages"}

Installed == world.volumes.installed

VolumesType ==
  [channel : 0 .. MaxCerts, installed : Seq(1 .. MaxPackages),
   committed : 0 .. MaxPackages, approved : SUBSET Peers]

Shaped(w) == w = [f \in Fields |-> w[f]]

WorldInv ==
  /\ Shaped(world)
  /\ world.certs \in {"none", "partial", "passing", "complete"}
  /\ world.core \in Containers /\ world.cas \in Containers
  /\ world.ccaas \in [Peers -> Container]
  /\ world.image \in BOOLEAN /\ world.tables \in BOOLEAN /\ world.handle \in BOOLEAN
  /\ world.volumes \in VolumesType
  /\ world.nCerts \in 0 .. MaxCerts /\ world.nPackages \in 0 .. MaxPackages
  /\ world.authority \in 0 .. MaxCerts /\ world.registrar \in 0 .. MaxCerts
  /\ world.seeded \in 0 .. MaxCerts
  /\ world.cached \in 0 .. MaxPackages
  /\ Len(Installed) <= world.nPackages

LEMMA WorldIsTyped == WorldInv => world \in World
<1> SUFFICES ASSUME WorldInv PROVE world \in World
  OBVIOUS
<1>1. world.volumes \in Volumes
  <2>1. Installed \in BoundedSeq(1 .. MaxPackages, MaxPackages)
    BY BoundedSequence, OrchestratorAssumption DEF WorldInv, VolumesType, Installed
  <2>2. QED
    BY <2>1 DEF WorldInv, VolumesType, Volumes, Installed
<1>2. QED
  BY <1>1 DEF WorldInv, Shaped, World, Fields

-----------------------------------------------------------------------------
(***************************************************************************)
(* Which commands take which steps, and when.                              *)
(***************************************************************************)
LEMMA Places ==
  ASSUME CommandInv
  PROVE  /\ \A s \in CleanSteps \ {"stopCCAAS", "cleanup"} : At(s) => cmd.name = "clean"
         /\ At("cleanup") => cmd.name = "clean" \/ (cmd.name = "deploy" /\ Left = 18)
         /\ At("stopCCAAS") => cmd.name \in {"clean", "pause"}
         /\ At("stopContainers") => cmd.name = "pause"
         /\ At("startContainers") \/ At("verify") => cmd.name = "resume" /\ cmd.fallback
         /\ \A s \in DeploySteps \ (ChaincodeSteps \cup {"cleanup"}) : At(s) => cmd.name = "deploy"
         /\ \A s \in ChaincodeSteps : At(s) => cmd.name \in {"deploy", "deployCC", "resume"}
         /\ \A s \in ChaincodeSteps \ {"image", "resolve", "startCCAAS"} : At(s) => ~cmd.fallback
<1>1. CASE cmd = Idle
  BY <1>1 DEF At, Idle
<1>2. cmd # Idle => cmd.name \in {"clean", "deploy", "pause", "resume", "deployCC"}
  BY RunningOrIdle, OrchestratorAssumption
<1>3. CASE cmd.name = "clean"
  <2>1. /\ {"stopContainers", "startContainers", "verify"} \subseteq StepNames \ CleanSteps
        /\ DeploySteps \ {"cleanup"} \subseteq StepNames \ CleanSteps
        /\ ChaincodeSteps \subseteq DeploySteps \ {"cleanup"}
    BY DEF CleanSteps, DeploySteps, ChaincodeSteps, PauseSteps, ResumeSteps, StepNames
  <2>2. \A s \in StepNames \ CleanSteps : ~At(s)
    BY <1>3, CleanAt
  <2>3. /\ ~At("stopContainers") /\ ~At("startContainers") /\ ~At("verify")
        /\ \A s \in DeploySteps \ {"cleanup"} : ~At(s)
    BY <2>1, <2>2
  <2>4. QED
    BY <1>3, <2>1, <2>3
<1> USE DEF CleanSteps, DeploySteps, ChaincodeSteps, PauseSteps, ResumeSteps, StepNames
<1>4. CASE cmd.name = "deploy"
  <2>1. ~cmd.fallback
    BY <1>4 DEF CommandInv
  <2>2. QED
    BY <1>4, <2>1, DeployAt
<1>5. CASE cmd.name = "pause"
  BY <1>5, PauseAt
<1>6. CASE cmd.name = "deployCC"
  <2>1. ~cmd.fallback
    BY <1>6 DEF CommandInv
  <2>2. QED
    BY <1>6, <2>1, ChaincodeAt
<1>7. CASE cmd.name = "resume" /\ ~cmd.fallback
  BY <1>7, ChaincodeAt
<1>8. CASE cmd.name = "resume" /\ cmd.fallback
  BY <1>8, ResumeAt
<1>9. QED
  BY <1>1, <1>2, <1>3, <1>4, <1>5, <1>6, <1>7, <1>8

\* The steps of the chaincode are counted from the end alike in every command.
LEMMA ChaincodePlaces ==
  ASSUME CommandInv
  PROVE  /\ At("build") => Left = 9
         /\ At("install") => Left = 8
         /\ At("approve1") => Left = 7
         /\ At("approve2") => Left = 6
         /\ At("commit") => Left = 5
         /\ At("runCCAAS") => Left = 4
         /\ At("image") => Left = 3
         /\ At("resolve") => Left = 2
         /\ At("startCCAAS") => Left = 1
<1>1. CASE \A s \in ChaincodeSteps : ~At(s)
  BY <1>1 DEF ChaincodeSteps
<1>2. CASE \E s \in ChaincodeSteps : At(s)
  <2>1. cmd.name \in {"deploy", "deployCC", "resume"}
    BY <1>2, Places
  <2>2. CASE cmd.name = "deploy"
    BY <2>2, DeployAt
  <2>3. CASE cmd.name = "deployCC"
    BY <2>3, ChaincodeAt
  <2>4. CASE cmd.name = "resume" /\ ~cmd.fallback
    BY <2>4, ChaincodeAt
  <2>5. CASE cmd.name = "resume" /\ cmd.fallback
    BY <2>5, ResumeAt DEF StepNames, DeploySteps, ChaincodeSteps, ResumeSteps
  <2>6. QED
    BY <2>1, <2>2, <2>3, <2>4, <2>5
<1>3. QED
  BY <1>1, <1>2

-----------------------------------------------------------------------------
(***************************************************************************)
(* Every step moves its command in one of these ways.                      *)
(***************************************************************************)
LEMMA AtRuns ==
  ASSUME CommandInv, NEW s, At(s)
  PROVE  cmd # Idle
  BY DEF At, Idle

LEMMA ProceedMoves ==
  ASSUME CommandInv, cmd # Idle, Proceed
  PROVE  (Advanced /\ cmd'.package = cmd.package) \/ Completed
<1>1. cmd \in CommandType /\ cmd.todo \in Seq(StepNames) /\ cmd.todo # << >>
  BY RunningOrIdle DEF CommandInv, CommandType
<1>2. CASE Left > 1
  <2>1. cmd' = [cmd EXCEPT !.todo = Tail(@)] /\ last' = last
    BY <1>2 DEF Proceed, Left
  <2>2. Tail(cmd.todo) \in Seq(StepNames)
    BY <1>1
  <2>3. /\ cmd' \in CommandType /\ cmd'.todo = Tail(cmd.todo) /\ cmd'.name = cmd.name
        /\ cmd'.fallback = cmd.fallback /\ cmd'.repairable = cmd.repairable /\ cmd'.quiet = cmd.quiet
        /\ cmd'.package = cmd.package
    BY <1>1, <2>1, <2>2 DEF CommandType
  <2>4. QED
    BY <1>2, <2>1, <2>3 DEF Advanced, Carried
<1>3. CASE ~(Left > 1)
  <2>1. Left = 1
    <3>1. Len(cmd.todo) \in Nat /\ Len(cmd.todo) # 0
      BY <1>1, EmptySeq
    <3>2. \A n \in Nat : n # 0 => n > 1 \/ n = 1
      OBVIOUS
    <3>3. QED
      BY <1>3, <3>1, <3>2 DEF Left
  <2>2. QED
    BY <1>3, <2>1 DEF Proceed, Completed, Left
<1>4. QED
  BY <1>2, <1>3

LEMMA ErrorMoves ==
  ASSUME CommandInv, cmd # Idle, NEW quiet \in BOOLEAN, quiet => cmd.quiet, Error(quiet)
  PROVE  FellBack \/ Failed(quiet)
<1>1. CASE End(quiet)
  BY <1>1 DEF End, Failed
<1>2. CASE ~End(quiet)
  <2>1. /\ cmd.fallback /\ last' = last
        /\ cmd' = [cmd EXCEPT !.todo = DeployChaincode, !.tries = 0, !.fallback = FALSE,
                              !.quiet = quiet]
    BY <1>2 DEF Error
  <2>2. cmd \in CommandType /\ DeployChaincode \in Seq(StepNames) /\ 0 \in 0 .. Retries
    BY StepsTyped, OrchestratorAssumption DEF CommandInv
  <2>3. cmd' \in CommandType
    BY <2>1, <2>2 DEF CommandType
  <2>4. /\ cmd'.todo = DeployChaincode /\ cmd'.fallback = FALSE /\ cmd'.name = cmd.name
        /\ cmd'.repairable = cmd.repairable /\ cmd'.quiet = quiet /\ cmd'.package = cmd.package
    BY <2>1, <2>2 DEF CommandType
  <2>5. QED
    BY <2>1, <2>3, <2>4 DEF FellBack, Carried
<1>3. QED
  BY <1>1, <1>2

LEMMA FailsMoves ==
  ASSUME CommandInv, cmd # Idle, Fails
  PROVE  (FellBack \/ Failed(cmd.quiet)) /\ world' = world
<1>1. cmd.quiet \in BOOLEAN
  BY DEF CommandInv, CommandType
<1>2. QED
  BY <1>1, ErrorMoves DEF Fails

LEMMA ThenMoves ==
  ASSUME CommandInv, cmd # Idle, NEW w, Then(w)
  PROVE  /\ (Advanced /\ cmd'.package = cmd.package) \/ Completed
         /\ world' = w
  BY ProceedMoves DEF Then

\* Of the steps that do more to their command than to go on: Install and the
\* answers to a query note a package, a query is repeated.
LEMMA InstallMoves ==
  ASSUME CommandInv, WorldInv, Install
  PROVE  Advanced \/ (world' = world /\ (FellBack \/ Failed(cmd.quiet)))
<1>1. At("install") /\ cmd # Idle /\ Left = 8
  BY AtRuns, ChaincodePlaces DEF Install
<1>2. CASE world.core # "running"
  BY <1>1, <1>2, FailsMoves DEF Install
<1>3. CASE world.core = "running"
  <2>1. /\ world.nPackages + 1 <= MaxPackages
        /\ cmd' = [cmd EXCEPT !.todo = Tail(@), !.package = world.nPackages + 1]
        /\ last' = last
    BY <1>3 DEF Install
  <2>2. cmd \in CommandType /\ Tail(cmd.todo) \in Seq(StepNames)
    BY <1>1, RunningOrIdle DEF CommandInv, CommandType
  <2>3. world.nPackages + 1 \in 0 .. MaxPackages
    BY <2>1, OrchestratorAssumption DEF WorldInv
  <2>4. /\ cmd' \in CommandType /\ cmd'.todo = Tail(cmd.todo) /\ cmd'.name = cmd.name
        /\ cmd'.fallback = cmd.fallback /\ cmd'.repairable = cmd.repairable /\ cmd'.quiet = cmd.quiet
    BY <2>1, <2>2, <2>3 DEF CommandType
  <2>5. QED
    BY <1>1, <2>1, <2>4 DEF Advanced, Carried
<1>4. QED
  BY <1>2, <1>3

LEMMA ResolvedMoves ==
  ASSUME CommandInv, At("resolve"), NEW p \in 0 .. MaxPackages, NEW quiet \in BOOLEAN,
         quiet => cmd.quiet, Resolved(p, quiet)
  PROVE  Advanced /\ cmd'.package = p
<1>1. cmd # Idle /\ Left = 2
  BY AtRuns, ChaincodePlaces
<1>2. cmd \in CommandType /\ Tail(cmd.todo) \in Seq(StepNames) /\ 0 \in 0 .. Retries
  BY <1>1, RunningOrIdle, OrchestratorAssumption DEF CommandInv, CommandType
<1>3. cmd' = [cmd EXCEPT !.todo = Tail(@), !.package = p, !.tries = 0, !.quiet = quiet]
  BY DEF Resolved
<1>4. cmd' \in CommandType
  BY <1>2, <1>3 DEF CommandType
<1>5. /\ cmd'.todo = Tail(cmd.todo) /\ cmd'.name = cmd.name
      /\ cmd'.fallback = cmd.fallback /\ cmd'.repairable = cmd.repairable /\ cmd'.quiet = quiet
      /\ cmd'.package = p
  BY <1>2, <1>3 DEF CommandType
<1>6. QED
  BY <1>1, <1>4, <1>5 DEF Advanced, Carried, Resolved

LEMMA StillQuietTyped ==
  ASSUME CommandInv
  PROVE  StillQuiet \in BOOLEAN /\ (StillQuiet => cmd.quiet) /\ cmd.quiet \in BOOLEAN
  BY DEF StillQuiet, CanAnswer, CommandInv, CommandType

LEMMA QueryMoves ==
  ASSUME CommandInv, WorldInv, QueryInstalled
  PROVE  /\ Advanced /\ cmd'.package = Head(Installed)
         /\ world' = [world EXCEPT !.cached = Head(Installed)]
         /\ Installed # << >> /\ Head(Installed) \in 1 .. MaxPackages
<1>1. /\ At("resolve") /\ Installed # << >> /\ Resolved(Head(Installed), cmd.quiet)
  BY DEF QueryInstalled, CanAnswer, Installed
<1>2. Head(Installed) \in 1 .. MaxPackages
  <2>1. Installed \in Seq(1 .. MaxPackages)
    BY DEF WorldInv, VolumesType, Installed
  <2>2. QED
    BY <1>1, <2>1, HeadTailProperties
<1>3. Head(Installed) \in 0 .. MaxPackages
  BY <1>2, OrchestratorAssumption
<1>4. Advanced /\ cmd'.package = Head(Installed)
  BY <1>1, <1>3, ResolvedMoves, StillQuietTyped
<1>5. QED
  BY <1>1, <1>2, <1>4 DEF Resolved

LEMMA QueryAgainMoves ==
  ASSUME CommandInv, QueryAgain
  PROVE  Waited /\ world' = world /\ last' = last /\ cmd'.package = cmd.package
<1>1. /\ cmd # Idle /\ cmd \in CommandType /\ cmd.tries + 1 < Retries
      /\ cmd' = [cmd EXCEPT !.tries = @ + 1, !.quiet = StillQuiet]
  BY AtRuns DEF QueryAgain, CommandInv
<1>2. cmd.tries + 1 \in 0 .. Retries
  BY <1>1, OrchestratorAssumption DEF CommandType
<1>3. cmd' \in CommandType
  BY <1>1, <1>2, StillQuietTyped DEF CommandType
<1>4. /\ cmd'.todo = cmd.todo /\ cmd'.name = cmd.name
      /\ cmd'.fallback = cmd.fallback /\ cmd'.repairable = cmd.repairable /\ cmd'.quiet = StillQuiet
      /\ cmd'.package = cmd.package
  BY <1>1 DEF CommandType
<1>5. QED
  BY <1>1, <1>3, <1>4, StillQuietTyped DEF Waited, Carried, QueryAgain

LEMMA UseCacheMoves ==
  ASSUME CommandInv, WorldInv, UseCache
  PROVE  \/ Advanced /\ world.cached # 0 /\ cmd'.package = world.cached /\ world' = world
         \/ (FellBack \/ Failed(StillQuiet)) /\ world' = world
<1>1. At("resolve") /\ cmd # Idle
  BY AtRuns DEF UseCache
<1>2. CASE world.cached # 0
  <2>1. Resolved(world.cached, StillQuiet)
    BY <1>2 DEF UseCache
  <2>2. Advanced /\ cmd'.package = world.cached
    BY <1>1, <2>1, ResolvedMoves, StillQuietTyped DEF WorldInv
  <2>3. world' = world
    BY <2>1 DEF Resolved, WorldInv, Shaped, Fields
  <2>4. QED
    BY <1>2, <2>2, <2>3
<1>3. CASE world.cached = 0
  BY <1>1, <1>3, ErrorMoves, StillQuietTyped DEF UseCache
<1>4. QED
  BY <1>2, <1>3

LEMMA StepIgnoredMoves ==
  ASSUME CommandInv, StepIgnored
  PROVE  /\ Advanced /\ ~cmd'.quiet /\ cmd'.package = cmd.package
         /\ \E certs \in BrokenOff : world' = [world EXCEPT !.certs = certs]
         /\ \E s \in Warned : At(s)
<1>1. /\ cmd # Idle /\ cmd \in CommandType /\ Left > 1
      /\ cmd' = [cmd EXCEPT !.todo = Tail(@), !.quiet = FALSE]
  BY RunningOrIdle DEF StepIgnored, CommandInv, Left
<1>2. Tail(cmd.todo) \in Seq(StepNames)
  BY <1>1, RunningOrIdle DEF CommandType
<1>3. cmd' \in CommandType
  BY <1>1, <1>2 DEF CommandType
<1>4. /\ cmd'.todo = Tail(cmd.todo) /\ cmd'.name = cmd.name
      /\ cmd'.fallback = cmd.fallback /\ cmd'.repairable = cmd.repairable /\ cmd'.quiet = FALSE
      /\ cmd'.package = cmd.package
  BY <1>1 DEF CommandType
<1>5. \E s \in Warned : At(s)
  BY DEF StepIgnored, At
<1>6. QED
  BY <1>1, <1>3, <1>4, <1>5 DEF Advanced, Carried, StepIgnored

LEMMA StepFailsMoves ==
  ASSUME CommandInv, StepFails
  PROVE  (FellBack \/ Failed(FALSE)) /\ world' = world
<1>1. cmd # Idle /\ Error(FALSE) /\ world' = world
  BY RunningOrIdle DEF StepFails
<1>2. QED
  BY <1>1, ErrorMoves

LEMMA KilledMoves ==
  ASSUME Killed
  PROVE  Failed(FALSE)
  BY DEF Killed, End, Failed

LEMMA DockerMoves ==
  ASSUME CommandInv, DockerRestarts
  PROVE  /\ \/ cmd = Idle /\ cmd' = Idle
            \/ Waited /\ ~cmd'.quiet /\ cmd'.package = cmd.package
         /\ last'.name = "none" /\ last'.halfClean = last.halfClean
<1>1. last'.name = "none" /\ last'.halfClean = last.halfClean
  BY DEF DockerRestarts, Nothing
<1>2. CASE cmd = Idle
  BY <1>1, <1>2 DEF DockerRestarts
<1>3. CASE cmd # Idle
  <2>1. cmd \in CommandType /\ cmd' = [cmd EXCEPT !.quiet = FALSE]
    BY <1>3 DEF DockerRestarts, CommandInv
  <2>2. /\ cmd' \in CommandType /\ cmd'.todo = cmd.todo /\ cmd'.name = cmd.name
        /\ cmd'.fallback = cmd.fallback /\ cmd'.repairable = cmd.repairable /\ cmd'.quiet = FALSE
        /\ cmd'.package = cmd.package
    BY <2>1 DEF CommandType
  <2>3. QED
    BY <1>1, <1>3, <2>2 DEF Waited, Carried
<1>4. QED
  BY <1>2, <1>3


-----------------------------------------------------------------------------
(***************************************************************************)
(* What each step does to the world: the fields it changes, and how.       *)
(***************************************************************************)
OnlyChanges(fs) == Shaped(world') /\ \A f \in Fields \ fs : world'[f] = world[f]

WentOn == (Advanced /\ cmd'.package = cmd.package) \/ Completed

LEMMA ThenGoesOn ==
  ASSUME CommandInv, NEW s, At(s), NEW w, Then(w)
  PROVE  WentOn /\ world' = w
  BY AtRuns, ThenMoves DEF WentOn

WipeEffect ==
  /\ WentOn /\ OnlyChanges({"certs", "authority"}) /\ world'.certs = "none"
  /\ \/ At("wipeOrgs") /\ world'.authority = world.authority
     \/ (At("wipeCAs") \/ At("downCerts")) /\ world'.authority = 0

CleanupEffect ==
  /\ At("cleanup") /\ WentOn /\ OnlyChanges({"core", "cas", "image", "ccaas"})
  /\ world'.core = "absent" /\ world'.cas = "absent" /\ world'.image = FALSE
  /\ world'.ccaas = [o \in Peers |-> NoContainer]

VolumesEffect ==
  /\ WentOn
  /\ \/ /\ At("removeVolumes") /\ OnlyChanges({"volumes"})
        /\ world'.volumes = IF world.core = "absent" THEN NoVolumes ELSE world.volumes
     \/ /\ At("downVolumes") /\ OnlyChanges({"volumes", "core", "cas"})
        /\ world'.volumes = NoVolumes /\ world'.core = "absent" /\ world'.cas = "absent"

LocalDataEffect ==
  /\ WentOn
  /\ \/ At("removeRegistrar") /\ OnlyChanges({"registrar"}) /\ world'.registrar = 0
     \/ At("removeCache") /\ OnlyChanges({"cached"}) /\ world'.cached = 0

DatabaseEffect ==
  /\ WentOn
  /\ \/ /\ At("drop") /\ OnlyChanges({"tables", "seeded"})
        /\ world'.tables = FALSE /\ world'.seeded = 0
     \/ At("create") /\ OnlyChanges({"handle"}) /\ world'.handle = FALSE
     \/ /\ At("seed") /\ OnlyChanges({"tables", "seeded", "handle"})
        /\ world'.tables = Tables /\ world'.handle = TRUE
        /\ world'.seeded = IF Tables THEN world.authority ELSE world.seeded

\* main.go:154-216, artifacts.go, cleanup.go: the steps of a cleaning.
LEMMA CleanEffects ==
  ASSUME CommandInv, WorldInv, CleanStep
  PROVE  WipeEffect \/ CleanupEffect \/ VolumesEffect \/ LocalDataEffect
<1> USE DEF OnlyChanges, Shaped, Fields
<1>0. Shaped(world)
  BY DEF WorldInv
<1>1. CASE WipeNetworkArtifacts
  <2>1. CASE At("wipeOrgs") /\ Then([world EXCEPT !.certs = "none"])
    <3>1. WentOn /\ world' = [world EXCEPT !.certs = "none"]
      BY <2>1, ThenGoesOn
    <3>2. QED
      BY <1>0, <2>1, <3>1 DEF WipeEffect
  <2>2. CASE At("wipeCAs") /\ Then(NoCerts(world))
    <3>1. WentOn /\ world' = [world EXCEPT !.certs = "none", !.authority = 0]
      BY <2>2, ThenGoesOn DEF NoCerts
    <3>2. QED
      BY <1>0, <2>2, <3>1 DEF WipeEffect
  <2>3. QED
    BY <1>1, <2>1, <2>2 DEF WipeNetworkArtifacts
<1>2. CASE Cleanup
  <2>1. At("cleanup") /\ WentOn
    BY <1>2, ThenGoesOn DEF Cleanup
  <2>2. world' = [world EXCEPT !.core = "absent", !.cas = "absent", !.image = FALSE,
                               !.ccaas = [o \in Peers |-> NoContainer]]
    BY <1>2 DEF Cleanup, Then
  <2>3. QED
    BY <1>0, <2>1, <2>2 DEF CleanupEffect
<1>3. CASE CleanupVolumes
  <2>1. At("removeVolumes") /\ WentOn
    BY <1>3, ThenGoesOn DEF CleanupVolumes
  <2>2. world' = IF world.core = "absent" THEN [world EXCEPT !.volumes = NoVolumes] ELSE world
    BY <1>3 DEF CleanupVolumes, Then
  <2>3. QED
    BY <1>0, <2>1, <2>2 DEF VolumesEffect
<1>4. CASE RemoveLocalData
  <2>1. CASE At("removeRegistrar") /\ Then([world EXCEPT !.registrar = 0])
    <3>1. WentOn /\ world' = [world EXCEPT !.registrar = 0]
      BY <2>1, ThenGoesOn
    <3>2. QED
      BY <1>0, <2>1, <3>1 DEF LocalDataEffect
  <2>2. CASE At("removeCache") /\ Then([world EXCEPT !.cached = 0])
    <3>1. WentOn /\ world' = [world EXCEPT !.cached = 0]
      BY <2>2, ThenGoesOn
    <3>2. QED
      BY <1>0, <2>2, <3>1 DEF LocalDataEffect
  <2>3. QED
    BY <1>4, <2>1, <2>2 DEF RemoveLocalData
<1>5. CASE NetworkDown
  <2>1. CASE At("downVolumes") /\ Then([world EXCEPT !.volumes = NoVolumes, !.core = "absent", !.cas = "absent"])
    <3>1. WentOn /\ world' = [world EXCEPT !.volumes = NoVolumes, !.core = "absent", !.cas = "absent"]
      BY <2>1, ThenGoesOn
    <3>2. QED
      BY <1>0, <2>1, <3>1 DEF VolumesEffect
  <2>2. CASE At("downCerts") /\ Then(NoCerts(world))
    <3>1. WentOn /\ world' = [world EXCEPT !.certs = "none", !.authority = 0]
      BY <2>2, ThenGoesOn DEF NoCerts
    <3>2. QED
      BY <1>0, <2>2, <3>1 DEF WipeEffect
  <2>3. QED
    BY <1>5, <2>1, <2>2 DEF NetworkDown
<1>6. QED
  BY <1>1, <1>2, <1>3, <1>4, <1>5 DEF CleanStep

\* db.go:64-100, db.go:26-62, seed.go: those of the database.
LEMMA DatabaseEffects ==
  ASSUME CommandInv, WorldInv, DatabaseStep
  PROVE  DatabaseEffect
<1> USE DEF OnlyChanges, Shaped, Fields
<1>0. Shaped(world)
  BY DEF WorldInv
<1>1. CASE At("drop") /\ Then([world EXCEPT !.tables = FALSE, !.seeded = 0])
  <2>1. WentOn /\ world' = [world EXCEPT !.tables = FALSE, !.seeded = 0]
    BY <1>1, ThenGoesOn
  <2>2. QED
    BY <1>0, <1>1, <2>1 DEF DatabaseEffect
<1>2. CASE At("create") /\ Then([world EXCEPT !.handle = FALSE])
  <2>1. WentOn /\ world' = [world EXCEPT !.handle = FALSE]
    BY <1>2, ThenGoesOn
  <2>2. QED
    BY <1>0, <1>2, <2>1 DEF DatabaseEffect
<1>3. CASE Seed
  <2>1. At("seed") /\ WentOn
    BY <1>3, ThenGoesOn DEF Seed
  <2>2. world' = [world EXCEPT !.tables = Tables, !.handle = TRUE,
                               !.seeded = IF Tables THEN world.authority ELSE @]
    BY <1>3 DEF Seed, Then
  <2>3. QED
    BY <1>0, <2>1, <2>2 DEF DatabaseEffect
<1>4. QED
  BY <1>1, <1>2, <1>3 DEF DatabaseStep, ResetDatabase

WentWrong == world' = world /\ (FellBack \/ \E quiet \in BOOLEAN : Failed(quiet) /\ (quiet => cmd.quiet))

CryptoEffect ==
  /\ At("ensureCrypto") /\ WentOn /\ OnlyChanges({"certs", "authority"})
  /\ IF CryptoMaterialReady THEN world'.certs = world.certs /\ world'.authority = world.authority
     ELSE world'.certs = "none" /\ world'.authority = 0

SyncEffect ==
  /\ At("sync") /\ WentOn
  /\ IF world.certs = "none" /\ world.core = "running" /\ world.cas = "running"
     THEN /\ OnlyChanges({"certs", "authority", "volumes", "core", "cas"})
          /\ world'.certs = "none" /\ world'.authority = 0 /\ world'.volumes = NoVolumes
          /\ world'.core = "absent" /\ world'.cas = "absent"
     ELSE world' = world

CAsEffect ==
  /\ At("startCAs") /\ WentOn /\ OnlyChanges({"cas", "authority", "nCerts"})
  /\ IF world.certs # "none"
     THEN /\ world'.cas = world.cas /\ world'.authority = world.authority
          /\ world'.nCerts = world.nCerts
     ELSE /\ world'.cas = "running"
          /\ IF world.authority = 0
             THEN world'.authority = world.nCerts + 1 /\ world'.nCerts = world.nCerts + 1
             ELSE world'.authority = world.authority /\ world'.nCerts = world.nCerts

EnrollEffect ==
  /\ WentOn /\ OnlyChanges({"certs"})
  /\ \/ /\ At("enroll") /\ (world.certs = "none" => world.authority # 0)
        /\ world'.certs = IF world.certs = "none" THEN "partial" ELSE world.certs
     \/ /\ At("enrollRest")
        /\ world'.certs = IF world.certs = "partial" /\ world.cas = "running" THEN "complete"
                          ELSE world.certs

CoreEffect ==
  /\ At("startCore") /\ WentOn /\ OnlyChanges({"core"})
  /\ world'.core = IF world.certs = "complete" THEN "running" ELSE "stopped"

JoinEffect ==
  /\ At("join")
  /\ IF world.core = "running" /\ world.volumes.channel = 0
     THEN /\ WentOn /\ OnlyChanges({"volumes"})
          /\ world'.volumes = [world.volumes EXCEPT !.channel = world.authority]
     ELSE WentWrong

\* main.go:250-275, network.sh: the steps of a deployment of the network.
LEMMA NetworkEffects ==
  ASSUME CommandInv, WorldInv, NetworkStep
  PROVE  CryptoEffect \/ SyncEffect \/ CAsEffect \/ EnrollEffect \/ CoreEffect \/ JoinEffect
<1> USE DEF OnlyChanges, Shaped, Fields
<1>0. Shaped(world)
  BY DEF WorldInv
<1>1. CASE EnsureCryptoMaterial
  <2>1. At("ensureCrypto") /\ WentOn
    BY <1>1, ThenGoesOn DEF EnsureCryptoMaterial
  <2>2. world' = IF CryptoMaterialReady THEN world ELSE [world EXCEPT !.certs = "none", !.authority = 0]
    BY <1>1 DEF EnsureCryptoMaterial, Then, NoCerts
  <2>3. CASE CryptoMaterialReady
    BY <1>0, <2>1, <2>2, <2>3 DEF CryptoEffect
  <2>4. CASE ~CryptoMaterialReady
    BY <1>0, <2>1, <2>2, <2>4 DEF CryptoEffect
  <2>5. QED
    BY <2>3, <2>4
<1>2. CASE SyncCerts
  <2> DEFINE down == [world EXCEPT !.volumes = NoVolumes, !.core = "absent", !.cas = "absent",
                                   !.certs = "none", !.authority = 0]
  <2>1. At("sync") /\ WentOn
    BY <1>2, ThenGoesOn DEF SyncCerts
  <2>2. world' = IF world.certs = "none" /\ world.core = "running" /\ world.cas = "running"
                 THEN down ELSE world
    BY <1>2 DEF SyncCerts, Then, NoCerts
  <2>3. QED
    BY <1>0, <2>1, <2>2 DEF SyncEffect
<1>3. CASE CreateOrgs
  <2> DEFINE started == [world EXCEPT !.cas = "running",
                                !.authority = IF @ = 0 THEN world.nCerts + 1 ELSE @,
                                !.nCerts = IF world.authority = 0 THEN @ + 1 ELSE @]
  <2>1. CASE At("startCAs") /\ Then(IF world.certs # "none" THEN world ELSE started)
    <3>1. WentOn /\ world' = IF world.certs # "none" THEN world ELSE started
      BY <2>1, ThenGoesOn
    <3>2. QED
      BY <1>0, <2>1, <3>1 DEF CAsEffect
  <2>2. CASE At("enroll") /\ (world.certs = "none" => world.authority # 0)
             /\ Then([world EXCEPT !.certs = IF @ = "none" THEN "partial" ELSE @])
    <3>1. WentOn /\ world' = [world EXCEPT !.certs = IF @ = "none" THEN "partial" ELSE @]
      BY <2>2, ThenGoesOn
    <3>2. QED
      BY <1>0, <2>2, <3>1 DEF EnrollEffect
  <2>3. CASE At("enrollRest") /\ Then([world EXCEPT !.certs = IF @ = "partial" /\ world.cas = "running" THEN "complete" ELSE @])
    <3>1. WentOn /\ world' = [world EXCEPT !.certs = IF @ = "partial" /\ world.cas = "running" THEN "complete" ELSE @]
      BY <2>3, ThenGoesOn
    <3>2. QED
      BY <1>0, <2>3, <3>1 DEF EnrollEffect
  <2>4. QED
    BY <1>3, <2>1, <2>2, <2>3 DEF CreateOrgs
<1>4. CASE StartCore
  <2>1. At("startCore") /\ WentOn
    BY <1>4, ThenGoesOn DEF StartCore
  <2>2. world' = [world EXCEPT !.core = IF world.certs = "complete" THEN "running" ELSE "stopped"]
    BY <1>4 DEF StartCore, Then
  <2>3. QED
    BY <1>0, <2>1, <2>2 DEF CoreEffect
<1>5. CASE CreateChannel
  <2>1. At("join") /\ cmd # Idle
    BY <1>5, AtRuns DEF CreateChannel
  <2>2. CASE world.core = "running" /\ world.volumes.channel = 0
    <3>1. Then([world EXCEPT !.volumes.channel = world.authority])
      BY <1>5, <2>2 DEF CreateChannel
    <3>2. WentOn /\ world' = [world EXCEPT !.volumes.channel = world.authority]
      BY <2>1, <3>1, ThenGoesOn
    <3>3. QED
      BY <1>0, <2>1, <2>2, <3>2 DEF JoinEffect
  <2>3. CASE ~(world.core = "running" /\ world.volumes.channel = 0)
    <3>1. Fails
      BY <1>5, <2>3 DEF CreateChannel
    <3>2. WentWrong
      BY <2>1, <3>1, FailsMoves, StillQuietTyped DEF WentWrong
    <3>3. QED
      BY <2>1, <2>3, <3>2 DEF JoinEffect
  <2>4. QED
    BY <2>2, <2>3
<1>6. QED
  BY <1>1, <1>2, <1>3, <1>4, <1>5 DEF NetworkStep

PauseEffect ==
  /\ WentOn
  /\ \/ /\ At("stopCCAAS") /\ OnlyChanges({"ccaas"})
        /\ world'.ccaas = [o \in Peers |-> Stopped(world.ccaas[o])]
     \/ /\ At("stopContainers") /\ OnlyChanges({"core", "cas"})
        /\ world'.core = Halt(world.core) /\ world'.cas = Halt(world.cas)

ResumeEffect ==
  \/ /\ At("startContainers") /\ WentOn /\ OnlyChanges({"core", "cas"})
     /\ world'.core \in Containers /\ world'.cas \in Containers
     /\ world.cas = "absent" => world'.cas = "absent"
     /\ world'.core = "running" => world.core = "running" \/ world.certs = "complete"
  \/ /\ At("verify")
     /\ WentWrong \/ (WentOn /\ world' = world)

\* main.go:84-127, ccaas.go: those of a pause and of a resumption.
LEMMA ContainerEffects ==
  ASSUME CommandInv, WorldInv, ContainerStep
  PROVE  PauseEffect \/ ResumeEffect
<1> USE DEF OnlyChanges, Shaped, Fields
<1>0. Shaped(world) /\ world.core \in Containers /\ world.cas \in Containers
  BY DEF WorldInv
<1>1. CASE StopCCAASContainers
  <2>1. At("stopCCAAS") /\ WentOn
    BY <1>1, ThenGoesOn DEF StopCCAASContainers
  <2>2. world' = [world EXCEPT !.ccaas = [o \in Peers |-> Stopped(@[o])]]
    BY <1>1 DEF StopCCAASContainers, Then
  <2>3. QED
    BY <1>0, <2>1, <2>2 DEF PauseEffect
<1>2. CASE StopContainers
  <2>1. At("stopContainers") /\ WentOn
    BY <1>2, ThenGoesOn DEF StopContainers
  <2>2. world' = [world EXCEPT !.core = Halt(@), !.cas = Halt(@)]
    BY <1>2 DEF StopContainers, Then
  <2>3. QED
    BY <1>0, <2>1, <2>2 DEF PauseEffect
<1>3. CASE StartContainers
  <2> DEFINE start(c) == IF c = "stopped" THEN "running" ELSE c
  <2>1. At("startContainers") /\ WentOn
    BY <1>3, ThenGoesOn DEF StartContainers
  <2>2. world' = [world EXCEPT !.core = IF world.certs = "complete" THEN start(@) ELSE @,
                               !.cas = start(@)]
    BY <1>3 DEF StartContainers, Then
  <2>3. QED
    BY <1>0, <2>1, <2>2 DEF ResumeEffect, Containers
<1>4. CASE VerifyCoreContainersRunning
  <2>1. At("verify") /\ cmd # Idle
    BY <1>4, AtRuns DEF VerifyCoreContainersRunning
  <2>2. Then(world) \/ Fails
    BY <1>4 DEF VerifyCoreContainersRunning
  <2>3. CASE Then(world)
    BY <2>1, <2>3, ThenGoesOn DEF ResumeEffect
  <2>4. CASE Fails
    BY <2>1, <2>4, FailsMoves, StillQuietTyped DEF ResumeEffect, WentWrong
  <2>5. QED
    BY <2>2, <2>3, <2>4
<1>5. QED
  BY <1>1, <1>2, <1>3, <1>4 DEF ContainerStep

BuildEffect ==
  At("build") /\ WentOn /\ OnlyChanges({"image"}) /\ world'.image = TRUE

InstallEffect ==
  /\ At("install")
  /\ IF world.core # "running" THEN WentWrong
     ELSE /\ Advanced /\ OnlyChanges({"nPackages", "volumes"})
          /\ world.nPackages + 1 <= MaxPackages
          /\ world'.nPackages = world.nPackages + 1 /\ cmd'.package = world.nPackages + 1
          /\ \E i \in 1 .. Len(Installed) + 1 :
               world'.volumes = [world.volumes EXCEPT !.installed = InsertAt(@, i, world.nPackages + 1)]

Approves(o) ==
  /\ WentOn /\ OnlyChanges({"volumes"}) /\ ChannelAnswers
  /\ world'.volumes = [world.volumes EXCEPT !.approved = @ \cup {o}]

ApproveEffect ==
  \/ /\ At("approve1")
     /\ IF ChannelAnswers /\ 2 \notin world.volumes.approved THEN Approves(1) ELSE WentWrong
  \/ /\ At("approve2")
     /\ IF ChannelAnswers THEN Approves(2) ELSE WentWrong

CommitEffect ==
  /\ At("commit")
  /\ IF ChannelAnswers
     THEN /\ WentOn /\ OnlyChanges({"volumes"})
          /\ world'.volumes = [world.volumes EXCEPT !.committed = cmd.package, !.approved = {}]
     ELSE WentWrong

RunEffect ==
  /\ At("runCCAAS") /\ OnlyChanges({"ccaas"})
  /\ world'.ccaas = [o \in Peers |-> IF world.ccaas[o] = NoContainer
                                     THEN [id |-> cmd.package, up |-> TRUE, rm |-> TRUE]
                                     ELSE world.ccaas[o]]
  /\ IF world.ccaas[2] = NoContainer THEN WentOn ELSE Failed(cmd.quiet)

\* network.sh deployCCAAS: the steps of a deployment of the chaincode.
LEMMA ChaincodeEffects ==
  ASSUME CommandInv, WorldInv, ChaincodeStep
  PROVE  BuildEffect \/ InstallEffect \/ ApproveEffect \/ CommitEffect \/ RunEffect
<1> USE DEF OnlyChanges, Shaped, Fields
<1>0. Shaped(world)
  BY DEF WorldInv
<1>a. ASSUME Fails, cmd # Idle
      PROVE  WentWrong
  BY <1>a, FailsMoves, StillQuietTyped DEF WentWrong
<1>1. CASE Build
  <2>1. At("build") /\ WentOn /\ world' = [world EXCEPT !.image = TRUE]
    BY <1>1, ThenGoesOn DEF Build
  <2>2. QED
    BY <1>0, <2>1 DEF BuildEffect
<1>2. CASE Install
  <2>1. At("install") /\ cmd # Idle
    BY <1>2, AtRuns DEF Install
  <2>2. CASE world.core # "running"
    BY <1>2, <1>a, <2>1, <2>2 DEF Install, InstallEffect
  <2>3. CASE world.core = "running"
    <3>1. /\ world.nPackages + 1 <= MaxPackages
          /\ cmd' = [cmd EXCEPT !.todo = Tail(@), !.package = world.nPackages + 1]
      BY <1>2, <2>3 DEF Install
    <3>2. PICK i \in 1 .. Len(Installed) + 1 :
            world' = [world EXCEPT !.nPackages = world.nPackages + 1,
                                   !.volumes.installed = InsertAt(@, i, world.nPackages + 1)]
      BY <1>2, <2>3 DEF Install, Installed
    <3>3. world'.nPackages = world.nPackages + 1 /\ OnlyChanges({"nPackages", "volumes"})
      BY <1>0, <3>2
    <3>4. world'.volumes = [world.volumes EXCEPT !.installed = InsertAt(@, i, world.nPackages + 1)]
      BY <1>0, <3>2
    <3>5. world.nPackages \in Nat
      BY OrchestratorAssumption DEF WorldInv
    <3>6. Advanced
      <4>1. world' # world
        BY <3>3, <3>5
      <4>2. QED
        BY <1>2, <4>1, InstallMoves
    <3>7. cmd'.package = world.nPackages + 1
      BY <3>1 DEF CommandInv, CommandType
    <3>8. QED
      BY <2>1, <2>3, <3>1, <3>3, <3>4, <3>6, <3>7 DEF InstallEffect
  <2>4. QED
    BY <2>2, <2>3
<1>3. CASE Approve
  <2>1. ASSUME NEW o \in Peers, NEW s, At(s), ChannelAnswers,
               Then([world EXCEPT !.volumes.approved = @ \cup {o}])
        PROVE  Approves(o)
    <3>1. WentOn /\ world' = [world EXCEPT !.volumes.approved = @ \cup {o}]
      BY <2>1, ThenGoesOn
    <3>2. QED
      BY <1>0, <2>1, <3>1 DEF Approves
  <2>2. CASE At("approve1")
    <3>1. cmd # Idle /\ ~At("approve2")
      BY <2>2, AtRuns DEF At
    <3>2. IF ChannelAnswers /\ 2 \notin world.volumes.approved
          THEN Then([world EXCEPT !.volumes.approved = @ \cup {1}]) ELSE Fails
      BY <1>3, <3>1 DEF Approve
    <3>3. 1 \in Peers
      BY DEF Peers
    <3>4. IF ChannelAnswers /\ 2 \notin world.volumes.approved THEN Approves(1) ELSE WentWrong
      BY <1>a, <2>1, <2>2, <3>1, <3>2, <3>3
    <3>5. QED
      BY <2>2, <3>4 DEF ApproveEffect
  <2>3. CASE At("approve2")
    <3>1. cmd # Idle /\ ~At("approve1")
      BY <2>3, AtRuns DEF At
    <3>2. IF ChannelAnswers THEN Then([world EXCEPT !.volumes.approved = @ \cup {2}]) ELSE Fails
      BY <1>3, <3>1 DEF Approve
    <3>3. 2 \in Peers
      BY DEF Peers
    <3>4. IF ChannelAnswers THEN Approves(2) ELSE WentWrong
      BY <1>a, <2>1, <2>3, <3>1, <3>2, <3>3
    <3>5. QED
      BY <2>3, <3>4 DEF ApproveEffect
  <2>4. QED
    BY <1>3, <2>2, <2>3 DEF Approve
<1>4. CASE Commit
  <2>1. At("commit") /\ cmd # Idle
    BY <1>4, AtRuns DEF Commit
  <2>2. CASE ChannelAnswers
    <3>1. WentOn /\ world' = [world EXCEPT !.volumes.committed = cmd.package, !.volumes.approved = {}]
      BY <1>4, <2>1, <2>2, ThenGoesOn DEF Commit
    <3>2. OnlyChanges({"volumes"})
      BY <1>0, <3>1
    <3>3. world'.volumes = [world.volumes EXCEPT !.committed = cmd.package, !.approved = {}]
      BY <1>0, <3>1
    <3>4. QED
      BY <2>1, <2>2, <3>1, <3>2, <3>3 DEF CommitEffect
  <2>3. CASE ~ChannelAnswers
    BY <1>4, <1>a, <2>1, <2>3 DEF Commit, CommitEffect
  <2>4. QED
    BY <2>2, <2>3
<1>5. CASE StartDockerContainer
  <2>1. At("runCCAAS") /\ cmd # Idle
    BY <1>5, AtRuns DEF StartDockerContainer
  <2>2. world' = [world EXCEPT !.ccaas =
       [o \in Peers |-> IF @[o] = NoContainer
                        THEN [id |-> cmd.package, up |-> TRUE, rm |-> TRUE] ELSE @[o]]]
    BY <1>5 DEF StartDockerContainer
  <2>3. /\ OnlyChanges({"ccaas"})
        /\ world'.ccaas = [o \in Peers |-> IF world.ccaas[o] = NoContainer
                                     THEN [id |-> cmd.package, up |-> TRUE, rm |-> TRUE]
                                     ELSE world.ccaas[o]]
    BY <1>0, <2>2
  <2>4. CASE world.ccaas[2] = NoContainer
    <3>1. WentOn
      BY <1>5, <2>1, <2>4, ProceedMoves DEF StartDockerContainer, WentOn
    <3>2. QED
      BY <2>1, <2>3, <2>4, <3>1 DEF RunEffect
  <2>5. CASE world.ccaas[2] # NoContainer
    <3>1. Error(cmd.quiet)
      BY <1>5, <2>5 DEF StartDockerContainer
    <3>2. FellBack \/ Failed(cmd.quiet)
      BY <2>1, <3>1, ErrorMoves, StillQuietTyped
    <3>3. ~cmd.fallback
      BY <2>1, Places DEF ChaincodeSteps
    <3>4. QED
      BY <2>1, <2>3, <2>5, <3>2, <3>3 DEF RunEffect, FellBack
  <2>6. QED
    BY <2>4, <2>5
<1>6. QED
  BY <1>1, <1>2, <1>3, <1>4, <1>5 DEF ChaincodeStep

ImageEffect ==
  At("image") /\ IF world.image THEN WentOn /\ world' = world ELSE WentWrong

\* An answer of the peer, the file's, or none.
ResolveEffect ==
  /\ At("resolve")
  /\ \/ /\ Advanced /\ OnlyChanges({"cached"})
        /\ Installed # << >> /\ Head(Installed) \in 1 .. MaxPackages
        /\ world'.cached = Head(Installed) /\ cmd'.package = Head(Installed)
     \/ Advanced /\ world' = world /\ world.cached # 0 /\ cmd'.package = world.cached
     \/ Waited /\ world' = world /\ last' = last /\ cmd'.package = cmd.package
     \/ /\ world' = world
        /\ FellBack \/ Failed(StillQuiet)

StartEffect ==
  /\ At("startCCAAS") /\ WentOn /\ OnlyChanges({"ccaas"})
  /\ world'.ccaas = [o \in Peers |-> IF world.ccaas[o].up THEN world.ccaas[o]
                                     ELSE [id |-> cmd.package, up |-> TRUE, rm |-> FALSE]]

\* ccaas.go:62-200: those of EnsureCCAASContainers.
LEMMA EnsureEffects ==
  ASSUME CommandInv, WorldInv, EnsureStep
  PROVE  ImageEffect \/ ResolveEffect \/ StartEffect
<1> USE DEF OnlyChanges, Shaped, Fields
<1>0. Shaped(world)
  BY DEF WorldInv
<1>1. CASE DockerImageExists
  <2>1. At("image") /\ cmd # Idle
    BY <1>1, AtRuns DEF DockerImageExists
  <2>2. CASE world.image
    BY <1>1, <2>1, <2>2, ThenGoesOn DEF DockerImageExists, ImageEffect
  <2>3. CASE ~world.image
    BY <1>1, <2>1, <2>3, FailsMoves, StillQuietTyped DEF DockerImageExists, ImageEffect, WentWrong
  <2>4. QED
    BY <2>2, <2>3
<1>2. CASE QueryInstalled
  <2>1. At("resolve")
    BY <1>2 DEF QueryInstalled
  <2>2. QED
    BY <1>0, <1>2, <2>1, QueryMoves DEF ResolveEffect
<1>3. CASE QueryAgain
  <2>1. At("resolve")
    BY <1>3 DEF QueryAgain
  <2>2. QED
    BY <1>3, <2>1, QueryAgainMoves DEF ResolveEffect
<1>4. CASE UseCache
  <2>1. At("resolve")
    BY <1>4 DEF UseCache
  <2>2. QED
    BY <1>4, <2>1, UseCacheMoves DEF ResolveEffect
<1>5. CASE StartCCAAS
  <2>1. At("startCCAAS") /\ WentOn
    BY <1>5, ThenGoesOn DEF StartCCAAS
  <2>2. world' = [world EXCEPT !.ccaas =
       [o \in Peers |-> IF @[o].up THEN @[o]
                        ELSE [id |-> cmd.package, up |-> TRUE, rm |-> FALSE]]]
    BY <1>5 DEF StartCCAAS, Then
  <2>3. QED
    BY <1>0, <2>1, <2>2 DEF StartEffect
<1>6. QED
  BY <1>1, <1>2, <1>3, <1>4, <1>5 DEF EnsureStep

\* createOrgs may have been broken off in its last step.
BrokenCerts(fs) == OnlyChanges(fs \cup {"certs"}) /\ world'.certs \in BrokenOff

DockerEffect ==
  /\ BrokenCerts({"core", "cas", "ccaas"})
  /\ world'.core = Halt(world.core) /\ world'.cas = Halt(world.cas)
  /\ world'.ccaas = [o \in Peers |-> Stopped(world.ccaas[o])]
  /\ (cmd = Idle /\ cmd' = Idle) \/ (Waited /\ ~cmd'.quiet /\ cmd'.package = cmd.package)
  /\ last'.name = "none" /\ last'.halfClean = last.halfClean

FaultEffect ==
  \/ /\ Advanced /\ ~cmd'.quiet /\ BrokenCerts({}) /\ cmd'.package = cmd.package
     /\ \E s \in Warned : At(s)
  \/ world' = world /\ (FellBack \/ Failed(FALSE))
  \/ Failed(FALSE) /\ BrokenCerts({"handle"}) /\ world'.handle = FALSE
  \/ DockerEffect

\* Errors passed over, errors returned, the end of the console, a restart of
\* Docker.
LEMMA FaultEffects ==
  ASSUME CommandInv, WorldInv, StepIgnored \/ StepFails \/ Killed \/ DockerRestarts
  PROVE  FaultEffect
<1> USE DEF BrokenCerts, OnlyChanges, Shaped, Fields
<1>0. Shaped(world)
  BY DEF WorldInv
<1>1. CASE StepIgnored
  <2>1. PICK certs \in BrokenOff : world' = [world EXCEPT !.certs = certs]
    BY <1>1, StepIgnoredMoves
  <2>2. QED
    BY <1>0, <1>1, <2>1, StepIgnoredMoves DEF FaultEffect
<1>2. CASE StepFails
  BY <1>2, StepFailsMoves DEF FaultEffect, WentWrong
<1>3. CASE Killed
  <2>1. PICK certs \in BrokenOff : world' = [world EXCEPT !.handle = FALSE, !.certs = certs]
    BY <1>3 DEF Killed
  <2>2. QED
    BY <1>0, <1>3, <2>1, KilledMoves DEF FaultEffect
<1>4. CASE DockerRestarts
  <2>1. PICK certs \in BrokenOff :
          world' = [world EXCEPT !.certs = certs, !.core = Halt(@), !.cas = Halt(@),
                                 !.ccaas = [o \in Peers |-> Stopped(@[o])]]
    BY <1>4 DEF DockerRestarts
  <2>2. QED
    BY <1>0, <1>4, <2>1, DockerMoves DEF FaultEffect, DockerEffect
<1>5. QED
  BY <1>1, <1>2, <1>3, <1>4

-----------------------------------------------------------------------------
(***************************************************************************)
(* Types.                                                                  *)
(***************************************************************************)

\* A deployment that has yet to start the authorities has a number left for
\* them: the choice of a command keeps the bound.
RoomForAuthority == cmd.name = "deploy" /\ Left >= 15 => world.nCerts < MaxCerts

LEMMA SameWorldTyped ==
  ASSUME WorldInv, world' = world
  PROVE  WorldInv'
  BY DEF WorldInv, Shaped, Installed

LEMMA Zeroes ==
  /\ NoVolumes \in VolumesType /\ NoVolumes.installed = << >> /\ Len(NoVolumes.installed) = 0
  /\ NoContainer \in Container /\ 0 \in 0 .. MaxCerts /\ 0 \in 0 .. MaxPackages
  BY OrchestratorAssumption DEF NoVolumes, NoContainer, Container, VolumesType

LEMMA CleanKeepsWorld ==
  ASSUME WorldInv, WipeEffect \/ CleanupEffect \/ VolumesEffect \/ LocalDataEffect \/ DatabaseEffect
  PROVE  WorldInv'
<1> USE DEF WorldInv, OnlyChanges, Fields, Installed
<1>1. CASE WipeEffect
  BY <1>1, Zeroes DEF WipeEffect
<1>2. CASE CleanupEffect
  <2>1. [o \in Peers |-> NoContainer] \in [Peers -> Container]
    BY Zeroes
  <2>2. QED
    BY <1>2, <2>1 DEF CleanupEffect, Containers
<1>3. CASE VolumesEffect
  <2>1. /\ Shaped(world') /\ world'.core \in Containers /\ world'.cas \in Containers
        /\ \A f \in Fields \ {"core", "cas", "volumes"} : world'[f] = world[f]
    BY <1>3 DEF VolumesEffect, Containers
  <2>2. world'.volumes = NoVolumes \/ world'.volumes = world.volumes
    BY <1>3 DEF VolumesEffect
  <2>3. world.nPackages \in Nat
    BY OrchestratorAssumption
  <2>4. QED
    BY <2>1, <2>2, <2>3, Zeroes
<1>4. CASE LocalDataEffect
  BY <1>4, Zeroes DEF LocalDataEffect
<1>5. CASE DatabaseEffect
  BY <1>5, Zeroes DEF DatabaseEffect, Tables
<1>6. QED
  BY <1>1, <1>2, <1>3, <1>4, <1>5

LEMMA NetworkKeepsWorld ==
  ASSUME CommandInv, WorldInv, RoomForAuthority,
         CryptoEffect \/ SyncEffect \/ CAsEffect \/ EnrollEffect \/ CoreEffect \/ JoinEffect
  PROVE  WorldInv'
<1> USE DEF WorldInv, OnlyChanges, Fields, Installed
<1>1. CASE CryptoEffect
  BY <1>1, Zeroes DEF CryptoEffect
<1>0. CASE SyncEffect
  <2>1. CASE world' = world
    BY <2>1, SameWorldTyped
  <2>2. CASE ~(world' = world)
    <3>1. /\ OnlyChanges({"certs", "authority", "volumes", "core", "cas"})
          /\ world'.certs = "none" /\ world'.authority = 0 /\ world'.volumes = NoVolumes
          /\ world'.core = "absent" /\ world'.cas = "absent"
      BY <1>0, <2>2 DEF SyncEffect
    <3>2. world.nPackages \in Nat
      BY OrchestratorAssumption
    <3>3. QED
      BY <3>1, <3>2, Zeroes DEF Containers
  <2>3. QED
    BY <2>1, <2>2
<1>2. CASE CAsEffect
  <2>1. world.nCerts < MaxCerts
    <3>1. cmd.name = "deploy"
      BY <1>2, Places DEF CAsEffect, DeploySteps, ChaincodeSteps
    <3>2. Left = 15
      BY <1>2, <3>1, DeployAt DEF CAsEffect
    <3>3. QED
      BY <3>1, <3>2 DEF RoomForAuthority
  <2>2. world.nCerts + 1 \in 0 .. MaxCerts
    BY <2>1, OrchestratorAssumption
  <2>3. world'.authority \in 0 .. MaxCerts /\ world'.nCerts \in 0 .. MaxCerts /\ world'.cas \in Containers
    BY <1>2, <2>2 DEF CAsEffect, Containers
  <2>4. Shaped(world') /\ \A f \in Fields \ {"cas", "authority", "nCerts"} : world'[f] = world[f]
    BY <1>2 DEF CAsEffect
  <2>5. QED
    BY <2>3, <2>4
<1>3. CASE EnrollEffect
  BY <1>3 DEF EnrollEffect
<1>4. CASE CoreEffect
  BY <1>4 DEF CoreEffect, Containers
<1>5. CASE JoinEffect
  <2>1. CASE world' = world
    BY <2>1, SameWorldTyped
  <2>2. CASE ~(world' = world)
    <3>1. /\ OnlyChanges({"volumes"})
          /\ world'.volumes = [world.volumes EXCEPT !.channel = world.authority]
      BY <1>5, <2>2 DEF JoinEffect, WentWrong
    <3>2. world'.volumes \in VolumesType /\ world'.volumes.installed = world.volumes.installed
      BY <3>1 DEF VolumesType
    <3>3. QED
      BY <3>1, <3>2
  <2>3. QED
    BY <2>1, <2>2
<1>6. QED
  BY <1>0, <1>1, <1>2, <1>3, <1>4, <1>5

LEMMA StoppedTyped ==
  ASSUME NEW c \in Container
  PROVE  Stopped(c) \in Container
  BY Zeroes DEF Stopped, Container

LEMMA ContainersKeepWorld ==
  ASSUME WorldInv, PauseEffect \/ ResumeEffect
  PROVE  WorldInv'
<1> USE DEF WorldInv, OnlyChanges, Fields, Installed
<1>1. CASE PauseEffect
  <2>1. CASE At("stopCCAAS") /\ OnlyChanges({"ccaas"})
             /\ world'.ccaas = [o \in Peers |-> Stopped(world.ccaas[o])]
    <3>1. [o \in Peers |-> Stopped(world.ccaas[o])] \in [Peers -> Container]
      BY StoppedTyped
    <3>2. QED
      BY <2>1, <3>1
  <2>2. CASE At("stopContainers") /\ OnlyChanges({"core", "cas"})
             /\ world'.core = Halt(world.core) /\ world'.cas = Halt(world.cas)
    BY <2>2 DEF Halt, Containers
  <2>3. QED
    BY <1>1, <2>1, <2>2 DEF PauseEffect
<1>2. CASE ResumeEffect
  <2>1. CASE world' = world
    BY <2>1, SameWorldTyped
  <2>2. CASE ~(world' = world)
    BY <1>2, <2>2 DEF ResumeEffect, WentWrong
  <2>3. QED
    BY <2>1, <2>2
<1>3. QED
  BY <1>1, <1>2

LEMMA ChaincodeKeepsWorld ==
  ASSUME CommandInv, WorldInv,
         BuildEffect \/ InstallEffect \/ ApproveEffect \/ CommitEffect \/ RunEffect
  PROVE  WorldInv'
<1> USE DEF WorldInv, OnlyChanges, Fields, Installed
<1>0. cmd.package \in 0 .. MaxPackages
  BY DEF CommandInv, CommandType
<1>1. CASE BuildEffect
  BY <1>1 DEF BuildEffect
<1>2. CASE InstallEffect /\ ~(world' = world)
  <2>1. /\ OnlyChanges({"nPackages", "volumes"})
        /\ world.nPackages + 1 <= MaxPackages
        /\ world'.nPackages = world.nPackages + 1
    BY <1>2 DEF InstallEffect, WentWrong
  <2>2. PICK i \in 1 .. Len(Installed) + 1 :
          world'.volumes = [world.volumes EXCEPT !.installed = InsertAt(@, i, world.nPackages + 1)]
    BY <1>2 DEF InstallEffect, WentWrong
  <2>3. world.nPackages \in Nat /\ world.nPackages + 1 \in 1 .. MaxPackages
    BY <2>1, OrchestratorAssumption
  <2>4. Installed \in Seq(1 .. MaxPackages)
    BY DEF VolumesType
  <2>5. /\ InsertAt(Installed, i, world.nPackages + 1) \in Seq(1 .. MaxPackages)
        /\ Len(InsertAt(Installed, i, world.nPackages + 1)) = Len(Installed) + 1
    <3> HIDE DEF Installed, WorldInv
    <3>1. QED
      BY <2>3, <2>4, Inserted
  <2>6. /\ world'.volumes \in VolumesType
        /\ world'.volumes.installed = InsertAt(Installed, i, world.nPackages + 1)
    BY <2>2, <2>5 DEF VolumesType
  <2>7. Len(Installed) \in Nat /\ Len(Installed) <= world.nPackages
    BY <2>4
  <2>8. Len(Installed)' <= world'.nPackages
    BY <2>1, <2>3, <2>5, <2>6, <2>7
  <2>9. world'.nPackages \in 0 .. MaxPackages
    BY <2>1, <2>3, OrchestratorAssumption
  <2>10. Shaped(world') /\ \A f \in Fields \ {"nPackages", "volumes"} : world'[f] = world[f]
    BY <2>1
  <2> HIDE DEF WorldInv
  <2>11. QED
    BY <2>6, <2>8, <2>9, <2>10 DEF WorldInv
<1>3. CASE ApproveEffect /\ ~(world' = world)
  <2>1. PICK o \in Peers : OnlyChanges({"volumes"})
             /\ world'.volumes = [world.volumes EXCEPT !.approved = @ \cup {o}]
    BY <1>3 DEF ApproveEffect, Approves, WentWrong, Peers
  <2>2. world'.volumes \in VolumesType /\ world'.volumes.installed = world.volumes.installed
    BY <2>1, SMTT(30) DEF VolumesType
  <2>3. QED
    BY <2>1, <2>2
<1>4. CASE CommitEffect /\ ~(world' = world)
  <2>1. /\ OnlyChanges({"volumes"})
        /\ world'.volumes = [world.volumes EXCEPT !.committed = cmd.package, !.approved = {}]
    BY <1>4 DEF CommitEffect, WentWrong
  <2>2. world'.volumes \in VolumesType /\ world'.volumes.installed = world.volumes.installed
    BY <1>0, <2>1 DEF VolumesType
  <2>3. QED
    BY <2>1, <2>2
<1>5. CASE RunEffect
  <2>1. [id |-> cmd.package, up |-> TRUE, rm |-> TRUE] \in Container
    BY <1>0 DEF Container
  <2>2. world'.ccaas \in [Peers -> Container]
    BY <1>5, <2>1 DEF RunEffect
  <2>3. QED
    BY <1>5, <2>2 DEF RunEffect
<1>6. CASE world' = world
  BY <1>6, SameWorldTyped
<1>7. QED
  BY <1>1, <1>2, <1>3, <1>4, <1>5, <1>6

LEMMA EnsureKeepsWorld ==
  ASSUME CommandInv, WorldInv, ImageEffect \/ ResolveEffect \/ StartEffect
  PROVE  WorldInv'
<1> USE DEF WorldInv, OnlyChanges, Fields, Installed
<1>0. cmd.package \in 0 .. MaxPackages /\ \A n \in 1 .. MaxPackages : n \in 0 .. MaxPackages
  BY OrchestratorAssumption DEF CommandInv, CommandType
<1>1. CASE world' = world
  BY <1>1, SameWorldTyped
<1>2. CASE ResolveEffect /\ ~(world' = world)
  <2>1. OnlyChanges({"cached"}) /\ world'.cached \in 0 .. MaxPackages
    BY <1>0, <1>2 DEF ResolveEffect
  <2>2. QED
    BY <2>1
<1>3. CASE StartEffect
  <2>1. [id |-> cmd.package, up |-> TRUE, rm |-> FALSE] \in Container
    BY <1>0 DEF Container
  <2>2. world'.ccaas \in [Peers -> Container]
    BY <1>3, <2>1 DEF StartEffect
  <2>3. QED
    BY <1>3, <2>2 DEF StartEffect
<1>4. QED
  BY <1>1, <1>2, <1>3 DEF ImageEffect, WentWrong

LEMMA FaultsKeepWorld ==
  ASSUME WorldInv, FaultEffect
  PROVE  WorldInv'
<1> USE DEF WorldInv, OnlyChanges, Fields, Installed
<1> USE DEF BrokenCerts, BrokenOff
<1>1. CASE world' = world \/ BrokenCerts({})
  BY <1>1, SameWorldTyped
<1>2. CASE BrokenCerts({"handle"}) /\ world'.handle = FALSE
  BY <1>2
<1>3. CASE DockerEffect
  <2>1. [o \in Peers |-> Stopped(world.ccaas[o])] \in [Peers -> Container]
    BY StoppedTyped
  <2>2. QED
    BY <1>3, <2>1 DEF DockerEffect, Halt, Containers
<1>4. QED
  BY <1>1, <1>2, <1>3 DEF FaultEffect, WentWrong

-----------------------------------------------------------------------------
(***************************************************************************)
(* The whole of the next-state relation, by its effects.                   *)
(***************************************************************************)
ChooseEffect ==
  /\ Started /\ world' = world
  /\ cmd'.name = "deploy" => world.nCerts < MaxCerts

CleanEffect == WipeEffect \/ CleanupEffect \/ VolumesEffect \/ LocalDataEffect \/ DatabaseEffect
NetworkEffect == CryptoEffect \/ SyncEffect \/ CAsEffect \/ EnrollEffect \/ CoreEffect \/ JoinEffect
ContainerEffect == PauseEffect \/ ResumeEffect
ChaincodeEffect == BuildEffect \/ InstallEffect \/ ApproveEffect \/ CommitEffect \/ RunEffect
EnsureEffect == ImageEffect \/ ResolveEffect \/ StartEffect

Effect ==
  ChooseEffect \/ CleanEffect \/ NetworkEffect \/ ContainerEffect \/ ChaincodeEffect
  \/ EnsureEffect \/ FaultEffect

LEMMA ChooseEffects ==
  ASSUME NEW name \in Menu, Choose(name)
  PROVE  ChooseEffect
<1>1. /\ cmd = Idle /\ world' = world /\ last' = last
      /\ cmd' = [Idle EXCEPT !.name = name, !.todo = Steps(name), !.fallback = name = "resume",
                             !.repairable = Repairable]
      /\ name = "deploy" => world.nCerts < MaxCerts
  BY DEF Choose
<1>2. cmd'.name = name
  BY <1>1 DEF Idle
<1>3. QED
  BY <1>1, <1>2 DEF ChooseEffect, Started

LEMMA Effects ==
  ASSUME CommandInv, WorldInv, Next
  PROVE  Effect
<1>1. CASE \E name \in Menu : Choose(name)
  BY <1>1, ChooseEffects DEF Effect
<1>2. CASE CleanStep
  BY <1>2, CleanEffects DEF Effect, CleanEffect
<1>3. CASE DatabaseStep
  BY <1>3, DatabaseEffects DEF Effect, CleanEffect
<1>4. CASE NetworkStep
  BY <1>4, NetworkEffects DEF Effect, NetworkEffect
<1>5. CASE ContainerStep
  BY <1>5, ContainerEffects DEF Effect, ContainerEffect
<1>6. CASE ChaincodeStep
  BY <1>6, ChaincodeEffects DEF Effect, ChaincodeEffect
<1>7. CASE EnsureStep
  BY <1>7, EnsureEffects DEF Effect, EnsureEffect
<1>8. CASE StepIgnored \/ StepFails \/ Killed \/ DockerRestarts
  BY <1>8, FaultEffects DEF Effect
<1>9. QED
  BY <1>1, <1>2, <1>3, <1>4, <1>5, <1>6, <1>7, <1>8 DEF Next, Step

\* A failure that counts as quiet is one of a quiet command.
FailedSomehow == \E quiet \in BOOLEAN : Failed(quiet) /\ (quiet => cmd.quiet)

Move ==
  \/ Started
  \/ Advanced
  \/ Waited /\ (last' = last \/ (last'.name = "none" /\ last'.halfClean = last.halfClean))
  \/ FellBack
  \/ Completed
  \/ FailedSomehow
  \/ cmd = Idle /\ cmd' = Idle /\ last'.name = "none" /\ last'.halfClean = last.halfClean

LEMMA Moves ==
  ASSUME CommandInv, Effect
  PROVE  Move
<1>1. /\ WentOn => Advanced \/ Completed
      /\ WentWrong => FellBack \/ FailedSomehow
      /\ Failed(FALSE) => FailedSomehow
      /\ Failed(cmd.quiet) => FailedSomehow
      /\ Failed(StillQuiet) => FailedSomehow
  BY StillQuietTyped DEF WentOn, WentWrong, FailedSomehow
<1>2. CASE CleanEffect
  BY <1>1, <1>2 DEF Move, CleanEffect, WipeEffect, CleanupEffect, VolumesEffect,
    LocalDataEffect, DatabaseEffect
<1>3. CASE NetworkEffect
  BY <1>1, <1>3 DEF Move, NetworkEffect, CryptoEffect, SyncEffect, CAsEffect, EnrollEffect, CoreEffect, JoinEffect
<1>4. CASE ContainerEffect
  BY <1>1, <1>4 DEF Move, ContainerEffect, PauseEffect, ResumeEffect
<1>5. CASE ChaincodeEffect
  BY <1>1, <1>5 DEF Move, ChaincodeEffect, BuildEffect, InstallEffect, ApproveEffect,
    Approves, CommitEffect, RunEffect
<1>6. CASE EnsureEffect
  BY <1>1, <1>6 DEF Move, EnsureEffect, ImageEffect, ResolveEffect, StartEffect
<1>7. CASE FaultEffect
  BY <1>1, <1>7 DEF Move, FaultEffect, DockerEffect
<1>8. CASE ChooseEffect
  BY <1>8 DEF Move, ChooseEffect
<1>9. QED
  BY <1>2, <1>3, <1>4, <1>5, <1>6, <1>7, <1>8 DEF Effect

LEMMA MoveKeepsCourse ==
  ASSUME CommandInv, Move
  PROVE  CommandInv'
<1>1. CASE Started
  BY <1>1, StartedKeepsCourse
<1>2. CASE Advanced
  BY <1>2, AdvancedKeepsCourse
<1>3. CASE Waited
  BY <1>3, WaitedKeepsCourse
<1>4. CASE FellBack
  BY <1>4, FellBackKeepsCourse
<1>5. CASE cmd' = Idle
  BY <1>5, IdleIsOnCourse
<1>6. QED
  BY <1>1, <1>2, <1>3, <1>4, <1>5 DEF Move, Completed, FailedSomehow, Failed

LEMMA EffectKeepsWorld ==
  ASSUME CommandInv, WorldInv, RoomForAuthority, Effect
  PROVE  WorldInv'
<1>1. CASE ChooseEffect
  BY <1>1, SameWorldTyped DEF ChooseEffect
<1>2. QED
  BY <1>1, CleanKeepsWorld, NetworkKeepsWorld, ContainersKeepWorld, ChaincodeKeepsWorld,
    EnsureKeepsWorld, FaultsKeepWorld
  DEF Effect, CleanEffect, NetworkEffect, ContainerEffect, ChaincodeEffect, EnsureEffect

\* Which fields the steps that do not start the authorities leave alone.
LEMMA GenerationsKept ==
  ASSUME CommandInv, WorldInv, Effect
  PROVE  world'.nCerts = world.nCerts \/ (At("startCAs") /\ WentOn)
<1> USE DEF OnlyChanges, Fields
<1>1. CASE CleanEffect
  BY <1>1 DEF CleanEffect, WipeEffect, CleanupEffect, VolumesEffect, LocalDataEffect, DatabaseEffect
<1>2. CASE NetworkEffect
  BY <1>2 DEF NetworkEffect, CryptoEffect, SyncEffect, CAsEffect, EnrollEffect, CoreEffect, JoinEffect, WentWrong
<1>3. CASE ContainerEffect
  BY <1>3 DEF ContainerEffect, PauseEffect, ResumeEffect, WentWrong
<1>4. CASE ChaincodeEffect
  BY <1>4 DEF ChaincodeEffect, BuildEffect, InstallEffect, ApproveEffect,
    Approves, CommitEffect, RunEffect, WentWrong
<1>5. CASE EnsureEffect
  BY <1>5 DEF EnsureEffect, ImageEffect, ResolveEffect, StartEffect, WentWrong
<1>6. CASE FaultEffect
  BY <1>6 DEF FaultEffect, BrokenCerts, DockerEffect, WentWrong
<1>7. CASE ChooseEffect
  BY <1>7 DEF ChooseEffect
<1>8. QED
  BY <1>1, <1>2, <1>3, <1>4, <1>5, <1>6, <1>7 DEF Effect

LEMMA RoomIsKept ==
  ASSUME CommandInv, WorldInv, RoomForAuthority, Effect
  PROVE  RoomForAuthority'
<1>1. Move /\ CommandInv'
  BY Moves, MoveKeepsCourse
<1> SUFFICES ASSUME cmd'.name = "deploy", Left' >= 15
             PROVE  world'.nCerts < MaxCerts
  BY DEF RoomForAuthority
<1>2. cmd' # Idle /\ ~(cmd'.name = "resume")
  BY DEF Idle
<1>3. CASE ChooseEffect
  BY <1>3 DEF ChooseEffect
<1>4. CASE Advanced
  <2>1. cmd.name = "deploy" /\ Left' = Left - 1
    BY <1>4, AdvancedKeepsCourse DEF Advanced, Carried
  <2>2. Left \in Nat /\ Left >= 16
    BY <2>1, DeployAt
  <2>3. ~At("startCAs")
    BY <2>1, <2>2, DeployAt
  <2>4. QED
    BY <2>1, <2>2, <2>3, GenerationsKept DEF RoomForAuthority
<1>5. CASE Waited
  <2>1. cmd.name = "deploy" /\ Left' = Left
    BY <1>5, WaitedKeepsCourse DEF Waited, Carried
  <2>2. ~WentOn
    BY <1>2, <1>5, <2>1, AdvancedKeepsCourse, DeployAt DEF WentOn, Completed, Waited
  <2>3. QED
    BY <2>1, <2>2, GenerationsKept DEF RoomForAuthority
<1>6. ~FellBack
  BY <1>2, FellBackKeepsCourse DEF FellBack, Carried
<1>7. CASE Started /\ ~ChooseEffect
  <2>1. cmd = Idle
    BY <1>7 DEF Started
  <2>2. \A s : ~At(s)
    BY <2>1 DEF At, Idle
  <2>3. ~WentOn /\ ~WentWrong /\ ~Advanced /\ ~Waited /\ ~FellBack /\ \A q : ~Failed(q)
    BY <2>1 DEF WentOn, Advanced, Carried, Completed, WentWrong, FellBack, Failed, Waited
  <2>4. FaultEffect
    BY <1>7, <2>2, <2>3 DEF Effect, CleanEffect, NetworkEffect, ContainerEffect, ChaincodeEffect, EnsureEffect,
      WipeEffect, CleanupEffect, VolumesEffect, LocalDataEffect, DatabaseEffect,
      CryptoEffect, SyncEffect, CAsEffect, EnrollEffect, CoreEffect, JoinEffect, PauseEffect, ResumeEffect,
      BuildEffect, InstallEffect, ApproveEffect, CommitEffect, RunEffect,
      ImageEffect, ResolveEffect, StartEffect
  <2>5. cmd' = Idle
    BY <1>2, <2>3, <2>4 DEF FaultEffect, DockerEffect
  <2>6. QED
    BY <1>2, <2>5
<1>8. QED
  BY <1>1, <1>2, <1>3, <1>4, <1>5, <1>6, <1>7 DEF Move, Completed, FailedSomehow, Failed

LEMMA FaultsCounted ==
  ASSUME Next
  PROVE  faults' = faults \/ (faults < MaxFaults /\ faults' = faults + 1)
<1>1. CASE \E name \in Menu : Choose(name)
  BY <1>1 DEF Choose
<1>2. CASE CleanStep \/ DatabaseStep
  BY <1>2 DEF CleanStep, DatabaseStep, WipeNetworkArtifacts, Cleanup, CleanupVolumes, RemoveLocalData,
    NetworkDown, ResetDatabase, Seed, Then
<1>3. CASE NetworkStep \/ ContainerStep
  BY <1>3 DEF NetworkStep, ContainerStep, EnsureCryptoMaterial, SyncCerts, CreateOrgs, StartCore, CreateChannel,
    StopCCAASContainers, StopContainers, StartContainers, VerifyCoreContainersRunning, Then, Fails
<1>4. CASE ChaincodeStep
  BY <1>4 DEF ChaincodeStep, Build, Install, Approve, Commit, StartDockerContainer, Then, Fails
<1>5. CASE EnsureStep
  BY <1>5 DEF EnsureStep, DockerImageExists, QueryInstalled, QueryAgain, UseCache, StartCCAAS,
    Resolved, Then, Fails
<1>6. CASE StepIgnored \/ StepFails \/ Killed \/ DockerRestarts
  BY <1>6 DEF StepIgnored, StepFails, Killed, DockerRestarts, Fault
<1>7. QED
  BY <1>1, <1>2, <1>3, <1>4, <1>5, <1>6 DEF Next, Step

\* The inductive invariant of the types: the command is on its course, the
\* world has its fields, and there is room for an authority.
TypeInv ==
  /\ CommandInv /\ WorldInv /\ RoomForAuthority
  /\ last.name \in Menu \cup {"none"}
  /\ faults \in 0 .. MaxFaults

LEMMA TypeInit == Init => TypeInv
<1> SUFFICES ASSUME Init PROVE TypeInv
  OBVIOUS
<1>1. cmd = Idle /\ world = ZeroWorld /\ last = Nothing /\ faults = 0
  BY DEF Init
<1>2. CommandInv
  BY <1>1, IdleTyped DEF CommandInv
<1>3. WorldInv
  <2>1. Shaped(ZeroWorld)
    BY DEF Shaped, ZeroWorld, Fields
  <2>2. [o \in Peers |-> NoContainer] \in [Peers -> Container]
    BY Zeroes
  <2>3. QED
    BY <1>1, <2>1, <2>2, Zeroes DEF WorldInv, ZeroWorld, Containers, Installed
<1>4. RoomForAuthority /\ last.name \in Menu \cup {"none"}
  BY <1>1 DEF RoomForAuthority, Idle, Nothing
<1>5. QED
  BY <1>1, <1>2, <1>3, <1>4, OrchestratorAssumption DEF TypeInv

LEMMA TypeStep == TypeInv /\ [Next]_vars => TypeInv'
<1> SUFFICES ASSUME TypeInv, [Next]_vars PROVE TypeInv'
  OBVIOUS
<1>1. CASE Next
  <2>1. CommandInv /\ WorldInv /\ RoomForAuthority /\ Effect /\ Move
    BY <1>1, Effects, Moves DEF TypeInv
  <2>2. CommandInv' /\ WorldInv' /\ RoomForAuthority'
    BY <2>1, MoveKeepsCourse, EffectKeepsWorld, RoomIsKept
  <2>3. last'.name \in Menu \cup {"none"}
    <3>1. cmd # Idle => cmd.name \in Menu
      BY <2>1, RunningOrIdle
    <3>2. CASE Completed
      BY <3>1, <3>2 DEF Completed
    <3>3. CASE FailedSomehow
      BY <3>1, <3>3 DEF FailedSomehow, Failed
    <3>4. CASE last' = last
      BY <3>4 DEF TypeInv
    <3>5. CASE last'.name = "none"
      BY <3>5
    <3>6. QED
      BY <2>1, <3>2, <3>3, <3>4, <3>5 DEF Move, Started, Advanced, FellBack
  <2>4. faults' \in 0 .. MaxFaults
    BY <1>1, FaultsCounted, OrchestratorAssumption DEF TypeInv
  <2>5. QED
    BY <2>2, <2>3, <2>4 DEF TypeInv
<1>2. CASE UNCHANGED vars
  <2>1. world' = world /\ cmd' = cmd /\ last' = last /\ faults' = faults
    BY <1>2 DEF vars
  <2>2. WorldInv'
    BY <2>1, SameWorldTyped DEF TypeInv
  <2>3. CommandInv' /\ RoomForAuthority'
    BY <2>1 DEF TypeInv, CommandInv, RoomForAuthority, Program, Left
  <2>4. QED
    BY <2>1, <2>2, <2>3 DEF TypeInv
<1>3. QED
  BY <1>1, <1>2

LEMMA TypeInvariant == Spec => []TypeInv
  BY TypeInit, TypeStep, PTL DEF Spec

LEMMA TypeInvMeansTypeOK == TypeInv => TypeOK
<1> SUFFICES ASSUME TypeInv PROVE TypeOK
  OBVIOUS
<1>1. world \in World /\ CommandInv /\ cmd \in CommandType
  BY WorldIsTyped DEF TypeInv, CommandInv
<1>2. [f \in DOMAIN cmd \ {"todo"} |-> cmd[f]] \in Command
  <2> DEFINE r == [f \in DOMAIN cmd \ {"todo"} |-> cmd[f]]
  <2>1. DOMAIN cmd = {"name", "todo", "tries", "package", "fallback", "quiet", "repairable"}
    BY <1>1 DEF CommandType
  <2>2. DOMAIN cmd \ {"todo"} = {"name", "tries", "package", "fallback", "quiet", "repairable"}
    BY <2>1
  <2>3. r = [name |-> cmd.name, tries |-> cmd.tries, package |-> cmd.package,
             fallback |-> cmd.fallback, quiet |-> cmd.quiet, repairable |-> cmd.repairable]
    BY <2>2
  <2>4. QED
    BY <1>1, <2>3 DEF CommandType, Command
<1>3. cmd.todo # << >> <=> cmd.name # "none"
  <2>1. cmd = Idle <=> cmd.name = "none"
    BY <1>1 DEF CommandInv, Idle
  <2>2. QED
    BY <1>1, <2>1, RunningOrIdle
<1>4. QED
  BY <1>1, <1>2, <1>3 DEF TypeOK, TypeInv

\* In every reachable state the network, the files and the database are of the
\* kinds the console knows, a command runs exactly while it has steps left, and
\* no number goes beyond its bound (main.go, utils/fabricdocker).
THEOREM Typed == Spec => []TypeOK
  BY TypeInvariant, TypeInvMeansTypeOK, PTL

-----------------------------------------------------------------------------
(***************************************************************************)
(* Cleaning.                                                               *)
(***************************************************************************)
LEMMA Exclusive ==
  ASSUME CommandInv
  PROVE  /\ Started => cmd = Idle /\ cmd' # Idle
         /\ Advanced => cmd' # Idle /\ ~Waited /\ ~FellBack
         /\ Waited => cmd' # Idle /\ ~FellBack
         /\ FellBack => cmd' # Idle
         /\ Completed => \A q : ~Failed(q)
<1>1. cmd # Idle => cmd.name \in Menu /\ Idle.name = "none"
  BY RunningOrIdle DEF Idle
<1>2. Started => cmd = Idle /\ cmd' # Idle
  <2>1. Started => cmd'.name \in Menu
    BY StartedKeepsCourse
  <2>2. Idle.name = "none"
    BY DEF Idle
  <2>3. Started => cmd = Idle
    BY DEF Started
  <2>4. QED
    BY <2>1, <2>2, <2>3, NoneIsNoCommand
<1>3. Carried => cmd' # Idle
  BY <1>1, NoneIsNoCommand DEF Carried
<1>4. Advanced => ~Waited
  <2>1. SUFFICES ASSUME Advanced, Waited PROVE FALSE
    OBVIOUS
  <2>2. Left' = Left - 1 /\ Left' = Left
    BY <2>1, AdvancedKeepsCourse, WaitedKeepsCourse
  <2>3. Left \in Nat
    BY <2>1 DEF CommandInv, CommandType, Left
  <2>4. QED
    BY <2>2, <2>3
<1>5. QED
  BY <1>2, <1>3, <1>4 DEF Advanced, Waited, FellBack, Completed, Failed

\* A step at which nothing has gone wrong.
WentWell == (Advanced /\ cmd'.quiet) \/ Completed

\* A command that waits without a fault waits for the peer's answer.
LEMMA WaitedStill ==
  ASSUME CommandInv, Effect, Waited, cmd'.quiet
  PROVE  At("resolve") /\ world' = world /\ last' = last /\ cmd'.package = cmd.package
<1>1. /\ ~Advanced /\ ~Completed /\ ~FellBack /\ (\A q : ~Failed(q)) /\ ~Started
  BY Exclusive DEF Completed, Failed, Waited, Carried
<1>2. ~WentOn /\ ~WentWrong
  BY <1>1 DEF WentOn, WentWrong
<1>3. ~FaultEffect
  <2>1. cmd # Idle
    BY DEF Waited, Carried
  <2>2. QED
    BY <1>1, <1>2, <2>1 DEF FaultEffect, DockerEffect
<1>4. ~NetworkEffect
  BY <1>2 DEF NetworkEffect, CryptoEffect, SyncEffect, CAsEffect, EnrollEffect, CoreEffect, JoinEffect
<1>5. ~ChaincodeEffect
  BY <1>1, <1>2 DEF ChaincodeEffect, BuildEffect, InstallEffect, ApproveEffect, Approves, CommitEffect, RunEffect
<1>6. ~ContainerEffect /\ ~CleanEffect
  BY <1>1, <1>2 DEF ContainerEffect, PauseEffect, ResumeEffect,
    CleanEffect, WipeEffect, CleanupEffect, VolumesEffect, LocalDataEffect, DatabaseEffect
<1>7. EnsureEffect
  BY <1>1, <1>3, <1>4, <1>5, <1>6 DEF Effect, ChooseEffect
<1>8. QED
  BY <1>1, <1>2, <1>7 DEF EnsureEffect, ImageEffect, ResolveEffect, StartEffect

\* What a cleaning has removed when nothing has gone wrong, by the steps it has
\* left.
CleanInv ==
  cmd.name = "clean" /\ cmd.quiet =>
    /\ Left <= 11 => /\ world.core = "absent" /\ world.cas = "absent" /\ world.image = FALSE
                     /\ world.ccaas = [o \in Peers |-> NoContainer]
    /\ Left <= 10 => world.volumes = NoVolumes
    /\ Left <= 9 => world.certs = "none" /\ world.authority = 0
    /\ Left <= 3 => world.registrar = 0
    /\ Left <= 2 => world.cached = 0
    /\ Left <= 1 => world.tables = FALSE /\ world.seeded = 0

LEMMA CleanProgress ==
  ASSUME CommandInv, Effect, cmd.name = "clean", WentWell
  PROVE  \/ At("stopCCAAS") /\ OnlyChanges({"ccaas"})
         \/ WipeEffect \/ CleanupEffect \/ VolumesEffect \/ LocalDataEffect
         \/ ~At("seed") /\ DatabaseEffect
<1>1. \A s \in StepNames \ CleanSteps : ~At(s)
  BY CleanAt
<1>2. /\ ~At("seed") /\ ~At("ensureCrypto") /\ ~At("sync") /\ ~At("startCAs") /\ ~At("enroll") /\ ~At("enrollRest")
      /\ ~At("startCore") /\ ~At("join") /\ ~At("stopContainers") /\ ~At("startContainers")
      /\ ~At("verify") /\ \A s \in ChaincodeSteps : ~At(s)
  BY <1>1 DEF StepNames, CleanSteps, DeploySteps, ChaincodeSteps, PauseSteps, ResumeSteps
<1>3. ~FaultEffect
  <2>1. ~Waited /\ ~FellBack /\ \A q : ~Failed(q)
    BY Exclusive DEF WentWell, Completed, Failed
  <2>2. ~(Advanced /\ ~cmd'.quiet) /\ cmd # Idle
    BY Exclusive DEF WentWell, Advanced, Carried, Completed
  <2>3. QED
    BY <2>1, <2>2 DEF FaultEffect, WentWrong, DockerEffect
<1>4. ~ChooseEffect
  <2>1. cmd # Idle
    BY DEF Idle
  <2>2. QED
    BY <2>1, Exclusive DEF ChooseEffect
<1>5. ~NetworkEffect
  BY <1>2 DEF NetworkEffect, CryptoEffect, SyncEffect, CAsEffect, EnrollEffect, CoreEffect, JoinEffect
<1>6. ~ChaincodeEffect /\ ~EnsureEffect
  BY <1>2 DEF ChaincodeEffect, BuildEffect, InstallEffect, ApproveEffect, CommitEffect, RunEffect,
    EnsureEffect, ImageEffect, ResolveEffect, StartEffect, ChaincodeSteps
<1>7. ContainerEffect => At("stopCCAAS") /\ OnlyChanges({"ccaas"})
  BY <1>2 DEF ContainerEffect, PauseEffect, ResumeEffect
<1>8. QED
  BY <1>2, <1>3, <1>4, <1>5, <1>6, <1>7 DEF Effect, CleanEffect

LEMMA CleanStepKeeps ==
  ASSUME TypeInv, CleanInv, Effect
  PROVE  CleanInv'
<1>0. CommandInv /\ WorldInv /\ Move
  BY Moves DEF TypeInv
<1> SUFFICES ASSUME cmd'.name = "clean", cmd'.quiet
             PROVE  CleanInv'
  BY DEF CleanInv
<1>1. CASE Started
  <2>1. Left' = 13
    BY <1>0, <1>1, StartedKeepsCourse, NamedPrograms, CleanProgram DEF Program
  <2>2. QED
    BY <2>1 DEF CleanInv
<1>2. CASE Advanced
  <2>1. cmd.name = "clean" /\ cmd.quiet /\ Left' = Left - 1 /\ WentWell
    BY <1>0, <1>2, AdvancedKeepsCourse DEF Advanced, Carried, WentWell
  <2>2. Left \in 1 .. 13
    BY <1>0, <2>1, CleanAt
  <2> USE DEF OnlyChanges, Fields, CleanInv
  <2>3. CASE At("stopCCAAS") /\ OnlyChanges({"ccaas"})
    <3>1. Left = 13
      BY <1>0, <2>1, <2>3, CleanAt
    <3>2. QED
      BY <2>1, <3>1
  <2>4. CASE WipeEffect
    <3>1. Left \in {10, 8, 7}
      BY <1>0, <2>1, <2>4, CleanAt DEF WipeEffect
    <3>2. At("wipeOrgs") => Left = 8
      BY <1>0, <2>1, CleanAt
    <3>3. QED
      BY <2>1, <2>4, <3>1, <3>2 DEF WipeEffect
  <2>5. CASE CleanupEffect
    <3>1. Left \in {12, 9, 6}
      BY <1>0, <2>1, <2>5, CleanAt DEF CleanupEffect
    <3>2. QED
      BY <2>1, <2>5, <3>1 DEF CleanupEffect
  <2>6. CASE VolumesEffect
    <3>1. (At("removeVolumes") => Left = 5) /\ (At("downVolumes") => Left = 11)
      BY <1>0, <2>1, CleanAt
    <3>2. QED
      BY <2>1, <2>6, <3>1 DEF VolumesEffect
  <2>7. CASE LocalDataEffect
    <3>1. (At("removeRegistrar") => Left = 4) /\ (At("removeCache") => Left = 3)
      BY <1>0, <2>1, CleanAt
    <3>2. QED
      BY <2>1, <2>7, <3>1 DEF LocalDataEffect
  <2>8. CASE DatabaseEffect /\ ~At("seed")
    <3>1. (At("drop") => Left = 2) /\ (At("create") => Left = 1)
      BY <1>0, <2>1, CleanAt
    <3>2. QED
      BY <2>1, <2>8, <3>1 DEF DatabaseEffect
  <2>9. QED
    BY <1>0, <2>1, <2>3, <2>4, <2>5, <2>6, <2>7, <2>8, CleanProgress
<1>3. CASE Waited
  <2>1. cmd.name = "clean"
    BY <1>3 DEF Waited, Carried
  <2>2. ~At("resolve")
    <3>1. "resolve" \in StepNames \ CleanSteps
      BY DEF StepNames, CleanSteps, DeploySteps, ChaincodeSteps
    <3>2. QED
      BY <1>0, <2>1, <3>1, CleanAt
  <2>3. QED
    BY <1>0, <1>3, <2>2, WaitedStill
<1>4. CASE FellBack
  BY <1>0, <1>4, FellBackKeepsCourse DEF FellBack, Carried
<1>5. CASE cmd' = Idle
  BY <1>5 DEF Idle
<1>6. QED
  BY <1>0, <1>1, <1>2, <1>3, <1>4, <1>5 DEF Move, Completed, FailedSomehow, Failed

LEMMA SameFields ==
  ASSUME NEW a, NEW b, Shaped(a), Shaped(b), \A f \in Fields : a[f] = b[f]
  PROVE  a = b
<1>1. [f \in Fields |-> a[f]] = [f \in Fields |-> b[f]]
  OBVIOUS
<1>2. QED
  BY <1>1 DEF Shaped

\* The end of a cleaning at which nothing has gone wrong.
LEMMA CleanEnds ==
  ASSUME TypeInv, CleanInv, Effect, cmd.name = "clean", cmd.quiet, Completed
  PROVE  /\ Shaped(world') /\ world'.handle = FALSE
         /\ world'.core = "absent" /\ world'.cas = "absent" /\ world'.image = FALSE
         /\ world'.ccaas = [o \in Peers |-> NoContainer]
         /\ world'.volumes = NoVolumes /\ world'.certs = "none" /\ world'.authority = 0
         /\ world'.registrar = 0 /\ world'.cached = 0 /\ world'.tables = FALSE /\ world'.seeded = 0
<1>1. CommandInv /\ WorldInv /\ WentWell /\ Left = 1
  BY DEF TypeInv, WentWell, Completed
<1>2. At("create") /\ \A s \in CleanSteps : At(s) => s = "create"
  BY <1>1, CleanAt DEF At
<1>3. OnlyChanges({"handle"}) /\ world'.handle = FALSE
  BY <1>1, <1>2, CleanProgress DEF CleanSteps, WipeEffect, CleanupEffect, VolumesEffect,
    LocalDataEffect, DatabaseEffect
<1>4. QED
  BY <1>1, <1>3 DEF CleanInv, OnlyChanges, Fields

LEMMA CleanEndsAtZero ==
  ASSUME TypeInv, CleanInv, Effect, cmd.name = "clean", cmd.quiet, Completed
  PROVE  [world' EXCEPT !.nCerts = 0, !.nPackages = 0] = ZeroWorld
<1> DEFINE e == [world' EXCEPT !.nCerts = 0, !.nPackages = 0]
<1>1. world' = [f \in Fields |-> world'[f]]
  BY CleanEnds DEF Shaped
<1>2. /\ e = [f \in Fields |-> e[f]]
      /\ \A f \in Fields \ {"nCerts", "nPackages"} : e[f] = world'[f]
      /\ e["nCerts"] = 0 /\ e["nPackages"] = 0
  BY <1>1 DEF Fields
<1>3. ZeroWorld = [f \in Fields |-> ZeroWorld[f]]
  BY DEF ZeroWorld, Fields
<1>4. \A f \in Fields : e[f] = ZeroWorld[f]
  <2> HIDE DEF e
  <2>1. /\ ZeroWorld.core = "absent" /\ ZeroWorld.cas = "absent" /\ ZeroWorld.image = FALSE
        /\ ZeroWorld.ccaas = [o \in Peers |-> NoContainer] /\ ZeroWorld.volumes = NoVolumes
        /\ ZeroWorld.certs = "none" /\ ZeroWorld.authority = 0 /\ ZeroWorld.registrar = 0
        /\ ZeroWorld.cached = 0 /\ ZeroWorld.tables = FALSE /\ ZeroWorld.seeded = 0
        /\ ZeroWorld.handle = FALSE /\ ZeroWorld.nCerts = 0 /\ ZeroWorld.nPackages = 0
    BY DEF ZeroWorld
  <2>2. \A f \in Fields \ {"nCerts", "nPackages"} : world'[f] = ZeroWorld[f]
    <3>1. /\ world'.core = ZeroWorld.core /\ world'.cas = ZeroWorld.cas
          /\ world'.image = ZeroWorld.image /\ world'.ccaas = ZeroWorld.ccaas
          /\ world'.volumes = ZeroWorld.volumes /\ world'.certs = ZeroWorld.certs
          /\ world'.authority = ZeroWorld.authority /\ world'.registrar = ZeroWorld.registrar
          /\ world'.cached = ZeroWorld.cached /\ world'.tables = ZeroWorld.tables
          /\ world'.seeded = ZeroWorld.seeded /\ world'.handle = ZeroWorld.handle
      BY <2>1, CleanEnds
    <3>2. QED
      BY <3>1 DEF Fields
  <2>3. QED
    BY <1>2, <2>1, <2>2
<1>5. Shaped(e) /\ Shaped(ZeroWorld)
  <2> HIDE DEF e
  <2>1. Shaped(e)
    BY <1>2, Zenon DEF Shaped
  <2>2. Shaped(ZeroWorld)
    BY <1>3, Zenon DEF Shaped
  <2>3. QED
    BY <2>1, <2>2
<1> HIDE DEF e
<1>6. e = ZeroWorld
  BY <1>4, <1>5, SameFields
<1>7. QED
  BY <1>6 DEF e

ZeroInv == TypeInv /\ CleanInv /\ CleanReachesZero

LEMMA ZeroStep == ZeroInv /\ [Next]_vars => ZeroInv'
<1> SUFFICES ASSUME ZeroInv, [Next]_vars PROVE ZeroInv'
  OBVIOUS
<1>1. TypeInv'
  BY TypeStep DEF ZeroInv
<1>2. CASE Next
  <2>1. TypeInv /\ CleanInv /\ CommandInv /\ Effect /\ Move
    BY <1>2, Effects, Moves DEF ZeroInv, TypeInv
  <2>2. CleanInv'
    BY <2>1, CleanStepKeeps
  <2>3. ASSUME cmd' = Idle, last'.name = "clean", last'.ok, last'.quiet
        PROVE  [world' EXCEPT !.nCerts = 0, !.nPackages = 0] = ZeroWorld
    <3>1. Completed
      BY <2>1, <2>3, Exclusive DEF Move, FailedSomehow, Failed
    <3>2. cmd.name = "clean" /\ cmd.quiet
      BY <2>3, <3>1 DEF Completed
    <3>3. QED
      BY <2>1, <3>1, <3>2, CleanEndsAtZero
  <2>4. CleanReachesZero'
    BY <2>3 DEF CleanReachesZero, Ended
  <2>5. QED
    BY <1>1, <2>2, <2>4 DEF ZeroInv
<1>3. CASE UNCHANGED vars
  <2>1. world' = world /\ cmd' = cmd /\ last' = last
    BY <1>3 DEF vars
  <2>2. CleanInv' /\ CleanReachesZero'
    BY <2>1 DEF ZeroInv, CleanInv, CleanReachesZero, Ended, Left
  <2>3. QED
    BY <1>1, <2>2 DEF ZeroInv
<1>4. QED
  BY <1>2, <1>3

LEMMA ZeroInvariant == Spec => []ZeroInv
<1>1. Init => CleanInv /\ CleanReachesZero
  BY DEF Init, Idle, Nothing, CleanInv, CleanReachesZero, Ended
<1>2. Init => ZeroInv
  BY <1>1, TypeInit DEF ZeroInv
<1>3. QED
  BY <1>2, ZeroStep, PTL DEF Spec

\* main.go:154-176: a cleaning in which no call fails leaves nothing of the
\* network, of its ledger or of the database, however the commands before it
\* were broken off or failed.
THEOREM CleaningReachesZero == Spec => []CleanReachesZero
<1>1. ZeroInv => CleanReachesZero
  BY DEF ZeroInv
<1>2. QED
  BY <1>1, ZeroInvariant, PTL

-----------------------------------------------------------------------------
(***************************************************************************)
(* Deploying: the rows of the network's users.                             *)
(***************************************************************************)
LEMMA DeployProgress ==
  ASSUME CommandInv, Effect, cmd.name = "deploy", WentWell
  PROVE  \/ CleanupEffect \/ NetworkEffect
         \/ At("seed") /\ DatabaseEffect
         \/ ChaincodeEffect \/ EnsureEffect
<1>1. \A s \in StepNames \ DeploySteps : ~At(s)
  BY DeployAt
<1>2. /\ ~At("stopCCAAS") /\ ~At("stopContainers") /\ ~At("startContainers") /\ ~At("verify")
      /\ ~At("wipeOrgs") /\ ~At("wipeCAs") /\ ~At("downCerts") /\ ~At("downVolumes")
      /\ ~At("removeVolumes") /\ ~At("removeRegistrar") /\ ~At("removeCache") /\ ~At("drop") /\ ~At("create")
  BY <1>1 DEF StepNames, CleanSteps, DeploySteps, ChaincodeSteps, PauseSteps, ResumeSteps
<1>3. ~FaultEffect
  <2>1. ~Waited /\ ~FellBack /\ \A q : ~Failed(q)
    BY Exclusive DEF WentWell, Completed, Failed
  <2>2. ~(Advanced /\ ~cmd'.quiet) /\ cmd # Idle
    BY Exclusive DEF WentWell, Advanced, Carried, Completed
  <2>3. QED
    BY <2>1, <2>2 DEF FaultEffect, WentWrong, DockerEffect
<1>4. ~ChooseEffect
  <2>1. cmd # Idle
    BY DEF Idle
  <2>2. QED
    BY <2>1, Exclusive DEF ChooseEffect
<1>5. ~ContainerEffect
  BY <1>2 DEF ContainerEffect, PauseEffect, ResumeEffect
<1>6. ~WipeEffect /\ ~VolumesEffect /\ ~LocalDataEffect /\ (DatabaseEffect => At("seed"))
  BY <1>2 DEF WipeEffect, VolumesEffect, LocalDataEffect, DatabaseEffect
<1>7. QED
  BY <1>3, <1>4, <1>5, <1>6 DEF Effect, CleanEffect

\* The chaincode's steps touch neither the certificates nor the database.
LEMMA ChaincodeFrame ==
  ASSUME WorldInv, ChaincodeEffect \/ EnsureEffect
  PROVE  /\ \A f \in Fields \ {"image", "volumes", "nPackages", "ccaas", "cached"} : world'[f] = world[f]
         /\ \E s \in ChaincodeSteps : At(s)
<1> USE DEF OnlyChanges, Fields, ChaincodeSteps, WentWrong
<1>1. CASE ChaincodeEffect
  BY <1>1 DEF ChaincodeEffect, BuildEffect, InstallEffect, ApproveEffect, Approves, CommitEffect, RunEffect
<1>2. CASE EnsureEffect
  BY <1>2 DEF EnsureEffect, ImageEffect, ResolveEffect, StartEffect
<1>3. QED
  BY <1>1, <1>2

\* After the rows are written a deployment without a fault touches neither them
\* nor the authority.
SeedInv ==
  cmd.name = "deploy" /\ cmd.quiet /\ Left <= 9 /\ world.tables => world.seeded = world.authority

\* The steps after the rows are written.
LEMMA SeedProgress ==
  ASSUME CommandInv, WorldInv, Effect, cmd.name = "deploy", WentWell, Left <= 10
  PROVE  \/ /\ At("seed")
            /\ world'.tables => world'.seeded = world'.authority
         \/ /\ Left <= 9 /\ world'.tables = world.tables /\ world'.seeded = world.seeded
            /\ world'.authority = world.authority
<1>1. CASE Left = 10
  <2>1. At("seed") /\ ~At("cleanup") /\ \A s \in ChaincodeSteps : ~At(s)
    BY <1>1, DeployAt DEF At, ChaincodeSteps
  <2>2. ~NetworkEffect
    BY <2>1 DEF At, NetworkEffect, CryptoEffect, SyncEffect, CAsEffect, EnrollEffect, CoreEffect, JoinEffect
  <2>3. DatabaseEffect
    BY <2>1, <2>2, DeployProgress, ChaincodeFrame DEF CleanupEffect
  <2>4. world'.tables => world'.seeded = world'.authority
    BY <2>1, <2>3 DEF At, DatabaseEffect, OnlyChanges, Fields
  <2>5. QED
    BY <2>1, <2>4
<1>2. CASE Left <= 9
  <2>1. /\ ~At("cleanup") /\ ~At("ensureCrypto") /\ ~At("sync") /\ ~At("startCAs") /\ ~At("enroll") /\ ~At("enrollRest")
        /\ ~At("startCore") /\ ~At("join") /\ ~At("seed")
    BY <1>2, DeployAt
  <2>2. ~NetworkEffect /\ ~CleanupEffect
    BY <2>1 DEF NetworkEffect, CryptoEffect, SyncEffect, CAsEffect, EnrollEffect, CoreEffect, JoinEffect, CleanupEffect
  <2>3. ChaincodeEffect \/ EnsureEffect
    BY <2>1, <2>2, DeployProgress
  <2>4. QED
    BY <1>2, <2>3, ChaincodeFrame DEF Fields
<1>3. QED
  BY <1>1, <1>2, DeployAt

LEMMA SeedStepKeeps ==
  ASSUME TypeInv, SeedInv, Effect
  PROVE  SeedInv'
<1>0. CommandInv /\ WorldInv /\ Move
  BY Moves DEF TypeInv
<1> SUFFICES ASSUME cmd'.name = "deploy", cmd'.quiet, Left' <= 9, world'.tables
             PROVE  world'.seeded = world'.authority
  BY DEF SeedInv
<1>1. CASE Started
  <2>1. Left' = 18
    <3>1. Program' = Steps("deploy")
      BY DEF Program
    <3>2. QED
      BY <1>0, <1>1, <3>1, StartedKeepsCourse, DeployProgram
  <2>2. QED
    BY <2>1
<1>2. CASE Advanced
  <2>1. cmd.name = "deploy" /\ cmd.quiet /\ Left' = Left - 1 /\ WentWell
    BY <1>0, <1>2, AdvancedKeepsCourse DEF Advanced, Carried, WentWell
  <2>2. Left <= 10
    BY <1>0, <2>1, DeployAt
  <2>3. QED
    BY <1>0, <2>1, <2>2, SeedProgress DEF SeedInv
<1>3. CASE Waited
  BY <1>0, <1>3, WaitedStill, WaitedKeepsCourse DEF Waited, Carried, SeedInv
<1>4. CASE FellBack
  BY <1>0, <1>4, FellBackKeepsCourse DEF FellBack, Carried
<1>5. CASE cmd' = Idle
  BY <1>5 DEF Idle
<1>6. QED
  BY <1>0, <1>1, <1>2, <1>3, <1>4, <1>5 DEF Move, Completed, FailedSomehow, Failed

SeededInv == TypeInv /\ SeedInv /\ SeededUsersCurrent

LEMMA SeededStep == SeededInv /\ [Next]_vars => SeededInv'
<1> SUFFICES ASSUME SeededInv, [Next]_vars PROVE SeededInv'
  OBVIOUS
<1>1. TypeInv'
  BY TypeStep DEF SeededInv
<1>2. CASE Next
  <2>1. TypeInv /\ SeedInv /\ CommandInv /\ WorldInv /\ Effect /\ Move
    BY <1>2, Effects, Moves DEF SeededInv, TypeInv
  <2>2. SeedInv'
    BY <2>1, SeedStepKeeps
  <2>3. ASSUME cmd' = Idle, last'.name = "deploy", last'.ok, last'.quiet, world'.tables
        PROVE  world'.seeded = world'.authority
    <3>1. Completed
      BY <2>1, <2>3, Exclusive DEF Move, FailedSomehow, Failed
    <3>2. cmd.name = "deploy" /\ cmd.quiet /\ Left = 1 /\ WentWell
      BY <2>3, <3>1 DEF Completed, WentWell
    <3>3. ~At("seed")
      BY <2>1, <3>2, DeployAt
    <3>4. QED
      <4>1. world'.tables = world.tables /\ world'.seeded = world.seeded /\ world'.authority = world.authority
        BY <2>1, <3>2, <3>3, SeedProgress
      <4>2. QED
        BY <2>1, <2>3, <3>2, <4>1 DEF SeedInv
  <2>4. SeededUsersCurrent'
    BY <2>3 DEF SeededUsersCurrent, Ended
  <2>5. QED
    BY <1>1, <2>2, <2>4 DEF SeededInv
<1>3. CASE UNCHANGED vars
  <2>1. world' = world /\ cmd' = cmd /\ last' = last
    BY <1>3 DEF vars
  <2>2. SeedInv' /\ SeededUsersCurrent'
    BY <2>1 DEF SeededInv, SeedInv, SeededUsersCurrent, Ended, Left
  <2>3. QED
    BY <1>1, <2>2 DEF SeededInv
<1>4. QED
  BY <1>2, <1>3

\* seed.go:28-130: after a deployment in which no call fails the rows of the
\* network's own users hold certificates of the present authority.
THEOREM SeededRowsCurrent == Spec => []SeededUsersCurrent
<1>1. Init => SeedInv /\ SeededUsersCurrent
  BY DEF Init, Idle, Nothing, SeedInv, SeededUsersCurrent, Ended
<1>2. Init => SeededInv
  BY <1>1, TypeInit DEF SeededInv
<1>3. SeededInv => SeededUsersCurrent
  BY DEF SeededInv
<1>4. QED
  BY <1>2, <1>3, SeededStep, PTL DEF Spec

-----------------------------------------------------------------------------
(***************************************************************************)
(* Deploying where there is no channel.                                    *)
(***************************************************************************)

\* What an installation does to the volumes.
LEMMA InstallVolumes ==
  ASSUME WorldInv, InstallEffect, ~WentWrong
  PROVE  /\ Advanced /\ cmd'.package \in 1 .. MaxPackages
         /\ world'.volumes.channel = world.volumes.channel
         /\ world'.volumes.approved = world.volumes.approved
         /\ world'.volumes.committed = world.volumes.committed
         /\ Installed' # << >>
         /\ Elements(Installed') = Elements(Installed) \cup {cmd'.package}
<1>1. /\ Advanced /\ world.nPackages + 1 <= MaxPackages /\ cmd'.package = world.nPackages + 1
      /\ \E i \in 1 .. Len(Installed) + 1 :
           world'.volumes = [world.volumes EXCEPT !.installed = InsertAt(@, i, world.nPackages + 1)]
  BY DEF InstallEffect
<1>2. PICK i \in 1 .. Len(Installed) + 1 :
        world'.volumes = [world.volumes EXCEPT !.installed = InsertAt(@, i, world.nPackages + 1)]
  BY <1>1
<1>3. world.nPackages \in 0 .. MaxPackages /\ world.volumes \in VolumesType
  BY DEF WorldInv
<1>4. world.nPackages + 1 \in 1 .. MaxPackages /\ Installed \in Seq(1 .. MaxPackages)
  BY <1>1, <1>3, OrchestratorAssumption DEF VolumesType, Installed
<1> DEFINE P == 1 .. MaxPackages
           e == world.nPackages + 1
           new == InsertAt(Installed, i, e)
<1>5. new \in Seq(P) /\ Len(new) = Len(Installed) + 1 /\ Elements(new) = Elements(Installed) \cup {e}
  <2>1. Installed \in Seq(P) /\ e \in P
    BY <1>4
  <2> HIDE DEF P, e
  <2>2. QED
    BY <2>1, Inserted
<1>6. new # << >>
  <2>1. Len(Installed) + 1 # 0 /\ Len(<< >>) = 0
    BY <1>4
  <2>2. QED
    BY <1>5, <2>1
<1>7. /\ world'.volumes.channel = world.volumes.channel
      /\ world'.volumes.approved = world.volumes.approved
      /\ world'.volumes.committed = world.volumes.committed
      /\ Installed' = new
  BY <1>2, <1>3 DEF VolumesType, Installed
<1> HIDE DEF new
<1>8. QED
  BY <1>1, <1>4, <1>5, <1>6, <1>7

\* What a step may do to the volumes.
LEMMA VolumesMoves ==
  ASSUME CommandInv, WorldInv, Effect
  PROVE  \/ world'.volumes = world.volumes
         \/ world'.volumes = NoVolumes /\ VolumesEffect
         \/ world'.volumes = NoVolumes /\ SyncEffect /\ world.core = "running" /\ world.certs = "none"
         \/ JoinEffect /\ WentOn /\ world.volumes.channel = 0
            /\ world'.volumes = [world.volumes EXCEPT !.channel = world.authority]
         \/ InstallEffect /\ world.core = "running"
         \/ ApproveEffect /\ \E o \in Peers : Approves(o)
         \/ CommitEffect /\ ChannelAnswers
<1> USE DEF OnlyChanges, Fields, WentWrong
<1>1. CASE CleanEffect
  BY <1>1 DEF CleanEffect, WipeEffect, CleanupEffect, VolumesEffect, LocalDataEffect, DatabaseEffect
<1>2. CASE NetworkEffect
  BY <1>2 DEF NetworkEffect, CryptoEffect, SyncEffect, CAsEffect, EnrollEffect, CoreEffect, JoinEffect
<1>3. CASE ContainerEffect
  BY <1>3 DEF ContainerEffect, PauseEffect, ResumeEffect
<1>4. CASE ChaincodeEffect
  BY <1>4 DEF ChaincodeEffect, BuildEffect, InstallEffect, ApproveEffect, CommitEffect, RunEffect, Peers
<1>5. CASE EnsureEffect
  BY <1>5 DEF EnsureEffect, ImageEffect, ResolveEffect, StartEffect
<1>6. CASE FaultEffect
  BY <1>6 DEF FaultEffect, BrokenCerts, DockerEffect
<1>7. CASE ChooseEffect
  BY <1>7 DEF ChooseEffect
<1>8. QED
  BY <1>1, <1>2, <1>3, <1>4, <1>5, <1>6, <1>7 DEF Effect

\* An organization approves only where there is a channel.
ApprovalInv == world.volumes.channel = 0 => world.volumes.approved = {}

LEMMA ApprovalKept ==
  ASSUME TypeInv, ApprovalInv, Effect
  PROVE  ApprovalInv'
<1>0. CommandInv /\ WorldInv /\ world.volumes \in VolumesType
  BY DEF TypeInv, WorldInv
<1>1. CASE world'.volumes = world.volumes
  BY <1>1 DEF ApprovalInv
<1>2. CASE world'.volumes = NoVolumes
  BY <1>2 DEF ApprovalInv, NoVolumes
<1>3. CASE world.volumes.channel = 0 /\ world'.volumes = [world.volumes EXCEPT !.channel = world.authority]
  BY <1>0, <1>3 DEF ApprovalInv, VolumesType
<1>4. CASE InstallEffect /\ world.core = "running"
  <2>1. PICK i \in 1 .. Len(Installed) + 1 :
          world'.volumes = [world.volumes EXCEPT !.installed = InsertAt(@, i, world.nPackages + 1)]
    BY <1>4 DEF InstallEffect
  <2>2. /\ world'.volumes.channel = world.volumes.channel
        /\ world'.volumes.approved = world.volumes.approved
    BY <1>0, <2>1 DEF VolumesType
  <2>3. QED
    BY <2>2 DEF ApprovalInv
<1>5. CASE \E o \in Peers : Approves(o)
  <2>1. PICK o \in Peers : Approves(o)
    BY <1>5
  <2>2. /\ world.volumes.channel # 0
        /\ world'.volumes = [world.volumes EXCEPT !.approved = @ \cup {o}]
    BY <2>1 DEF Approves, ChannelAnswers
  <2>3. QED
    BY <1>0, <2>2 DEF ApprovalInv, VolumesType
<1>6. CASE CommitEffect /\ ChannelAnswers
  BY <1>0, <1>6 DEF ApprovalInv, CommitEffect, VolumesType
<1>7. QED
  BY <1>0, <1>1, <1>2, <1>3, <1>4, <1>5, <1>6, VolumesMoves

\* How far a deployment has come that began without a channel and without
\* certificates that only pass for complete, and at which nothing has gone wrong.
Fresh == cmd.name = "deploy" /\ cmd.quiet /\ cmd.repairable

CertificatesInv ==
  /\ Left >= 17 => world.certs # "passing"
  /\ Left \in 15 .. 17 => world.core = "absent" /\ world.cas = "absent"
  /\ Left <= 16 => \/ world.certs = "complete" /\ world.authority # 0
                   \/ world.certs = "none" /\ world.authority = 0 /\ Left >= 15
                   \/ world.certs = "none" /\ world.authority # 0 /\ world.cas = "running" /\ Left = 14
                   \/ world.certs = "partial" /\ world.authority # 0 /\ world.cas = "running" /\ Left = 13
  /\ Left <= 11 => world.core = "running"

ChannelInv ==
  /\ Left >= 11 => world.volumes.channel = 0
  /\ Left <= 10 => world.volumes.channel = world.authority
  /\ Left >= 7 => world.volumes.approved = {}
  /\ Left <= 7 => Installed # << >> /\ cmd.package # 0
  /\ Left <= 4 => world.volumes.committed # 0
  /\ Left = 4 => world.volumes.committed = cmd.package

ServedInv ==
  /\ Left \in 4 .. 17 => world.ccaas = [o \in Peers |-> NoContainer]
  /\ Left <= 8 => world.image
  /\ Left <= 3 => \A o \in Peers : world.ccaas[o].up /\ world.ccaas[o].id = world.volumes.committed

DeployInv == Fresh => CertificatesInv /\ ChannelInv /\ ServedInv

LEMMA FreshGoesOn ==
  ASSUME CommandInv, Advanced
  PROVE  ~WentWrong /\ ~Completed /\ \A q : ~Failed(q)
  BY Exclusive DEF WentWrong, Completed, Failed

LEMMA FreshCertificates ==
  ASSUME TypeInv, Effect, Fresh, CertificatesInv, Advanced, cmd'.quiet
  PROVE  CertificatesInv'
<1>0. CommandInv /\ WorldInv /\ cmd.name = "deploy" /\ WentWell /\ Left' = Left - 1 /\ Left \in 2 .. 18
  <2>1. CommandInv /\ WorldInv /\ cmd.name = "deploy" /\ WentWell
    BY DEF TypeInv, Fresh, WentWell
  <2>2. QED
    BY <2>1, AdvancedKeepsCourse, DeployAt DEF Advanced
<1> USE DEF OnlyChanges, Fields, CertificatesInv
<1>1. CASE CleanupEffect
  <2>1. Left = 18
    BY <1>0, <1>1, DeployAt DEF CleanupEffect
  <2>2. QED
    BY <1>0, <1>1, <2>1 DEF CleanupEffect
<1>2. CASE CryptoEffect
  <2>1. Left = 17
    BY <1>0, <1>2, DeployAt DEF CryptoEffect
  <2>2. QED
    BY <1>0, <1>2, <2>1 DEF CryptoEffect, CryptoMaterialReady
<1>a. CASE SyncEffect
  <2>1. Left = 16
    BY <1>0, <1>a, DeployAt DEF SyncEffect
  <2>2. world' = world
    BY <1>a, <2>1 DEF SyncEffect
  <2>3. QED
    BY <1>0, <2>1, <2>2
<1>3. CASE CAsEffect
  <2>1. Left = 15 /\ world.nCerts + 1 # 0
    BY <1>0, <1>3, DeployAt, OrchestratorAssumption DEF CAsEffect, WorldInv
  <2>2. QED
    BY <1>0, <1>3, <2>1 DEF CAsEffect
<1>4. CASE EnrollEffect
  <2>1. (At("enroll") => Left = 14) /\ (At("enrollRest") => Left = 13)
    BY <1>0, DeployAt
  <2>2. QED
    BY <1>0, <1>4, <2>1 DEF EnrollEffect
<1>5. CASE CoreEffect
  <2>1. Left = 12
    BY <1>0, <1>5, DeployAt DEF CoreEffect
  <2>2. QED
    BY <1>0, <1>5, <2>1 DEF CoreEffect
<1>6. CASE JoinEffect
  <2>1. Left = 11
    BY <1>0, <1>6, DeployAt DEF JoinEffect
  <2>2. OnlyChanges({"volumes"})
    BY <1>0, <1>6, FreshGoesOn DEF JoinEffect
  <2>3. QED
    BY <1>0, <2>1, <2>2
<1>7. CASE At("seed") /\ DatabaseEffect
  <2>1. Left = 10
    BY <1>0, <1>7, DeployAt
  <2>2. OnlyChanges({"tables", "seeded", "handle"})
    BY <1>7 DEF At, DatabaseEffect
  <2>3. QED
    BY <1>0, <2>1, <2>2
<1>8. CASE ChaincodeEffect \/ EnsureEffect
  <2>1. Left <= 9
    BY <1>0, <1>8, ChaincodeFrame, ChaincodePlaces DEF ChaincodeSteps
  <2>2. world'.certs = world.certs /\ world'.authority = world.authority /\ world'.core = world.core
    BY <1>0, <1>8, ChaincodeFrame
  <2>3. QED
    BY <1>0, <2>1, <2>2
<1>9. QED
  BY <1>0, <1>a, <1>1, <1>2, <1>3, <1>4, <1>5, <1>6, <1>7, <1>8, DeployProgress DEF NetworkEffect

LEMMA FreshChannel ==
  ASSUME TypeInv, ApprovalInv, Effect, Fresh, CertificatesInv, ChannelInv, Advanced, cmd'.quiet
  PROVE  ChannelInv'
<1>0. CommandInv /\ WorldInv /\ cmd.name = "deploy" /\ WentWell /\ Left' = Left - 1 /\ Left \in 2 .. 18
  <2>1. CommandInv /\ WorldInv /\ cmd.name = "deploy" /\ WentWell
    BY DEF TypeInv, Fresh, WentWell
  <2>2. QED
    BY <2>1, AdvancedKeepsCourse, DeployAt DEF Advanced
<1>a. world.volumes \in VolumesType /\ Installed \in Seq(1 .. MaxPackages) /\ cmd.package \in Nat
  BY <1>0, OrchestratorAssumption, SMTT(30) DEF WorldInv, VolumesType, Installed, CommandInv, CommandType
<1>b. WentOn => cmd'.package = cmd.package
  BY <1>0, FreshGoesOn DEF WentOn
<1> USE DEF OnlyChanges, Fields, ChannelInv, Installed
<1>1. ASSUME Left >= 9 /\ Left # 11, world'.volumes = world.volumes,
             Left <= 10 => world'.authority = world.authority
      PROVE  ChannelInv'
  BY <1>0, <1>1
<1>2. CASE CleanupEffect
  <2>1. Left = 18
    BY <1>0, <1>2, DeployAt DEF CleanupEffect
  <2>2. QED
    BY <1>1, <1>2, <2>1 DEF CleanupEffect
<1>3. CASE CryptoEffect \/ SyncEffect \/ CAsEffect \/ EnrollEffect \/ CoreEffect
  <2>1. Left \in 12 .. 17
    BY <1>0, <1>3, DeployAt DEF CryptoEffect, SyncEffect, CAsEffect, EnrollEffect, CoreEffect
  <2>2. world'.volumes = world.volumes
    <3>1. SyncEffect => Left = 16
      BY <1>0, DeployAt DEF SyncEffect
    <3>2. SyncEffect => world' = world
      BY <3>1 DEF SyncEffect, CertificatesInv
    <3>3. QED
      BY <1>3, <3>2 DEF CryptoEffect, CAsEffect, EnrollEffect, CoreEffect
  <2>3. QED
    BY <1>1, <2>1, <2>2
<1>4. CASE JoinEffect
  <2>1. Left = 11
    BY <1>0, <1>4, DeployAt DEF JoinEffect
  <2>2. /\ world'.authority = world.authority
        /\ world'.volumes = [world.volumes EXCEPT !.channel = world.authority]
    BY <1>0, <1>4, FreshGoesOn DEF JoinEffect
  <2>3. world'.volumes.channel = world.authority /\ world'.volumes.approved = world.volumes.approved
    BY <1>a, <2>2 DEF VolumesType
  <2>4. QED
    BY <1>0, <2>1, <2>2, <2>3
<1>5. CASE At("seed") /\ DatabaseEffect
  <2>1. Left = 10 /\ world'.volumes = world.volumes /\ world'.authority = world.authority
    BY <1>0, <1>5, DeployAt DEF At, DatabaseEffect
  <2>2. QED
    BY <1>1, <2>1
<1>6. CASE ChaincodeEffect \/ EnsureEffect
  <2>1. /\ At("build") => Left = 9
        /\ At("install") => Left = 8
        /\ At("approve1") => Left = 7
        /\ At("approve2") => Left = 6
        /\ At("commit") => Left = 5
        /\ At("runCCAAS") => Left = 4
        /\ At("image") => Left = 3
        /\ At("resolve") => Left = 2
        /\ At("startCCAAS") => Left = 1
    BY <1>0, ChaincodePlaces
  <2>2. world'.authority = world.authority
    BY <1>0, <1>6, ChaincodeFrame
  <2>3. ~WentWrong /\ ~Completed /\ \A q : ~Failed(q)
    BY <1>0, FreshGoesOn
  <2>4. CASE BuildEffect
    BY <1>1, <2>1, <2>4 DEF BuildEffect
  <2>5. CASE InstallEffect
    <3>1. Left = 8
      BY <2>1, <2>5 DEF InstallEffect
    <3>2. /\ cmd'.package \in 1 .. MaxPackages /\ Installed' # << >>
          /\ world'.volumes.channel = world.volumes.channel
          /\ world'.volumes.approved = world.volumes.approved
      BY <1>0, <2>3, <2>5, InstallVolumes
    <3>3. cmd'.package # 0
      BY <3>2
    <3>4. QED
      BY <1>0, <2>2, <3>1, <3>2, <3>3
  <2>6. CASE ApproveEffect
    <3>1. PICK o \in Peers : Approves(o)
      BY <2>3, <2>6 DEF ApproveEffect, Peers
    <3>2. /\ world'.volumes.channel = world.volumes.channel
          /\ world'.volumes.installed = world.volumes.installed
          /\ world'.volumes.committed = world.volumes.committed
      BY <1>a, <3>1 DEF Approves, VolumesType
    <3>3. Left \in 6 .. 7 /\ cmd'.package = cmd.package
      BY <1>b, <2>1, <2>6, <3>1 DEF ApproveEffect, Approves
    <3>4. QED
      BY <1>0, <2>2, <3>2, <3>3
  <2>7. CASE CommitEffect
    <3>1. Left = 5 /\ cmd'.package = cmd.package
          /\ world'.volumes = [world.volumes EXCEPT !.committed = cmd.package, !.approved = {}]
      BY <1>b, <2>1, <2>3, <2>7 DEF CommitEffect
    <3>2. /\ world'.volumes.channel = world.volumes.channel
          /\ world'.volumes.installed = world.volumes.installed
          /\ world'.volumes.committed = cmd.package
      BY <1>a, <3>1 DEF VolumesType
    <3>3. QED
      BY <1>0, <2>2, <3>1, <3>2
  <2>8. CASE RunEffect
    <3>1. Left = 4 /\ cmd'.package = cmd.package /\ world'.volumes = world.volumes
      BY <1>b, <2>1, <2>3, <2>8 DEF RunEffect
    <3>2. QED
      BY <1>0, <2>2, <3>1
  <2>9. CASE EnsureEffect
    <3>1. Left \in 1 .. 3 /\ world'.volumes = world.volumes
      BY <2>1, <2>3, <2>9 DEF EnsureEffect, ImageEffect, ResolveEffect, StartEffect
    <3>2. cmd'.package # 0
      <4>1. CASE At("resolve")
        <5>1. ~FellBack /\ ~Waited
          BY <1>0, Exclusive
        <5>2. ResolveEffect
          BY <2>9, <4>1 DEF At, EnsureEffect, ImageEffect, StartEffect
        <5>3. QED
          BY <2>3, <5>1, <5>2 DEF ResolveEffect
      <4>2. CASE ~At("resolve")
        <5>1. WentOn
          BY <2>3, <2>9, <4>2 DEF EnsureEffect, ImageEffect, ResolveEffect, StartEffect
        <5>2. QED
          BY <1>b, <3>1, <5>1
      <4>3. QED
        BY <4>1, <4>2
    <3>3. QED
      BY <1>0, <2>2, <3>1, <3>2
  <2>10. QED
    BY <1>6, <2>4, <2>5, <2>6, <2>7, <2>8, <2>9 DEF ChaincodeEffect
<1>7. QED
  BY <1>0, <1>2, <1>3, <1>4, <1>5, <1>6, DeployProgress DEF NetworkEffect

\* What a step may do to the containers of the chaincode.
LEMMA ContainersMoves ==
  ASSUME CommandInv, WorldInv, Effect
  PROVE  \/ world'.ccaas = world.ccaas
         \/ CleanupEffect
         \/ world'.ccaas = [o \in Peers |-> Stopped(world.ccaas[o])] /\ (At("stopCCAAS") \/ DockerEffect)
         \/ RunEffect
         \/ StartEffect
<1> USE DEF OnlyChanges, Fields, WentWrong
<1>1. CASE CleanEffect
  BY <1>1 DEF CleanEffect, WipeEffect, VolumesEffect, LocalDataEffect, DatabaseEffect
<1>2. CASE NetworkEffect
  BY <1>2 DEF NetworkEffect, CryptoEffect, SyncEffect, CAsEffect, EnrollEffect, CoreEffect, JoinEffect
<1>3. CASE ContainerEffect
  BY <1>3 DEF ContainerEffect, PauseEffect, ResumeEffect
<1>4. CASE ChaincodeEffect
  BY <1>4 DEF ChaincodeEffect, BuildEffect, InstallEffect, ApproveEffect, Approves, CommitEffect
<1>5. CASE EnsureEffect
  BY <1>5 DEF EnsureEffect, ImageEffect, ResolveEffect
<1>6. CASE FaultEffect
  BY <1>6 DEF FaultEffect, BrokenCerts, DockerEffect
<1>7. CASE ChooseEffect
  BY <1>7 DEF ChooseEffect
<1>8. QED
  BY <1>1, <1>2, <1>3, <1>4, <1>5, <1>6, <1>7 DEF Effect

LEMMA FreshServed ==
  ASSUME TypeInv, Effect, Fresh, ChannelInv, ServedInv, Advanced, cmd'.quiet
  PROVE  ServedInv'
<1>0. CommandInv /\ WorldInv /\ cmd.name = "deploy" /\ WentWell /\ Left' = Left - 1 /\ Left \in 2 .. 18
  <2>1. CommandInv /\ WorldInv /\ cmd.name = "deploy" /\ WentWell
    BY DEF TypeInv, Fresh, WentWell
  <2>2. QED
    BY <2>1, AdvancedKeepsCourse, DeployAt DEF Advanced
<1>1. /\ At("cleanup") <=> Left = 18
      /\ At("build") <=> Left = 9
      /\ At("commit") <=> Left = 5
      /\ At("install") <=> Left = 8
      /\ At("runCCAAS") <=> Left = 4
      /\ At("startCCAAS") <=> Left = 1
      /\ At("approve1") \/ At("approve2") => Left \in 6 .. 7
      /\ At("join") => Left = 11
  BY <1>0, DeployAt
<1>2. ~At("stopCCAAS") /\ ~At("removeVolumes") /\ ~At("downVolumes")
  BY <1>0, DeployAt DEF StepNames, CleanSteps, DeploySteps, ChaincodeSteps
<1>3. ~DockerEffect /\ ~StartEffect /\ ~WentWrong /\ ~Completed /\ \A q : ~Failed(q)
  <2>1. ~StartEffect
    BY <1>0, <1>1 DEF StartEffect
  <2>2. cmd # Idle /\ ~Waited
    BY <1>0, Exclusive DEF Advanced, Carried
  <2>3. QED
    BY <1>0, <2>1, <2>2, FreshGoesOn DEF DockerEffect
<1>4. Left' \in 4 .. 17 => world'.ccaas = [o \in Peers |-> NoContainer]
  <2>1. CASE Left = 18
    <3>1. CleanupEffect
      <4>1. At("cleanup") /\ ~At("seed") /\ \A s \in ChaincodeSteps : ~At(s)
        BY <1>1, <2>1 DEF At, ChaincodeSteps
      <4>2. ~NetworkEffect
        BY <4>1 DEF At, NetworkEffect, CryptoEffect, SyncEffect, CAsEffect, EnrollEffect, CoreEffect, JoinEffect
      <4>3. QED
        BY <1>0, <4>1, <4>2, DeployProgress, ChaincodeFrame
    <3>2. QED
      BY <3>1 DEF CleanupEffect
  <2>2. CASE Left \in 5 .. 17
    <3>1. ~CleanupEffect /\ ~RunEffect
      BY <1>1, <2>2 DEF CleanupEffect, RunEffect
    <3>2. world'.ccaas = world.ccaas
      BY <1>0, <1>2, <1>3, <3>1, ContainersMoves
    <3>3. QED
      BY <2>2, <3>2 DEF ServedInv
  <2>3. QED
    BY <1>0, <2>1, <2>2
<1>5. Left' <= 8 => world'.image
  <2>1. CASE Left = 9
    <3>1. At("build") /\ ~At("cleanup") /\ ~At("seed")
      BY <1>1, <2>1 DEF At
    <3>2. ~NetworkEffect /\ ~CleanupEffect
      BY <3>1 DEF At, NetworkEffect, CryptoEffect, SyncEffect, CAsEffect, EnrollEffect, CoreEffect, JoinEffect, CleanupEffect
    <3>3. BuildEffect
      BY <1>0, <3>1, <3>2, DeployProgress DEF At, ChaincodeEffect, InstallEffect, ApproveEffect,
        CommitEffect, RunEffect, EnsureEffect, ImageEffect, ResolveEffect, StartEffect
    <3>4. QED
      BY <3>3 DEF BuildEffect
  <2>2. CASE Left <= 8
    <3>1. ~CleanupEffect /\ ~BuildEffect
      BY <1>1, <2>2 DEF CleanupEffect, BuildEffect
    <3>2. world'.image = world.image
      BY <1>0, <1>3, <3>1, DeployProgress DEF NetworkEffect, CryptoEffect, SyncEffect, CAsEffect, EnrollEffect, CoreEffect,
        JoinEffect, DatabaseEffect, ChaincodeEffect, InstallEffect, ApproveEffect, Approves,
        CommitEffect, RunEffect, EnsureEffect, ImageEffect, ResolveEffect, StartEffect, OnlyChanges, Fields
    <3>3. QED
      BY <2>2, <3>2 DEF ServedInv
  <2>3. QED
    BY <1>0, <2>1, <2>2
<1>6. ASSUME Left' <= 3
      PROVE  \A o \in Peers : world'.ccaas[o].up /\ world'.ccaas[o].id = world'.volumes.committed
  <2>1. world'.volumes = world.volumes
    <3>1. ~CleanupEffect /\ ~NetworkEffect /\ ~At("seed")
      BY <1>0, <1>6, DeployAt DEF CleanupEffect, NetworkEffect, CryptoEffect, SyncEffect, CAsEffect, EnrollEffect,
        CoreEffect, JoinEffect
    <3>2. ~BuildEffect /\ ~InstallEffect /\ ~ApproveEffect /\ ~CommitEffect
      BY <1>0, <1>1, <1>6 DEF BuildEffect, InstallEffect, ApproveEffect, CommitEffect
    <3>3. RunEffect \/ EnsureEffect
      BY <1>0, <3>1, <3>2, DeployProgress DEF ChaincodeEffect
    <3>4. QED
      BY <1>3, <3>3 DEF RunEffect, EnsureEffect, ImageEffect, ResolveEffect, StartEffect, OnlyChanges, Fields
  <2>2. CASE Left = 4
    <3>1. world.ccaas = [o \in Peers |-> NoContainer] /\ world.volumes.committed = cmd.package
      BY <2>2 DEF ServedInv, ChannelInv
    <3>2. RunEffect
      <4>1. At("runCCAAS") /\ ~At("cleanup") /\ ~At("seed")
        BY <1>1, <2>2 DEF At
      <4>2. ~NetworkEffect /\ ~CleanupEffect
        BY <4>1 DEF At, NetworkEffect, CryptoEffect, SyncEffect, CAsEffect, EnrollEffect, CoreEffect, JoinEffect, CleanupEffect
      <4>3. QED
        BY <1>0, <4>1, <4>2, DeployProgress DEF At, ChaincodeEffect, BuildEffect, InstallEffect, ApproveEffect,
          CommitEffect, EnsureEffect, ImageEffect, ResolveEffect, StartEffect
    <3>3. world'.ccaas = [o \in Peers |-> [id |-> cmd.package, up |-> TRUE, rm |-> TRUE]]
      BY <3>1, <3>2 DEF RunEffect
    <3>4. QED
      BY <2>1, <3>1, <3>3
  <2>3. CASE Left <= 3
    <3>1. ~CleanupEffect /\ ~RunEffect
      BY <1>1, <2>3 DEF CleanupEffect, RunEffect
    <3>2. world'.ccaas = world.ccaas
      BY <1>0, <1>2, <1>3, <3>1, ContainersMoves
    <3>3. QED
      BY <2>1, <2>3, <3>2 DEF ServedInv
  <2>4. QED
    BY <1>0, <1>6, <2>2, <2>3
<1>7. QED
  BY <1>4, <1>5, <1>6 DEF ServedInv

\* Nothing stands in the way of such a deployment: it does not end with an error.
LEMMA FreshDoesNotFail ==
  ASSUME TypeInv, Effect, Fresh, CertificatesInv, ChannelInv, ServedInv, NEW q, Failed(q), last'.quiet
  PROVE  FALSE
<1>0. CommandInv /\ WorldInv /\ cmd.name = "deploy" /\ cmd' = Idle /\ q
  BY DEF TypeInv, Fresh, Failed
<1>a. ~Failed(FALSE)
  BY DEF Failed
<1>1. /\ At("join") <=> Left = 11
      /\ At("install") <=> Left = 8
      /\ At("approve1") <=> Left = 7
      /\ At("approve2") <=> Left = 6
      /\ At("commit") <=> Left = 5
      /\ At("runCCAAS") <=> Left = 4
      /\ At("image") <=> Left = 3
      /\ At("resolve") <=> Left = 2
      /\ ~At("verify")
  BY <1>0, DeployAt DEF StepNames, DeploySteps, ResumeSteps, ChaincodeSteps
<1>2. /\ ~Completed /\ ~Advanced /\ ~WentOn /\ ~Waited /\ ~FellBack /\ ~Started /\ cmd # Idle
  BY <1>0, Exclusive DEF WentOn, Failed
<1>3. ~CleanEffect
  BY <1>2 DEF CleanEffect, WipeEffect, CleanupEffect, VolumesEffect, LocalDataEffect, DatabaseEffect
<1>4. ~NetworkEffect
  BY <1>1, <1>2 DEF NetworkEffect, CryptoEffect, SyncEffect, CAsEffect, EnrollEffect, CoreEffect, JoinEffect,
    CertificatesInv, ChannelInv
<1>5. ~ContainerEffect
  BY <1>1, <1>2 DEF ContainerEffect, PauseEffect, ResumeEffect
<1>6. Left <= 10 => world.core = "running" /\ world.certs = "complete" /\ ChannelAnswers
  <2>1. Left \in 1 .. 18
    BY <1>0, DeployAt
  <2>2. QED
    BY <2>1 DEF CertificatesInv, ChannelInv, ChannelAnswers
<1>7. ~ChaincodeEffect
  <2>1. ~BuildEffect
    BY <1>2 DEF BuildEffect
  <2>2. ~InstallEffect
    BY <1>1, <1>2, <1>6 DEF InstallEffect
  <2>3. ~ApproveEffect
    BY <1>1, <1>2, <1>6 DEF ApproveEffect, Approves, ChannelInv
  <2>4. ~CommitEffect
    BY <1>1, <1>2, <1>6 DEF CommitEffect
  <2>5. ~RunEffect
    BY <1>1, <1>2 DEF RunEffect, ServedInv, Peers
  <2>6. QED
    BY <2>1, <2>2, <2>3, <2>4, <2>5 DEF ChaincodeEffect
<1>8. ~EnsureEffect
  <2>1. ~ImageEffect
    BY <1>1, <1>2 DEF ImageEffect, ServedInv
  <2>2. ~ResolveEffect
    <3>1. SUFFICES ASSUME ResolveEffect PROVE FALSE
      OBVIOUS
    <3>2. At("resolve") /\ Failed(StillQuiet)
      BY <1>2, <3>1 DEF ResolveEffect
    <3>3. CanAnswer
      BY <1>1, <1>6, <3>2 DEF CanAnswer, ChannelInv, Installed
    <3>4. ~StillQuiet
      BY <3>3 DEF StillQuiet
    <3>5. StillQuiet = FALSE
      BY <1>0, <3>4, StillQuietTyped
    <3>6. Failed(FALSE)
      BY <3>2, <3>5, Zenon
    <3>7. QED
      BY <1>a, <3>6, Zenon
  <2>3. ~StartEffect
    BY <1>2 DEF StartEffect
  <2>4. QED
    BY <2>1, <2>2, <2>3 DEF EnsureEffect
<1>9. ~FaultEffect
  BY <1>2, <1>a DEF FaultEffect, DockerEffect
<1>10. ~ChooseEffect
  BY <1>2 DEF ChooseEffect
<1>11. QED
  BY <1>3, <1>4, <1>5, <1>7, <1>8, <1>9, <1>10 DEF Effect

\* It ends with the chaincode served.
LEMMA FreshEnds ==
  ASSUME TypeInv, Effect, Fresh, CertificatesInv, ChannelInv, ServedInv, Completed
  PROVE  Serving'
<1>0. CommandInv /\ WorldInv /\ cmd.name = "deploy" /\ WentWell /\ Left = 1
  BY DEF TypeInv, Fresh, WentWell, Completed
<1>1. At("startCCAAS") /\ ~At("cleanup") /\ ~At("seed")
  BY <1>0, DeployAt DEF At
<1>2. ~NetworkEffect /\ ~CleanupEffect
  BY <1>1 DEF At, NetworkEffect, CryptoEffect, SyncEffect, CAsEffect, EnrollEffect, CoreEffect, JoinEffect, CleanupEffect
<1>3. StartEffect
  BY <1>0, <1>1, <1>2, DeployProgress DEF At, ChaincodeEffect, BuildEffect, InstallEffect, ApproveEffect,
    CommitEffect, RunEffect, EnsureEffect, ImageEffect, ResolveEffect
<1>4. /\ world'.core = world.core /\ world'.authority = world.authority /\ world'.volumes = world.volumes
      /\ \A o \in Peers : world'.ccaas[o] = world.ccaas[o]
  BY <1>0, <1>3 DEF StartEffect, OnlyChanges, Fields, ServedInv
<1>5. Serving
  BY <1>0 DEF Serving, CertificatesInv, ChannelInv, ServedInv
<1>6. QED
  BY <1>4, <1>5 DEF Serving

LEMMA DeployStepKeeps ==
  ASSUME TypeInv, ApprovalInv, DeployInv, Effect
  PROVE  DeployInv'
<1>0. CommandInv /\ WorldInv /\ Move
  BY Moves DEF TypeInv
<1> SUFFICES ASSUME Fresh'
             PROVE  (CertificatesInv /\ ChannelInv /\ ServedInv)'
  BY DEF DeployInv
<1>a. cmd'.name = "deploy" /\ cmd'.quiet /\ cmd'.repairable
  BY DEF Fresh
<1>1. CASE Started
  <2>1. Left' = 18
    <3>1. Program' = Steps("deploy")
      BY <1>a DEF Program
    <3>2. QED
      BY <1>0, <1>1, <3>1, StartedKeepsCourse, DeployProgram
  <2>2. ApprovalInv'
    BY ApprovalKept
  <2>3. world' = world
    <3>1. cmd = Idle /\ cmd' # Idle
      BY <1>0, <1>1, Exclusive
    <3>2. \A s : ~At(s)
      BY <3>1 DEF At, Idle
    <3>3. ~WentOn /\ ~Advanced /\ ~Waited /\ ~FellBack /\ \A q : ~Failed(q)
      BY <3>1 DEF WentOn, Advanced, Carried, Completed, FellBack, Failed, Waited
    <3>4. ~FaultEffect
      BY <3>1, <3>3 DEF FaultEffect, DockerEffect
    <3>5. ChooseEffect
      BY <3>2, <3>4 DEF Effect, CleanEffect, NetworkEffect, ContainerEffect, ChaincodeEffect, EnsureEffect,
        WipeEffect, CleanupEffect, VolumesEffect, LocalDataEffect, DatabaseEffect,
        CryptoEffect, SyncEffect, CAsEffect, EnrollEffect, CoreEffect, JoinEffect, PauseEffect, ResumeEffect,
        BuildEffect, InstallEffect, ApproveEffect, CommitEffect, RunEffect,
        ImageEffect, ResolveEffect, StartEffect
    <3>6. QED
      BY <3>5 DEF ChooseEffect
  <2>4. world.volumes.channel = 0 /\ world.certs # "passing"
    <3>1. PICK name \in Menu :
            cmd' = [Idle EXCEPT !.name = name, !.todo = Steps(name), !.fallback = name = "resume",
                                !.repairable = Repairable]
      BY <1>1 DEF Started
    <3>2. cmd'.repairable = Repairable
      BY <3>1 DEF Idle
    <3>3. QED
      BY <1>a, <3>2 DEF Repairable
  <2>5. QED
    BY <2>1, <2>2, <2>3, <2>4 DEF CertificatesInv, ChannelInv, ServedInv, ApprovalInv
<1>2. CASE Advanced
  <2>1. Fresh
    BY <1>2, <1>a DEF Advanced, Carried, Fresh
  <2>2. QED
    BY <1>2, <1>a, <2>1, FreshCertificates, FreshChannel, FreshServed DEF DeployInv
<1>3. CASE Waited
  <2>1. Fresh /\ Left' = Left /\ world' = world /\ cmd'.package = cmd.package
    BY <1>0, <1>3, <1>a, WaitedStill, WaitedKeepsCourse DEF Waited, Carried, Fresh
  <2>2. Installed' = Installed
    BY <2>1 DEF Installed
  <2>3. QED
    BY <2>1, <2>2 DEF DeployInv, CertificatesInv, ChannelInv, ServedInv
<1>4. CASE FellBack
  BY <1>0, <1>4, <1>a, FellBackKeepsCourse DEF FellBack, Carried
<1>5. CASE cmd' = Idle
  BY <1>5, <1>a DEF Idle
<1>6. QED
  BY <1>0, <1>1, <1>2, <1>3, <1>4, <1>5 DEF Move, Completed, FailedSomehow, Failed

RepairInv == TypeInv /\ ApprovalInv /\ DeployInv /\ DeployRepairs

LEMMA RepairStep == RepairInv /\ [Next]_vars => RepairInv'
<1> SUFFICES ASSUME RepairInv, [Next]_vars PROVE RepairInv'
  OBVIOUS
<1>1. TypeInv'
  BY TypeStep DEF RepairInv
<1>2. CASE Next
  <2>1. TypeInv /\ ApprovalInv /\ DeployInv /\ CommandInv /\ WorldInv /\ Effect /\ Move
    BY <1>2, Effects, Moves DEF RepairInv, TypeInv
  <2>2. ApprovalInv' /\ DeployInv'
    BY <2>1, ApprovalKept, DeployStepKeeps
  <2>3. ASSUME cmd' = Idle, last'.name = "deploy", last'.quiet, last'.repairable
        PROVE  last'.ok /\ Serving'
    <3>1. Completed \/ FailedSomehow
      BY <2>1, <2>3, Exclusive DEF Move
    <3>2. CASE Completed
      <4>1. Fresh /\ last'.ok
        BY <2>3, <3>2 DEF Completed, Fresh
      <4>2. QED
        BY <2>1, <3>2, <4>1, FreshEnds DEF DeployInv
    <3>3. CASE FailedSomehow
      <4>1. PICK q \in BOOLEAN : Failed(q) /\ (q => cmd.quiet)
        BY <3>3 DEF FailedSomehow
      <4>2. Fresh
        BY <2>3, <4>1 DEF Failed, Fresh
      <4>3. QED
        BY <2>1, <2>3, <4>1, <4>2, FreshDoesNotFail DEF DeployInv
    <3>4. QED
      BY <3>1, <3>2, <3>3
  <2>4. DeployRepairs'
    BY <2>3 DEF DeployRepairs
  <2>5. QED
    BY <1>1, <2>2, <2>4 DEF RepairInv
<1>3. CASE UNCHANGED vars
  <2>1. world' = world /\ cmd' = cmd /\ last' = last
    BY <1>3 DEF vars
  <2>2. ApprovalInv' /\ DeployInv' /\ DeployRepairs'
    BY <2>1 DEF RepairInv, ApprovalInv, DeployInv, Fresh, CertificatesInv, ChannelInv, ServedInv,
      DeployRepairs, Serving, Left, Installed
  <2>3. QED
    BY <1>1, <2>2 DEF RepairInv
<1>4. QED
  BY <1>2, <1>3

\* main.go:250-310: a deployment in which no call fails, begun where there is
\* no channel yet and no incomplete set of certificates that passes for complete,
\* ends well with the chaincode served, whatever other certificates, containers,
\* files and rows an earlier one has left.
THEOREM DeploymentRepairs == Spec => []DeployRepairs
<1>1. Init => ApprovalInv /\ DeployInv /\ DeployRepairs
  BY DEF Init, Idle, Nothing, ZeroWorld, NoVolumes, ApprovalInv, DeployInv, Fresh, DeployRepairs
<1>2. Init => RepairInv
  BY <1>1, TypeInit DEF RepairInv
<1>3. RepairInv => DeployRepairs
  BY DEF RepairInv
<1>4. QED
  BY <1>2, <1>3, RepairStep, PTL DEF Spec

-----------------------------------------------------------------------------
(***************************************************************************)
(* One package is served.                                                  *)
(***************************************************************************)

\* Certificates have their authority, and the network runs only with complete
\* certificates, unless a cleaning has been broken off or has passed over an
\* error.
CoreInv ==
  /\ world.certs # "none" => world.authority # 0
  /\ world.core = "running" =>
       world.certs = "complete" \/ last.halfClean \/ (cmd.name = "clean" /\ ~cmd.quiet)

LEMMA AuthorityStands ==
  ASSUME CommandInv, WorldInv, CoreInv, Effect
  PROVE  world'.certs # "none" => world'.authority # 0
<1> USE DEF OnlyChanges, Fields, WentWrong, CoreInv
<1>1. CASE CleanEffect
  BY <1>1 DEF CleanEffect, WipeEffect, CleanupEffect, VolumesEffect, LocalDataEffect, DatabaseEffect
<1>2. CASE CryptoEffect \/ SyncEffect \/ EnrollEffect \/ CoreEffect \/ JoinEffect
  BY <1>2 DEF CryptoEffect, SyncEffect, EnrollEffect, CoreEffect, JoinEffect
<1>3. CASE CAsEffect
  <2>1. world.nCerts + 1 # 0
    BY OrchestratorAssumption DEF WorldInv
  <2>2. QED
    BY <1>3, <2>1 DEF CAsEffect
<1>4. CASE ContainerEffect
  BY <1>4 DEF ContainerEffect, PauseEffect, ResumeEffect
<1>5. CASE ChaincodeEffect \/ EnsureEffect
  BY <1>5, ChaincodeFrame
<1>6. CASE FaultEffect
  BY <1>6 DEF FaultEffect, BrokenCerts, BrokenOff, DockerEffect
<1>7. CASE ChooseEffect
  BY <1>7 DEF ChooseEffect
<1>8. QED
  BY <1>1, <1>2, <1>3, <1>4, <1>5, <1>6, <1>7 DEF Effect, NetworkEffect

\* Complete certificates under a running network are removed by a cleaning alone.
LEMMA CertificatesStand ==
  ASSUME CommandInv, WorldInv, CoreInv, CleanInv, Effect,
         world.core = "running" => world.certs = "complete",
         cmd.name = "clean" => cmd.quiet
  PROVE  world'.core = "running" => world'.certs = "complete"
<1> USE DEF OnlyChanges, Fields, WentWrong
<1>0. world.core \in Containers /\ world.cas \in Containers
  BY DEF WorldInv
<1>1. CASE WipeEffect
  <2>1. cmd.name = "clean"
    BY <1>1, Places DEF WipeEffect, CleanSteps
  <2>2. Left <= 10
    BY <1>1, <2>1, CleanAt DEF WipeEffect
  <2>3. Left <= 11
    BY <2>1, <2>2, CleanAt
  <2>4. world'.core = "absent"
    BY <1>1, <2>1, <2>3 DEF CleanInv, WipeEffect
  <2>5. QED
    BY <2>4
<1>2. CASE CleanEffect /\ ~WipeEffect
  BY <1>2 DEF CleanEffect, CleanupEffect, VolumesEffect, LocalDataEffect, DatabaseEffect
<1>3. CASE NetworkEffect
  BY <1>3 DEF NetworkEffect, CryptoEffect, CryptoMaterialReady, SyncEffect, CAsEffect, EnrollEffect,
    CoreEffect, JoinEffect, CoreInv
<1>4. CASE ContainerEffect
  BY <1>0, <1>4 DEF ContainerEffect, PauseEffect, ResumeEffect, Halt
<1>5. CASE ChaincodeEffect \/ EnsureEffect
  BY <1>5, ChaincodeFrame
<1>6. CASE FaultEffect
  BY <1>0, <1>6 DEF FaultEffect, BrokenCerts, BrokenOff, DockerEffect, Halt
<1>7. CASE ChooseEffect
  BY <1>7 DEF ChooseEffect
<1>8. QED
  BY <1>1, <1>2, <1>3, <1>4, <1>5, <1>6, <1>7 DEF Effect

\* A package that the volumes hold, while a cleaning has not yet come to the
\* file and the containers that name it.
Accounted(p) == p \in Elements(Installed) \/ (cmd.name = "clean" /\ world.volumes = NoVolumes)

\* From where on a command has a package to start.
HasPackage ==
  /\ cmd.name \in {"deploy", "deployCC"} \/ (cmd.name = "resume" /\ ~cmd.fallback) =>
       (Left <= 7 => cmd.package # 0)
  /\ cmd.name = "resume" /\ cmd.fallback /\ Left = 1 => cmd.package # 0
  /\ cmd.name = "clean" => cmd.package = 0

\* Whatever names a package names one that the volumes hold.
NamedPackages ==
  /\ world.volumes.committed # 0 => world.volumes.committed \in Elements(Installed)
  /\ cmd.package # 0 => cmd.package \in Elements(Installed)
  /\ world.cached # 0 => Accounted(world.cached)
  /\ \A o \in Peers : world.ccaas[o] # NoContainer => Accounted(world.ccaas[o].id)

PackageInv == HasPackage /\ (~last.halfClean => NamedPackages)

\* What a step may do to the package of its command and to the file.
LEMMA PackageMoves ==
  ASSUME CommandInv, WorldInv, Effect
  PROVE  \/ cmd'.package = 0 /\ (Started \/ cmd' = Idle)
         \/ Advanced /\ cmd'.package = cmd.package /\ ~At("install") /\ ~At("resolve")
         \/ Waited /\ cmd'.package = cmd.package
         \/ FellBack /\ cmd'.package = cmd.package
         \/ InstallEffect /\ ~WentWrong
         \/ /\ At("resolve") /\ Advanced /\ cmd'.package # 0 /\ cmd'.package = world'.cached
            /\ world'.cached = world.cached
               \/ (Installed # << >> /\ world'.cached = Head(Installed))
            /\ world'.volumes = world.volumes
<1>1. Started => cmd'.package = 0
  BY DEF Started, Idle
<1>2. /\ Completed => cmd' = Idle
      /\ \A q : Failed(q) => cmd' = Idle
      /\ cmd' = Idle => cmd'.package = 0
  BY DEF Completed, Failed, Idle
<1>3. ASSUME NEW s, At(s), s \notin {"install", "resolve"}
      PROVE  ~At("install") /\ ~At("resolve")
  BY <1>3 DEF At
<1>4. ASSUME WentWrong
      PROVE  cmd' = Idle \/ (FellBack /\ cmd'.package = cmd.package)
  BY <1>2, <1>4 DEF WentWrong, FellBack
<1>5. CASE CleanEffect
  <2>1. WentOn /\ ~At("install") /\ ~At("resolve")
    BY <1>3, <1>5 DEF CleanEffect, WipeEffect, CleanupEffect, VolumesEffect, LocalDataEffect, DatabaseEffect
  <2>2. QED
    BY <1>2, <2>1 DEF WentOn
<1>6. CASE NetworkEffect
  <2>1. (WentOn \/ WentWrong) /\ ~At("install") /\ ~At("resolve")
    BY <1>3, <1>6 DEF NetworkEffect, CryptoEffect, SyncEffect, CAsEffect, EnrollEffect, CoreEffect, JoinEffect
  <2>2. QED
    BY <1>2, <1>4, <2>1 DEF WentOn
<1>7. CASE ContainerEffect
  <2>1. (WentOn \/ WentWrong) /\ ~At("install") /\ ~At("resolve")
    BY <1>3, <1>7 DEF ContainerEffect, PauseEffect, ResumeEffect
  <2>2. QED
    BY <1>2, <1>4, <2>1 DEF WentOn
<1>8. CASE ChaincodeEffect
  <2>1. CASE InstallEffect
    BY <1>2, <1>4, <2>1
  <2>2. CASE ~InstallEffect
    <3>1. (WentOn \/ WentWrong \/ Failed(cmd.quiet)) /\ ~At("install") /\ ~At("resolve")
      BY <1>3, <1>8, <2>2 DEF ChaincodeEffect, BuildEffect, ApproveEffect, Approves, CommitEffect, RunEffect
    <3>2. QED
      BY <1>2, <1>4, <3>1 DEF WentOn
  <2>3. QED
    BY <2>1, <2>2
<1>9. CASE EnsureEffect
  <2>1. CASE ResolveEffect
    <3>1. CASE /\ Advanced /\ OnlyChanges({"cached"})
               /\ Installed # << >> /\ Head(Installed) \in 1 .. MaxPackages
               /\ world'.cached = Head(Installed) /\ cmd'.package = Head(Installed)
      <4>1. Head(Installed) # 0
        BY <3>1, OrchestratorAssumption
      <4>2. world'.volumes = world.volumes
        BY <3>1 DEF OnlyChanges, Fields
      <4>3. At("resolve")
        BY <2>1 DEF ResolveEffect
      <4>4. QED
        BY <3>1, <4>1, <4>2, <4>3
    <3>2. CASE Advanced /\ world' = world /\ world.cached # 0 /\ cmd'.package = world.cached
      BY <2>1, <3>2 DEF ResolveEffect
    <3>3. CASE Waited /\ world' = world /\ last' = last /\ cmd'.package = cmd.package
      BY <3>3
    <3>4. CASE FellBack
      BY <3>4 DEF FellBack
    <3>5. CASE Failed(StillQuiet)
      BY <1>2, <3>5
    <3>6. QED
      BY <2>1, <3>1, <3>2, <3>3, <3>4, <3>5 DEF ResolveEffect
  <2>2. CASE ~ResolveEffect
    <3>1. (WentOn \/ WentWrong) /\ ~At("install") /\ ~At("resolve")
      BY <1>3, <1>9, <2>2 DEF EnsureEffect, ImageEffect, StartEffect
    <3>2. QED
      BY <1>2, <1>4, <3>1 DEF WentOn
  <2>3. QED
    BY <2>1, <2>2
<1>10. CASE FaultEffect
  <2>1. ASSUME NEW s \in Warned, At(s)
        PROVE  ~At("install") /\ ~At("resolve")
    BY <1>3, <2>1 DEF Warned
  <2>2. FellBack => cmd'.package = cmd.package
    BY DEF FellBack
  <2>3. QED
    BY <1>2, <1>10, <2>1, <2>2 DEF FaultEffect, DockerEffect
<1>11. CASE ChooseEffect
  BY <1>1, <1>11 DEF ChooseEffect
<1>12. QED
  BY <1>5, <1>6, <1>7, <1>8, <1>9, <1>10, <1>11 DEF Effect

LEMMA HasPackageKept ==
  ASSUME TypeInv, HasPackage, Effect
  PROVE  HasPackage'
<1>0. CommandInv /\ WorldInv /\ Move
  BY Moves DEF TypeInv
<1>1. CASE Started
  <2>1. cmd'.package = 0
    BY <1>1 DEF Started, Idle
  <2>2. Left' = Len(Program)' /\ CommandInv'
    BY <1>0, <1>1, StartedKeepsCourse
  <2>3. cmd'.name = "deploy" => Left' = 18
    <3>1. SUFFICES ASSUME cmd'.name = "deploy" PROVE Left' = 18
      OBVIOUS
    <3>2. Program' = Steps("deploy")
      BY <3>1 DEF Program
    <3>3. QED
      BY <2>2, <3>2, DeployProgram
  <2>4. cmd'.name = "deployCC" => Left' = 9
    <3>1. SUFFICES ASSUME cmd'.name = "deployCC" PROVE Left' = 9
      OBVIOUS
    <3>2. Program' = DeployChaincode
      BY <3>1, NamedPrograms DEF Program
    <3>3. QED
      BY <2>2, <3>2, ChaincodeProgram
  <2>5. cmd'.name = "resume" => cmd'.fallback /\ Left' = 5
    <3>1. SUFFICES ASSUME cmd'.name = "resume" PROVE cmd'.fallback /\ Left' = 5
      OBVIOUS
    <3>2. cmd'.fallback
      BY <1>1, <3>1 DEF Started, Idle
    <3>3. Program' = Steps("resume")
      BY <3>1, <3>2 DEF Program
    <3>4. QED
      BY <2>2, <3>2, <3>3, ResumeProgram
  <2>6. QED
    BY <2>1, <2>3, <2>4, <2>5 DEF HasPackage
<1>2. CASE Advanced
  <2>1. Left' = Left - 1 /\ cmd'.name = cmd.name /\ cmd'.fallback = cmd.fallback /\ cmd' # Idle
    BY <1>0, <1>2, AdvancedKeepsCourse, Exclusive DEF Advanced, Carried
  <2>2. ~Started /\ ~Waited /\ ~FellBack
    BY <1>0, <1>2, Exclusive DEF Advanced, Carried
  <2>3. CASE cmd'.package = cmd.package /\ ~At("install") /\ ~At("resolve")
    <3>1. cmd.name \in {"deploy", "deployCC"} \/ (cmd.name = "resume" /\ ~cmd.fallback) =>
            Left # 8 /\ Left \in 1 .. 18
      BY <1>0, <2>3, DeployAt, ChaincodeAt
    <3>2. cmd.name = "resume" /\ cmd.fallback => Left # 2 /\ Left \in 1 .. 5
      BY <1>0, <2>3, ResumeAt
    <3>3. QED
      BY <2>1, <2>3, <3>1, <3>2 DEF HasPackage
  <2>4. CASE InstallEffect /\ ~WentWrong
    <3>1. cmd'.package # 0 /\ cmd.name # "clean"
      <4>1. cmd'.package \in 1 .. MaxPackages
        BY <1>0, <2>4, InstallVolumes
      <4>2. cmd.name # "clean"
        BY <1>0, <2>4, Places DEF InstallEffect, ChaincodeSteps
      <4>3. QED
        BY <4>1, <4>2
    <3>2. QED
      BY <2>1, <3>1 DEF HasPackage
  <2>5. CASE At("resolve") /\ cmd'.package # 0
    <3>1. cmd.name # "clean"
      BY <1>0, <2>5, Places DEF ChaincodeSteps
    <3>2. QED
      BY <2>1, <2>5, <3>1 DEF HasPackage
  <2>6. QED
    BY <1>0, <2>1, <2>2, <2>3, <2>4, <2>5, PackageMoves
<1>3. CASE Waited
  <2>1. Left' = Left /\ cmd'.name = cmd.name /\ cmd'.fallback = cmd.fallback
    BY <1>0, <1>3, WaitedKeepsCourse DEF Waited, Carried
  <2>2. cmd'.package = cmd.package
    <3>1. cmd' # Idle /\ ~Started /\ ~Advanced
      BY <1>0, <1>3, Exclusive DEF Waited, Carried
    <3>2. ~(InstallEffect /\ ~WentWrong)
      BY <1>0, <3>1, InstallVolumes
    <3>3. QED
      BY <1>0, <1>3, <3>1, <3>2, PackageMoves DEF FellBack
  <2>3. QED
    BY <2>1, <2>2 DEF HasPackage
<1>4. CASE FellBack
  BY <1>0, <1>4, FellBackKeepsCourse DEF FellBack, Carried, HasPackage
<1>5. CASE cmd' = Idle
  BY <1>5 DEF Idle, HasPackage
<1>6. QED
  BY <1>0, <1>1, <1>2, <1>3, <1>4, <1>5 DEF Move, Completed, FailedSomehow, Failed

\* When the last cleaning was whole, so was the one before, unless it is a
\* cleaning without a fault that has just ended.
LEMMA WholeCleaning ==
  ASSUME CommandInv, Effect, ~last'.halfClean
  PROVE  \/ ~last.halfClean /\ (cmd.name = "clean" => cmd'.name = "clean")
         \/ cmd.name = "clean" /\ cmd.quiet /\ Completed
<1>1. Move /\ (cmd.name = "clean" => cmd # Idle)
  BY Moves DEF Idle
<1>2. CASE Started
  BY <1>1, <1>2 DEF Started
<1>3. CASE Advanced \/ FellBack
  BY <1>3 DEF Advanced, FellBack, Carried
<1>4. CASE Waited /\ (last' = last \/ (last'.name = "none" /\ last'.halfClean = last.halfClean))
  <2>1. last'.halfClean = last.halfClean
    BY <1>4
  <2>2. cmd'.name = cmd.name
    BY <1>4 DEF Waited, Carried
  <2>3. QED
    BY <2>1, <2>2
<1>5. CASE Completed
  <2>1. last'.halfClean = IF cmd.name = "clean" THEN ~cmd.quiet ELSE last.halfClean
    BY <1>5 DEF Completed
  <2>2. CASE cmd.name = "clean"
    <3>1. last'.halfClean = ~cmd.quiet
      BY <2>1, <2>2
    <3>2. cmd.quiet
      BY <3>1, Zenon
    <3>3. QED
      BY <1>5, <2>2, <3>2
  <2>3. CASE cmd.name # "clean"
    BY <2>1, <2>3
  <2>4. QED
    BY <2>2, <2>3
<1>6. CASE FailedSomehow
  <2>1. last'.halfClean = (last.halfClean \/ cmd.name = "clean")
    BY <1>6 DEF FailedSomehow, Failed
  <2>2. ~last.halfClean /\ cmd.name # "clean"
    BY <2>1, Zenon
  <2>3. QED
    BY <2>2
<1>7. CASE cmd = Idle /\ cmd' = Idle /\ last'.name = "none" /\ last'.halfClean = last.halfClean
  BY <1>1, <1>7
<1>8. QED
  BY <1>1, <1>2, <1>3, <1>4, <1>5, <1>6, <1>7 DEF Move

\* A deployment finds no network that runs without its certificates.
Certified == cmd.name = "deploy" /\ world.core = "running" => world.certs = "complete"

LEMMA CoreStepKeeps ==
  ASSUME TypeInv, CleanInv, CoreInv, Effect
  PROVE  CoreInv'
<1>0. CommandInv /\ WorldInv
  BY DEF TypeInv
<1> SUFFICES ASSUME world'.core = "running", ~last'.halfClean, ~(cmd'.name = "clean" /\ ~cmd'.quiet)
             PROVE  world'.certs = "complete"
  BY <1>0, AuthorityStands DEF CoreInv
<1>1. CASE cmd.name = "clean" /\ cmd.quiet /\ Completed
  BY <1>1, CleanEnds
<1>2. CASE ~last.halfClean /\ (cmd.name = "clean" => cmd'.name = "clean")
  <2>1. cmd.name = "clean" => cmd.quiet
    <3>1. SUFFICES ASSUME cmd.name = "clean" PROVE cmd.quiet
      OBVIOUS
    <3>2. cmd' # Idle /\ cmd # Idle /\ cmd'.quiet
      BY <1>2, <3>1 DEF Idle
    <3>3. Move
      BY <1>0, Moves
    <3>4. Carried
      BY <3>2, <3>3 DEF Move, Started, Advanced, Waited, FellBack, Completed, FailedSomehow, Failed
    <3>5. QED
      BY <3>2, <3>4 DEF Carried
  <2>2. world.core = "running" => world.certs = "complete"
    BY <1>2, <2>1 DEF CoreInv
  <2>3. QED
    BY <1>0, <2>1, <2>2, CertificatesStand
<1>3. QED
  BY <1>0, <1>1, <1>2, WholeCleaning

\* Only a cleaning takes a package from the volumes.
LEMMA VolumesKept ==
  ASSUME CommandInv, WorldInv, Certified, Effect
  PROVE  \/ cmd.name = "clean" /\ world'.volumes = NoVolumes /\ VolumesEffect
         \/ /\ Elements(Installed) \subseteq Elements(Installed')
            /\ world'.volumes.committed \in {world.volumes.committed, cmd.package}
            /\ cmd.name = "clean" => world'.volumes = world.volumes
<1>1. world.volumes \in VolumesType
  BY DEF WorldInv
<1>2. CASE world'.volumes = world.volumes
  BY <1>2 DEF Installed
<1>3. CASE world'.volumes = NoVolumes /\ VolumesEffect
  <2>1. cmd.name = "clean"
    BY <1>3, Places DEF VolumesEffect, CleanSteps
  <2>2. QED
    BY <1>3, <2>1
<1>a. ~(SyncEffect /\ world.core = "running" /\ world.certs = "none")
  BY Places DEF SyncEffect, DeploySteps, ChaincodeSteps, Certified
<1>4. CASE JoinEffect /\ world'.volumes = [world.volumes EXCEPT !.channel = world.authority]
  <2>1. cmd.name # "clean"
    BY <1>4, Places DEF JoinEffect, DeploySteps, ChaincodeSteps
  <2>2. Installed' = Installed /\ world'.volumes.committed = world.volumes.committed
    BY <1>1, <1>4 DEF VolumesType, Installed
  <2>3. QED
    BY <2>1, <2>2
<1>5. CASE InstallEffect /\ world.core = "running"
  <2>1. cmd.name # "clean"
    BY <1>5, Places DEF InstallEffect, ChaincodeSteps
  <2>2. Advanced
    BY <1>5 DEF InstallEffect
  <2>3. ~WentWrong
    BY <2>2, Exclusive DEF WentWrong, Failed
  <2>4. QED
    BY <1>5, <2>1, <2>3, InstallVolumes
<1>6. CASE ApproveEffect /\ \E o \in Peers : Approves(o)
  <2>1. PICK o \in Peers : Approves(o)
    BY <1>6
  <2>2. world'.volumes = [world.volumes EXCEPT !.approved = @ \cup {o}]
    BY <2>1 DEF Approves
  <2>3. Installed' = Installed /\ world'.volumes.committed = world.volumes.committed
    BY <1>1, <2>2 DEF VolumesType, Installed
  <2>4. cmd.name # "clean"
    BY <1>6, Places DEF ApproveEffect, ChaincodeSteps
  <2>5. QED
    BY <2>3, <2>4
<1>7. CASE CommitEffect /\ ChannelAnswers
  <2>1. cmd.name # "clean"
    BY <1>7, Places DEF CommitEffect, ChaincodeSteps
  <2>2. world'.volumes = [world.volumes EXCEPT !.committed = cmd.package, !.approved = {}]
    BY <1>7 DEF CommitEffect
  <2>3. Installed' = Installed /\ world'.volumes.committed = cmd.package
    BY <1>1, <2>2 DEF VolumesType, Installed
  <2>4. QED
    BY <2>1, <2>3
<1>8. QED
  BY <1>a, <1>2, <1>3, <1>4, <1>5, <1>6, <1>7, VolumesMoves

\* What a step may do to the file with the package's name.
LEMMA FileMoves ==
  ASSUME CommandInv, WorldInv, Effect
  PROVE  \/ world'.cached \in {world.cached, 0}
         \/ /\ Installed # << >> /\ world'.cached = Head(Installed)
            /\ world'.volumes = world.volumes
<1> USE DEF OnlyChanges, Fields, WentWrong
<1>1. CASE CleanEffect
  BY <1>1 DEF CleanEffect, WipeEffect, CleanupEffect, VolumesEffect, LocalDataEffect, DatabaseEffect
<1>2. CASE NetworkEffect
  BY <1>2 DEF NetworkEffect, CryptoEffect, SyncEffect, CAsEffect, EnrollEffect, CoreEffect, JoinEffect
<1>3. CASE ContainerEffect
  BY <1>3 DEF ContainerEffect, PauseEffect, ResumeEffect
<1>4. CASE ChaincodeEffect
  BY <1>4 DEF ChaincodeEffect, BuildEffect, InstallEffect, ApproveEffect, Approves, CommitEffect, RunEffect
<1>5. CASE EnsureEffect
  BY <1>5 DEF EnsureEffect, ImageEffect, ResolveEffect, StartEffect
<1>6. CASE FaultEffect
  BY <1>6 DEF FaultEffect, BrokenCerts, DockerEffect
<1>7. CASE ChooseEffect
  BY <1>7 DEF ChooseEffect
<1>8. QED
  BY <1>1, <1>2, <1>3, <1>4, <1>5, <1>6, <1>7 DEF Effect

LEMMA FirstIsElement ==
  ASSUME WorldInv, Installed # << >>
  PROVE  Head(Installed) \in Elements(Installed)
<1>1. Installed \in Seq(1 .. MaxPackages)
  BY DEF WorldInv, VolumesType, Installed
<1>2. Len(Installed) \in Nat \ {0} /\ Head(Installed) = Installed[1]
  <2> DEFINE P == 1 .. MaxPackages
  <2>1. Installed \in Seq(P)
    BY <1>1
  <2> HIDE DEF P, Installed
  <2>2. QED
    BY <2>1, EmptySeq, HeadTailProperties
<1>3. QED
  BY <1>2 DEF Elements

\* The same after a step, of a package named before or after it.
AccountedAfter(p) == p \in Elements(Installed') \/ (cmd'.name = "clean" /\ world'.volumes = NoVolumes)

\* A package that is known stays known, and outside of a cleaning the volumes
\* hold it.
LEMMA AccountedKept ==
  ASSUME CommandInv, WorldInv, Certified, Effect, cmd.name = "clean" => cmd'.name = "clean",
         NEW p, Accounted(p)
  PROVE  AccountedAfter(p) /\ (cmd.name # "clean" => p \in Elements(Installed))
<1>1. CASE cmd.name = "clean" /\ world'.volumes = NoVolumes
  BY <1>1 DEF Accounted, AccountedAfter
<1>2. CASE /\ Elements(Installed) \subseteq Elements(Installed')
           /\ cmd.name = "clean" => world'.volumes = world.volumes
  BY <1>2 DEF Accounted, AccountedAfter, Installed
<1>3. QED
  BY <1>1, <1>2, VolumesKept

\* The package of a command stays among those of the volumes.
LEMMA CommandNames ==
  ASSUME TypeInv, Certified, HasPackage, NamedPackages, Effect, cmd.name = "clean" => cmd'.name = "clean",
         cmd'.package # 0
  PROVE  cmd'.package \in Elements(Installed')
<1>0. CommandInv /\ WorldInv /\ HasPackage'
  BY HasPackageKept DEF TypeInv
<1>1. cmd.name # "clean"
  BY <1>0 DEF HasPackage
<1>2. Elements(Installed) \subseteq Elements(Installed')
  BY <1>0, <1>1, VolumesKept
<1>3. CASE cmd'.package = cmd.package
  BY <1>2, <1>3 DEF NamedPackages
<1>4. CASE InstallEffect /\ ~WentWrong
  BY <1>0, <1>4, InstallVolumes
<1>5. CASE /\ cmd'.package = world'.cached
           /\ world'.cached = world.cached
              \/ (Installed # << >> /\ world'.cached = Head(Installed))
  <2>1. CASE cmd'.package = world.cached
    <3>1. Accounted(world.cached)
      BY <2>1 DEF NamedPackages
    <3>2. QED
      BY <1>1, <1>2, <2>1, <3>1 DEF Accounted
  <2>2. CASE Installed # << >> /\ cmd'.package = Head(Installed)
    BY <1>0, <1>2, <2>2, FirstIsElement
  <2>3. QED
    BY <1>5, <2>1, <2>2
<1>6. QED
  BY <1>0, <1>3, <1>4, <1>5, PackageMoves

LEMMA NothingToStop == [NoContainer EXCEPT !.up = FALSE] = NoContainer
<1>1. ASSUME NEW v, NEW c \in [id : {0}, up : {v}, rm : {v}]
      PROVE  [c EXCEPT !.up = v] = c
  OBVIOUS
<1>2. NoContainer \in [id : {0}, up : {FALSE}, rm : {FALSE}]
  BY DEF NoContainer
<1>3. QED
  BY <1>1, <1>2, Zenon

\* Every container names a package that is known.
LEMMA ContainersName ==
  ASSUME TypeInv, Certified, HasPackage, NamedPackages, Effect, cmd.name = "clean" => cmd'.name = "clean",
         NEW o \in Peers, world'.ccaas[o] # NoContainer
  PROVE  AccountedAfter(world'.ccaas[o].id)
<1>0. CommandInv /\ WorldInv /\ world.ccaas[o] \in Container
  BY DEF TypeInv, WorldInv
<1>1. \A p : Accounted(p) => AccountedAfter(p)
  BY <1>0, AccountedKept
<1>2. ASSUME world.ccaas[o] # NoContainer, world'.ccaas[o].id = world.ccaas[o].id
      PROVE  AccountedAfter(world'.ccaas[o].id)
  <2>1. Accounted(world.ccaas[o].id)
    BY <1>2 DEF NamedPackages
  <2>2. AccountedAfter(world.ccaas[o].id)
    BY <1>1, <2>1
  <2>3. QED
    BY <1>2, <2>2
<1>3. ASSUME cmd.package # 0, world'.ccaas[o].id = cmd.package
      PROVE  AccountedAfter(world'.ccaas[o].id)
  <2>1. Accounted(cmd.package)
    BY <1>3 DEF NamedPackages, Accounted
  <2>2. QED
    BY <1>1, <1>3, <2>1
<1>4. CASE world'.ccaas = world.ccaas
  BY <1>2, <1>4
<1>5. CASE CleanupEffect
  BY <1>5 DEF CleanupEffect
<1>6. CASE world'.ccaas = [q \in Peers |-> Stopped(world.ccaas[q])]
  <2>1. world'.ccaas[o] = Stopped(world.ccaas[o])
    BY <1>6
  <2>2. world.ccaas[o] # NoContainer /\ Stopped(world.ccaas[o]).id = world.ccaas[o].id
    <3>1. ~world.ccaas[o].rm /\ world'.ccaas[o] = [world.ccaas[o] EXCEPT !.up = FALSE]
      BY <2>1 DEF Stopped
    <3>2. world.ccaas[o] # NoContainer
      <4>1. [NoContainer EXCEPT !.up = FALSE] = NoContainer
        BY NothingToStop, Zenon
      <4>2. QED
        BY <3>1, <4>1
    <3>3. QED
      BY <1>0, <2>1, <3>1, <3>2 DEF Container
  <2>3. QED
    BY <1>2, <2>1, <2>2
<1>7. CASE RunEffect
  <2>1. cmd.package # 0
    <3>1. At("runCCAAS")
      BY <1>7 DEF RunEffect
    <3>2. Left = 4 /\ ~cmd.fallback /\ cmd.name \in {"deploy", "deployCC", "resume"}
      BY <1>0, <3>1, ChaincodePlaces, Places DEF ChaincodeSteps
    <3>3. QED
      BY <3>2 DEF HasPackage
  <2>2. world'.ccaas[o] = IF world.ccaas[o] = NoContainer
                          THEN [id |-> cmd.package, up |-> TRUE, rm |-> TRUE] ELSE world.ccaas[o]
    BY <1>7 DEF RunEffect
  <2>3. QED
    BY <1>2, <1>3, <2>1, <2>2
<1>8. CASE StartEffect
  <2>1. cmd.package # 0
    BY <1>0, <1>8, ChaincodePlaces, Places DEF StartEffect, ChaincodeSteps, HasPackage
  <2>2. world'.ccaas[o] = IF world.ccaas[o].up THEN world.ccaas[o]
                          ELSE [id |-> cmd.package, up |-> TRUE, rm |-> FALSE]
    BY <1>8 DEF StartEffect
  <2>3. QED
    BY <1>2, <1>3, <2>1, <2>2
<1>9. QED
  BY <1>0, <1>4, <1>5, <1>6, <1>7, <1>8, ContainersMoves

LEMMA NamedPackagesKept ==
  ASSUME TypeInv, Certified, HasPackage, NamedPackages, Effect, cmd.name = "clean" => cmd'.name = "clean"
  PROVE  NamedPackages'
<1>0. CommandInv /\ WorldInv
  BY DEF TypeInv
<1>1. world'.volumes.committed # 0 => world'.volumes.committed \in Elements(Installed')
  <2>1. CASE world'.volumes = NoVolumes
    BY <2>1 DEF NoVolumes
  <2>2. CASE /\ Elements(Installed) \subseteq Elements(Installed')
             /\ world'.volumes.committed \in {world.volumes.committed, cmd.package}
    BY <2>2 DEF NamedPackages
  <2>3. QED
    BY <1>0, <2>1, <2>2, VolumesKept
<1>2. world'.cached # 0 => AccountedAfter(world'.cached)
  <2>1. CASE world'.cached = world.cached
    <3>1. world.cached # 0 => AccountedAfter(world.cached)
      BY <1>0, AccountedKept DEF NamedPackages
    <3>2. QED
      BY <2>1, <3>1
  <2>2. CASE Installed # << >> /\ world'.cached = Head(Installed) /\ world'.volumes = world.volumes
    BY <1>0, <2>2, FirstIsElement DEF AccountedAfter, Installed
  <2>3. QED
    BY <1>0, <2>1, <2>2, FileMoves
<1>3. cmd'.package # 0 => cmd'.package \in Elements(Installed')
  BY CommandNames
<1>4. \A o \in Peers : world'.ccaas[o] # NoContainer => AccountedAfter(world'.ccaas[o].id)
  BY ContainersName
<1>5. QED
  BY <1>1, <1>2, <1>3, <1>4 DEF NamedPackages, Accounted, AccountedAfter

LEMMA NamesOnePackage ==
  ASSUME WorldInv, NamedPackages
  PROVE  world.volumes.committed # 0 /\ Len(Installed) = 1 =>
           \A o \in Peers : world.ccaas[o].up => world.ccaas[o].id = world.volumes.committed
<1> SUFFICES ASSUME world.volumes.committed # 0, Len(Installed) = 1,
                    NEW o \in Peers, world.ccaas[o].up
             PROVE  world.ccaas[o].id = world.volumes.committed
  OBVIOUS
<1>1. Elements(Installed) = {Installed[1]}
  BY DEF Elements
<1>2. world.volumes.committed \in Elements(Installed)
  BY DEF NamedPackages
<1>3. world.ccaas[o] # NoContainer
  BY DEF NoContainer
<1>4. world.volumes # NoVolumes
  BY DEF NoVolumes
<1>5. world.ccaas[o].id \in Elements(Installed)
  BY <1>3, <1>4 DEF NamedPackages, Accounted
<1>6. QED
  BY <1>1, <1>2, <1>5

ServedOnceInv == ZeroInv /\ CoreInv /\ PackageInv

LEMMA ServedOnceStep == ServedOnceInv /\ [Next]_vars => ServedOnceInv'
<1> SUFFICES ASSUME ServedOnceInv, [Next]_vars PROVE ServedOnceInv'
  OBVIOUS
<1>1. ZeroInv'
  BY ZeroStep DEF ServedOnceInv
<1>2. CASE Next
  <2>1. TypeInv /\ CleanInv /\ CoreInv /\ HasPackage /\ CommandInv /\ WorldInv /\ Effect
    BY <1>2, Effects DEF ServedOnceInv, ZeroInv, PackageInv, TypeInv
  <2>2. HasPackage'
    BY <2>1, HasPackageKept
  <2>3. ASSUME ~last'.halfClean PROVE NamedPackages'
    <3>1. CASE ~last.halfClean /\ (cmd.name = "clean" => cmd'.name = "clean")
      <4>1. Certified
        BY <3>1, <2>1 DEF CoreInv, Certified
      <4>2. QED
        BY <2>1, <3>1, <4>1, NamedPackagesKept DEF ServedOnceInv, PackageInv
    <3>2. CASE cmd.name = "clean" /\ cmd.quiet /\ Completed
      <4>1. /\ world'.ccaas = [o \in Peers |-> NoContainer]
            /\ world'.volumes = NoVolumes /\ world'.cached = 0
        BY <2>1, <3>2, CleanEnds
      <4>2. cmd'.package = 0 /\ world'.volumes.committed = 0
        BY <3>2, <4>1 DEF Completed, Idle, NoVolumes
      <4>3. QED
        BY <4>1, <4>2 DEF NamedPackages
    <3>3. QED
      BY <2>1, <2>3, <3>1, <3>2, WholeCleaning
  <2>4. CoreInv'
    BY <2>1, CoreStepKeeps
  <2>5. QED
    BY <1>1, <2>2, <2>3, <2>4 DEF ServedOnceInv, PackageInv
<1>3. CASE UNCHANGED vars
  <2>1. world' = world /\ cmd' = cmd /\ last' = last
    BY <1>3 DEF vars
  <2>2. PackageInv' /\ CoreInv'
    BY <2>1 DEF ServedOnceInv, CoreInv, PackageInv, HasPackage, NamedPackages, Accounted, Left, Installed
  <2>3. QED
    BY <1>1, <2>2 DEF ServedOnceInv
<1>4. QED
  BY <1>2, <1>3

\* ccaas.go:20-59, 102-122: while the volumes hold one package, every chaincode
\* container runs it, whatever id the file holds, whether or not the peer answers
\* and whatever failed or was broken off before, other than in the last cleaning.
THEOREM OnePackageInvariant == Spec => []OnePackageServed
<1>1. Init => PackageInv /\ CoreInv
  BY DEF Init, Idle, ZeroWorld, NoVolumes, CoreInv, PackageInv, HasPackage, NamedPackages
<1>2. Init => ZeroInv
  <2>1. Init => CleanInv /\ CleanReachesZero
    BY DEF Init, Idle, Nothing, CleanInv, CleanReachesZero, Ended
  <2>2. QED
    BY <2>1, TypeInit DEF ZeroInv
<1>3. Init => ServedOnceInv
  BY <1>1, <1>2 DEF ServedOnceInv
<1>4. ServedOnceInv => OnePackageServed
  BY NamesOnePackage DEF ServedOnceInv, ZeroInv, TypeInv, PackageInv, OnePackageServed, Installed
<1>5. QED
  BY <1>3, <1>4, ServedOnceStep, PTL DEF Spec

-----------------------------------------------------------------------------
(***************************************************************************)
(* The inductive invariant.                                                *)
(***************************************************************************)

\* The present authority is the last one that was made, or an earlier one.
AuthorityInv ==
  /\ DOMAIN world = Fields
  /\ world.nCerts \in Nat /\ world.authority \in Nat
  /\ world.authority <= world.nCerts

Known(u, r, cert) ==
  /\ cert \in Nat /\ cert # 0 /\ cert <= world.nCerts
  /\ cert = world.authority => names[u] = r

\* What a registration that is about to store its account knows of the name.
RequestInv ==
  /\ DOMAIN req = Requests
  /\ \A r \in Requests : DOMAIN req[r] = {"pc", "user", "cert"}
  /\ \A r \in Requests : req[r].pc \notin {"idle", "done"} => req[r].user \in Users
  /\ \A r \in Requests : req[r].pc = "create" => Known(req[r].user, r, req[r].cert)

RowInv ==
  /\ rows \in [Users -> [owner : Requests \cup {Nil}, cert : Nat]]
  /\ \A u \in Users : rows[u] # NoRow =>
       rows[u].owner \in Requests /\ Known(u, rows[u].owner, rows[u].cert)

AccountInv ==
  /\ AuthorityInv
  /\ names \in [Users -> Requests \cup {Nil}]
  /\ RequestInv
  /\ RowInv

-----------------------------------------------------------------------------
(***************************************************************************)
(* What the console does to the authority.                                 *)
(***************************************************************************)
SameAuthority ==
  /\ DOMAIN world' = Fields
  /\ world'.authority = world.authority /\ world'.nCerts = world.nCerts

NoAuthority ==
  /\ DOMAIN world' = Fields
  /\ world'.authority = 0 /\ world'.nCerts = world.nCerts

NewAuthority ==
  /\ DOMAIN world' = Fields
  /\ world'.authority = world.nCerts + 1 /\ world'.nCerts = world.nCerts + 1

\* main.go and artifacts.go: the removal of files takes the authority away or
\* leaves it alone.
LEMMA CleaningSteps ==
  ASSUME DOMAIN world = Fields, CleanStep
  PROVE  SameAuthority \/ NoAuthority
<1>1. CASE WipeNetworkArtifacts
  BY <1>1 DEF WipeNetworkArtifacts, NoCerts, Then, Fields, SameAuthority, NoAuthority
<1>2. CASE Cleanup
  BY <1>2 DEF Cleanup, Then, Fields, SameAuthority
<1>3. CASE CleanupVolumes
  BY <1>3 DEF CleanupVolumes, Then, Fields, SameAuthority
<1>4. CASE RemoveLocalData
  BY <1>4 DEF RemoveLocalData, Then, Fields, SameAuthority
<1>5. CASE NetworkDown
  BY <1>5 DEF NetworkDown, NoCerts, Then, Fields, SameAuthority, NoAuthority
<1>6. QED
  BY <1>1, <1>2, <1>3, <1>4, <1>5 DEF CleanStep

\* network.sh:157-269 and artifacts.go:82-92: an authority is made where there is
\* none, and gets a number of its own.
LEMMA NetworkSteps ==
  ASSUME DOMAIN world = Fields, NetworkStep
  PROVE  SameAuthority \/ NoAuthority \/ NewAuthority
<1>1. CASE EnsureCryptoMaterial
  BY <1>1 DEF EnsureCryptoMaterial, NoCerts, Then, Fields, SameAuthority, NoAuthority
<1>2. CASE CreateOrgs
  <2>1. CASE At("startCAs") /\ Then(IF world.certs # "none" THEN world
             ELSE [world EXCEPT !.cas = "running",
                                !.authority = IF @ = 0 THEN world.nCerts + 1 ELSE @,
                                !.nCerts = IF world.authority = 0 THEN @ + 1 ELSE @])
    BY <2>1 DEF Then, Fields, SameAuthority, NewAuthority
  <2>2. CASE ~At("startCAs")
    BY <1>2, <2>2 DEF CreateOrgs, Then, Fields, SameAuthority
  <2>3. CASE At("startCAs")
    BY <1>2, <2>1, <2>3 DEF CreateOrgs, At
  <2>4. QED
    BY <2>2, <2>3
<1>3. CASE StartCore
  BY <1>3 DEF StartCore, Then, Fields, SameAuthority
<1>4. CASE CreateChannel
  BY <1>4 DEF CreateChannel, Then, Fails, Fields, SameAuthority
<1>5. CASE SyncCerts
  BY <1>5 DEF SyncCerts, NoCerts, Then, Fields, SameAuthority, NoAuthority
<1>6. QED
  BY <1>1, <1>2, <1>3, <1>4, <1>5 DEF NetworkStep

\* Every other call of the console leaves the authority's files alone, and so do
\* the faults.
LEMMA OtherSteps ==
  ASSUME DOMAIN world = Fields,
         ContainerStep \/ ChaincodeStep \/ DatabaseStep \/ EnsureStep
  PROVE  SameAuthority
<1>1. CASE ContainerStep
  BY <1>1 DEF ContainerStep, StopCCAASContainers, StopContainers, StartContainers,
              VerifyCoreContainersRunning, Then, Fails, Fields, SameAuthority
<1>2. CASE ChaincodeStep
  <2>1. CASE Install
    BY <2>1 DEF Install, Fails, Fields, SameAuthority
  <2>2. CASE Build \/ Approve \/ Commit
    BY <2>2 DEF Build, Approve, Commit, Then, Fails, Fields, SameAuthority
  <2>3. CASE StartDockerContainer
    BY <2>3 DEF StartDockerContainer, Fields, SameAuthority
  <2>4. QED
    BY <1>2, <2>1, <2>2, <2>3 DEF ChaincodeStep
<1>3. CASE DatabaseStep
  BY <1>3 DEF DatabaseStep, ResetDatabase, Seed, Then, Fields, SameAuthority
<1>4. CASE EnsureStep
  <2>1. CASE DockerImageExists \/ StartCCAAS
    BY <2>1 DEF DockerImageExists, StartCCAAS, Then, Fails, Fields, SameAuthority
  <2>2. CASE QueryInstalled \/ QueryAgain \/ UseCache
    BY <2>2 DEF QueryInstalled, QueryAgain, UseCache, Resolved, Fields, SameAuthority
  <2>3. QED
    BY <1>4, <2>1, <2>2 DEF EnsureStep
<1>5. QED
  BY <1>1, <1>2, <1>3, <1>4

\* What a step of the console does to the authority, in one of three ways.
LEMMA ConsoleSteps ==
  ASSUME DOMAIN world = Fields, Next
  PROVE  SameAuthority \/ NoAuthority \/ NewAuthority
<1>1. CASE Step
  BY <1>1, CleaningSteps, NetworkSteps, OtherSteps DEF Step
<1>2. CASE \E name \in Menu : Choose(name)
  BY <1>2 DEF Choose, SameAuthority
<1>3. CASE StepIgnored \/ StepFails
  BY <1>3 DEF StepIgnored, StepFails, Fields, SameAuthority
<1>4. CASE Killed \/ DockerRestarts
  BY <1>4 DEF Killed, DockerRestarts, Fields, SameAuthority
<1>5. QED
  BY <1>1, <1>2, <1>3, <1>4 DEF Next

-----------------------------------------------------------------------------
(***************************************************************************)
(* The invariant is kept.                                                  *)
(***************************************************************************)
LEMMA AccountInvInit == ClientInit => AccountInv
<1> SUFFICES ASSUME ClientInit PROVE AccountInv
  OBVIOUS
<1>1. AuthorityInv
  BY DEF ClientInit, Init, ZeroWorld, AuthorityInv, Fields
<1>2. RequestInv
  BY DEF ClientInit, RequestInv
<1>3. RowInv
  BY DEF ClientInit, RowInv, NoRow
<1>4. QED
  BY <1>1, <1>2, <1>3 DEF AccountInv, ClientInit

\* An account or a request keeps its standing through a step of the console: the
\* certificate is no later authority's.
LEMMA ConsoleKeepsInv ==
  ASSUME AccountInv, Console
  PROVE  AccountInv'
<1>1. SameAuthority \/ NoAuthority \/ NewAuthority
  BY ConsoleSteps DEF Console, AccountInv, AuthorityInv
<1>2. AuthorityInv'
  BY <1>1 DEF AccountInv, AuthorityInv, SameAuthority, NoAuthority, NewAuthority
<1>3. names' \in [Users -> Requests \cup {Nil}]
  BY DEF AccountInv, Console
<1>4. ASSUME NEW u \in Users, NEW r \in Requests, NEW cert, Known(u, r, cert)
      PROVE  Known(u, r, cert)'
  <2>1. cert <= world'.nCerts
    BY <1>1, <1>4 DEF Known, SameAuthority, NoAuthority, NewAuthority, AccountInv, AuthorityInv
  <2>2. ASSUME cert = world'.authority
        PROVE  world'.authority = world.authority
    BY <1>1, <1>4, <2>2 DEF Known, SameAuthority, NoAuthority, NewAuthority, AccountInv, AuthorityInv
  <2>3. cert = world'.authority => names'[u] = r
    BY <1>4, <2>2 DEF Known, Console
  <2>4. QED
    BY <1>4, <2>1, <2>3 DEF Known
<1>5. RequestInv'
  BY <1>4 DEF AccountInv, RequestInv, Console
<1>6. RowInv'
  <2>1. rows' \in [Users -> [owner : Requests \cup {Nil}, cert : Nat]]
    BY DEF AccountInv, RowInv, Console, NoRow
  <2>2. ASSUME NEW u \in Users, rows'[u] # NoRow
        PROVE  rows'[u].owner \in Requests /\ Known(u, rows[u].owner, rows[u].cert)'
    <3>1. rows' = rows
      BY <2>2 DEF Console
    <3>2. rows[u].owner \in Requests /\ Known(u, rows[u].owner, rows[u].cert)
      BY <2>2, <3>1 DEF AccountInv, RowInv
    <3>3. QED
      BY <1>4, <3>1, <3>2 DEF Known
  <2>3. QED
    BY <2>1, <2>2 DEF RowInv
<1>7. QED
  BY <1>2, <1>3, <1>5, <1>6 DEF AccountInv

\* The process and its requests leave the authority alone.
LEMMA ProcessKeepsInv ==
  ASSUME AccountInv, StartClient \/ StopClient
  PROVE  AccountInv'
<1>1. AuthorityInv' /\ world'.authority = world.authority /\ world'.nCerts = world.nCerts
  BY DEF AccountInv, AuthorityInv, StartClient, StopClient, Fields
<1>2. names' = names /\ rows' = rows
  BY DEF StartClient, StopClient
<1>3. RowInv'
  BY <1>1, <1>2 DEF AccountInv, RowInv, Known
<1>4. RequestInv'
  BY <1>1, <1>2 DEF AccountInv, RequestInv, Known, StartClient, StopClient
<1>5. QED
  BY <1>1, <1>2, <1>3, <1>4 DEF AccountInv

LEMMA RequestKeepsInv ==
  ASSUME AccountInv, NEW r \in Requests,
         RequestStep(r) \/ CallFails(r) \/ \E u \in Users : Begin(r, u)
  PROVE  AccountInv'
<1> USE DEF AccountInv
<1>1. CASE (\E u \in Users : Begin(r, u)) \/ Check(r) \/ CallFails(r)
  <2>1. world' = world /\ names' = names /\ rows' = rows
    BY <1>1 DEF Begin, Check, CallFails, vars
  <2>2. RequestInv'
    BY <1>1, <2>1 DEF RequestInv, Known, Begin, Check, CallFails, Goto
  <2>3. QED
    BY <2>1, <2>2 DEF AuthorityInv, RowInv, Known
<1>2. CASE EnsureRegistrarHome(r)
  <2>1. AuthorityInv' /\ world'.authority = world.authority /\ world'.nCerts = world.nCerts
    BY <1>2 DEF EnsureRegistrarHome, AuthorityInv, Fields
  <2>2. names' = names /\ rows' = rows
    BY <1>2 DEF EnsureRegistrarHome
  <2>3. RequestInv'
    BY <1>2, <2>1, <2>2 DEF RequestInv, Known, EnsureRegistrarHome, Goto
  <2>4. QED
    BY <2>1, <2>2, <2>3 DEF RowInv, Known
<1>3. CASE RegisterName(r)
  <2>1. world' = world /\ rows' = rows
    BY <1>3 DEF RegisterName, vars
  <2>2. req[r].user \in Users /\ names' \in [Users -> Requests \cup {Nil}]
    BY <1>3 DEF RegisterName, RequestInv
  <2>3. ASSUME NEW u \in Users, NEW q \in Requests, NEW cert, Known(u, q, cert)
        PROVE  Known(u, q, cert)'
    BY <1>3, <2>1, <2>2, <2>3, ClientAssumption DEF Known, RegisterName
  <2>4. RowInv'
    BY <2>1, <2>3 DEF RowInv
  <2>5. RequestInv'
    BY <1>3, <2>3 DEF RequestInv, RegisterName, Goto
  <2>6. QED
    BY <2>1, <2>2, <2>4, <2>5 DEF AuthorityInv
<1>4. CASE Enroll(r)
  <2>1. world' = world /\ names' = names /\ rows' = rows
    BY <1>4 DEF Enroll, vars
  <2>2. req[r].user \in Users
    BY <1>4 DEF Enroll, RequestInv
  <2>3. AuthorityAnswers /\ names[req[r].user] = r => Known(req[r].user, r, world.authority)
    BY DEF AuthorityAnswers, Known, AuthorityInv
  <2>4. RequestInv'
    BY <1>4, <2>1, <2>2, <2>3 DEF RequestInv, Known, Enroll, AuthorityInv
  <2>5. QED
    BY <2>1, <2>4 DEF AuthorityInv, RowInv, Known
<1>5. CASE Create(r)
  <2>1. world' = world /\ names' = names
    BY <1>5 DEF Create, vars
  <2>2. req[r].user \in Users /\ Known(req[r].user, r, req[r].cert)
    BY <1>5 DEF Create, RequestInv
  <2>3. RowInv'
    BY <1>5, <2>1, <2>2 DEF RowInv, Create, Known
  <2>4. RequestInv'
    BY <1>5, <2>1 DEF RequestInv, Known, Create, Goto
  <2>5. QED
    BY <2>1, <2>3, <2>4 DEF AuthorityInv
<1>6. QED
  BY <1>1, <1>2, <1>3, <1>4, <1>5 DEF RequestStep

\* auth_service.go:24-55, for any users and any faults: the inductive invariant
\* of the accounts.
THEOREM AccountInvariant == ClientSpec => []AccountInv
<1>1. ASSUME AccountInv, [ClientNext]_allVars
      PROVE  AccountInv'
  <2>1. CASE UNCHANGED allVars
    BY <1>1, <2>1 DEF allVars, vars, clientVars, AccountInv, AuthorityInv, RequestInv, RowInv, Known
  <2>2. CASE ClientNext
    BY <1>1, <2>2, ConsoleKeepsInv, ProcessKeepsInv, RequestKeepsInv DEF ClientNext
  <2>3. QED
    BY <1>1, <2>1, <2>2
<1>2. QED
  BY <1>1, AccountInvInit, PTL DEF ClientSpec

\* auth_service.go:24-55: an account has a certificate, and one of the present
\* authority is that of the request that registered its name there, for any
\* number of users, registrations, commands and faults.
THEOREM AccountsAreKnown == ClientSpec => []AccountsKnownToCA
<1>1. AccountInv => AccountsKnownToCA
  BY DEF AccountInv, RowInv, Known, AccountsKnownToCA
<1>2. QED
  BY <1>1, AccountInvariant, PTL

-----------------------------------------------------------------------------
(***************************************************************************)
(* The registrar's certificate.  A command that is broken off, or a step   *)
(* that is passed over, can leave it behind the authority that issued it;  *)
(* what follows is about a console whose commands run undisturbed, beside  *)
(* any number of registrations, calls that fail and stops of the process.  *)
(***************************************************************************)
Undisturbed == Kinds \subseteq {"query", "call", "stop"}

\* The certificates are there with their authority, neither is there, or a
\* deployment is about to make the certificates.
CertificatesFit ==
  \/ world.certs = "complete" /\ world.authority # 0
  \/ world.certs = "none" /\ world.authority = 0
  \/ /\ cmd.name = "deploy" /\ world.authority # 0 /\ world.cas = "running"
     /\ \/ world.certs = "none" /\ Left = 14
        \/ world.certs = "partial" /\ Left = 13

DeployPoint == cmd.name = "deploy" /\ Left <= 14 => world.authority # 0

CleaningPoint ==
  cmd.name = "clean" =>
    /\ Left <= 11 => world.cas = "absent"
    /\ Left <= 9 => world.authority = 0
    /\ Left <= 3 => world.registrar = 0

\* The registrar is one of the present authority, unless a cleaning has stopped
\* the authority and not yet come to the registrar.
RegistrarKnown ==
  world.registrar # 0 =>
    world.registrar = world.authority \/ (cmd.name = "clean" /\ world.cas = "absent")

RegistrarInv == CertificatesFit /\ DeployPoint /\ CleaningPoint /\ RegistrarKnown

\* Without a fault the console takes steps of its commands only.
LEMMA UndisturbedEffects ==
  ASSUME Undisturbed, CommandInv, WorldInv, Next
  PROVE  ChooseEffect \/ CleanEffect \/ NetworkEffect \/ ContainerEffect \/ ChaincodeEffect \/ EnsureEffect
<1>1. CASE \E name \in Menu : Choose(name)
  BY <1>1, ChooseEffects
<1>2. CASE CleanStep
  BY <1>2, CleanEffects DEF CleanEffect
<1>3. CASE DatabaseStep
  BY <1>3, DatabaseEffects DEF CleanEffect
<1>4. CASE NetworkStep
  BY <1>4, NetworkEffects DEF NetworkEffect
<1>5. CASE ContainerStep
  BY <1>5, ContainerEffects DEF ContainerEffect
<1>6. CASE ChaincodeStep
  BY <1>6, ChaincodeEffects DEF ChaincodeEffect
<1>7. CASE EnsureStep
  BY <1>7, EnsureEffects DEF EnsureEffect
<1>8. ~(StepIgnored \/ StepFails \/ Killed \/ DockerRestarts)
  BY DEF Undisturbed, StepIgnored, StepFails, Killed, DockerRestarts, Fault
<1>9. QED
  BY <1>1, <1>2, <1>3, <1>4, <1>5, <1>6, <1>7, <1>8 DEF Next, Step

\* A step of a cleaning.
LEMMA CleaningKeepsRegistrar ==
  ASSUME CommandInv, WorldInv, RegistrarInv, cmd.name = "clean",
         CleanEffect \/ NetworkEffect \/ ContainerEffect \/ ChaincodeEffect \/ EnsureEffect
  PROVE  RegistrarInv'
<1>1. \A s \in StepNames \ CleanSteps : ~At(s)
  BY CleanAt
<1>2. /\ ~At("seed") /\ ~At("ensureCrypto") /\ ~At("sync") /\ ~At("startCAs") /\ ~At("enroll") /\ ~At("enrollRest")
      /\ ~At("startCore") /\ ~At("join") /\ ~At("stopContainers") /\ ~At("startContainers")
      /\ ~At("verify") /\ \A s \in ChaincodeSteps : ~At(s)
  BY <1>1 DEF StepNames, CleanSteps, DeploySteps, ChaincodeSteps, PauseSteps, ResumeSteps
<1>3. ~NetworkEffect
  BY <1>2 DEF NetworkEffect, CryptoEffect, SyncEffect, CAsEffect, EnrollEffect, CoreEffect, JoinEffect
<1>4. ~ChaincodeEffect /\ ~EnsureEffect
  BY <1>2 DEF ChaincodeEffect, BuildEffect, InstallEffect, ApproveEffect, CommitEffect, RunEffect,
    EnsureEffect, ImageEffect, ResolveEffect, StartEffect, ChaincodeSteps
<1>5. ContainerEffect => At("stopCCAAS") /\ WentOn /\ OnlyChanges({"ccaas"})
  BY <1>2 DEF ContainerEffect, PauseEffect, ResumeEffect
<1>6. /\ WentOn
      /\ \/ At("stopCCAAS") /\ OnlyChanges({"ccaas"})
         \/ WipeEffect \/ CleanupEffect \/ VolumesEffect \/ LocalDataEffect
         \/ ~At("seed") /\ DatabaseEffect
  BY <1>2, <1>3, <1>4, <1>5 DEF CleanEffect, WipeEffect, CleanupEffect, VolumesEffect, LocalDataEffect, DatabaseEffect
<1>7. Left \in 1 .. 13
  BY CleanAt
<1>8. \/ cmd'.name = "clean" /\ Left' = Left - 1
      \/ cmd'.name = "none" /\ Left = 1
  BY <1>6, AdvancedKeepsCourse DEF WentOn, Advanced, Carried, Completed, Idle
<1> USE DEF OnlyChanges, Fields, RegistrarInv, CertificatesFit, DeployPoint, CleaningPoint, RegistrarKnown
<1>9. CASE At("stopCCAAS") /\ OnlyChanges({"ccaas"})
  <2>1. Left = 13
    BY <1>9, CleanAt
  <2>2. QED
    BY <1>8, <1>9, <2>1
<1>10. CASE WipeEffect
  <2>1. Left \in {10, 8, 7} /\ (At("wipeOrgs") => Left = 8)
    BY <1>10, CleanAt DEF WipeEffect
  <2>2. QED
    BY <1>8, <1>10, <2>1 DEF WipeEffect
<1>11. CASE CleanupEffect
  <2>1. Left \in {12, 9, 6}
    BY <1>11, CleanAt DEF CleanupEffect
  <2>2. QED
    BY <1>8, <1>11, <2>1 DEF CleanupEffect
<1>12. CASE VolumesEffect
  <2>1. (At("removeVolumes") => Left = 5) /\ (At("downVolumes") => Left = 11)
    BY CleanAt
  <2>2. QED
    BY <1>8, <1>12, <2>1 DEF VolumesEffect
<1>13. CASE LocalDataEffect
  <2>1. (At("removeRegistrar") => Left = 4) /\ (At("removeCache") => Left = 3)
    BY CleanAt
  <2>2. QED
    BY <1>8, <1>13, <2>1 DEF LocalDataEffect
<1>14. CASE ~At("seed") /\ DatabaseEffect
  <2>1. (At("drop") => Left = 2) /\ (At("create") => Left = 1)
    BY CleanAt
  <2>2. QED
    BY <1>8, <1>14, <2>1 DEF DatabaseEffect
<1>15. QED
  BY <1>6, <1>9, <1>10, <1>11, <1>12, <1>13, <1>14

\* A step of a deployment before the channel is made.
LEMMA DeployingKeepsRegistrar ==
  ASSUME CommandInv, WorldInv, RegistrarInv, cmd.name = "deploy", Left >= 12,
         CleanEffect \/ NetworkEffect \/ ContainerEffect \/ ChaincodeEffect \/ EnsureEffect
  PROVE  RegistrarInv'
<1>1. Left \in 12 .. 18 /\ \A s \in StepNames \ DeploySteps : ~At(s)
  BY DeployAt
<1>2. /\ ~At("stopCCAAS") /\ ~At("downVolumes") /\ ~At("downCerts") /\ ~At("wipeOrgs") /\ ~At("wipeCAs")
      /\ ~At("removeVolumes") /\ ~At("removeRegistrar") /\ ~At("removeCache") /\ ~At("drop") /\ ~At("create")
      /\ ~At("stopContainers") /\ ~At("startContainers") /\ ~At("verify")
  BY <1>1 DEF StepNames, CleanSteps, DeploySteps, ChaincodeSteps, PauseSteps, ResumeSteps
<1>3. ~At("seed") /\ ~At("join") /\ \A s \in ChaincodeSteps : ~At(s)
  BY <1>1, DeployAt DEF ChaincodeSteps
<1>4. ~ContainerEffect
  BY <1>2 DEF ContainerEffect, PauseEffect, ResumeEffect
<1>5. ~ChaincodeEffect /\ ~EnsureEffect
  BY <1>3 DEF ChaincodeEffect, BuildEffect, InstallEffect, ApproveEffect, CommitEffect, RunEffect,
    EnsureEffect, ImageEffect, ResolveEffect, StartEffect, ChaincodeSteps
<1>6. CleanEffect => CleanupEffect
  BY <1>2, <1>3 DEF CleanEffect, WipeEffect, VolumesEffect, LocalDataEffect, DatabaseEffect
<1>7. ~JoinEffect
  BY <1>3 DEF JoinEffect
<1>8. /\ WentOn
      /\ CleanupEffect \/ CryptoEffect \/ SyncEffect \/ CAsEffect \/ EnrollEffect \/ CoreEffect
  BY <1>4, <1>5, <1>6, <1>7 DEF NetworkEffect, CleanupEffect, CryptoEffect, SyncEffect, CAsEffect, EnrollEffect, CoreEffect
<1>9. cmd'.name = "deploy" /\ Left' = Left - 1
  BY <1>1, <1>8, AdvancedKeepsCourse DEF WentOn, Advanced, Carried, Completed
<1>10. world.authority \in Nat /\ world.nCerts \in Nat
  BY OrchestratorAssumption DEF WorldInv
<1> USE DEF OnlyChanges, Fields, RegistrarInv, CertificatesFit, DeployPoint, CleaningPoint, RegistrarKnown
<1>11. CASE CleanupEffect
  <2>1. Left = 18
    BY <1>11, DeployAt DEF CleanupEffect
  <2>2. QED
    BY <1>9, <1>11, <2>1 DEF CleanupEffect
<1>12. CASE CryptoEffect
  <2>1. Left = 17
    BY <1>12, DeployAt DEF CryptoEffect
  <2>2. QED
    BY <1>9, <1>12, <2>1 DEF CryptoEffect, CryptoMaterialReady
<1>13. CASE CAsEffect
  <2>1. Left = 15
    BY <1>13, DeployAt DEF CAsEffect
  <2>2. QED
    BY <1>9, <1>10, <1>13, <2>1 DEF CAsEffect
<1>14. CASE EnrollEffect
  <2>1. (At("enroll") => Left = 14) /\ (At("enrollRest") => Left = 13)
    BY DeployAt
  <2>2. QED
    BY <1>9, <1>14, <2>1 DEF EnrollEffect
<1>15. CASE CoreEffect
  <2>1. Left = 12
    BY <1>15, DeployAt DEF CoreEffect
  <2>2. QED
    BY <1>9, <1>15, <2>1 DEF CoreEffect
<1>16. CASE SyncEffect
  <2>1. Left = 16
    BY <1>16, DeployAt DEF SyncEffect
  <2>2. /\ world'.certs = world.certs /\ world'.authority = world.authority
        /\ world'.registrar = world.registrar
    BY <1>16, <2>1 DEF SyncEffect
  <2>3. QED
    BY <1>9, <2>1, <2>2
<1>17. QED
  BY <1>8, <1>11, <1>12, <1>13, <1>14, <1>15, <1>16

\* Every other step leaves certificates, authority and registrar alone.
LEMMA OthersKeepRegistrar ==
  ASSUME CommandInv, WorldInv, RegistrarInv, cmd.name # "clean",
         cmd.name = "deploy" => Left <= 11,
         ChooseEffect \/ CleanEffect \/ NetworkEffect \/ ContainerEffect \/ ChaincodeEffect \/ EnsureEffect
  PROVE  RegistrarInv'
<1>1. \A s \in CleanSteps \ {"stopCCAAS"} : ~At(s)
  BY Places DEF CleanSteps
<1>2. \A f \in {"certs", "authority", "registrar"} : world'[f] = world[f]
  <2> USE DEF OnlyChanges, Fields, WentWrong
  <2>1. CASE ChooseEffect
    BY <2>1 DEF ChooseEffect
  <2>2. CASE CleanEffect
    <3>1. ~WipeEffect /\ ~CleanupEffect /\ ~VolumesEffect /\ ~LocalDataEffect
      BY <1>1 DEF CleanSteps, WipeEffect, CleanupEffect, VolumesEffect, LocalDataEffect
    <3>2. QED
      BY <2>2, <3>1 DEF CleanEffect, DatabaseEffect
  <2>3. CASE NetworkEffect
    <3>1. /\ ~At("ensureCrypto") /\ ~At("sync") /\ ~At("startCAs") /\ ~At("enroll")
          /\ ~At("enrollRest") /\ ~At("startCore")
      <4>1. CASE cmd.name = "deploy"
        <5>1. Left \in 1 .. 11
          BY <4>1, DeployAt
        <5>2. QED
          BY <4>1, <5>1, DeployAt
      <4>2. CASE cmd.name # "deploy"
        BY <4>2, Places DEF DeploySteps, ChaincodeSteps
      <4>3. QED
        BY <4>1, <4>2
    <3>2. JoinEffect
      BY <2>3, <3>1 DEF NetworkEffect, CryptoEffect, SyncEffect, CAsEffect, EnrollEffect, CoreEffect
    <3>3. QED
      BY <3>2 DEF JoinEffect
  <2>4. CASE ContainerEffect
    BY <2>4 DEF ContainerEffect, PauseEffect, ResumeEffect
  <2>5. CASE ChaincodeEffect \/ EnsureEffect
    BY <2>5, ChaincodeFrame
  <2>6. QED
    BY <2>1, <2>2, <2>3, <2>4, <2>5
<1>3. \/ world.certs = "complete" /\ world.authority # 0
      \/ world.certs = "none" /\ world.authority = 0
  BY DEF RegistrarInv, CertificatesFit
<1>4. world.registrar # 0 => world.registrar = world.authority
  BY DEF RegistrarInv, RegistrarKnown
<1>5. cmd'.name = "clean" => Left' = 13
  <2>1. SUFFICES ASSUME cmd'.name = "clean" PROVE Left' = 13
    OBVIOUS
  <2>2. Started
    <3>1. Move
      BY Moves DEF Effect
    <3>2. QED
      BY <2>1, <3>1 DEF Move, Advanced, Waited, FellBack, Carried, Completed, FailedSomehow, Failed, Idle
  <2>3. QED
    BY <2>1, <2>2, StartedKeepsCourse, NamedPrograms, CleanProgram DEF Program
<1>6. cmd'.name = "deploy" => Left' = 18 \/ cmd.name = "deploy"
  <2>1. SUFFICES ASSUME cmd'.name = "deploy", cmd.name # "deploy" PROVE Left' = 18
    OBVIOUS
  <2>2. Started
    <3>1. Move
      BY Moves DEF Effect
    <3>2. QED
      BY <2>1, <3>1 DEF Move, Advanced, Waited, FellBack, Carried, Completed, FailedSomehow, Failed, Idle
  <2>3. Program' = Steps("deploy")
    BY <2>1 DEF Program
  <2>4. QED
    BY <2>2, <2>3, StartedKeepsCourse, DeployProgram
<1>7. CertificatesFit' /\ RegistrarKnown'
  BY <1>2, <1>3, <1>4 DEF CertificatesFit, RegistrarKnown
<1>8. CleaningPoint'
  BY <1>5 DEF CleaningPoint
<1>9. DeployPoint'
  <2>1. cmd.name = "deploy" => world.authority # 0
    <3>1. SUFFICES ASSUME cmd.name = "deploy" PROVE world.authority # 0
      OBVIOUS
    <3>2. Left \in 1 .. 11
      BY <3>1, DeployAt
    <3>3. QED
      BY <3>1, <3>2 DEF RegistrarInv, DeployPoint
  <2>2. QED
    BY <1>2, <1>6, <2>1 DEF DeployPoint
<1>10. QED
  BY <1>7, <1>8, <1>9 DEF RegistrarInv

LEMMA ConsoleKeepsRegistrar ==
  ASSUME Undisturbed, CommandInv, WorldInv, RegistrarInv, Next
  PROVE  RegistrarInv'
<1>1. ChooseEffect \/ CleanEffect \/ NetworkEffect \/ ContainerEffect \/ ChaincodeEffect \/ EnsureEffect
  BY UndisturbedEffects
<1>2. ChooseEffect => cmd.name = "none"
  BY DEF ChooseEffect, Started, Idle
<1>3. CASE cmd.name = "clean"
  BY <1>1, <1>2, <1>3, CleaningKeepsRegistrar
<1>4. CASE cmd.name = "deploy" /\ Left >= 12
  BY <1>1, <1>2, <1>4, DeployingKeepsRegistrar
<1>5. CASE cmd.name # "clean" /\ (cmd.name = "deploy" => Left <= 11)
  BY <1>1, <1>5, OthersKeepRegistrar
<1>6. cmd.name = "deploy" => Left >= 12 \/ Left <= 11
  BY DeployAt
<1>7. QED
  BY <1>3, <1>4, <1>5, <1>6

\* What the process does to the world: it makes the tables and keeps a
\* registrar.
LEMMA ClientKeepsRegistrar ==
  ASSUME TypeInv, RegistrarInv,
         \/ StartClient \/ StopClient
         \/ \E r \in Requests : RequestStep(r) \/ CallFails(r) \/ \E u \in Users : Begin(r, u)
  PROVE  TypeInv' /\ RegistrarInv'
<1>1. cmd' = cmd /\ last' = last /\ faults' \in 0 .. MaxFaults
  <2>1. CASE StartClient \/ StopClient
    BY <2>1, OrchestratorAssumption DEF StartClient, StopClient, Fault, TypeInv
  <2>2. CASE \E r \in Requests : RequestStep(r) \/ CallFails(r) \/ \E u \in Users : Begin(r, u)
    BY <2>2, OrchestratorAssumption
    DEF RequestStep, Check, EnsureRegistrarHome, RegisterName, Enroll, Create, CallFails, Begin, Fault, vars, TypeInv
  <2>3. QED
    BY <2>1, <2>2
<1>2. \/ world' = world
      \/ world' = [world EXCEPT !.tables = TRUE]
      \/ /\ world.registrar # 0 \/ AuthorityAnswers
         /\ world' = [world EXCEPT !.registrar = IF @ # 0 THEN @ ELSE world.authority]
  BY DEF StartClient, StopClient, RequestStep, Check, EnsureRegistrarHome, RegisterName, Enroll, Create,
    CallFails, Begin, vars
<1>3. CommandInv /\ WorldInv /\ RoomForAuthority
  BY DEF TypeInv
<1>4. /\ WorldInv'
      /\ \A f \in Fields \ {"tables", "registrar"} : world'[f] = world[f]
      /\ \/ world'.registrar = world.registrar
         \/ AuthorityAnswers /\ world.registrar = 0 /\ world'.registrar = world.authority
  <2> USE DEF WorldInv, Shaped, Fields, Installed
  <2>1. CASE world' = world
    BY <1>3, <2>1
  <2>2. CASE world' = [world EXCEPT !.tables = TRUE]
    BY <1>3, <2>2
  <2>3. CASE /\ world.registrar # 0 \/ AuthorityAnswers
             /\ world' = [world EXCEPT !.registrar = IF @ # 0 THEN @ ELSE world.authority]
    BY <1>3, <2>3
  <2>4. QED
    BY <1>2, <2>1, <2>2, <2>3
<1>5. TypeInv'
  <2>1. CommandInv'
    BY <1>1, <1>3 DEF CommandInv, Program, Left
  <2>2. RoomForAuthority'
    BY <1>1, <1>3, <1>4 DEF RoomForAuthority, Left, Fields
  <2>3. QED
    BY <1>1, <1>4, <2>1, <2>2 DEF TypeInv
<1>6. RegistrarInv'
  <2>1. AuthorityAnswers => world.cas = "running" /\ world.authority # 0
    BY DEF AuthorityAnswers
  <2>2. Left' = Left
    BY <1>1 DEF Left
  <2>3. cmd.name = "clean" /\ Left <= 3 => Left <= 11
    BY <1>3, CleanAt
  <2>4. QED
    BY <1>1, <1>4, <2>1, <2>2, <2>3
    DEF RegistrarInv, CertificatesFit, DeployPoint, CleaningPoint, RegistrarKnown, Fields
<1>7. QED
  BY <1>5, <1>6

\* client.go:141-161, main.go:154-179: while no command of the console is broken
\* off or passes over an error, a registrar kept on disk is one of the authority
\* that runs, for any number of users and registrations, whatever calls fail and
\* however often the process is stopped, also beside a cleaning.
THEOREM RegistrarsFit ==
  ASSUME Undisturbed
  PROVE  ClientSpec => []RegistrarFits
<1> DEFINE Inv == TypeInv /\ RegistrarInv
<1>1. ClientInit => Inv
  <2>1. ClientInit => Init
    BY DEF ClientInit
  <2>2. Init => RegistrarInv
    BY DEF Init, ZeroWorld, Idle, RegistrarInv, CertificatesFit, DeployPoint, CleaningPoint, RegistrarKnown
  <2>3. QED
    BY <2>1, <2>2, TypeInit
<1>2. Inv /\ [ClientNext]_allVars => Inv'
  <2> SUFFICES ASSUME Inv, [ClientNext]_allVars PROVE Inv'
    OBVIOUS
  <2>1. CASE Console
    <3>1. TypeInv'
      BY <2>1, TypeStep DEF Console
    <3>2. RegistrarInv'
      BY <2>1, ConsoleKeepsRegistrar DEF Console, TypeInv
    <3>3. QED
      BY <3>1, <3>2
  <2>2. CASE UNCHANGED allVars
    <3>1. UNCHANGED vars
      BY <2>2 DEF allVars
    <3>2. TypeInv'
      BY <3>1, TypeStep
    <3>3. RegistrarInv'
      BY <3>1 DEF vars, RegistrarInv, CertificatesFit, DeployPoint, CleaningPoint, RegistrarKnown, Left
    <3>4. QED
      BY <3>2, <3>3
  <2>3. CASE ~Console /\ ClientNext
    BY <2>3, ClientKeepsRegistrar DEF ClientNext
  <2>4. QED
    BY <2>1, <2>2, <2>3
<1>3. Inv => RegistrarFits
  BY DEF RegistrarInv, RegistrarKnown, RegistrarFits
<1>4. QED
  BY <1>1, <1>2, <1>3, PTL DEF ClientSpec
=============================================================================
