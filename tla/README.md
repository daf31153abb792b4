# BC-ABE: TLA+ models and proofs

BC-ABE shares encrypted files between the members of two organizations. The
content key of a file is encrypted under an attribute policy (multi-authority
CP-ABE) and the ciphertext is kept on a Hyperledger Fabric ledger; the content
itself is a file on the client's disk. This directory models the parts of the
system whose correctness depends on order: who reads what before whom, what a
crash or a timeout leaves behind, and what several requests do to state they
share.

## The system

| Component | Code | State | Operations |
|---|---|---|---|
| Contract ABELedger | `chaincode/contract.go` | world state: `GLOBAL_PARAMS`, one asset per ciphertext | PutGlobalParams, PutCiphertext, DeleteCiphertext, three queries |
| Gateway client | `utils/gateway/gateway.go` | one connection per process (`sync.Once`) | evaluate and submit with timeouts |
| Organization server | `auth_admin/main.go` | one ABE engine, one database row per organization | initOrg (console and HTTP), syncGlobalParamsToChain, handleIssueKey, bootstrapOrg |
| ABE engine | `abe/engine.go`, `pkg/mosaic/abe/arith_miracl.go` | current group, authority keys, generator; no lock | InitOrg, InitAuthority, Load..., IssueUserKey, NewSecret, Encrypt, Decrypt |
| File service | `user_client/service/file_service.go` | data directory `files/` | Encrypt, Update, List, Delete, Decrypt |
| Key service | `user_client/service/key_service.go`, `attr_format.go` | table of user keys with versions | RequestKey, RequestAutoKeys, EnsureKeysForPolicy, MergeUserKeysForPolicy |
| Accounts | `user_client/service/auth_service.go`, `utils/fabricca`, `utils/db/seed.go` | user table, the CA's registry | Register, Login, SeedFabricUsers |
| Policy syntax | `abe/policy.go` | none | normalization, validation, clauses |
| Policy evaluation, secret sharing | `pkg/mosaic/abe/policy.go`, `parser/`, `sss.go` | none | comparisons over bits, access tree, matrix, coefficients |
| CP-ABE | `pkg/mosaic/abe/crypto.go` | container of user keys | keys, encryption, decryption |
| Orchestrator | `main.go`, `utils/fabricdocker`, `pkg/fabric/test-network` scripts | containers, volumes, certificates, package id cache | FullClean, DeployNetwork, PauseNetwork, ResumeNetwork, DeployChaincode |
| Database handle | `utils/db/db.go` | one handle per process, the tables | Init, Reset |

`user_client` and the two `auth_admin` processes meet on the ledger (through the
gateway), in the MySQL database and over HTTP (key issues). The server processes
handle every HTTP request in a goroutine of its own, and the engine, the row,
the table of keys and the data directory are shared without locks.

What is hard about it, and what correctness means there:

* **Contract.** A call is computed when it is endorsed and takes effect when it
  commits; other calls commit in between. Correct: no committed write overwrites
  an update it had not seen, versions count every write, nothing of a refused or
  abandoned call shows, and clients may think of every call as one atomic step.
* **Gateway.** A timeout does not say whether the transaction will commit.
  Callers must survive a commit after the error.
* **Organization server.** Keys go from the engine to the row to the ledger, in
  separate steps, and the engine is reloaded by every key issue. Correct: the key
  encryptors take from the ledger, the recorded private key and the key that user
  keys are issued under belong together and never change.
* **File service.** Asset and file are two writes. Correct: a reported success
  holds, content on disk is always content that was shared, and a reader who
  comes after an undisturbed write gets it.
* **Key service.** Key versions are computed by reading the latest. Correct: a
  version names one key, and a policy is given every key the user holds for it.
* **Accounts.** The CA is written before the database. Correct: a name is usable
  or free.
* **Policies.** A policy is rewritten three times between the user and the
  decryption. Correct: what is encrypted is what was typed, comparisons over bits
  agree with comparisons over numbers, the access matrix accepts exactly the sets
  the policy accepts, and every decryption returns the secret.
* **Orchestrator.** A command is a sequence of calls that may be interrupted
  anywhere, and half of its errors are only logged. Correct: after a clean nothing
  of the old network is used by the new one, a deployment repairs what an
  interrupted one left, and resuming comes to a usable chaincode.

## Modules

| Module | Models |
|---|---|
| `VersionedStore` | what the contract promises: a store in which every write is one step |
| `ABELedger` | the contract's calls, endorsed, ordered, validated and answered |
| `AuthAdmin` | the two organization servers on an instance of `ABELedger` |
| `FileService` | the file service on another instance of `ABELedger` |
| `KeyRing` | the key service over the table of user keys, with attribute formats |
| `NumericBits` | numbers as bags of bits, and which bits a comparison asks for |
| `AccessTree` | what a policy means: trees of ANDs and ORs, the trees of comparisons, who opens them |
| `PolicyParser` | from policy text to access tree: parser precedences and the listener |
| `PolicySyntax` | a policy from typing over normalization and storing to decryption |
| `SecretSharing` | labelling of the tree with Go's slices, and both coefficient solvers |
| `CpAbe` | keys, ciphertexts and decryptions with exponents for group elements |
| `Orchestrator` | the console's commands, call by call, with faults |
| `UserClient` | the client process and registrations beside `Orchestrator` |
| `Totals` | sums over finite sets |
| `FiniteInduction` | lemmas: induction over numbers and finite sets, recursion over subsets and intervals, sums, sets of numbers in order, numbers in binary |
| `..._proofs` | theorems about `ABELedger`, `AuthAdmin`, `FileService`, `KeyRing`, `SecretSharing`, `CpAbe`, `UserClient` (and in it `Orchestrator`) |
| `MC_...` | constants and bounds for TLC |

**ABELedger.** A transaction `t \in Tx` is one call of `SubmitTransaction`.
`PutGlobalParams`, `PutCiphertext` and `DeleteCiphertext` are the contract's
functions at endorsement: they record the version read (`read`) and the write
wanted (`write`) and leave `world` alone. `Commit` applies the write if
`MVCCValid`, otherwise the transaction is `Invalidate`d; `Drop` loses it. The
client gets an `Answer`, or `GiveUp`s with an error that decides nothing (the
timeouts of `connect` in gateway.go). Fabric is not part of this repository and
modelled from how the gateway client is used. Fabric versions a key by block and
position of the write; the model uses the writing transaction instead. A delete
reads nothing and is validated against nothing (`blind`). Policy, ciphertext and
owner are one `body`; `updatedAt` and `curve` are left out, no code reads them
back for a decision.

**AuthAdmin.** A request is one call of `initOrg` or `handleIssueKey`. `engine[o]`
is the server's engine, `row[o]` the row of the database, both a `Record` of
group, public and private key. A group or key pair is named by the request that
drew it; a key also carries its group. Every database call, every access to the
engine and every call of the gateway is a step of its own, because the engine
has no lock and handlers run in parallel. Reading one pointer of the engine is
taken as atomic. `FirstOrCreate` is a lookup followed by a create or an update;
the unique index on the name refuses a second create. `Crash` loses the engine
and the running requests; `bootstrapOrg` then loads the group only. `authName`
and `orgName` name the same organization and are one here. `disturbed` is a
history variable: the organizations for which two calls of `initOrg` overlapped
or a database error was passed over; `alone` marks a call of `initOrg` which no
other has met and none has followed.

**FileService.** A request is one call of `Encrypt`, `Update`, `Delete` or
`Decrypt`. The engine matters through its generator: `LoadOrgFromJSON` seeds it
anew from the group's seed, so the secret a put draws depends on how many draws
there were since the last load by any request (`draws`). `os.WriteFile` is a
truncation and a write, between which another request, a crash or an error may
come; two overlapping writes may leave a mixture (`broken`), which GCM detects.
A request that fails its checks before its first effect is one that was never
made. One group is in use; policies are satisfied by the reader's keys.

In `FileService` and `AuthAdmin` a request submits at most one transaction, so
the requests themselves are the ledger's `Tx`.

**KeyRing.** A request is one call of `RequestKey`, `RequestAutoKeys` or a
decryption's `EnsureKeysForPolicy`. The organization's answer, the look for the
latest version of the label (`ReadLatest`), the new row and the version reported
afterwards are steps of their own; neither lock nor index orders them. An attribute
has three spellings, which the code keeps as strings and the model as tuples of one,
two or three parts: as a plain name or a registered value, as it is sent to the
organization, and as a clause of a policy, which is also the label of a row.
`parseAttrSpec`, `resolveAttrSpecForUser`, `MergeUserKeysForPolicy` and
`PolicyMissingUserKeys` decide what is asked for, found and missing, down to the
bits of a number (`NumericBits`). What the module follows ends with the keys that
`Decrypt` merges and hands to the engine. `enough` is history and says whether they
are those of somebody whom the policy admits (`Sufficient`); whether the engine then
opens the file is left free, since its solvers miss coefficients that exist
(`ComparisonsComplete` below). Of a name that is registered with several numbers the
first counts (`FirstNumber`, `findUserNumericAttr`). Policies are those that
validation has admitted where `Validated` says so; numbers fit the width (policies
compare with at most 65535, hours with 23, and a number has 32 bits). `seen`,
`blind`, `own`, `said`, `alone` and `fault` are history: what a request saw when it
looked, and whether another was active. Other organizations' attributes are refused
before any effect.

**NumericBits, AccessTree, PolicyParser, PolicySyntax.** An access tree is a
function from its nodes, which are paths from the root, to their labels; a
comparison is a chain over the bits of its number. A policy text is a sequence of
tokens. `PolicyParser` gives it the meaning the engine gives it: joins of equal
precedence that bind to the left and tighter than comparisons, and a stack on which
the listener leaves nothing for a comparison that can never or always hold. `PolicySyntax` follows one policy through `putEncrypted`
(normalize, split, validate), the engine (normalize again) and a decryption
(normalize the stored text once more and rebuild the rows). What a reader takes a
policy to say is `Reads`, defined by splitting at the joins outside parentheses;
it is the reference for both.

**SecretSharing.** `btreeLabeling` gives each node a vector; the vectors are Go
slices, so an `append` within the capacity may write into an array another slice
shares. Memory is a sequence of arrays, a slice an array and a length; the
behaviour labels one node per step, depth first, and then selects attributes and
solves for their coefficients, with the pivots the code takes. `short` and
`clobbered` are history: padding stopped short of the counter, an append overwrote
another slice's entry. Coefficients are integers of any size, where the code has
`int`; soundness is about all integers.

**CpAbe.** An element of a group is the exponent of its generator, a pairing a
product. `NewRandomUserkey` adds a key to the user's container, `Encrypt` draws a
secret and shares it along the given rows, `Decrypt` computes coefficients (any that
combine the rows; `Factors` bounds them for TLC), leaves them in the container and
returns what the pairings give. Constants are the rows of each policy, so the module
is about the algebra and the container, not about where the rows come from.

**Orchestrator.** A command is a sequence of calls, among them those the scripts
`network.sh`, `deployCCAAS.sh` and `ccutils.sh` make; one action per call (`Step`).
`world` is what outlives the console: certificates and the authority that issued
them, containers, volumes, installed packages, the cached package id, the
registrar's certificate, tables, seeded users. `Kinds` chooses the faults: `kill`
stops the console between two calls, `error` is an error that ends the command,
`warn` one that is only logged, `query` a peer that does not answer, `docker` a
restart of Docker that stops the containers. Packages are named by the order in
which they were built: the archive holds time stamps, so each build has an id of its
own. `docker volume rm` keeps a volume that a container uses (`CleanupVolumes`), and
peers find a committed definition only on a channel they hold (`ChannelAnswers`).
The certificates are in one of four states: none; a part, which
`CryptoMaterialReady` notices by one of the eight paths it looks at; `passing`,
where all eight exist and others that the containers need do not; and complete.
createOrgs makes the last of the eight, the orderer's own certificate, before the
orderer's TLS certificates, so a step broken off there may leave either of the
incomplete states (`BrokenOff`). The later certificates, of further orderers and of
administrators, are not told apart from these: their absence is `passing` as well.
`SyncCerts` is the check at the start of createChannel, which brings the network
down when it runs without certificates; its inner branch takes four faults to reach
(a cleaning passes over two failed removals of containers and is broken off before
the third, and the deployment passes over its own), more than the runs have. With
the menu of clean and deploy, kills and passed-over errors, `MaxFaults = 4` gives 44
thousand states in which the same invariants hold; the theorems cover it for any
number. `last` is history: the last command, how it ended, whether a fault came, and
whether the last cleaning was whole (`halfClean`): one that was broken off, or went
on after an error it only logged, was not; and `repairable`, whether the command
began without a channel and without `passing` certificates.

**UserClient.** Extends `Orchestrator` by the process `user_client` and calls of
`Register`. Each call of the authority and of the database is a step, between
which the console may wipe either. `names` is the authority's registry, `rows` the
accounts; a new authority has forgotten its names, new tables their rows. The
process connects to the gateway once, when it starts, with the files of org1's
administrator: among certificates of which only a part has been made they may exist
or not (`StartClient`). Faults of its own: `call`, a
failing call of the authority or the database; `stop`, the end of the process.

## What TLC checks

| Run | Shows | Bounds | States | Time |
|---|---|---|---|---|
| `ledger` | ParamsVersionCounts, LedgerInv (with NoLostUpdate as a part), and that ABELedger implements VersionedStore | 4 transactions, 1 asset id beside the global parameters | 150 thousand | 15 s |
| `files` | a reported success stands, quiet readers succeed, only committed content lies on disk, creation time and owner are respected | 3 requests, 2 users, 1 asset, 1 fault | 1.9 million | 2 min |
| `auth_admin` | published, recorded and issuing keys agree and stay; a quiet call of initOrg repairs what overlaps and errors left | 4 requests, 2 organizations, 1 fault | 1.5 million | 2-3 min |
| `auth_sync_lost` | violated: a confirmed synchronization may be undone | 2 requests, 2 organizations | | 1 s |
| `auth_group` | violated: the two authorities never share a group | 2 requests, 2 organizations | | 1 s |
| `keyring` | versions follow the order of requests, the reported one is the stored one, a policy's keys are completed before the engine gets them | 3 requests, 1 failed query, numbers of 2 bits | 1.1 million | 65-90 s |
| `policy` | the rows open for whom the stored policy says, and for whom the typed one says unless a conjunction contains a disjunction; decryption rebuilds the same rows | up to 4 leaves, numbers of 3 bits, two spellings of one attribute | 18 thousand | 45 s |
| `sharing` | all keys reconstruct; none that do not satisfy the tree do, if padding was whole; in lean trees it always is; bits that reconstruct a comparison are of a number that satisfies it | trees of up to 5 leaves, some of 6, all comparisons of 5 bits | 17 thousand | 30 s |
| `cpabe` | decryption returns the secret | groups of order 5, 3 attributes, 2 policies and ciphertexts, one attribute on two rows | 106 thousand | 25 s |
| `orchestrator` | cleaning, deploying and seeding repair; one installed package is the one served | all commands, all faults, 2 of them; 3 generations of certificates, 3 packages, 2 retries | 1.4 million | 20-50 s |
| `client` | accounts name identities the authority knows; the registrar on disk fits it | clean, deploy, pause, resume beside 2 registrations of one name, 2 faults | 275 thousand | 10-15 s |
| `client_live` | commands return, the service comes back, an accepted registration gets its account | one fault (a restart of Docker or a passed-over error), 1 generation, 1 package, 2 retries | 97 thousand | 2-3 min |

*Bounds.* Ledger, files and authorities: every property relates at most three calls
(a write, the write it was built on and one that comes between, or two writers and a
reader); three or four requests on one key let all of them overlap in every order.
Further asset ids share nothing but the engine's generator, which other requests of
the same asset disturb as well. `MaxFaults` bounds crashes, failed queries and
failed writes; timeouts, lost and late transactions are not counted and happen
freely. Key ring: two requests that collide and a third that meets what they left.
Policies: widths of numbers scale every comparison alike; `MaxValue` is chosen so
that values below, at and above the limit occur. Sharing: padding goes wrong first
at three columns and appends share arrays from four leaves on, so five leaves cover
both and six some of their combinations; every bound of five bits occurs in a
comparison. CP-ABE: the algebra is proved for all exponents (below), so two draws
suffice to see the container misused. Orchestrator: two faults break a command off
and then disturb the one that is to repair it, and a third would repeat one of them
except for `SyncCerts` (above); three generations and packages tell the present one
from the last and from the one before.

*Constraints.* `files` explores three requests at once where they are one user's
and nothing fails, and two at a time, with a third to follow, where a second user
or a fault comes in; `auth_admin` explores what follows a disturbance for three
calls of one organization, two at a time, since all but one of its properties say
nothing of disturbed organizations and that one relates two calls that collide to
one that repairs; `keyring` lets two requests run at a time and follows failed
queries where only two are made. Requests are interchangeable in all modules, and
so are users and organizations, hence the symmetry sets; none is used with a
liveness property.

*Deadlock* is not checked: every request is served once, a policy ends with its
decryption, and the bounded orchestrator runs out of generations and packages.

*Fairness.* Only `client_live` has a liveness property, under `ClientFairSpec`:
the console goes on with a command it has begun, and so do the process and its
requests (weak fairness: they are threads that nothing else holds up); the
operator chooses `resume` again and again while the network does not serve (strong
fairness, because the choice is open only between commands; preflight.go:41-42
tells the operator to do just this). Nothing is assumed of faults, of other
commands or of the order of choices. `CommandReturns` excepts the wait for an
authority that did not start, which the script does without a limit
(network.sh:230). The run has one package: after a second deployment the peer may
list the older package first, and resuming then starts that one for ever (see
`ReadyMeansServing` below). `client` has no faults of the console, since a kill
or a passed-over error in a deployment leaves the registrar of the authority
before (`ensureCrypto` removes the authority's files, not
`data/fabric-ca-registrar`), which only a cleaning removes.

Each property is also checked to fail on a faulty variant of the code: the
definitions commented "Faulty variant" beside the action they vary.

### Findings

* `SynchronizedKeyIsPublished`: `syncGlobalParamsToChain` (auth_admin/main.go:279-295)
  reads the table of keys in one transaction and writes it in another. When both
  organizations synchronize at once, both writes are confirmed and the second
  drops the key of the first. The contract cannot notice: its own read of the
  record happens at endorsement, after the table was read.
* `AuthoritiesShareGroup`: every organization draws a group of its own
  (auth_admin/main.go:237), and `FillAuthPubsFromChain` (abe/engine.go:222)
  refuses a policy over two groups. Policies over two authorities, which
  README.md:3 announces and abe/multi_auth_test.go:8 tests with a shared group,
  cannot be used between the two servers.

### Where the code departs from its word

Comments and documents promise more than the code does in the following places.
Each is stated as a property; running `tlc -config <cfg> <module>` with the
configuration named shows a counterexample. They are not among the runs above,
whose properties are the weaker ones that do hold.

| Property | Configuration | What happens |
|---|---|---|
| `NormalizationKeepsMeaning` | `MC_PolicySyntax_meaning.cfg` | Flattening a conjunction (abe/policy.go:365) drops the parentheses of a disjunction inside it: `a /\ (b \/ c)` becomes `a /\ b \/ c`. |
| `ComparisonsValidated` | `MC_PolicySyntax_single.cfg` | `splitPolicyParts` (abe/policy.go:437) stops at the parenthesis that closes the first group; what follows is never validated: `(score<3) /\ (score==5)` passes. |
| `SharesFollowPolicy` | `MC_SecretSharing_padding.cfg` | `padWithZeros` (sss.go:265) compares its index with a distance that shrinks as it appends, so half of the zeros are missing; attributes that do not satisfy the tree may combine to the secret. |
| `ComparisonsComplete` | `MC_SecretSharing_solver.cfg` | Back substitution (sss.go:215) takes other pivots than the elimination; for some comparisons no coefficients are found by either method (sss.go:78-86) although there are some: with the number 28 and the policy `score > 10` the keys suffice and the decryption fails. |
| `DecryptRepeatable` | `MC_CpAbe_again.cfg` | `SelectUserAttrs` (pkg/mosaic/abe/policy.go:493) leaves the coefficients of an earlier policy's attributes behind, and the next decryption is refused. |
| `EnsureCompletes` | `MC_KeyRing_equal.cfg` | `score == 2` is sent to the organization as the name of an attribute (attr_format.go:85); its bits stay missing. |
| `EnsureCompletes` | `MC_KeyRing_hour.cfg` | Only the first hour in the order of the query is merged (key_service.go:366); a key just issued for another is reported missing. |
| `NumbersAsRegistered` | `MC_KeyRing_registered.cfg` | A comparison by `==` is issued whatever number is registered (key_service.go:439, against the comment at 431). |
| `IncompleteIsRegenerated` | `MC_Orchestrator_certs.cfg` | `EnsureCryptoMaterial` is to remove certificates that are not complete (artifacts.go:81), and takes them for complete when eight paths exist (artifacts.go:15-24). An interrupt between the orderer's enrollment and its TLS certificates (registerEnroll.sh:219-235) leaves all eight and an orderer that cannot start; every later deployment keeps them and fails, until a full clean. |
| `ReadyMeansServing` | `MC_Orchestrator_ready.cfg` | With two packages installed a container may be started for, or kept with, another one than the committed (ccaas.go:40). |
| `ResumeRestoresCAs` | `MC_Orchestrator_cas.cfg` | A second deployment removes the authorities' containers and starts none, as certificates exist (main.go:252, network.sh:303); resuming ends well without them. |
| `CleanMeansZero` | `MC_Orchestrator_zero.cfg` | Errors of the removals are only logged; `FullClean` returns nil with volumes left (main.go:164). |
| `DeployedHasTables` | `MC_Orchestrator_tables.cfg` | When creating the database fails after the drop, `Reset` leaves the handle set, and `Init` never makes the tables (db.go:86). |
| `ClientServes` | `MC_UserClient_gateway.cfg` | `gateway.Init` is tried once per process (gateway.go:61); a client started before the deployment never connects. |

Smaller ones, seen while modelling: an interrupt between the second approval and
the commit of a chaincode definition makes every later deployment on those
volumes fail, since the sequence is computed from what is committed; a cached
package id that a cleaning leaves behind which was not whole is taken up by the next
deployment (hence the premise `~last.halfClean` of `OnePackageServed`); a
registration that fails between the authority and the database
(auth_service.go:35-54) uses up its name (`NamesGetAccounts` is checked where no
such call fails).

## What is proved

With TLAPS, for every value of the constants:

**ABELedger**, from `LedgerAssumption` (the global parameters are not an asset id,
`Nil` is not a transaction, `NoTime` is not a time):

* `LedgerInvHolds`: `LedgerInv` is an invariant;
* `TypeCorrect` and `OnlyCommittedWritesShow` follow from it;
* `ParamsVersionsCountWrites`: the version of the global parameters is the
  number of committed writes;
* `ImplementsVersionedStore`: the ledger implements `VersionedStore`.

The part of `LedgerInv` that says what the contract is for is `NoLostUpdate`: two
committed puts of one asset never rest on the same record. Alone it is not
inductive: whether a commit is harmless depends on a
record read long before. `LedgerInv` adds what every sent transaction has read
(`ReadsCommitted`: the write of a committed transaction of the same key), what it
will write (`WritesFollowReads`: the successor of that record), that assets are
what their committed writers wrote (`WritersCommitted`), and that a record on
which a committed write was built is gone for good (`ReadsSuperseded`). The
last is the heart: together with MVCC validation it says that nobody else can
commit on the same reading. For the refinement, `ValidPutReplacesWhatItRead`
shows that the record a valid put replaces is the one it was computed from, so
that the commit is a `Put` of the store although it was computed earlier. For the
count, the set of committed writers of the parameters is shown to be finite and
to grow by one with each commit.

**AuthAdmin**, from `AuthAdminAssumption` (`Nil` is not a request):
`KeyInvariant`, and from it `PublishedIsRecorded`, `RecordsBelongTogether`,
`IssuedUnderPublished` and `KeysAreKept`. None of the four properties is
inductive: whether a published key is the recorded one depends on tables read
long ago by any request of any organization. `AdminInv` says, for an organization
that is not disturbed, what its one call of initOrg holds at each of its steps
(`InitCall`: before the row exists, engine and record are what the call itself
drew; afterwards, its record is the row), what a key issue holds (`IssueCall`), and
that every copy of its public key in a table being written, sent or committed is
the recorded one or absent (`TableInv`). The argument per step is split into the
call's own organization and the others, which a step leaves alone (`OthersStay`).

`QuietInitsRepair` is about the organizations that *are* disturbed, of which
`AdminInv` says nothing. It follows from `AloneInvariant`: while a call of initOrg
has met no other, all others are settled (`OthersSettled`: what they sent has
committed or never will), so from its look at the row on the call holds, sends and
finally publishes the row's key (`CarriesRow`). `TypeCorrect` follows from
`TypeInvariant`; that a table read from the ledger is a table needs to know of every
request how far it is and what it has sent (`CallInv`).

**FileService**, from `FileServiceAssumption` (`Nil` is not a request): every
property its run checks.

* `StoredFilesAreCommitted` follows from `FileInvariant`: a request reaches its file
  only after its own transaction has committed (`RequestInv`), and what the ledger
  has endorsed never changes (`CallsKept`), so a whole file always rests on a
  committed ciphertext with its key.
* `LastWritersStand` follows from `WriterInvariant`. That a writer met no other is
  known when it begins, that it stands only when it ends; `Stands` bridges the two:
  all others have settled, so a commit on this asset can only be the last writer's
  own (`SentInv`: a transaction is of its request's asset), and between its
  truncation and its write nobody fills the file. Who starts later becomes the last
  writer itself and owes nothing to the one before.
* `QuietDecryptsSucceed` follows from `ReaderInvariant`: a decryption that began
  alone follows a writer that has finished (`Follows`), and the key it took from the
  asset is that writer's; as long as no other writer has begun, `Stands` says what
  it finds in the file.
* `OwnersDelete` and `CreationTimesKept` follow from `FoundInvariant`: until the
  transaction of an undisturbed writer commits, the asset is as that writer found
  it. A step that moves the world state is a commit (`WorldMovesByCommit`), and the
  commit is the last writer's (`CommitIsTheLastWriters`).
* `TypeCorrect`. `TypeOK` alone is not inductive: a decryption takes its key out of a
  body, so every existing asset must have one.

**KeyRing**, from `KeyRingAssumption` (attributes are written in one of the three
ways, their numbers fit the width, lists of them are sequences, a policy names
attributes and compares them) and `RankAssumption` (the database orders labels):
every property its run checks.

* `VersionsAreOrdered` and `ReportsAreOwn` follow from `KeyInvariant`, which relates
  what a request has read to the rows that were there: nothing overlapping can lower
  the highest version of a label.
* `TypeCorrect` follows from `RingInvariant`. Its two hard parts are that no version
  exceeds the number of rows (a request that is about to create a row has a version
  of at most one more than what it saw), and that every label in the table is a name
  or a comparison: what is left to issue is a spec made from something written
  (`TodoInv`), also where `autoAttributeSpecs` folds the registered attributes into a
  list without repetitions (`AutoSpecs`).
* `InequalitiesAreCompleted` follows from `ServeInvariant`. A label stands for keys
  (`Keys`), and every row has been issued those or, where the server took a comparison
  for a name, one of no use (`RowsIssued`). A clause is `Provided` for when the latest
  row of its label has them; in a request that is alone each clause is still to come,
  provided for, or being issued (`InHand`), since the row it creates has the highest
  version of its label (`CreateProvides`). So the loop cannot run out of clauses with
  something missing, and what is merged at the end suffices for the policy (`ProvidedOpens`).
  Between clause and keys lies arithmetic: a number that satisfies a comparison has a
  deciding bit at or above the lowest one asked for (`DecidingBit`), whence its keys
  and what is missing meet; it is proved for every width. The premises are the
  property's own: the policy is one that validation admits (`Validated`: at most one
  comparison, with a bound that leaves a bit to ask for), the user is entitled to its
  clauses, no query fails, no other request is met, and no earlier overlap has given
  one version to two rows.

**CpAbe**, from `CpAbeAssumption` (every policy has a rectangular matrix over -1, 0
and 1 with a row for each of its attributes, which encodeAccessPolicy makes; the
rest are integers): `DecryptionsReturnSecret`, for all policies, matrices,
coefficients and exponents. Every decryption that gives a value gives the secret
of the one ciphertext it was asked for. `RowGivesShares` is the identity
for one row: pairing its components with the key of its attribute leaves the row's
shares and nothing of the randomness of key and ciphertext. `SharesCombine` takes
the sum over the rows: sums over rows and columns are exchanged (`TotalExchanged`),
and coefficients that combine the rows to the first unit vector leave the secret.
An attribute on two rows is why `Row`, the order of the rows, has a lemma of its
own (`RowNamesRows`). `AbeInvariant` says that keys and ciphertexts keep the form
the identity needs while the container is added to.

**SecretSharing**, from `SharingAssumption` (`Trees` are trees: every node but the
root has its parent, and two children or none) and `WidthAssumption` (numbers have at
least one bit):

* `NoneReconstructs`: where no padding stopped short and no append overwrote, no
  integer coefficients at all combine the rows of attributes that do not open the
  tree to (1, 0, ..., 0), whatever method looks for them. `Sound`, the property the
  run checks, is about those the engine finds.
* `LeanTreesSound`: in a tree that has a single leaf on a side of every join the two
  things never happen, so that there nobody gets the secret whom the policy does not
  let in.
* `ComparisonTreesMean`: the tree of a comparison is lean, and the bits of a number
  open it just where the number satisfies the comparison, for every operator, both
  numbers and every width; `NoTreeWhereConstant`: none is left just for the
  inequalities that every number satisfies or none does. Hence `ComparisonsShared`:
  bits of a number that do reconstruct the secret are bits of a number that satisfies
  the comparison.
* `SharesTypes`: slices lie in their arrays, and the coefficients selected are
  integers, one for each row.

"No coefficients exist" is not an invariant one can argue with step by step; a
witness against them is. `Separated` says that for every set of attributes that does
not open the tree there is a vector that starts with 1 and is orthogonal to the
vector of every node those attributes do open. At an OR the vector stays; at an AND
one of the children is closed, and the entry for the new column is chosen such that
the open one is orthogonal. Rows that combined to (1, 0, ..., 0) would have product
1 with it, and 0 (`OrthogonalNeverMatches`). That a step keeps the vectors of all
other nodes is where the shared arrays come in: `~clobbered` says that no slice in
use reads differently, and that padding adds zeros only is shown round by round.
`Aligned` is the invariant of lean trees: the one node still to be labelled that has
children has a vector as long as the counter, so nothing is to be padded, and what
is appended comes after the end of every slice in use. The tree of a comparison is a
comb (`CombShape`), opened from its last leaf upward (`CombOpens`); node j opens just
where the bits from its own down satisfy the comparison (`Holds`). `ComparedDigits`
is the step from one bit to the next; `LowestCompared` is the beginning, where the
run of bits that `gt` and the others drop decides by itself (`RunDecides`). Both methods
for coefficients are recursive functions, whose every round is shown to keep
integers (`StepsKeep`).

**Orchestrator** (in `UserClient_proofs`), from `OrchestratorAssumption` (menu and faults are among those
modelled, bounds are natural numbers, there is at least one retry): every property
its run checks, for every menu, every choice of faults and all bounds. The command
that runs is a suffix of its program (`CommandInv`), so the number of steps left
(`Left`) tells where it is; each step is summarized by its effect on the world
(`CleanEffect`, `NetworkEffect`, ..) and on the command (`Move`), and what follows
speaks of effects only.

* `Typed` follows from `TypeInv`.
* `CleaningReachesZero`: `CleanInv` lists what a cleaning without a fault has
  removed by the steps it has left; nothing of it comes back.
* `SeededRowsCurrent`: after the rows are written, such a deployment touches neither
  them nor the authority (`SeedInv`).
* `DeploymentRepairs`: `DeployInv` says by the steps left which certificates,
  channels, definitions and containers are there; that an organization approves only
  where there is a channel (`ApprovalInv`) is an invariant of all commands. The premise that the deployment
  begins without `passing` certificates is necessary (`IncompleteIsRegenerated` above),
  and so is that there is no channel: a peer that has joined one refuses to join.
* `OnePackageInvariant`: the file, the running command and every container name
  packages of the volumes only, or wait to be cleaned (`NamedPackages`), unless the
  last cleaning was not whole; and a committed definition has its package
  (`HasPackage`). For this it must be known that certificates have their authority and
  that the network runs with complete certificates only, again unless the last
  cleaning was not whole (`CoreInv`): a deployment that finds the network running does
  not clear the volumes by way of `SyncCerts` and leave the packages' names elsewhere.

**UserClient**, from `ClientAssumption` (`Nil` is not a request):
`AccountInvariant`, and from it `AccountsAreKnown`. Generations of certificates
only grow, so the number of an authority is never given twice; within one
generation a name is registered once and stays with its request, so an account
that carries the present generation carries the identity that generation knows.
`RegistrarsFit`: the registrar's certificate on disk is one of the authority that
runs, if `Undisturbed`: faults may hit the process and its requests, and peers may
not answer, but nothing breaks a command of the console off or lets it pass over an
error. The hypothesis is necessary, and the run `client` has the same: a deployment
that is broken off leaves the registrar of the authority before. `RegistrarInv`
follows a cleaning and a deployment through their steps, between which registrations
go on.

**FiniteInduction** is what the other proofs share. The induction theorems of the
library take an operator, which the provers cannot instantiate; well-foundedness of
`<` (`WFMin`) takes a set, and so does everything derived from it here: numbers
reached from 0, finite sets reached from the empty one, the existence and uniqueness
of a function defined by recursion over subsets (which the folds of the community
modules are) and over intervals, exchange of sums, finite sets of numbers listed in order, and binary: a number is
determined by its digits, and the greater of two has the greater digit at the highest
place where they differ.

Left to TLC: liveness under fairness (`CommandReturns`, `ServiceReturns`,
`NamesGetAccounts`), which is out of the prover's reach; `AccessAsStored`,
`RowsRebuilt` and `AccessAsTyped` of `PolicySyntax`, whose texts and parser are
recursive operators, which are out of reach as well; and `CompleteWithAllKeys`: that
the elimination and its second method find coefficients where there are some depends
on what the recursions compute, and holds for the rows of whole trees only
(`ComparisonsComplete` fails).

## What is not modelled

* The arithmetic of points and fields (`arith_miracl.go`, `arith_pbc.go`): its
  algebra stands for it. `pkg/mosaic/abe/miracl`, the generated parser and the
  ANTLR runtime, the bindings of PBC and Z3 are third-party or generated and make
  up some 32 of the 43 thousand lines; modelling them would say nothing of this
  system.
* `policy_z3.go`, which is built with the tag `z3` only, and policies written as
  prefix expressions.
* AES and X.509: a sealed content opens with its key only, certificates are named
  by their authority.
* The error recovery of the parser; regular expressions of the normalizer are
  taken as applied.
* Registration over HTTP, which is used where the binary `fabric-ca-client` is
  missing.
* `List`, `ListKeys`, `Login` and the queries of the contract only read.
* Certificate, signature and policy checks before the first effect of a request.
* HTTP decoding, MSP checks, logging, configuration, the static page, the
  benchmark.

## Plan

1. An abstract vault (asset and content in one step) which `FileService`
   implements for undisturbed requests; `Stands` is its refinement mapping already.
2. Completeness of the labelling: that coefficients exist for attributes that open
   the tree, by the same induction along the labelling as soundness.
3. `EnsureKeysForPolicy` composed with `AuthAdmin`'s issue, so that a key ring meets
   an authority whose keys were replaced after a disturbance.
