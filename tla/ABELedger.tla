----------------------------- MODULE ABELedger ------------------------------
(***************************************************************************)
(* The contract ABELedger of chaincode/contract.go as its clients reach it *)
(* through utils/gateway: a transaction is simulated against the committed *)
(* world state (endorsement), which records the version of the key it read *)
(* and the write it wants; some time later the ordering service delivers   *)
(* it and the peers commit the write if what was read is still current     *)
(* (MVCC validation).  The client waits with timeouts, so it may give up   *)
(* on a transaction that commits afterwards.                               *)
(*                                                                         *)
(* A transaction t \in Tx is one call of SubmitTransaction and is used     *)
(* once.  Fabric versions a key by the block and position of the write;    *)
(* that names the writing transaction uniquely, so the model uses the      *)
(* writer itself as the key's version for MVCC.                            *)
(***************************************************************************)
EXTENDS Naturals, FiniteSets

CONSTANTS
  Tx,       \* calls of SubmitTransaction
  Ids,      \* ciphertext asset ids
  Params,   \* the key GLOBAL_PARAMS
  Bodies,   \* payloads: a table of public keys, or a ciphertext with its owner
  Times,    \* creation times
  Nil, NoTime

ASSUME LedgerAssumption ==
  /\ Params \notin Ids
  /\ Nil \notin Tx
  /\ NoTime \notin Times

VARIABLES
  world,    \* the committed world state: [Keys -> Asset]
  tx        \* what each transaction has come to: [Tx -> TxState]

ledgerVars == <<world, tx>>

Keys == Ids \cup {Params}

(***************************************************************************)
(* An asset, with the transaction that wrote it.  Version 0 stands for a   *)
(* key that has no state.                                                  *)
(***************************************************************************)
Asset == [version : Nat, body : Bodies \cup {Nil},
          createdAt : Times \cup {NoTime}, writer : Tx \cup {Nil}]

Absent == [version |-> 0, body |-> Nil, createdAt |-> NoTime, writer |-> Nil]

Stages == {"idle", "endorsed", "committed", "invalid", "dropped", "refused"}

TxState == [stage : Stages, key : Keys, blind : BOOLEAN,
            read : Tx \cup {Nil}, write : Asset,
            answer : {"none", "ok", "failed", "unknown"}]

Unused == [stage |-> "idle", key |-> Params, blind |-> FALSE, read |-> Nil,
           write |-> Absent, answer |-> "none"]

Init ==
  /\ world = [k \in Keys |-> Absent]
  /\ tx = [t \in Tx |-> Unused]

-----------------------------------------------------------------------------
(***************************************************************************)
(* Endorsement: the contract's functions.                                  *)
(***************************************************************************)

\* Who signs a proposal.  Only an administrator of one of the two
\* organizations may write the global parameters.
Callers == [msp : {"Org1MSP", "Org2MSP", "other"}, admin : BOOLEAN]

isAdmin(caller) == caller.msp \in {"Org1MSP", "Org2MSP"} /\ caller.admin

\* The record of a simulated call: the version read, unless the call reads
\* nothing, and the asset to be written.
Simulated(t, k, blind, asset) ==
  /\ tx[t].stage = "idle"
  /\ tx' = [tx EXCEPT ![t] = [stage |-> "endorsed", key |-> k, blind |-> blind,
                              read |-> IF blind THEN Nil ELSE world[k].writer,
                              write |-> asset, answer |-> "none"]]
  /\ UNCHANGED world

\* Faulty variant: the version is not taken from the existing record.
PutGlobalParamsVersionOne(t, caller, body) ==
  /\ isAdmin(caller)
  /\ Simulated(t, Params, FALSE,
               [version |-> 1, body |-> body, createdAt |-> NoTime, writer |-> t])

\* The whole record is replaced by the caller's, the version apart.
PutGlobalParams(t, caller, body) ==
  /\ isAdmin(caller)
  /\ Simulated(t, Params, FALSE,
               [version |-> world[Params].version + 1, body |-> body,
                createdAt |-> NoTime, writer |-> t])

\* Faulty variant: an overwrite keeps the version.
PutCiphertextSameVersion(t, id, body, at) ==
  Simulated(t, id, FALSE,
            [version |-> IF world[id].version = 0 THEN 1 ELSE world[id].version,
             body |-> body,
             createdAt |-> IF at = NoTime THEN world[id].createdAt ELSE at,
             writer |-> t])

\* Faulty variant: an empty createdAt overwrites the existing one.
PutCiphertextDropsTime(t, id, body, at) ==
  Simulated(t, id, FALSE,
            [version |-> world[id].version + 1, body |-> body, createdAt |-> at,
             writer |-> t])

\* An empty createdAt takes the existing record's.
PutCiphertext(t, id, body, at) ==
  Simulated(t, id, FALSE,
            [version |-> world[id].version + 1, body |-> body,
             createdAt |-> IF at = NoTime THEN world[id].createdAt ELSE at,
             writer |-> t])

\* DelState without a read: the write is unconditional.
DeleteCiphertext(t, id) == Simulated(t, id, TRUE, Absent)

\* The contract returns an error, or the peers do not endorse in time.
Refuse(t) ==
  /\ tx[t].stage = "idle"
  /\ tx' = [tx EXCEPT ![t].stage = "refused", ![t].answer = "failed"]
  /\ UNCHANGED world

-----------------------------------------------------------------------------
(***************************************************************************)
(* Ordering, validation and the answer to the client.                      *)
(***************************************************************************)

\* What the transaction read has not been written since.
MVCCValid(t) == tx[t].blind \/ world[tx[t].key].writer = tx[t].read

Commit(t) ==
  /\ tx[t].stage = "endorsed"
  /\ MVCCValid(t)
  /\ world' = [world EXCEPT ![tx[t].key] = tx[t].write]
  /\ tx' = [tx EXCEPT ![t].stage = "committed"]

Invalidate(t) ==
  /\ tx[t].stage = "endorsed"
  /\ ~MVCCValid(t)
  /\ tx' = [tx EXCEPT ![t].stage = "invalid"]
  /\ UNCHANGED world

\* The orderer never receives it.
Drop(t) ==
  /\ tx[t].stage = "endorsed"
  /\ tx' = [tx EXCEPT ![t].stage = "dropped"]
  /\ UNCHANGED world

\* SubmitTransaction returns the commit status.
Answer(t) ==
  /\ tx[t].stage \in {"committed", "invalid"}
  /\ tx[t].answer = "none"
  /\ tx' = [tx EXCEPT ![t].answer =
              IF tx[t].stage = "committed" THEN "ok" ELSE "failed"]
  /\ UNCHANGED world

\* A timeout of the gateway, or a broken connection, after endorsement: an
\* error that does not say whether the transaction will commit.
GiveUp(t) ==
  /\ tx[t].stage \notin {"idle", "refused"}
  /\ tx[t].answer = "none"
  /\ tx' = [tx EXCEPT ![t].answer = "unknown"]
  /\ UNCHANGED world

\* Steps of the network and the gateway, whatever the clients do.
Network(t) ==
  Commit(t) \/ Invalidate(t) \/ Drop(t) \/ Answer(t) \/ GiveUp(t)

Next ==
  \E t \in Tx :
    \/ \E caller \in Callers, body \in Bodies : PutGlobalParams(t, caller, body)
    \/ \E id \in Ids :
         \/ \E body \in Bodies, at \in Times \cup {NoTime} :
              PutCiphertext(t, id, body, at)
         \/ DeleteCiphertext(t, id)
    \/ Refuse(t)
    \/ Network(t)

Spec == Init /\ [][Next]_ledgerVars

-----------------------------------------------------------------------------
(***************************************************************************)
(* Properties.                                                             *)
(***************************************************************************)

\* Every variable has its type.
TypeOK ==
  /\ world \in [Keys -> Asset]
  /\ tx \in [Tx -> TxState]

Committed == {t \in Tx : tx[t].stage = "committed"}

\* The version in the global parameters, which are never deleted, is the
\* number of calls of PutGlobalParams that have committed.
ParamsVersionCounts ==
  world[Params].version = Cardinality({t \in Committed : tx[t].key = Params})

-----------------------------------------------------------------------------
(***************************************************************************)
(* The inductive invariant behind them.                                    *)
(***************************************************************************)

Sent(t) == tx[t].stage \notin {"idle", "refused"}

\* The asset from which a transaction's write was computed.
Replaced(t) == IF tx[t].read = Nil THEN Absent ELSE tx[tx[t].read].write

\* An asset is always what its writer wanted to write, and its writer has
\* committed: no half-applied, refused or abandoned call shows through.
WritersCommitted ==
  \A k \in Keys :
    world[k] # Absent =>
      /\ world[k].writer \in Committed
      /\ world[k] = tx[world[k].writer].write
      /\ tx[world[k].writer].key = k

\* What a transaction read was written by a committed one of the same key.
ReadsCommitted ==
  \A t \in Tx :
    Sent(t) /\ tx[t].read # Nil =>
      /\ tx[t].read \in Committed
      /\ tx[tx[t].read].key = tx[t].key

\* A put continues the record it read (global parameters have no creation
\* time); a delete reads and leaves nothing, and
\* never concerns the global parameters.
WritesFollowReads ==
  \A t \in Tx :
    Sent(t) =>
      IF tx[t].blind
      THEN tx[t].write = Absent /\ tx[t].read = Nil /\ tx[t].key # Params
      ELSE /\ tx[t].write.writer = t
           /\ tx[t].write.body \in Bodies
           /\ tx[t].write.version = Replaced(t).version + 1
           /\ tx[t].write.createdAt = NoTime => Replaced(t).createdAt = NoTime
           /\ tx[t].key = Params => tx[t].write.createdAt = NoTime

\* Once a write built on another has committed, that other is gone for good.
ReadsSuperseded ==
  \A t \in Committed :
    tx[t].read # Nil => \A k \in Keys : world[k].writer # tx[t].read

\* Two committed writes of one asset never rest on the same earlier write:
\* each PutCiphertext and PutGlobalParams was computed from the record it
\* replaced, so no committed update is silently overwritten by a call that
\* had not seen it.
NoLostUpdate ==
  \A t, u \in Committed :
    /\ t # u
    /\ tx[t].key = tx[u].key
    /\ ~tx[t].blind /\ ~tx[u].blind
    /\ tx[t].read = tx[u].read
    => tx[t].read = Nil

LedgerInv ==
  /\ TypeOK /\ WritersCommitted /\ ReadsCommitted /\ WritesFollowReads
  /\ ReadsSuperseded /\ NoLostUpdate

\* Endorsed at one time and committed at another, the contract's calls still
\* act as single steps of a versioned store.
Store ==
  INSTANCE VersionedStore
    WITH store <- [k \in Keys |-> [version   |-> world[k].version,
                                   body      |-> world[k].body,
                                   createdAt |-> world[k].createdAt]]

ActsAsVersionedStore == Store!Spec
=============================================================================
