------------------------------ MODULE KeyRing -------------------------------
(***************************************************************************)
(* The key service of the client, user_client/service/key_service.go with  *)
(* attr_format.go and the parts of abe/policy.go it asks: the attribute    *)
(* keys of one user, as rows of the database.                              *)
(*                                                                         *)
(* A request gets a key from the organization server, reads the latest     *)
(* version stored under the same label and creates a row with the next     *)
(* one; no lock or index keeps two requests from doing so at once.  A      *)
(* decryption first completes the keys its policy asks for.                *)
(*                                                                         *)
(* An attribute is written in three ways: <<a>> is a plain one, <<a, v>>   *)
(* is "a=v@auth", what is sent to the organization server, and <<a, op, v>>*)
(* is "a@auth op v", a clause of a policy or the label of a row.  Policies *)
(* are sequences of clauses: keys are asked for all of them, whatever      *)
(* joins them.  Attributes of another organization are refused before      *)
(* anything happens and left out.                                          *)
(***************************************************************************)
EXTENDS NumericBits, Sequences, SequencesExt, FiniteSets

CONSTANTS
  Req,         \* requests
  Registered,  \* sequence of the user's attributes, <<a>> or <<a, v>>
  Locations,   \* plain attributes whose name starts with "loc"
  Asked,       \* what RequestKey is asked for
  AutoAsked,   \* clauses <<"hour", op, h>> for RequestAutoKeys
  Policies,    \* policies of the files to decrypt
  Rank(_),     \* position of a label in the database's order
  MaxFaults    \* bound on database queries that fail

\* An attribute is written in one of the three ways.
Written ==
  ToSet(Registered) \cup Asked \cup AutoAsked \cup {<<loc>> : loc \in Locations}
    \cup UNION {ToSet(policy) : policy \in Policies}

VARIABLES
  rows,        \* the table: [id, label, version, issue, seen, blind]
  req,         \* what each request is doing
  faults       \* failed queries so far

vars == <<rows, req, faults>>

IsComparison(x) == Len(x) = 3
HasNumber(x)    == Len(x) = 2

\* Numbers are those of the width; a policy names attributes and compares them.
ASSUME KeyRingAssumption ==
  /\ MaxFaults \in Nat /\ NBit \in Nat \ {0}
  /\ \A x \in Written :
       /\ Len(x) \in 1..3
       /\ HasNumber(x) => x[2] \in Values
       /\ IsComparison(x) => x[2] \in Compares /\ x[3] \in Values
  /\ Registered \in Seq(ToSet(Registered))
  /\ \A policy \in Policies :
       /\ policy \in Seq(ToSet(policy))
       /\ \A clause \in ToSet(policy) : ~HasNumber(clause)

Refused == [issue |-> <<>>, label |-> <<>>]

-----------------------------------------------------------------------------
(***************************************************************************)
(* Formats.                                                                *)
(***************************************************************************)

\* parseAttrSpec: what to ask the server for and how to label the row.  Of the
\* comparisons only those with the hour are understood; others are taken for
\* the name of an attribute.
parseAttrSpec(x) ==
  CASE HasNumber(x) -> [issue |-> x, label |-> <<x[1], "==", x[2]>>]
    [] IsComparison(x) /\ x[1] = "hour" -> [issue |-> <<x[1], x[3]>>, label |-> x]
    [] OTHER -> [issue |-> x, label |-> x]

ASSUME RankAssumption == \A x \in Written : Rank(parseAttrSpec(x).label) \in Int

\* IssueAttributeExpansion: the keys that come with an issue.
IssueAttributeExpansion(issue) ==
  CASE HasNumber(issue)    -> BagOfBits(issue[1], issue[2])
    [] IsComparison(issue) -> {<<issue, "unparsed">>}
    [] OTHER               -> {issue}

\* findUserNumericAttr: where attributes with this name and a number are
\* registered, and the first of them.
Numbers(a) == {i \in DOMAIN Registered : HasNumber(Registered[i]) /\ Registered[i][1] = a}
FirstNumber(a) == Registered[Min(Numbers(a))]

\* Whether that number satisfies the comparison.
RegisteredSatisfies(clause) ==
  /\ Numbers(clause[1]) # {}
  /\ NumericCompareSatisfied(FirstNumber(clause[1])[2], clause[2], clause[3])

\* resolveAttrSpecForUser: a comparison other than == is answered with the
\* number the user is registered with.
resolveAttrSpecForUser(clause) ==
  IF IsComparison(clause) /\ clause[2] # "=="
  THEN IF RegisteredSatisfies(clause) THEN parseAttrSpec(FirstNumber(clause[1])) ELSE Refused
  ELSE parseAttrSpec(clause)

\* KeyIssueSpecsFromPolicy.
PolicyIssue(clause) ==
  IF IsComparison(clause) THEN <<clause[1], clause[3]>> ELSE clause

authorizeKeyIssue(spec, leaf) ==
  \/ spec.issue[1] = "hour" /\ HasNumber(spec.issue)
  \/ spec.issue[1] \in Locations
  \/ IsComparison(leaf) /\ resolveAttrSpecForUser(leaf) # Refused
  \/ /\ ~IsComparison(leaf)
     /\ \E i \in DOMAIN Registered : parseAttrSpec(Registered[i]).issue = spec.issue

\* Faulty variant: the label of the clause itself is looked for.
LabelsAsWritten(clause) == {clause}

\* keyLabelsForPolicySpec: the labels under which rows may answer a clause.
keyLabelsForPolicySpec(clause) ==
  IF IsComparison(clause) /\ clause[2] # "=="
  THEN IF resolveAttrSpecForUser(clause) = Refused THEN {}
       ELSE {resolveAttrSpecForUser(clause).label}
  ELSE {clause} \cup {parseAttrSpec(clause).label}
         \cup (IF IsComparison(clause)
               THEN {parseAttrSpec(Registered[i]).label : i \in Numbers(clause[1])}
               ELSE {})

-----------------------------------------------------------------------------
(***************************************************************************)
(* Merging the keys for a policy, and what is missing.                     *)
(***************************************************************************)
Clauses(policy) == ToSet(policy)

Labels == {row.label : row \in rows}
Of(label) == {row \in rows : row.label = label}

\* The row an "order by version desc" puts first; any of several.
Latest(label) == {x \in Of(label) : \A y \in Of(label) : y.version <= x.version}

\* A label that numericKeyBase knows: those of hours alone.
IsHour(label) == IsComparison(label) /\ label[1] = "hour"

\* MergeUserKeysForPolicy: the labels whose keys are taken.  No wanted label
\* means all of them; of the hours only the first in order.
MergedLabels(policy) ==
  LET want  == UNION {keyLabelsForPolicySpec(c) : c \in Clauses(policy)}
      found == {l \in Labels : want = {} \/ l \in want}
  IN {l \in found : IsHour(l) =>
        \A k \in found : IsHour(k) => Rank(l) <= Rank(k)}

\* The possible results, one for each choice among rows of one version; a
\* query that fails leaves nothing.
Merges(policy) ==
  LET ls == MergedLabels(policy) IN
    {UNION {IssueAttributeExpansion(pick[l].issue) : l \in ls} :
       pick \in {f \in [ls -> rows] : \A l \in ls : f[l] \in Latest(l)}}

PolicyVars(policy) ==
  UNION {IF IsComparison(c) THEN ComparedBits(c[1], c[2], c[3]) ELSE {c} :
           c \in Clauses(policy)}

\* userHasNumericBitKeys.
HasBitKeys(keys, a) ==
  Cardinality({k \in keys : Len(k) = 3 /\ k[1] = a}) >= NBit

\* PolicyMissingUserKeys: bits of an attribute that is compared otherwise than
\* by == are not missed once there are keys for as many bits as a number has.
Missing(policy, keys) ==
  {x \in PolicyVars(policy) \ keys :
     ~ /\ Len(x) = 3 /\ HasBitKeys(keys, x[1])
       /\ \E c \in Clauses(policy) : IsComparison(c) /\ c[1] = x[1] /\ c[2] # "=="}

specNeedsIssue(clause, missing) ==
  \/ /\ resolveAttrSpecForUser(clause) # Refused
     /\ IssueAttributeExpansion(resolveAttrSpecForUser(clause).issue) \cap missing # {}
  \/ IssueAttributeExpansion(PolicyIssue(clause)) \cap missing # {}

\* The keys are those of somebody whom the policy admits.
Sufficient(policy, keys) ==
  \A c \in Clauses(policy) :
    IF IsComparison(c)
    THEN \E u \in Values : BagOfBits(c[1], u) \subseteq keys
                            /\ NumericCompareSatisfied(u, c[2], c[3])
    ELSE c \in keys

-----------------------------------------------------------------------------
(***************************************************************************)
(* Requests.                                                               *)
(***************************************************************************)
Idle == [pc |-> "idle", todo |-> <<>>, policy |-> <<>>, missing |-> {}, label |-> <<>>,
         issue |-> <<>>, version |-> 0, seen |-> 0, blind |-> FALSE, own |-> 0,
         said |-> 0, result |-> "none", enough |-> FALSE, alone |-> TRUE, fault |-> FALSE]

Active(r) == req[r].pc \notin {"idle", "done"}

\* A request begins, and every other that is under way has met it.
Begin(r, q) ==
  req' = [s \in Req |->
            IF s = r THEN [q EXCEPT !.alone = \A o \in Req : ~Active(o)]
            ELSE IF Active(s) THEN [req[s] EXCEPT !.alone = FALSE] ELSE req[s]]

Set(r, q) == req' = [req EXCEPT ![r] = q]

Finish(q, result) == [Idle EXCEPT !.pc = "done", !.result = result,
                        !.policy = q.policy, !.alone = q.alone, !.fault = q.fault,
                        !.own = q.own, !.said = q.said]

\* The next query of r fails.
Fault(r) == faults < MaxFaults /\ faults' = faults + 1

\* Take the first of the specs left.
IssueNext(q, specs) ==
  [q EXCEPT !.pc = "read", !.todo = Tail(specs),
            !.issue = Head(specs).issue, !.label = Head(specs).label]

RequestKey(r, x) ==
  LET spec == parseAttrSpec(x) IN
    /\ req[r].pc = "idle"
    /\ authorizeKeyIssue(spec, spec.label)
    /\ Begin(r, IssueNext(Idle, <<spec>>))
    /\ UNCHANGED <<rows, faults>>

\* autoAttributeSpecs: what is registered, the hour and the location, each
\* issue once.
AddSpec(specs, spec) ==
  IF \E i \in DOMAIN specs : specs[i].issue = spec.issue THEN specs
  ELSE Append(specs, spec)

RequestAutoKeys(r, hour, loc) ==
  LET all == Registered \o <<hour, <<loc>> >> IN
    /\ req[r].pc = "idle"
    /\ Begin(r, IssueNext(Idle,
         FoldLeft(AddSpec, <<>>, [i \in DOMAIN all |-> parseAttrSpec(all[i])])))
    /\ UNCHANGED <<rows, faults>>

\* Decrypt of the file service calls EnsureKeysForPolicy.
EnsureKeysForPolicy(r, p) ==
  /\ req[r].pc = "idle"
  /\ Begin(r, [Idle EXCEPT !.pc = "merge", !.policy = p, !.todo = p])
  /\ UNCHANGED <<rows, faults>>

\* What is missing is computed from the merged keys.
Merge(r) ==
  /\ req[r].pc = "merge"
  /\ \/ \E keys \in Merges(req[r].policy) :
          LET missing == Missing(req[r].policy, keys) IN
            Set(r, [req[r] EXCEPT !.missing = missing,
                                  !.pc = IF missing = {} THEN "final" ELSE "loop"])
        /\ UNCHANGED faults
     \/ /\ Fault(r)
        /\ Set(r, [req[r] EXCEPT !.missing = PolicyVars(req[r].policy),
                                 !.pc = "loop", !.fault = TRUE])
  /\ UNCHANGED rows

\* One round of the loop over the clauses.
Loop(r) ==
  LET q    == req[r]
      spec == resolveAttrSpecForUser(Head(q.todo))
  IN /\ q.pc = "loop"
     /\ Set(r, IF q.todo = <<>> THEN Finish(q, "missing")
               ELSE IF ~specNeedsIssue(Head(q.todo), q.missing)
               THEN [q EXCEPT !.todo = Tail(@)]
               ELSE IF spec = Refused \/ ~authorizeKeyIssue(spec, Head(q.todo))
               THEN Finish(q, "refused")
               ELSE [q EXCEPT !.pc = "read", !.todo = Tail(@),
                              !.issue = spec.issue, !.label = spec.label])
     /\ UNCHANGED <<rows, faults>>

\* Faulty variant: the rows are ordered by ascending version.
ReadOldest(r) ==
  /\ req[r].pc = "read"
  /\ \/ \E x \in Of(req[r].label) :
          /\ \A y \in Of(req[r].label) : x.version <= y.version
          /\ Set(r, [req[r] EXCEPT !.pc = "create", !.version = x.version + 1,
                                   !.seen = Cardinality(rows)])
     \/ /\ Of(req[r].label) = {}
        /\ Set(r, [req[r] EXCEPT !.pc = "create", !.version = 1, !.seen = Cardinality(rows)])
  /\ UNCHANGED <<rows, faults>>

\* Faulty variant: the first version is zero.
ReadFromZero(r) ==
  /\ req[r].pc = "read"
  /\ Set(r, [req[r] EXCEPT !.pc = "create", !.seen = Cardinality(rows),
              !.version = Cardinality(Of(req[r].label))])
  /\ UNCHANGED <<rows, faults>>

\* issueAndStore: the server has issued the key; the transaction reads the
\* latest row.  A query that fails counts as no row.
ReadLatest(r) ==
  /\ req[r].pc = "read"
  /\ \/ /\ \/ \E x \in Latest(req[r].label) :
                Set(r, [req[r] EXCEPT !.pc = "create", !.version = x.version + 1,
                                      !.seen = Cardinality(rows)])
           \/ /\ Of(req[r].label) = {}
              /\ Set(r, [req[r] EXCEPT !.pc = "create", !.version = 1,
                                       !.seen = Cardinality(rows)])
        /\ UNCHANGED faults
     \/ /\ Fault(r)
        /\ Set(r, [req[r] EXCEPT !.pc = "create", !.version = 1, !.seen = Cardinality(rows),
                                 !.blind = TRUE, !.fault = TRUE])
  /\ UNCHANGED rows

Create(r) ==
  LET q == req[r] IN
  /\ q.pc = "create"
  /\ rows' = rows \cup {[id |-> Cardinality(rows) + 1, label |-> q.label,
                         version |-> q.version, issue |-> q.issue,
                         seen |-> q.seen, blind |-> q.blind]}
  /\ Set(r, [q EXCEPT !.pc = "report", !.own = q.version, !.blind = FALSE])
  /\ UNCHANGED faults

\* Faulty variant: the version reported is that of any row of the label.
ReportAny(r) ==
  LET q == req[r]
      after(v) == IF q.policy # <<>> THEN [q EXCEPT !.pc = "merge", !.said = v]
                  ELSE IF q.todo # <<>> THEN IssueNext([q EXCEPT !.said = v], q.todo)
                  ELSE Finish([q EXCEPT !.said = v], "issued")
  IN /\ q.pc = "report"
     /\ \E x \in Of(q.label) : Set(r, after(x.version))
     /\ UNCHANGED <<rows, faults>>

\* nVersion, after the transaction; then the next spec, or the loop again.
Report(r) ==
  LET q == req[r]
      after(v) == IF q.policy # <<>> THEN [q EXCEPT !.pc = "merge", !.said = v]
                  ELSE IF q.todo # <<>> THEN IssueNext([q EXCEPT !.said = v], q.todo)
                  ELSE Finish([q EXCEPT !.said = v], "issued")
  IN /\ q.pc = "report"
     /\ \/ \E x \in Latest(q.label) : Set(r, after(x.version)) /\ UNCHANGED faults
        \/ Fault(r) /\ Set(r, [after(1) EXCEPT !.fault = TRUE])
     /\ UNCHANGED rows

\* The keys are complete; Decrypt merges them once more and hands them to the
\* engine, which may find no coefficients for them although they suffice
\* (abe/sss.go:78-86).  enough is a history: whether they did.
Decrypt(r) ==
  LET q == req[r] IN
  /\ q.pc = "final"
  /\ \/ \E keys \in Merges(q.policy), result \in {"opened", "failed"} :
          Set(r, [Finish(q, result) EXCEPT !.enough = Sufficient(q.policy, keys)])
        /\ UNCHANGED faults
     \/ Fault(r) /\ Set(r, [Finish(q, "failed") EXCEPT !.fault = TRUE])
  /\ UNCHANGED rows

\* The server does not answer, the database refuses the row, or the process
\* stops.
Abort(r) ==
  /\ Active(r)
  /\ Set(r, [Idle EXCEPT !.pc = "done", !.result = "aborted"])
  /\ UNCHANGED <<rows, faults>>

-----------------------------------------------------------------------------
Init ==
  /\ rows = {}
  /\ req = [r \in Req |-> Idle]
  /\ faults = 0

Next == \E r \in Req :
  \/ \E x \in Asked : RequestKey(r, x)
  \/ \E hour \in AutoAsked, loc \in Locations : RequestAutoKeys(r, hour, loc)
  \/ \E p \in Policies : EnsureKeysForPolicy(r, p)
  \/ Merge(r) \/ Loop(r) \/ ReadLatest(r) \/ Create(r) \/ Report(r) \/ Decrypt(r)
  \/ Abort(r)

Spec == Init /\ [][Next]_vars
-----------------------------------------------------------------------------
(***************************************************************************)
(* Properties.                                                             *)
(***************************************************************************)
IsLabel(x) == Len(x) \in {1, 3}

TypeOK ==
  /\ faults \in 0..MaxFaults
  /\ \A x \in rows : /\ x.id \in 1..Cardinality(rows) /\ x.version \in 1..Cardinality(rows)
                      /\ IsLabel(x.label) /\ x.seen < x.id /\ x.blind \in BOOLEAN
  /\ \A x, y \in rows : x.id = y.id => x = y
  /\ \A r \in Req :
       /\ req[r].pc \in {"idle", "merge", "loop", "read", "create", "report", "final", "done"}
       /\ req[r].pc \in {"create", "report"} => req[r].seen \in 0..Cardinality(rows)
       /\ req[r].alone \in BOOLEAN /\ req[r].fault \in BOOLEAN /\ req[r].enough \in BOOLEAN
       /\ req[r].own \in 0..Cardinality(rows) /\ req[r].said \in 0..Cardinality(rows)

\* Whatever requests and failures come together, a key has a higher version than
\* every key of its label that was there when its request looked, unless the
\* look failed: only overlapping requests can give one version twice
\* (key_service.go:250), and one that ran later is never taken for the older.
VersionsFollowOrder ==
  \A x, y \in rows :
    x.label = y.label /\ x.id <= y.seen /\ ~y.blind => x.version < y.version

\* The version an undisturbed request reports is that of the key it stored,
\* although it is looked up after the transaction (key_service.go:110); what
\* others stored meanwhile can only make it higher.
ReportedVersionIsOwn ==
  \A r \in Req : req[r].result \in {"issued", "opened"} /\ req[r].own # 0 /\ ~req[r].fault =>
    /\ req[r].own <= req[r].said
    /\ req[r].alone => req[r].own = req[r].said

\* What the user's registration entitles him to; hours and places to everybody.
Entitled(clause) ==
  IF ~IsComparison(clause)
  THEN clause[1] \in Locations \/ \E i \in DOMAIN Registered : Registered[i] = clause
  ELSE \/ clause[1] = "hour" /\ clause[2] = "=="
       \/ RegisteredSatisfies(clause)

\* No version names two keys.
VersionsUnique ==
  \A x, y \in rows : x.label = y.label /\ x.version = y.version => x = y

\* An undisturbed decryption that was refused nothing, of a policy with these
\* clauses.
Served(r) ==
  /\ req[r].result \in {"opened", "failed", "missing", "refused"}
  /\ req[r].policy # <<>>
  /\ \A c \in Clauses(req[r].policy) : Entitled(c)
  /\ req[r].alone /\ ~req[r].fault /\ VersionsUnique

\* EnsureKeysForPolicy completes the keys of every policy the user is entitled
\* to, so that those handed to the engine suffice: "按策略补全缺失 userkey（解密前调用）"
\* (key_service.go:115).
EnsureCompletes == \A r \in Req : Served(r) => req[r].enough

\* What a policy was checked for before it was used (abe/policy.go:98, 421): it
\* has one comparison at most, with a number that leaves a bit to ask for.
Validated(policy) ==
  /\ \A c, d \in Clauses(policy) : IsComparison(c) /\ IsComparison(d) => c = d
  /\ \A c \in Clauses(policy) : IsComparison(c) =>
       c[3] \in (IF c[2] \in {">=", "<"} THEN 1 ELSE 0)..(2^NBit - 2)

\* It does so at least for policies that compare no registered number by ==,
\* whatever requests have left in the table before.
EnsureCompletesInequalities ==
  \A r \in Req :
    /\ Served(r) /\ Validated(req[r].policy)
    /\ \A c \in Clauses(req[r].policy) : IsComparison(c) /\ c[2] = "==" => Numbers(c[1]) = {}
    => req[r].enough

\* The key of a number is stored only for the number the user is registered
\* with; hours are free: "hour / loc* 仍允许按策略自动补发；数值比较走注册值校验"
\* (key_service.go:431).
NumbersAsRegistered ==
  \A x \in rows : HasNumber(x.issue) =>
    x.issue[1] = "hour" \/ \E i \in DOMAIN Registered : Registered[i] = x.issue
=============================================================================
