------------------------------- MODULE CpAbe --------------------------------
(***************************************************************************)
(* pkg/mosaic/abe/crypto.go under abe/engine.go: keys of attributes,       *)
(* ciphertexts and decryptions with one container of user keys, which a    *)
(* decryption leaves its coefficients in.                                  *)
(*                                                                         *)
(* An element of a group is the exponent of the group's generator: a       *)
(* product is a sum, a pairing a product.  Exponents are kept unreduced    *)
(* and compared modulo the order of the groups.                            *)
(***************************************************************************)
EXTENDS Sequences, SequencesExt, Totals

CONSTANTS
  Order,      \* of the groups, a prime
  Draws,      \* the exponents that are drawn at random
  Secrets,    \* and the secrets
  MaxCiphertexts,  \* bound on ciphertexts, at most one for each policy
  Attrs,      \* attributes
  HashUser, HashAttr,   \* HashToGroup of the user, and of every attribute
  Alpha, Y,   \* the private key of every attribute's authority
  Policies,
  Vars,       \* the attribute of every row of a policy's matrix,
  M,          \* and the row
  Factors     \* bound on the coefficients that put rows together

Width(p) == Len(M[p][1])

\* encodeAccessPolicy gives every row as many columns as the labelling used, at
\* least one, with the labels 1, -1 and 0 (sss.go:49-60).
ASSUME CpAbeAssumption ==
  /\ Order \in Nat \ {0} /\ Draws \subseteq Int /\ Secrets \subseteq Int /\ HashUser \in Int
  /\ HashAttr \in [Attrs -> Int] /\ Alpha \in [Attrs -> Int] /\ Y \in [Attrs -> Int]
  /\ Vars \in [Policies -> Seq(Attrs)]
  /\ Factors \subseteq Int
  /\ \A p \in Policies :
       /\ DOMAIN M[p] = DOMAIN Vars[p] /\ Vars[p] # <<>>
       /\ Width(p) \in Nat \ {0} /\ M[p] \in Seq([1..Width(p) -> -1..1])

VARIABLES
  userkey,  \* UserAttrs.Userkey
  coeff,    \* UserAttrs.Coeff
  ct,       \* the ciphertext made under each policy
  result    \* history: what the last decryption returned

vars == <<userkey, coeff, ct, result>>

None == <<>>
Refused == [policy |-> {}, value |-> 0, kept |-> FALSE]

\* The rows of an attribute, in order.
Row(p, a) ==
  LET rows == {i \in DOMAIN Vars[p] : Vars[p][i] = a} IN
    CHOOSE s \in [1..Cardinality(rows) -> rows] : \A j, k \in DOMAIN s : j < k => s[j] < s[k]

Init ==
  /\ userkey = <<>> /\ coeff = <<>>
  /\ ct = [p \in Policies |-> None]
  /\ result = Refused

-----------------------------------------------------------------------------
Extended(f, a, x) == [b \in DOMAIN f \cup {a} |-> IF b = a THEN x ELSE f[b]]

Userkey(a, t) == [K |-> Alpha[a] + HashUser * Y[a] + HashAttr[a] * t, KP |-> t]

\* NewRandomUserkey, and UserAttrs.Add to what the user has.
NewRandomUserkey(a, t) ==
  /\ userkey' = Extended(userkey, a, Userkey(a, t))
  /\ coeff' = Extended(coeff, a, <<>>)
  /\ UNCHANGED <<ct, result>>

computeShares(s, p) ==
  [i \in DOMAIN M[p] |-> Total([j \in 1..Width(p) |-> M[p][i][j] * s[j]], 1..Width(p))]

\* C[attr][k] of a row with the shares shs and shw.
Component(a, shs, shw, tx) ==
  <<shs + Alpha[a] * tx, -tx, shw + Y[a] * tx, HashAttr[a] * tx>>

Ciphertext(p, secret, s, w, tx) ==
  [secret |-> secret, C0 |-> secret + s[1],
   C |-> [a \in ToSet(Vars[p]) |->
            [k \in DOMAIN Row(p, a) |->
               LET i == Row(p, a)[k] IN
                 Component(a, computeShares(s, p)[i], computeShares(w, p)[i], tx[i])]]]

\* Faulty variant: both sharings are of random secrets.
EncryptTwoSecrets(p, secret) ==
  /\ ct[p] = None /\ Cardinality({q \in Policies : ct[q] # None}) < MaxCiphertexts
  /\ \E s, w \in [1..Width(p) -> Draws], tx \in [DOMAIN M[p] -> Draws] :
       ct' = [ct EXCEPT ![p] = Ciphertext(p, secret, s, w, tx)]
  /\ UNCHANGED <<userkey, coeff, result>>

\* NewRandomSecret: s shares a random secret, w shares zero.
Encrypt(p, secret) ==
  /\ ct[p] = None /\ Cardinality({q \in Policies : ct[q] # None}) < MaxCiphertexts
  /\ \E s, w \in [1..Width(p) -> Draws], tx \in [DOMAIN M[p] -> Draws] :
       ct' = [ct EXCEPT ![p] = Ciphertext(p, secret, s, [w EXCEPT ![1] = 0], tx)]
  /\ UNCHANGED <<userkey, coeff, result>>

-----------------------------------------------------------------------------
linCombMatches(c, p) ==
  \A j \in 1..Width(p) :
    Total([i \in DOMAIN M[p] |-> c[i] * M[p][i][j]], DOMAIN M[p]) = IF j = 1 THEN 1 ELSE 0

\* What computeCoefficients may return for a user with all the rows.
Coefficients(p) == {c \in [DOMAIN M[p] -> Factors] : linCombMatches(c, p)}

\* SelectUserAttrs: the coefficients of the policy's attributes are replaced.
SelectUserAttrs(p, c) ==
  [a \in DOMAIN coeff |->
     IF a \in ToSet(Vars[p]) THEN [k \in DOMAIN Row(p, a) |-> c[Row(p, a)[k]]] ELSE coeff[a]]

\* validateDecryptInputs: every coefficient but 0 has its component.
Fits(C, cs) ==
  \A a \in DOMAIN cs : \A k \in DOMAIN cs[a] :
    cs[a][k] # 0 => a \in DOMAIN C /\ k \in DOMAIN C[a]

\* What the pairings make of one row.
RowValue(x, key) == x[1] + x[2] * key.K + x[3] * HashUser + key.KP * x[4]

Decrypted(p, cs) ==
  LET at == {x \in (DOMAIN cs) \X (1..Len(M[p])) :
               x[2] \in DOMAIN cs[x[1]] /\ cs[x[1]][x[2]] # 0}
  IN ct[p].C0 - Total([x \in at |-> cs[x[1]][x[2]]
                                      * RowValue(ct[p].C[x[1]][x[2]], userkey[x[1]])], at)

\* Engine.Decrypt.
Decrypt(p) ==
  /\ ct[p] # None
  /\ ToSet(Vars[p]) \subseteq DOMAIN userkey
  /\ \E c \in Coefficients(p) :
       /\ coeff' = SelectUserAttrs(p, c)
       /\ result' = IF Fits(ct[p].C, coeff')
                    THEN [policy |-> {p}, value |-> Decrypted(p, coeff'), kept |-> TRUE]
                    ELSE [Refused EXCEPT !.policy = {p}]
  /\ UNCHANGED <<userkey, ct>>

Next ==
  \/ \E a \in Attrs, t \in Draws : NewRandomUserkey(a, t)
  \/ \E p \in Policies, secret \in Secrets : Encrypt(p, secret)
  \/ \E p \in Policies : Decrypt(p)

Spec == Init /\ [][Next]_vars
-----------------------------------------------------------------------------
(***************************************************************************)
(* Properties.                                                             *)
(***************************************************************************)

\* crypto.go:118-196: what a decryption returns is the secret the ciphertext was
\* made for, whatever was drawn for the keys and the ciphertext, also where an
\* attribute has several rows, and whichever coefficients put the rows together.
DecryptReturnsSecret ==
  result.kept => \A p \in result.policy : (result.value - ct[p].secret) % Order = 0

\* Decrypt computes the coefficients anew for each policy and can be called
\* again with the same keys: "会先按策略重算系数（可重复调用）" (engine.go:172).
DecryptRepeatable == result.policy # {} => result.kept
=============================================================================
