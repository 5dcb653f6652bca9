-------------------------------- MODULE Keys --------------------------------
(***************************************************************************)
(* What the API-key store promises: every administrative operation that is *)
(* answered with success took effect at one instant, on the latest state,  *)
(* and nothing else ever changes a key or a permission set. Access is the  *)
(* program that implements it, with its cache, its locks and its crashes.  *)
(***************************************************************************)
CONSTANTS
    Secrets,   \* API keys, each known by its secret
    Names,     \* names of permission sets
    Admin,     \* the builtin set whose powers are fixed
    User,      \* the other builtin set
    Powers,    \* what a permission set may allow: categories, writing, administration
    None

VARIABLES
    keys,      \* each secret's record, or None
    sets       \* the powers of each permission set, or None

Builtin == {Admin, User}
Records == [set : Names, active : BOOLEAN]

TypeOK ==
    /\ keys \in [Secrets -> Records \cup {None}]
    /\ sets \in [Names -> (SUBSET Powers) \cup {None}]

Put(s, record) == keys' = [keys EXCEPT ![s] = record] /\ UNCHANGED sets

Issue(s, n) ==
    /\ keys[s] = None /\ sets[n] # None
    /\ Put(s, [set |-> n, active |-> TRUE])

SetStatus(s, active) ==
    /\ keys[s] # None
    /\ Put(s, [keys[s] EXCEPT !.active = active])

Assign(s, n) ==
    /\ keys[s] # None /\ sets[n] # None
    /\ Put(s, [keys[s] EXCEPT !.set = n])

Revoke(s) == keys[s] # None /\ Put(s, None)

\* One instant: never both secrets, never neither, and the set of the record.
Rotate(old, new) ==
    /\ keys[old] # None /\ keys[new] = None
    /\ keys' = [keys EXCEPT ![old] = None, ![new] = [set |-> keys[old].set, active |-> TRUE]]
    /\ UNCHANGED sets

Define(n, p) ==
    /\ n \notin Builtin /\ sets[n] = None
    /\ sets' = [sets EXCEPT ![n] = p]
    /\ UNCHANGED keys

Redefine(n, p) ==
    /\ n # Admin /\ sets[n] # None
    /\ sets' = [sets EXCEPT ![n] = p]
    /\ UNCHANGED keys

\* A set in use is never dropped: its keys would have no authorization.
Drop(n) ==
    /\ n \notin Builtin /\ sets[n] # None
    /\ \A s \in Secrets : keys[s] # None => keys[s].set # n
    /\ sets' = [sets EXCEPT ![n] = None]
    /\ UNCHANGED keys

Init == TypeOK /\ \A n \in Builtin : sets[n] # None

Next ==
    \/ \E s \in Secrets : Revoke(s) \/ \E active \in BOOLEAN : SetStatus(s, active)
    \/ \E s \in Secrets, n \in Names : Issue(s, n) \/ Assign(s, n)
    \/ \E old, new \in Secrets : Rotate(old, new)
    \/ \E n \in Names : Drop(n) \/ \E p \in SUBSET Powers : Define(n, p) \/ Redefine(n, p)

Spec == Init /\ [][Next]_<<keys, sets>>
=============================================================================
