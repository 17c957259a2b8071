-------------------------- MODULE StorageBalancing --------------------------
(***************************************************************************)
(* Storage balancing: when a data object is created, every passthru        *)
(* resource below the root is asked for its vote, and the PEP              *)
(* pep_resource_resolve_hierarchy_pre scales its write weight by the share *)
(* of max_bytes that would be free after the create.  There are three      *)
(* implementations of the PEP: the C++ plugin, the rule base and the       *)
(* Python rules.  Votes are taken from the catalog, which a create changes *)
(* only when its data is written, so concurrent creates do not see one     *)
(* another.                                                                *)
(*                                                                         *)
(* Each passthru resource has one child, a storage resource or another     *)
(* coordinating resource with its own below it.  The root resource is not  *)
(* in the repository: it is taken to choose a child with the highest       *)
(* positive vote.                                                          *)
(***************************************************************************)
EXTENDS Integers, FiniteSets

CONSTANTS
  Passthrus,   \* passthru resources
  Clients,     \* clients that create data objects
  Sizes,       \* sizes of new objects, positive
  Unknowns,    \* whether clients may leave the size open: subset of BOOLEAN
  Layouts,     \* the possible max_bytes of the passthrus, with the passthrus
               \* whose storage is not their direct child
  Policies,    \* implementations: subset of {"plugin", "rules", "python"}
  Modulus,     \* 2^64 in the plugin: its sums are of type uint64_t
  IntLimit,    \* the numbers of int() in a rule are -IntLimit .. IntLimit - 1
  MaxStored,   \* bytes on a resource (bound)
  MaxGrown,    \* bytes by which objects are extended (bound)
  Unlimited,   \* no max_bytes in the context string
  Malformed    \* a max_bytes that is not a number, or a broken context string

ASSUME BalancingAssumption ==
  /\ Passthrus # {} /\ IsFiniteSet(Passthrus)
  /\ Clients # {} /\ IsFiniteSet(Clients)
  /\ Sizes \subseteq Nat \ {0} /\ \E s \in Sizes : \A t \in Sizes : t <= s
  /\ Unknowns \subseteq BOOLEAN
  /\ Unlimited \notin Int /\ Malformed \notin Int
  /\ MaxStored \in Nat /\ MaxGrown \in Nat
  /\ IntLimit \in Nat \ {0}
  /\ Modulus \in Nat \ {0} /\ \A s \in Sizes : MaxStored + s < Modulus
  /\ Layouts \subseteq [max_bytes : [Passthrus -> (0 .. Modulus - 1) \cup {Unlimited, Malformed}],
                         deep : SUBSET Passthrus]
  /\ Policies \subseteq {"plugin", "rules", "python"}

NoVote  == <<-1, 1>>
NoSize  == 0
Unknown == -1   \* the size of an object that a client does not know yet

VARIABLES
  policy,    \* the implementation that is configured
  max_bytes, \* max_bytes[p] in the context string of p
  deep,      \* the passthrus whose storage is two levels below
  unknown,   \* whether clients may leave the size open
  used,      \* used[p]: sum of DATA_SIZE on the storage below p
  pc,        \* pc[c]: what client c is doing
  size,      \* size[c]: size of the object it creates
  announced, \* announced[c]: the file size in the request
  votes,     \* votes[c]: the write weights collected, as fractions <<n, d>>
  target,    \* target[c]: the resource that was chosen
  roomy,     \* roomy[c]: resources with room for the object since it asked (history)
  grown      \* bytes by which objects were extended (history)

config == <<policy, max_bytes, deep, unknown>>
client == <<pc, size, announced, votes, target>>
vars   == <<config, used, client, roomy, grown>>

Limited(p)  == max_bytes[p] \notin {Unlimited, Malformed}
HasRoom(p, u, s) == max_bytes[p] = Unlimited \/ (Limited(p) /\ u + s < max_bytes[p])
Positive(v) == v[1] > 0
Higher(v, w) == v[1] * w[2] > w[1] * v[2]

-----------------------------------------------------------------------------
Init ==
  /\ policy \in Policies
  /\ \E y \in Layouts : max_bytes = y.max_bytes /\ deep = y.deep
  /\ unknown \in Unknowns
  /\ used = [p \in Passthrus |-> 0]
  /\ pc = [c \in Clients |-> "idle"]
  /\ size = [c \in Clients |-> NoSize]
  /\ announced = [c \in Clients |-> NoSize]
  /\ votes = [c \in Clients |-> [p \in Passthrus |-> NoVote]]
  /\ target = [c \in Clients |-> {}]
  /\ roomy = [c \in Clients |-> {}]
  /\ grown = 0

ForgetNothing(c) == UNCHANGED votes

Forget(c) == votes' = [votes EXCEPT ![c] = [p \in Passthrus |-> NoVote]]

Quit(c) ==
  /\ pc' = [pc EXCEPT ![c] = "idle"]
  /\ size' = [size EXCEPT ![c] = NoSize]
  /\ announced' = [announced EXCEPT ![c] = NoSize]
  /\ Forget(c)
  /\ target' = [target EXCEPT ![c] = {}]

Create(c) ==
  /\ pc[c] = "idle"
  /\ \E s \in Sizes :
       /\ size' = [size EXCEPT ![c] = s]
       /\ \E a \in {s} \cup (IF unknown THEN {Unknown} ELSE {}) :
            announced' = [announced EXCEPT ![c] = a]
       /\ roomy' = [roomy EXCEPT ![c] = {p \in Passthrus : HasRoom(p, used[p], s)}]
  /\ pc' = [pc EXCEPT ![c] = "vote"]
  /\ UNCHANGED <<config, used, votes, target, grown>>

(* The int() of findBytesUsed, which wraps around: the rule base takes     *)
(* double() of the same sum.                                               *)
AsInt(n) == ((n + IntLimit) % (2 * IntLimit)) - IntLimit

(* The bytes the PEP finds below p: those on its direct child.             *)
BytesUsed(p) == LET n == IF p \in deep THEN 0 ELSE used[p]
                IN  IF policy = "python" THEN AsInt(n) ELSE n

(* What a policy counts as used after the create: Python leaves the new    *)
(* object out, and the plugin adds it as an unsigned number.               *)
HypotheticalOld(u, a) == u

Hypothetical(u, a) ==
  CASE policy = "plugin" -> (u + a) % Modulus
    [] policy = "rules"  -> u + a
    [] policy = "python" -> u

(* The write weight.  The plugin cuts it off at 0; the rule base and       *)
(* Python answer negative weights, that count as no vote just as well.     *)
WeightNoneIsZero(p, a) ==
  LET h == Hypothetical(BytesUsed(p), a)
      m == max_bytes[p]
  IN  IF m \in {0, Unlimited} THEN <<0, 1>>
      ELSE IF policy = "plugin" /\ h > m THEN <<0, 1>>
      ELSE <<m - h, m>>

Weight(p, a) ==
  LET h == Hypothetical(BytesUsed(p), a)
      m == max_bytes[p]
  IN  IF m = Unlimited THEN <<1, 1>>
      ELSE IF m = 0 THEN <<0, 1>>
      ELSE IF policy = "plugin" /\ h > m THEN <<0, 1>>
      ELSE <<m - h, m>>

(* A max_bytes that is not a number is an exception.  In Python it stays a *)
(* string, so "0" is not 0 and is divided by.                              *)
Raises(p) == max_bytes[p] = Malformed \/ (policy = "python" /\ max_bytes[p] = 0)

Vote(c) ==
  /\ pc[c] = "vote"
  /\ \E p \in Passthrus :
       /\ votes[c][p] = NoVote /\ ~Raises(p)
       /\ votes' = [votes EXCEPT ![c][p] = Weight(p, announced[c])]
  /\ UNCHANGED <<config, used, pc, size, announced, target, roomy, grown>>

(* The exception of one PEP fails the create as a whole.                   *)
VoteRaises(c) ==
  /\ pc[c] = "vote"
  /\ \E p \in Passthrus : votes[c][p] = NoVote /\ Raises(p)
  /\ Quit(c)
  /\ roomy' = [roomy EXCEPT ![c] = {}]
  /\ UNCHANGED <<config, used, grown>>

(* So does a query that fails, or one that finds no resource of that name. *)
QueryFails(c) ==
  /\ pc[c] = "vote"
  /\ \E p \in Passthrus : votes[c][p] = NoVote
  /\ Quit(c)
  /\ roomy' = [roomy EXCEPT ![c] = {}]
  /\ UNCHANGED <<config, used, grown>>

Voted(c) == pc[c] = "vote" /\ \A p \in Passthrus : votes[c][p] # NoVote

Resolve(c) ==
  /\ Voted(c)
  /\ \E p \in Passthrus :
       /\ Positive(votes[c][p])
       /\ \A q \in Passthrus : ~Higher(votes[c][q], votes[c][p])
       /\ target' = [target EXCEPT ![c] = {p}]
  /\ pc' = [pc EXCEPT ![c] = "write"]
  /\ Forget(c)
  /\ UNCHANGED <<config, used, size, announced, roomy, grown>>

Refuse(c) ==
  /\ Voted(c)
  /\ \A p \in Passthrus : ~Positive(votes[c][p])
  /\ pc' = [pc EXCEPT ![c] = "refused"]
  /\ Forget(c)
  /\ UNCHANGED <<config, used, size, announced, target, roomy, grown>>

RefusalEnds(c) ==
  /\ pc[c] = "refused"
  /\ Quit(c)
  /\ roomy' = [roomy EXCEPT ![c] = {}]
  /\ UNCHANGED <<config, used, grown>>

(* The data is written and the size registered; what an unlimited resource *)
(* holds is never asked for and not counted (bound).                       *)
Register(c) ==
  /\ pc[c] = "write"
  /\ used' = [p \in Passthrus |->
                IF p \in target[c] /\ Limited(p) THEN used[p] + size[c] ELSE used[p]]
  /\ \A p \in Passthrus : used'[p] <= MaxStored
  /\ Quit(c)
  /\ roomy' = [d \in Clients |->
                 IF d = c THEN {} ELSE {p \in roomy[d] : HasRoom(p, used'[p], size[d])}]
  /\ UNCHANGED <<config, grown>>

WriteFails(c) ==
  /\ pc[c] = "write"
  /\ Quit(c)
  /\ roomy' = [roomy EXCEPT ![c] = {}]
  /\ UNCHANGED <<config, used, grown>>

(* An object that exists is opened and extended: only the operation CREATE *)
(* is voted on.                                                            *)
Extend(p) ==
  /\ grown < MaxGrown /\ used[p] \in 1 .. MaxStored - 1
  /\ used' = [used EXCEPT ![p] = @ + 1]
  /\ grown' = grown + 1
  /\ roomy' = [c \in Clients |-> {q \in roomy[c] : HasRoom(q, used'[q], size[c])}]
  /\ UNCHANGED <<config, client>>

(* Objects are removed. *)
Remove(p) ==
  /\ \E u \in 0 .. used[p] - 1 : used' = [used EXCEPT ![p] = u]
  /\ UNCHANGED <<config, client, roomy, grown>>

Next ==
  \/ \E c \in Clients : Create(c) \/ Vote(c) \/ VoteRaises(c) \/ QueryFails(c)
                        \/ Resolve(c) \/ Refuse(c) \/ RefusalEnds(c) \/ Register(c) \/ WriteFails(c)
  \/ \E p \in Passthrus : Extend(p) \/ Remove(p)

Spec == Init /\ [][Next]_vars

-----------------------------------------------------------------------------
(* Every variable has its type, and an idle client holds nothing.          *)
TypeOK ==
  /\ policy \in Policies /\ unknown \in Unknowns
  /\ [max_bytes |-> max_bytes, deep |-> deep] \in Layouts
  /\ used \in [Passthrus -> 0 .. MaxStored] /\ grown \in 0 .. MaxGrown
  /\ pc \in [Clients -> {"idle", "vote", "write", "refused"}]
  /\ size \in [Clients -> Sizes \cup {NoSize}]
  /\ announced \in [Clients -> Sizes \cup {NoSize, Unknown}]
  /\ votes \in [Clients -> [Passthrus -> Int \X Nat]]
  /\ target \in [Clients -> SUBSET Passthrus]
  /\ roomy \in [Clients -> SUBSET Passthrus]
  /\ \A c \in Clients :
       /\ (pc[c] = "write") <=> (Cardinality(target[c]) = 1)
       /\ pc[c] = "idle" => size[c] = NoSize
       /\ pc[c] # "vote" => \A p \in Passthrus : votes[c][p] = NoVote

(* How far a resource can be filled: one create alone never reaches        *)
(* max_bytes, and each further client adds at most one object it was       *)
(* granted before the others were written; Python, and an object of        *)
(* unknown size, grant one object more, and the unknown size also a byte   *)
(* more where it is added as -1.  What extends an object is not limited,   *)
(* and neither is what the PEP cannot count: storage below a further       *)
(* resource, or in Python more bytes than int() holds.  A max_bytes of 0   *)
(* is a do-not-write (exec_rule and the rule bases).                       *)
Largest == CHOOSE s \in Sizes : \A t \in Sizes : t <= s
Open    == policy = "python" \/ unknown
Grants  == Cardinality(Clients) - (IF Open THEN 0 ELSE 1)
Slack   == IF unknown /\ policy # "python" THEN 1 ELSE 0
Bound(p)     == max_bytes[p] + Grants * Largest + grown + Slack
Uncounted(p) == p \in deep \/ (policy = "python" /\ Bound(p) > IntLimit)
Filled ==
  \A p \in Passthrus : Limited(p) =>
    IF max_bytes[p] = 0 THEN used[p] = 0 ELSE Uncounted(p) \/ used[p] < Bound(p)

(* A create is refused only if no resource had room for it from the moment *)
(* it asked.  The exception: in the plugin an unknown size wraps around to *)
(* the largest number when nothing is stored yet, and the vote is 0.       *)
RefusedWhenFull ==
  \A c \in Clients : pc[c] = "refused" =>
    roomy[c] = {} \/ (policy = "plugin" /\ announced[c] = Unknown)
=============================================================================
