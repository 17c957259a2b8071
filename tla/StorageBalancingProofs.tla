----------------------- MODULE StorageBalancingProofs -----------------------
(***************************************************************************)
(* Theorems about StorageBalancing for any passthrus, clients, sizes and   *)
(* limits, and each of the three implementations of the PEP.               *)
(***************************************************************************)
EXTENDS StorageBalancing, FiniteSetTheorems, TLAPS

(* What a context string can hold.                                         *)
LEMMA MaxBytesType ==
  ASSUME TypeOK, NEW p \in Passthrus
  PROVE  max_bytes[p] \in (0 .. Modulus - 1) \cup {Unlimited, Malformed} /\ deep \subseteq Passthrus
<1>1. [max_bytes |-> max_bytes, deep |-> deep] \in
        [max_bytes : [Passthrus -> (0 .. Modulus - 1) \cup {Unlimited, Malformed}],
         deep : SUBSET Passthrus]
  BY BalancingAssumption DEF TypeOK
<1> QED BY <1>1

(* Sizes are positive numbers, and so are announced ones, if known.        *)
LEMMA SizeType ==
  ASSUME TypeOK, NEW c \in Clients
  PROVE  /\ size[c] \in Nat /\ announced[c] \in Int /\ announced[c] >= -1
<1>1. \A s \in Sizes : s \in Nat
  BY BalancingAssumption
<1>2. size[c] \in Sizes \/ size[c] = 0
  BY DEF TypeOK, NoSize
<1>3. announced[c] \in Sizes \/ announced[c] = 0 \/ announced[c] = -1
  BY DEF TypeOK, NoSize, Unknown
<1>4. size[c] \in Nat
  BY <1>1, <1>2
<1>5. announced[c] \in Nat \/ announced[c] = -1
  BY <1>1, <1>3
<1> QED BY <1>4, <1>5

(* The bytes the PEP finds are not more than there are, and not less than  *)
(* none unless int() wraps around.                                         *)
LEMMA BytesFound ==
  ASSUME TypeOK, NEW p \in Passthrus
  PROVE  /\ used[p] \in Nat /\ BytesUsed(p) \in Int /\ BytesUsed(p) <= used[p]
         /\ policy # "python" => BytesUsed(p) >= 0
         /\ p \notin deep /\ (policy = "python" => used[p] < IntLimit) => BytesUsed(p) = used[p]
<1>1. used[p] \in Nat /\ IntLimit \in Nat \ {0}
  BY BalancingAssumption DEF TypeOK
<1>2. ASSUME NEW n \in Nat
      PROVE  AsInt(n) \in Int /\ AsInt(n) <= n /\ (n < IntLimit => AsInt(n) = n)
  <2> DEFINE l == 2 * IntLimit
             j == n + IntLimit
  <2>1. l \in Nat \ {0} /\ j \in Nat /\ AsInt(n) = (j % l) - IntLimit
    BY <1>1 DEF AsInt
  <2>2. j % l \in 0 .. l - 1
    <3> HIDE DEF l, j
    <3> QED BY <2>1
  <2>3. ASSUME n < IntLimit PROVE j % l = j
    <3>1. j \in 0 .. l - 1
      BY <1>1, <2>3
    <3> HIDE DEF l, j
    <3> QED BY <2>1, <3>1
  <2>4. CASE n < IntLimit
    BY <1>1, <2>1, <2>3, <2>4
  <2>5. CASE ~(n < IntLimit)
    BY <1>1, <2>1, <2>2, <2>5
  <2> QED BY <2>4, <2>5
<1> DEFINE n == IF p \in deep THEN 0 ELSE used[p]
<1>3. n \in Nat /\ n <= used[p] /\ (p \notin deep => n = used[p])
  BY <1>1
<1>4. BytesUsed(p) = IF policy = "python" THEN AsInt(n) ELSE n
  BY DEF BytesUsed
<1> HIDE DEF n
<1>5. AsInt(n) \in Int /\ AsInt(n) <= n /\ (n < IntLimit => AsInt(n) = n)
  BY <1>2, <1>3
<1> QED BY <1>1, <1>3, <1>4, <1>5

(* A write weight is a fraction: its second part is not negative.          *)
LEMMA WeightType ==
  ASSUME TypeOK, NEW p \in Passthrus, NEW a \in Int, ~Raises(p)
  PROVE  Weight(p, a) \in Int \X Nat
<1>0. Modulus \in Nat \ {0} /\ MaxStored \in Nat /\ Policies \subseteq {"plugin", "rules", "python"}
  BY BalancingAssumption
<1>1. used[p] \in Nat /\ policy \in {"plugin", "rules", "python"}
  BY <1>0 DEF TypeOK
<1>2. BytesUsed(p) \in Int
  BY BytesFound
<1>3. Hypothetical(BytesUsed(p), a) \in Int
  BY <1>0, <1>1, <1>2 DEF Hypothetical
<1>4. max_bytes[p] \in Nat \cup {Unlimited}
  BY <1>0, MaxBytesType DEF Raises
<1>5. CASE max_bytes[p] = Unlimited
  BY <1>5 DEF Weight
<1>6. CASE max_bytes[p] # Unlimited
  BY <1>3, <1>4, <1>6 DEF Weight
<1> QED BY <1>5, <1>6

-----------------------------------------------------------------------------
(* A client that is done with a create holds nothing.                      *)
LEMMA QuitType ==
  ASSUME TypeOK, NEW c \in Clients, Quit(c)
  PROVE  /\ pc' \in [Clients -> {"idle", "vote", "write", "refused"}]
         /\ size' \in [Clients -> Sizes \cup {NoSize}]
         /\ announced' \in [Clients -> Sizes \cup {NoSize, Unknown}]
         /\ votes' \in [Clients -> [Passthrus -> Int \X Nat]]
         /\ target' \in [Clients -> SUBSET Passthrus]
         /\ \A d \in Clients :
              /\ (pc'[d] = "write") <=> (Cardinality(target'[d]) = 1)
              /\ pc'[d] = "idle" => size'[d] = NoSize
              /\ pc'[d] # "vote" => \A p \in Passthrus : votes'[d][p] = NoVote
<1>1. NoVote \in Int \X Nat
  BY DEF NoVote
<1>2. Cardinality({}) # 1
  BY FS_EmptySet
<1>3. [p \in Passthrus |-> NoVote] \in [Passthrus -> Int \X Nat]
  BY <1>1
<1> QED BY <1>2, <1>3 DEF TypeOK, Quit, Forget

(* Every variable has its type at the start, and keeps it ...              *)
LEMMA TypeInit ==
  ASSUME Init
  PROVE  TypeOK
<1>1. NoVote \in Int \X Nat /\ Cardinality({}) # 1
  BY FS_EmptySet DEF NoVote
<1>2. [max_bytes |-> max_bytes, deep |-> deep] \in Layouts
  <2>1. PICK y \in Layouts : max_bytes = y.max_bytes /\ deep = y.deep
    BY DEF Init
  <2>2. y = [max_bytes |-> y.max_bytes, deep |-> y.deep]
    BY BalancingAssumption
  <2> QED BY <2>1, <2>2
<1> QED BY <1>1, <1>2, BalancingAssumption DEF Init, TypeOK, NoSize

(* ... step by step.                                                       *)
LEMMA TypeNext ==
  ASSUME TypeOK, [Next]_vars
  PROVE  TypeOK'
<1> USE DEF TypeOK, config, client
<1>1. CASE UNCHANGED vars
  BY <1>1 DEF vars
<1>2. ASSUME NEW c \in Clients, Create(c) PROVE TypeOK'
  BY <1>2, BalancingAssumption DEF Create, NoSize
<1>3. ASSUME NEW c \in Clients, Vote(c) PROVE TypeOK'
  <2>1. PICK p \in Passthrus :
          ~Raises(p) /\ votes' = [votes EXCEPT ![c][p] = Weight(p, announced[c])]
    BY <1>3 DEF Vote
  <2>2. Weight(p, announced[c]) \in Int \X Nat
    BY <2>1, SizeType, WeightType
  <2> QED BY <1>3, <2>1, <2>2 DEF Vote
<1>4. ASSUME NEW c \in Clients, VoteRaises(c) \/ QueryFails(c) \/ RefusalEnds(c) \/ WriteFails(c)
      PROVE  TypeOK'
  <2>1. Quit(c) /\ roomy' = [roomy EXCEPT ![c] = {}] /\ UNCHANGED <<config, used, grown>>
    BY <1>4 DEF VoteRaises, QueryFails, RefusalEnds, WriteFails
  <2> QED BY <2>1, QuitType
<1>5. ASSUME NEW c \in Clients, Resolve(c) PROVE TypeOK'
  <2>1. PICK p \in Passthrus : target' = [target EXCEPT ![c] = {p}]
    BY <1>5 DEF Resolve
  <2>2. Cardinality({p}) = 1
    BY FS_Singleton
  <2>3. NoVote \in Int \X Nat
    BY DEF NoVote
  <2>4. /\ target' \in [Clients -> SUBSET Passthrus] /\ pc' = [pc EXCEPT ![c] = "write"]
        /\ target'[c] = {p} /\ \A d \in Clients \ {c} : target'[d] = target[d]
    BY <1>5, <2>1 DEF Resolve
  <2>5. votes' = [votes EXCEPT ![c] = [q \in Passthrus |-> NoVote]]
    BY <1>5 DEF Resolve, Forget
  <2>6. UNCHANGED <<config, used, size, announced, roomy, grown>>
    BY <1>5 DEF Resolve
  <2>7. votes' \in [Clients -> [Passthrus -> Int \X Nat]]
    BY <2>3, <2>5
  <2>8. \A d \in Clients :
          /\ (pc'[d] = "write") <=> (Cardinality(target'[d]) = 1)
          /\ pc'[d] = "idle" => size'[d] = NoSize
          /\ pc'[d] # "vote" => \A q \in Passthrus : votes'[d][q] = NoVote
    BY <2>2, <2>4, <2>5, <2>6
  <2> QED BY <2>4, <2>6, <2>7, <2>8
<1>6. ASSUME NEW c \in Clients, Refuse(c) PROVE TypeOK'
  <2>1. NoVote \in Int \X Nat
    BY DEF NoVote
  <2> QED BY <1>6, <2>1 DEF Refuse, Voted, Forget
<1>7. ASSUME NEW c \in Clients, Register(c) PROVE TypeOK'
  <2>1. used' \in [Passthrus -> 0 .. MaxStored]
    BY <1>7, SizeType DEF Register
  <2>2. roomy' \in [Clients -> SUBSET Passthrus]
    BY <1>7 DEF Register
  <2> QED BY <1>7, <2>1, <2>2, QuitType DEF Register
<1>8. ASSUME NEW p \in Passthrus, Extend(p) PROVE TypeOK'
  BY <1>8, BalancingAssumption DEF Extend
<1>9. ASSUME NEW p \in Passthrus, Remove(p) PROVE TypeOK'
  <2>1. MaxStored \in Nat
    BY BalancingAssumption
  <2>2. PICK u \in 0 .. used[p] - 1 : used' = [used EXCEPT ![p] = u]
    BY <1>9 DEF Remove
  <2>3. u \in 0 .. MaxStored
    BY <2>1, <2>2
  <2> QED BY <1>9, <2>2, <2>3 DEF Remove
<1> QED BY <1>1, <1>2, <1>3, <1>4, <1>5, <1>6, <1>7, <1>8, <1>9 DEF Next

(* Every variable keeps its type, whatever the clients do.                 *)
THEOREM TypeCorrect == Spec => []TypeOK
<1>1. Init => TypeOK
  BY TypeInit
<1>2. TypeOK /\ [Next]_vars => TypeOK'
  BY TypeNext
<1> QED BY <1>1, <1>2, PTL DEF Spec

-----------------------------------------------------------------------------
(* What is remembered of a create keeps true: the resources counted as     *)
(* roomy still have room, the request tells the size or leaves it open,    *)
(* and a roomy resource that has voted has not voted against the object,   *)
(* except for what the plugin makes of an open size.                       *)
RoomLeft == \A c \in Clients : \A p \in roomy[c] : HasRoom(p, used[p], size[c])

Announced == \A c \in Clients :
  pc[c] # "idle" => size[c] \in Sizes /\ announced[c] \in {size[c], Unknown}

WrapsAround(c) == policy = "plugin" /\ announced[c] = Unknown

RoomyVotes == \A c \in Clients :
  pc[c] = "vote" /\ ~WrapsAround(c) =>
    \A p \in roomy[c] : votes[c][p] = NoVote \/ Positive(votes[c][p])

RefusalInv == TypeOK /\ RoomLeft /\ Announced /\ RoomyVotes /\ RefusedWhenFull

(* A resource that has room for the object answers a positive weight,      *)
(* whichever of the three implementations is asked: in the plugin the sum  *)
(* does not wrap around for a size that is known.                          *)
LEMMA RoomIsPositive ==
  ASSUME TypeOK, NEW p \in Passthrus, NEW s \in Sizes, NEW a \in {s, Unknown},
         HasRoom(p, used[p], s), ~(policy = "plugin" /\ a = Unknown)
  PROVE  Positive(Weight(p, a))
<1>1. CASE max_bytes[p] = Unlimited
  BY <1>1 DEF Weight, Positive
<1>2. CASE max_bytes[p] # Unlimited
  <2>1. Modulus \in Nat \ {0} /\ MaxStored \in Nat /\ MaxStored + s < Modulus /\ s \in Nat \ {0}
    BY BalancingAssumption
  <2>2. used[p] \in 0 .. MaxStored /\ policy \in {"plugin", "rules", "python"}
    BY BalancingAssumption DEF TypeOK
  <2>3. max_bytes[p] \in Nat /\ used[p] + s < max_bytes[p]
    BY <1>2, <2>1, MaxBytesType DEF HasRoom, Limited
  <2>4. /\ BytesUsed(p) \in Int /\ BytesUsed(p) <= used[p]
        /\ policy # "python" => BytesUsed(p) >= 0
    BY BytesFound
  <2> DEFINE u == BytesUsed(p)
  <2>5. Hypothetical(u, a) \in Int /\ Hypothetical(u, a) < max_bytes[p]
    <3>1. CASE policy = "plugin"
      <4>1. a = s
        BY <3>1
      <4>2. u + s \in 0 .. Modulus - 1
        BY <2>1, <2>2, <2>4, <3>1
      <4>3. (u + s) % Modulus = u + s
        BY <2>1, <4>2
      <4>4. Hypothetical(u, a) = u + s
        BY <3>1, <4>1, <4>3 DEF Hypothetical
      <4> QED BY <2>1, <2>2, <2>3, <2>4, <4>4
    <3>2. CASE policy = "rules"
      <4>1. Hypothetical(u, a) = u + a
        BY <3>2 DEF Hypothetical
      <4>2. a = s \/ a = -1
        BY DEF Unknown
      <4> QED BY <2>1, <2>2, <2>3, <2>4, <4>1, <4>2
    <3>3. CASE policy = "python"
      <4>1. Hypothetical(u, a) = u
        BY <3>3 DEF Hypothetical
      <4> QED BY <2>1, <2>2, <2>3, <2>4, <4>1
    <3> QED BY <2>2, <3>1, <3>2, <3>3
  <2>6. max_bytes[p] > 0
    BY <2>1, <2>2, <2>3
  <2> HIDE DEF u
  <2>7. Weight(p, a) = <<max_bytes[p] - Hypothetical(u, a), max_bytes[p]>>
    BY <1>2, <2>3, <2>5, <2>6 DEF Weight, u
  <2> QED BY <2>3, <2>5, <2>7 DEF Positive
<1> QED BY <1>1, <1>2

(* A client that ends a create leaves the others as they were.             *)
LEMMA QuitKeepsRefusals ==
  ASSUME RefusalInv, NEW c \in Clients, Quit(c), UNCHANGED config,
         NEW u, used' = u,
         roomy' \in [Clients -> SUBSET Passthrus], roomy'[c] = {},
         \A d \in Clients \ {c} : \A p \in roomy'[d] : p \in roomy[d] /\ HasRoom(p, u[p], size[d])
  PROVE  RoomLeft' /\ Announced' /\ RoomyVotes' /\ RefusedWhenFull'
<1>1. /\ pc'[c] = "idle" /\ size'[c] = NoSize
      /\ \A d \in Clients \ {c} : /\ pc'[d] = pc[d] /\ size'[d] = size[d]
                                  /\ announced'[d] = announced[d] /\ votes'[d] = votes[d]
  BY DEF RefusalInv, TypeOK, Quit, Forget
<1>2. RoomLeft'
  BY <1>1 DEF RoomLeft, HasRoom, Limited, config
<1>3. Announced'
  BY <1>1 DEF RefusalInv, Announced
<1>4. RoomyVotes'
  BY <1>1 DEF RefusalInv, RoomyVotes, WrapsAround, config
<1>5. RefusedWhenFull'
  <2> SUFFICES ASSUME NEW d \in Clients, pc'[d] = "refused"
               PROVE  roomy'[d] = {} \/ (policy' = "plugin" /\ announced'[d] = Unknown)
    BY DEF RefusedWhenFull
  <2>1. d # c /\ pc[d] = "refused"
    BY <1>1
  <2> QED BY <1>1, <2>1 DEF RefusalInv, RefusedWhenFull, config
<1> QED BY <1>2, <1>3, <1>4, <1>5

(* The steps of Create, Vote and the ends of a create keep all of this.    *)
THEOREM RefusalInvariant == Spec => []RefusalInv
<1>1. Init => RefusalInv
  <2> SUFFICES ASSUME Init PROVE RefusalInv
    OBVIOUS
  <2>1. TypeOK
    BY TypeInit
  <2> QED BY <2>1 DEF Init, RefusalInv, RoomLeft, Announced, RoomyVotes, RefusedWhenFull
<1>2. RefusalInv /\ [Next]_vars => RefusalInv'
  <2> SUFFICES ASSUME RefusalInv, [Next]_vars PROVE RefusalInv'
    OBVIOUS
  <2>0. TypeOK /\ TypeOK'
    BY TypeNext DEF RefusalInv
  <2>1. CASE UNCHANGED vars
    BY <2>0, <2>1 DEF vars, config, client, RefusalInv, RoomLeft, Announced, RoomyVotes,
                      RefusedWhenFull, WrapsAround, HasRoom, Limited
  <2>2. ASSUME NEW c \in Clients, Create(c) PROVE RefusalInv'
    <3>1. PICK s \in Sizes :
            /\ size' = [size EXCEPT ![c] = s]
            /\ \E a \in {s} \cup (IF unknown THEN {Unknown} ELSE {}) :
                 announced' = [announced EXCEPT ![c] = a]
            /\ roomy' = [roomy EXCEPT ![c] = {p \in Passthrus : HasRoom(p, used[p], s)}]
      BY <2>2 DEF Create
    <3>2. /\ UNCHANGED <<policy, max_bytes, used, votes>> /\ pc[c] = "idle"
          /\ pc' = [pc EXCEPT ![c] = "vote"]
      BY <2>2 DEF Create, config
    <3>3. RoomLeft'
      BY <2>0, <3>1, <3>2 DEF RefusalInv, TypeOK, RoomLeft, HasRoom, Limited
    <3>4. announced'[c] \in {s, Unknown}
          /\ \A d \in Clients \ {c} : announced'[d] = announced[d]
      BY <2>0, <3>1 DEF TypeOK
    <3>5. Announced'
      BY <2>0, <3>1, <3>2, <3>4 DEF RefusalInv, TypeOK, Announced
    <3>6. RoomyVotes'
      BY <2>0, <3>1, <3>2, <3>4 DEF RefusalInv, TypeOK, RoomyVotes, WrapsAround
    <3>7. RefusedWhenFull'
      BY <2>0, <3>1, <3>2, <3>4 DEF RefusalInv, TypeOK, RefusedWhenFull
    <3> QED BY <2>0, <3>3, <3>5, <3>6, <3>7 DEF RefusalInv
  <2>3. ASSUME NEW c \in Clients, Vote(c) PROVE RefusalInv'
    <3>1. PICK p \in Passthrus :
            ~Raises(p) /\ votes' = [votes EXCEPT ![c][p] = Weight(p, announced[c])]
      BY <2>3 DEF Vote
    <3>2. UNCHANGED <<policy, max_bytes, used, pc, size, announced, roomy>> /\ pc[c] = "vote"
      BY <2>3 DEF Vote, config
    <3>3. RoomLeft' /\ Announced' /\ RefusedWhenFull'
      BY <3>2 DEF RefusalInv, RoomLeft, Announced, RefusedWhenFull, HasRoom, Limited
    <3>4. p \in roomy[c] /\ ~WrapsAround(c) => Positive(Weight(p, announced[c]))
      BY <2>0, <3>2, RoomIsPositive DEF RefusalInv, RoomLeft, Announced, WrapsAround
    <3>5. RoomyVotes'
      BY <2>0, <3>1, <3>2, <3>4 DEF RefusalInv, TypeOK, RoomyVotes, WrapsAround
    <3> QED BY <2>0, <3>3, <3>5 DEF RefusalInv
  <2>4. ASSUME NEW c \in Clients, VoteRaises(c) \/ QueryFails(c) \/ RefusalEnds(c) \/ WriteFails(c)
        PROVE  RefusalInv'
    <3>1. Quit(c) /\ roomy' = [roomy EXCEPT ![c] = {}] /\ UNCHANGED <<config, used>>
      BY <2>4 DEF VoteRaises, QueryFails, RefusalEnds, WriteFails
    <3>2. roomy' \in [Clients -> SUBSET Passthrus] /\ roomy'[c] = {}
          /\ \A d \in Clients \ {c} : \A p \in roomy'[d] : p \in roomy[d] /\ HasRoom(p, used[p], size[d])
      BY <2>0, <3>1 DEF RefusalInv, TypeOK, RoomLeft
    <3> QED BY <2>0, <3>1, <3>2, QuitKeepsRefusals DEF RefusalInv
  <2>5. ASSUME NEW c \in Clients, Resolve(c) \/ Refuse(c) PROVE RefusalInv'
    <3>1. /\ UNCHANGED <<policy, max_bytes, used, size, announced, roomy>> /\ Voted(c)
          /\ votes' = [votes EXCEPT ![c] = [p \in Passthrus |-> NoVote]]
          /\ \/ pc' = [pc EXCEPT ![c] = "write"]
             \/ pc' = [pc EXCEPT ![c] = "refused"] /\ \A p \in Passthrus : ~Positive(votes[c][p])
      BY <2>5 DEF Resolve, Refuse, config, Forget
    <3>2. RoomLeft'
      BY <3>1 DEF RefusalInv, RoomLeft, HasRoom, Limited
    <3>3. Announced'
      BY <2>0, <3>1 DEF RefusalInv, TypeOK, Announced, Voted
    <3>4. RoomyVotes'
      BY <2>0, <3>1 DEF RefusalInv, TypeOK, RoomyVotes, WrapsAround
    <3>5. (\A p \in Passthrus : ~Positive(votes[c][p])) => roomy[c] = {} \/ WrapsAround(c)
      BY <2>0, <3>1 DEF RefusalInv, TypeOK, RoomyVotes, Voted
    <3>6. RefusedWhenFull'
      BY <2>0, <3>1, <3>5 DEF RefusalInv, TypeOK, RefusedWhenFull, WrapsAround
    <3> QED BY <2>0, <3>2, <3>3, <3>4, <3>6 DEF RefusalInv
  <2>6. ASSUME NEW c \in Clients, Register(c) PROVE RefusalInv'
    <3>1. /\ Quit(c) /\ UNCHANGED config
          /\ roomy' = [d \in Clients |->
                         IF d = c THEN {} ELSE {p \in roomy[d] : HasRoom(p, used'[p], size[d])}]
      BY <2>6 DEF Register
    <3>2. roomy' \in [Clients -> SUBSET Passthrus] /\ roomy'[c] = {}
          /\ \A d \in Clients \ {c} : \A p \in roomy'[d] : p \in roomy[d] /\ HasRoom(p, used'[p], size[d])
      BY <2>0, <3>1 DEF TypeOK
    <3> QED BY <2>0, <3>1, <3>2, QuitKeepsRefusals DEF RefusalInv
  <2>7. ASSUME NEW q \in Passthrus, Extend(q) PROVE RefusalInv'
    <3>1. /\ UNCHANGED <<policy, max_bytes, pc, size, announced, votes>>
          /\ roomy' = [c \in Clients |-> {p \in roomy[c] : HasRoom(p, used'[p], size[c])}]
      BY <2>7 DEF Extend, config, client
    <3>2. RoomLeft'
      BY <3>1 DEF RoomLeft, HasRoom, Limited
    <3>3. Announced'
      BY <3>1 DEF RefusalInv, Announced
    <3>4. RoomyVotes' /\ RefusedWhenFull'
      BY <3>1 DEF RefusalInv, RoomyVotes, RefusedWhenFull, WrapsAround
    <3> QED BY <2>0, <3>2, <3>3, <3>4 DEF RefusalInv
  <2>8. ASSUME NEW q \in Passthrus, Remove(q) PROVE RefusalInv'
    <3>1. /\ UNCHANGED <<policy, max_bytes, pc, size, announced, votes, roomy>>
          /\ \E u \in 0 .. used[q] - 1 : used' = [used EXCEPT ![q] = u]
      BY <2>8 DEF Remove, config, client
    <3>2. \A p \in Passthrus : used'[p] \in Nat /\ used[p] \in Nat /\ used'[p] <= used[p]
      BY <2>0, <3>1, BalancingAssumption DEF TypeOK
    <3>3. RoomLeft'
      <4> SUFFICES ASSUME NEW c \in Clients, NEW p \in roomy[c] PROVE HasRoom(p, used[p], size[c])'
        BY <3>1 DEF RoomLeft
      <4>1. HasRoom(p, used[p], size[c]) /\ p \in Passthrus
        BY <2>0 DEF RefusalInv, RoomLeft, TypeOK
      <4>2. size[c] \in Nat
        BY <2>0, SizeType
      <4>3. Limited(p) => max_bytes[p] \in Nat
        BY <2>0, <4>1, MaxBytesType DEF Limited
      <4> QED BY <3>1, <3>2, <4>1, <4>2, <4>3 DEF HasRoom, Limited
    <3>4. Announced' /\ RoomyVotes' /\ RefusedWhenFull'
      BY <3>1 DEF RefusalInv, Announced, RoomyVotes, RefusedWhenFull, WrapsAround
    <3> QED BY <2>0, <3>3, <3>4 DEF RefusalInv
  <2> QED BY <2>1, <2>2, <2>3, <2>4, <2>5, <2>6, <2>7, <2>8 DEF Next
<1> QED BY <1>1, <1>2, PTL DEF Spec

(* A create is refused only if no resource had room for it all the time,   *)
(* or the plugin took an open size for the largest number.                 *)
THEOREM RefusedOnlyWhenFull == Spec => []RefusedWhenFull
<1>1. RefusalInv => RefusedWhenFull
  BY DEF RefusalInv
<1> QED BY <1>1, RefusalInvariant, PTL

-----------------------------------------------------------------------------
(* The clients that may still write to p: those it has voted for, and the  *)
(* one that has chosen it.                                                 *)
Granted(p) == {c \in Clients : \/ pc[c] = "vote" /\ Positive(votes[c][p])
                               \/ pc[c] = "write" /\ p \in target[c]}

(* The most that p may hold, and what it holds when each of these clients  *)
(* writes an object of the largest size, or all but one do: the last one   *)
(* that voted has found its own object to fit.                             *)
Ceiling(p) == max_bytes[p] + Grants * Largest + grown + Slack - 1

(* The bound of Filled is just above.                                      *)
LEMMA BoundOfCeiling ==
  ASSUME NEW p \in Passthrus, Limited(p), max_bytes[p] \in Nat, Grants * Largest \in Nat, grown \in Nat
  PROVE  Ceiling(p) \in Int /\ Bound(p) \in Int /\ Bound(p) = Ceiling(p) + 1
  BY DEF Ceiling, Bound, Slack

AllFit(p) == used[p] + Cardinality(Granted(p)) * Largest <= Ceiling(p)

LastFits(p) == \E c \in Granted(p) :
  used[p] + size[c] + (Cardinality(Granted(p)) - 1) * Largest <= Ceiling(p)

WithinCeiling(p) ==
  IF max_bytes[p] = 0 THEN used[p] = 0 /\ Granted(p) = {}
  ELSE Uncounted(p) \/ AllFit(p) \/ LastFits(p)

(* Sizes are left open only where that is allowed.                         *)
SizesKnown == unknown \/ \A c \in Clients : announced[c] # Unknown

FilledInv == SizesKnown /\ \A p \in Passthrus : Limited(p) => WithinCeiling(p)

(* Multiples of a number, the facts that the sums below need.              *)
LEMMA Multiples ==
  ASSUME NEW L \in Nat, NEW k \in Nat, NEW n \in Nat
  PROVE  /\ k * L \in Nat
         /\ k <= n => k * L <= n * L
         /\ (k - 1) * L = k * L - L
  OBVIOUS

(* No size is larger than Largest.                                         *)
LEMMA LargestBounds == Largest \in Sizes /\ Largest \in Nat /\ \A s \in Sizes : s <= Largest
<1>1. \E s \in Sizes : \A t \in Sizes : t <= s
  BY BalancingAssumption
<1>2. Largest \in Sizes /\ \A t \in Sizes : t <= Largest
  BY <1>1 DEF Largest
<1> QED BY <1>2, BalancingAssumption

(* The numbers a ceiling is made of.                                       *)
LEMMA CeilingType ==
  ASSUME RefusalInv, NEW p \in Passthrus, Limited(p)
  PROVE  /\ max_bytes[p] \in Nat /\ used[p] \in Nat /\ grown \in Nat
         /\ Cardinality(Clients) \in Nat \ {0}
         /\ Grants = Cardinality(Clients) - (IF Open THEN 0 ELSE 1)
         /\ Grants \in Nat /\ Grants * Largest \in Nat
         /\ IsFiniteSet(Granted(p)) /\ Cardinality(Granted(p)) \in Nat
         /\ Cardinality(Granted(p)) <= Cardinality(Clients)
         /\ \A c \in Granted(p) : size[c] \in Nat /\ size[c] <= Largest
<1>1. TypeOK /\ Announced
  BY DEF RefusalInv
<1>2. max_bytes[p] \in Nat
  BY <1>1, MaxBytesType, BalancingAssumption DEF Limited
<1>3. used[p] \in Nat /\ grown \in Nat
  BY <1>1, BalancingAssumption DEF TypeOK
<1>4. Cardinality(Clients) \in Nat \ {0}
  <2>1. IsFiniteSet(Clients) /\ Clients # {}
    BY BalancingAssumption
  <2> QED BY <2>1, FS_CardinalityType, FS_EmptySet
<1>5. Grants \in Nat
  BY <1>4 DEF Grants
<1>6. Grants * Largest \in Nat
  BY <1>5, LargestBounds, Multiples
<1>7. IsFiniteSet(Granted(p)) /\ Cardinality(Granted(p)) <= Cardinality(Clients)
  <2>1. IsFiniteSet(Clients) /\ Granted(p) \in SUBSET Clients
    BY BalancingAssumption DEF Granted
  <2> QED BY <2>1, FS_Subset
<1>8. Cardinality(Granted(p)) \in Nat
  BY <1>7, FS_CardinalityType
<1>9. \A c \in Granted(p) : size[c] \in Nat /\ size[c] <= Largest
  BY <1>1, LargestBounds, BalancingAssumption DEF Announced, Granted
<1> QED BY <1>2, <1>3, <1>4, <1>5, <1>6, <1>7, <1>8, <1>9 DEF Grants

(* What is within the ceiling is below the bound of Filled.                *)
LEMMA WithinBound ==
  ASSUME RefusalInv, NEW p \in Passthrus, Limited(p), max_bytes[p] # 0, WithinCeiling(p)
  PROVE  Uncounted(p) \/ (used[p] < Bound(p) /\ used[p] \in Int /\ Bound(p) \in Int)
<1> DEFINE k == Cardinality(Granted(p))
<1>1. k \in Nat /\ Grants * Largest \in Nat /\ used[p] \in Nat /\ grown \in Nat /\ max_bytes[p] \in Nat
  BY CeilingType
<1>2. Ceiling(p) \in Int /\ Bound(p) \in Int /\ Bound(p) = Ceiling(p) + 1
  BY <1>1, BoundOfCeiling
<1>3. CASE AllFit(p)
  <2>1. k * Largest \in Nat
    BY <1>1, LargestBounds, Multiples
  <2> QED BY <1>1, <1>2, <1>3, <2>1 DEF AllFit
<1>4. CASE LastFits(p)
  <2>1. PICK c \in Granted(p) : used[p] + size[c] + (k - 1) * Largest <= Ceiling(p)
    BY <1>4 DEF LastFits
  <2>2. k # 0
    BY <2>1, CeilingType, FS_EmptySet
  <2>3. (k - 1) * Largest \in Nat
    <3>1. k - 1 \in Nat
      BY <1>1, <2>2
    <3> QED BY <3>1, LargestBounds, Multiples
  <2>4. size[c] \in Nat
    BY CeilingType
  <2> QED BY <1>1, <1>2, <2>1, <2>3, <2>4
<1> QED BY <1>3, <1>4 DEF WithinCeiling

(* A positive weight for an object says that the resource can take it, or, *)
(* when the size does not count, that it is not past its limit.            *)
LEMMA PositiveHasRoom ==
  ASSUME TypeOK, NEW p \in Passthrus, Limited(p), p \notin deep,
         policy = "python" => used[p] < IntLimit,
         NEW s \in Sizes, NEW a \in {s, Unknown}, unknown \/ a # Unknown,
         Positive(Weight(p, a))
  PROVE  IF Open THEN used[p] < max_bytes[p] + Slack ELSE used[p] + s < max_bytes[p]
<1>1. Modulus \in Nat \ {0} /\ MaxStored \in Nat /\ MaxStored + s < Modulus /\ s \in Nat \ {0}
  BY BalancingAssumption
<1>2. used[p] \in 0 .. MaxStored /\ policy \in {"plugin", "rules", "python"} /\ unknown \in BOOLEAN
  BY BalancingAssumption DEF TypeOK
<1>3. max_bytes[p] \in 0 .. Modulus - 1
  BY MaxBytesType DEF Limited
<1>4. max_bytes[p] # Unlimited
  BY DEF Limited
<1> DEFINE h == Hypothetical(used[p], a)
<1>5. h = Hypothetical(BytesUsed(p), a)
  BY BytesFound
<1>6. h \in Int
  BY <1>1, <1>2 DEF Hypothetical, Unknown
<1> HIDE DEF h
<1>7. h < max_bytes[p]
  BY <1>3, <1>4, <1>5, <1>6 DEF Weight, Positive
<1>8. Slack \in {0, 1} /\ (unknown /\ policy # "python" => Slack = 1)
  BY DEF Slack
<1>9. a = s \/ (a = -1 /\ unknown)
  BY DEF Unknown
<1>10. unknown => Open
  BY DEF Open
<1>11. CASE policy = "plugin"
  <2>1. h = (used[p] + a) % Modulus
    BY <1>11 DEF h, Hypothetical
  <2>2. CASE a = s
    <3>1. used[p] + s \in 0 .. Modulus - 1
      BY <1>1, <1>2
    <3>2. (used[p] + s) % Modulus = used[p] + s
      BY <1>1, <3>1
    <3> QED BY <1>1, <1>2, <1>3, <1>7, <1>8, <2>1, <2>2, <3>2
  <2>3. CASE a = -1 /\ used[p] = 0
    BY <1>3, <2>3, <1>11 DEF Open, Slack, Unknown
  <2>4. CASE a = -1 /\ used[p] # 0
    <3>1. used[p] - 1 \in 0 .. Modulus - 1
      BY <1>1, <1>2, <2>4
    <3>2. (used[p] - 1) % Modulus = used[p] - 1
      BY <1>1, <3>1
    <3>3. unknown /\ Open /\ Slack = 1
      BY <1>1, <1>8, <1>9, <1>10, <1>11, <2>4
    <3> QED BY <1>2, <1>3, <1>7, <2>1, <2>4, <3>2, <3>3
  <2> QED BY <2>2, <2>3, <2>4 DEF Unknown
<1>12. CASE policy = "rules"
  <2>1. h = used[p] + a
    BY <1>12 DEF h, Hypothetical
  <2>2. CASE a = s
    BY <1>1, <1>2, <1>3, <1>7, <1>8, <2>1, <2>2
  <2>3. CASE a = -1 /\ unknown
    <3>1. Open /\ Slack = 1
      BY <1>8, <1>10, <1>12, <2>3
    <3> QED BY <1>2, <1>3, <1>7, <2>1, <2>3, <3>1
  <2> QED BY <1>9, <2>2, <2>3
<1>13. CASE policy = "python"
  <2>1. h = used[p]
    BY <1>13 DEF h, Hypothetical
  <2> QED BY <1>2, <1>3, <1>7, <1>13, <2>1 DEF Open, Slack
<1> QED BY <1>2, <1>11, <1>12, <1>13

(* A limit of 0 is a do-not-write.                                         *)
LEMMA ZeroIsNotPositive ==
  ASSUME NEW p \in Passthrus, NEW a, Limited(p), max_bytes[p] = 0
  PROVE  ~Positive(Weight(p, a))
<1>1. Weight(p, a) = <<0, 1>>
  BY DEF Weight, Limited
<1> QED BY <1>1 DEF Positive

(* The ceiling holds on when the same clients are granted and no more is   *)
(* stored but what was extended ...                                        *)
LEMMA SameGranted ==
  ASSUME RefusalInv, NEW p \in Passthrus, Limited(p), AllFit(p) \/ LastFits(p), UNCHANGED config,
         Granted(p)' = Granted(p), \A c \in Granted(p) : size'[c] = size[c],
         used'[p] \in Nat, grown' \in Nat, used'[p] - grown' <= used[p] - grown
  PROVE  (AllFit(p) \/ LastFits(p))'
<1>1. Grants' = Grants /\ Open' = Open /\ Slack' = Slack /\ max_bytes' = max_bytes
  BY DEF Grants, Open, Slack, config
<1> DEFINE k == Cardinality(Granted(p))
<1>2. k \in Nat /\ k * Largest \in Nat /\ (k - 1) * Largest = k * Largest - Largest /\ Largest \in Nat
  BY CeilingType, LargestBounds, Multiples
<1>3. Cardinality(Granted(p)') = k
  OBVIOUS
<1>4. Ceiling(p) \in Int /\ Ceiling(p)' = Ceiling(p) + grown' - grown
  BY <1>1, CeilingType DEF Ceiling, Slack
<1>5. CASE AllFit(p)
  <2>1. used[p] + k * Largest <= Ceiling(p)
    BY <1>5 DEF AllFit
  <2>2. used'[p] + k * Largest <= Ceiling(p)'
    BY <1>2, <1>4, <2>1, CeilingType
  <2>3. AllFit(p)'
    BY <1>3, <2>2 DEF AllFit
  <2> QED BY <2>3
<1>6. CASE LastFits(p)
  <2>1. PICK c \in Granted(p) : used[p] + size[c] + (k - 1) * Largest <= Ceiling(p)
    BY <1>6 DEF LastFits
  <2>2. size[c] \in Nat /\ size'[c] = size[c]
    BY CeilingType
  <2>3. used'[p] + size'[c] + (k - 1) * Largest <= Ceiling(p)'
    BY <1>2, <1>4, <2>1, <2>2, CeilingType
  <2>4. LastFits(p)'
    BY <1>3, <2>3 DEF LastFits
  <2> QED BY <2>4
<1> QED BY <1>5, <1>6

(* ... and when one client is no longer granted, and has written its       *)
(* object at most.                                                         *)
LEMMA OneLess ==
  ASSUME RefusalInv, NEW p \in Passthrus, Limited(p), AllFit(p) \/ LastFits(p), UNCHANGED config,
         NEW c \in Granted(p), Granted(p)' = Granted(p) \ {c},
         \A d \in Granted(p) \ {c} : size'[d] = size[d],
         used'[p] \in Nat, grown' = grown, used'[p] <= used[p] + size[c]
  PROVE  (AllFit(p) \/ LastFits(p))'
<1>1. Grants' = Grants /\ Open' = Open /\ Slack' = Slack /\ max_bytes' = max_bytes
  BY DEF Grants, Open, Slack, config
<1> DEFINE k == Cardinality(Granted(p))
<1>2. k \in Nat /\ k * Largest \in Nat /\ (k - 1) * Largest = k * Largest - Largest /\ Largest \in Nat
  BY CeilingType, LargestBounds, Multiples
<1>3. Cardinality(Granted(p)') = k - 1 /\ k - 1 \in Nat
  <2>1. IsFiniteSet(Granted(p))
    BY CeilingType
  <2>2. Cardinality(Granted(p) \ {c}) = k - 1 /\ IsFiniteSet(Granted(p) \ {c})
    BY <2>1, FS_RemoveElement
  <2>3. Cardinality(Granted(p) \ {c}) \in Nat
    BY <2>2, FS_CardinalityType
  <2> QED BY <2>2, <2>3
<1>4. (k - 1) * Largest \in Nat /\ (k - 1 - 1) * Largest = (k - 1) * Largest - Largest
  BY <1>3, LargestBounds, Multiples
<1>5. Ceiling(p) \in Int /\ Ceiling(p)' = Ceiling(p)
  BY <1>1, CeilingType DEF Ceiling, Slack
<1>6. size[c] \in Nat /\ size[c] <= Largest /\ used[p] \in Nat
  BY CeilingType
<1> HIDE DEF k
<1>7. CASE AllFit(p)
  <2>1. used[p] + k * Largest <= Ceiling(p)
    BY <1>7 DEF AllFit, k
  <2>2. used'[p] + (k - 1) * Largest <= Ceiling(p)'
    BY <1>2, <1>4, <1>5, <1>6, <2>1
  <2>3. AllFit(p)'
    BY <1>3, <2>2 DEF AllFit
  <2> QED BY <2>3
<1>8. CASE LastFits(p)
  <2>1. PICK d \in Granted(p) : used[p] + size[d] + (k - 1) * Largest <= Ceiling(p)
    BY <1>8 DEF LastFits, k
  <2>2. size[d] \in Nat
    BY CeilingType
  <2>3. CASE d = c
    <3>1. used'[p] + (k - 1) * Largest <= Ceiling(p)'
      BY <1>2, <1>4, <1>5, <1>6, <2>1, <2>3
    <3>2. AllFit(p)'
      BY <1>3, <3>1 DEF AllFit
    <3> QED BY <3>2
  <2>4. CASE d # c
    <3>1. used'[p] + size[d] + (k - 1 - 1) * Largest <= Ceiling(p)'
      BY <1>2, <1>4, <1>5, <1>6, <2>1, <2>2
    <3>2. d \in Granted(p)' /\ size'[d] = size[d]
      BY <2>4
    <3>3. LastFits(p)'
      BY <1>3, <3>1, <3>2 DEF LastFits
    <3> QED BY <3>3
  <2> QED BY <2>3, <2>4
<1> QED BY <1>7, <1>8

(* When a client is granted anew, its own object fits, or, if the size     *)
(* does not count, the resource was not past its limit.                    *)
LEMMA OneMore ==
  ASSUME RefusalInv, RefusalInv', NEW p \in Passthrus, Limited(p), UNCHANGED config,
         NEW c \in Clients, c \in Granted(p)', used' = used,
         IF Open THEN used[p] < max_bytes[p] + Slack ELSE used[p] + size'[c] < max_bytes[p]
  PROVE  (AllFit(p) \/ LastFits(p))'
<1>1. Grants' = Grants /\ (Open' <=> Open) /\ Slack' = Slack /\ Slack \in {0, 1} /\ max_bytes' = max_bytes
  BY DEF Grants, Open, Slack, config
<1> DEFINE k == Cardinality(Granted(p)')
           N == Cardinality(Clients)
<1>2. k \in Nat /\ k <= N /\ k # 0 /\ N \in Nat \ {0}
  <2>1. IsFiniteSet(Clients) /\ Granted(p)' \in SUBSET Clients
    BY BalancingAssumption DEF Granted
  <2>2. IsFiniteSet(Granted(p)') /\ k <= N
    BY <2>1, FS_Subset
  <2>3. k \in Nat /\ k # 0
    BY <2>2, FS_CardinalityType, FS_EmptySet
  <2> QED BY <2>2, <2>3, CeilingType
<1>3. size'[c] \in Nat
  BY BalancingAssumption DEF RefusalInv, Announced, Granted
<1>4. grown' \in Nat
  BY BalancingAssumption DEF RefusalInv, TypeOK
<1>5. max_bytes[p] \in Nat /\ used[p] \in Nat
  BY CeilingType
<1>6. CASE Open
  <2>1. k * Largest <= N * Largest /\ k * Largest \in Nat /\ N * Largest \in Nat
    BY <1>2, LargestBounds, Multiples
  <2>2. Ceiling(p)' = max_bytes[p] + N * Largest + grown' + Slack - 1
    <3>1. Grants = N
      BY <1>2, <1>6 DEF Grants
    <3> QED BY <1>1, <3>1 DEF Ceiling
  <2>3. used'[p] + k * Largest <= Ceiling(p)'
    BY <1>1, <1>4, <1>5, <1>6, <2>1, <2>2
  <2>4. AllFit(p)'
    BY <2>3 DEF AllFit
  <2> QED BY <2>4
<1>7. CASE ~Open
  <2>1. /\ (k - 1) * Largest <= (N - 1) * Largest
        /\ (k - 1) * Largest \in Nat /\ (N - 1) * Largest \in Nat
    <3>1. k - 1 \in Nat /\ N - 1 \in Nat /\ k - 1 <= N - 1
      BY <1>2
    <3> HIDE DEF k, N
    <3> QED BY <3>1, LargestBounds, Multiples
  <2>2. Ceiling(p)' = max_bytes[p] + (N - 1) * Largest + grown' - 1
    <3>1. Slack = 0
      BY <1>7 DEF Open, Slack
    <3>2. Grants = N - 1
      BY <1>7 DEF Grants
    <3>3. Ceiling(p)' = max_bytes[p] + (N - 1) * Largest + grown' + 0 - 1
      BY <1>1, <3>1, <3>2 DEF Ceiling
    <3> HIDE DEF N
    <3> QED BY <1>4, <1>5, <2>1, <3>3
  <2>3. used'[p] + size'[c] + (k - 1) * Largest <= Ceiling(p)'
    BY <1>3, <1>4, <1>5, <1>7, <2>1, <2>2
  <2>4. LastFits(p)'
    BY <2>3 DEF LastFits
  <2> QED BY <2>4
<1> QED BY <1>6, <1>7

(* A client that ends a create is not granted any more.                    *)
LEMMA QuitGranted ==
  ASSUME TypeOK, NEW c \in Clients, Quit(c), NEW p \in Passthrus
  PROVE  /\ Granted(p)' = Granted(p) \ {c}
         /\ \A d \in Granted(p) \ {c} : size'[d] = size[d]
  BY DEF TypeOK, Quit, Forget, Granted

(* Every step keeps the ceiling of a resource.                             *)
LEMMA CeilingKept ==
  ASSUME RefusalInv, RefusalInv', SizesKnown, [Next]_vars,
         NEW p \in Passthrus, Limited(p), WithinCeiling(p)
  PROVE  WithinCeiling(p)'
<1>0. TypeOK /\ Announced /\ TypeOK' /\ UNCHANGED config
  BY DEF RefusalInv, Next, vars, Create, Vote, VoteRaises, QueryFails, Resolve, Refuse,
         RefusalEnds, Register, WriteFails, Extend, Remove
<1>1. max_bytes' = max_bytes /\ deep' = deep
  BY <1>0 DEF config
<1>2. used[p] \in Nat /\ used'[p] \in Nat /\ grown \in Nat /\ grown' \in Nat /\ max_bytes[p] \in Nat
  BY <1>0, CeilingType, BalancingAssumption DEF TypeOK
<1>3. SUFFICES ASSUME ~Uncounted(p) \/ max_bytes[p] = 0
               PROVE  WithinCeiling(p)'
  <2>1. grown <= grown'
    BY <1>0, <1>2 DEF Next, vars, Create, Vote, VoteRaises, QueryFails, Resolve, Refuse,
                      RefusalEnds, Register, WriteFails, Extend, Remove
  <2>2. Bound(p)' = Bound(p) + grown' - grown /\ Bound(p) \in Int
    BY <1>0, <1>2, CeilingType DEF Bound, Grants, Open, Slack, config
  <2>3. Uncounted(p) => Uncounted(p)'
    BY <1>0, <1>2, <2>1, <2>2, BalancingAssumption DEF Uncounted, config
  <2> QED BY <1>1, <2>3 DEF WithinCeiling
(* What follows when the same clients, or all but one, are still granted. *)
<1>4. ASSUME Granted(p)' = Granted(p), \A c \in Granted(p) : size'[c] = size[c],
             used'[p] - grown' <= used[p] - grown, used[p] = 0 => used'[p] = 0
      PROVE  WithinCeiling(p)'
  <2>1. max_bytes[p] # 0 => (AllFit(p) \/ LastFits(p))'
    BY <1>0, <1>2, <1>3, <1>4, SameGranted DEF WithinCeiling
  <2> QED BY <1>1, <1>4, <2>1 DEF WithinCeiling
<1>5. ASSUME NEW c \in Clients, Granted(p)' = Granted(p) \ {c},
             \A d \in Granted(p) \ {c} : size'[d] = size[d], grown' = grown,
             used'[p] = used[p] \/ (c \in Granted(p) /\ used'[p] = used[p] + size[c])
      PROVE  WithinCeiling(p)'
  <2>1. CASE c \in Granted(p)
    <3>1. size[c] \in Nat
      BY <2>1, CeilingType
    <3>2. max_bytes[p] # 0
      BY <2>1 DEF WithinCeiling
    <3>3. (AllFit(p) \/ LastFits(p))'
      BY <1>0, <1>2, <1>3, <1>5, <2>1, <3>1, <3>2, OneLess DEF WithinCeiling
    <3> QED BY <1>1, <3>2, <3>3 DEF WithinCeiling
  <2>2. CASE c \notin Granted(p)
    <3>1. Granted(p)' = Granted(p) /\ used'[p] = used[p]
      BY <1>5, <2>2
    <3> QED BY <1>2, <1>4, <1>5, <3>1, <2>2
  <2> QED BY <2>1, <2>2
<1>6. CASE UNCHANGED vars
  <2>1. Granted(p)' = Granted(p) /\ size' = size /\ used' = used /\ grown' = grown
    BY <1>6 DEF vars, client, Granted
  <2> QED BY <1>2, <1>4, <2>1
<1>7. ASSUME NEW c \in Clients, Create(c) PROVE WithinCeiling(p)'
  <2>1. /\ pc[c] = "idle" /\ pc' = [pc EXCEPT ![c] = "vote"] /\ UNCHANGED <<used, votes, target, grown>>
        /\ \A d \in Clients \ {c} : size'[d] = size[d]
    BY <1>0, <1>7 DEF Create, TypeOK
  <2>2. votes[c][p] = NoVote /\ ~Positive(NoVote)
    BY <1>0, <2>1 DEF TypeOK, NoVote, Positive
  <2>3. Granted(p)' = Granted(p) /\ c \notin Granted(p)
    BY <1>0, <2>1, <2>2 DEF TypeOK, Granted
  <2>4. \A d \in Granted(p) : size'[d] = size[d]
    BY <2>1, <2>3 DEF Granted
  <2> QED BY <1>2, <1>4, <2>1, <2>3, <2>4
<1>8. ASSUME NEW c \in Clients, Vote(c) PROVE WithinCeiling(p)'
  <2>1. PICK q \in Passthrus :
          votes[c][q] = NoVote /\ votes' = [votes EXCEPT ![c][q] = Weight(q, announced[c])]
    BY <1>8 DEF Vote
  <2>2. pc[c] = "vote" /\ UNCHANGED <<used, pc, size, target, grown>>
    BY <1>8 DEF Vote
  <2>3. ~Positive(NoVote)
    BY DEF NoVote, Positive
  <2>4. \A d \in Clients : ~(d = c /\ p = q) => votes'[d][p] = votes[d][p]
    BY <1>0, <2>1 DEF TypeOK
  <2>5. p = q => votes'[c][p] = Weight(p, announced[c])
    BY <1>0, <2>1 DEF TypeOK
  <2>6. CASE p = q /\ Positive(Weight(p, announced[c]))
    <3>1. c \in Granted(p)'
      BY <2>2, <2>5, <2>6 DEF Granted
    <3>2. max_bytes[p] # 0
      BY <2>6, ZeroIsNotPositive
    <3>3. size[c] \in Sizes /\ announced[c] \in {size[c], Unknown} /\ (unknown \/ announced[c] # Unknown)
      BY <1>0, <2>2 DEF Announced, SizesKnown
    <3>6. p \notin deep /\ (policy = "python" => used[p] < IntLimit)
      BY <1>3, <3>2, WithinBound, BalancingAssumption DEF Uncounted
    <3>4. IF Open THEN used[p] < max_bytes[p] + Slack ELSE used[p] + size[c] < max_bytes[p]
      BY <1>0, <2>6, <3>3, <3>6, PositiveHasRoom
    <3>5. (AllFit(p) \/ LastFits(p))'
      BY <1>0, <2>2, <3>1, <3>4, OneMore
    <3> QED BY <1>1, <3>2, <3>5 DEF WithinCeiling
  <2>7. CASE ~(p = q /\ Positive(Weight(p, announced[c])))
    <3>1. \A d \in Clients : Positive(votes'[d][p]) <=> Positive(votes[d][p])
      BY <2>1, <2>3, <2>4, <2>5, <2>7
    <3>2. Granted(p)' = Granted(p)
      BY <2>2, <3>1 DEF Granted
    <3> QED BY <1>2, <1>4, <2>2, <3>2
  <2> QED BY <2>6, <2>7
<1>9. ASSUME NEW c \in Clients, VoteRaises(c) \/ QueryFails(c) \/ RefusalEnds(c) \/ WriteFails(c)
      PROVE  WithinCeiling(p)'
  <2>1. Quit(c) /\ used' = used /\ grown' = grown
    BY <1>9 DEF VoteRaises, QueryFails, RefusalEnds, WriteFails
  <2> QED BY <1>0, <1>5, <2>1, QuitGranted
<1>10. ASSUME NEW c \in Clients, Resolve(c) PROVE WithinCeiling(p)'
  <2>1. PICK q \in Passthrus : Positive(votes[c][q]) /\ target' = [target EXCEPT ![c] = {q}]
    BY <1>10 DEF Resolve
  <2>2. /\ pc[c] = "vote" /\ pc' = [pc EXCEPT ![c] = "write"] /\ UNCHANGED <<used, size, grown>>
        /\ votes' = [votes EXCEPT ![c] = [r \in Passthrus |-> NoVote]]
    BY <1>10 DEF Resolve, Voted, Forget
  <2>3. \A d \in Clients \ {c} : d \in Granted(p)' <=> d \in Granted(p)
    BY <1>0, <2>1, <2>2 DEF TypeOK, Granted
  <2>4. c \in Granted(p)' <=> p = q
    BY <1>0, <2>1, <2>2 DEF TypeOK, Granted
  <2>5. p = q => c \in Granted(p)
    BY <2>1, <2>2 DEF Granted
  <2>6. Granted(p)' = Granted(p) \/ Granted(p)' = Granted(p) \ {c}
    <3>1. Granted(p)' \subseteq Clients /\ Granted(p) \subseteq Clients
      BY DEF Granted
    <3> QED BY <2>3, <2>4, <2>5, <3>1
  <2> QED BY <1>2, <1>4, <1>5, <2>2, <2>6
<1>11. ASSUME NEW c \in Clients, Refuse(c) PROVE WithinCeiling(p)'
  <2>1. /\ pc[c] = "vote" /\ pc' = [pc EXCEPT ![c] = "refused"] /\ UNCHANGED <<used, size, target, grown>>
        /\ votes' = [votes EXCEPT ![c] = [r \in Passthrus |-> NoVote]]
    BY <1>11 DEF Refuse, Voted, Forget
  <2>2. Granted(p)' = Granted(p) \ {c}
    BY <1>0, <2>1 DEF TypeOK, Granted
  <2> QED BY <1>5, <2>1, <2>2
<1>12. ASSUME NEW c \in Clients, Register(c) PROVE WithinCeiling(p)'
  <2>1. /\ pc[c] = "write" /\ Quit(c) /\ grown' = grown
        /\ used'[p] = IF p \in target[c] THEN used[p] + size[c] ELSE used[p]
    BY <1>12 DEF Register
  <2>2. p \in target[c] => c \in Granted(p)
    BY <2>1 DEF Granted
  <2> QED BY <1>0, <1>5, <2>1, <2>2, QuitGranted
<1>13. ASSUME NEW q \in Passthrus, Extend(q) PROVE WithinCeiling(p)'
  <2>1. /\ UNCHANGED client /\ grown' = grown + 1 /\ used[q] >= 1
        /\ used' = [used EXCEPT ![q] = @ + 1]
    BY <1>0, <1>13, BalancingAssumption DEF Extend, TypeOK
  <2>2. Granted(p)' = Granted(p) /\ size' = size
    BY <2>1 DEF client, Granted
  <2>3. used'[p] - grown' <= used[p] - grown /\ (used[p] = 0 => used'[p] = 0)
    BY <1>0, <1>2, <2>1 DEF TypeOK
  <2> QED BY <1>4, <2>2, <2>3
<1>14. ASSUME NEW q \in Passthrus, Remove(q) PROVE WithinCeiling(p)'
  <2>1. UNCHANGED client /\ grown' = grown /\ \E u \in 0 .. used[q] - 1 : used' = [used EXCEPT ![q] = u]
    BY <1>14 DEF Remove
  <2>2. Granted(p)' = Granted(p) /\ size' = size
    BY <2>1 DEF client, Granted
  <2>3. used'[p] <= used[p]
    BY <1>0, <1>2, <2>1 DEF TypeOK
  <2> QED BY <1>2, <1>4, <2>1, <2>2, <2>3
<1> QED BY <1>6, <1>7, <1>8, <1>9, <1>10, <1>11, <1>12, <1>13, <1>14 DEF Next

(* So no step takes a resource past its ceiling.                           *)
THEOREM FilledInvariant == Spec => []FilledInv
<1>1. Init /\ RefusalInv => FilledInv
  <2> SUFFICES ASSUME Init, RefusalInv PROVE FilledInv
    OBVIOUS
  <2>1. SizesKnown
    BY DEF Init, SizesKnown, NoSize, Unknown
  <2>2. ASSUME NEW p \in Passthrus, Limited(p) PROVE WithinCeiling(p)
    <3>1. Granted(p) = {}
      BY DEF Init, Granted, NoVote, Positive
    <3>2. Cardinality(Granted(p)) = 0
      BY <3>1, FS_EmptySet
    <3>3. used[p] = 0 /\ grown = 0
      BY DEF Init
    <3>4. max_bytes[p] # 0 => Ceiling(p) >= 0
      BY <2>2, <3>3, CeilingType DEF Ceiling, Slack
    <3>5. 0 * Largest = 0
      BY LargestBounds
    <3>6. max_bytes[p] # 0 => AllFit(p)
      BY <3>2, <3>3, <3>4, <3>5 DEF AllFit
    <3> QED BY <3>1, <3>3, <3>6 DEF WithinCeiling
  <2> QED BY <2>1, <2>2 DEF FilledInv
<1>2. RefusalInv /\ RefusalInv' /\ FilledInv /\ [Next]_vars => FilledInv'
  <2> SUFFICES ASSUME RefusalInv, RefusalInv', FilledInv, [Next]_vars PROVE FilledInv'
    OBVIOUS
  <2>1. UNCHANGED config
    BY DEF Next, vars, Create, Vote, VoteRaises, QueryFails, Resolve, Refuse,
           RefusalEnds, Register, WriteFails, Extend, Remove
  <2>2. SizesKnown'
    <3>1. CASE unknown
      BY <2>1, <3>1 DEF SizesKnown, config
    <3>2. ASSUME ~unknown, NEW c \in Clients, Create(c) PROVE SizesKnown'
      <4>1. PICK s \in Sizes : announced' = [announced EXCEPT ![c] = s]
        BY <3>2 DEF Create
      <4>2. s # Unknown
        BY BalancingAssumption DEF Unknown
      <4> QED BY <4>1, <4>2, <3>2 DEF RefusalInv, TypeOK, FilledInv, SizesKnown
    <3>3. ASSUME ~unknown, NEW c \in Clients, Quit(c) PROVE SizesKnown'
      <4>1. NoSize # Unknown
        BY DEF NoSize, Unknown
      <4> QED BY <3>3, <4>1 DEF RefusalInv, TypeOK, FilledInv, SizesKnown, Quit
    <3>4. CASE ~unknown /\ UNCHANGED announced
      BY <3>4 DEF FilledInv, SizesKnown
    <3>5. UNCHANGED announced \/ \E c \in Clients : Create(c) \/ Quit(c)
      BY DEF Next, vars, client, Vote, VoteRaises, QueryFails, Resolve, Refuse,
             RefusalEnds, Register, WriteFails, Extend, Remove
    <3> QED BY <3>1, <3>2, <3>3, <3>4, <3>5
  <2>3. ASSUME NEW p \in Passthrus, Limited(p)' PROVE WithinCeiling(p)'
    <3>1. Limited(p)
      BY <2>1, <2>3 DEF Limited, config
    <3> QED BY <3>1, CeilingKept DEF FilledInv
  <2> QED BY <2>2, <2>3 DEF FilledInv
<1> QED BY <1>1, <1>2, RefusalInvariant, PTL DEF Spec

(* No resource is filled further than one object for each further client,  *)
(* and what was extended, past its limit.                                  *)
THEOREM FilledToCeiling == Spec => []Filled
<1>1. RefusalInv /\ FilledInv => Filled
  BY WithinBound DEF Filled, FilledInv, WithinCeiling
<1> QED BY <1>1, FilledInvariant, RefusalInvariant, PTL
=============================================================================
