-------------------------- MODULE SlurmJobsProofs --------------------------
(***************************************************************************)
(* Theorems about ReplicaMoves and SlurmJobs for any objects, resources,   *)
(* movers and jobs: the replicas that moves and epilogs leave behind.      *)
(***************************************************************************)
EXTENDS SlurmJobs, FiniteSetTheorems, WellFoundedInduction, TLAPS

HasFile(rs) == \E x \in rs : x.data = "file"

(* The replicas of one object: no two have the same number, the same       *)
(* resource or a registered file, some number is above all others, and     *)
(* unless there are none one of them is good.                              *)
WellFormed(rs) ==
  /\ rs \in SUBSET Replica
  /\ \A x, y \in rs : x.num = y.num \/ x.resc = y.resc => x = y
  /\ \A x, y \in rs : x.data = "file" /\ y.data = "file" => x = y
  /\ rs # {} => Good(rs) # {}
  /\ \E n \in Nat : \A x \in rs : x.num <= n

NoPart(rs) == \A x \in Good(rs) : x.data # "part"

(* What every step does to the replicas of an object, if it touches them.  *)
Keeps(o, rs) ==
  /\ WellFormed(rs)
  /\ replicas[o] # {} => rs # {}
  /\ HasFile(rs) => HasFile(replicas[o]) \/ file[o] # "none"
  /\ NoPart(replicas[o]) /\ file[o] # "part" => NoPart(rs)

-----------------------------------------------------------------------------
(* The server.  A set of numbers with a bound has a greatest element, so   *)
(* the number that CHOOSE gives to a new replica is not in use.            *)
LEMMA Greatest ==
  ASSUME NEW S \in SUBSET Nat, S # {}, \E b \in Nat : \A n \in S : n <= b
  PROVE  \E n \in S : \A k \in S : k <= n
<1> DEFINE T == {b \in Nat : \A n \in S : n <= b}
<1>1. T \subseteq Nat /\ T # {}
  OBVIOUS
<1>2. \E b \in T : \A c \in T : ~(<<c, b>> \in OpToRel(<, Nat))
  <2> HIDE DEF T
  <2> QED BY <1>1, NatLessThanWellFounded, WFMin
<1>3. PICK b \in T : \A c \in T : ~(c < b)
  BY <1>2 DEF OpToRel
<1>4. b \in S
  <2> SUFFICES ASSUME b \notin S PROVE FALSE
    OBVIOUS
  <2>1. b \in Nat /\ \A n \in S : n \in Nat /\ n < b
    OBVIOUS
  <2>2. b - 1 \in Nat /\ \A n \in S : n <= b - 1
    <3> HIDE DEF T
    <3>1. PICK n \in S : n \in Nat /\ n < b
      BY <2>1
    <3>2. b - 1 \in Nat
      BY <2>1, <3>1
    <3> QED BY <2>1, <3>2
  <2>3. b - 1 \in T
    BY <2>2
  <2> QED BY <1>3, <2>1, <2>3
<1> QED BY <1>4

(* So the number after the highest is higher than all.                    *)
LEMMA NextNumIsNew ==
  ASSUME NEW rs, WellFormed(rs), rs # {}
  PROVE  NextNum(rs) \in Nat /\ \A x \in rs : x.num < NextNum(rs)
<1> DEFINE S == {x.num : x \in rs}
<1>1. \A x \in rs : x.num \in Nat
  BY DEF WellFormed, Replica
<1>2. S \in SUBSET Nat /\ S # {}
  BY <1>1
<1>3. \E b \in Nat : \A n \in S : n <= b
  BY DEF WellFormed
<1>4. \E n \in S : \A k \in S : k <= n
  <2> HIDE DEF S
  <2> QED BY <1>2, <1>3, Greatest
<1>5. \E n \in S : \A x \in rs : x.num <= n
  BY <1>4
<1> DEFINE top == CHOOSE n \in S : \A x \in rs : x.num <= n
<1>6. top \in S /\ \A x \in rs : x.num <= top
  BY <1>5
<1>7. NextNum(rs) = 1 + top
  BY DEF NextNum
<1> HIDE DEF top, S
<1> QED BY <1>1, <1>2, <1>6, <1>7

(* One replica more, with a number that is not in use.                     *)
LEMMA AddedNumbered ==
  ASSUME NEW rs, WellFormed(rs), rs # {}, NEW x \in Replica, x.data # "file",
         \A y \in rs : y.num < x.num /\ y.resc # x.resc
  PROVE  WellFormed(rs \cup {x})
<1>1. x.num \in Nat /\ \A y \in rs : y.num \in Nat
  BY DEF WellFormed, Replica
<1>2. \A y, z \in rs \cup {x} : y.num = z.num \/ y.resc = z.resc => y = z
  BY <1>1 DEF WellFormed
<1>3. \A y \in rs \cup {x} : y.num <= x.num
  BY <1>1
<1>4. \A y, z \in rs \cup {x} : y.data = "file" /\ z.data = "file" => y = z
  BY DEF WellFormed
<1>5. Good(rs) # {} /\ Good(rs) \subseteq Good(rs \cup {x})
  BY DEF WellFormed, Good
<1> QED BY <1>1, <1>2, <1>3, <1>4, <1>5 DEF WellFormed

(* A copy, a copy that fails, and a trim.                                  *)
LEMMA CopyKeeps ==
  ASSUME NEW o \in Objects, file[o] \in Data \cup {"none"}, WellFormed(replicas[o]),
         NEW r \in Resources, NEW x \in Sources(o)
  PROVE  Keeps(o, Copied(o, r, x)) /\ Copied(o, r, x) # {}
<1> DEFINE rs == replicas[o]
           data == Content(o, x)
           at(n) == [num |-> n, resc |-> r, good |-> TRUE, data |-> data]
<1>1. x \in rs /\ x.good /\ x \in Replica
  BY DEF Sources, Good, WellFormed
<1>2. data \in Data
  BY <1>1 DEF Sources, Content, Replica, Data
<1>3. NoPart(rs) /\ file[o] # "part" => data # "part"
  BY <1>1 DEF NoPart, Good, Content
<1>4. \A n \in Nat : at(n) \in Replica
  BY <1>2 DEF Replica
<1>5. CASE On(rs, r) = {}
  <2>1. Copied(o, r, x) = rs \cup {at(NextNum(rs))}
    BY <1>5 DEF Copied
  <2>2. NextNum(rs) \in Nat /\ \A y \in rs : y.num < NextNum(rs)
    BY <1>1, NextNumIsNew
  <2>3. /\ WellFormed(rs \cup {at(NextNum(rs))})
        /\ HasFile(rs \cup {at(NextNum(rs))}) => HasFile(rs)
    <3>1. \A y \in rs : y.resc # r
      BY <1>5 DEF On
    <3>2. at(NextNum(rs)).data # "file"
      BY <1>2 DEF Data
    <3>3. at(NextNum(rs)) \in Replica
      BY <1>4, <2>2
    <3>4. at(NextNum(rs)).resc = r /\ at(NextNum(rs)).num = NextNum(rs)
      OBVIOUS
    <3> HIDE DEF at
    <3> QED BY <1>1, <2>2, <3>1, <3>2, <3>3, <3>4, AddedNumbered DEF HasFile
  <2>4. Good(rs \cup {at(NextNum(rs))}) = Good(rs) \cup {at(NextNum(rs))}
    BY DEF Good
  <2>5. NoPart(rs) /\ file[o] # "part" => NoPart(rs \cup {at(NextNum(rs))})
    BY <1>3, <2>4 DEF NoPart
  <2> QED BY <2>1, <2>3, <2>4, <2>5 DEF Keeps
<1>6. CASE On(rs, r) # {}
  <2> DEFINE new(y) == IF y.resc = r /\ ~y.good THEN at(y.num) ELSE y
             ns == {new(y) : y \in rs}
  <2>1. Copied(o, r, x) = ns
    BY <1>6 DEF Copied
  <2>2. \A y \in rs : y \in Replica /\ y.num \in Nat
    BY DEF WellFormed, Replica
  <2>3. \A y \in rs : /\ new(y) \in Replica /\ new(y).num = y.num /\ new(y).resc = y.resc
                      /\ y.good => new(y) = y
                      /\ new(y).data = "file" => y.data = "file" /\ new(y) = y
    BY <1>2, <1>4, <2>2 DEF Data
  <2>4. ns \in SUBSET Replica
    BY <2>3
  <2>5. \A y, z \in ns : y.num = z.num \/ y.resc = z.resc \/ (y.data = "file" /\ z.data = "file") => y = z
    <3> HIDE DEF new
    <3> SUFFICES ASSUME NEW y \in ns, NEW z \in ns,
                        y.num = z.num \/ y.resc = z.resc \/ (y.data = "file" /\ z.data = "file")
                 PROVE  y = z
      OBVIOUS
    <3>1. PICK v \in rs : y = new(v)
      OBVIOUS
    <3>2. PICK w \in rs : z = new(w)
      OBVIOUS
    <3>3. v = w
      BY <2>3, <3>1, <3>2 DEF WellFormed
    <3> QED BY <3>1, <3>2, <3>3
  <2>6. \E n \in Nat : \A y \in ns : y.num <= n
    <3>1. PICK n \in Nat : \A y \in rs : y.num <= n
      BY DEF WellFormed
    <3>2. \A y \in ns : y.num <= n
      BY <2>3, <3>1
    <3> QED BY <3>2
  <2>7. ns # {} /\ x \in ns
    BY <1>1, <2>3
  <2>8. Good(ns) # {}
    BY <1>1, <2>7 DEF Good
  <2>9. NoPart(rs) /\ file[o] # "part" => NoPart(ns)
    <3> SUFFICES ASSUME NoPart(rs), file[o] # "part", NEW y \in rs, new(y).good
                 PROVE  new(y).data # "part"
      BY DEF NoPart, Good
    <3> QED BY <1>3 DEF NoPart, Good
  <2>10. HasFile(ns) => HasFile(rs)
    BY <2>3 DEF HasFile
  <2> QED BY <2>1, <2>4, <2>5, <2>6, <2>7, <2>8, <2>9, <2>10 DEF Keeps, WellFormed
<1> QED BY <1>5, <1>6

(* A copy that fails leaves a replica that is not good.                    *)
LEMMA StaleKeeps ==
  ASSUME NEW o \in Objects, WellFormed(replicas[o]), replicas[o] # {}, NEW r \in Resources
  PROVE  Keeps(o, replicas[o]) /\ Keeps(o, Stale(o, r))
<1> DEFINE rs == replicas[o]
           x == [num |-> NextNum(rs), resc |-> r, good |-> FALSE, data |-> "part"]
<1>1. NextNum(rs) \in Nat /\ \A y \in rs : y.num < NextNum(rs)
  BY NextNumIsNew
<1>2. x \in Replica
  BY <1>1 DEF Replica, Data
<1>3. Stale(o, r) = rs \/ (Stale(o, r) = rs \cup {x} /\ \A y \in rs : y.resc # r)
  BY DEF Stale, On
<1>4. x.resc = r /\ x.data # "file" /\ ~x.good /\ x.num = NextNum(rs)
  OBVIOUS
<1> HIDE DEF x
<1>5. Good(rs \cup {x}) = Good(rs)
  BY <1>4 DEF Good
<1>6. HasFile(rs \cup {x}) => HasFile(rs)
  BY <1>4 DEF HasFile
<1>7. Keeps(o, rs)
  BY DEF Keeps
<1>8. ASSUME \A y \in rs : y.resc # r PROVE Keeps(o, rs \cup {x})
  <2>1. WellFormed(rs \cup {x})
    BY <1>1, <1>2, <1>4, <1>8, AddedNumbered
  <2> QED BY <1>5, <1>6, <2>1 DEF Keeps, NoPart
<1> QED BY <1>3, <1>7, <1>8

(* A trim leaves one good replica, as numbers are unique.                  *)
LEMMA TrimKeeps ==
  ASSUME NEW o \in Objects, WellFormed(replicas[o]), NEW n \in Nat, Trim(o, n),
         replicas \in [Objects -> SUBSET Replica]
  PROVE  Keeps(o, replicas'[o])
<1> DEFINE rs == replicas[o]
           gone == Gone(o, n)
<1>1. replicas'[o] = rs \ gone /\ gone \subseteq rs
  BY DEF Trim, Gone
<1>2. gone = {} \/ \E x \in rs : gone = {x} /\ Good(rs \ {x}) # {}
  <2> SUFFICES ASSUME NEW x \in gone PROVE gone = {x} /\ Good(rs \ {x}) # {}
    BY <1>1
  <2>1. x \in rs /\ x.num = n /\ \A y \in gone : y \in rs /\ y.num = n
    BY DEF Gone
  <2>3. \A y \in gone : y = x
    BY <2>1 DEF WellFormed
  <2>2. Cardinality({}) = 0 /\ Cardinality(Good(rs \ {x})) >= 1
    BY FS_EmptySet DEF Copies, Gone
  <2>4. Good(rs \ {x}) # {}
    BY <2>2
  <2> HIDE DEF gone
  <2> QED BY <2>3, <2>4
<1> HIDE DEF gone
<1>3. Good(rs \ gone) \subseteq Good(rs) /\ (HasFile(rs \ gone) => HasFile(rs))
  BY DEF Good, HasFile
<1>4. rs # {} => rs \ gone # {} /\ Good(rs \ gone) # {}
  BY <1>2 DEF Good, WellFormed
<1>5. WellFormed(rs \ gone)
  BY <1>4 DEF WellFormed
<1> QED BY <1>1, <1>3, <1>4, <1>5 DEF Keeps, NoPart

-----------------------------------------------------------------------------
(* Whoever is about to copy an object has seen a replica of it, and a      *)
(* mover that is busy was called with arguments.                           *)
CatalogInv ==
  /\ TypeOK
  /\ \A o \in Objects : WellFormed(replicas[o])
  /\ \A m \in Movers : mpc[m] # "idle" => call[m] \in Call
  /\ \A m \in Movers : \A w \in todo[m] : replicas[w.obj] # {}
  /\ \A j \in Jobs : jpc[j] \in {"get", "replicate", "get_again", "trim"} => replicas[size[j]] # {}
  /\ \A o \in Objects : HasFile(replicas[o]) => file[o] # "none"

(* A mover that was given a resource to move from has one row of each      *)
(* object, and none of those it is done with.                              *)
OneRowEach(m) ==
  call[m].from # Anywhere =>
    /\ \A v, w \in todo[m] : v.obj = w.obj => v = w
    /\ \A w \in todo[m] : w.obj \notin replicated[m]
    /\ mpc[m] # "raised"

MovesInv == \A m \in Movers : OneRowEach(m) /\ (mpc[m] = "idle" => replicated[m] = {})

(* What is stored of the product of a job, as the job goes on.             *)
Unmade == {"queued", "script", "sleep"}

Own(o) == o \notin spoiled /\ ~Shared(o)

CopiesInv ==
  \A o \in Objects : Own(o) =>
    /\ NoPart(replicas[o])
    /\ replicas[o] # {} => file[o] # "part"
    /\ \A j \in Jobs : size[j] = o =>
         /\ jpc[j] \in Unmade \cup {"convert"} => replicas[o] = {}
         /\ jpc[j] \in Unmade => file[o] = "none"
         /\ jpc[j] \notin Unmade \cup {"convert"} => file[o] # "part"

(* What a job that no failure has hit has made of its product, whoever     *)
(* moves it afterwards.                                                    *)
Made(j) ==
  /\ jpc[j] = "convert" => file[size[j]] = "part"
  /\ jpc[j] \in {"epilog", "register"} => file[size[j]] = "whole" /\ replicas[size[j]] = {}
  /\ jpc[j] \in {"destroy", "done"} => replicas[size[j]] # {}

MadeInv == \A j \in Jobs : ~hit[j] /\ Own(size[j]) => Made(j)

(* What it has made so far of its descriptor and link ...                  *)
DescInv ==
  \A j \in Jobs : ~hit[j] =>
    /\ jpc[j] # "register_any"
    /\ jpc[j] = "script" => desc[j] = {"put", "uuid"}
    /\ jpc[j] \notin {"queued", "script", "done"} => desc[j] = {"put", "uuid", "size"}
    /\ jpc[j] \notin {"queued", "done"} => tmp[j] = {"desc", "link"}
    /\ jpc[j] = "done" => desc[j] = {} /\ tmp[j] = {}

(* ... and of its product: the registered file, and its copy.              *)
FileOf(rs) == \E x \in rs : rs = {x} /\ x.resc = "img" /\ x.good /\ x.data = "file"

FileAndCopy(rs) == \E x, y \in rs :
  /\ rs = {x, y} /\ x.num # y.num
  /\ x.resc = "img" /\ x.good /\ x.data = "file"
  /\ y.resc = "lts" /\ y.good /\ y.data = "whole"

Product(j) ==
  LET rs == replicas[size[j]]
      f  == file[size[j]]
  IN  /\ jpc[j] = "convert" => f = "part"
      /\ jpc[j] \in {"epilog", "register"} => rs = {} /\ f = "whole"
      /\ jpc[j] \in {"get", "replicate"} => FileOf(rs) /\ f = "whole"
      /\ jpc[j] \in {"get_again", "trim"} => FileAndCopy(rs) /\ f = "whole"
      /\ jpc[j] \in {"replicate", "trim"} => snap[j] = rs
      /\ jpc[j] \in {"destroy", "done"} => Delivered(size[j])

ProductInv ==
  /\ moves = 0 => \A m \in Movers : mpc[m] = "idle"
  /\ \A j \in Jobs : ~hit[j] /\ Own(size[j]) /\ moves = 0 => Product(j)

-----------------------------------------------------------------------------
(* The same for the catalog: only the replicas of one object change.       *)
CatalogTypeOK ==
  /\ replicas \in [Objects -> SUBSET Replica]
  /\ file \in [Objects -> Data \cup {"none"}]
  /\ \A o \in Objects : WellFormed(replicas[o])

(* Replicas that are left alone are kept ...                               *)
LEMMA KeptAsItIs ==
  ASSUME CatalogTypeOK, NEW o \in Objects
  PROVE  Keeps(o, replicas[o])
  BY DEF CatalogTypeOK, Keeps

(* ... and so are those of all objects but one that changes.               *)
LEMMA OneKept ==
  ASSUME CatalogTypeOK, NEW o \in Objects, NEW rs, Keeps(o, rs),
         replicas' = [replicas EXCEPT ![o] = rs]
  PROVE  /\ replicas' \in [Objects -> SUBSET Replica]
         /\ \A p \in Objects : Keeps(p, replicas'[p])
         /\ \A p \in Objects \ {o} : replicas'[p] = replicas[p]
<1>1. rs \in SUBSET Replica
  BY DEF Keeps, WellFormed
<1>2. replicas' \in [Objects -> SUBSET Replica] /\ replicas'[o] = rs
      /\ \A p \in Objects \ {o} : replicas'[p] = replicas[p]
  BY <1>1 DEF CatalogTypeOK
<1>3. \A p \in Objects : Keeps(p, replicas'[p])
  BY <1>2, KeptAsItIs
<1> QED BY <1>2, <1>3

(* The effect of Replicate on the catalog.                                 *)
LEMMA ReplicateEffect ==
  ASSUME CatalogTypeOK, NEW o \in Objects, NEW r \in Resources, Replicate(o, r)
  PROVE  /\ replicas' \in [Objects -> SUBSET Replica]
         /\ \A p \in Objects : Keeps(p, replicas'[p])
         /\ \A p \in Objects \ {o} : replicas'[p] = replicas[p]
         /\ replicas[o] # {}
<1>1. PICK x \in Sources(o) : replicas' = [replicas EXCEPT ![o] = Copied(o, r, x)]
  BY DEF Replicate
<1>2. Keeps(o, Copied(o, r, x))
  BY CopyKeeps DEF CatalogTypeOK
<1>3. replicas[o] # {}
  BY DEF Sources, Good
<1> QED BY <1>1, <1>2, <1>3, OneKept

(* The effect of ReplicateFails: a failure more, and a stale replica.      *)
LEMMA ReplicateFailsEffect ==
  ASSUME CatalogTypeOK, NEW o \in Objects, NEW r \in Resources, ReplicateFails(o, r),
         replicas[o] # {}, faults \in 0 .. MaxFaults, MaxFaults \in Nat
  PROVE  /\ replicas' \in [Objects -> SUBSET Replica]
         /\ \A p \in Objects : Keeps(p, replicas'[p])
         /\ \A p \in Objects \ {o} : replicas'[p] = replicas[p]
         /\ faults' \in 0 .. MaxFaults
<1>1. CASE UNCHANGED <<replicas, faults>>
  BY <1>1, KeptAsItIs DEF CatalogTypeOK
<1>2. CASE Fault /\ \E rs \in {replicas[o], Stale(o, r)} : replicas' = [replicas EXCEPT ![o] = rs]
  <2>1. PICK rs \in {replicas[o], Stale(o, r)} : replicas' = [replicas EXCEPT ![o] = rs]
    BY <1>2
  <2>2. Keeps(o, rs)
    BY <2>1, StaleKeeps DEF CatalogTypeOK
  <2>3. faults' \in 0 .. MaxFaults
    BY <1>2 DEF Fault
  <2> QED BY <2>1, <2>2, <2>3, OneKept
<1> QED BY <1>1, <1>2 DEF ReplicateFails

(* The effect of Trim: a registered file may go with its replica.          *)
LEMMA TrimEffect ==
  ASSUME CatalogTypeOK, NEW o \in Objects, NEW n \in Nat, Trim(o, n)
  PROVE  /\ replicas' \in [Objects -> SUBSET Replica]
         /\ file' \in [Objects -> Data \cup {"none"}]
         /\ \A p \in Objects : Keeps(p, replicas'[p])
         /\ \A p \in Objects \ {o} : replicas'[p] = replicas[p] /\ file'[p] = file[p]
         /\ file'[o] = file[o] \/ (file'[o] = "none" /\ replicas[o] # {} /\ ~HasFile(replicas'[o]))
<1>1. Keeps(o, replicas'[o])
  BY TrimKeeps DEF CatalogTypeOK
<1> DEFINE gone == Gone(o, n)
<1>2. /\ replicas' = [replicas EXCEPT ![o] = @ \ gone]
      /\ file' = [file EXCEPT ![o] = IF \E x \in gone : x.data = "file" THEN "none" ELSE @]
  BY DEF Trim
<1>3. gone \subseteq replicas[o]
  BY DEF Gone
<1> HIDE DEF gone
<1>4. replicas' = [replicas EXCEPT ![o] = replicas'[o]]
  BY <1>2 DEF CatalogTypeOK
<1>5. file' \in [Objects -> Data \cup {"none"}] /\ \A p \in Objects \ {o} : file'[p] = file[p]
  BY <1>2 DEF CatalogTypeOK
<1>6. file'[o] = file[o] \/ (file'[o] = "none" /\ replicas[o] # {} /\ ~HasFile(replicas'[o]))
  <2>1. (\E x \in gone : x.data = "file") => replicas[o] # {} /\ ~HasFile(replicas[o] \ gone)
    BY <1>3 DEF CatalogTypeOK, WellFormed, HasFile
  <2> QED BY <1>2, <2>1 DEF CatalogTypeOK
<1> HIDE DEF Trim
<1> QED BY <1>1, <1>4, <1>5, <1>6, OneKept

(* What a step does to each object: no replica appears where there was     *)
(* none but by a registration, and a file is written only by the job whose *)
(* product it is.                                                          *)
CatalogStep ==
  /\ replicas' \in [Objects -> SUBSET Replica]
  /\ file' \in [Objects -> Data \cup {"none"}]
  /\ faults' \in 0 .. MaxFaults
  /\ \A o \in Objects :
       /\ Keeps(o, replicas'[o])
       /\ replicas[o] = {} /\ replicas'[o] # {} =>
            o \in spoiled' \/ \E j \in Jobs : size[j] = o /\ Register(j)
       /\ file'[o] = "none" => file[o] = "none" \/ ~HasFile(replicas'[o])
       /\ file'[o] # file[o] =>
            \/ file'[o] = "none" /\ replicas[o] # {}
            \/ \E j \in Jobs : size[j] = o /\ (StartConvert(j) \/ EndConvert(j))

(* A step that touches neither replicas nor files.                         *)
LEMMA SameCatalog ==
  ASSUME CatalogTypeOK, UNCHANGED <<replicas, file>>, faults' \in 0 .. MaxFaults
  PROVE  CatalogStep
  BY KeptAsItIs DEF CatalogTypeOK, CatalogStep

(* Failures are counted to their bound.                                    *)
LEMMA FaultType ==
  ASSUME faults \in 0 .. MaxFaults, Fault \/ UNCHANGED faults
  PROVE  faults' \in 0 .. MaxFaults
  BY MovesAssumption DEF Fault

(* What replicate_data_objects does to the catalog.                        *)
LEMMA MoverCatalog ==
  ASSUME CatalogInv, NEW m \in Movers, Move(m)
  PROVE  CatalogStep
<1>1. /\ CatalogTypeOK /\ faults \in 0 .. MaxFaults /\ MaxFaults \in Nat
      /\ todo \in [Movers -> SUBSET Row] /\ row \in [Movers -> SUBSET Row]
  BY MovesAssumption DEF CatalogInv, TypeOK, MovesTypeOK, CatalogTypeOK
<1>2. CASE UNCHANGED <<replicas, file, faults>>
  BY <1>1, <1>2, SameCatalog
<1>3. \A w \in Row : w.obj \in Objects /\ w.num \in Nat
  BY DEF Row
<1>4. mpc[m] = "rows" => call[m].to \in Resources
  BY DEF CatalogInv, Call
<1>5. \A w \in todo[m] : w \in Row /\ replicas[w.obj] # {}
  BY <1>1 DEF CatalogInv
<1>6. ASSUME CopyRow(m) PROVE CatalogStep
  <2>1. PICK w \in todo[m] : Replicate(w.obj, call[m].to)
    BY <1>6 DEF CopyRow, Elsewhere
  <2>2. mpc[m] = "rows" /\ UNCHANGED <<file, faults>>
    BY <1>6 DEF CopyRow
  <2>3. /\ replicas' \in [Objects -> SUBSET Replica]
        /\ \A p \in Objects : Keeps(p, replicas'[p])
        /\ \A p \in Objects \ {w.obj} : replicas'[p] = replicas[p]
        /\ replicas[w.obj] # {}
    BY <1>1, <1>3, <1>4, <1>5, <2>1, <2>2, ReplicateEffect
  <2> QED BY <1>1, <2>2, <2>3 DEF CatalogStep, CatalogTypeOK
<1>7. ASSUME CopyRowFails(m) PROVE CatalogStep
  <2>1. PICK w \in todo[m] : ReplicateFails(w.obj, call[m].to)
    BY <1>7 DEF CopyRowFails, Elsewhere
  <2>2. mpc[m] = "rows" /\ UNCHANGED file
    BY <1>7 DEF CopyRowFails
  <2>3. replicas[w.obj] # {} /\ w.obj \in Objects
    BY <1>3, <1>5
  <2>4. /\ replicas' \in [Objects -> SUBSET Replica]
        /\ \A p \in Objects : Keeps(p, replicas'[p])
        /\ \A p \in Objects \ {w.obj} : replicas'[p] = replicas[p]
        /\ faults' \in 0 .. MaxFaults
    BY <1>1, <1>4, <2>1, <2>2, <2>3, ReplicateFailsEffect
  <2> QED BY <1>1, <2>2, <2>3, <2>4 DEF CatalogStep, CatalogTypeOK
<1>8. ASSUME TrimRow(m) PROVE CatalogStep
  <2>1. PICK w \in row[m] : Trim(w.obj, w.num)
    BY <1>8 DEF TrimRow
  <2>2. UNCHANGED faults
    BY <1>8 DEF TrimRow
  <2>3. w.obj \in Objects /\ w.num \in Nat
    BY <1>1, <1>3
  <2>4. /\ replicas' \in [Objects -> SUBSET Replica]
        /\ file' \in [Objects -> Data \cup {"none"}]
        /\ \A p \in Objects : Keeps(p, replicas'[p])
        /\ \A p \in Objects \ {w.obj} : replicas'[p] = replicas[p] /\ file'[p] = file[p]
        /\ file'[w.obj] = file[w.obj]
             \/ (file'[w.obj] = "none" /\ replicas[w.obj] # {} /\ ~HasFile(replicas'[w.obj]))
    BY <1>1, <2>1, <2>3, TrimEffect
  <2>5. \A p \in Objects : replicas[p] = {} => replicas'[p] = {}
    BY <2>1, <2>3, <2>4, <1>1 DEF Trim, CatalogTypeOK
  <2> QED BY <1>1, <2>2, <2>4, <2>5 DEF CatalogStep
<1>9. ASSUME TrimRowFails(m) PROVE CatalogStep
  <2>1. UNCHANGED <<replicas, file>> /\ (Fault \/ UNCHANGED faults)
    BY <1>9 DEF TrimRowFails, TrimFails, stored
  <2> QED BY <1>1, <2>1, SameCatalog, FaultType
<1> QED BY <1>2, <1>6, <1>7, <1>8, <1>9
        DEF Move, StartMove, AlreadyThere, SkipRow, RowRaises, EndMove, stored

(* What a job and its epilog do to the catalog.                            *)
LEMMA JobCatalog ==
  ASSUME CatalogInv, NEW j \in Jobs, RunJob(j) \/ Cancel(j)
  PROVE  CatalogStep
<1> DEFINE o == size[j]
<1>1. /\ CatalogTypeOK /\ faults \in 0 .. MaxFaults /\ MaxFaults \in Nat
      /\ o \in Objects /\ snap[j] \in SUBSET Replica
  BY MovesAssumption, JobsAssumption DEF CatalogInv, TypeOK, MovesTypeOK, CatalogTypeOK
<1>2. CASE UNCHANGED <<replicas, file>> /\ (Fault \/ UNCHANGED faults)
  BY <1>1, <1>2, SameCatalog, FaultType
<1>3. "lts" \in Resources /\ "img" \in Resources /\ "demo" \in Resources
  BY JobsAssumption
<1>4. ASSUME StartConvert(j) \/ EndConvert(j) PROVE CatalogStep
  <2>1. UNCHANGED <<replicas, faults>>
    BY <1>4 DEF StartConvert, EndConvert
  <2>2. \E f \in Data \cup {"none"} : file' = [file EXCEPT ![o] = f]
    BY <1>1, <1>4 DEF StartConvert, EndConvert, Data, CatalogTypeOK
  <2>3. file' \in [Objects -> Data \cup {"none"}] /\ \A p \in Objects \ {o} : file'[p] = file[p]
    BY <1>1, <2>2 DEF CatalogTypeOK
  <2>4. file'[o] = "none" => file[o] = "none"
    BY <1>1, <1>4 DEF StartConvert, EndConvert, CatalogTypeOK
  <2> QED BY <1>1, <1>4, <2>1, <2>3, <2>4, KeptAsItIs DEF CatalogStep, CatalogTypeOK
<1>5. ASSUME Register(j) PROVE CatalogStep
  <2>1. PICK p \in Matching(j) :
          /\ replicas[p] = {}
          /\ \/ Registered(p, "img") /\ Calm
             \/ Registered(p, "demo") /\ Hit(j)
          /\ spoiled' = IF p # size[j] THEN spoiled \cup {p} ELSE spoiled
    BY <1>5 DEF Register
  <2>2. jpc[j] \in {"register", "register_any"} /\ UNCHANGED file
    BY <1>5 DEF Register
  <2>3. p \in Objects
    BY DEF Matching
  <2>4. PICK r \in Resources :
          replicas' = [replicas EXCEPT ![p] = {[num |-> 0, resc |-> r, good |-> TRUE, data |-> "file"]}]
    BY <1>3, <2>1 DEF Registered
  <2> DEFINE rs == {[num |-> 0, resc |-> r, good |-> TRUE, data |-> "file"]}
  <2>5. rs \in SUBSET Replica /\ \A x \in rs : x.num <= 0 /\ x.data # "part"
    BY DEF Replica
  <2>6. Keeps(p, rs)
    <3>1. Good(rs) # {} /\ \A x, y \in rs : x = y
      <4>1. rs = {x \in rs : x.good} /\ rs # {}
        OBVIOUS
      <4>2. \A x, y \in rs : x = y
        OBVIOUS
      <4> QED BY <4>1, <4>2 DEF Good
    <3>2. file[p] # "none"
      BY DEF Matching
    <3> QED BY <2>1, <2>5, <3>1, <3>2 DEF Keeps, WellFormed, NoPart, Good
  <2> HIDE DEF rs
  <2>7. /\ replicas' \in [Objects -> SUBSET Replica]
        /\ \A q \in Objects : Keeps(q, replicas'[q])
        /\ \A q \in Objects \ {p} : replicas'[q] = replicas[q]
    BY <1>1, <2>3, <2>4, <2>6, OneKept DEF rs
  <2>8. faults' \in 0 .. MaxFaults
    BY <1>1, <2>1, FaultType DEF Calm, Hit
  <2>9. p \in spoiled' \/ p = size[j]
    BY <2>1
  <2> QED BY <1>1, <1>5, <2>2, <2>7, <2>8, <2>9 DEF CatalogStep, CatalogTypeOK
<1>6. ASSUME ReplicateProduct(j), Replicate(o, "lts") PROVE CatalogStep
  <2>1. UNCHANGED <<file, faults>>
    BY <1>6 DEF ReplicateProduct
  <2>2. /\ replicas' \in [Objects -> SUBSET Replica]
        /\ \A p \in Objects : Keeps(p, replicas'[p])
        /\ \A p \in Objects \ {o} : replicas'[p] = replicas[p]
        /\ replicas[o] # {}
    BY <1>1, <1>3, <1>6, ReplicateEffect
  <2> QED BY <1>1, <2>1, <2>2 DEF CatalogStep, CatalogTypeOK
<1>7. ASSUME ReplicateProductFails(j) PROVE CatalogStep
  <2>1. ReplicateFails(o, "lts") /\ UNCHANGED file /\ jpc[j] = "replicate"
    BY <1>7 DEF ReplicateProductFails, Step
  <2>2. replicas[o] # {}
    BY <2>1 DEF CatalogInv
  <2>3. /\ replicas' \in [Objects -> SUBSET Replica]
        /\ \A p \in Objects : Keeps(p, replicas'[p])
        /\ \A p \in Objects \ {o} : replicas'[p] = replicas[p]
        /\ faults' \in 0 .. MaxFaults
    BY <1>1, <1>3, <2>1, <2>2, ReplicateFailsEffect
  <2> QED BY <1>1, <2>1, <2>2, <2>3 DEF CatalogStep, CatalogTypeOK
<1>8. ASSUME TrimProduct(j) PROVE CatalogStep
  <2>1. PICK x \in On(snap[j], "img") : Trim(o, x.num)
    BY <1>8 DEF TrimProduct
  <2>2. UNCHANGED faults
    BY <1>8 DEF TrimProduct
  <2>3. x.num \in Nat
    BY <1>1 DEF On, Replica
  <2>4. /\ replicas' \in [Objects -> SUBSET Replica]
        /\ file' \in [Objects -> Data \cup {"none"}]
        /\ \A p \in Objects : Keeps(p, replicas'[p])
        /\ \A p \in Objects \ {o} : replicas'[p] = replicas[p] /\ file'[p] = file[p]
        /\ file'[o] = file[o] \/ (file'[o] = "none" /\ replicas[o] # {} /\ ~HasFile(replicas'[o]))
    BY <1>1, <2>1, <2>3, TrimEffect
  <2>5. \A p \in Objects : replicas[p] = {} => replicas'[p] = {}
    BY <2>1, <2>3, <2>4, <1>1 DEF Trim, CatalogTypeOK
  <2> QED BY <1>1, <2>2, <2>4, <2>5 DEF CatalogStep
<1> QED BY <1>2, <1>4, <1>5, <1>6, <1>7, <1>8
        DEF RunJob, Prolog, SetSize, Cancel, ReadSize, RegisterRefused, Get, GetAgain, Calm, Hit,
            ReplicateProduct, NothingTrimmed, CallFails, TrimFails, Destroy, stored

(* Any step of the system.                                                 *)
LEMMA StepCatalog ==
  ASSUME CatalogInv, [Next]_vars
  PROVE  CatalogStep
<1>1. CASE UNCHANGED vars
  BY <1>1, SameCatalog DEF vars, stored, CatalogInv, TypeOK, MovesTypeOK, CatalogTypeOK
<1>2. CASE Next
  BY <1>2, MoverCatalog, JobCatalog DEF Next, MoveStep
<1> QED BY <1>1, <1>2

-----------------------------------------------------------------------------
(* The state of the movers and of the jobs.                                *)
MoversOK ==
  /\ mpc \in [Movers -> {"idle", "rows", "trim", "raised", "failed"}]
  /\ call \in [Movers -> Call \cup {NoCall}]
  /\ todo \in [Movers -> SUBSET Row] /\ row \in [Movers -> SUBSET Row]
  /\ replicated \in [Movers -> SUBSET Objects]
  /\ status \in [Movers -> {"unset", "true"}]
  /\ moves \in 0 .. MaxMoves
  /\ \A m \in Movers :
       IF mpc[m] = "trim" THEN \E w \in row[m] : row[m] = {w} /\ w.resc = call[m].from
       ELSE row[m] = {}
  /\ \A m \in Movers : mpc[m] # "idle" => call[m] \in Call

JobsOK ==
  /\ size \in Launches
  /\ jpc \in [Jobs -> {"queued", "script", "sleep", "convert", "epilog", "register",
                       "register_any", "get", "replicate", "get_again", "trim",
                       "destroy", "done"}]
  /\ desc \in [Jobs -> SUBSET {"put", "uuid", "size"}]
  /\ tmp \in [Jobs -> SUBSET {"desc", "link"}]
  /\ snap \in [Jobs -> SUBSET Replica]
  /\ hit \in [Jobs -> BOOLEAN] /\ spoiled \subseteq Objects

(* The rows of a list are rows of replicas.                                *)
LEMMA ListedRows ==
  ASSUME CatalogTypeOK, NEW os \in SUBSET Objects, NEW from
  PROVE  /\ Listed(os, from) \in SUBSET Row
         /\ \A w \in Listed(os, from) : replicas[w.obj] # {} /\ from \in {Anywhere, w.resc}
<1> SUFFICES ASSUME NEW w \in Listed(os, from)
             PROVE  w \in Row /\ replicas[w.obj] # {} /\ from \in {Anywhere, w.resc}
  OBVIOUS
<1>1. PICK o \in os : w \in RowsOf(o, {x \in replicas[o] : from \in {Anywhere, x.resc}})
  BY DEF Listed
<1>2. PICK x \in replicas[o] :
        from \in {Anywhere, x.resc} /\ w = [obj |-> o, num |-> x.num, resc |-> x.resc]
  BY <1>1 DEF RowsOf
<1>3. x \in Replica
  BY DEF CatalogTypeOK
<1> QED BY <1>2, <1>3 DEF Replica, Row

(* A mover keeps the types of the state of the movers.                     *)
LEMMA MoverTypes ==
  ASSUME CatalogTypeOK, MoversOK, NEW m \in Movers, Move(m)
  PROVE  MoversOK'
<1> USE DEF MoversOK
<1>1. ASSUME StartMove(m) PROVE MoversOK'
  <2>1. PICK c \in Call, os \in {{o} : o \in Objects} \cup {Objects} :
          /\ call' = [call EXCEPT ![m] = c]
          /\ todo' = [todo EXCEPT ![m] = Listed(os, c.from)]
    BY <1>1 DEF StartMove
  <2>2. os \in SUBSET Objects
    OBVIOUS
  <2>3. Listed(os, c.from) \in SUBSET Row
    BY <2>2, ListedRows
  <2>4. moves' \in 0 .. MaxMoves
    BY <1>1, MovesAssumption DEF StartMove
  <2> QED BY <1>1, <2>1, <2>3, <2>4 DEF StartMove
<1>2. ASSUME AlreadyThere(m) PROVE MoversOK'
  BY <1>2 DEF AlreadyThere, Row
<1>3. ASSUME CopyRow(m) PROVE MoversOK'
  <2>1. PICK w \in todo[m] :
          /\ todo' = [todo EXCEPT ![m] = @ \ {w}]
          /\ replicated' = [replicated EXCEPT ![m] = @ \cup {w.obj}]
          /\ IF call[m].trim /\ w.resc = call[m].from
             THEN mpc' = [mpc EXCEPT ![m] = "trim"] /\ row' = [row EXCEPT ![m] = {w}]
             ELSE UNCHANGED <<mpc, row>>
    BY <1>3 DEF CopyRow, Elsewhere
  <2>2. /\ mpc[m] = "rows" /\ UNCHANGED <<call, moves>>
        /\ status' = [status EXCEPT ![m] = "true"]
    BY <1>3 DEF CopyRow
  <2>3. w \in Row /\ w.obj \in Objects
    BY DEF Row
  <2>4. CASE call[m].trim /\ w.resc = call[m].from
    BY <2>1, <2>2, <2>3, <2>4
  <2>5. CASE ~(call[m].trim /\ w.resc = call[m].from)
    BY <2>1, <2>2, <2>3, <2>5
  <2> QED BY <2>4, <2>5
<1>4. ASSUME CopyRowFails(m) PROVE MoversOK'
  BY <1>4 DEF CopyRowFails
<1>5. ASSUME SkipRow(m) PROVE MoversOK'
  BY <1>5 DEF SkipRow
<1>6. ASSUME RowRaises(m) PROVE MoversOK'
  BY <1>6 DEF RowRaises
<1>7. ASSUME TrimRow(m) PROVE MoversOK'
  BY <1>7 DEF TrimRow
<1>8. ASSUME EndMove(m) PROVE MoversOK'
  BY <1>8 DEF EndMove
<1>9. ASSUME TrimRowFails(m) PROVE MoversOK'
  BY <1>9 DEF TrimRowFails
<1> QED BY <1>1, <1>2, <1>3, <1>4, <1>5, <1>6, <1>7, <1>8, <1>9 DEF Move

(* A job keeps the types of the state of the jobs.                         *)
LEMMA JobTypes ==
  ASSUME CatalogTypeOK, JobsOK, NEW j \in Jobs, RunJob(j) \/ Cancel(j)
  PROVE  JobsOK'
<1>0. size[j] \in Objects /\ replicas[size[j]] \in SUBSET Replica
  BY JobsAssumption DEF JobsOK, CatalogTypeOK
<1> USE DEF JobsOK, Step, Hit, Calm
<1>1. ASSUME Prolog(j) PROVE JobsOK'
  <2>1. UNCHANGED <<size, snap, spoiled>> /\ jpc' = [jpc EXCEPT ![j] = "script"]
    BY <1>1 DEF Prolog
  <2>2. hit' \in [Jobs -> BOOLEAN]
    BY <1>1 DEF Prolog
  <2>3. \E d \in SUBSET {"put", "uuid", "size"} : desc' = [desc EXCEPT ![j] = d]
    BY <1>1 DEF Prolog
  <2>4. \E t \in SUBSET {"desc", "link"} : tmp' = [tmp EXCEPT ![j] = t]
    BY <1>1 DEF Prolog
  <2> QED BY <2>1, <2>2, <2>3, <2>4
<1>2. ASSUME SetSize(j) PROVE JobsOK'
  <2>1. UNCHANGED <<size, tmp, snap, spoiled>> /\ jpc' = [jpc EXCEPT ![j] = "sleep"]
    BY <1>2 DEF SetSize
  <2>2. hit' \in [Jobs -> BOOLEAN]
    BY <1>2 DEF SetSize
  <2>3. desc' \in [Jobs -> SUBSET {"put", "uuid", "size"}]
    BY <1>2 DEF SetSize
  <2> QED BY <2>1, <2>2, <2>3
<1>3. ASSUME StartConvert(j) \/ EndConvert(j) \/ RegisterRefused(j) \/ ReplicateProduct(j)
               \/ TrimProduct(j) \/ NothingTrimmed(j)
      PROVE  JobsOK'
  <2>1. /\ UNCHANGED <<size, desc, tmp, snap, hit, spoiled>>
        /\ \E to \in {"convert", "epilog", "destroy", "get_again"} : jpc' = [jpc EXCEPT ![j] = to]
    BY <1>3 DEF StartConvert, EndConvert, RegisterRefused, ReplicateProduct, TrimProduct, NothingTrimmed, CallFails
  <2> QED BY <2>1
<1>4. ASSUME Cancel(j) PROVE JobsOK'
  BY <1>0, <1>4 DEF Cancel
<1>5. ASSUME ReadSize(j) PROVE JobsOK'
  BY <1>5 DEF ReadSize
<1>6. ASSUME Register(j) PROVE JobsOK'
  <2>1. AfterRegister(j) \in {"get", "destroy"}
    BY DEF AfterRegister
  <2>2. UNCHANGED <<size, desc, tmp, snap>> /\ jpc' = [jpc EXCEPT ![j] = AfterRegister(j)]
    BY <1>6 DEF Register
  <2>3. hit' \in [Jobs -> BOOLEAN] /\ spoiled' \subseteq Objects
    BY <1>6 DEF Register, Matching
  <2> QED BY <2>1, <2>2, <2>3
<1>7. ASSUME Get(j) \/ GetAgain(j) PROVE JobsOK'
  <2>1. /\ UNCHANGED <<size, desc, tmp, hit, spoiled>>
        /\ \E to \in {"replicate", "trim"} : jpc' = [jpc EXCEPT ![j] = to]
        /\ snap' = [snap EXCEPT ![j] = replicas[size[j]]]
    BY <1>7 DEF Get, GetAgain
  <2> QED BY <1>0, <2>1
<1>8. ASSUME ReplicateProductFails(j) \/ CallFails(j) PROVE JobsOK'
  BY <1>8 DEF ReplicateProductFails, CallFails
<1>9. ASSUME Destroy(j) PROVE JobsOK'
  <2>1. /\ UNCHANGED <<size, spoiled>> /\ jpc' = [jpc EXCEPT ![j] = "done"]
        /\ snap' = [snap EXCEPT ![j] = {}]
    BY <1>9 DEF Destroy
  <2>2. hit' \in [Jobs -> BOOLEAN] /\ desc' \in [Jobs -> SUBSET {"put", "uuid", "size"}]
    BY <1>9 DEF Destroy
  <2>3. tmp' \in [Jobs -> SUBSET {"desc", "link"}]
    <3>1. \E t \in SUBSET {"desc", "link"} : tmp' = [tmp EXCEPT ![j] = t]
      BY <1>9 DEF Destroy
    <3> QED BY <3>1
  <2> QED BY <2>1, <2>2, <2>3
<1> QED BY <1>1, <1>2, <1>3, <1>4, <1>5, <1>6, <1>7, <1>8, <1>9 DEF RunJob

(* Every step keeps the invariant of the catalog.                          *)
LEMMA CatalogNext ==
  ASSUME CatalogInv, [Next]_vars
  PROVE  CatalogInv'
<1>1. CatalogTypeOK /\ MoversOK /\ JobsOK
  BY DEF CatalogInv, TypeOK, MovesTypeOK, CatalogTypeOK, MoversOK, JobsOK
<1>2. CatalogStep
  BY StepCatalog
<1>3. CatalogTypeOK' /\ faults' \in 0 .. MaxFaults
  BY <1>2 DEF CatalogStep, CatalogTypeOK, Keeps
<1>4. MoversOK'
  <2>1. CASE UNCHANGED mover
    BY <1>1, <2>1 DEF MoversOK, mover
  <2>2. UNCHANGED mover \/ \E m \in Movers : Move(m)
    BY DEF Next, MoveStep, vars, RunJob, Cancel, Prolog, SetSize, StartConvert, EndConvert, ReadSize,
           Register, RegisterRefused, Get, ReplicateProduct, ReplicateProductFails, GetAgain,
           TrimProduct, NothingTrimmed, CallFails, Destroy
  <2> QED BY <1>1, <2>1, <2>2, MoverTypes
<1>5. JobsOK'
  <2>1. CASE UNCHANGED <<size, job>>
    BY <1>1, <2>1 DEF JobsOK, job
  <2>2. UNCHANGED <<size, job>> \/ \E j \in Jobs : RunJob(j) \/ Cancel(j)
    BY DEF Next, MoveStep, vars
  <2> QED BY <1>1, <2>1, <2>2, JobTypes
<1>6. \A o \in Objects : replicas[o] # {} => replicas'[o] # {}
  BY <1>2 DEF CatalogStep, Keeps
<1>7. \A m \in Movers : \A w \in todo'[m] : replicas'[w.obj] # {}
  <2> SUFFICES ASSUME NEW m \in Movers, NEW w \in todo'[m] PROVE replicas'[w.obj] # {}
    OBVIOUS
  <2>1. w \in Row /\ w.obj \in Objects
    BY <1>4 DEF MoversOK, Row
  <2>2. CASE w \in todo[m]
    BY <1>6, <2>1, <2>2 DEF CatalogInv
  <2>3. CASE w \notin todo[m]
    <3>1. todo'[m] \subseteq todo[m] \/ StartMove(m)
      <4>1. ASSUME NEW k \in Movers, Move(k), k # m PROVE todo'[m] = todo[m]
        BY <1>1, <4>1 DEF MoversOK, Move, StartMove, AlreadyThere, CopyRow, CopyRowFails, SkipRow,
                          RowRaises, TrimRow, TrimRowFails, EndMove
      <4>2. ASSUME Move(m), ~StartMove(m) PROVE todo'[m] \subseteq todo[m]
        BY <1>1, <4>2 DEF MoversOK, Move, AlreadyThere, CopyRow, CopyRowFails, SkipRow,
                          RowRaises, TrimRow, TrimRowFails, EndMove
      <4>3. UNCHANGED todo \/ \E k \in Movers : Move(k)
        BY DEF Next, MoveStep, vars, mover, RunJob, Cancel, Prolog, SetSize, StartConvert, EndConvert,
               ReadSize, Register, RegisterRefused, Get, ReplicateProduct, ReplicateProductFails,
               GetAgain, TrimProduct, NothingTrimmed, CallFails, Destroy
      <4> QED BY <4>1, <4>2, <4>3
    <3>2. StartMove(m)
      BY <2>3, <3>1
    <3>3. PICK c \in Call, os \in {{o} : o \in Objects} \cup {Objects} :
            todo' = [todo EXCEPT ![m] = Listed(os, c.from)]
      BY <3>2 DEF StartMove
    <3>4. os \in SUBSET Objects /\ w \in Listed(os, c.from)
      BY <1>1, <3>3 DEF MoversOK
    <3> QED BY <1>1, <1>6, <2>1, <3>4, ListedRows
  <2> QED BY <2>2, <2>3
<1>8. \A j \in Jobs : jpc'[j] \in {"get", "replicate", "get_again", "trim"} => replicas'[size'[j]] # {}
  <2> SUFFICES ASSUME NEW j \in Jobs, jpc'[j] \in {"get", "replicate", "get_again", "trim"}
               PROVE  replicas'[size'[j]] # {}
    OBVIOUS
  <2>1. size' = size /\ size[j] \in Objects
    BY <1>1, JobsAssumption
       DEF JobsOK, Next, MoveStep, vars, RunJob, Cancel, Prolog, SetSize, StartConvert, EndConvert,
           ReadSize, Register, RegisterRefused, Get, ReplicateProduct, ReplicateProductFails,
           GetAgain, TrimProduct, NothingTrimmed, CallFails, Destroy
  <2>2. CASE jpc[j] \in {"get", "replicate", "get_again", "trim"}
    BY <1>6, <2>1, <2>2 DEF CatalogInv
  <2>3. CASE jpc[j] \notin {"get", "replicate", "get_again", "trim"}
    <3>1. Register(j) /\ jpc[j] = "register"
      <4>1. ASSUME NEW k \in Jobs, RunJob(k) \/ Cancel(k), k # j PROVE jpc'[j] = jpc[j]
        BY <1>1, <4>1 DEF JobsOK, RunJob, Cancel, Step, Prolog, SetSize, StartConvert, EndConvert,
           ReadSize, Register, RegisterRefused, Get, ReplicateProduct, ReplicateProductFails,
           GetAgain, TrimProduct, NothingTrimmed, CallFails, Destroy
      <4>2. ASSUME RunJob(j) \/ Cancel(j), ~Register(j)
            PROVE  jpc'[j] \notin {"get", "replicate", "get_again", "trim"}
                     \/ jpc[j] \in {"get", "replicate", "get_again", "trim"}
        BY <1>1, <4>2 DEF JobsOK, RunJob, Cancel, Step, Prolog, SetSize, StartConvert, EndConvert,
           ReadSize, RegisterRefused, Get, ReplicateProduct, ReplicateProductFails,
           GetAgain, TrimProduct, NothingTrimmed, CallFails, Destroy
      <4>3. Register(j) => jpc[j] = "register" \/ jpc'[j] = "destroy"
        BY <1>1 DEF JobsOK, Register, AfterRegister
      <4>4. UNCHANGED jpc \/ \E k \in Jobs : RunJob(k) \/ Cancel(k)
        BY DEF Next, MoveStep, vars, job
      <4> QED BY <2>3, <4>1, <4>2, <4>3, <4>4
    <3>2. PICK p \in Matching(j) : Registered(p, "img") \/ Registered(p, "demo")
      BY <3>1 DEF Register
    <3>3. p = size[j]
      BY <3>1 DEF Matching
    <3> QED BY <1>1, <2>1, <3>2, <3>3 DEF Registered, CatalogTypeOK
  <2> QED BY <2>2, <2>3
<1>9. \A o \in Objects : HasFile(replicas'[o]) => file'[o] # "none"
  <2> SUFFICES ASSUME NEW o \in Objects, HasFile(replicas'[o]), file'[o] = "none" PROVE FALSE
    OBVIOUS
  <2>1. file[o] = "none" /\ (HasFile(replicas[o]) \/ file[o] # "none")
    BY <1>2 DEF CatalogStep, Keeps
  <2> QED BY <2>1 DEF CatalogInv
<1> QED BY <1>3, <1>4, <1>5, <1>7, <1>8, <1>9
        DEF CatalogInv, HasFile, TypeOK, MovesTypeOK, CatalogTypeOK, MoversOK, JobsOK

(* The invariant of the catalog holds in every state.                      *)
THEOREM CatalogInvariant == Spec => []CatalogInv
<1>1. Init => CatalogInv
  <2> SUFFICES ASSUME Init PROVE CatalogInv
    OBVIOUS
  <2>1. \A o \in Objects : replicas[o] = {} /\ WellFormed({}) /\ ~HasFile({})
    BY DEF Init, WellFormed, HasFile
  <2>2. MovesTypeOK
    BY MovesAssumption DEF Init, MoversInit, MovesTypeOK
  <2>3. TypeOK
    BY <2>2 DEF Init, TypeOK
  <2> QED BY <2>1, <2>3 DEF Init, MoversInit, CatalogInv
<1>2. CatalogInv /\ [Next]_vars => CatalogInv'
  BY CatalogNext
<1> QED BY <1>1, <1>2, PTL DEF Spec

(* Every variable keeps its type.                                          *)
THEOREM TypeCorrect == Spec => []TypeOK
<1>1. CatalogInv => TypeOK
  BY DEF CatalogInv
<1> QED BY <1>1, CatalogInvariant, PTL

-----------------------------------------------------------------------------
(* Only what a mover itself does changes its list and what it makes of it. *)
LEMMA MoverAlone ==
  ASSUME CatalogInv, [Next]_vars, NEW m \in Movers, ~Move(m)
  PROVE  /\ mpc'[m] = mpc[m] /\ call'[m] = call[m] /\ todo'[m] = todo[m]
         /\ replicated'[m] = replicated[m] /\ status'[m] = status[m]
<1>1. MoversOK
  BY DEF CatalogInv, TypeOK, MovesTypeOK, MoversOK
<1>2. ASSUME NEW k \in Movers, Move(k), k # m
      PROVE  /\ mpc'[m] = mpc[m] /\ call'[m] = call[m] /\ todo'[m] = todo[m]
             /\ replicated'[m] = replicated[m] /\ status'[m] = status[m]
  BY <1>1, <1>2 DEF MoversOK, Move, StartMove, AlreadyThere, CopyRow, CopyRowFails, SkipRow,
                    RowRaises, TrimRow, TrimRowFails, EndMove
<1>3. UNCHANGED mover \/ \E k \in Movers : Move(k)
  BY DEF Next, MoveStep, vars, RunJob, Cancel, Prolog, SetSize, StartConvert, EndConvert,
         ReadSize, Register, RegisterRefused, Get, ReplicateProduct, ReplicateProductFails,
         GetAgain, TrimProduct, NothingTrimmed, CallFails, Destroy
<1> QED BY <1>2, <1>3 DEF mover

(* One resource has one replica of an object, and so a list of one         *)
(* resource one row.                                                       *)
LEMMA OneRow ==
  ASSUME CatalogTypeOK, NEW os \in SUBSET Objects, NEW from, from # Anywhere,
         NEW v \in Listed(os, from), NEW w \in Listed(os, from), v.obj = w.obj
  PROVE  v = w
<1>1. PICK o \in os : v \in RowsOf(o, {x \in replicas[o] : from \in {Anywhere, x.resc}})
  BY DEF Listed
<1>2. PICK x \in replicas[o] : x.resc = from /\ v = [obj |-> o, num |-> x.num, resc |-> x.resc]
  BY <1>1 DEF RowsOf
<1>3. PICK p \in os : w \in RowsOf(p, {y \in replicas[p] : from \in {Anywhere, y.resc}})
  BY DEF Listed
<1>4. PICK y \in replicas[p] : y.resc = from /\ w = [obj |-> p, num |-> y.num, resc |-> y.resc]
  BY <1>3 DEF RowsOf
<1>5. p = o
  BY <1>2, <1>4
<1>6. x = y
  BY <1>2, <1>4, <1>5 DEF CatalogTypeOK, WellFormed
<1> QED BY <1>2, <1>4, <1>5, <1>6

(* A mover that takes a row out of its list, done with its object or not.  *)
LEMMA RowTaken ==
  ASSUME MoversOK, NEW m \in Movers, OneRowEach(m), NEW w \in todo[m],
         call' = call, todo' = [todo EXCEPT ![m] = @ \ {w}], mpc'[m] # "raised",
         replicated' = replicated \/ replicated' = [replicated EXCEPT ![m] = @ \cup {w.obj}]
  PROVE  OneRowEach(m)'
  BY DEF MoversOK, OneRowEach

(* A mover handles each object once.                                       *)
LEMMA MoverInvNext ==
  ASSUME CatalogInv, MovesInv, [Next]_vars
  PROVE  MovesInv'
<1>1. CatalogTypeOK /\ MoversOK
  BY DEF CatalogInv, TypeOK, MovesTypeOK, CatalogTypeOK, MoversOK
<1>2. SUFFICES ASSUME NEW m \in Movers PROVE (OneRowEach(m) /\ (mpc[m] = "idle" => replicated[m] = {}))'
  BY DEF MovesInv
<1>3. OneRowEach(m) /\ (mpc[m] = "idle" => replicated[m] = {})
  BY DEF MovesInv
<1>4. CASE ~Move(m)
  BY <1>3, <1>4, MoverAlone DEF OneRowEach
<1>5. CASE Move(m)
  <2>1. mpc'[m] = "idle" => replicated'[m] = {}
    BY <1>1, <1>5 DEF MoversOK, Move, StartMove, AlreadyThere, CopyRow, CopyRowFails, SkipRow,
                      RowRaises, TrimRow, TrimRowFails, EndMove
  <2>2. ASSUME StartMove(m) PROVE OneRowEach(m)'
    <3>1. PICK c \in Call, os \in {{o} : o \in Objects} \cup {Objects} :
            /\ call' = [call EXCEPT ![m] = c]
            /\ todo' = [todo EXCEPT ![m] = Listed(os, c.from)]
      BY <2>2 DEF StartMove
    <3>2. os \in SUBSET Objects
      OBVIOUS
    <3>3. call'[m] = c /\ todo'[m] = Listed(os, c.from) /\ mpc'[m] = "rows" /\ replicated'[m] = {}
      BY <1>1, <1>3, <2>2, <3>1 DEF MoversOK, StartMove
    <3> QED BY <1>1, <3>2, <3>3, OneRow DEF OneRowEach
  <2>3. ASSUME AlreadyThere(m) \/ CopyRow(m) \/ SkipRow(m) PROVE OneRowEach(m)'
    <3>1. /\ call' = call
          /\ \E w \in todo[m] :
               /\ todo' = [todo EXCEPT ![m] = @ \ {w}]
               /\ \/ replicated' = replicated
                  \/ replicated' = [replicated EXCEPT ![m] = @ \cup {w.obj}]
      BY <2>3 DEF AlreadyThere, CopyRow, SkipRow, Elsewhere
    <3>2. mpc'[m] # "raised"
      BY <1>1, <2>3 DEF MoversOK, AlreadyThere, CopyRow, SkipRow
    <3> QED BY <1>1, <1>3, <3>1, <3>2, RowTaken
  <2>4. ASSUME CopyRowFails(m) \/ TrimRow(m) \/ TrimRowFails(m) PROVE OneRowEach(m)'
    BY <1>1, <1>3, <2>4 DEF MoversOK, OneRowEach, CopyRowFails, TrimRow, TrimRowFails
  <2>5. ASSUME RowRaises(m) PROVE OneRowEach(m)'
    <3>1. call[m].from = Anywhere
      BY <1>3, <2>5 DEF RowRaises, Elsewhere, OneRowEach
    <3> QED BY <2>5, <3>1 DEF RowRaises, OneRowEach
  <2>6. ASSUME EndMove(m) PROVE OneRowEach(m)'
    BY <1>1, <2>6 DEF EndMove, MoversOK, NoCall, OneRowEach
  <2> QED BY <1>5, <2>1, <2>2, <2>3, <2>4, <2>5, <2>6 DEF Move
<1> QED BY <1>4, <1>5

(* A move away from a named resource handles each object it lists once.    *)
THEOREM MovesHandleAll == Spec => []MovesComplete
<1>1. Init => MovesInv
  BY DEF Init, MoversInit, MovesInv, OneRowEach, NoCall
<1>2. CatalogInv /\ MovesInv /\ [Next]_vars => MovesInv'
  BY MoverInvNext
<1>3. MovesInv => MovesComplete
  BY DEF MovesInv, OneRowEach, MovesComplete
<1> QED BY <1>1, <1>2, <1>3, CatalogInvariant, PTL DEF Spec

-----------------------------------------------------------------------------
(* Only what a job itself does changes how far it is, and what it was hit  *)
(* by is not forgotten.                                                    *)
LEMMA JobAlone ==
  ASSUME CatalogInv, [Next]_vars
  PROVE  /\ size' = size /\ spoiled \subseteq spoiled' /\ moves \in Nat /\ moves' \in Nat /\ moves <= moves'
         /\ \A j \in Jobs : ~(RunJob(j) \/ Cancel(j)) =>
              /\ jpc'[j] = jpc[j] /\ desc'[j] = desc[j] /\ tmp'[j] = tmp[j]
              /\ snap'[j] = snap[j] /\ hit'[j] = hit[j]
         /\ \A j \in Jobs : hit[j] => hit'[j]
<1>1. JobsOK /\ moves \in Nat
  BY MovesAssumption DEF CatalogInv, TypeOK, MovesTypeOK, JobsOK
<1>2. size' = size /\ spoiled \subseteq spoiled'
  BY DEF Next, MoveStep, vars, job, RunJob, Cancel, Prolog, SetSize, StartConvert, EndConvert,
         ReadSize, Register, RegisterRefused, Get, ReplicateProduct, ReplicateProductFails,
         GetAgain, TrimProduct, NothingTrimmed, CallFails, Destroy
<1>3. moves' \in {moves, moves + 1}
  BY DEF Next, MoveStep, vars, mover, RunJob, Cancel, Prolog, SetSize, StartConvert, EndConvert,
         ReadSize, Register, RegisterRefused, Get, ReplicateProduct, ReplicateProductFails,
         GetAgain, TrimProduct, NothingTrimmed, CallFails, Destroy, Move, StartMove, AlreadyThere, CopyRow,
         CopyRowFails, SkipRow, RowRaises, TrimRow, TrimRowFails, EndMove
<1>4. ASSUME NEW j \in Jobs, NEW k \in Jobs, RunJob(k) \/ Cancel(k), k # j
      PROVE  /\ jpc'[j] = jpc[j] /\ desc'[j] = desc[j] /\ tmp'[j] = tmp[j]
             /\ snap'[j] = snap[j] /\ hit'[j] = hit[j]
  BY <1>1, <1>4 DEF JobsOK, RunJob, Cancel, Step, Hit, Calm, Prolog, SetSize, StartConvert, EndConvert,
         ReadSize, Register, RegisterRefused, Get, ReplicateProduct, ReplicateProductFails,
         GetAgain, TrimProduct, NothingTrimmed, CallFails, Destroy
<1>5. UNCHANGED job \/ \E k \in Jobs : RunJob(k) \/ Cancel(k)
  BY DEF Next, MoveStep, vars
<1>6. ASSUME NEW j \in Jobs, RunJob(j) \/ Cancel(j), hit[j] PROVE hit'[j]
  BY <1>1, <1>6 DEF JobsOK, RunJob, Cancel, Hit, Calm, Prolog, SetSize, StartConvert, EndConvert,
         ReadSize, Register, RegisterRefused, Get, ReplicateProduct, ReplicateProductFails,
         GetAgain, TrimProduct, NothingTrimmed, CallFails, Destroy
<1>7. \A j \in Jobs : ~(RunJob(j) \/ Cancel(j)) =>
              /\ jpc'[j] = jpc[j] /\ desc'[j] = desc[j] /\ tmp'[j] = tmp[j]
              /\ snap'[j] = snap[j] /\ hit'[j] = hit[j]
  BY <1>4, <1>5 DEF job
<1>8. \A j \in Jobs : hit[j] => hit'[j]
  BY <1>6, <1>7
<1> QED BY <1>1, <1>2, <1>3, <1>7, <1>8

(* How a job comes to each part of its way.                                *)
LEMMA JobWay ==
  ASSUME CatalogInv, [Next]_vars, NEW j \in Jobs
  PROVE  /\ jpc'[j] \in Unmade => jpc[j] \in Unmade
         /\ jpc'[j] = "convert" => jpc[j] \in Unmade \cup {"convert"}
         /\ jpc'[j] \notin Unmade \cup {"convert"} =>
              jpc[j] \notin Unmade \cup {"convert"} \/ EndConvert(j) \/ Cancel(j)
<1>1. JobsOK
  BY DEF CatalogInv, TypeOK, JobsOK
<1>2. CASE ~(RunJob(j) \/ Cancel(j))
  BY <1>2, JobAlone
<1>3. CASE RunJob(j) \/ Cancel(j)
  BY <1>1, <1>3 DEF Unmade, JobsOK, RunJob, Cancel, Step, Prolog, SetSize, StartConvert, EndConvert,
         ReadSize, Register, AfterRegister, RegisterRefused, Get, ReplicateProduct,
         ReplicateProductFails, GetAgain, TrimProduct, NothingTrimmed, CallFails, Destroy
<1> QED BY <1>2, <1>3

(* The product of a job that is neither shared nor spoiled changes only as *)
(* its job goes on.                                                        *)
LEMMA OwnProduct ==
  ASSUME CatalogInv, CopiesInv, [Next]_vars, NEW o \in Objects, Own(o)'
  PROVE  /\ Own(o)
         /\ \A j, k \in Jobs : size[j] = o /\ size[k] = o => j = k
         /\ file[o] = "part" => replicas'[o] = {} \/ replicas[o] # {}
         /\ \A j \in Jobs : size[j] = o /\ jpc[j] \in Unmade \cup {"convert"} => replicas'[o] = {}
<1>1. size' = size /\ spoiled \subseteq spoiled'
  BY JobAlone
<1>2. Own(o)
  BY <1>1 DEF Own, Shared
<1>3. \A j, k \in Jobs : size[j] = o /\ size[k] = o => j = k
  BY <1>2 DEF Own, Shared
<1>4. replicas[o] = {} /\ replicas'[o] # {} =>
        \E j \in Jobs : size[j] = o /\ jpc[j] \in {"register", "register_any"}
  BY StepCatalog DEF CatalogStep, Own, Register
<1>5. file[o] = "part" => replicas'[o] = {} \/ replicas[o] # {}
  BY <1>2, <1>4 DEF CopiesInv, Unmade
<1>6. ASSUME NEW j \in Jobs, size[j] = o, jpc[j] \in Unmade \cup {"convert"}
      PROVE  replicas'[o] = {}
  <2>1. replicas[o] = {}
    BY <1>2, <1>6 DEF CopiesInv
  <2> QED BY <1>3, <1>4, <1>6, <2>1 DEF Unmade
<1> QED BY <1>2, <1>3, <1>5, <1>6

(* Every step keeps what is stored of the products in order.               *)
LEMMA CopiesNext ==
  ASSUME CatalogInv, CopiesInv, [Next]_vars
  PROVE  CopiesInv'
<1>0. CatalogTypeOK /\ JobsOK
  BY DEF CatalogInv, TypeOK, MovesTypeOK, CatalogTypeOK, JobsOK
<1> SUFFICES ASSUME NEW o \in Objects, Own(o)'
             PROVE  /\ NoPart(replicas[o])'
                    /\ replicas'[o] # {} => file'[o] # "part"
                    /\ \A j \in Jobs : size'[j] = o =>
                         /\ jpc'[j] \in Unmade \cup {"convert"} => replicas'[o] = {}
                         /\ jpc'[j] \in Unmade => file'[o] = "none"
                         /\ jpc'[j] \notin Unmade \cup {"convert"} => file'[o] # "part"
  BY DEF CopiesInv
<1>1. /\ Own(o)
      /\ \A j, k \in Jobs : size[j] = o /\ size[k] = o => j = k
      /\ file[o] = "part" => replicas'[o] = {} \/ replicas[o] # {}
      /\ \A j \in Jobs : size[j] = o /\ jpc[j] \in Unmade \cup {"convert"} => replicas'[o] = {}
  BY OwnProduct
<1>2. /\ NoPart(replicas[o])
      /\ replicas[o] # {} => file[o] # "part"
      /\ \A j \in Jobs : size[j] = o =>
           /\ jpc[j] \in Unmade \cup {"convert"} => replicas[o] = {}
           /\ jpc[j] \in Unmade => file[o] = "none"
           /\ jpc[j] \notin Unmade \cup {"convert"} => file[o] # "part"
  BY <1>1 DEF CopiesInv
<1>3. /\ NoPart(replicas[o]) /\ file[o] # "part" => NoPart(replicas'[o])
      /\ file'[o] # file[o] =>
            \/ file'[o] = "none" /\ replicas[o] # {}
            \/ \E j \in Jobs : size[j] = o /\ (StartConvert(j) \/ EndConvert(j))
  BY StepCatalog DEF CatalogStep, Keeps
<1>4. size' = size
  BY JobAlone
<1>5. \A j \in Jobs : size[j] = o /\ StartConvert(j) => jpc[j] \in Unmade /\ jpc'[j] = "convert"
  BY <1>0 DEF StartConvert, Step, Unmade, JobsOK
<1>6. \A j \in Jobs : size[j] = o /\ EndConvert(j) => jpc[j] = "convert" /\ file'[o] # "part"
  BY <1>0 DEF EndConvert, Step, CatalogTypeOK
<1>7. NoPart(replicas'[o])
  <2>1. replicas'[o] = {} => NoPart(replicas'[o])
    BY DEF NoPart, Good
  <2> QED BY <1>1, <1>2, <1>3, <2>1
<1>8. replicas'[o] # {} => file'[o] # "part"
  BY <1>1, <1>2, <1>3, <1>5, <1>6
<1>9. ASSUME NEW j \in Jobs, size[j] = o
      PROVE  /\ jpc'[j] \in Unmade \cup {"convert"} => replicas'[o] = {}
             /\ jpc'[j] \in Unmade => file'[o] = "none"
             /\ jpc'[j] \notin Unmade \cup {"convert"} => file'[o] # "part"
  <2>1. /\ jpc'[j] \in Unmade => jpc[j] \in Unmade
        /\ jpc'[j] = "convert" => jpc[j] \in Unmade \cup {"convert"}
        /\ jpc'[j] \notin Unmade \cup {"convert"} =>
              jpc[j] \notin Unmade \cup {"convert"} \/ EndConvert(j) \/ Cancel(j)
    BY JobWay
  <2>2. jpc'[j] \in Unmade \cup {"convert"} => replicas'[o] = {}
    BY <1>1, <1>9, <2>1 DEF Unmade
  <2>3. \A k \in Jobs : size[k] = o /\ (StartConvert(k) \/ EndConvert(k)) => k = j
    BY <1>1, <1>9
  <2>4. jpc'[j] \in Unmade => file'[o] = "none"
    BY <1>2, <1>3, <1>5, <1>6, <1>9, <2>1, <2>3 DEF Unmade
  <2>5. Cancel(j) => file'[o] # "part"
    <3>1. Cancel(j) => jpc[j] \in Unmade \/ o \in spoiled'
      BY <1>9 DEF Cancel, Unmade
    <3>2. Cancel(j) => file' = file
      BY DEF Cancel, stored
    <3> QED BY <1>2, <1>9, <3>1, <3>2 DEF Own
  <2>6. jpc'[j] \notin Unmade \cup {"convert"} => file'[o] # "part"
    BY <1>2, <1>3, <1>5, <1>6, <1>9, <2>1, <2>3, <2>5
  <2> QED BY <2>2, <2>4, <2>6
<1> QED BY <1>4, <1>7, <1>8, <1>9

(* What is stored of the products is in order in every state.              *)
THEOREM CopiesInvariant == Spec => []CopiesInv
<1>1. Init => CopiesInv
  BY DEF Init, CopiesInv, NoPart, Good, Unmade
<1>2. CatalogInv /\ CopiesInv /\ [Next]_vars => CopiesInv'
  BY CopiesNext
<1> QED BY <1>1, <1>2, CatalogInvariant, PTL DEF Spec

(* A copy of a product is whole, unless its job was cancelled while it     *)
(* wrote, shared it with another, or another registered it.                *)
THEOREM CopiesAreWhole == Spec => []CopiesWhole
<1>1. CopiesInv => CopiesWhole
  BY DEF CopiesInv, CopiesWhole, Own, NoPart
<1> QED BY <1>1, CopiesInvariant, PTL

(* A product in the catalog keeps a whole good replica there: the          *)
(* invariants of the catalog and of the copies together, and no step       *)
(* leaves an object that has replicas without any.                         *)
THEOREM ProductsKept == Spec => WholeKept
<1>1. ASSUME CatalogInv, CatalogInv', CopiesInv', [Next]_vars
      PROVE  \A o \in Objects : replicas[o] # {} => (o \in spoiled \/ Shared(o) \/ Whole(o))'
  <2> SUFFICES ASSUME NEW o \in Objects, replicas[o] # {}, Own(o)'
               PROVE  Whole(o)'
    BY DEF Own
  <2>1. WellFormed(replicas'[o]) /\ replicas'[o] # {}
    BY <1>1, StepCatalog DEF CatalogStep, Keeps
  <2>2. PICK x \in Good(replicas'[o]) : x \in Replica
    BY <2>1 DEF WellFormed, Good
  <2>3. x.data # "part" /\ file'[o] # "part" /\ (x.data = "file" => file'[o] # "none")
    BY <1>1, <2>1, <2>2 DEF CopiesInv, NoPart, CatalogInv, HasFile, Good
  <2>4. x.data \in {"part", "whole", "file"} /\ file'[o] \in {"part", "whole", "none"}
    BY <1>1, <2>2 DEF Replica, Data, CatalogInv, TypeOK, MovesTypeOK
  <2> QED BY <2>2, <2>3, <2>4 DEF Whole, Content
<1>2. CatalogInv /\ CatalogInv' /\ CopiesInv' /\ [Next]_vars
        => [\A o \in Objects : replicas[o] # {} => (o \in spoiled \/ Shared(o) \/ Whole(o))']_vars
  BY <1>1
<1> QED BY <1>2, CatalogInvariant, CopiesInvariant, PTL DEF Spec, WholeKept

-----------------------------------------------------------------------------
(* A job that nothing fails in keeps its descriptor and link until it      *)
(* destroys them.                                                          *)
LEMMA DescNext ==
  ASSUME CatalogInv, DescInv, [Next]_vars
  PROVE  DescInv'
<1>0. JobsOK
  BY DEF CatalogInv, TypeOK, JobsOK
<1> DEFINE Tidy(j) == /\ jpc[j] # "register_any"
                      /\ jpc[j] = "script" => desc[j] = {"put", "uuid"}
                      /\ jpc[j] \notin {"queued", "script", "done"} => desc[j] = {"put", "uuid", "size"}
                      /\ jpc[j] \notin {"queued", "done"} => tmp[j] = {"desc", "link"}
                      /\ jpc[j] = "done" => desc[j] = {} /\ tmp[j] = {}
<1> SUFFICES ASSUME NEW j \in Jobs, ~hit'[j] PROVE Tidy(j)'
  BY DEF DescInv
<1>1. ~hit[j]
  BY JobAlone
<1>2. Tidy(j)
  BY <1>1 DEF DescInv
<1>3. CASE ~(RunJob(j) \/ Cancel(j))
  BY <1>2, <1>3, JobAlone
<1>4. ~Hit(j)
  BY <1>0 DEF Hit, JobsOK
<1>5. ASSUME Prolog(j) PROVE Tidy(j)'
  <2>1. /\ desc' = [desc EXCEPT ![j] = {"put", "uuid"}]
        /\ tmp' = [tmp EXCEPT ![j] = {"desc", "link"}]
        /\ jpc' = [jpc EXCEPT ![j] = "script"]
    BY <1>4, <1>5 DEF Prolog, Step
  <2> QED BY <1>0, <2>1 DEF JobsOK
<1>6. ASSUME SetSize(j) PROVE Tidy(j)'
  <2>1. /\ desc' = [desc EXCEPT ![j] = IF TestDesc(j) THEN @ \cup {"size"} ELSE @]
        /\ jpc[j] = "script" /\ jpc' = [jpc EXCEPT ![j] = "sleep"] /\ tmp' = tmp
    BY <1>4, <1>6 DEF SetSize, Step
  <2>2. TestDesc(j)
    BY <1>2, <2>1 DEF TestDesc
  <2>3. desc'[j] = {"put", "uuid"} \cup {"size"}
    BY <1>0, <1>2, <2>1, <2>2 DEF JobsOK
  <2>4. jpc'[j] = "sleep" /\ tmp'[j] = {"desc", "link"}
    BY <1>0, <1>2, <2>1 DEF JobsOK
  <2> QED BY <2>3, <2>4
<1>7. ASSUME Destroy(j) PROVE Tidy(j)'
  <2>1. /\ desc' = [desc EXCEPT ![j] = {}]
        /\ tmp' = [tmp EXCEPT ![j] = IF "uuid" \in desc[j] THEN {} ELSE @ \ {"desc"}]
        /\ jpc[j] = "destroy" /\ jpc' = [jpc EXCEPT ![j] = "done"]
    BY <1>4, <1>7 DEF Destroy, Step
  <2>2. "uuid" \in desc[j]
    BY <1>2, <2>1
  <2> QED BY <1>0, <2>1, <2>2 DEF JobsOK
<1>8. ASSUME RunJob(j), ~Prolog(j), ~SetSize(j), ~Destroy(j) PROVE Tidy(j)'
  <2>1. desc' = desc /\ tmp' = tmp
    BY <1>8 DEF RunJob, StartConvert, EndConvert, ReadSize, Register, RegisterRefused, Get,
           ReplicateProduct, ReplicateProductFails, GetAgain, TrimProduct, NothingTrimmed, CallFails
  <2>2. /\ jpc[j] \notin {"queued", "script", "done"}
        /\ jpc'[j] \notin {"queued", "script", "done", "register_any"}
    BY <1>0, <1>2, <1>4, <1>8
       DEF JobsOK, RunJob, Step, StartConvert, EndConvert, ReadSize, Register, AfterRegister,
           RegisterRefused, Get, ReplicateProduct, ReplicateProductFails, GetAgain, TrimProduct,
           NothingTrimmed, CallFails
  <2> QED BY <1>2, <2>1, <2>2
<1>9. ~Cancel(j)
  BY <1>4 DEF Cancel
<1> QED BY <1>3, <1>5, <1>6, <1>7, <1>8, <1>9

(* A job that nothing fails in has its product in the catalog when it      *)
(* ends, though others may move it from the moment it is registered.       *)
LEMMA MadeNext ==
  ASSUME CatalogInv, CopiesInv, DescInv, MadeInv, [Next]_vars
  PROVE  MadeInv'
<1>0. CatalogTypeOK /\ JobsOK
  BY DEF CatalogInv, TypeOK, MovesTypeOK, CatalogTypeOK, JobsOK
<1> SUFFICES ASSUME NEW j \in Jobs, ~hit'[j], Own(size[j])' PROVE Made(j)'
  BY DEF MadeInv
<1> DEFINE o == size[j]
<1>1. size' = size /\ o \in Objects /\ ~hit[j]
  BY <1>0, JobAlone, JobsAssumption DEF JobsOK
<1>2. Own(o) /\ Own(o)' /\ \A k \in Jobs : size[k] = o => k = j
  BY <1>1, OwnProduct
<1>3. /\ replicas[o] = {} /\ replicas'[o] # {} => Register(j)
      /\ file'[o] # file[o] => replicas[o] # {} \/ StartConvert(j) \/ EndConvert(j)
      /\ replicas[o] # {} => replicas'[o] # {}
  BY <1>1, <1>2, StepCatalog DEF CatalogStep, Keeps, Own
<1>4. Made(j)
  BY <1>1, <1>2 DEF MadeInv
<1>5. jpc[j] = "convert" => replicas[o] = {}
  BY <1>1, <1>2 DEF CopiesInv
<1>6. CASE ~(RunJob(j) \/ Cancel(j))
  <2>1. jpc'[j] = jpc[j] /\ ~Register(j) /\ ~StartConvert(j) /\ ~EndConvert(j)
    BY <1>6, JobAlone DEF RunJob
  <2> QED BY <1>1, <1>3, <1>4, <1>5, <2>1 DEF Made
<1>7. ~Hit(j) /\ ~Cancel(j) /\ ~ReplicateProductFails(j) /\ ~CallFails(j)
  BY <1>0, <1>1 DEF Hit, Cancel, ReplicateProductFails, CallFails, JobsOK
<1>8. ASSUME StartConvert(j) PROVE Made(j)'
  <2>1. jpc'[j] = "convert" /\ file'[o] = "part"
    BY <1>0, <1>1, <1>8 DEF JobsOK, CatalogTypeOK, StartConvert, Step
  <2> QED BY <1>1, <2>1 DEF Made
<1>9. ASSUME EndConvert(j) PROVE Made(j)'
  <2>1. jpc[j] = "convert" /\ jpc'[j] = "epilog" /\ replicas' = replicas
    BY <1>0, <1>9 DEF JobsOK, EndConvert, Step
  <2>2. file'[o] = "whole"
    BY <1>0, <1>1, <1>4, <1>9, <2>1 DEF CatalogTypeOK, EndConvert, Made
  <2> QED BY <1>1, <1>5, <2>1, <2>2 DEF Made
<1>10. ASSUME ReadSize(j) PROVE Made(j)'
  <2>1. jpc[j] = "epilog" /\ UNCHANGED <<replicas, file>>
    BY <1>10 DEF ReadSize, Step, stored
  <2>2. "size" \in desc[j]
    BY <1>1, <2>1 DEF DescInv
  <2>3. jpc'[j] = "register"
    BY <1>0, <1>7, <1>10, <2>2 DEF JobsOK, ReadSize, Step
  <2> QED BY <1>1, <1>4, <2>1, <2>3 DEF Made
<1>11. ASSUME Register(j) PROVE Made(j)'
  <2>1. jpc[j] = "register"
    BY <1>1, <1>11 DEF Register, DescInv
  <2>2. jpc'[j] = "get"
    BY <1>0, <1>11, <2>1 DEF JobsOK, Register, AfterRegister
  <2> QED BY <2>2 DEF Made
<1>12. ~RegisterRefused(j)
  <2> SUFFICES ASSUME RegisterRefused(j) PROVE FALSE
    OBVIOUS
  <2>1. jpc[j] = "register"
    BY <1>1 DEF RegisterRefused, DescInv
  <2>2. Matching(j) = {o} /\ replicas[o] = {}
    BY <1>1, <1>4, <2>1 DEF Matching, Made
  <2> QED BY <2>2 DEF RegisterRefused
<1>13. ASSUME TrimProduct(j) \/ NothingTrimmed(j) \/ Destroy(j) PROVE Made(j)'
  <2>1. jpc[j] \in {"trim", "destroy"} /\ jpc'[j] \in {"destroy", "done"}
    BY <1>0, <1>13 DEF JobsOK, TrimProduct, NothingTrimmed, Destroy, Step
  <2>2. replicas[o] # {}
    BY <1>4, <2>1 DEF Made, CatalogInv
  <2> QED BY <1>1, <1>3, <2>1, <2>2 DEF Made
<1>14. ASSUME Prolog(j) \/ SetSize(j) \/ Get(j) \/ ReplicateProduct(j) \/ GetAgain(j)
       PROVE  Made(j)'
  <2>1. jpc'[j] \in {"script", "sleep", "replicate", "get_again", "trim"}
    BY <1>0, <1>14 DEF JobsOK, Prolog, SetSize, Get, ReplicateProduct, GetAgain, Step
  <2> QED BY <2>1 DEF Made
<1> QED BY <1>6, <1>7, <1>8, <1>9, <1>10, <1>11, <1>12, <1>13, <1>14 DEF RunJob

(* While nobody moves anything, the products of others are left alone.     *)
LEMMA NobodyMoves ==
  ASSUME CatalogInv, ProductInv, [Next]_vars, moves' = 0
  PROVE  moves = 0 /\ \A m \in Movers : ~Move(m) /\ mpc[m] = "idle" /\ mpc'[m] = "idle"
<1>1. moves = 0
  BY JobAlone
<1>2. \A m \in Movers : mpc[m] = "idle"
  BY <1>1 DEF ProductInv
<1>3. \A m \in Movers : ~Move(m)
  BY <1>1, <1>2 DEF Move, StartMove, AlreadyThere, CopyRow, CopyRowFails, SkipRow, RowRaises,
                    TrimRow, TrimRowFails, EndMove
<1>4. \A m \in Movers : mpc'[m] = mpc[m]
  BY <1>3, MoverAlone
<1> QED BY <1>1, <1>2, <1>3, <1>4

(* The steps of another job do not touch the product of this one.          *)
LEMMA OthersLeaveProduct ==
  ASSUME CatalogInv, CopiesInv, [Next]_vars, \A m \in Movers : ~Move(m),
         NEW j \in Jobs, ~(RunJob(j) \/ Cancel(j)), Own(size[j])'
  PROVE  replicas'[size[j]] = replicas[size[j]] /\ file'[size[j]] = file[size[j]]
<1> DEFINE o == size[j]
<1>1. CatalogTypeOK /\ JobsOK
  BY DEF CatalogInv, TypeOK, MovesTypeOK, CatalogTypeOK, JobsOK
<1>2. o \in Objects
  BY <1>1, JobsAssumption DEF JobsOK
<1>3. /\ size' = size /\ o \notin spoiled'
      /\ \A k \in Jobs : size[k] = o => k = j
  <2>1. size' = size
    BY JobAlone
  <2> QED BY <1>2, <2>1, OwnProduct DEF Own
<1>4. ASSUME NEW k \in Jobs, RunJob(k) \/ Cancel(k)
      PROVE  replicas'[o] = replicas[o] /\ file'[o] = file[o]
  <2>1. size[k] # o /\ size[k] \in Objects
    BY <1>1, <1>3, <1>4, JobsAssumption DEF JobsOK
  <2>2. CASE UNCHANGED <<replicas, file>>
    BY <2>2
  <2>3. ASSUME StartConvert(k) \/ EndConvert(k) PROVE replicas'[o] = replicas[o] /\ file'[o] = file[o]
    BY <1>1, <1>2, <2>1, <2>3 DEF StartConvert, EndConvert, CatalogTypeOK
  <2>4. ASSUME Register(k) PROVE replicas'[o] = replicas[o] /\ file'[o] = file[o]
    <3>1. PICK p \in Matching(k) :
            /\ Registered(p, "img") \/ Registered(p, "demo")
            /\ spoiled' = IF p # size[k] THEN spoiled \cup {p} ELSE spoiled
      BY <2>4 DEF Register
    <3>2. p # o
      BY <1>3, <2>1, <3>1
    <3>3. UNCHANGED file
      BY <2>4 DEF Register
    <3> QED BY <1>1, <1>2, <3>1, <3>2, <3>3 DEF Registered, CatalogTypeOK
  <2>5. ASSUME ReplicateProduct(k) \/ ReplicateProductFails(k)
        PROVE  replicas'[o] = replicas[o] /\ file'[o] = file[o]
    <3>1. UNCHANGED file
      BY <2>5 DEF ReplicateProduct, ReplicateProductFails
    <3>2. UNCHANGED replicas \/ \E rs : replicas' = [replicas EXCEPT ![size[k]] = rs]
      BY <2>5 DEF ReplicateProduct, ReplicateProductFails, Replicate, ReplicateFails
    <3> QED BY <1>1, <1>2, <2>1, <3>1, <3>2 DEF CatalogTypeOK
  <2>6. ASSUME TrimProduct(k) PROVE replicas'[o] = replicas[o] /\ file'[o] = file[o]
    BY <1>1, <1>2, <2>1, <2>6 DEF TrimProduct, Trim, CatalogTypeOK
  <2> QED BY <1>4, <2>2, <2>3, <2>4, <2>5, <2>6
          DEF RunJob, Cancel, Prolog, SetSize, ReadSize, RegisterRefused, Get, GetAgain,
              NothingTrimmed, CallFails, Destroy, stored
<1>5. UNCHANGED <<replicas, file>> \/ \E k \in Jobs : RunJob(k) \/ Cancel(k)
  BY DEF Next, MoveStep, vars, stored
<1> QED BY <1>4, <1>5

(* The step of a job itself, if it does not fail.                          *)
LEMMA OwnStep ==
  ASSUME CatalogInv, CopiesInv, DescInv, NEW j \in Jobs, RunJob(j), ~hit[j], ~hit'[j],
         Own(size[j]), Product(j), size' = size
  PROVE  Product(j)'
<1> DEFINE o == size[j]
<1>1. CatalogTypeOK /\ JobsOK
  BY DEF CatalogInv, TypeOK, MovesTypeOK, CatalogTypeOK, JobsOK
<1>2. o \in Objects /\ WellFormed(replicas[o])
  BY <1>1, JobsAssumption DEF JobsOK, CatalogTypeOK
<1>3. ~Hit(j)
  BY <1>1 DEF Hit, JobsOK
<1>4. jpc[j] = "convert" => replicas[o] = {}
  BY <1>2 DEF CopiesInv
<1>5. size'[j] = o
  OBVIOUS
<1> DEFINE rs == replicas[o]
           f  == file[o]
<1>6. /\ jpc[j] = "convert" => f = "part"
      /\ jpc[j] \in {"epilog", "register"} => rs = {} /\ f = "whole"
      /\ jpc[j] \in {"get", "replicate"} => FileOf(rs) /\ f = "whole"
      /\ jpc[j] \in {"get_again", "trim"} => FileAndCopy(rs) /\ f = "whole"
      /\ jpc[j] \in {"replicate", "trim"} => snap[j] = rs
      /\ jpc[j] \in {"destroy", "done"} => Delivered(o)
  BY DEF Product
<1>7. ASSUME Prolog(j) \/ SetSize(j) PROVE Product(j)'
  <2>1. jpc'[j] \in {"script", "sleep"}
    BY <1>1, <1>7 DEF JobsOK, Prolog, SetSize, Step
  <2> QED BY <2>1 DEF Product
<1>8. ASSUME StartConvert(j) PROVE Product(j)'
  <2>1. jpc'[j] = "convert" /\ file'[o] = "part"
    BY <1>1, <1>2, <1>8 DEF JobsOK, CatalogTypeOK, StartConvert, Step
  <2> QED BY <2>1 DEF Product
<1>9. ASSUME EndConvert(j) PROVE Product(j)'
  <2>1. jpc[j] = "convert" /\ jpc'[j] = "epilog" /\ replicas' = replicas
    BY <1>1, <1>9 DEF JobsOK, EndConvert, Step
  <2>2. file'[o] = "whole"
    BY <1>1, <1>2, <1>6, <1>9, <2>1 DEF CatalogTypeOK, EndConvert
  <2> QED BY <1>4, <2>1, <2>2 DEF Product
<1>10. ASSUME ReadSize(j) PROVE Product(j)'
  <2>1. jpc[j] = "epilog" /\ UNCHANGED <<replicas, file>>
    BY <1>10 DEF ReadSize, Step, stored
  <2>2. "size" \in desc[j]
    BY <2>1 DEF DescInv
  <2>3. jpc'[j] = "register"
    BY <1>1, <1>3, <1>10, <2>2 DEF JobsOK, ReadSize, Step
  <2> QED BY <1>6, <2>1, <2>3 DEF Product
<1>11. ASSUME Register(j) PROVE Product(j)'
  <2>1. jpc[j] = "register"
    BY <1>11 DEF Register, DescInv
  <2>2. Registered(o, "img") /\ file' = file
    BY <1>3, <1>11, <2>1 DEF Register, Matching
  <2>3. jpc'[j] = "get"
    BY <1>1, <1>11, <2>1 DEF JobsOK, Register, AfterRegister
  <2>4. replicas'[o] = {[num |-> 0, resc |-> "img", good |-> TRUE, data |-> "file"]}
    BY <1>1, <1>2, <2>2 DEF Registered, CatalogTypeOK
  <2>5. FileOf(replicas'[o])
    BY <2>4 DEF FileOf
  <2> QED BY <1>6, <2>1, <2>2, <2>3, <2>5 DEF Product
<1>12. ~RegisterRefused(j)
  <2> SUFFICES ASSUME RegisterRefused(j) PROVE FALSE
    OBVIOUS
  <2>1. jpc[j] = "register"
    BY DEF RegisterRefused, DescInv
  <2>2. Matching(j) = {o} /\ rs = {}
    BY <1>2, <1>6, <2>1 DEF Matching
  <2> QED BY <2>2 DEF RegisterRefused
<1>13. ASSUME Get(j) \/ GetAgain(j) PROVE Product(j)'
  <2>1. /\ \/ jpc[j] = "get" /\ jpc'[j] = "replicate"
           \/ jpc[j] = "get_again" /\ jpc'[j] = "trim"
        /\ UNCHANGED <<replicas, file>> /\ snap'[j] = rs
    BY <1>1, <1>13 DEF JobsOK, Get, GetAgain, Step, stored
  <2> QED BY <1>6, <2>1 DEF Product
<1>14. ASSUME ReplicateProduct(j) PROVE Product(j)'
  <2>1. jpc[j] = "replicate" /\ jpc'[j] = "get_again" /\ file' = file
    BY <1>1, <1>14 DEF JobsOK, ReplicateProduct, Step
  <2>2. PICK x \in rs : rs = {x} /\ x.resc = "img" /\ x.good /\ x.data = "file"
    BY <1>6, <2>1 DEF FileOf
  <2>3. On(rs, "lts") = {} /\ snap[j] = rs
    BY <1>6, <2>1, <2>2 DEF On
  <2>4. PICK z \in Sources(o) : replicas' = [replicas EXCEPT ![o] = Copied(o, "lts", z)]
    BY <1>14, <2>3 DEF ReplicateProduct, Replicate
  <2>5. z = x
    BY <2>2 DEF Sources, Good
  <2>6. Content(o, z) = "whole"
    BY <1>6, <2>1, <2>2, <2>5 DEF Content
  <2> DEFINE y == [num |-> NextNum(rs), resc |-> "lts", good |-> TRUE, data |-> "whole"]
  <2>7. replicas'[o] = {x, y}
    BY <1>1, <1>2, <2>2, <2>3, <2>4, <2>6 DEF Copied, CatalogTypeOK
  <2>8. x.num # y.num
    <3>1. x.num \in Nat /\ NextNum(rs) \in Nat /\ x.num < NextNum(rs)
      BY <1>2, <2>2, NextNumIsNew DEF WellFormed, Replica
    <3> QED BY <3>1
  <2>9. FileAndCopy(replicas'[o])
    BY <2>2, <2>7, <2>8 DEF FileAndCopy
  <2> QED BY <1>6, <2>1, <2>9 DEF Product
<1>15. ~ReplicateProductFails(j) /\ ~CallFails(j)
  BY <1>1 DEF ReplicateProductFails, CallFails, JobsOK
<1>16. ASSUME jpc[j] = "trim"
       PROVE  \E x, y \in rs : /\ rs = {x, y} /\ x.num # y.num /\ snap[j] = rs
                               /\ x.data = "file" /\ On(rs, "img") = {x}
                               /\ y.resc = "lts" /\ y.good /\ y.data = "whole" /\ y \in On(rs, "lts")
  BY <1>6, <1>16 DEF FileAndCopy, On
<1>17. ASSUME TrimProduct(j) PROVE Product(j)'
  <2>1. jpc[j] = "trim" /\ jpc'[j] = "destroy"
    BY <1>1, <1>17 DEF JobsOK, TrimProduct, Step
  <2>2. PICK x, y \in rs :
          /\ rs = {x, y} /\ x.num # y.num /\ snap[j] = rs
          /\ x.data = "file" /\ On(rs, "img") = {x}
          /\ y.resc = "lts" /\ y.good /\ y.data = "whole"
    BY <1>16, <2>1
  <2>3. Trim(o, x.num)
    BY <1>17, <2>2 DEF TrimProduct
  <2>4. Good(rs \ {x}) = {y} /\ rs \ {x} = {y}
    BY <2>2 DEF Good
  <2>5. Cardinality(Good(rs \ {x})) = 1
    BY <2>4, FS_Singleton
  <2> DEFINE gone == Gone(o, x.num)
  <2>6. gone = {x}
    BY <2>2, <2>5 DEF Copies, Gone
  <2>7. /\ replicas' = [replicas EXCEPT ![o] = @ \ gone]
        /\ file' = [file EXCEPT ![o] = IF \E z \in gone : z.data = "file" THEN "none" ELSE @]
    BY <2>3 DEF Trim
  <2> HIDE DEF gone
  <2>8. replicas'[o] = {y} /\ file'[o] = "none"
    BY <1>1, <1>2, <2>2, <2>4, <2>6, <2>7 DEF CatalogTypeOK
  <2>9. Delivered(o)'
    BY <2>2, <2>8 DEF Delivered
  <2> QED BY <2>1, <2>9 DEF Product
<1>18. ~NothingTrimmed(j)
  <2> SUFFICES ASSUME NothingTrimmed(j) PROVE FALSE
    OBVIOUS
  <2>1. jpc[j] = "trim"
    BY DEF NothingTrimmed, Step
  <2>2. PICK x, y \in rs : snap[j] = rs /\ On(rs, "img") = {x} /\ y.good /\ y \in On(rs, "lts")
    BY <1>16, <2>1
  <2>3. MayTrim(j)
    BY <2>2 DEF MayTrim, Good
  <2> QED BY <2>2, <2>3 DEF NothingTrimmed
<1>19. ASSUME Destroy(j) PROVE Product(j)'
  <2>1. jpc[j] = "destroy" /\ jpc'[j] = "done" /\ UNCHANGED <<replicas, file>>
    BY <1>1, <1>19 DEF JobsOK, Destroy, Step, stored
  <2> QED BY <1>6, <2>1 DEF Product, Delivered
<1> QED BY <1>7, <1>8, <1>9, <1>10, <1>11, <1>12, <1>13, <1>14, <1>15, <1>17, <1>18, <1>19 DEF RunJob

(* Every step keeps the products of jobs that do not fail on their way.    *)
LEMMA ProductNext ==
  ASSUME CatalogInv, CopiesInv, DescInv, ProductInv, [Next]_vars
  PROVE  ProductInv'
<1>1. moves' = 0 => \A m \in Movers : mpc'[m] = "idle"
  BY NobodyMoves
<1>2. ASSUME NEW j \in Jobs, ~hit'[j], Own(size[j])', moves' = 0
      PROVE  Product(j)'
  <2>0. size' = size /\ size[j] \in Objects
    BY JobAlone, JobsAssumption DEF CatalogInv, TypeOK
  <2>1. ~hit[j] /\ Own(size[j])
    BY <1>2, <2>0, JobAlone, OwnProduct
  <2>2. Product(j)
    BY <1>2, <2>1, NobodyMoves DEF ProductInv
  <2>3. CASE ~(RunJob(j) \/ Cancel(j))
    <3>1. replicas'[size[j]] = replicas[size[j]] /\ file'[size[j]] = file[size[j]]
      BY <1>2, <2>0, <2>3, NobodyMoves, OthersLeaveProduct
    <3>2. jpc'[j] = jpc[j] /\ snap'[j] = snap[j]
      BY <2>3, JobAlone
    <3> QED BY <2>0, <2>2, <3>1, <3>2 DEF Product, Delivered
  <2>4. CASE RunJob(j)
    BY <1>2, <2>0, <2>1, <2>2, <2>4, OwnStep
  <2>5. ~Cancel(j)
    BY <1>2 DEF Cancel, Hit, CatalogInv, TypeOK
  <2> QED BY <2>3, <2>4, <2>5
<1> QED BY <1>1, <1>2 DEF ProductInv

(* A job none of whose operations failed leaves no descriptor, no link,    *)
(* and its product on long term storage only, or in the catalog wherever   *)
(* moves have put it.                                                      *)
THEOREM JobsEndClean == Spec => []CleanEnd
<1>1. Init => DescInv /\ ProductInv /\ MadeInv
  BY DEF Init, MoversInit, DescInv, ProductInv, Product, MadeInv, Made
<1>2. CatalogInv /\ CopiesInv /\ DescInv /\ ProductInv /\ MadeInv /\ [Next]_vars
        => DescInv' /\ ProductInv' /\ MadeInv'
  BY DescNext, ProductNext, MadeNext
<1>3. CatalogInv /\ DescInv /\ ProductInv /\ MadeInv => CleanEnd
  <2> SUFFICES ASSUME CatalogInv, DescInv, ProductInv, MadeInv, NEW j \in Jobs, jpc[j] = "done", ~hit[j]
               PROVE  /\ desc[j] = {} /\ tmp[j] = {}
                      /\ \/ size[j] \in spoiled \/ Shared(size[j])
                         \/ IF moves > 0 THEN replicas[size[j]] # {} ELSE Delivered(size[j])
    BY DEF CleanEnd
  <2>1. desc[j] = {} /\ tmp[j] = {}
    BY DEF DescInv
  <2>2. moves = 0 \/ moves > 0
    BY MovesAssumption DEF CatalogInv, TypeOK, MovesTypeOK
  <2>3. Own(size[j]) => replicas[size[j]] # {} /\ (moves = 0 => Delivered(size[j]))
    BY DEF MadeInv, Made, ProductInv, Product
  <2> QED BY <2>1, <2>2, <2>3 DEF Own
<1> QED BY <1>1, <1>2, <1>3, CatalogInvariant, CopiesInvariant, PTL DEF Spec
=============================================================================
