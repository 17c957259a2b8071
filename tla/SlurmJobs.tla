------------------------------ MODULE SlurmJobs ------------------------------
(***************************************************************************)
(* Data to compute (advanced/hpc_data_to_compute): Slurm jobs that each    *)
(* make one thumbnail of an image on the compute node.  The prolog puts a  *)
(* job descriptor into the catalog, the job writes its size to it, and the *)
(* epilog, if it finds a size, registers the product, replicates it to     *)
(* long term storage and trims it from the compute resource.  All jobs     *)
(* share a directory and a catalog, where others may move replicas         *)
(* (ReplicaMoves) at the same time.                                        *)
(*                                                                         *)
(* Slurm is not in the repository: it is taken to run the prolog before    *)
(* the job and the epilog after it, also after a job that was cancelled or *)
(* failed.  An object of ReplicaMoves is a thumbnail size: the product of  *)
(* a size has one path and one name.                                       *)
(***************************************************************************)
EXTENDS ReplicaMoves

CONSTANTS
  Jobs,     \* Slurm jobs
  Launches  \* set of [Jobs -> Objects]: the sizes the jobs are submitted for

ASSUME JobsAssumption ==
  /\ {"img", "lts", "demo"} \subseteq Resources
  /\ Launches \subseteq [Jobs -> Objects]

VARIABLES
  size,    \* size[j]: the size job j makes
  jpc,     \* jpc[j]: what is next for job j
  desc,    \* desc[j]: the descriptor in the catalog: "put" and its variables
  tmp,     \* tmp[j]: its files in /tmp, the descriptor and its link
  snap,    \* snap[j]: the replicas of the product as the epilog last read them
  hit,     \* hit[j]: a failure has hit job j (history)
  spoiled  \* sizes whose job was cancelled while it wrote, or whose product
           \* an epilog of another size registered (history)

job   == <<jpc, desc, tmp, snap, hit, spoiled>>
vars  == <<stored, mover, faults, size, job>>

Hit(j) == Fault /\ hit' = [hit EXCEPT ![j] = TRUE]
Calm   == UNCHANGED <<faults, hit>>
Step(j, from, to) == jpc[j] = from /\ jpc' = [jpc EXCEPT ![j] = to]

-----------------------------------------------------------------------------
Init ==
  /\ MoversInit
  /\ replicas = [o \in Objects |-> {}]
  /\ file = [o \in Objects |-> "none"]
  /\ faults = 0
  /\ size \in Launches
  /\ jpc = [j \in Jobs |-> "queued"]
  /\ desc = [j \in Jobs |-> {}]
  /\ tmp = [j \in Jobs |-> {}]
  /\ snap = [j \in Jobs |-> {}]
  /\ hit = [j \in Jobs |-> FALSE]
  /\ spoiled = {}

(* slurm_prolog: create_irods_slurm_desc.  The link is made and the uuid   *)
(* set only after the put; nobody looks at the status.                     *)
Prolog(j) ==
  /\ Step(j, "queued", "script")
  /\ \/ /\ desc' = [desc EXCEPT ![j] = {"put", "uuid"}]
        /\ tmp' = [tmp EXCEPT ![j] = {"desc", "link"}]
        /\ Calm
     \/ /\ Hit(j)
        /\ \/ UNCHANGED desc /\ tmp' = [tmp EXCEPT ![j] = {"desc"}]
           \/ desc' = [desc EXCEPT ![j] = {"put"}] /\ tmp' = [tmp EXCEPT ![j] = {"desc", "link"}]
  /\ UNCHANGED <<stored, mover, size, snap, spoiled>>

(* convert.SLURM: the size is recorded if the descriptor passes its test,  *)
(* that is if its uuid names the link.  Then the job sleeps.               *)
TestDesc(j) == "uuid" \in desc[j] /\ tmp[j] = {"desc", "link"}

SetSize(j) ==
  /\ Step(j, "script", "sleep")
  /\ \/ /\ desc' = [desc EXCEPT ![j] = IF TestDesc(j) THEN @ \cup {"size"} ELSE @]
        /\ Calm
     \/ Hit(j) /\ UNCHANGED desc
  /\ UNCHANGED <<stored, mover, size, tmp, snap, spoiled>>

(* convert creates, or writes over, the product of its size.               *)
StartConvertNoWait(j) ==
  /\ Step(j, "sleep", "epilog")
  /\ file' = [file EXCEPT ![size[j]] = "part"]
  /\ UNCHANGED <<replicas, mover, faults, size, desc, tmp, snap, hit, spoiled>>

StartConvert(j) ==
  /\ Step(j, "sleep", "convert")
  /\ file' = [file EXCEPT ![size[j]] = "part"]
  /\ UNCHANGED <<replicas, mover, faults, size, desc, tmp, snap, hit, spoiled>>

(* A product that was trimmed meanwhile stays without a name.              *)
EndConvert(j) ==
  /\ Step(j, "convert", "epilog")
  /\ file' = [file EXCEPT ![size[j]] = IF @ = "none" THEN @ ELSE "whole"]
  /\ UNCHANGED <<replicas, mover, faults, size, desc, tmp, snap, hit, spoiled>>

(* The job is cancelled, or its command fails; Slurm goes on to the epilog.*)
Cancel(j) ==
  /\ jpc[j] \in {"script", "sleep", "convert"}
  /\ jpc' = [jpc EXCEPT ![j] = "epilog"]
  /\ Hit(j)
  /\ spoiled' = IF jpc[j] = "convert" THEN spoiled \cup {size[j]} ELSE spoiled
  /\ UNCHANGED <<stored, mover, size, desc, tmp, snap>>

-----------------------------------------------------------------------------
(* slurm_epilog.                                                           *)

(* No rows is status 1 and there is nothing to do; any other failure of    *)
(* the query is status 0 with an empty size, which matches every product.  *)
ReadSize(j) ==
  /\ \/ /\ Step(j, "epilog", IF "size" \in desc[j] THEN "register" ELSE "destroy")
        /\ Calm
     \/ Step(j, "epilog", "register_any") /\ Hit(j)
  /\ UNCHANGED <<stored, mover, size, desc, tmp, snap, spoiled>>

(* register_replicate_and_trim_thumbnail takes the first file that matches *)
(* its pattern; each failure is an exception that ends it, and the epilog  *)
(* goes on.                                                                *)
Matching(j) ==
  {o \in Objects : file[o] # "none" /\ (jpc[j] = "register" => o = size[j])}

(* Registers product o on resource r: img has the role of compute          *)
(* resource, and without an answer to the query for the role the server's  *)
(* default applies.                                                        *)
Registered(o, r) ==
  replicas' = [replicas EXCEPT ![o] = {[num |-> 0, resc |-> r, good |-> TRUE, data |-> "file"]}]

(* An empty size is no object's name: the epilog stops after it has        *)
(* registered whichever product came first.                                *)
AfterRegisterStops(j) == "destroy"

AfterRegister(j) == IF jpc[j] = "register" THEN "get" ELSE "destroy"

Register(j) ==
  /\ jpc[j] \in {"register", "register_any"}
  /\ \E o \in Matching(j) :
       /\ replicas[o] = {}
       /\ \/ Registered(o, "img") /\ Calm
          \/ Registered(o, "demo") /\ Hit(j)
       /\ spoiled' = IF o # size[j] THEN spoiled \cup {o} ELSE spoiled
  /\ jpc' = [jpc EXCEPT ![j] = AfterRegister(j)]
  /\ UNCHANGED <<file, mover, size, desc, tmp, snap>>

(* There is no such file, or its name is taken in the catalog.             *)
RegisterRefused(j) ==
  /\ jpc[j] \in {"register", "register_any"}
  /\ Matching(j) = {} \/ \E o \in Matching(j) : replicas[o] # {}
  /\ jpc' = [jpc EXCEPT ![j] = "destroy"]
  /\ UNCHANGED <<stored, mover, faults, size, desc, tmp, snap, hit, spoiled>>

Get(j) ==
  /\ Step(j, "get", "replicate")
  /\ snap' = [snap EXCEPT ![j] = replicas[size[j]]]
  /\ UNCHANGED <<stored, mover, faults, size, desc, tmp, hit, spoiled>>

(* replicate_object_to_resource: not if there is any replica, even stale.  *)
ReplicateProduct(j) ==
  /\ Step(j, "replicate", "get_again")
  /\ IF On(snap[j], "lts") = {} THEN Replicate(size[j], "lts") ELSE UNCHANGED replicas
  /\ UNCHANGED <<file, mover, faults, size, desc, tmp, snap, hit, spoiled>>

ReplicateProductFails(j) ==
  /\ Step(j, "replicate", "destroy")
  /\ On(snap[j], "lts") = {}
  /\ ReplicateFails(size[j], "lts")
  /\ hit' = [hit EXCEPT ![j] = TRUE]
  /\ UNCHANGED <<file, mover, size, desc, tmp, snap, spoiled>>

GetAgain(j) ==
  /\ Step(j, "get_again", "trim")
  /\ snap' = [snap EXCEPT ![j] = replicas[size[j]]]
  /\ UNCHANGED <<stored, mover, faults, size, desc, tmp, hit, spoiled>>

(* trim_all_replicas_from_resource, decided on what was read.              *)
MayTrim(j) == Good(On(snap[j], "lts")) # {}

TrimProduct(j) ==
  /\ Step(j, "trim", "destroy")
  /\ MayTrim(j)
  /\ \E x \in On(snap[j], "img") : Trim(size[j], x.num)
  /\ UNCHANGED <<mover, faults, size, desc, tmp, snap, hit, spoiled>>

NothingTrimmed(j) ==
  /\ Step(j, "trim", "destroy")
  /\ ~MayTrim(j) \/ On(snap[j], "img") = {}
  /\ UNCHANGED <<stored, mover, faults, size, desc, tmp, snap, hit, spoiled>>

(* An exception of register, get or trim ends the script as well, and the  *)
(* epilog goes on.                                                         *)
CallFails(j) ==
  /\ \/ jpc[j] \in {"register", "register_any", "get", "get_again"} /\ Fault
     \/ /\ jpc[j] = "trim" /\ MayTrim(j)
        /\ \E x \in On(snap[j], "img") : TrimFails(size[j], x.num)
  /\ jpc' = [jpc EXCEPT ![j] = "destroy"]
  /\ hit' = [hit EXCEPT ![j] = TRUE]
  /\ UNCHANGED <<stored, mover, size, desc, tmp, snap, spoiled>>

(* destroy_irods_slurm_desc: the link is found only through the uuid.      *)
DestroyKeepsLink(j) ==
  /\ Step(j, "destroy", "done")
  /\ desc' = [desc EXCEPT ![j] = {}]
  /\ tmp' = [tmp EXCEPT ![j] = @ \ {"desc"}]
  /\ Calm
  /\ snap' = [snap EXCEPT ![j] = {}]
  /\ UNCHANGED <<stored, mover, size, spoiled>>

Destroy(j) ==
  /\ Step(j, "destroy", "done")
  /\ \/ /\ desc' = [desc EXCEPT ![j] = {}]
        /\ tmp' = [tmp EXCEPT ![j] = IF "uuid" \in desc[j] THEN {} ELSE @ \ {"desc"}]
        /\ Calm
     \/ /\ Hit(j)
        /\ \/ desc' = [desc EXCEPT ![j] = {}] /\ tmp' = [tmp EXCEPT ![j] = @ \ {"desc"}]
           \/ UNCHANGED desc /\ tmp' = [tmp EXCEPT ![j] = {}]
  /\ snap' = [snap EXCEPT ![j] = {}]
  /\ UNCHANGED <<stored, mover, size, spoiled>>

-----------------------------------------------------------------------------
RunJob(j) ==
  \/ Prolog(j) \/ SetSize(j) \/ StartConvert(j) \/ EndConvert(j)
  \/ ReadSize(j) \/ Register(j) \/ RegisterRefused(j)
  \/ Get(j) \/ ReplicateProduct(j) \/ ReplicateProductFails(j) \/ GetAgain(j)
  \/ TrimProduct(j) \/ NothingTrimmed(j) \/ CallFails(j) \/ Destroy(j)

MoveStep(m) == Move(m) /\ UNCHANGED <<size, job>>

Next ==
  \/ \E j \in Jobs : RunJob(j) \/ Cancel(j)
  \/ \E m \in Movers : MoveStep(m)

Spec == Init /\ [][Next]_vars

(* Slurm runs every job to its end.  A job is cancelled, and a mover       *)
(* called, only when somebody does so.                                     *)
FairSpec == Spec /\ \A j \in Jobs : WF_vars(RunJob(j))

-----------------------------------------------------------------------------
(* Every variable has its type.                                            *)
TypeOK ==
  /\ MovesTypeOK
  /\ size \in Launches
  /\ jpc \in [Jobs -> {"queued", "script", "sleep", "convert", "epilog", "register",
                       "register_any", "get", "replicate", "get_again", "trim",
                       "destroy", "done"}]
  /\ desc \in [Jobs -> SUBSET {"put", "uuid", "size"}]
  /\ tmp \in [Jobs -> SUBSET {"desc", "link"}]
  /\ snap \in [Jobs -> SUBSET Replica]
  /\ hit \in [Jobs -> BOOLEAN] /\ spoiled \subseteq Objects

(* Two jobs make the same size: the rule was started twice.                *)
Shared(o) == \E j, k \in Jobs : j # k /\ size[j] = o /\ size[k] = o

(* A copy that is cut short comes only from a job that was cancelled while *)
(* it was writing, from a second job of the same size, or from an epilog   *)
(* that registered another job's product.                                  *)
CopiesWhole ==
  \A o \in Objects : \A x \in Good(replicas[o]) : x.data = "part" => o \in spoiled \/ Shared(o)

(* A product that is in the catalog keeps a whole good replica there, with *)
(* the same exceptions, whatever moves, epilogs and failing copies meet:   *)
(* lists are old when they are acted upon, copies are made from a file     *)
(* that its job wrote, and the trims of two actors (compute_to_data_       *)
(* support.py 254, common.py 200) may each count on the replica that the   *)
(* other one takes.                                                        *)
Whole(o) == \E x \in Good(replicas[o]) : Content(o, x) = "whole"

WholeKept ==
  [][\A o \in Objects : replicas[o] # {} => (o \in spoiled \/ Shared(o) \/ Whole(o))']_vars

(* The epilog cleans up: a job none of whose operations failed leaves      *)
(* nothing of itself behind, and its product, unless it was spoiled or     *)
(* shared, is on long term storage only, or, if there have been moves, in  *)
(* the catalog wherever they have put it.                                  *)
Delivered(o) == file[o] = "none" /\ \E x \in replicas[o] :
                  replicas[o] = {x} /\ x.resc = "lts" /\ x.good /\ x.data = "whole"

CleanEnd ==
  \A j \in Jobs : jpc[j] = "done" /\ ~hit[j] =>
    /\ desc[j] = {} /\ tmp[j] = {}
    /\ \/ size[j] \in spoiled \/ Shared(size[j])
       \/ IF moves > 0 THEN replicas[size[j]] # {} ELSE Delivered(size[j])

(* README: the epilog registers products into the catalog and replicates   *)
(* them.  Every product reaches long term storage, if nothing fails, no    *)
(* two jobs make the same size and nobody moves it.                        *)
Arrives ==
  [](faults = 0 /\ moves = 0) =>
    \A j \in Jobs : Shared(size[j]) \/ <>[]Delivered(size[j])
=============================================================================
