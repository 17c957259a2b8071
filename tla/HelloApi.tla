------------------------------ MODULE HelloApi ------------------------------
(***************************************************************************)
(* The API example: the client iapi_example.cpp and the plugin             *)
(* libapi-example.cpp, which the server loads into an agent per connection *)
(* and the client loads for the packing instructions.  A client is one     *)
(* process that runs main once; the agent calls rs_hello_world between the *)
(* two policy enforcement points of the call.                              *)
(***************************************************************************)
EXTENDS Naturals, Sequences

CONSTANTS
  Clients,    \* processes that run main
  MaxFaults   \* bound: connections that break, clients that are killed

ASSUME MaxFaultsAssumption == MaxFaults \in Nat

VARIABLES
  public,   \* the clients whose rodsUserName is PUBLIC_USER_NAME
  loaded,   \* the sides that have plugin number 1310: "client", "server"
  pc,       \* pc[c]: where main is, "done" once the process has ended
  code,     \* code[c]: the exit status of the process
  printed,  \* printed[c]: what it has printed
  conn,     \* conn[c]: the connection and how it ended
  agent,    \* agent[c]: what the agent behind the connection does
  out,      \* out[c]: *_out in the agent, "null" or "answer"
  seen,     \* seen[c]: the out parameter as each PEP was given it
  reply,    \* reply[c]: what the agent has answered to the request
  known,    \* history: the clients that have passed clientLogin
  faults

config == <<public, loaded>>
main == <<pc, code, printed>>
server == <<agent, out, seen, reply>>
vars == <<config, main, conn, server, known, faults>>

(* What the PEPs may have seen of the out parameter: nothing yet, what it  *)
(* is before the operation, what it is before and after it.                *)
Nothing == <<>>
Before  == <<"null_value">>
Both    == <<"null_value", "this that value">>

Init ==
  /\ public \in SUBSET Clients
  /\ loaded \in SUBSET {"client", "server"}
  /\ pc = [c \in Clients |-> "env"]
  /\ code = [c \in Clients |-> "none"]
  /\ printed = [c \in Clients |-> "nothing"]
  /\ conn = [c \in Clients |-> "none"]
  /\ agent = [c \in Clients |-> "none"]
  /\ out = [c \in Clients |-> "null"]
  /\ seen = [c \in Clients |-> Nothing]
  /\ reply = [c \in Clients |-> "none"]
  /\ known = {}
  /\ faults = 0

-----------------------------------------------------------------------------
(* main                                                                    *)

Exit(c, status) ==
  /\ pc' = [pc EXCEPT ![c] = "done"]
  /\ code' = [code EXCEPT ![c] = status]

Goto(c, l) == pc' = [pc EXCEPT ![c] = l] /\ UNCHANGED code

(* An open connection ends; a broken one stays broken, as SIGPIPE is       *)
(* ignored.                                                                *)
EndConn(c, how) == conn' = [conn EXCEPT ![c] = IF @ = "open" THEN how ELSE @]

rcDisconnect(c) == EndConn(c, "closed")

(* The kernel closes the socket of a process that ends without             *)
(* rcDisconnect.                                                           *)
DropConn(c) == EndConn(c, "dropped")

GetEnv(c) ==
  /\ pc[c] = "env"
  /\ Goto(c, "connect") \/ Exit(c, "1")
  /\ UNCHANGED <<config, printed, conn, server, known, faults>>

Connect(c) ==
  /\ pc[c] = "connect"
  /\ conn' = [conn EXCEPT ![c] = "open"]
  /\ agent' = [agent EXCEPT ![c] = "idle"]
  /\ Goto(c, IF c \in public THEN "request" ELSE "login")
  /\ UNCHANGED <<config, printed, out, seen, reply, known, faults>>

ConnectFails(c) ==
  /\ pc[c] = "connect"
  /\ Exit(c, "2")
  /\ UNCHANGED <<config, printed, conn, server, known, faults>>

Login(c) ==
  /\ pc[c] = "login" /\ conn[c] = "open"
  /\ known' = known \cup {c}
  /\ Goto(c, "request")
  /\ UNCHANGED <<config, printed, conn, server, faults>>

(* What main would be without the exit, and without the rcDisconnect.      *)
LoginFailsGoesOn(c) ==
  /\ pc[c] = "login"
  /\ Goto(c, "request")
  /\ UNCHANGED <<config, printed, conn, server, known, faults>>

LoginFailsLeaves(c) ==
  /\ pc[c] = "login"
  /\ DropConn(c)
  /\ Exit(c, "7")
  /\ UNCHANGED <<config, printed, server, known, faults>>

LoginFails(c) ==
  /\ pc[c] = "login"
  /\ rcDisconnect(c)
  /\ Exit(c, "7")
  /\ UNCHANGED <<config, printed, server, known, faults>>

(* procApiRequest sends the request ...                                    *)
Request(c) ==
  /\ pc[c] = "request" /\ conn[c] = "open" /\ "client" \in loaded
  /\ agent' = [agent EXCEPT ![c] = "call"]
  /\ Goto(c, "wait")
  /\ UNCHANGED <<config, printed, conn, out, seen, reply, known, faults>>

(* ... and returns a status: below zero when this side has no such API,    *)
(* the connection is broken, or the agent says so.                         *)
Failed(c) ==
  \/ pc[c] = "request" /\ ("client" \notin loaded \/ conn[c] # "open")
  \/ pc[c] = "wait" /\ reply[c] = "none" /\ conn[c] # "open"
  \/ pc[c] = "wait" /\ reply[c] = "error"

(* What main would be if it took a failed request for one to repeat.       *)
RequestRepeated(c) ==
  /\ Failed(c)
  /\ UNCHANGED vars

RequestFails(c) ==
  /\ Failed(c)
  /\ printed' = [printed EXCEPT ![c] = "failed"]
  /\ DropConn(c)
  /\ Exit(c, "0")
  /\ UNCHANGED <<config, server, known, faults>>

(* What is printed of the pointer that came back, without and with the     *)
(* test for NULL.                                                          *)
WordsUntested(answer) == "answer"

Words(answer) == IF answer = "null" THEN "null" ELSE "answer"

Show(c) ==
  /\ pc[c] = "wait" /\ reply[c] \in {"null", "answer"}
  /\ printed' = [printed EXCEPT ![c] = Words(reply[c])]
  /\ Goto(c, "disconnect")
  /\ UNCHANGED <<config, conn, server, known, faults>>

Disconnect(c) ==
  /\ pc[c] = "disconnect"
  /\ rcDisconnect(c)
  /\ Exit(c, "0")
  /\ UNCHANGED <<config, printed, server, known, faults>>

Main(c) ==
  \/ GetEnv(c) \/ Connect(c) \/ ConnectFails(c) \/ Login(c) \/ LoginFails(c)
  \/ Request(c) \/ RequestFails(c) \/ Show(c) \/ Disconnect(c)

-----------------------------------------------------------------------------
(* The agent: call_handler runs rs_hello_world between two PEPs, which get *)
(* the parameters in the form of the serialize functions; the first form   *)
(* lacks the test for NULL.                                                *)

serialize_helloOutUntested(p) == "this that value"

serialize_helloOut(p) == IF p = "null" THEN "null_value" ELSE "this that value"

(* An answer reaches the client while the connection holds.                *)
Answer(c, what) ==
  /\ agent' = [agent EXCEPT ![c] = "idle"]
  /\ reply' = [reply EXCEPT ![c] = IF conn[c] = "open" THEN what ELSE @]

Fire(c) == seen' = [seen EXCEPT ![c] = Append(@, serialize_helloOut(out[c]))]

Unmatched(c) ==
  /\ agent[c] = "call" /\ "server" \notin loaded
  /\ Answer(c, "error")
  /\ UNCHANGED <<config, main, conn, out, seen, known, faults>>

(* The PEP before the operation lets it run, fails it or skips it.         *)
PrePep(c) ==
  /\ agent[c] = "call" /\ "server" \in loaded
  /\ Fire(c)
  /\ \/ agent' = [agent EXCEPT ![c] = "run"] /\ UNCHANGED reply
     \/ Answer(c, "error")
     \/ Answer(c, out[c])
  /\ UNCHANGED <<config, main, conn, out, known, faults>>

rs_hello_world(c) ==
  /\ agent[c] = "run"
  /\ out' = [out EXCEPT ![c] = "answer"]
  /\ agent' = [agent EXCEPT ![c] = "after"]
  /\ UNCHANGED <<config, main, conn, seen, reply, known, faults>>

PostPep(c) ==
  /\ agent[c] = "after"
  /\ Fire(c)
  /\ Answer(c, "error") \/ Answer(c, out[c])
  /\ UNCHANGED <<config, main, conn, out, known, faults>>

(* An idle agent reads the end of its connection, whichever it is.         *)
AgentEnds(c) ==
  /\ agent[c] = "idle" /\ conn[c] \in {"closed", "dropped", "broken"}
  /\ agent' = [agent EXCEPT ![c] = "ended"]
  /\ UNCHANGED <<config, main, conn, out, seen, reply, known, faults>>

Agent(c) ==
  Unmatched(c) \/ PrePep(c) \/ rs_hello_world(c) \/ PostPep(c) \/ AgentEnds(c)

-----------------------------------------------------------------------------
Break(c) ==
  /\ conn[c] = "open" /\ faults < MaxFaults
  /\ conn' = [conn EXCEPT ![c] = "broken"]
  /\ faults' = faults + 1
  /\ UNCHANGED <<config, main, server, known>>

Kill(c) ==
  /\ pc[c] # "done" /\ faults < MaxFaults
  /\ DropConn(c)
  /\ Exit(c, "killed")
  /\ faults' = faults + 1
  /\ UNCHANGED <<config, printed, server, known>>

Next == \E c \in Clients : Main(c) \/ Agent(c) \/ Break(c) \/ Kill(c)

(* Processes that can go on do; nobody has to break or kill anything.      *)
Fairness == \A c \in Clients : WF_vars(Main(c)) /\ WF_vars(Agent(c))

Spec == Init /\ [][Next]_vars
FairSpec == Spec /\ Fairness

-----------------------------------------------------------------------------
(* Every variable has its type, and a PEP sees the out parameter at most   *)
(* before and after the operation.                                         *)
TypeOK ==
  /\ public \subseteq Clients /\ known \subseteq Clients
  /\ loaded \subseteq {"client", "server"}
  /\ pc \in [Clients -> {"env", "connect", "login", "request", "wait", "disconnect", "done"}]
  /\ code \in [Clients -> {"none", "0", "1", "2", "7", "killed"}]
  /\ printed \in [Clients -> {"nothing", "answer", "null", "failed"}]
  /\ conn \in [Clients -> {"none", "open", "closed", "dropped", "broken"}]
  /\ agent \in [Clients -> {"none", "idle", "call", "run", "after", "ended"}]
  /\ out \in [Clients -> {"null", "answer"}]
  /\ reply \in [Clients -> {"none", "error", "null", "answer"}]
  /\ seen \in [Clients -> {Nothing, Before, Both}]
  /\ \A c \in Clients : (pc[c] = "done") <=> (code[c] # "none")
  /\ faults \in 0 .. MaxFaults

(* A client prints the values only if rs_hello_world has run for it and    *)
(* both PEPs of its call have fired around it, whatever the PEPs decide    *)
(* and the connection does (main and call_helloInp_helloOut).              *)
PrintedRan ==
  \A c \in Clients : printed[c] = "answer" => seen[c] = Both

(* The plugin asks for no authentication (NO_USER_AUTH), so it is main     *)
(* that must keep a request from being sent by a user who is not public    *)
(* and has not logged in.                                                  *)
CallsKnown ==
  \A c \in Clients : agent[c] \in {"call", "run", "after"} => c \in public \cup known

(* An agent is left without an rcDisconnect by a main that was not killed  *)
(* only after a failed request, which main says, with exit status 0.       *)
LeftAfterFailure ==
  \A c \in Clients : conn[c] = "dropped" =>
    code[c] = "killed" \/ (code[c] = "0" /\ printed[c] = "failed")

(* Every process ends and leaves no agent behind, whichever path main      *)
(* takes and whatever breaks.                                              *)
AgentsEnd ==
  \A c \in Clients : <>[](pc[c] = "done" /\ agent[c] \in {"none", "ended"})
=============================================================================
