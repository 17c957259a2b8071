--------------------------- MODULE HelloApiProofs ---------------------------
(***************************************************************************)
(* Theorems about HelloApi for any set of clients and any number of        *)
(* failures: what is printed was computed, who calls has logged in, and    *)
(* which clients leave an agent without a word.                            *)
(***************************************************************************)
EXTENDS HelloApi, SequenceTheorems, TLAPS

(* How far the one call of a client has come.  Before it is sent nothing   *)
(* of it has happened; then the operation runs once, between the PEPs.     *)
NotSent(c) == out[c] = "null" /\ seen[c] = Nothing /\ reply[c] = "none"

CallStage(c) ==
  /\ pc[c] \in {"env", "connect", "login", "request"} =>
       agent[c] \in {"none", "idle", "ended"} /\ NotSent(c)
  /\ agent[c] = "none" => NotSent(c)
  /\ agent[c] = "call" => NotSent(c)
  /\ agent[c] = "run" => out[c] = "null" /\ seen[c] = Before
  /\ agent[c] = "after" => out[c] = "answer" /\ seen[c] = Before
  /\ reply[c] = "answer" => seen[c] = Both
  /\ printed[c] = "answer" => seen[c] = Both

(* Only who is public or has logged in is past the login, and so sends a   *)
(* request.                                                                *)
Permitted(c) ==
  pc[c] = "request" \/ agent[c] \in {"call", "run", "after"} => c \in public \cup known

Left(c) ==
  conn[c] = "dropped" => code[c] = "killed" \/ (code[c] = "0" /\ printed[c] = "failed")

ClientInv(c) == CallStage(c) /\ Permitted(c) /\ Left(c)
HelloInv     == TypeOK /\ \A c \in Clients : ClientInv(c)

(* What a step of one client leaves to another client.                     *)
Untouched(d) ==
  /\ pc'[d] = pc[d] /\ code'[d] = code[d] /\ printed'[d] = printed[d] /\ conn'[d] = conn[d]
  /\ agent'[d] = agent[d] /\ out'[d] = out[d] /\ seen'[d] = seen[d] /\ reply'[d] = reply[d]
  /\ d \in public \cup known => (d \in public \cup known)'

(* A client nothing of which changes keeps its part of the invariant.      *)
LEMMA UntouchedKept ==
  ASSUME NEW d \in Clients, ClientInv(d), Untouched(d)
  PROVE  ClientInv(d)'
  BY DEF ClientInv, CallStage, NotSent, Permitted, Left, Untouched

(* Appending a second element to a sequence of one.                        *)
LEMMA AppendSecond ==
  ASSUME NEW S, NEW a \in S, NEW b \in S
  PROVE  Append(<<a>>, b) = <<a, b>>
<1> DEFINE s == <<a>>
           u == <<a, b>>
           t == Append(s, b)
<1>1. s \in Seq(S) /\ Len(s) = 1 /\ s[1] = a
  OBVIOUS
<1>2. u \in Seq(S) /\ Len(u) = 2 /\ u[1] = a /\ u[2] = b
  OBVIOUS
<1> HIDE DEF s, u
<1>3. t \in Seq(S)
  BY <1>1, AppendProperties
<1>4. Len(t) = Len(s) + 1
  BY <1>1, AppendProperties
<1>5. t[1] = a
  BY <1>1, AppendProperties
<1>6. t[Len(s) + 1] = b
  BY <1>1, AppendProperties
<1> HIDE DEF t
<1>7. Len(t) = 2 /\ t[2] = b
  BY <1>1, <1>4, <1>6
<1>8. \A i \in 1 .. Len(t) : t[i] = u[i]
  <2> TAKE i \in 1 .. Len(t)
  <2>1. i = 1 \/ i = 2
    BY <1>7
  <2> QED BY <1>2, <1>5, <1>7, <2>1
<1>9. t = u
  BY <1>2, <1>3, <1>7, <1>8, SeqEqual
<1> QED BY <1>9 DEF t, u, s

(* The three contents of seen differ.                                      *)
LEMMA Distinct == Nothing # Both /\ Before # Both
<1>1. Len(Nothing) = 0 /\ Len(Before) = 1 /\ Len(Both) = 2
  BY DEF Nothing, Before, Both
<1> QED BY <1>1

(* What a PEP is shown: an out parameter that is not set before the        *)
(* operation, and the values after it.                                     *)
LEMMA PreFire ==
  ASSUME HelloInv, NEW c \in Clients, PrePep(c)
  PROVE  seen' = [seen EXCEPT ![c] = Before]
<1>1. out[c] = "null" /\ seen[c] = Nothing /\ Fire(c)
  BY DEF PrePep, HelloInv, ClientInv, CallStage, NotSent
<1>2. serialize_helloOut(out[c]) = "null_value"
  BY <1>1 DEF serialize_helloOut
<1>3. Append(Nothing, "null_value") = Before
  BY DEF Before, Nothing
<1> QED BY <1>1, <1>2, <1>3 DEF Fire

(* The policy after the operation is given the answer, and goes second.    *)
LEMMA PostFire ==
  ASSUME HelloInv, NEW c \in Clients, PostPep(c)
  PROVE  seen' = [seen EXCEPT ![c] = Both]
<1>1. out[c] = "answer" /\ seen[c] = Before /\ Fire(c)
  BY DEF PostPep, HelloInv, ClientInv, CallStage
<1>2. serialize_helloOut(out[c]) = "this that value"
  BY <1>1 DEF serialize_helloOut
<1>3. Append(Before, "this that value") = Both
  <2>1. \A a, b \in {"null_value", "this that value"} : Append(<<a>>, b) = <<a, b>>
    BY AppendSecond
  <2>2. Append(<<"null_value">>, "this that value") = <<"null_value", "this that value">>
    BY <2>1, Zenon
  <2> QED BY <2>2 DEF Before, Both
<1> QED BY <1>1, <1>2, <1>3 DEF Fire

-----------------------------------------------------------------------------
(* What a client can do or suffer.                                         *)
Step(c) == Main(c) \/ Agent(c) \/ Break(c) \/ Kill(c)

(* The number of failures stays in its bound.                              *)
LEMMA FaultsType ==
  ASSUME HelloInv, NEW c \in Clients, Break(c) \/ Kill(c)
  PROVE  faults' \in 0 .. MaxFaults
<1>1. faults \in 0 .. MaxFaults
  BY DEF HelloInv, TypeOK
<1> QED BY <1>1, MaxFaultsAssumption DEF Break, Kill

(* A step keeps the types; the PEPs only see what CallStage says.          *)
LEMMA TypeStep ==
  ASSUME HelloInv, NEW c \in Clients, Step(c)
  PROVE  TypeOK'
<1> USE DEF HelloInv, TypeOK, config, server, main
<1>1. CASE GetEnv(c)
  <2>1. CASE Goto(c, "connect")
    BY <1>1, <2>1 DEF GetEnv, Goto
  <2>2. CASE Exit(c, "1")
    BY <1>1, <2>2 DEF GetEnv, Exit
  <2> QED BY <1>1, <2>1, <2>2 DEF GetEnv
<1>2. CASE Connect(c)
  BY <1>2 DEF Connect, Goto
<1>3. CASE ConnectFails(c)
  BY <1>3 DEF ConnectFails, Exit
<1>4. CASE Login(c)
  BY <1>4 DEF Login, Goto
<1>5. CASE LoginFails(c)
  BY <1>5 DEF LoginFails, rcDisconnect, EndConn, Exit
<1>6. CASE Request(c)
  BY <1>6 DEF Request, Goto
<1>7. CASE RequestFails(c)
  BY <1>7 DEF RequestFails, Failed, DropConn, EndConn, Exit
<1>8. CASE Show(c)
  BY <1>8 DEF Show, Words, Goto
<1>9. CASE Disconnect(c)
  BY <1>9 DEF Disconnect, rcDisconnect, EndConn, Exit
<1>10. CASE Unmatched(c)
  BY <1>10 DEF Unmatched, Answer
<1>11. CASE PrePep(c)
  BY <1>11, PreFire DEF PrePep, Answer
<1>12. CASE rs_hello_world(c)
  BY <1>12 DEF rs_hello_world
<1>13. CASE PostPep(c)
  BY <1>13, PostFire DEF PostPep, Answer
<1>14. CASE AgentEnds(c)
  BY <1>14 DEF AgentEnds
<1>15. CASE Break(c)
  BY <1>15, FaultsType DEF Break
<1>16. CASE Kill(c)
  <2>1. /\ pc' \in [Clients -> {"env", "connect", "login", "request", "wait", "disconnect", "done"}]
        /\ code' \in [Clients -> {"none", "0", "1", "2", "7", "killed"}]
        /\ \A k \in Clients : (pc'[k] = "done") <=> (code'[k] # "none")
    BY <1>16 DEF Kill, Exit
  <2>2. conn' \in [Clients -> {"none", "open", "closed", "dropped", "broken"}]
    BY <1>16 DEF Kill, DropConn, EndConn
  <2>3. UNCHANGED <<config, printed, server, known>>
    BY <1>16 DEF Kill
  <2>4. faults' \in 0 .. MaxFaults
    BY <1>16, FaultsType
  <2> QED BY <2>1, <2>2, <2>3, <2>4
<1> HIDE DEF HelloInv, TypeOK, config, server, main
<1> QED
  BY <1>1, <1>2, <1>3, <1>4, <1>5, <1>6, <1>7, <1>8, <1>9, <1>10, <1>11, <1>12, <1>13,
     <1>14, <1>15, <1>16 DEF Step, Main, Agent

(* The client that takes the step keeps to the stages of its call.         *)
LEMMA ClientStep ==
  ASSUME HelloInv, NEW c \in Clients, Step(c)
  PROVE  ClientInv(c)'
<1> USE DEF HelloInv, TypeOK, ClientInv, CallStage, NotSent, Permitted, Left, config, server, main
<1>1. CASE GetEnv(c)
  BY <1>1 DEF GetEnv, Goto, Exit
<1>2. CASE Connect(c)
  BY <1>2 DEF Connect, Goto
<1>3. CASE ConnectFails(c)
  BY <1>3 DEF ConnectFails, Exit
<1>4. CASE Login(c)
  BY <1>4 DEF Login, Goto
<1>5. CASE LoginFails(c)
  BY <1>5 DEF LoginFails, rcDisconnect, EndConn, Exit
<1>6. CASE Request(c)
  BY <1>6 DEF Request, Goto
<1>7. CASE RequestFails(c)
  BY <1>7 DEF RequestFails, Failed, DropConn, EndConn, Exit
<1>8. CASE Show(c)
  BY <1>8 DEF Show, Words, Goto
<1>9. CASE Disconnect(c)
  BY <1>9 DEF Disconnect, rcDisconnect, EndConn, Exit
<1>10. CASE Unmatched(c)
  BY <1>10 DEF Unmatched, Answer
<1>11. CASE PrePep(c)
  BY <1>11, PreFire, Distinct DEF PrePep, Answer
<1>12. CASE rs_hello_world(c)
  BY <1>12 DEF rs_hello_world
<1>13. CASE PostPep(c)
  BY <1>13, PostFire, Distinct DEF PostPep, Answer
<1>14. CASE AgentEnds(c)
  BY <1>14 DEF AgentEnds
<1>15. CASE Break(c)
  BY <1>15 DEF Break
<1>16. CASE Kill(c)
  BY <1>16 DEF Kill, DropConn, EndConn, Exit
<1> QED
  BY <1>1, <1>2, <1>3, <1>4, <1>5, <1>6, <1>7, <1>8, <1>9, <1>10, <1>11, <1>12, <1>13,
     <1>14, <1>15, <1>16 DEF Step, Main, Agent

(* Other clients do not notice.                                            *)
LEMMA OthersStep ==
  ASSUME HelloInv, NEW c \in Clients, Step(c), NEW d \in Clients \ {c}
  PROVE  Untouched(d)
<1> USE DEF HelloInv, TypeOK, Untouched, config, server, main
<1>1. CASE GetEnv(c)
  BY <1>1 DEF GetEnv, Goto, Exit
<1>2. CASE Connect(c)
  BY <1>2 DEF Connect, Goto
<1>3. CASE ConnectFails(c)
  BY <1>3 DEF ConnectFails, Exit
<1>4. CASE Login(c)
  BY <1>4 DEF Login, Goto
<1>5. CASE LoginFails(c)
  BY <1>5 DEF LoginFails, rcDisconnect, EndConn, Exit
<1>6. CASE Request(c)
  BY <1>6 DEF Request, Goto
<1>7. CASE RequestFails(c)
  BY <1>7 DEF RequestFails, Failed, DropConn, EndConn, Exit
<1>8. CASE Show(c)
  BY <1>8 DEF Show, Words, Goto
<1>9. CASE Disconnect(c)
  BY <1>9 DEF Disconnect, rcDisconnect, EndConn, Exit
<1>10. CASE Unmatched(c)
  BY <1>10 DEF Unmatched, Answer
<1>11. CASE PrePep(c)
  BY <1>11, PreFire DEF PrePep, Answer
<1>12. CASE rs_hello_world(c)
  BY <1>12 DEF rs_hello_world
<1>13. CASE PostPep(c)
  BY <1>13, PostFire DEF PostPep, Answer
<1>14. CASE AgentEnds(c)
  BY <1>14 DEF AgentEnds
<1>15. CASE Break(c)
  BY <1>15 DEF Break
<1>16. CASE Kill(c)
  BY <1>16 DEF Kill, DropConn, EndConn, Exit
<1> QED
  BY <1>1, <1>2, <1>3, <1>4, <1>5, <1>6, <1>7, <1>8, <1>9, <1>10, <1>11, <1>12, <1>13,
     <1>14, <1>15, <1>16 DEF Step, Main, Agent

-----------------------------------------------------------------------------
(* The stages of a call, and with them all that follows, are invariant.    *)
THEOREM HelloInvariant == Spec => []HelloInv
<1>1. Init => HelloInv
  BY MaxFaultsAssumption
     DEF Init, HelloInv, TypeOK, ClientInv, CallStage, NotSent, Permitted, Left
<1>2. HelloInv /\ [Next]_vars => HelloInv'
  <2>1. ASSUME HelloInv, UNCHANGED vars PROVE HelloInv'
    BY <2>1 DEF vars, config, main, server, HelloInv, TypeOK, ClientInv, CallStage, NotSent,
                Permitted, Left
  <2>2. ASSUME HelloInv, NEW c \in Clients, Step(c)
        PROVE  HelloInv'
    <3>1. TypeOK' /\ ClientInv(c)' /\ \A d \in Clients \ {c} : Untouched(d)
      BY <2>2, TypeStep, ClientStep, OthersStep
    <3> QED BY <2>2, <3>1, UntouchedKept DEF HelloInv
  <2> QED BY <2>1, <2>2 DEF Next, Step
<1> QED BY <1>1, <1>2, PTL DEF Spec

(* Every variable keeps its type, and no PEP fires twice for a call.       *)
THEOREM TypeCorrect == Spec => []TypeOK
<1>1. HelloInv => TypeOK
  BY DEF HelloInv
<1> QED BY <1>1, HelloInvariant, PTL

(* A client prints values only if rs_hello_world has run for it between    *)
(* both PEPs.                                                              *)
THEOREM PrintedHasRun == Spec => []PrintedRan
<1>1. HelloInv => PrintedRan
  BY DEF HelloInv, ClientInv, CallStage, PrintedRan
<1> QED BY <1>1, HelloInvariant, PTL

(* No request of a user who is not public and has not logged in is ever    *)
(* handled.                                                                *)
THEOREM CallersKnown == Spec => []CallsKnown
<1>1. HelloInv => CallsKnown
  BY DEF HelloInv, ClientInv, Permitted, CallsKnown
<1> QED BY <1>1, HelloInvariant, PTL

(* Only a client that was killed, or that says its request failed, leaves  *)
(* its agent without rcDisconnect.                                         *)
THEOREM LeftOnlyAfterFailure == Spec => []LeftAfterFailure
<1>1. HelloInv => LeftAfterFailure
  BY DEF HelloInv, ClientInv, Left, LeftAfterFailure
<1> QED BY <1>1, HelloInvariant, PTL
=============================================================================
