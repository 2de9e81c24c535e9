-------------------------------- MODULE Host --------------------------------
(***************************************************************************)
(* The daemon's single thread: the registration server, the control server *)
(* and the step of the host that alternates between them                   *)
(* (src/src/registration_linux.c, src/src/control_linux.c,                 *)
(* src/src/host_linux.c).                                                  *)
(*                                                                         *)
(* A phase of the step visits the entries of a table that were of interest *)
(* when the phase began; work holds those that it has still to visit.  Apps*)
(* and callers act at any time in between.  The loop is reduced to what the*)
(* servers see of it: its executions complete at some time, it closes      *)
(* Action connections, and it is polled only where the servers poll it.    *)
(* An error of the loop ends the host and is the subject of the loop       *)
(* modules.                                                                *)
(***************************************************************************)
EXTENDS Integers, FiniteSets

CONSTANTS
  Action,          \* the Actions of the image
  Conn, Caller,    \* app and caller processes, one connection each at a time
  None,            \* no connection, no caller
  MaxPending,      \* HERMAS_REGISTRATION_MAX_PENDING
  MaxClients,      \* HERMAS_CONTROL_MAX_CLIENTS
  MaxSlots,        \* HERMAS_DAEMON_MAX_EXECUTIONS
  MaxId,           \* bound: execution ids that callers use
  FirstId,         \* next_execution_id of the journal at startup
  Recovered        \* executions whose saga is resumed at startup

Exec   == 1 .. MaxId
Client == 1 .. MaxClients

ASSUME HostAssumption ==
  /\ MaxPending \in Nat \ {0} /\ MaxClients \in Nat \ {0} /\ MaxSlots \in Nat \ {0}
  /\ MaxId \in Nat /\ FirstId \in 1 .. MaxId + 1
  /\ Recovered \subseteq 1 .. FirstId - 1
  /\ Cardinality(Recovered) <= MaxSlots
  /\ None \notin Conn \cup Caller
  /\ {"absent", "new", "none", "bad"} \cap Action = {}

\* A packet that hermas_control_submit cannot use: malformed, too long, or with an
\* input that the image does not take.
Unusable == MaxId + 1

VARIABLES
  fd,        \* registry: the connection of each Action
  pending,   \* registration table: absent, new, or the Action that is validated
  conn,      \* the app's end of a connection
  frame,     \* what the app has sent and the server has not read
  client,    \* control table: state, caller and execution id of an entry
  caller,    \* the caller's end of a connection
  request,   \* what the caller has sent and the server has not read
  asked,     \* history: the first execution asked for over the connection, or 0
  slot,      \* executions of the loop
  floor,     \* minimum_execution_id
  recovered, \* recovered_execution_ids
  pc, work

regVars  == <<fd, pending, conn, frame>>
ctlVars  == <<client, caller, request, asked>>
loopVars == <<slot, floor, recovered>>
pcVars   == <<pc, work>>
vars == <<regVars, ctlVars, loopVars, pcVars>>

NoClient == [state |-> "absent", who |-> None, id |-> 0]

TypeOK ==
  /\ fd \in [Action -> Conn \cup {None}]
  /\ pending \in [Conn -> {"absent", "new"} \cup Action]
  /\ Cardinality({x \in Conn : pending[x] # "absent"}) <= MaxPending
  /\ conn \in [Conn -> {"idle", "queued", "open", "gone"}]
  /\ frame \in [Conn -> {"none", "bad"} \cup Action]
  /\ client \in [Client -> [state : {"absent", "new", "admitted"},
                            who : Caller \cup {None}, id : {0} \cup Exec]]
  /\ caller \in [Caller -> {"idle", "queued", "open", "gone"}]
  /\ request \in [Caller -> 0 .. Unusable]
  /\ asked \in [Caller -> {0} \cup Exec]
  /\ slot \in [Exec -> {"absent", "running", "complete"}]
  /\ Cardinality({e \in Exec : slot[e] # "absent"}) <= MaxSlots
  /\ floor \in 1 .. MaxId + 1
  /\ recovered \subseteq Exec
  /\ pc \in {"ack", "read", "reack", "loop", "give", "take", "reloop", "regive",
             "reap", "accept", "welcome"}
  /\ work \subseteq Conn \/ work \subseteq Client \/ work \subseteq Exec

\* hermas_host_open, after restore_startup_state
Init ==
  /\ fd = [a \in Action |-> None]
  /\ pending = [x \in Conn |-> "absent"]
  /\ conn = [x \in Conn |-> "idle"] /\ frame = [x \in Conn |-> "none"]
  /\ client = [k \in Client |-> NoClient]
  /\ caller = [c \in Caller |-> "idle"] /\ request = [c \in Caller |-> 0]
  /\ asked = [c \in Caller |-> 0]
  /\ slot = [e \in Exec |-> IF e \in Recovered THEN "running" ELSE "absent"]
  /\ floor = FirstId /\ recovered = Recovered
  /\ pc = "ack" /\ work = {}

Validated == {x \in Conn : pending[x] \in Action}
AllRegistered == \A a \in Action : fd[a] # None

Visited(x) == work' = work \ {x} /\ UNCHANGED pc

\* An entry for which flush_acknowledgements, flush_results or reap_recovered
\* returns an error.  The host ends: no visit of the entry is possible.
Fails ==
  \/ pc \in {"ack", "reack"}   /\ \E x \in work : fd[pending[x]] # None
  \/ pc \in {"give", "regive"} /\ \E k \in work : slot[client[k].id] = "absent"
  \/ pc = "reap"               /\ \E e \in work : slot[e] = "absent"

-----------------------------------------------------------------------------
(* The registration server.                                                *)

\* close_client, reject_client: the app is free to connect again.
DropPending(x) ==
  /\ pending' = [pending EXCEPT ![x] = "absent"]
  /\ conn' = [conn EXCEPT ![x] = "idle"]
  /\ frame' = [frame EXCEPT ![x] = "none"]

\* flush_acknowledgements, one entry: REGISTER_OK is sent and the Action has a
\* descriptor ...
Acknowledge(x) ==
  /\ pc \in {"ack", "reack"} /\ x \in work /\ conn[x] = "open"
  /\ fd[pending[x]] = None
  /\ fd' = [fd EXCEPT ![pending[x]] = x]
  /\ pending' = [pending EXCEPT ![x] = "absent"]
  /\ Visited(x)
  /\ UNCHANGED <<conn, frame, ctlVars, loopVars>>

\* ... or the socket is full ...
AcknowledgeLater(x) ==
  /\ pc \in {"ack", "reack"} /\ x \in work /\ conn[x] = "open" /\ fd[pending[x]] = None
  /\ Visited(x)
  /\ UNCHANGED <<regVars, ctlVars, loopVars>>

\* ... or the app has closed its end.
AcknowledgeFails(x) ==
  /\ pc \in {"ack", "reack"} /\ x \in work /\ conn[x] = "gone" /\ fd[pending[x]] = None
  /\ DropPending(x) /\ Visited(x)
  /\ UNCHANGED <<fd, ctlVars, loopVars>>

\* hermas_registration_server_step: a connection that was hung up is closed.
HangUp(x) ==
  /\ pc = "read" /\ x \in work /\ conn[x] = "gone"
  /\ DropPending(x) /\ Visited(x)
  /\ UNCHANGED <<fd, ctlVars, loopVars>>

ValidIfUnregistered(x, a) == a \in Action /\ fd[a] = None

\* receive_registration, action_is_pending: the Action has no descriptor and no
\* other entry is about to get it.
Valid(x, a) ==
  /\ a \in Action /\ fd[a] = None
  /\ \A y \in Conn \ {x} : pending[y] # a

ReadRegistration(x) ==
  /\ pc = "read" /\ x \in work /\ conn[x] = "open"
  /\ \/ /\ Valid(x, frame[x])
        /\ pending' = [pending EXCEPT ![x] = frame[x]]
        /\ frame' = [frame EXCEPT ![x] = "none"]
        /\ UNCHANGED conn
     \/ /\ ~Valid(x, frame[x])
        /\ DropPending(x)
  /\ Visited(x)
  /\ UNCHANGED <<fd, ctlVars, loopVars>>

\* hermas_registration_server_accept: a full table turns the app away.
AcceptApp(x) ==
  /\ pc = "accept" /\ conn[x] = "queued" /\ pc' = "welcome"
  /\ \/ /\ Cardinality({y \in Conn : pending[y] # "absent"}) < MaxPending
        /\ pending' = [pending EXCEPT ![x] = "new"]
        /\ conn' = [conn EXCEPT ![x] = "open"]
        /\ UNCHANGED frame
     \/ /\ Cardinality({y \in Conn : pending[y] # "absent"}) = MaxPending
        /\ DropPending(x)
  /\ UNCHANGED <<fd, ctlVars, loopVars, work>>

-----------------------------------------------------------------------------
(* The control server.                                                     *)

\* hermas_daemon_loop_poll, from advance_loop: executions complete and Action
\* connections are dropped.
LoopPoll ==
  /\ pc \in {"loop", "reloop"}
  /\ \E done \in SUBSET {e \in Exec : slot[e] = "running"} :
       slot' = [e \in Exec |-> IF e \in done THEN "complete" ELSE slot[e]]
  /\ \E lost \in SUBSET {a \in Action : fd[a] # None} :
       /\ fd' = [a \in Action |-> IF a \in lost THEN None ELSE fd[a]]
       /\ conn' = [x \in Conn |-> IF \E a \in lost : fd[a] = x THEN "idle" ELSE conn[x]]
  /\ pc' = IF pc = "loop" THEN "give" ELSE "regive"
  /\ work' = {k \in Client : client[k].state = "admitted"}
  /\ UNCHANGED <<pending, frame, ctlVars, floor, recovered>>

\* close_descriptor: the caller is free to connect again.
CloseCaller(k) ==
  LET Freed(f, v) == [c \in Caller |-> IF c = client[k].who THEN v ELSE f[c]] IN
  /\ caller' = Freed(caller, "idle")
  /\ request' = Freed(request, 0)
  /\ asked' = Freed(asked, 0)

\* clear_client
Clear(k) ==
  /\ CloseCaller(k)
  /\ client' = [client EXCEPT ![k] = NoClient]

\* hermas_control_release
Release(k) ==
  /\ slot' = [slot EXCEPT ![client[k].id] = "absent"]
  /\ Clear(k)
  /\ UNCHANGED <<floor, recovered>>

Giving(k) == pc \in {"give", "regive"} /\ k \in work

\* flush_results, one entry: the execution is not complete ...
GiveNothing(k) ==
  /\ Giving(k) /\ slot[client[k].id] = "running"
  /\ Visited(k)
  /\ UNCHANGED <<regVars, ctlVars, loopVars>>

\* ... or the result is sent ...
GiveResult(k) ==
  /\ Giving(k) /\ slot[client[k].id] = "complete"
  /\ client[k].who \in Caller /\ caller[client[k].who] = "open"
  /\ Release(k) /\ Visited(k)
  /\ UNCHANGED regVars

\* ... or the socket is full ...
GiveLater(k) ==
  /\ Giving(k) /\ slot[client[k].id] = "complete"
  /\ client[k].who \in Caller /\ caller[client[k].who] = "open"
  /\ Visited(k)
  /\ UNCHANGED <<regVars, ctlVars, loopVars>>

\* ... or nobody is there to read it.
GiveNobody(k) ==
  /\ Giving(k) /\ slot[client[k].id] = "complete"
  /\ client[k].who \in Caller => caller[client[k].who] = "gone"
  /\ Release(k) /\ Visited(k)
  /\ UNCHANGED regVars

DetachAndClear(k) ==
  /\ pc = "take" /\ k \in work /\ client[k].state = "admitted"
  /\ Clear(k) /\ Visited(k)
  /\ UNCHANGED <<regVars, loopVars>>

DetachKeepingDescriptor(k) ==
  /\ pc = "take" /\ k \in work /\ client[k].state = "admitted"
  /\ CloseCaller(k)
  /\ Visited(k)
  /\ UNCHANGED <<client, regVars, loopVars>>

\* hermas_control_server_step: traffic or the end of a caller whose execution is
\* admitted detaches the caller from it.
Detach(k) ==
  /\ pc = "take" /\ k \in work /\ client[k].state = "admitted"
  /\ CloseCaller(k)
  /\ client' = [client EXCEPT ![k].who = None]
  /\ Visited(k)
  /\ UNCHANGED <<regVars, loopVars>>

\* receive_execute: the caller is gone without a request, or the packet does not
\* fit the buffer ...
Forget(k) ==
  /\ pc = "take" /\ k \in work /\ client[k].state = "new"
  /\ request[client[k].who] \in {0, Unusable}
  /\ Clear(k) /\ Visited(k)
  /\ UNCHANGED <<regVars, loopVars>>

AdmissibleOverCapacity(e) ==
  /\ e \in Exec /\ e >= floor /\ slot[e] = "absent"
  /\ Cardinality({f \in Exec : slot[f] # "absent"}) <= MaxSlots

\* hermas_daemon_loop_admit
Admissible(e) ==
  /\ e \in Exec /\ e >= floor /\ slot[e] = "absent"
  /\ Cardinality({f \in Exec : slot[f] # "absent"}) < MaxSlots

\* ... or sends what hermas_control_submit refuses ...
Reject(k) ==
  /\ pc = "take" /\ k \in work /\ client[k].state = "new"
  /\ request[client[k].who] # 0 /\ ~Admissible(request[client[k].who])
  /\ Clear(k) /\ Visited(k)
  /\ UNCHANGED <<regVars, loopVars>>

\* ... or a request that is admitted.
Submit(k) ==
  LET c == client[k].who
      e == request[c]
  IN
  /\ pc = "take" /\ k \in work /\ client[k].state = "new"
  /\ Admissible(e)
  /\ slot' = [slot EXCEPT ![e] = "running"]
  /\ floor' = e + 1
  /\ client' = [client EXCEPT ![k] = [state |-> "admitted", who |-> c, id |-> e]]
  /\ request' = [request EXCEPT ![c] = 0]
  /\ Visited(k)
  /\ UNCHANGED <<caller, asked, recovered, regVars>>

\* hermas_control_server_accept; the host polls the control listener only while
\* every Action is registered.
AcceptCaller(c) ==
  /\ pc = "welcome" /\ AllRegistered /\ caller[c] = "queued"
  /\ \/ \E k \in Client :
          /\ client[k].state = "absent"
          /\ \A j \in 1 .. k - 1 : client[j].state # "absent"
          /\ client' = [client EXCEPT ![k] = [state |-> "new", who |-> c, id |-> 0]]
          /\ caller' = [caller EXCEPT ![c] = "open"]
          /\ UNCHANGED request
     \/ /\ \A k \in Client : client[k].state # "absent"
        /\ caller' = [caller EXCEPT ![c] = "idle"]
        /\ request' = [request EXCEPT ![c] = 0]
        /\ UNCHANGED client
  /\ pc' = "ack" /\ work' = Validated
  /\ UNCHANGED <<asked, regVars, loopVars>>

-----------------------------------------------------------------------------
(* The host.                                                               *)

\* reap_recovered, one entry
Reap(e) ==
  /\ pc = "reap" /\ e \in work
  /\ \/ /\ slot[e] = "running" /\ Visited(e)
        /\ UNCHANGED loopVars
     \/ /\ slot[e] = "complete" /\ Visited(e)
        /\ slot' = [slot EXCEPT ![e] = "absent"]
        /\ recovered' = recovered \ {e}
        /\ UNCHANGED floor
  /\ UNCHANGED <<regVars, ctlVars>>

\* hermas_host_step runs advance_servers twice, and polls the listeners between
\* the two unless a signal ends the step: a round may end without them.
SkipListeners ==
  /\ pc = "accept"
  /\ pc' = "ack" /\ work' = Validated
  /\ UNCHANGED <<regVars, ctlVars, loopVars>>

\* hermas_host_step and advance_servers: the order of the phases, and what each
\* of them visits.
Advance ==
  /\ work = {}
  /\ \/ pc = "ack" /\ pc' = "read"
        /\ work' = {x \in Conn : /\ pending[x] # "absent"
                                 /\ \/ conn[x] = "gone"
                                    \/ pending[x] = "new" /\ frame[x] # "none"}
     \/ pc = "read" /\ pc' = "reack"
        /\ work' = Validated
     \/ pc = "reack" /\ AllRegistered /\ pc' = "loop" /\ UNCHANGED work
     \/ pc = "reack" /\ ~AllRegistered /\ pc' = "accept" /\ UNCHANGED work
     \/ pc = "give" /\ pc' = "take"
        /\ work' = {k \in Client : /\ client[k].who \in Caller
                                   /\ \/ caller[client[k].who] = "gone"
                                      \/ request[client[k].who] # 0}
     \/ pc = "take" /\ pc' = "reloop" /\ UNCHANGED work
     \/ pc = "regive" /\ pc' = "reap"
        /\ work' = recovered
     \/ pc = "reap" /\ pc' = "accept" /\ UNCHANGED work
     \/ pc = "accept" /\ pc' = "welcome" /\ UNCHANGED work
        /\ \A x \in Conn : conn[x] # "queued"
     \/ pc = "welcome" /\ pc' = "ack"
        /\ (~AllRegistered \/ \A c \in Caller : caller[c] # "queued")
        /\ work' = Validated
  /\ UNCHANGED <<regVars, ctlVars, loopVars>>

-----------------------------------------------------------------------------
(* Apps and callers.  The daemon looks at all the sockets of a phase at    *)
(* once, when it polls them; what happens to them during the phase has the *)
(* effect that it would have before or after it.  A packet sent before the *)
(* connection is accepted counts as sent right after.                      *)

Outside == work = {}

\* hermas_edge_connect
AppConnects(x) ==
  /\ Outside
  /\ conn[x] = "idle"
  /\ conn' = [conn EXCEPT ![x] = "queued"]
  /\ UNCHANGED <<fd, pending, frame, ctlVars, loopVars, pcVars>>

AppSends(x, f) ==
  /\ Outside
  /\ conn[x] = "open" /\ frame[x] = "none"
  /\ pending[x] \in {"absent", "new"} /\ \A a \in Action : fd[a] # x
  /\ frame' = [frame EXCEPT ![x] = f]
  /\ UNCHANGED <<fd, pending, conn, ctlVars, loopVars, pcVars>>

\* What the app had sent is lost: a hang-up is handled before a packet.
AppCloses(x) ==
  /\ Outside
  /\ conn[x] = "open"
  /\ conn' = [conn EXCEPT ![x] = "gone"]
  /\ frame' = [frame EXCEPT ![x] = "none"]
  /\ UNCHANGED <<fd, pending, ctlVars, loopVars, pcVars>>

\* hermas_client_connect and hermas_client_execute
CallerConnects(c) ==
  /\ Outside
  /\ caller[c] = "idle"
  /\ caller' = [caller EXCEPT ![c] = "queued"]
  /\ UNCHANGED <<client, request, asked, regVars, loopVars, pcVars>>

\* The server takes any further packet for the end of the caller.
CallerSends(c, e) ==
  /\ Outside
  /\ caller[c] = "open" /\ request[c] = 0
  /\ request' = [request EXCEPT ![c] = e]
  /\ asked' = [asked EXCEPT ![c] = IF @ = 0 /\ e \in Exec THEN e ELSE @]
  /\ UNCHANGED <<client, caller, regVars, loopVars, pcVars>>

CallerCloses(c) ==
  /\ Outside
  /\ caller[c] = "open"
  /\ caller' = [caller EXCEPT ![c] = "gone"]
  /\ UNCHANGED <<client, request, asked, regVars, loopVars, pcVars>>

-----------------------------------------------------------------------------
Daemon ==
  \/ LoopPoll \/ Advance
  \/ \E x \in Conn : \/ AcceptApp(x) \/ Acknowledge(x) \/ AcknowledgeLater(x) \/ AcknowledgeFails(x)
                     \/ HangUp(x) \/ ReadRegistration(x)
  \/ \E k \in Client : \/ GiveNothing(k) \/ GiveResult(k) \/ GiveLater(k)
                       \/ GiveNobody(k) \/ Detach(k) \/ Forget(k) \/ Reject(k) \/ Submit(k)
  \/ \E c \in Caller : AcceptCaller(c)
  \/ \E e \in Exec : Reap(e)

Next ==
  \/ Daemon \/ SkipListeners
  \/ \E x \in Conn : \/ AppConnects(x) \/ AppCloses(x)
                     \/ \E f \in Action \cup {"bad"} : AppSends(x, f)
  \/ \E c \in Caller : \/ CallerConnects(c) \/ CallerCloses(c)
                       \/ \E e \in 1 .. Unusable : CallerSends(c, e)

Spec == Init /\ [][Next]_vars

-----------------------------------------------------------------------------
(* Properties.                                                             *)

\* No order of registrations, drops, requests and disconnects makes the host end
\* itself: an acknowledgement never finds its Action taken, and a result is
\* never collected from an execution that the loop does not have
\* (flush_acknowledgements, flush_results, reap_recovered).
HostKeepsRunning == ~Fails

Trackers(e) == {k \in Client : client[k].state = "admitted" /\ client[k].id = e}

\* "If a caller disconnects first, its execution remains tracked": an execution
\* of the loop belongs to exactly one entry of the control table or to the
\* recovered ones, so that its slot is released once (flush_results,
\* hermas_control_server_step, reap_recovered).
SlotsAreTracked ==
  \A e \in Exec :
    IF slot[e] = "absent" THEN Trackers(e) = {} /\ e \notin recovered
    ELSE Cardinality(Trackers(e)) = IF e \in recovered THEN 0 ELSE 1

\* The result of an entry goes to the caller that asked for it over this very
\* connection, never to one that has come back with another request
\* (flush_results, close_descriptor).
ReplyIsForSubmitter ==
  \A k \in Client : client[k].state = "admitted" /\ client[k].who # None
                     => asked[client[k].who] = client[k].id
=============================================================================
