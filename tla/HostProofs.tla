----------------------------- MODULE HostProofs -----------------------------
(***************************************************************************)
(* Theorems about Host, for any number of Actions, apps, callers, table    *)
(* entries, slots and recovered executions.                                *)
(*                                                                         *)
(* The invariant has one part per table: what the registration table       *)
(* promises the registry (RegInv), what the control table knows of its     *)
(* callers (CtlInv), who will release which slot (SlotInv), and that the   *)
(* entries a phase has still to visit are of the kind it visits (WorkInv). *)
(***************************************************************************)
EXTENDS Host, TLAPS, FiniteSetTheorems

Pending == {x \in Conn : pending[x] # "absent"}

\* The Action of a validated entry is free, and promised to this entry only.
RegInv ==
  /\ fd \in [Action -> Conn \cup {None}]
  /\ pending \in [Conn -> {"absent", "new"} \cup Action]
  /\ conn \in [Conn -> {"idle", "queued", "open", "gone"}]
  /\ frame \in [Conn -> {"none", "bad"} \cup Action]
  /\ IsFiniteSet(Pending) /\ Cardinality(Pending) <= MaxPending
  /\ \A x \in Conn : pending[x] \in Action => fd[pending[x]] = None
  /\ \A x, y \in Conn : pending[x] \in Action /\ pending[x] = pending[y] => x = y

Entry == [state : {"absent", "new", "admitted"}, who : Caller \cup {None}, id : {0} \cup Exec]

\* An entry has its caller to itself, and has noted what the caller asked for.
CtlInv ==
  /\ client \in [Client -> Entry]
  /\ caller \in [Caller -> {"idle", "queued", "open", "gone"}]
  /\ request \in [Caller -> 0 .. Unusable]
  /\ asked \in [Caller -> {0} \cup Exec]
  /\ \A k \in Client :
       /\ client[k].state = "absent" => client[k].who = None
       /\ client[k].state = "new" =>
            /\ client[k].who \in Caller
            /\ request[client[k].who] = 0 => asked[client[k].who] = 0
            /\ request[client[k].who] \in Exec => asked[client[k].who] = request[client[k].who]
       /\ client[k].state = "admitted" =>
            /\ client[k].id \in Exec
            /\ client[k].who \in Caller => asked[client[k].who] = client[k].id
       /\ client[k].who \in Caller => caller[client[k].who] \in {"open", "gone"}
  /\ \A j, k \in Client : client[j].who \in Caller /\ client[j].who = client[k].who => j = k
  /\ \A c \in Caller : caller[c] \in {"idle", "queued"} => request[c] = 0 /\ asked[c] = 0

Slots == {e \in Exec : slot[e] # "absent"}
Tracks(k, e) == client[k].state = "admitted" /\ client[k].id = e

\* Every slot has one party that will release it.
SlotInv ==
  /\ slot \in [Exec -> {"absent", "running", "complete"}]
  /\ Cardinality(Slots) <= MaxSlots
  /\ floor \in 1 .. MaxId + 1
  /\ recovered \subseteq Slots
  /\ \A k \in Client, e \in Exec : Tracks(k, e) => e \in Slots /\ e \notin recovered
  /\ \A j, k \in Client, e \in Exec : Tracks(j, e) /\ Tracks(k, e) => j = k
  /\ \A e \in Slots : e \in recovered \/ \E k \in Client : Tracks(k, e)

\* What a phase has still to visit is what it visits.
WorkInv ==
  /\ pc \in {"ack", "read", "reack", "loop", "give", "take", "reloop", "regive",
             "reap", "accept", "welcome"}
  /\ pc \in {"ack", "reack"} => work \subseteq Validated
  /\ pc = "read" => work \subseteq Pending
  /\ pc \in {"give", "regive"} => work \subseteq {k \in Client : client[k].state = "admitted"}
  /\ pc = "take" => work \subseteq Client
  /\ pc = "reap" => work \subseteq recovered
  /\ pc \in {"loop", "reloop", "accept", "welcome"} => work = {}

\* The inductive invariant.
IInv == RegInv /\ CtlInv /\ SlotInv /\ WorkInv

-----------------------------------------------------------------------------
(* The registration table *)

\* An entry that is dropped leaves the others as they are.
LEMMA DropKeeps ==
  ASSUME RegInv, NEW x \in Conn, DropPending(x), UNCHANGED fd
  PROVE  RegInv' /\ \A y \in Conn : pending'[y] = IF y = x THEN "absent" ELSE pending[y]
  <1>1. \A y \in Conn : pending'[y] = IF y = x THEN "absent" ELSE pending[y]
    BY DEF RegInv, DropPending
  <1>2. /\ fd' \in [Action -> Conn \cup {None}]
        /\ pending' \in [Conn -> {"absent", "new"} \cup Action]
        /\ conn' \in [Conn -> {"idle", "queued", "open", "gone"}]
        /\ frame' \in [Conn -> {"none", "bad"} \cup Action]
    BY DEF RegInv, DropPending
  <1>3. IsFiniteSet(Pending') /\ Cardinality(Pending') <= MaxPending
    <2>1. Pending' \subseteq Pending
      BY <1>1 DEF Pending
    <2>2. IsFiniteSet(Pending) /\ Cardinality(Pending) <= MaxPending
      BY DEF RegInv
    <2>3. IsFiniteSet(Pending') /\ Cardinality(Pending') <= Cardinality(Pending)
      BY <2>1, <2>2, FS_Subset
    <2>4. Cardinality(Pending) \in Nat /\ Cardinality(Pending') \in Nat /\ MaxPending \in Nat
      BY <2>2, <2>3, FS_CardinalityType, HostAssumption
    <2>5. QED
      BY <2>2, <2>3, <2>4
  <1>4. ASSUME NEW y \in Conn, pending'[y] \in Action PROVE fd'[pending'[y]] = None
    <2>1. pending'[y] = pending[y]
      BY <1>1, <1>4, HostAssumption
    <2>2. QED
      BY <1>4, <2>1 DEF RegInv
  <1>5. ASSUME NEW y \in Conn, NEW z \in Conn, pending'[y] \in Action, pending'[y] = pending'[z]
        PROVE  y = z
    <2>1. pending'[y] = pending[y] /\ pending'[z] = pending[z]
      BY <1>1, <1>5, HostAssumption
    <2>2. QED
      BY <1>5, <2>1 DEF RegInv
  <1>6. QED
    BY <1>1, <1>2, <1>3, <1>4, <1>5 DEF RegInv

\* What a change of one entry means for the rest of the phase: the entry is
\* visited, the others are still what they were.
LEMMA VisitedEntry ==
  ASSUME WorkInv, NEW x \in Conn, pc \in {"ack", "read", "reack"}, Visited(x),
         \A y \in Conn : y # x => pending'[y] = pending[y]
  PROVE  WorkInv'
  <1>1. pc' = pc /\ work' = work \ {x}
    BY DEF Visited
  <1>2. CASE pc \in {"ack", "reack"}
    <2>1. work' \subseteq Validated'
      BY <1>1, <1>2 DEF WorkInv, Validated
    <2>2. QED
      BY <1>1, <1>2, <2>1 DEF WorkInv
  <1>3. CASE pc = "read"
    <2>1. work' \subseteq Pending'
      BY <1>1, <1>3 DEF WorkInv, Pending
    <2>2. QED
      BY <1>1, <1>3, <2>1 DEF WorkInv
  <1>4. QED
    BY <1>2, <1>3

\* The tables are apart: a step of the registration server leaves the others.
LEMMA SameControl == ASSUME CtlInv, SlotInv, UNCHANGED <<ctlVars, loopVars>> PROVE CtlInv' /\ SlotInv'
  <1>1. UNCHANGED <<client, caller, request, asked, slot, floor, recovered>>
    BY DEF ctlVars, loopVars
  <1>2. CtlInv'
    BY <1>1 DEF CtlInv
  <1>3. SlotInv'
    BY <1>1 DEF SlotInv, Slots, Tracks
  <1>4. QED
    BY <1>2, <1>3

\* And the other way round.
LEMMA SameRegistry == ASSUME RegInv, UNCHANGED regVars PROVE RegInv'
  BY DEF RegInv, regVars, Pending

\* REGISTER_OK: the Action that was promised is given.
LEMMA AcknowledgeKeeps == ASSUME IInv, NEW x \in Conn, Acknowledge(x) PROVE IInv'
  <1>1. /\ pc \in {"ack", "reack"} /\ x \in work /\ fd' = [fd EXCEPT ![pending[x]] = x]
        /\ pending' = [pending EXCEPT ![x] = "absent"] /\ Visited(x)
        /\ UNCHANGED <<conn, frame>>
    BY DEF Acknowledge
  <1>2. RegInv /\ WorkInv /\ CtlInv /\ SlotInv
    BY DEF IInv
  <1>3. pending[x] \in Action
    BY <1>1, <1>2 DEF WorkInv, Validated
  <1>4. \A y \in Conn : pending'[y] = IF y = x THEN "absent" ELSE pending[y]
    BY <1>1, <1>2 DEF RegInv
  <1>5. \A a \in Action : fd'[a] = IF a = pending[x] THEN x ELSE fd[a]
    BY <1>1, <1>2 DEF RegInv
  <1>6. RegInv'
    <2>1. /\ fd' \in [Action -> Conn \cup {None}]
          /\ pending' \in [Conn -> {"absent", "new"} \cup Action]
          /\ conn' \in [Conn -> {"idle", "queued", "open", "gone"}]
          /\ frame' \in [Conn -> {"none", "bad"} \cup Action]
      BY <1>1, <1>2 DEF RegInv
    <2>2. IsFiniteSet(Pending') /\ Cardinality(Pending') <= MaxPending
      <3>1. Pending' \subseteq Pending
        BY <1>4 DEF Pending
      <3>2. IsFiniteSet(Pending) /\ Cardinality(Pending) <= MaxPending
        BY <1>2 DEF RegInv
      <3>3. IsFiniteSet(Pending') /\ Cardinality(Pending') <= Cardinality(Pending)
        BY <3>1, <3>2, FS_Subset
      <3>4. Cardinality(Pending) \in Nat /\ Cardinality(Pending') \in Nat /\ MaxPending \in Nat
        BY <3>2, <3>3, FS_CardinalityType, HostAssumption
      <3>5. QED
        BY <3>2, <3>3, <3>4
    <2>3. ASSUME NEW y \in Conn, pending'[y] \in Action
          PROVE  /\ y # x /\ pending'[y] = pending[y]
                 /\ fd'[pending'[y]] = None
      <3>1. y # x /\ pending'[y] = pending[y]
        BY <1>4, <2>3, HostAssumption
      <3>2. pending[y] # pending[x]
        BY <1>2, <1>3, <3>1 DEF RegInv
      <3>3. QED
        BY <1>2, <1>5, <2>3, <3>1, <3>2 DEF RegInv
    <2>4. ASSUME NEW y \in Conn, NEW z \in Conn, pending'[y] \in Action, pending'[y] = pending'[z]
          PROVE  y = z
      BY <1>2, <2>3, <2>4 DEF RegInv
    <2>5. QED
      BY <2>1, <2>2, <2>3, <2>4 DEF RegInv
  <1>7. WorkInv'
    BY <1>1, <1>2, <1>4, VisitedEntry
  <1>8. QED
    BY <1>2, <1>6, <1>7, SameControl DEF IInv, Acknowledge

\* A full socket changes nothing.
LEMMA AcknowledgeLaterKeeps == ASSUME IInv, NEW x \in Conn, AcknowledgeLater(x) PROVE IInv'
  <1>1. pc \in {"ack", "reack"} /\ Visited(x) /\ UNCHANGED <<regVars, ctlVars, loopVars>>
    BY DEF AcknowledgeLater
  <1>2. WorkInv'
    BY <1>1, VisitedEntry DEF IInv, regVars
  <1>3. QED
    BY <1>1, <1>2, SameRegistry, SameControl DEF IInv

\* An app that has gone gives its promise back, before or after the acknowledgement
\* was due.
LEMMA DroppedKeeps ==
  ASSUME IInv, NEW x \in Conn, pc \in {"ack", "read", "reack"}, DropPending(x), Visited(x),
         UNCHANGED <<fd, ctlVars, loopVars>>
  PROVE  IInv'
  <1>1. RegInv' /\ \A y \in Conn : pending'[y] = IF y = x THEN "absent" ELSE pending[y]
    BY DropKeeps DEF IInv
  <1>2. WorkInv'
    BY <1>1, VisitedEntry DEF IInv
  <1>3. QED
    BY <1>1, <1>2, SameControl DEF IInv

\* A registration is validated against the registry and the other entries.
LEMMA ReadRegistrationKeeps == ASSUME IInv, NEW x \in Conn, ReadRegistration(x) PROVE IInv'
  <1>1. pc = "read" /\ x \in work /\ Visited(x) /\ UNCHANGED <<fd, ctlVars, loopVars>>
    BY DEF ReadRegistration
  <1>2. CASE DropPending(x)
    BY <1>1, <1>2, DroppedKeeps
  <1>3. CASE /\ Valid(x, frame[x])
             /\ pending' = [pending EXCEPT ![x] = frame[x]]
             /\ frame' = [frame EXCEPT ![x] = "none"]
             /\ UNCHANGED conn
    <2>1. RegInv /\ WorkInv
      BY DEF IInv
    <2>2. \A y \in Conn : pending'[y] = IF y = x THEN frame[x] ELSE pending[y]
      BY <1>3, <2>1 DEF RegInv
    <2>3. frame[x] \in Action /\ fd[frame[x]] = None /\ \A y \in Conn \ {x} : pending[y] # frame[x]
      BY <1>3 DEF Valid
    <2>4. RegInv'
      <3>1. /\ fd' \in [Action -> Conn \cup {None}]
            /\ pending' \in [Conn -> {"absent", "new"} \cup Action]
            /\ conn' \in [Conn -> {"idle", "queued", "open", "gone"}]
            /\ frame' \in [Conn -> {"none", "bad"} \cup Action]
        BY <1>1, <1>3, <2>1, <2>3 DEF RegInv
      <3>2. Pending' = Pending
        <4>1. x \in Pending
          BY <1>1, <2>1 DEF WorkInv
        <4>2. frame[x] # "absent"
          BY <2>3, HostAssumption
        <4>3. QED
          BY <2>2, <4>1, <4>2 DEF Pending
      <3>3. ASSUME NEW y \in Conn, pending'[y] \in Action PROVE fd'[pending'[y]] = None
        BY <1>1, <2>1, <2>2, <2>3, <3>3 DEF RegInv
      <3>4. ASSUME NEW y \in Conn, NEW z \in Conn, pending'[y] \in Action, pending'[y] = pending'[z]
            PROVE  y = z
        BY <2>1, <2>2, <2>3, <3>4 DEF RegInv
      <3>5. QED
        BY <2>1, <3>1, <3>2, <3>3, <3>4 DEF RegInv
    <2>5. WorkInv'
      BY <1>1, <2>1, <2>2, VisitedEntry
    <2>6. QED
      BY <1>1, <2>4, <2>5, SameControl DEF IInv
  <1>4. QED
    BY <1>2, <1>3 DEF ReadRegistration

\* The registration table takes an app only while it has room.
LEMMA AcceptAppKeeps == ASSUME IInv, NEW x \in Conn, AcceptApp(x) PROVE IInv'
  <1>1. pc = "accept" /\ pc' = "welcome" /\ UNCHANGED <<fd, ctlVars, loopVars, work>>
    BY DEF AcceptApp
  <1>2. RegInv /\ WorkInv
    BY DEF IInv
  <1>3. WorkInv'
    BY <1>1, <1>2 DEF WorkInv
  <1>4. RegInv'
    <2>1. CASE DropPending(x)
      BY <1>1, <1>2, <2>1, DropKeeps
    <2>2. CASE /\ Cardinality(Pending) < MaxPending
               /\ pending' = [pending EXCEPT ![x] = "new"]
               /\ conn' = [conn EXCEPT ![x] = "open"]
               /\ UNCHANGED frame
      <3>1. \A y \in Conn : pending'[y] = IF y = x THEN "new" ELSE pending[y]
        BY <1>2, <2>2 DEF RegInv
      <3>2. /\ fd' \in [Action -> Conn \cup {None}]
            /\ pending' \in [Conn -> {"absent", "new"} \cup Action]
            /\ conn' \in [Conn -> {"idle", "queued", "open", "gone"}]
            /\ frame' \in [Conn -> {"none", "bad"} \cup Action]
        BY <1>1, <1>2, <2>2 DEF RegInv
      <3>3. IsFiniteSet(Pending') /\ Cardinality(Pending') <= MaxPending
        <4>1. Pending' = Pending \cup {x}
          BY <3>1 DEF Pending
        <4>2. IsFiniteSet(Pending)
          BY <1>2 DEF RegInv
        <4>3. /\ IsFiniteSet(Pending')
              /\ Cardinality(Pending') = IF x \in Pending THEN Cardinality(Pending)
                                         ELSE Cardinality(Pending) + 1
          BY <4>1, <4>2, FS_AddElement
        <4>4. Cardinality(Pending) \in Nat /\ MaxPending \in Nat
          BY <4>2, FS_CardinalityType, HostAssumption
        <4>5. QED
          BY <2>2, <4>3, <4>4
      <3>4. ASSUME NEW y \in Conn, pending'[y] \in Action PROVE y # x /\ pending'[y] = pending[y]
        BY <3>1, <3>4, HostAssumption
      <3>5. ASSUME NEW y \in Conn, pending'[y] \in Action PROVE fd'[pending'[y]] = None
        BY <1>1, <1>2, <3>4, <3>5 DEF RegInv
      <3>6. ASSUME NEW y \in Conn, NEW z \in Conn, pending'[y] \in Action, pending'[y] = pending'[z]
            PROVE  y = z
        BY <1>2, <3>4, <3>6 DEF RegInv
      <3>7. QED
        BY <3>2, <3>3, <3>5, <3>6 DEF RegInv
    <2>3. QED
      BY <2>1, <2>2 DEF AcceptApp, Pending
  <1>5. QED
    BY <1>1, <1>3, <1>4, SameControl DEF IInv

-----------------------------------------------------------------------------
(* The control table *)

\* An entry whose descriptor is closed has no caller; what the others know of
\* theirs is untouched, because no two entries have the same one.
LEMMA CloseKeeps ==
  ASSUME CtlInv, NEW k \in Client, NEW r \in Entry, CloseCaller(k),
         client' = [client EXCEPT ![k] = r],
         r.who = None, r.state # "new", r.state = "admitted" => r.id \in Exec
  PROVE  CtlInv'
  <1> DEFINE w == client[k].who
  <1>1. \A j \in Client : client'[j] = IF j = k THEN r ELSE client[j]
    BY DEF CtlInv
  <1>2. \A c \in Caller : /\ caller'[c] = IF c = w THEN "idle" ELSE caller[c]
                          /\ request'[c] = IF c = w THEN 0 ELSE request[c]
                          /\ asked'[c] = IF c = w THEN 0 ELSE asked[c]
    BY DEF CloseCaller
  <1>3. /\ client' \in [Client -> Entry]
        /\ caller' \in [Caller -> {"idle", "queued", "open", "gone"}]
        /\ asked' \in [Caller -> {0} \cup Exec]
    BY DEF CtlInv, CloseCaller
  <1>4. request' \in [Caller -> 0 .. Unusable]
    <2>1. 0 \in 0 .. Unusable
      BY HostAssumption DEF Unusable
    <2>2. QED
      BY <2>1 DEF CtlInv, CloseCaller
  <1>5. None \notin Caller
    BY HostAssumption
  <1>6. ASSUME NEW j \in Client, j # k, client[j].who \in Caller
        PROVE  /\ caller'[client[j].who] = caller[client[j].who]
               /\ request'[client[j].who] = request[client[j].who]
               /\ asked'[client[j].who] = asked[client[j].who]
    <2>1. client[j].who # w
      BY <1>6 DEF CtlInv
    <2>2. QED
      BY <1>2, <1>6, <2>1
  <1>7. ASSUME NEW j \in Client
        PROVE  /\ client'[j].state = "absent" => client'[j].who = None
               /\ client'[j].state = "new" =>
                    /\ client'[j].who \in Caller
                    /\ request'[client'[j].who] = 0 => asked'[client'[j].who] = 0
                    /\ request'[client'[j].who] \in Exec
                         => asked'[client'[j].who] = request'[client'[j].who]
               /\ client'[j].state = "admitted" =>
                    /\ client'[j].id \in Exec
                    /\ client'[j].who \in Caller => asked'[client'[j].who] = client'[j].id
               /\ client'[j].who \in Caller => caller'[client'[j].who] \in {"open", "gone"}
    <2>1. CASE j = k
      BY <1>1, <1>5, <2>1
    <2>2. CASE j # k
      <3>1. client'[j] = client[j]
        BY <1>1, <2>2
      <3>2. CASE client[j].who \in Caller
        BY <1>6, <2>2, <3>1, <3>2 DEF CtlInv
      <3>3. CASE client[j].who \notin Caller
        BY <3>1, <3>3 DEF CtlInv
      <3>4. QED
        BY <3>2, <3>3
    <2>3. QED
      BY <2>1, <2>2
  <1>8. ASSUME NEW i \in Client, NEW j \in Client, client'[i].who \in Caller,
               client'[i].who = client'[j].who
        PROVE  i = j
    <2>1. i # k /\ j # k
      BY <1>1, <1>5, <1>8
    <2>2. QED
      BY <1>1, <1>8, <2>1 DEF CtlInv
  <1>9. ASSUME NEW c \in Caller, caller'[c] \in {"idle", "queued"}
        PROVE  request'[c] = 0 /\ asked'[c] = 0
    BY <1>2, <1>9 DEF CtlInv
  <1>10. QED
    BY <1>3, <1>4, <1>7, <1>8, <1>9 DEF CtlInv

\* There are no more slots than execution ids.
LEMMA SlotsFinite == IsFiniteSet(Slots)
  <1>1. IsFiniteSet(Exec)
    BY HostAssumption, FS_Interval DEF Exec
  <1>2. QED
    BY <1>1, FS_Subset DEF Slots

\* A slot is released by its entry or by the recovered ones: what matters of the
\* control table is who tracks what.
LEMMA SameTracks ==
  ASSUME SlotInv, UNCHANGED loopVars,
         \A k \in Client, e \in Exec : Tracks(k, e)' <=> Tracks(k, e)
  PROVE  SlotInv'
  <1>1. UNCHANGED <<slot, floor, recovered>> /\ Slots' = Slots
    BY DEF loopVars, Slots
  <1>2. /\ slot' \in [Exec -> {"absent", "running", "complete"}]
        /\ Cardinality(Slots') <= MaxSlots
        /\ floor' \in 1 .. MaxId + 1
        /\ recovered' \subseteq Slots'
    BY <1>1 DEF SlotInv
  <1>3. \A k \in Client, e \in Exec : Tracks(k, e)' => e \in Slots' /\ e \notin recovered'
    BY <1>1 DEF SlotInv
  <1>4. \A j, k \in Client, e \in Exec : Tracks(j, e)' /\ Tracks(k, e)' => j = k
    BY DEF SlotInv
  <1>5. \A e \in Slots' : e \in recovered' \/ \E k \in Client : Tracks(k, e)'
    <2> TAKE e \in Slots'
    <2>1. e \in Exec
      BY <1>1 DEF Slots
    <2>2. QED
      BY <1>1, <2>1 DEF SlotInv
  <1>6. QED
    BY <1>2, <1>3, <1>4, <1>5 DEF SlotInv

\* The entries that a phase has still to visit are untouched by the visit of
\* another one.
LEMMA VisitedClient ==
  ASSUME WorkInv, NEW k \in Client, pc \in {"give", "regive", "take"}, Visited(k),
         \A j \in Client : j # k => client'[j] = client[j]
  PROVE  WorkInv'
  <1>1. pc' = pc /\ work' = work \ {k}
    BY DEF Visited
  <1>2. CASE pc \in {"give", "regive"}
    <2>1. work' \subseteq {j \in Client : client'[j].state = "admitted"}
      BY <1>1, <1>2 DEF WorkInv
    <2>2. QED
      BY <1>1, <1>2, <2>1 DEF WorkInv
  <1>3. CASE pc = "take"
    BY <1>1, <1>3 DEF WorkInv
  <1>4. QED
    BY <1>2, <1>3

\* The record of a cleared entry.
LEMMA NoClientEntry ==
  NoClient \in Entry /\ NoClient.who = None /\ NoClient.state = "absent" /\ NoClient.id = 0
  BY DEF NoClient, Entry

\* A visit that only looks changes nothing.
LEMMA LookKeeps ==
  ASSUME IInv, NEW k \in Client, Giving(k), Visited(k), UNCHANGED <<regVars, ctlVars, loopVars>>
  PROVE  IInv'
  <1>1. RegInv /\ CtlInv /\ SlotInv /\ WorkInv
    BY DEF IInv
  <1>2. WorkInv'
    BY <1>1, VisitedClient DEF Giving, ctlVars
  <1>3. QED
    BY <1>1, <1>2, SameRegistry, SameControl DEF IInv

\* A result that is given, or that nobody waits for, releases the slot of its
\* entry and the entry.
LEMMA ReleaseKeeps ==
  ASSUME IInv, NEW k \in Client, Giving(k), Release(k), Visited(k), UNCHANGED regVars
  PROVE  IInv'
  <1> DEFINE x == client[k].id
  <1>1. RegInv /\ CtlInv /\ SlotInv /\ WorkInv
    BY DEF IInv
  <1>2. /\ slot' = [slot EXCEPT ![x] = "absent"] /\ UNCHANGED <<floor, recovered>>
        /\ CloseCaller(k) /\ client' = [client EXCEPT ![k] = NoClient]
    BY DEF Release, Clear
  <1>3. \A j \in Client : client'[j] = IF j = k THEN NoClient ELSE client[j]
    BY <1>1, <1>2 DEF CtlInv
  <1>4. k \in Client /\ client[k].state = "admitted"
    BY <1>1 DEF Giving, WorkInv
  <1>5. x \in Exec /\ Tracks(k, x)
    BY <1>1, <1>4 DEF CtlInv, Tracks
  <1>6. CtlInv'
    BY <1>1, <1>2, CloseKeeps, NoClientEntry
  <1>7. \A e \in Exec : slot'[e] = IF e = x THEN "absent" ELSE slot[e]
    BY <1>1, <1>2 DEF SlotInv
  <1>8. \A j \in Client, e \in Exec : Tracks(j, e)' <=> Tracks(j, e) /\ j # k
    <2> TAKE j \in Client, e \in Exec
    <2>1. CASE j = k
      BY <1>3, <2>1, NoClientEntry DEF Tracks
    <2>2. CASE j # k
      BY <1>3, <2>2 DEF Tracks
    <2>3. QED
      BY <2>1, <2>2
  <1>9. SlotInv'
    <2>1. Slots' = Slots \ {x}
      BY <1>7 DEF Slots
    <2>2. x \notin recovered
      BY <1>1, <1>5 DEF SlotInv
    <2>3. slot' \in [Exec -> {"absent", "running", "complete"}]
      BY <1>1, <1>2 DEF SlotInv
    <2>4. Cardinality(Slots') <= MaxSlots
      <3>1. IsFiniteSet(Slots)
        BY SlotsFinite
      <3>2. IsFiniteSet(Slots') /\ Cardinality(Slots') <= Cardinality(Slots)
        BY <2>1, <3>1, FS_Subset
      <3>3. Cardinality(Slots) \in Nat /\ Cardinality(Slots') \in Nat /\ MaxSlots \in Nat
        BY <3>1, <3>2, FS_CardinalityType, HostAssumption
      <3>4. Cardinality(Slots) <= MaxSlots
        BY <1>1 DEF SlotInv
      <3>5. QED
        BY <3>2, <3>3, <3>4
    <2>5. floor' \in 1 .. MaxId + 1 /\ recovered' \subseteq Slots'
      BY <1>1, <1>2, <2>1, <2>2 DEF SlotInv
    <2>6. ASSUME NEW j \in Client, NEW e \in Exec, Tracks(j, e)'
          PROVE  e \in Slots' /\ e \notin recovered'
      <3>1. Tracks(j, e) /\ j # k
        BY <1>8, <2>6
      <3>2. e # x
        BY <1>1, <1>5, <3>1 DEF SlotInv
      <3>3. QED
        BY <1>1, <1>2, <2>1, <3>1, <3>2 DEF SlotInv
    <2>7. \A i, j \in Client, e \in Exec : Tracks(i, e)' /\ Tracks(j, e)' => i = j
      BY <1>1, <1>8 DEF SlotInv
    <2>8. ASSUME NEW e \in Slots', e \notin recovered' PROVE \E j \in Client : Tracks(j, e)'
      <3>1. e \in Slots /\ e # x /\ e \in Exec
        BY <2>1, <2>8 DEF Slots
      <3>2. PICK j \in Client : Tracks(j, e)
        BY <1>1, <1>2, <2>8, <3>1 DEF SlotInv
      <3>3. j # k
        BY <3>1, <3>2 DEF Tracks
      <3>4. QED
        BY <1>8, <3>1, <3>2, <3>3
    <2>9. QED
      BY <2>3, <2>4, <2>5, <2>6, <2>7, <2>8 DEF SlotInv
  <1>10. WorkInv'
    BY <1>1, <1>3, VisitedClient DEF Giving
  <1>11. QED
    BY <1>1, <1>6, <1>9, <1>10, SameRegistry DEF IInv

\* A caller that is detached leaves an entry that still tracks its execution.
LEMMA DetachKeeps == ASSUME IInv, NEW k \in Client, Detach(k) PROVE IInv'
  <1> DEFINE r == [client[k] EXCEPT !.who = None]
  <1>1. /\ pc = "take" /\ client[k].state = "admitted" /\ CloseCaller(k) /\ Visited(k)
        /\ client' = [client EXCEPT ![k].who = None]
        /\ UNCHANGED <<regVars, loopVars>>
    BY DEF Detach
  <1>2. RegInv /\ CtlInv /\ SlotInv /\ WorkInv
    BY DEF IInv
  <1>3. client[k] \in Entry /\ client[k].id \in Exec
    BY <1>1, <1>2 DEF CtlInv
  <1>4. r \in Entry /\ r.who = None /\ r.state = "admitted" /\ r.id = client[k].id
    BY <1>1, <1>3 DEF Entry
  <1>5. client' = [client EXCEPT ![k] = r]
    BY <1>1, <1>2 DEF CtlInv
  <1>6. \A j \in Client : client'[j] = IF j = k THEN r ELSE client[j]
    BY <1>2, <1>5 DEF CtlInv
  <1> HIDE DEF r
  <1>7. CtlInv'
    BY <1>1, <1>2, <1>3, <1>4, <1>5, CloseKeeps
  <1>8. \A j \in Client, e \in Exec : Tracks(j, e)' <=> Tracks(j, e)
    BY <1>1, <1>4, <1>6 DEF Tracks
  <1>9. SlotInv'
    BY <1>1, <1>2, <1>8, SameTracks
  <1>10. WorkInv'
    BY <1>1, <1>2, <1>6, VisitedClient
  <1>11. QED
    BY <1>1, <1>2, <1>7, <1>9, <1>10, SameRegistry DEF IInv

\* A caller whose request is not admitted leaves nothing behind.
LEMMA TurnAwayKeeps ==
  ASSUME IInv, NEW k \in Client, pc = "take", client[k].state = "new", Clear(k), Visited(k),
         UNCHANGED <<regVars, loopVars>>
  PROVE  IInv'
  <1>1. CloseCaller(k) /\ client' = [client EXCEPT ![k] = NoClient]
    BY DEF Clear
  <1>2. RegInv /\ CtlInv /\ SlotInv /\ WorkInv
    BY DEF IInv
  <1>3. \A j \in Client : client'[j] = IF j = k THEN NoClient ELSE client[j]
    BY <1>1, <1>2 DEF CtlInv
  <1>4. CtlInv'
    BY <1>1, <1>2, CloseKeeps, NoClientEntry
  <1>5. \A j \in Client, e \in Exec : Tracks(j, e)' <=> Tracks(j, e)
    BY <1>3, NoClientEntry DEF Tracks
  <1>6. SlotInv'
    BY <1>2, <1>5, SameTracks
  <1>7. WorkInv'
    BY <1>2, <1>3, VisitedClient
  <1>8. QED
    BY <1>2, <1>4, <1>6, <1>7, SameRegistry DEF IInv

\* A request that is admitted has a slot, and its entry will release it.
LEMMA SubmitKeeps == ASSUME IInv, NEW k \in Client, Submit(k) PROVE IInv'
  <1> DEFINE c == client[k].who
             x == request[c]
             r == [state |-> "admitted", who |-> c, id |-> x]
  <1>1. /\ pc = "take" /\ client[k].state = "new" /\ Admissible(x)
        /\ slot' = [slot EXCEPT ![x] = "running"] /\ floor' = x + 1
        /\ client' = [client EXCEPT ![k] = r] /\ request' = [request EXCEPT ![c] = 0]
        /\ Visited(k) /\ UNCHANGED <<caller, asked, recovered, regVars>>
    BY DEF Submit
  <1>2. RegInv /\ CtlInv /\ SlotInv /\ WorkInv
    BY DEF IInv
  <1>3. x \in Exec /\ slot[x] = "absent" /\ Cardinality(Slots) < MaxSlots
    BY <1>1 DEF Admissible, Slots
  <1>4. c \in Caller /\ asked[c] = x /\ caller[c] \in {"open", "gone"}
    BY <1>1, <1>2, <1>3 DEF CtlInv
  <1>5. r \in Entry /\ r.who = c /\ r.state = "admitted" /\ r.id = x
    BY <1>3, <1>4 DEF Entry
  <1>6. \A j \in Client : client'[j] = IF j = k THEN r ELSE client[j]
    BY <1>1, <1>2 DEF CtlInv
  <1>7. \A d \in Caller : request'[d] = IF d = c THEN 0 ELSE request[d]
    BY <1>1, <1>2 DEF CtlInv
  <1>8. \A e \in Exec : slot'[e] = IF e = x THEN "running" ELSE slot[e]
    BY <1>1, <1>2 DEF SlotInv
  <1>9. ASSUME NEW j \in Client, j # k PROVE client[j].who # c
    BY <1>2, <1>4, <1>9 DEF CtlInv
  <1>10. x \notin recovered /\ \A j \in Client : ~Tracks(j, x)
    BY <1>2, <1>3 DEF SlotInv, Slots
  <1>11. request' \in [Caller -> 0 .. Unusable]
    <2>1. 0 \in 0 .. Unusable
      BY HostAssumption DEF Unusable
    <2>2. QED
      BY <1>1, <1>2, <2>1 DEF CtlInv
  <1>12. x + 1 \in 1 .. MaxId + 1
    BY <1>3, HostAssumption DEF Exec
  <1>13. client' \in [Client -> Entry]
    BY <1>1, <1>2, <1>5 DEF CtlInv
  <1> HIDE DEF r, x, c
  <1>14. CtlInv'
    <2>1. /\ caller' \in [Caller -> {"idle", "queued", "open", "gone"}]
          /\ asked' \in [Caller -> {0} \cup Exec]
      BY <1>1, <1>2 DEF CtlInv
    <2>2. ASSUME NEW j \in Client
          PROVE  /\ client'[j].state = "absent" => client'[j].who = None
                 /\ client'[j].state = "new" =>
                      /\ client'[j].who \in Caller
                      /\ request'[client'[j].who] = 0 => asked'[client'[j].who] = 0
                      /\ request'[client'[j].who] \in Exec
                           => asked'[client'[j].who] = request'[client'[j].who]
                 /\ client'[j].state = "admitted" =>
                      /\ client'[j].id \in Exec
                      /\ client'[j].who \in Caller => asked'[client'[j].who] = client'[j].id
                 /\ client'[j].who \in Caller => caller'[client'[j].who] \in {"open", "gone"}
      <3>1. CASE j = k
        BY <1>1, <1>3, <1>4, <1>5, <1>6, <3>1
      <3>2. CASE j # k
        <4>1. client'[j] = client[j] /\ client[j].who # c
          BY <1>6, <1>9, <3>2
        <4>2. client[j].who \in Caller => request'[client[j].who] = request[client[j].who]
          BY <1>7, <4>1
        <4>3. QED
          BY <1>1, <1>2, <4>1, <4>2 DEF CtlInv
      <3>3. QED
        BY <3>1, <3>2
    <2>3. ASSUME NEW i \in Client, NEW j \in Client, client'[i].who \in Caller,
                 client'[i].who = client'[j].who
          PROVE  i = j
      BY <1>2, <1>5, <1>6, <1>9, <2>3 DEF CtlInv
    <2>4. \A d \in Caller : caller'[d] \in {"idle", "queued"} => request'[d] = 0 /\ asked'[d] = 0
      BY <1>1, <1>2, <1>4, <1>7 DEF CtlInv
    <2>5. QED
      BY <1>11, <1>13, <2>1, <2>2, <2>3, <2>4 DEF CtlInv
  <1>15. SlotInv'
    <2>1. Slots' = Slots \cup {x}
      BY <1>3, <1>8 DEF Slots
    <2>2. slot' \in [Exec -> {"absent", "running", "complete"}]
      BY <1>1, <1>2 DEF SlotInv
    <2>3. Cardinality(Slots') <= MaxSlots
      <3>1. IsFiniteSet(Slots) /\ x \notin Slots
        BY <1>3, SlotsFinite DEF Slots
      <3>2. Cardinality(Slots') = Cardinality(Slots) + 1
        BY <2>1, <3>1, FS_AddElement
      <3>3. Cardinality(Slots) \in Nat /\ MaxSlots \in Nat
        BY <3>1, FS_CardinalityType, HostAssumption
      <3>4. QED
        BY <1>3, <3>2, <3>3
    <2>4. floor' \in 1 .. MaxId + 1 /\ recovered' \subseteq Slots'
      BY <1>1, <1>2, <1>12, <2>1 DEF SlotInv
    <2>5. \A j \in Client, e \in Exec :
            Tracks(j, e)' <=> IF j = k THEN e = x ELSE Tracks(j, e)
      BY <1>5, <1>6 DEF Tracks
    <2>6. \A j \in Client, e \in Exec : Tracks(j, e)' => e \in Slots' /\ e \notin recovered'
      BY <1>1, <1>2, <1>10, <2>1, <2>5 DEF SlotInv
    <2>7. \A i, j \in Client, e \in Exec : Tracks(i, e)' /\ Tracks(j, e)' => i = j
      BY <1>2, <1>10, <2>5 DEF SlotInv
    <2>8. ASSUME NEW e \in Slots', e \notin recovered' PROVE \E j \in Client : Tracks(j, e)'
      <3>1. CASE e = x
        BY <1>3, <2>5, <3>1
      <3>2. CASE e # x
        <4>1. e \in Slots /\ e \in Exec
          BY <2>1, <3>2 DEF Slots
        <4>2. PICK j \in Client : Tracks(j, e)
          BY <1>1, <1>2, <2>8, <4>1 DEF SlotInv
        <4>3. j # k
          BY <1>1, <4>2 DEF Tracks
        <4>4. QED
          BY <2>5, <4>1, <4>2, <4>3
      <3>3. QED
        BY <3>1, <3>2
    <2>9. QED
      BY <2>2, <2>3, <2>4, <2>6, <2>7, <2>8 DEF SlotInv
  <1>16. WorkInv'
    BY <1>1, <1>2, <1>6, VisitedClient
  <1>17. QED
    BY <1>1, <1>2, <1>14, <1>15, <1>16, SameRegistry DEF IInv

\* A caller that is accepted has asked for nothing yet, and no entry has it.
LEMMA AcceptCallerKeeps == ASSUME IInv, NEW c \in Caller, AcceptCaller(c) PROVE IInv'
  <1>1. /\ caller[c] = "queued" /\ pc' = "ack" /\ work' = Validated
        /\ UNCHANGED <<asked, regVars, loopVars>>
    BY DEF AcceptCaller
  <1>2. RegInv /\ CtlInv /\ SlotInv /\ WorkInv
    BY DEF IInv
  <1>3. WorkInv'
    <2>1. Validated' = Validated
      BY <1>1 DEF Validated, regVars
    <2>2. QED
      BY <1>1, <2>1 DEF WorkInv
  <1>4. request[c] = 0 /\ asked[c] = 0 /\ \A j \in Client : client[j].who # c
    BY <1>1, <1>2 DEF CtlInv
  <1>5. CASE /\ caller' = [caller EXCEPT ![c] = "idle"] /\ request' = [request EXCEPT ![c] = 0]
             /\ UNCHANGED client
    <2>1. request' = request
      BY <1>2, <1>4, <1>5 DEF CtlInv
    <2>2. \A d \in Caller : caller'[d] = IF d = c THEN "idle" ELSE caller[d]
      BY <1>2, <1>5 DEF CtlInv
    <2>3. caller' \in [Caller -> {"idle", "queued", "open", "gone"}]
      BY <1>2, <1>5 DEF CtlInv
    <2>4. CtlInv'
      BY <1>1, <1>2, <1>4, <1>5, <2>1, <2>2, <2>3 DEF CtlInv
    <2>5. SlotInv'
      BY <1>1, <1>2, <1>5, SameTracks DEF Tracks
    <2>6. QED
      BY <1>1, <1>2, <1>3, <2>4, <2>5, SameRegistry DEF IInv
  <1>6. ASSUME NEW k \in Client, client[k].state = "absent",
               client' = [client EXCEPT ![k] = [state |-> "new", who |-> c, id |-> 0]],
               caller' = [caller EXCEPT ![c] = "open"], UNCHANGED request
        PROVE  IInv'
    <2> DEFINE r == [state |-> "new", who |-> c, id |-> 0]
    <2>1. r \in Entry /\ r.who = c /\ r.state = "new"
      BY DEF Entry
    <2>2. \A j \in Client : client'[j] = IF j = k THEN r ELSE client[j]
      BY <1>2, <1>6 DEF CtlInv
    <2>3. client' \in [Client -> Entry]
      BY <1>2, <1>6, <2>1 DEF CtlInv
    <2> HIDE DEF r
    <2>4. \A d \in Caller : caller'[d] = IF d = c THEN "open" ELSE caller[d]
      BY <1>2, <1>6 DEF CtlInv
    <2>5. caller' \in [Caller -> {"idle", "queued", "open", "gone"}]
      BY <1>2, <1>6 DEF CtlInv
    <2>6. ASSUME NEW j \in Client
          PROVE  /\ client'[j].state = "absent" => client'[j].who = None
                 /\ client'[j].state = "new" =>
                      /\ client'[j].who \in Caller
                      /\ request'[client'[j].who] = 0 => asked'[client'[j].who] = 0
                      /\ request'[client'[j].who] \in Exec
                           => asked'[client'[j].who] = request'[client'[j].who]
                 /\ client'[j].state = "admitted" =>
                      /\ client'[j].id \in Exec
                      /\ client'[j].who \in Caller => asked'[client'[j].who] = client'[j].id
                 /\ client'[j].who \in Caller => caller'[client'[j].who] \in {"open", "gone"}
      <3>1. CASE j = k
        <4>1. client'[j].who = c /\ client'[j].state = "new" /\ request'[c] = 0 /\ asked'[c] = 0
          BY <1>1, <1>4, <1>6, <2>1, <2>2, <3>1
        <4>2. 0 \notin Exec
          BY HostAssumption DEF Exec
        <4>3. QED
          BY <2>4, <4>1, <4>2
      <3>2. CASE j # k
        <4>1. client'[j] = client[j] /\ client[j].who # c
          BY <1>4, <2>2, <3>2
        <4>2. client[j].who \in Caller => caller'[client[j].who] = caller[client[j].who]
          BY <2>4, <4>1
        <4>3. QED
          BY <1>1, <1>2, <1>6, <4>1, <4>2 DEF CtlInv
      <3>3. QED
        BY <3>1, <3>2
    <2>7. ASSUME NEW i \in Client, NEW j \in Client, client'[i].who \in Caller,
                 client'[i].who = client'[j].who
          PROVE  i = j
      BY <1>2, <1>4, <2>1, <2>2, <2>7 DEF CtlInv
    <2>8. CtlInv'
      BY <1>1, <1>2, <1>6, <2>3, <2>4, <2>5, <2>6, <2>7 DEF CtlInv
    <2>9. \A j \in Client, e \in Exec : Tracks(j, e)' <=> Tracks(j, e)
      BY <1>6, <2>1, <2>2 DEF Tracks
    <2>10. SlotInv'
      BY <1>1, <1>2, <2>9, SameTracks
    <2>11. QED
      BY <1>1, <1>2, <1>3, <2>8, <2>10, SameRegistry DEF IInv
  <1>7. QED
    BY <1>5, <1>6 DEF AcceptCaller

-----------------------------------------------------------------------------
(* The loop, the host, apps and callers *)

\* The loop completes executions and drops connections; it takes no slot and
\* gives no Action.
LEMMA LoopPollKeeps == ASSUME IInv, LoopPoll PROVE IInv'
  <1>1. RegInv /\ CtlInv /\ SlotInv /\ WorkInv
    BY DEF IInv
  <1>2. /\ pc' \in {"give", "regive"} /\ work' = {k \in Client : client[k].state = "admitted"}
        /\ UNCHANGED <<pending, frame, ctlVars, floor, recovered>>
    BY DEF LoopPoll
  <1>3. PICK done \in SUBSET {e \in Exec : slot[e] = "running"} :
          slot' = [e \in Exec |-> IF e \in done THEN "complete" ELSE slot[e]]
    BY DEF LoopPoll
  <1>4. PICK lost \in SUBSET {a \in Action : fd[a] # None} :
          /\ fd' = [a \in Action |-> IF a \in lost THEN None ELSE fd[a]]
          /\ conn' = [x \in Conn |-> IF \E a \in lost : fd[a] = x THEN "idle" ELSE conn[x]]
    BY DEF LoopPoll
  <1>5. RegInv'
    <2>1. fd' \in [Action -> Conn \cup {None}]
      BY <1>1, <1>4 DEF RegInv
    <2>2. conn' \in [Conn -> {"idle", "queued", "open", "gone"}]
      BY <1>1, <1>4 DEF RegInv
    <2>3. \A a \in Action : fd[a] = None => fd'[a] = None
      BY <1>4
    <2>4. Pending' = Pending
      BY <1>2 DEF Pending
    <2>5. QED
      BY <1>1, <1>2, <2>1, <2>2, <2>3, <2>4 DEF RegInv
  <1>6. CtlInv'
    BY <1>1, <1>2 DEF CtlInv, ctlVars
  <1>7. SlotInv'
    <2>1. slot' \in [Exec -> {"absent", "running", "complete"}]
      BY <1>1, <1>3 DEF SlotInv
    <2>2. Slots' = Slots
      BY <1>3 DEF Slots
    <2>3. \A k \in Client, e \in Exec : Tracks(k, e)' <=> Tracks(k, e)
      BY <1>2 DEF Tracks, ctlVars
    <2>4. \A e \in Slots' : e \in recovered' \/ \E k \in Client : Tracks(k, e)'
      <3> TAKE e \in Slots'
      <3>1. e \in Exec /\ e \in Slots
        BY <2>2 DEF Slots
      <3>2. QED
        BY <1>1, <1>2, <2>3, <3>1 DEF SlotInv
    <2>5. QED
      BY <1>1, <1>2, <2>1, <2>2, <2>3, <2>4 DEF SlotInv
  <1>8. WorkInv'
    BY <1>2 DEF WorkInv, ctlVars
  <1>9. QED
    BY <1>5, <1>6, <1>7, <1>8 DEF IInv

\* A recovered execution that is complete is released here, where no entry
\* tracks it.
LEMMA ReapKeeps == ASSUME IInv, NEW x \in Exec, Reap(x) PROVE IInv'
  <1>1. RegInv /\ CtlInv /\ SlotInv /\ WorkInv
    BY DEF IInv
  <1>2. pc = "reap" /\ x \in work /\ pc' = pc /\ work' = work \ {x} /\ UNCHANGED <<regVars, ctlVars>>
    BY DEF Reap, Visited
  <1>3. work \subseteq recovered /\ x \in recovered
    BY <1>1, <1>2 DEF WorkInv
  <1>4. RegInv' /\ CtlInv'
    <2>1. RegInv'
      BY <1>1, <1>2, SameRegistry
    <2>2. CtlInv'
      BY <1>1, <1>2 DEF CtlInv, ctlVars
    <2>3. QED
      BY <2>1, <2>2
  <1>5. \A k \in Client, e \in Exec : Tracks(k, e)' <=> Tracks(k, e)
    BY <1>2 DEF Tracks, ctlVars
  <1>6. CASE UNCHANGED loopVars
    <2>1. SlotInv'
      BY <1>1, <1>5, <1>6, SameTracks
    <2>2. WorkInv'
      BY <1>2, <1>3, <1>6 DEF WorkInv, loopVars
    <2>3. QED
      BY <1>4, <2>1, <2>2 DEF IInv
  <1>7. CASE /\ slot' = [slot EXCEPT ![x] = "absent"] /\ recovered' = recovered \ {x}
             /\ UNCHANGED floor
    <2>1. \A e \in Exec : slot'[e] = IF e = x THEN "absent" ELSE slot[e]
      BY <1>1, <1>7 DEF SlotInv
    <2>2. Slots' = Slots \ {x}
      BY <2>1 DEF Slots
    <2>3. slot' \in [Exec -> {"absent", "running", "complete"}]
      BY <1>1, <1>7 DEF SlotInv
    <2>4. Cardinality(Slots') <= MaxSlots
      <3>1. IsFiniteSet(Slots)
        BY SlotsFinite
      <3>2. IsFiniteSet(Slots') /\ Cardinality(Slots') <= Cardinality(Slots)
        BY <2>2, <3>1, FS_Subset
      <3>3. Cardinality(Slots) \in Nat /\ Cardinality(Slots') \in Nat /\ MaxSlots \in Nat
        BY <3>1, <3>2, FS_CardinalityType, HostAssumption
      <3>4. Cardinality(Slots) <= MaxSlots
        BY <1>1 DEF SlotInv
      <3>5. QED
        BY <3>2, <3>3, <3>4
    <2>5. floor' \in 1 .. MaxId + 1 /\ recovered' \subseteq Slots'
      BY <1>1, <1>7, <2>2 DEF SlotInv
    <2>6. \A k \in Client, e \in Exec : Tracks(k, e)' => e \in Slots' /\ e \notin recovered'
      BY <1>1, <1>3, <1>5, <1>7, <2>2 DEF SlotInv
    <2>7. \A j, k \in Client, e \in Exec : Tracks(j, e)' /\ Tracks(k, e)' => j = k
      BY <1>1, <1>5 DEF SlotInv
    <2>8. \A e \in Slots' : e \in recovered' \/ \E k \in Client : Tracks(k, e)'
      <3> TAKE e \in Slots'
      <3>1. e \in Exec /\ e \in Slots /\ e # x
        BY <2>2 DEF Slots
      <3>2. QED
        BY <1>1, <1>5, <1>7, <3>1 DEF SlotInv
    <2>9. SlotInv'
      BY <2>3, <2>4, <2>5, <2>6, <2>7, <2>8 DEF SlotInv
    <2>10. WorkInv'
      BY <1>2, <1>3, <1>7 DEF WorkInv
    <2>11. QED
      BY <1>4, <2>9, <2>10 DEF IInv
  <1>8. QED
    BY <1>6, <1>7 DEF Reap

\* A phase begins with the entries that it visits.
LEMMA AdvanceKeeps == ASSUME IInv, Advance \/ SkipListeners PROVE IInv'
  <1>1. RegInv /\ CtlInv /\ SlotInv /\ WorkInv
    BY DEF IInv
  <1>2. UNCHANGED <<regVars, ctlVars, loopVars>>
    BY DEF Advance, SkipListeners
  <1>3. Validated' = Validated /\ Pending' = Pending /\ client' = client /\ recovered' = recovered
    BY <1>2 DEF Validated, Pending, regVars, ctlVars, loopVars
  <1>4. WorkInv'
    <2>1. CASE pc' = "read" /\ work' \subseteq Pending
      BY <1>3, <2>1 DEF WorkInv
    <2>2. CASE pc' \in {"ack", "reack"} /\ work' = Validated
      BY <1>3, <2>2 DEF WorkInv
    <2>3. CASE pc' \in {"loop", "reloop", "accept", "welcome"} /\ work' = {}
      BY <2>3 DEF WorkInv
    <2>4. CASE pc' = "take" /\ work' \subseteq Client
      BY <2>4 DEF WorkInv
    <2>5. CASE pc' = "reap" /\ work' = recovered
      BY <1>3, <2>5 DEF WorkInv
    <2>6. QED
      BY <2>1, <2>2, <2>3, <2>4, <2>5 DEF Advance, SkipListeners, Pending
  <1>5. QED
    BY <1>1, <1>2, <1>4, SameRegistry, SameControl DEF IInv

\* An app acts on its own connection only.
LEMMA AppKeeps ==
  ASSUME IInv, NEW x \in Conn,
         AppConnects(x) \/ AppCloses(x) \/ \E f \in Action \cup {"bad"} : AppSends(x, f)
  PROVE  IInv'
  <1>1. RegInv /\ CtlInv /\ SlotInv /\ WorkInv
    BY DEF IInv
  <1>2. work = {} /\ UNCHANGED <<fd, pending, ctlVars, loopVars, pcVars>>
    BY DEF AppConnects, AppCloses, AppSends, Outside
  <1>3. /\ conn' \in [Conn -> {"idle", "queued", "open", "gone"}]
        /\ frame' \in [Conn -> {"none", "bad"} \cup Action]
    BY <1>1 DEF RegInv, AppConnects, AppCloses, AppSends
  <1>4. RegInv'
    BY <1>1, <1>2, <1>3 DEF RegInv, Pending
  <1>5. WorkInv'
    BY <1>1, <1>2 DEF WorkInv, pcVars
  <1>6. QED
    BY <1>1, <1>2, <1>4, <1>5, SameControl DEF IInv

\* A caller acts on its own connection only, and its first request is the one
\* that is noted.
LEMMA CallerKeeps ==
  ASSUME IInv, NEW c \in Caller,
         CallerConnects(c) \/ CallerCloses(c) \/ \E e \in 1 .. Unusable : CallerSends(c, e)
  PROVE  IInv'
  <1>1. RegInv /\ CtlInv /\ SlotInv /\ WorkInv
    BY DEF IInv
  <1>2. work = {} /\ UNCHANGED <<client, regVars, loopVars, pcVars>>
    BY DEF CallerConnects, CallerCloses, CallerSends, Outside
  <1>3. WorkInv'
    BY <1>1, <1>2 DEF WorkInv, pcVars
  <1>4. SlotInv'
    BY <1>1, <1>2, SameTracks DEF Tracks
  <1>5. CtlInv'
    <2>1. CASE CallerConnects(c)
      <3>1. caller[c] = "idle" /\ caller' = [caller EXCEPT ![c] = "queued"] /\ UNCHANGED <<request, asked>>
        BY <2>1 DEF CallerConnects
      <3>2. \A d \in Caller : caller'[d] = IF d = c THEN "queued" ELSE caller[d]
        BY <1>1, <3>1 DEF CtlInv
      <3>3. caller' \in [Caller -> {"idle", "queued", "open", "gone"}]
        BY <1>1, <3>1 DEF CtlInv
      <3>4. \A j \in Client : client[j].who # c
        BY <1>1, <3>1 DEF CtlInv
      <3>5. QED
        BY <1>1, <1>2, <3>1, <3>2, <3>3, <3>4 DEF CtlInv
    <2>2. CASE CallerCloses(c)
      <3>1. caller[c] = "open" /\ caller' = [caller EXCEPT ![c] = "gone"] /\ UNCHANGED <<request, asked>>
        BY <2>2 DEF CallerCloses
      <3>2. \A d \in Caller : caller'[d] = IF d = c THEN "gone" ELSE caller[d]
        BY <1>1, <3>1 DEF CtlInv
      <3>3. caller' \in [Caller -> {"idle", "queued", "open", "gone"}]
        BY <1>1, <3>1 DEF CtlInv
      <3>4. QED
        BY <1>1, <1>2, <3>1, <3>2, <3>3 DEF CtlInv
    <2>3. ASSUME NEW e \in 1 .. Unusable, CallerSends(c, e) PROVE CtlInv'
      <3> DEFINE a == IF asked[c] = 0 /\ e \in Exec THEN e ELSE asked[c]
      <3>1. /\ caller[c] = "open" /\ request[c] = 0 /\ UNCHANGED caller
            /\ request' = [request EXCEPT ![c] = e]
            /\ asked' = [asked EXCEPT ![c] = IF @ = 0 /\ e \in Exec THEN e ELSE @]
        BY <2>3 DEF CallerSends
      <3>2. \A d \in Caller : request'[d] = IF d = c THEN e ELSE request[d]
        BY <1>1, <3>1 DEF CtlInv
      <3>3. \A d \in Caller : asked'[d] = IF d = c THEN a ELSE asked[d]
        BY <1>1, <3>1 DEF CtlInv
      <3>4. request' \in [Caller -> 0 .. Unusable]
        <4>1. e \in 0 .. Unusable
          BY HostAssumption DEF Unusable
        <4>2. QED
          BY <1>1, <3>1, <4>1 DEF CtlInv
      <3>5. asked' \in [Caller -> {0} \cup Exec]
        BY <1>1, <3>1 DEF CtlInv
      <3>6. e # 0
        BY HostAssumption DEF Unusable
      <3>7. asked[c] # 0 => a = asked[c]
        OBVIOUS
      <3>8. asked[c] = 0 /\ e \in Exec => a = e
        OBVIOUS
      <3> HIDE DEF a
      <3>9. 0 \notin Exec
        BY HostAssumption DEF Exec
      <3>10. ASSUME NEW j \in Client
             PROVE  /\ client[j].state = "new" =>
                         /\ client[j].who \in Caller
                         /\ request'[client[j].who] = 0 => asked'[client[j].who] = 0
                         /\ request'[client[j].who] \in Exec
                              => asked'[client[j].who] = request'[client[j].who]
                    /\ client[j].state = "admitted" =>
                         /\ client[j].id \in Exec
                         /\ client[j].who \in Caller => asked'[client[j].who] = client[j].id
        <4>1. CASE client[j].who = c
          <5>1. request'[c] = e /\ asked'[c] = a
            BY <3>2, <3>3
          <5>2. client[j].state = "new" => asked[c] = 0
            BY <1>1, <3>1, <4>1 DEF CtlInv
          <5>3. client[j].state = "admitted" => client[j].id \in Exec /\ asked[c] = client[j].id
            BY <1>1, <4>1 DEF CtlInv
          <5>4. QED
            BY <3>6, <3>7, <3>8, <3>9, <4>1, <5>1, <5>2, <5>3
        <4>2. CASE client[j].who # c
          BY <1>1, <3>2, <3>3, <4>2 DEF CtlInv
        <4>3. QED
          BY <4>1, <4>2
      <3>11. \A d \in Caller : caller'[d] \in {"idle", "queued"} => request'[d] = 0 /\ asked'[d] = 0
        BY <1>1, <3>1, <3>2, <3>3 DEF CtlInv
      <3>12. QED
        BY <1>1, <1>2, <3>1, <3>4, <3>5, <3>10, <3>11 DEF CtlInv
    <2>4. QED
      BY <2>1, <2>2, <2>3
  <1>6. QED
    BY <1>1, <1>2, <1>3, <1>4, <1>5, SameRegistry DEF IInv

\* After restore_startup_state the recovered executions are the only ones.
LEMMA InitHolds == ASSUME Init PROVE IInv
  <1>1. RegInv
    <2>1. Pending = {}
      BY DEF Init, Pending
    <2>2. IsFiniteSet(Pending) /\ Cardinality(Pending) = 0
      BY <2>1, FS_EmptySet
    <2>3. Cardinality(Pending) <= MaxPending
      BY <2>2, HostAssumption
    <2>4. \A x \in Conn : pending[x] \notin Action
      BY HostAssumption DEF Init
    <2>5. QED
      BY <2>2, <2>3, <2>4 DEF Init, RegInv
  <1>2. CtlInv
    <2>1. \A k \in Client : client[k] = NoClient
      BY DEF Init
    <2>2. client \in [Client -> Entry]
      BY NoClientEntry DEF Init
    <2>3. 0 \in 0 .. Unusable /\ None \notin Caller
      BY HostAssumption DEF Unusable
    <2>4. request \in [Caller -> 0 .. Unusable]
      BY <2>3 DEF Init
    <2>5. QED
      BY <2>1, <2>2, <2>3, <2>4, NoClientEntry DEF Init, CtlInv
  <1>3. SlotInv
    <2>1. Recovered \subseteq Exec
      BY HostAssumption DEF Exec
    <2>2. Slots = Recovered
      BY <2>1 DEF Init, Slots
    <2>3. slot \in [Exec -> {"absent", "running", "complete"}]
      BY DEF Init
    <2>4. Cardinality(Slots) <= MaxSlots /\ floor \in 1 .. MaxId + 1 /\ recovered = Slots
      BY <2>2, HostAssumption DEF Init
    <2>5. \A k \in Client, e \in Exec : ~Tracks(k, e)
      BY NoClientEntry DEF Init, Tracks
    <2>6. QED
      BY <2>3, <2>4, <2>5 DEF SlotInv
  <1>4. WorkInv
    BY DEF Init, WorkInv
  <1>5. QED
    BY <1>1, <1>2, <1>3, <1>4 DEF IInv

-----------------------------------------------------------------------------
(* Theorems *)

\* Each step of the registration server, the control server, the host, an app or
\* a caller keeps the tables consistent with the loop.
THEOREM Invariance == Spec => []IInv
  <1>1. Init => IInv
    BY InitHolds
  <1>2. IInv /\ [Next]_vars => IInv'
    <2> SUFFICES ASSUME IInv, [Next]_vars PROVE IInv'
      OBVIOUS
    <2>1. CASE UNCHANGED vars
      <3>1. UNCHANGED <<regVars, ctlVars, loopVars, pcVars>>
        BY <2>1 DEF vars
      <3>2. WorkInv'
        BY <3>1 DEF IInv, WorkInv, Validated, Pending, regVars, ctlVars, loopVars, pcVars
      <3>3. QED
        BY <3>1, <3>2, SameRegistry, SameControl DEF IInv
    <2>2. CASE LoopPoll
      BY <2>2, LoopPollKeeps
    <2>3. CASE Advance \/ SkipListeners
      BY <2>3, AdvanceKeeps
    <2>4. ASSUME NEW x \in Conn, AcceptApp(x) PROVE IInv'
      BY <2>4, AcceptAppKeeps
    <2>5. ASSUME NEW x \in Conn, Acknowledge(x) PROVE IInv'
      BY <2>5, AcknowledgeKeeps
    <2>6. ASSUME NEW x \in Conn, AcknowledgeLater(x) PROVE IInv'
      BY <2>6, AcknowledgeLaterKeeps
    <2>7. ASSUME NEW x \in Conn, AcknowledgeFails(x) \/ HangUp(x) PROVE IInv'
      BY <2>7, DroppedKeeps DEF AcknowledgeFails, HangUp
    <2>8. ASSUME NEW x \in Conn, ReadRegistration(x) PROVE IInv'
      BY <2>8, ReadRegistrationKeeps
    <2>9. ASSUME NEW k \in Client, GiveNothing(k) \/ GiveLater(k) PROVE IInv'
      BY <2>9, LookKeeps DEF GiveNothing, GiveLater
    <2>10. ASSUME NEW k \in Client, GiveResult(k) \/ GiveNobody(k) PROVE IInv'
      BY <2>10, ReleaseKeeps DEF GiveResult, GiveNobody
    <2>11. ASSUME NEW k \in Client, Detach(k) PROVE IInv'
      BY <2>11, DetachKeeps
    <2>12. ASSUME NEW k \in Client, Forget(k) \/ Reject(k) PROVE IInv'
      BY <2>12, TurnAwayKeeps DEF Forget, Reject
    <2>13. ASSUME NEW k \in Client, Submit(k) PROVE IInv'
      BY <2>13, SubmitKeeps
    <2>14. ASSUME NEW c \in Caller, AcceptCaller(c) PROVE IInv'
      BY <2>14, AcceptCallerKeeps
    <2>15. ASSUME NEW e \in Exec, Reap(e) PROVE IInv'
      BY <2>15, ReapKeeps
    <2>16. ASSUME NEW x \in Conn,
                  AppConnects(x) \/ AppCloses(x) \/ \E f \in Action \cup {"bad"} : AppSends(x, f)
           PROVE IInv'
      BY <2>16, AppKeeps
    <2>17. ASSUME NEW c \in Caller,
                  CallerConnects(c) \/ CallerCloses(c) \/ \E e \in 1 .. Unusable : CallerSends(c, e)
           PROVE IInv'
      BY <2>17, CallerKeeps
    <2>18. QED
      BY <2>1, <2>2, <2>3, <2>4, <2>5, <2>6, <2>7, <2>8, <2>9, <2>10, <2>11, <2>12, <2>13,
         <2>14, <2>15, <2>16, <2>17 DEF Next, Daemon
  <1>3. QED
    BY <1>1, <1>2, PTL DEF Spec

\* The tables never exceed their limits: the pending connections of the
\* registration server and the executions of the loop stay within
\* HERMAS_REGISTRATION_MAX_PENDING and HERMAS_DAEMON_MAX_EXECUTIONS, and every
\* variable keeps its type.
THEOREM TypeCorrect == Spec => []TypeOK
  <1>1. IInv => TypeOK
    <2> SUFFICES ASSUME IInv PROVE TypeOK
      OBVIOUS
    <2>1. RegInv /\ CtlInv /\ SlotInv /\ WorkInv
      BY DEF IInv
    <2>2. /\ fd \in [Action -> Conn \cup {None}]
          /\ pending \in [Conn -> {"absent", "new"} \cup Action]
          /\ Cardinality({x \in Conn : pending[x] # "absent"}) <= MaxPending
          /\ conn \in [Conn -> {"idle", "queued", "open", "gone"}]
          /\ frame \in [Conn -> {"none", "bad"} \cup Action]
      BY <2>1 DEF RegInv, Pending
    <2>3. /\ client \in [Client -> [state : {"absent", "new", "admitted"},
                                    who : Caller \cup {None}, id : {0} \cup Exec]]
          /\ caller \in [Caller -> {"idle", "queued", "open", "gone"}]
          /\ request \in [Caller -> 0 .. Unusable]
          /\ asked \in [Caller -> {0} \cup Exec]
      BY <2>1 DEF CtlInv, Entry
    <2>4. /\ slot \in [Exec -> {"absent", "running", "complete"}]
          /\ Cardinality({e \in Exec : slot[e] # "absent"}) <= MaxSlots
          /\ floor \in 1 .. MaxId + 1
          /\ recovered \subseteq Exec
      BY <2>1 DEF SlotInv, Slots
    <2>5. work \subseteq Conn \/ work \subseteq Client \/ work \subseteq Exec
      <3>1. CASE pc \in {"ack", "reack", "read"}
        BY <2>1, <3>1 DEF WorkInv, Validated, Pending
      <3>2. CASE pc \in {"give", "regive", "take"}
        BY <2>1, <3>2 DEF WorkInv
      <3>3. CASE pc = "reap"
        BY <2>1, <2>4, <3>3 DEF WorkInv
      <3>4. CASE pc \in {"loop", "reloop", "accept", "welcome"}
        BY <2>1, <3>4 DEF WorkInv
      <3>5. QED
        BY <2>1, <3>1, <3>2, <3>3, <3>4 DEF WorkInv
    <2>6. QED
      BY <2>1, <2>2, <2>3, <2>4, <2>5 DEF TypeOK, WorkInv
  <1>2. QED
    BY <1>1, Invariance, PTL

\* No order of registrations, drops, requests and disconnects makes the host end
\* itself: flush_acknowledgements never finds the promised Action taken, and
\* flush_results and reap_recovered never ask for an execution that the loop does
\* not have.
THEOREM NoPhaseFails == Spec => []HostKeepsRunning
  <1>1. IInv => HostKeepsRunning
    <2> SUFFICES ASSUME IInv PROVE ~Fails
      BY DEF HostKeepsRunning
    <2>1. RegInv /\ CtlInv /\ SlotInv /\ WorkInv
      BY DEF IInv
    <2>2. ASSUME pc \in {"ack", "reack"}, NEW x \in work PROVE fd[pending[x]] = None
      BY <2>1, <2>2 DEF RegInv, WorkInv, Validated
    <2>3. ASSUME pc \in {"give", "regive"}, NEW k \in work PROVE slot[client[k].id] # "absent"
      <3>1. k \in Client /\ client[k].state = "admitted"
        BY <2>1, <2>3 DEF WorkInv
      <3>2. client[k].id \in Exec /\ Tracks(k, client[k].id)
        BY <2>1, <3>1 DEF CtlInv, Tracks
      <3>3. QED
        BY <2>1, <3>1, <3>2 DEF SlotInv, Slots
    <2>4. ASSUME pc = "reap", NEW e \in work PROVE slot[e] # "absent"
      BY <2>1, <2>4 DEF SlotInv, WorkInv, Slots
    <2>5. QED
      BY <2>2, <2>3, <2>4 DEF Fails
  <1>2. QED
    BY <1>1, Invariance, PTL

\* An execution of the loop belongs to exactly one entry of the control table, or
\* to the recovered ones, whatever its caller does: its slot is released once.
THEOREM OneTracker == Spec => []SlotsAreTracked
  <1>1. IInv => SlotsAreTracked
    <2> SUFFICES ASSUME IInv, NEW e \in Exec
                 PROVE  IF slot[e] = "absent" THEN Trackers(e) = {} /\ e \notin recovered
                        ELSE Cardinality(Trackers(e)) = IF e \in recovered THEN 0 ELSE 1
      BY DEF SlotsAreTracked
    <2>1. SlotInv
      BY DEF IInv
    <2>2. Trackers(e) = {k \in Client : Tracks(k, e)}
      BY DEF Trackers, Tracks
    <2>3. CASE slot[e] = "absent"
      BY <2>1, <2>2, <2>3 DEF SlotInv, Slots
    <2>4. CASE slot[e] # "absent" /\ e \in recovered
      <3>1. Trackers(e) = {}
        BY <2>1, <2>2, <2>4 DEF SlotInv
      <3>2. QED
        BY <2>4, <3>1, FS_EmptySet
    <2>5. CASE slot[e] # "absent" /\ e \notin recovered
      <3>1. PICK k \in Client : Tracks(k, e)
        BY <2>1, <2>5 DEF SlotInv, Slots
      <3>2. Trackers(e) = {k}
        BY <2>1, <2>2, <3>1 DEF SlotInv
      <3>3. Cardinality(Trackers(e)) = 1
        BY <3>2, FS_Singleton
      <3>4. QED
        BY <2>5, <3>3
    <2>6. QED
      BY <2>3, <2>4, <2>5
  <1>2. QED
    BY <1>1, Invariance, PTL

\* The result of an entry goes to the caller that asked for this execution over
\* this connection: close_descriptor ends the entry's hold on a caller before the
\* caller can come back.
THEOREM RepliesReachSubmitter == Spec => []ReplyIsForSubmitter
  <1>1. IInv => ReplyIsForSubmitter
    <2> SUFFICES ASSUME IInv, NEW k \in Client, client[k].state = "admitted", client[k].who # None
                 PROVE  asked[client[k].who] = client[k].id
      BY DEF ReplyIsForSubmitter
    <2>1. CtlInv
      BY DEF IInv
    <2>2. client[k] \in Entry
      BY <2>1 DEF CtlInv
    <2>3. client[k].who \in Caller
      BY <2>2 DEF Entry
    <2>4. QED
      BY <2>1, <2>3 DEF CtlInv
  <1>2. QED
    BY <1>1, Invariance, PTL
=============================================================================
