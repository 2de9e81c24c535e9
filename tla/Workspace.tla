----------------------------- MODULE Workspace -----------------------------
(***************************************************************************)
(* A managed workspace directory and the processes that use it: launches   *)
(* of hermasd that bind or load it, serve and close, hermas_run and apps.  *)
(* src/src/workspace_linux.c, src/tools/hermasd.c, src/tools/hermas_run.c  *)
(* and the opening and closing half of src/src/host_linux.c.               *)
(*                                                                         *)
(* The directory has no lock of its own: what keeps two launches apart is  *)
(* link(2), which never replaces a name, the flock on the journal, and the *)
(* order in which the steps are taken.  A step of the model is one system  *)
(* call that another process can observe.                                  *)
(*                                                                         *)
(* An image is a model value: its bytes, its size and its fingerprint are  *)
(* one (two images with one 64-bit fingerprint are left out), and so is    *)
(* the 64-byte manifest, which holds the workflow and the image.  Modes,   *)
(* owners and path lengths are those of a directory the user owns.         *)
(***************************************************************************)
EXTENDS Naturals, FiniteSets

CONSTANTS
  Pid,         \* process identifiers; one may be used again once it is free
  Image,       \* contents that a source file may have
  Supported,   \* those that validate and that this daemon can run
  Workflow,    \* workflow ids
  Nothing,     \* no file, no binding, no holder
  MaxKills,    \* bound on kills of a single process
  MaxLosses    \* bound on losses of power

ASSUME WorkspaceAssumption ==
  /\ Supported \subseteq Image
  /\ Nothing \notin Image \cup Pid \cup Workflow
  /\ Nothing \notin [workflow : Workflow, image : Image]
  /\ "stale" \notin Pid \cup {Nothing}
  /\ MaxKills \in Nat /\ MaxLosses \in Nat

VARIABLES
  made,      \* the directory and its state directory exist
  image,     \* workflow.hgi
  manifest,  \* manifest.hwm
  temp,      \* <<file, pid>>: a temporary file that is still there
  durable,   \* names of the directory that a loss of power keeps
  state,     \* bindings under which the journal was opened; {}: no file
  lock,      \* holder of the flock on the journal
  sock,      \* what is bound at apps.sock and control.sock
  proc,      \* one record per pid
  kills, losses

disk == <<made, image, manifest, temp, durable>>
vars == <<made, image, manifest, temp, durable, state, lock, sock, proc,
          kills, losses>>

Binding == [workflow : Workflow, image : Image]
Socket  == {"apps", "control"}
File    == {"image", "manifest"}
\* hermasd with an image and without, hermas_run, an app with --workspace
Mode    == {"bind", "load", "run", "app"}
Daemon  == {"bind", "load"}

\* held: the manifest that was read, later the image that was mapped
Idle == [at |-> "off", mode |-> Nothing, binding |-> Nothing, held |-> Nothing,
         bound |-> {}]

Resolving == {"check", "open", "source", "manifest", "managed", "absent", "empty",
              "orphan", "write image", "link image", "unlink image",
              "write manifest", "link manifest", "unlink manifest", "sync"}
Place     == Resolving \cup {"off", "map", "state", "bind apps", "bind control",
              "serve", "close", "release", "connect", "called"}

\* where the binding is known, and where the image is mapped
Mapped    == Place \ (Resolving \cup {"off", "map"})
Known     == Place \ (Resolving \cup {"off"})

\* Besides the types: whatever a step reads of its process was set before,
\* on every path through the open, load and bind calls.
TypeOK ==
  /\ made \in BOOLEAN
  /\ image \in Image \cup {Nothing} /\ manifest \in Binding \cup {Nothing}
  /\ temp \subseteq File \X Pid /\ durable \subseteq File
  /\ state \subseteq Binding
  /\ lock \in Pid \cup {Nothing}
  /\ sock \in [Socket -> Pid \cup {Nothing, "stale"}]
  /\ proc \in [Pid -> [at : Place, mode : Mode \cup {Nothing},
                       binding : Workflow \cup Binding \cup {Nothing},
                       held : Binding \cup Image \cup {Nothing},
                       bound : SUBSET Socket]]
  /\ \A p \in Pid :
       /\ \/ proc[p].at \in Known
          \/ proc[p].mode = "bind" /\ proc[p].at \notin {"off", "check", "open", "source"}
          => proc[p].binding \in Binding
       /\ proc[p].at = "managed" => proc[p].held \in Binding
       /\ proc[p].at \in Mapped  => proc[p].held \in Image
  /\ kills \in 0 .. MaxKills /\ losses \in 0 .. MaxLosses

Init ==
  /\ made = FALSE
  /\ image = Nothing /\ manifest = Nothing /\ temp = {} /\ durable = {}
  /\ state = {} /\ lock = Nothing
  /\ sock = [s \in Socket |-> Nothing]
  /\ proc = [p \in Pid |-> Idle]
  /\ kills = 0 /\ losses = 0

At(p, where)   == proc[p].at = where
Go(p, where)   == proc' = [proc EXCEPT ![p].at = where]
Exit(p)        == proc' = [proc EXCEPT ![p] = Idle]

-----------------------------------------------------------------------------
(* hermasd and hermas_run: arguments, check of the source, directories *)

\* the workflow id of a binding launch is an argument of it
Launch(p) ==
  /\ At(p, "off")
  /\ \/ \E w \in Workflow : proc' = [proc EXCEPT ![p] =
          [Idle EXCEPT !.at = "check", !.mode = "bind", !.binding = w]]
     \/ \E m \in Mode \ {"bind"} : proc' = [proc EXCEPT ![p] =
          [Idle EXCEPT !.at = "open", !.mode = m]]
  /\ UNCHANGED <<disk, state, lock, sock, kills, losses>>

\* hermas_host_check_image: a look at the source file as it is now
CheckImage(p) ==
  /\ At(p, "check")
  /\ \E i \in Image : IF i \in Supported THEN Go(p, "open") ELSE Exit(p)
  /\ UNCHANGED <<disk, state, lock, sock, kills, losses>>

\* hermas_workspace_open; only hermasd asks for the directories to be made
OpenWorkspace(p) ==
  /\ At(p, "open")
  /\ made' = (made \/ proc[p].mode \in Daemon)
  /\ CASE ~made'                   -> Exit(p)
       [] proc[p].mode = "bind"    -> Go(p, "source")
       [] OTHER                    -> Go(p, "manifest")
  /\ UNCHANGED <<image, manifest, temp, durable, state, lock, sock, kills, losses>>

-----------------------------------------------------------------------------
(* hermas_workspace_bind_checked, hermas_workspace_load *)

\* Mutation of ReadSource: the earlier check is trusted.
ReadSourceWithoutAcceptor(p) ==
  /\ At(p, "source")
  /\ \E i \in Image :
       proc' = [proc EXCEPT ![p].at = "manifest",
                  ![p].binding = [workflow |-> proc[p].binding, image |-> i]]
  /\ UNCHANGED <<disk, state, lock, sock, kills, losses>>

\* read_source_image and the acceptor: the file may have changed since the
\* check, and the decision is taken again on the bytes that will be bound
ReadSource(p) ==
  /\ At(p, "source")
  /\ \E i \in Image :
       IF i \in Supported
       THEN proc' = [proc EXCEPT ![p].at = "manifest",
                       ![p].binding = [workflow |-> proc[p].binding, image |-> i]]
       ELSE Exit(p)
  /\ UNCHANGED <<disk, state, lock, sock, kills, losses>>

\* what a load that finds a file missing does next
NotInitialized(p) ==
  IF proc[p].mode = "bind" THEN Go(p, "absent") ELSE Exit(p)

\* the first half of hermas_workspace_load
LoadManifest(p) ==
  /\ At(p, "manifest")
  /\ IF manifest = Nothing
     THEN NotInitialized(p)
     ELSE proc' = [proc EXCEPT ![p].at = "managed", ![p].held = manifest]
  /\ UNCHANGED <<disk, state, lock, sock, kills, losses>>

\* Mutation of LoadImage: a loading launch does not take the binding.
LoadImageKeepingArguments(p) ==
  /\ At(p, "managed")
  /\ CASE image = Nothing -> NotInitialized(p)
       [] /\ image = proc[p].held.image
          /\ proc[p].mode = "bind" => proc[p].binding = proc[p].held -> Go(p, "map")
       [] OTHER -> Exit(p)
  /\ UNCHANGED <<disk, state, lock, sock, kills, losses>>

\* the second half; a binding launch compares what it loaded with what it
\* wants, a loading one takes it
LoadImage(p) ==
  /\ At(p, "managed")
  /\ CASE image = Nothing -> NotInitialized(p)
       [] /\ image = proc[p].held.image
          /\ proc[p].mode = "bind" => proc[p].binding = proc[p].held ->
            proc' = [proc EXCEPT ![p].at = "map", ![p].binding = proc[p].held]
       [] OTHER -> Exit(p)
  /\ UNCHANGED <<disk, state, lock, sock, kills, losses>>

\* lstat of the manifest: a manifest whose image is missing is not repaired
RequireNoManifest(p) ==
  /\ At(p, "absent")
  /\ IF manifest = Nothing THEN Go(p, "empty") ELSE Exit(p)
  /\ UNCHANGED <<disk, state, lock, sock, kills, losses>>

\* Mutation of RequireEmptyState: no manifest, so no state.
AssumeEmptyState(p) ==
  /\ At(p, "empty")
  /\ Go(p, "orphan")
  /\ UNCHANGED <<disk, state, lock, sock, kills, losses>>

\* require_empty_state
RequireEmptyState(p) ==
  /\ At(p, "empty")
  /\ IF state = {} THEN Go(p, "orphan") ELSE Exit(p)
  /\ UNCHANGED <<disk, state, lock, sock, kills, losses>>

\* an image without a manifest is what an interrupted launch leaves
ReuseOrphan(p) ==
  /\ At(p, "orphan")
  /\ CASE image = proc[p].binding.image -> Go(p, "write manifest")
       [] image = Nothing               -> Go(p, "write image")
       [] OTHER                         -> Exit(p)
  /\ UNCHANGED <<disk, state, lock, sock, kills, losses>>

(* write_new_file *)

Exists(f) == IF f = "image" THEN image # Nothing ELSE manifest # Nothing

\* the exclusive create, the writes and the fsync; a failing write removes it
WriteTemp(p, f) ==
  /\ At(p, IF f = "image" THEN "write image" ELSE "write manifest")
  /\ \/ /\ <<f, p>> \notin temp
        /\ temp' = temp \cup {<<f, p>>}
        /\ Go(p, IF f = "image" THEN "link image" ELSE "link manifest")
     \/ Exit(p) /\ UNCHANGED temp
  /\ UNCHANGED <<made, image, manifest, durable, state, lock, sock, kills, losses>>

\* Mutation of LinkTemp: rename(2), which replaces a name.
RenameTemp(p, f) ==
  /\ At(p, IF f = "image" THEN "link image" ELSE "link manifest")
  /\ Go(p, IF f = "image" THEN "unlink image" ELSE "unlink manifest")
  /\ image' = IF f = "image" THEN proc[p].binding.image ELSE image
  /\ manifest' = IF f = "manifest" THEN proc[p].binding ELSE manifest
  /\ UNCHANGED <<made, temp, durable, state, lock, sock, kills, losses>>

\* link(2) never replaces a name; the loser removes its temporary file
LinkTemp(p, f) ==
  /\ At(p, IF f = "image" THEN "link image" ELSE "link manifest")
  /\ \/ /\ ~Exists(f)
        /\ Go(p, IF f = "image" THEN "unlink image" ELSE "unlink manifest")
        /\ image' = IF f = "image" THEN proc[p].binding.image ELSE image
        /\ manifest' = IF f = "manifest" THEN proc[p].binding ELSE manifest
        /\ UNCHANGED temp
     \/ Exit(p) /\ temp' = temp \ {<<f, p>>} /\ UNCHANGED <<image, manifest>>
  /\ UNCHANGED <<made, durable, state, lock, sock, kills, losses>>

UnlinkTemp(p, f) ==
  /\ At(p, IF f = "image" THEN "unlink image" ELSE "unlink manifest")
  /\ \/ /\ temp' = temp \ {<<f, p>>}
        /\ Go(p, IF f = "image" THEN "write manifest" ELSE "sync")
     \/ Exit(p) /\ UNCHANGED temp
  /\ UNCHANGED <<made, image, manifest, durable, state, lock, sock, kills, losses>>

\* one fsync of the directory, after both names are in it
SyncWorkspace(p) ==
  /\ At(p, "sync")
  /\ \/ durable' = {f \in File : Exists(f)} /\ Go(p, "map")
     \/ Exit(p) /\ UNCHANGED durable
  /\ UNCHANGED <<made, image, manifest, temp, state, lock, sock, kills, losses>>

-----------------------------------------------------------------------------
(* hermas_host_open *)

\* the managed file is read a second time: load_image of host_linux.c, which
\* asks whether the daemon can run it, load_image of hermas_run.c, which takes
\* it, and load_bound_image, which compares it with the binding
Usable(p) ==
  /\ image # Nothing
  /\ proc[p].mode \in Daemon => image \in Supported
  /\ proc[p].mode = "app"     => image = proc[p].binding.image

MapImage(p) ==
  /\ At(p, "map")
  /\ IF Usable(p)
     THEN proc' = [proc EXCEPT ![p].held = image,
                ![p].at = IF proc[p].mode \in Daemon THEN "state" ELSE "connect"]
     ELSE Exit(p)
  /\ UNCHANGED <<disk, state, lock, sock, kills, losses>>

\* open_state and restore_startup_state: the journal is the first of four
\* files, its flock is tried once; a store that does not scan ends the launch
OpenState(p) ==
  /\ At(p, "state")
  /\ IF lock # Nothing
     THEN Exit(p) /\ UNCHANGED <<state, lock>>
     ELSE /\ lock' = p
          /\ state' = state \cup {[workflow |-> proc[p].binding.workflow,
                                   image    |-> proc[p].held]}
          /\ \/ Go(p, "bind apps")
             \/ Go(p, "release")
  /\ UNCHANGED <<disk, sock, kills, losses>>

\* Mutation of CreateListener: a failure leaves the names that were bound.
CreateListenerOrLeave(p, s) ==
  /\ At(p, IF s = "apps" THEN "bind apps" ELSE "bind control")
  /\ \/ /\ sock[s] = Nothing
        /\ sock' = [sock EXCEPT ![s] = p]
        /\ proc' = [proc EXCEPT ![p].bound = @ \cup {s},
                      ![p].at = IF s = "apps" THEN "bind control" ELSE "serve"]
     \/ Go(p, "release") /\ UNCHANGED sock
  /\ UNCHANGED <<disk, state, lock, kills, losses>>

\* create_listener: a name that is taken is never removed, one whose socket
\* cannot listen is removed again
CreateListener(p, s) ==
  /\ At(p, IF s = "apps" THEN "bind apps" ELSE "bind control")
  /\ \/ /\ sock[s] = Nothing
        /\ sock' = [sock EXCEPT ![s] = p]
        /\ proc' = [proc EXCEPT ![p].bound = @ \cup {s},
                      ![p].at = IF s = "apps" THEN "bind control" ELSE "serve"]
     \/ Go(p, "close") /\ UNCHANGED sock
  /\ UNCHANGED <<disk, state, lock, kills, losses>>

-----------------------------------------------------------------------------
(* the loop of hermasd and hermas_host_close *)

\* SIGINT, SIGTERM or a failing step end the loop of main
Stop(p) ==
  /\ At(p, "serve")
  /\ Go(p, "close")
  /\ UNCHANGED <<disk, state, lock, sock, kills, losses>>

\* the names are removed while the locks are held
UnlinkSocket(p, s) ==
  /\ At(p, "close")
  /\ s \in proc[p].bound
  /\ s = "control" => "apps" \notin proc[p].bound
  /\ sock' = [sock EXCEPT ![s] = Nothing]
  /\ proc' = [proc EXCEPT ![p].bound = @ \ {s}]
  /\ UNCHANGED <<disk, state, lock, kills, losses>>

\* Mutation of CloseState: the locks are given up before the names are removed.
CloseStateFirst(p) ==
  /\ At(p, "close")
  /\ Go(p, "release")
  /\ UNCHANGED <<disk, state, lock, sock, kills, losses>>

\* the stores are closed in the reverse order, the journal last
CloseState(p) ==
  /\ At(p, "close") /\ proc[p].bound = {}
  /\ Go(p, "release")
  /\ UNCHANGED <<disk, state, lock, sock, kills, losses>>

ReleaseLock(p) ==
  /\ At(p, "release")
  /\ lock' = Nothing
  /\ Exit(p)
  /\ UNCHANGED <<disk, state, sock, kills, losses>>

-----------------------------------------------------------------------------
(* hermas_run and apps: connect, execute or serve, close *)

\* a socket whose listener is open takes connections
Connect(p) ==
  /\ At(p, "connect")
  /\ LET owner == sock[IF proc[p].mode = "run" THEN "control" ELSE "apps"]
     IN  IF owner \in Pid /\ proc[owner].at \in {"bind control", "serve"}
         THEN Go(p, "called")
         ELSE Exit(p)
  /\ UNCHANGED <<disk, state, lock, sock, kills, losses>>

\* the answer, or the end of the connection
Answered(p) ==
  /\ At(p, "called")
  /\ Exit(p)
  /\ UNCHANGED <<disk, state, lock, sock, kills, losses>>

-----------------------------------------------------------------------------
(* what may happen to processes and to the machine *)

\* the kernel closes the descriptors; names of sockets and files stay
Dead(ps) ==
  /\ proc' = [p \in Pid |-> IF p \in ps THEN Idle ELSE proc[p]]
  /\ lock' = IF lock \in ps THEN Nothing ELSE lock

Kill(p) ==
  /\ kills < MaxKills
  /\ ~At(p, "off")
  /\ kills' = kills + 1
  /\ Dead({p})
  /\ sock' = [s \in Socket |-> IF sock[s] = p THEN "stale" ELSE sock[s]]
  /\ UNCHANGED <<disk, state, losses>>

\* names that the directory was not synchronized with may be gone, in any
\* combination; so may the journal, whose directory nobody synchronizes
PowerLoss ==
  /\ losses < MaxLosses
  /\ losses' = losses + 1
  /\ Dead(Pid)
  /\ sock' = [s \in Socket |-> IF sock[s] = Nothing THEN Nothing ELSE "stale"]
  /\ \E gone \in SUBSET (File \ durable) :
       /\ image' = IF "image" \in gone THEN Nothing ELSE image
       /\ manifest' = IF "manifest" \in gone THEN Nothing ELSE manifest
  /\ state' \in {state, {}}
  /\ UNCHANGED <<made, temp, durable, kills>>

\* the operator removes what a killed daemon left; the code never does
RemoveStale(s) ==
  /\ sock[s] = "stale"
  /\ sock' = [sock EXCEPT ![s] = Nothing]
  /\ UNCHANGED <<disk, state, lock, proc, kills, losses>>

-----------------------------------------------------------------------------
Step(p) ==
  \/ Launch(p) \/ CheckImage(p) \/ OpenWorkspace(p) \/ ReadSource(p)
  \/ LoadManifest(p) \/ LoadImage(p)
  \/ RequireNoManifest(p) \/ RequireEmptyState(p) \/ ReuseOrphan(p)
  \/ \E f \in File : WriteTemp(p, f) \/ LinkTemp(p, f) \/ UnlinkTemp(p, f)
  \/ SyncWorkspace(p)
  \/ MapImage(p) \/ OpenState(p)
  \/ \E s \in Socket : CreateListener(p, s) \/ UnlinkSocket(p, s)
  \/ Stop(p) \/ CloseState(p) \/ ReleaseLock(p)
  \/ Connect(p) \/ Answered(p)

Next ==
  \/ \E p \in Pid : Step(p) \/ Kill(p)
  \/ PowerLoss
  \/ \E s \in Socket : RemoveStale(s)

Spec == Init /\ [][Next]_vars

-----------------------------------------------------------------------------
(* Properties *)

\* Every process for which hermas_workspace_bind_checked, hermas_workspace_load
\* or load_bound_image returned OK holds the binding that is on the disk, and
\* the image it mapped afterwards is that binding's, whatever other launches,
\* with other images and workflow ids, did in between.
ProcessesAgree ==
  \A p \in Pid : proc[p].at \in Known =>
    /\ proc[p].binding = manifest
    /\ image = manifest.image
    /\ proc[p].at # "map" => proc[p].held = image

\* Durable execution state is never opened under two bindings: not by launches
\* that race, and not after a loss of power that took the names of the manifest
\* and of the image but not the journal (require_empty_state).
StateMatchesBinding == Cardinality(state) <= 1

\* A daemon in its loop holds the journal's lock and both names; a name that
\* its owner did not remove belongs to a process that will remove it.  Only a
\* kill leaves a name behind (hermas_host_open, hermas_host_close).
ServingOwnsWorkspace ==
  /\ \A p \in Pid : At(p, "serve") => lock = p /\ \A s \in Socket : sock[s] = p
  /\ \A s \in Socket : sock[s] \in Pid => s \in proc[sock[s]].bound

\* What can be left behind that refuses every later launch of the daemon, whatever
\* image and workflow id it is given: an image that no daemon takes, a manifest
\* without its image, state without a manifest, a lock whose holder is gone, and a
\* name of a socket that no process will remove, on which create_listener fails.
\* A temporary file refuses a launch with the same pid only.
Obstacles ==
  {o \in {"image", "manifest", "state", "lock", "socket"} :
     CASE o = "image"    -> image \notin Supported \cup {Nothing}
       [] o = "manifest" -> manifest # Nothing /\ image # manifest.image
       [] o = "state"    -> manifest = Nothing /\ state # {}
       [] o = "lock"     -> lock # Nothing /\ At(lock, "off")
       [] o = "socket"   -> \E s \in Socket : /\ sock[s] # Nothing
                                             /\ \A p \in Pid : s \notin proc[p].bound}

\* However processes are killed and interleaved, the binding, the state and the
\* lock are left so that a launch can go on; the one thing that then refuses every
\* launch is a name of a socket, which DAEMON_HOST.md has the operator remove, and
\* without a kill nothing does.  A loss of power may break this: see the README.
\* What the four stores hold is not part of it: their recovery is modelled with
\* the loops.
OnlySocketNamesBlockLaunches ==
  losses = 0 => Obstacles \subseteq (IF kills = 0 THEN {} ELSE {"socket"})
=============================================================================
