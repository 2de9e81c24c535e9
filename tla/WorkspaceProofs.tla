-------------------------- MODULE WorkspaceProofs --------------------------
(***************************************************************************)
(* Theorems about Workspace, for any number of processes, images and       *)
(* workflow ids, and any number of kills and losses of power.              *)
(*                                                                         *)
(* The directory has no lock, so the invariant says what a process knows   *)
(* about the disk at each place of its code (Agrees): what it has read or  *)
(* written is still there, because no name is ever replaced and a loss of  *)
(* power ends every process.                                               *)
(***************************************************************************)
EXTENDS Workspace, TLAPS, FiniteSetTheorems

Process == [at : Place, mode : Mode \cup {Nothing},
            binding : Workflow \cup Binding \cup {Nothing},
            held : Binding \cup Image \cup {Nothing},
            bound : SUBSET Socket]

\* where a daemon holds the flock on the journal
Locked  == {"bind apps", "bind control", "serve", "close", "release"}

\* where a launch has found the state empty and has not published a manifest
Writing == {"orphan", "write image", "link image", "unlink image",
            "write manifest", "link manifest"}

\* where a launch goes on with the image that is there
WithImage == {"unlink image", "write manifest", "link manifest"}

\* where a process has seen the whole binding on the disk
Bound   == {"unlink manifest", "sync"} \cup Known

\* What the code of a process has established about its own variables.
PlaceOK(r) ==
  /\ r.at \in {"check", "source", "absent", "empty", "sync", "unlink manifest"} \cup Writing
       => r.mode = "bind"
  /\ r.mode = "bind" /\ r.at \in {"check", "open", "source"} => r.binding \in Workflow
  /\ r.mode = "bind" /\ r.at \notin {"off", "check", "open", "source"}
       => r.binding \in Binding /\ r.binding.image \in Supported
  /\ r.at \in Known => r.binding \in Binding
  /\ r.at = "managed" => r.held \in Binding
  /\ r.at \in Mapped => r.held \in Image
  /\ r.at \notin {"bind control", "serve", "close"} => r.bound = {}
  /\ r.at = "bind control" => r.bound = {"apps"}
  /\ r.at = "serve" => r.bound = Socket

\* What a process at this place may rely on about the disk.
Agrees(r) ==
  /\ r.at = "managed" => r.held = manifest
  /\ r.at \in WithImage => image = r.binding.image
  /\ r.at \in Bound => r.binding = manifest /\ image = manifest.image
  /\ r.at \in Mapped => r.held = image
  /\ r.at \in Writing => state = {} \/ manifest # Nothing

DiskTypeOK ==
  /\ made \in BOOLEAN
  /\ image \in Image \cup {Nothing} /\ manifest \in Binding \cup {Nothing}
  /\ temp \subseteq File \X Pid /\ durable \subseteq File
  /\ state \subseteq Binding
  /\ lock \in Pid \cup {Nothing}
  /\ sock \in [Socket -> Pid \cup {Nothing, "stale"}]
  /\ kills \in 0 .. MaxKills /\ losses \in 0 .. MaxLosses

\* The state belongs to one binding, the one on the disk if there is one.
StateOK ==
  /\ \A b, c \in state : b = c
  /\ manifest # Nothing => state \subseteq {manifest}

\* The lock and the names of the sockets are where their owner thinks.
OwnersOK ==
  /\ \A p \in Pid : proc[p].at \in Locked <=> lock = p
  /\ \A p \in Pid : \A s \in Socket : s \in proc[p].bound <=> sock[s] = p

\* As long as power is not lost the files of the binding fit each other.
FilesOK ==
  losses = 0 =>
    /\ image \in Supported \cup {Nothing}
    /\ manifest = Nothing => state = {}
    /\ manifest # Nothing => image = manifest.image

\* Only a process that did not end by itself leaves its name at a socket.
StaleOK == (\E s \in Socket : sock[s] = "stale") => kills > 0 \/ losses > 0

\* The inductive invariant.
IInv ==
  /\ DiskTypeOK
  /\ proc \in [Pid -> Process]
  /\ \A p \in Pid : PlaceOK(proc[p])
  /\ \A p \in Pid : Agrees(proc[p])
  /\ StateOK
  /\ OwnersOK
  /\ FilesOK

-----------------------------------------------------------------------------
(* Steps of one process *)

Moved(p, w) == [proc[p] EXCEPT !.at = w]

\* Go moves a process and leaves everything else about it.
LEMMA GoFields ==
  ASSUME proc \in [Pid -> Process], NEW p \in Pid, NEW w \in Place, Go(p, w)
  PROVE  /\ proc' \in [Pid -> Process]
         /\ \A q \in Pid : q # p => proc'[q] = proc[q]
         /\ proc'[p].at = w /\ proc'[p].mode = proc[p].mode
         /\ proc'[p].binding = proc[p].binding /\ proc'[p].held = proc[p].held
         /\ proc'[p].bound = proc[p].bound
  BY DEF Go, Process

\* Exit leaves the record of a process that was never started.
LEMMA ExitFields ==
  ASSUME proc \in [Pid -> Process], NEW p \in Pid, Exit(p)
  PROVE  /\ proc' \in [Pid -> Process]
         /\ \A q \in Pid : q # p => proc'[q] = proc[q]
         /\ proc'[p].at = "off" /\ proc'[p].bound = {}
         /\ PlaceOK(proc'[p]) /\ Agrees(proc[p])'
  <1>1. Idle \in Process
    BY DEF Idle, Process, Place
  <1>2. /\ proc' \in [Pid -> Process]
        /\ \A q \in Pid : q # p => proc'[q] = proc[q]
        /\ proc'[p].at = "off" /\ proc'[p].bound = {} /\ proc'[p].mode = Nothing
    BY <1>1 DEF Exit, Idle
  <1>3. PlaceOK(proc'[p])
    BY <1>2 DEF PlaceOK, Writing, Known, Mapped, Place, Resolving
  <1>4. Agrees(proc[p])'
    BY <1>2 DEF Agrees, Writing, WithImage, Bound, Known, Mapped, Place, Resolving
  <1>5. QED
    BY <1>2, <1>3, <1>4

\* PlaceOK is about one process only.
LEMMA OthersInPlace ==
  ASSUME IInv, NEW p \in Pid, \A q \in Pid : q # p => proc'[q] = proc[q], PlaceOK(proc[p])'
  PROVE  \A q \in Pid : PlaceOK(proc[q])'
  <1>1. ASSUME NEW q \in Pid, q # p PROVE PlaceOK(proc[q])'
    <2>1. PlaceOK(proc[q]) /\ proc'[q] = proc[q]
      BY <1>1 DEF IInv
    <2>2. QED
      BY <2>1 DEF PlaceOK
  <1>2. QED
    BY <1>1

\* A step of one process that changes none of what is shared, and neither what
\* the process holds, needs to be looked at for this process only.
LEMMA OwnStep ==
  ASSUME IInv, NEW p \in Pid,
         proc' \in [Pid -> Process], \A q \in Pid : q # p => proc'[q] = proc[q],
         PlaceOK(proc'[p]), Agrees(proc[p])',
         proc'[p].at \in Locked <=> proc[p].at \in Locked,
         proc'[p].bound = proc[p].bound,
         made' \in BOOLEAN, temp' \subseteq File \X Pid, durable' \subseteq File,
         UNCHANGED <<image, manifest, state, lock, sock, kills, losses>>
  PROVE  IInv'
  <1>1. DiskTypeOK'
    BY DEF IInv, DiskTypeOK
  <1>2. \A q \in Pid : PlaceOK(proc[q])'
    BY DEF IInv, PlaceOK
  <1>3. \A q \in Pid : Agrees(proc[q])'
    BY DEF IInv, Agrees
  <1>4. StateOK'
    BY DEF IInv, StateOK
  <1>5. OwnersOK'
    BY DEF IInv, OwnersOK
  <1>6. FilesOK'
    BY DEF IInv, FilesOK
  <1>7. QED
    BY <1>1, <1>2, <1>3, <1>4, <1>5, <1>6 DEF IInv

\* Wherever it does not hold the lock, a process may exit.
LEMMA ExitStep ==
  ASSUME IInv, NEW p \in Pid, Exit(p), proc[p].at \notin Locked,
         made' \in BOOLEAN, temp' \subseteq File \X Pid, durable' \subseteq File,
         UNCHANGED <<image, manifest, state, lock, sock, kills, losses>>
  PROVE  IInv'
  <1>1. /\ proc' \in [Pid -> Process]
        /\ \A q \in Pid : q # p => proc'[q] = proc[q]
        /\ proc'[p].at = "off" /\ proc'[p].bound = {}
        /\ PlaceOK(proc'[p]) /\ Agrees(proc[p])'
    BY ExitFields DEF IInv
  <1>2. proc[p].bound = {} /\ proc'[p].at \notin Locked
    BY <1>1 DEF IInv, PlaceOK, Locked
  <1>3. QED
    BY <1>1, <1>2, OwnStep

\* A process that only moves on, to a place where it knows enough.
LEMMA GoStep ==
  ASSUME IInv, NEW p \in Pid, NEW w \in Place, Go(p, w),
         PlaceOK(Moved(p, w)), Agrees(Moved(p, w)),
         w \in Locked <=> proc[p].at \in Locked,
         made' \in BOOLEAN, temp' \subseteq File \X Pid, durable' \subseteq File,
         UNCHANGED <<image, manifest, state, lock, sock, kills, losses>>
  PROVE  IInv'
  <1>1. /\ proc' \in [Pid -> Process]
        /\ \A q \in Pid : q # p => proc'[q] = proc[q]
        /\ proc'[p].at = w /\ proc'[p].bound = proc[p].bound
    BY GoFields DEF IInv
  <1>2. proc'[p] = Moved(p, w)
    BY DEF Go, Moved, IInv
  <1>3. PlaceOK(proc'[p]) /\ Agrees(proc[p])'
    BY <1>2 DEF Agrees
  <1>4. QED
    BY <1>1, <1>3, OwnStep

\* A process whose record is replaced.
LEMMA BecomeStep ==
  ASSUME IInv, NEW p \in Pid, NEW r \in Process, proc' = [proc EXCEPT ![p] = r],
         PlaceOK(r), Agrees(r), r.bound = proc[p].bound,
         r.at \in Locked <=> proc[p].at \in Locked,
         made' \in BOOLEAN, temp' \subseteq File \X Pid, durable' \subseteq File,
         UNCHANGED <<image, manifest, state, lock, sock, kills, losses>>
  PROVE  IInv'
  <1>1. /\ proc' \in [Pid -> Process]
        /\ \A q \in Pid : q # p => proc'[q] = proc[q]
        /\ proc'[p] = r
    BY DEF IInv
  <1>2. PlaceOK(proc'[p]) /\ Agrees(proc[p])'
    BY <1>1 DEF Agrees
  <1>3. QED
    BY <1>1, <1>2, OwnStep

-----------------------------------------------------------------------------
(* Opening, loading and binding *)

\* A step that leaves the disk alone leaves it well-typed.
LEMMA SameDisk ==
  ASSUME IInv, UNCHANGED disk
  PROVE  made' \in BOOLEAN /\ temp' \subseteq File \X Pid /\ durable' \subseteq File
  BY DEF IInv, DiskTypeOK, disk

\* A launch begins with what its arguments say.
LEMMA LaunchKeeps == ASSUME IInv, NEW p \in Pid, Launch(p) PROVE IInv'
  <1> USE DEF Place, Resolving, Known, Mapped, Locked, Writing, WithImage, Bound
  <1>1. proc[p].at = "off" /\ proc[p].bound = {}
    BY DEF Launch, At, IInv, PlaceOK
  <1>2. CASE \E w \in Workflow : proc' = [proc EXCEPT ![p] =
               [Idle EXCEPT !.at = "check", !.mode = "bind", !.binding = w]]
    <2>1. PICK w \in Workflow : proc' = [proc EXCEPT ![p] =
               [Idle EXCEPT !.at = "check", !.mode = "bind", !.binding = w]]
      BY <1>2
    <2> DEFINE r == [Idle EXCEPT !.at = "check", !.mode = "bind", !.binding = w]
    <2>2. r \in Process /\ PlaceOK(r) /\ Agrees(r) /\ r.bound = {} /\ r.at = "check"
      BY DEF Idle, Process, Mode, PlaceOK, Agrees
    <2>3. QED
      BY <1>1, <2>1, <2>2, BecomeStep, SameDisk DEF Launch, disk
  <1>3. CASE \E m \in Mode \ {"bind"} : proc' = [proc EXCEPT ![p] =
               [Idle EXCEPT !.at = "open", !.mode = m]]
    <2>1. PICK m \in Mode \ {"bind"} : proc' = [proc EXCEPT ![p] =
               [Idle EXCEPT !.at = "open", !.mode = m]]
      BY <1>3
    <2> DEFINE r == [Idle EXCEPT !.at = "open", !.mode = m]
    <2>2. r \in Process /\ PlaceOK(r) /\ Agrees(r) /\ r.bound = {} /\ r.at = "open"
      BY DEF Idle, Process, Mode, PlaceOK, Agrees
    <2>3. QED
      BY <1>1, <2>1, <2>2, BecomeStep, SameDisk DEF Launch, disk
  <1>4. QED
    BY <1>2, <1>3 DEF Launch

\* The first look at the source promises nothing about the second.
LEMMA CheckImageKeeps == ASSUME IInv, NEW p \in Pid, CheckImage(p) PROVE IInv'
  <1> USE DEF Place, Resolving, Known, Mapped, Locked, Writing, WithImage, Bound
  <1>1. /\ proc[p].at = "check" /\ proc[p].at \notin Locked
        /\ proc[p] \in Process /\ PlaceOK(proc[p]) /\ Agrees(proc[p])
    BY DEF IInv, CheckImage, At
  <1>2. CASE Go(p, "open")
    <2>1. PlaceOK(Moved(p, "open")) /\ Agrees(Moved(p, "open"))
      BY <1>1, <1>2 DEF Moved, PlaceOK, Agrees
    <2>2. QED
      BY <1>1, <1>2, <2>1, GoStep, SameDisk DEF CheckImage, disk
  <1>3. CASE Exit(p)
    BY <1>1, <1>3, ExitStep, SameDisk DEF CheckImage, disk
  <1>4. QED
    BY <1>2, <1>3 DEF CheckImage

\* Making the directories changes no name in them.
LEMMA OpenWorkspaceKeeps == ASSUME IInv, NEW p \in Pid, OpenWorkspace(p) PROVE IInv'
  <1> USE DEF Place, Resolving, Known, Mapped, Locked, Writing, WithImage, Bound
  <1>1. /\ proc[p].at = "open" /\ proc[p].at \notin Locked
        /\ proc[p] \in Process /\ PlaceOK(proc[p]) /\ Agrees(proc[p])
    BY DEF IInv, OpenWorkspace, At
  <1>2. made' \in BOOLEAN /\ temp' \subseteq File \X Pid /\ durable' \subseteq File
    BY DEF IInv, DiskTypeOK, OpenWorkspace
  <1>3. CASE Go(p, "source") /\ proc[p].mode = "bind"
    <2>1. PlaceOK(Moved(p, "source")) /\ Agrees(Moved(p, "source"))
      BY <1>1, <1>3 DEF Moved, PlaceOK, Agrees
    <2>2. QED
      BY <1>1, <1>2, <1>3, <2>1, GoStep DEF OpenWorkspace
  <1>4. CASE Go(p, "manifest") /\ proc[p].mode # "bind"
    <2>1. PlaceOK(Moved(p, "manifest")) /\ Agrees(Moved(p, "manifest"))
      BY <1>1, <1>4 DEF Moved, PlaceOK, Agrees
    <2>2. QED
      BY <1>1, <1>2, <1>4, <2>1, GoStep DEF OpenWorkspace
  <1>5. CASE Exit(p)
    BY <1>1, <1>2, <1>5, ExitStep DEF OpenWorkspace
  <1>6. QED
    BY <1>3, <1>4, <1>5 DEF OpenWorkspace

\* What a launch wants to bind is an image that a daemon takes.
LEMMA ReadSourceKeeps == ASSUME IInv, NEW p \in Pid, ReadSource(p) PROVE IInv'
  <1> USE DEF Place, Resolving, Known, Mapped, Locked, Writing, WithImage, Bound
  <1>1. /\ proc[p].at = "source" /\ proc[p].at \notin Locked /\ proc[p].bound = {}
        /\ proc[p].mode = "bind" /\ proc[p].binding \in Workflow /\ proc[p] \in Process
    BY DEF ReadSource, At, IInv, PlaceOK
  <1>2. ASSUME NEW i \in Supported,
               proc' = [proc EXCEPT ![p].at = "manifest",
                          ![p].binding = [workflow |-> proc[p].binding, image |-> i]]
        PROVE  IInv'
    <2> DEFINE b == [workflow |-> proc[p].binding, image |-> i]
               r == [proc[p] EXCEPT !.at = "manifest", !.binding = b]
    <2>1. b \in Binding /\ b.image = i
      BY <1>1, WorkspaceAssumption DEF Binding
    <2>2. proc' = [proc EXCEPT ![p] = r]
      BY <1>2 DEF IInv
    <2> HIDE DEF b
    <2>3. r \in Process /\ PlaceOK(r) /\ Agrees(r) /\ r.bound = {} /\ r.at = "manifest"
      BY <1>1, <2>1 DEF PlaceOK, Agrees, Process
    <2>4. QED
      BY <1>1, <2>2, <2>3, BecomeStep, SameDisk DEF ReadSource, disk
  <1>3. CASE Exit(p)
    BY <1>1, <1>3, ExitStep, SameDisk DEF ReadSource, disk
  <1>4. QED
    BY <1>2, <1>3 DEF ReadSource

\* A file that is missing sends a binding launch on and ends a loading one.
LEMMA NotInitializedKeeps ==
  ASSUME IInv, NEW p \in Pid, NotInitialized(p), proc[p].at \in {"manifest", "managed"},
         UNCHANGED <<disk, state, lock, sock, kills, losses>>
  PROVE  IInv'
  <1> USE DEF Place, Resolving, Known, Mapped, Locked, Writing, WithImage, Bound
  <1>1. /\ proc[p].at \notin Locked
        /\ proc[p] \in Process /\ PlaceOK(proc[p]) /\ Agrees(proc[p])
    BY DEF IInv
  <1>2. CASE Go(p, "absent") /\ proc[p].mode = "bind"
    <2>1. /\ Moved(p, "absent").at = "absent"
          /\ Moved(p, "absent").mode = proc[p].mode
          /\ Moved(p, "absent").binding = proc[p].binding
          /\ Moved(p, "absent").bound = proc[p].bound
      BY <1>1 DEF Moved, Process
    <2>2. PlaceOK(Moved(p, "absent"))
      BY <1>1, <1>2, <2>1 DEF PlaceOK
    <2>3. Agrees(Moved(p, "absent"))
      BY <1>1, <1>2, <2>1 DEF Agrees
    <2>4. QED
      BY <1>1, <1>2, <2>2, <2>3, GoStep, SameDisk DEF disk
  <1>3. CASE Exit(p)
    BY <1>1, <1>3, ExitStep, SameDisk DEF disk
  <1>4. QED
    BY <1>2, <1>3 DEF NotInitialized

\* The manifest that was read stays what it is.
LEMMA LoadManifestKeeps == ASSUME IInv, NEW p \in Pid, LoadManifest(p) PROVE IInv'
  <1> USE DEF Place, Resolving, Known, Mapped, Locked, Writing, WithImage, Bound
  <1>1. /\ proc[p].at = "manifest" /\ proc[p].at \notin Locked
        /\ proc[p] \in Process /\ PlaceOK(proc[p]) /\ Agrees(proc[p])
    BY DEF IInv, LoadManifest, At
  <1>2. CASE manifest # Nothing /\ proc' = [proc EXCEPT ![p].at = "managed", ![p].held = manifest]
    <2> DEFINE r == [proc[p] EXCEPT !.at = "managed", !.held = manifest]
    <2>1. manifest \in Binding
      BY <1>2 DEF IInv, DiskTypeOK
    <2>2. proc' = [proc EXCEPT ![p] = r]
      BY <1>2 DEF IInv
    <2>3. r \in Process /\ PlaceOK(r) /\ Agrees(r) /\ r.bound = proc[p].bound /\ r.at = "managed"
      BY <1>1, <2>1 DEF PlaceOK, Agrees, Process
    <2>4. QED
      BY <1>1, <2>2, <2>3, BecomeStep, SameDisk DEF LoadManifest, disk
  <1>3. CASE NotInitialized(p)
    BY <1>1, <1>3, NotInitializedKeeps DEF LoadManifest
  <1>4. QED
    BY <1>2, <1>3 DEF LoadManifest

\* A load that succeeds has seen a manifest and its image together.
LEMMA LoadImageKeeps == ASSUME IInv, NEW p \in Pid, LoadImage(p) PROVE IInv'
  <1> USE DEF Place, Resolving, Known, Mapped, Locked, Writing, WithImage, Bound
  <1>1. /\ proc[p].at = "managed" /\ proc[p].at \notin Locked
        /\ proc[p] \in Process /\ PlaceOK(proc[p]) /\ Agrees(proc[p])
    BY DEF IInv, LoadImage, At
  <1>2. CASE /\ image = proc[p].held.image
             /\ proc' = [proc EXCEPT ![p].at = "map", ![p].binding = proc[p].held]
             /\ proc[p].mode = "bind" => proc[p].binding = proc[p].held
    <2> DEFINE r == [proc[p] EXCEPT !.at = "map", !.binding = proc[p].held]
    <2>1. proc' = [proc EXCEPT ![p] = r]
      BY <1>2 DEF IInv
    <2>2. r \in Process /\ PlaceOK(r) /\ Agrees(r) /\ r.bound = proc[p].bound /\ r.at = "map"
      BY <1>1, <1>2 DEF PlaceOK, Agrees, Process
    <2>3. QED
      BY <1>1, <2>1, <2>2, BecomeStep, SameDisk DEF LoadImage, disk
  <1>3. CASE NotInitialized(p)
    BY <1>1, <1>3, NotInitializedKeeps DEF LoadImage
  <1>4. CASE Exit(p)
    BY <1>1, <1>4, ExitStep, SameDisk DEF LoadImage, disk
  <1>5. QED
    BY <1>2, <1>3, <1>4 DEF LoadImage

\* A launch goes on without a manifest ...
LEMMA RequireNoManifestKeeps == ASSUME IInv, NEW p \in Pid, RequireNoManifest(p) PROVE IInv'
  <1> USE DEF Place, Resolving, Known, Mapped, Locked, Writing, WithImage, Bound
  <1>1. /\ proc[p].at = "absent" /\ proc[p].at \notin Locked
        /\ proc[p] \in Process /\ PlaceOK(proc[p]) /\ Agrees(proc[p])
    BY DEF IInv, RequireNoManifest, At
  <1>2. CASE Go(p, "empty")
    <2>1. PlaceOK(Moved(p, "empty")) /\ Agrees(Moved(p, "empty"))
      BY <1>1, <1>2 DEF Moved, PlaceOK, Agrees
    <2>2. QED
      BY <1>1, <1>2, <2>1, GoStep, SameDisk DEF RequireNoManifest, disk
  <1>3. CASE Exit(p)
    BY <1>1, <1>3, ExitStep, SameDisk DEF RequireNoManifest, disk
  <1>4. QED
    BY <1>2, <1>3 DEF RequireNoManifest

\* ... only where it has found no state ...
LEMMA RequireEmptyStateKeeps == ASSUME IInv, NEW p \in Pid, RequireEmptyState(p) PROVE IInv'
  <1> USE DEF Place, Resolving, Known, Mapped, Locked, Writing, WithImage, Bound
  <1>1. /\ proc[p].at = "empty" /\ proc[p].at \notin Locked
        /\ proc[p] \in Process /\ PlaceOK(proc[p]) /\ Agrees(proc[p])
    BY DEF IInv, RequireEmptyState, At
  <1>2. CASE Go(p, "orphan") /\ state = {}
    <2>1. PlaceOK(Moved(p, "orphan")) /\ Agrees(Moved(p, "orphan"))
      BY <1>1, <1>2 DEF Moved, PlaceOK, Agrees
    <2>2. QED
      BY <1>1, <1>2, <2>1, GoStep, SameDisk DEF RequireEmptyState, disk
  <1>3. CASE Exit(p)
    BY <1>1, <1>3, ExitStep, SameDisk DEF RequireEmptyState, disk
  <1>4. QED
    BY <1>2, <1>3 DEF RequireEmptyState

\* ... and with an image that is its own, if there is one.
LEMMA ReuseOrphanKeeps == ASSUME IInv, NEW p \in Pid, ReuseOrphan(p) PROVE IInv'
  <1> USE DEF Place, Resolving, Known, Mapped, Locked, Writing, WithImage, Bound
  <1>1. /\ proc[p].at = "orphan" /\ proc[p].at \notin Locked
        /\ proc[p] \in Process /\ PlaceOK(proc[p]) /\ Agrees(proc[p])
    BY DEF IInv, ReuseOrphan, At
  <1>2. CASE Go(p, "write manifest") /\ image = proc[p].binding.image
    <2>1. /\ Moved(p, "write manifest").at = "write manifest"
          /\ Moved(p, "write manifest").mode = proc[p].mode
          /\ Moved(p, "write manifest").binding = proc[p].binding
          /\ Moved(p, "write manifest").bound = proc[p].bound
      BY <1>1 DEF Moved, Process
    <2>2. PlaceOK(Moved(p, "write manifest"))
      BY <1>1, <1>2, <2>1 DEF PlaceOK
    <2>3. Agrees(Moved(p, "write manifest"))
      BY <1>1, <1>2, <2>1 DEF Agrees
    <2>4. QED
      BY <1>1, <1>2, <2>2, <2>3, GoStep, SameDisk DEF ReuseOrphan, disk
  <1>3. CASE Go(p, "write image")
    <2>1. /\ Moved(p, "write image").at = "write image"
          /\ Moved(p, "write image").mode = proc[p].mode
          /\ Moved(p, "write image").binding = proc[p].binding
          /\ Moved(p, "write image").bound = proc[p].bound
      BY <1>1 DEF Moved, Process
    <2>2. PlaceOK(Moved(p, "write image"))
      BY <1>1, <1>3, <2>1 DEF PlaceOK
    <2>3. Agrees(Moved(p, "write image"))
      BY <1>1, <1>3, <2>1 DEF Agrees
    <2>4. QED
      BY <1>1, <1>3, <2>2, <2>3, GoStep, SameDisk DEF ReuseOrphan, disk
  <1>4. CASE Exit(p)
    BY <1>1, <1>4, ExitStep, SameDisk DEF ReuseOrphan, disk
  <1>5. QED
    BY <1>2, <1>3, <1>4 DEF ReuseOrphan

-----------------------------------------------------------------------------
(* write_new_file *)

\* A temporary file is seen by nobody else.
LEMMA WriteTempKeeps == ASSUME IInv, NEW p \in Pid, NEW f \in File, WriteTemp(p, f) PROVE IInv'
  <1> USE DEF Place, Resolving, Known, Mapped, Locked, Writing, WithImage, Bound
  <1>1. /\ \/ f = "image" /\ proc[p].at = "write image"
           \/ f = "manifest" /\ proc[p].at = "write manifest"
        /\ proc[p] \in Process /\ PlaceOK(proc[p]) /\ Agrees(proc[p])
    <2>1. \/ f = "image" /\ proc[p].at = "write image"
          \/ f = "manifest" /\ proc[p].at = "write manifest"
      BY DEF WriteTemp, At, File
    <2>2. QED
      BY <2>1 DEF IInv
  <1>2. made' \in BOOLEAN /\ temp' \subseteq File \X Pid /\ durable' \subseteq File
    <2>1. <<f, p>> \in File \X Pid
      OBVIOUS
    <2>2. temp' \subseteq temp \cup {<<f, p>>}
      BY DEF WriteTemp
    <2>3. QED
      BY <2>1, <2>2 DEF IInv, DiskTypeOK, WriteTemp
  <1>3. CASE Go(p, "link image") /\ f = "image"
    <2>1. /\ Moved(p, "link image").at = "link image"
          /\ Moved(p, "link image").mode = proc[p].mode
          /\ Moved(p, "link image").binding = proc[p].binding
          /\ Moved(p, "link image").held = proc[p].held
          /\ Moved(p, "link image").bound = proc[p].bound
      BY <1>1 DEF Moved, Process
    <2>2. PlaceOK(Moved(p, "link image"))
      BY <1>1, <1>3, <2>1 DEF PlaceOK
    <2>3. Agrees(Moved(p, "link image"))
      BY <1>1, <1>3, <2>1 DEF Agrees
    <2>4. QED
      BY <1>1, <1>3, <2>2, <2>3, GoStep, <1>2 DEF WriteTemp
  <1>4. CASE Go(p, "link manifest") /\ f = "manifest"
    <2>1. /\ Moved(p, "link manifest").at = "link manifest"
          /\ Moved(p, "link manifest").mode = proc[p].mode
          /\ Moved(p, "link manifest").binding = proc[p].binding
          /\ Moved(p, "link manifest").held = proc[p].held
          /\ Moved(p, "link manifest").bound = proc[p].bound
      BY <1>1 DEF Moved, Process
    <2>2. PlaceOK(Moved(p, "link manifest"))
      BY <1>1, <1>4, <2>1 DEF PlaceOK
    <2>3. Agrees(Moved(p, "link manifest"))
      BY <1>1, <1>4, <2>1 DEF Agrees
    <2>4. QED
      BY <1>1, <1>4, <2>2, <2>3, GoStep, <1>2 DEF WriteTemp
  <1>5. CASE Exit(p)
    BY <1>1, <1>5, ExitStep, <1>2 DEF WriteTemp
  <1>6. QED
    BY <1>3, <1>4, <1>5 DEF WriteTemp, File

\* Removing a temporary file that was linked changes no name.
LEMMA UnlinkTempKeeps == ASSUME IInv, NEW p \in Pid, NEW f \in File, UnlinkTemp(p, f) PROVE IInv'
  <1> USE DEF Place, Resolving, Known, Mapped, Locked, Writing, WithImage, Bound
  <1>1. /\ \/ f = "image" /\ proc[p].at = "unlink image"
           \/ f = "manifest" /\ proc[p].at = "unlink manifest"
        /\ proc[p] \in Process /\ PlaceOK(proc[p]) /\ Agrees(proc[p])
    <2>1. \/ f = "image" /\ proc[p].at = "unlink image"
          \/ f = "manifest" /\ proc[p].at = "unlink manifest"
      BY DEF UnlinkTemp, At, File
    <2>2. QED
      BY <2>1 DEF IInv
  <1>2. made' \in BOOLEAN /\ temp' \subseteq File \X Pid /\ durable' \subseteq File
    BY DEF IInv, DiskTypeOK, UnlinkTemp
  <1>3. CASE Go(p, "write manifest") /\ f = "image"
    <2>1. /\ Moved(p, "write manifest").at = "write manifest"
          /\ Moved(p, "write manifest").mode = proc[p].mode
          /\ Moved(p, "write manifest").binding = proc[p].binding
          /\ Moved(p, "write manifest").held = proc[p].held
          /\ Moved(p, "write manifest").bound = proc[p].bound
      BY <1>1 DEF Moved, Process
    <2>2. PlaceOK(Moved(p, "write manifest"))
      BY <1>1, <1>3, <2>1 DEF PlaceOK
    <2>3. Agrees(Moved(p, "write manifest"))
      BY <1>1, <1>3, <2>1 DEF Agrees
    <2>4. QED
      BY <1>1, <1>3, <2>2, <2>3, GoStep, <1>2 DEF UnlinkTemp
  <1>4. CASE Go(p, "sync") /\ f = "manifest"
    <2>1. /\ Moved(p, "sync").at = "sync"
          /\ Moved(p, "sync").mode = proc[p].mode
          /\ Moved(p, "sync").binding = proc[p].binding
          /\ Moved(p, "sync").held = proc[p].held
          /\ Moved(p, "sync").bound = proc[p].bound
      BY <1>1 DEF Moved, Process
    <2>2. PlaceOK(Moved(p, "sync"))
      BY <1>1, <1>4, <2>1 DEF PlaceOK
    <2>3. Agrees(Moved(p, "sync"))
      BY <1>1, <1>4, <2>1 DEF Agrees
    <2>4. QED
      BY <1>1, <1>4, <2>2, <2>3, GoStep, <1>2 DEF UnlinkTemp
  <1>5. CASE Exit(p)
    BY <1>1, <1>5, ExitStep, <1>2 DEF UnlinkTemp
  <1>6. QED
    BY <1>3, <1>4, <1>5 DEF UnlinkTemp, File

\* The synchronization comes after both names are there.
LEMMA SyncWorkspaceKeeps == ASSUME IInv, NEW p \in Pid, SyncWorkspace(p) PROVE IInv'
  <1> USE DEF Place, Resolving, Known, Mapped, Locked, Writing, WithImage, Bound
  <1>1. /\ proc[p].at = "sync" /\ proc[p].at \notin Locked
        /\ proc[p] \in Process /\ PlaceOK(proc[p]) /\ Agrees(proc[p])
    BY DEF IInv, SyncWorkspace, At
  <1>2. made' \in BOOLEAN /\ temp' \subseteq File \X Pid /\ durable' \subseteq File
    BY DEF IInv, DiskTypeOK, SyncWorkspace
  <1>3. CASE Go(p, "map")
    <2>1. /\ Moved(p, "map").at = "map"
          /\ Moved(p, "map").mode = proc[p].mode
          /\ Moved(p, "map").binding = proc[p].binding
          /\ Moved(p, "map").held = proc[p].held
          /\ Moved(p, "map").bound = proc[p].bound
      BY <1>1 DEF Moved, Process
    <2>2. PlaceOK(Moved(p, "map"))
      BY <1>1, <1>3, <2>1 DEF PlaceOK
    <2>3. Agrees(Moved(p, "map"))
      BY <1>1, <1>3, <2>1 DEF Agrees
    <2>4. QED
      BY <1>1, <1>3, <2>2, <2>3, GoStep, <1>2 DEF SyncWorkspace
  <1>4. CASE Exit(p)
    BY <1>1, <1>4, ExitStep, <1>2 DEF SyncWorkspace
  <1>5. QED
    BY <1>3, <1>4 DEF SyncWorkspace

-----------------------------------------------------------------------------
(* hermas_host_open, hermas_host_close, callers and apps *)

\* The image that is mapped is the one of the binding.
LEMMA MapImageKeeps == ASSUME IInv, NEW p \in Pid, MapImage(p) PROVE IInv'
  <1> USE DEF Place, Resolving, Known, Mapped, Locked, Writing, WithImage, Bound
  <1>1. /\ proc[p].at = "map" /\ proc[p].at \notin Locked
        /\ proc[p] \in Process /\ PlaceOK(proc[p]) /\ Agrees(proc[p])
    BY DEF IInv, MapImage, At
  <1>2. ASSUME NEW w \in {"state", "connect"}, image # Nothing,
               proc' = [proc EXCEPT ![p].held = image, ![p].at = w]
        PROVE  IInv'
    <2> DEFINE r == [proc[p] EXCEPT !.held = image, !.at = w]
    <2>1. image \in Image
      BY <1>2 DEF IInv, DiskTypeOK
    <2>2. proc' = [proc EXCEPT ![p] = r]
      BY <1>2 DEF IInv
    <2>3. r \in Process /\ r.bound = proc[p].bound /\ r.at = w /\ r.held = image
          /\ r.mode = proc[p].mode /\ r.binding = proc[p].binding
      BY <1>1, <2>1 DEF Process
    <2> HIDE DEF r
    <2>4. PlaceOK(r) /\ Agrees(r)
      BY <1>1, <2>1, <2>3 DEF PlaceOK, Agrees
    <2>5. QED
      BY <1>1, <2>2, <2>3, <2>4, BecomeStep, SameDisk DEF MapImage, disk
  <1>3. CASE Exit(p)
    BY <1>1, <1>3, ExitStep, SameDisk DEF MapImage, disk
  <1>4. QED
    BY <1>2, <1>3 DEF MapImage, Usable

\* A serving daemon that stops still holds what it holds.
LEMMA StopKeeps == ASSUME IInv, NEW p \in Pid, Stop(p) PROVE IInv'
  <1> USE DEF Place, Resolving, Known, Mapped, Locked, Writing, WithImage, Bound
  <1>1. /\ proc[p].at = "serve"
        /\ proc[p] \in Process /\ PlaceOK(proc[p]) /\ Agrees(proc[p])
    BY DEF IInv, Stop, At
  <1>2. CASE Go(p, "close")
    <2>1. /\ Moved(p, "close").at = "close"
          /\ Moved(p, "close").mode = proc[p].mode
          /\ Moved(p, "close").binding = proc[p].binding
          /\ Moved(p, "close").held = proc[p].held
          /\ Moved(p, "close").bound = proc[p].bound
      BY <1>1 DEF Moved, Process
    <2>2. PlaceOK(Moved(p, "close"))
      BY <1>1, <1>2, <2>1 DEF PlaceOK
    <2>3. Agrees(Moved(p, "close"))
      BY <1>1, <1>2, <2>1 DEF Agrees
    <2>4. QED
      BY <1>1, <1>2, <2>2, <2>3, GoStep, SameDisk DEF Stop, disk
  <1>3. QED
    BY <1>2 DEF Stop

\* Closing the stores leaves the lock of the journal to the end.
LEMMA CloseStateKeeps == ASSUME IInv, NEW p \in Pid, CloseState(p) PROVE IInv'
  <1> USE DEF Place, Resolving, Known, Mapped, Locked, Writing, WithImage, Bound
  <1>1. /\ proc[p].at = "close" /\ proc[p].bound = {}
        /\ proc[p] \in Process /\ PlaceOK(proc[p]) /\ Agrees(proc[p])
    BY DEF IInv, CloseState, At
  <1>2. CASE Go(p, "release")
    <2>1. /\ Moved(p, "release").at = "release"
          /\ Moved(p, "release").mode = proc[p].mode
          /\ Moved(p, "release").binding = proc[p].binding
          /\ Moved(p, "release").held = proc[p].held
          /\ Moved(p, "release").bound = proc[p].bound
      BY <1>1 DEF Moved, Process
    <2>2. PlaceOK(Moved(p, "release"))
      BY <1>1, <1>2, <2>1 DEF PlaceOK
    <2>3. Agrees(Moved(p, "release"))
      BY <1>1, <1>2, <2>1 DEF Agrees
    <2>4. QED
      BY <1>1, <1>2, <2>2, <2>3, GoStep, SameDisk DEF CloseState, disk
  <1>3. QED
    BY <1>2 DEF CloseState

\* Callers and apps own nothing of the workspace.
LEMMA ConnectKeeps == ASSUME IInv, NEW p \in Pid, Connect(p) PROVE IInv'
  <1> USE DEF Place, Resolving, Known, Mapped, Locked, Writing, WithImage, Bound
  <1>1. /\ proc[p].at = "connect" /\ proc[p].at \notin Locked
        /\ proc[p] \in Process /\ PlaceOK(proc[p]) /\ Agrees(proc[p])
    BY DEF IInv, Connect, At
  <1>2. CASE Go(p, "called")
    <2>1. /\ Moved(p, "called").at = "called"
          /\ Moved(p, "called").mode = proc[p].mode
          /\ Moved(p, "called").binding = proc[p].binding
          /\ Moved(p, "called").held = proc[p].held
          /\ Moved(p, "called").bound = proc[p].bound
      BY <1>1 DEF Moved, Process
    <2>2. PlaceOK(Moved(p, "called"))
      BY <1>1, <1>2, <2>1 DEF PlaceOK
    <2>3. Agrees(Moved(p, "called"))
      BY <1>1, <1>2, <2>1 DEF Agrees
    <2>4. QED
      BY <1>1, <1>2, <2>2, <2>3, GoStep, SameDisk DEF Connect, disk
  <1>3. CASE Exit(p)
    BY <1>1, <1>3, ExitStep, SameDisk DEF Connect, disk
  <1>4. QED
    BY <1>2, <1>3 DEF Connect

\* A call that was answered leaves nothing.
LEMMA AnsweredKeeps == ASSUME IInv, NEW p \in Pid, Answered(p) PROVE IInv'
  <1> USE DEF Place, Resolving, Known, Mapped, Locked, Writing, WithImage, Bound
  <1>1. /\ proc[p].at = "called" /\ proc[p].at \notin Locked
        /\ proc[p] \in Process /\ PlaceOK(proc[p]) /\ Agrees(proc[p])
    BY DEF IInv, Answered, At
  <1>2. QED
    BY <1>1, ExitStep, SameDisk DEF Answered, disk

-----------------------------------------------------------------------------
(* Steps that change what is shared *)

\* A name that appears was not there, so that nobody relied on another one.
LEMMA LinkImageKeeps ==
  ASSUME IInv, NEW p \in Pid, At(p, "link image"), image = Nothing, Go(p, "unlink image"),
         image' = proc[p].binding.image,
         UNCHANGED <<made, manifest, temp, durable, state, lock, sock, kills, losses>>
  PROVE  IInv'
  <1> USE DEF Place, Resolving, Known, Mapped, Locked, Writing, WithImage, Bound
  <1>1. /\ proc[p].at = "link image" /\ proc[p].mode = "bind" /\ proc[p].bound = {}
        /\ proc[p].binding \in Binding /\ proc[p].binding.image \in Supported
        /\ state = {} \/ manifest # Nothing
    BY DEF IInv, At, PlaceOK, Agrees
  <1>2. /\ proc' \in [Pid -> Process]
        /\ \A q \in Pid : q # p => proc'[q] = proc[q]
        /\ proc'[p].at = "unlink image" /\ proc'[p].mode = proc[p].mode
        /\ proc'[p].binding = proc[p].binding /\ proc'[p].held = proc[p].held
        /\ proc'[p].bound = proc[p].bound
    BY GoFields DEF IInv
  <1>3. image' \in Image /\ image' \in Supported
    BY <1>1, WorkspaceAssumption
  <1>4. DiskTypeOK'
    BY <1>3 DEF IInv, DiskTypeOK
  <1>5. \A q \in Pid : PlaceOK(proc[q])'
    <2>1. PlaceOK(proc[p])'
      BY <1>1, <1>2 DEF PlaceOK
    <2>2. QED
      BY <1>2, <2>1, OthersInPlace
  <1>6. \A q \in Pid : Agrees(proc[q])'
    <2>1. ASSUME NEW q \in Pid PROVE proc[q].at \notin WithImage \cup Bound
      <3>1. CASE proc[q].at \in WithImage
        <4>1. proc[q].binding.image \in Supported
          BY <3>1 DEF IInv, PlaceOK
        <4>2. QED
          BY <3>1, <4>1, WorkspaceAssumption DEF IInv, Agrees
      <3>2. CASE proc[q].at \in Bound
        <4>1. proc[q].binding \in Binding
          BY <3>2 DEF IInv, PlaceOK
        <4>2. proc[q].binding.image \in Image
          BY <4>1 DEF Binding
        <4>3. image = proc[q].binding.image
          BY <3>2 DEF IInv, Agrees
        <4>4. QED
          BY <4>2, <4>3, WorkspaceAssumption
      <3>3. QED
        BY <3>1, <3>2
    <2>2. ASSUME NEW q \in Pid, q # p PROVE Agrees(proc[q])'
      <3>1. Agrees(proc[q]) /\ proc'[q] = proc[q]
        BY <1>2, <2>2 DEF IInv
      <3>2. QED
        BY <2>1, <2>2, <3>1 DEF Agrees
    <2>3. Agrees(proc[p])'
      BY <1>1, <1>2 DEF Agrees
    <2>4. QED
      BY <2>2, <2>3
  <1>7. StateOK'
    BY DEF IInv, StateOK
  <1>8. OwnersOK'
    BY <1>1, <1>2 DEF IInv, OwnersOK
  <1>9. FilesOK'
    <2>1. ASSUME losses = 0, manifest # Nothing PROVE FALSE
      <3>1. image = manifest.image /\ manifest \in Binding
        BY <2>1 DEF IInv, FilesOK, DiskTypeOK
      <3>2. image \in Image
        BY <3>1 DEF Binding
      <3>3. QED
        BY <3>2, WorkspaceAssumption
    <2>2. QED
      BY <1>3, <2>1 DEF IInv, FilesOK
  <1>10. QED
    BY <1>2, <1>4, <1>5, <1>6, <1>7, <1>8, <1>9 DEF IInv

\* A manifest that appears is that of the image that is there, and no state was
\* opened before.
LEMMA LinkManifestKeeps ==
  ASSUME IInv, NEW p \in Pid, At(p, "link manifest"), manifest = Nothing,
         Go(p, "unlink manifest"), manifest' = proc[p].binding,
         UNCHANGED <<made, image, temp, durable, state, lock, sock, kills, losses>>
  PROVE  IInv'
  <1> USE DEF Place, Resolving, Known, Mapped, Locked, Writing, WithImage, Bound
  <1>1. /\ proc[p].at = "link manifest" /\ proc[p].mode = "bind" /\ proc[p].bound = {}
        /\ proc[p].binding \in Binding /\ proc[p].binding.image \in Supported
        /\ state = {} /\ image = proc[p].binding.image
    BY DEF IInv, At, PlaceOK, Agrees
  <1>2. /\ proc' \in [Pid -> Process]
        /\ \A q \in Pid : q # p => proc'[q] = proc[q]
        /\ proc'[p].at = "unlink manifest" /\ proc'[p].mode = proc[p].mode
        /\ proc'[p].binding = proc[p].binding /\ proc'[p].held = proc[p].held
        /\ proc'[p].bound = proc[p].bound
    BY GoFields DEF IInv
  <1>3. manifest' \in Binding /\ manifest' # Nothing
    BY <1>1, WorkspaceAssumption DEF Binding
  <1>4. DiskTypeOK'
    BY <1>3 DEF IInv, DiskTypeOK
  <1>5. \A q \in Pid : PlaceOK(proc[q])'
    <2>1. PlaceOK(proc[p])'
      BY <1>1, <1>2 DEF PlaceOK
    <2>2. QED
      BY <1>2, <2>1, OthersInPlace
  <1>6. \A q \in Pid : Agrees(proc[q])'
    <2>1. ASSUME NEW q \in Pid PROVE proc[q].at # "managed" /\ proc[q].at \notin Bound
      <3>1. CASE proc[q].at = "managed"
        BY <3>1, WorkspaceAssumption DEF IInv, PlaceOK, Agrees, Binding
      <3>2. CASE proc[q].at \in Bound
        <4>1. proc[q].binding \in Binding
          BY <3>2 DEF IInv, PlaceOK
        <4>2. proc[q].binding = manifest
          BY <3>2 DEF IInv, Agrees
        <4>3. QED
          BY <4>1, <4>2, WorkspaceAssumption DEF Binding
      <3>3. QED
        BY <3>1, <3>2
    <2>2. ASSUME NEW q \in Pid, q # p PROVE Agrees(proc[q])'
      <3>1. Agrees(proc[q]) /\ proc'[q] = proc[q]
        BY <1>2, <2>2 DEF IInv
      <3>2. QED
        BY <1>3, <2>1, <2>2, <3>1 DEF Agrees
    <2>3. Agrees(proc[p])'
      BY <1>1, <1>2, <1>3 DEF Agrees
    <2>4. QED
      BY <2>2, <2>3
  <1>7. StateOK'
    BY <1>1 DEF IInv, StateOK
  <1>8. OwnersOK'
    BY <1>1, <1>2 DEF IInv, OwnersOK
  <1>9. FilesOK'
    BY <1>1, <1>3 DEF IInv, FilesOK
  <1>10. QED
    BY <1>2, <1>4, <1>5, <1>6, <1>7, <1>8, <1>9 DEF IInv

\* link(2): one of two launches gets the name, the other one gives up.
LEMMA LinkTempKeeps == ASSUME IInv, NEW p \in Pid, NEW f \in File, LinkTemp(p, f) PROVE IInv'
  <1> USE DEF Place, Resolving, Known, Mapped, Locked, Writing, WithImage, Bound
  <1>1. CASE Exit(p) /\ temp' = temp \ {<<f, p>>} /\ UNCHANGED <<image, manifest>>
    <2>1. proc[p].at \notin Locked
      BY DEF LinkTemp, At, File
    <2>2. made' \in BOOLEAN /\ temp' \subseteq File \X Pid /\ durable' \subseteq File
      BY <1>1 DEF IInv, DiskTypeOK, LinkTemp
    <2>3. QED
      BY <1>1, <2>1, <2>2, ExitStep DEF LinkTemp
  <1>2. CASE f = "image" /\ ~Exists(f) /\ Go(p, "unlink image") /\ UNCHANGED temp
             /\ image' = proc[p].binding.image /\ manifest' = manifest
    BY <1>2, LinkImageKeeps DEF LinkTemp, Exists
  <1>3. CASE f = "manifest" /\ ~Exists(f) /\ Go(p, "unlink manifest") /\ UNCHANGED temp
             /\ image' = image /\ manifest' = proc[p].binding
    BY <1>3, LinkManifestKeeps DEF LinkTemp, Exists
  <1>4. QED
    BY <1>1, <1>2, <1>3 DEF LinkTemp, File

\* A daemon opens the state under the binding on the disk, whatever it was told.
LEMMA OpenStateKeeps == ASSUME IInv, NEW p \in Pid, OpenState(p) PROVE IInv'
  <1> USE DEF Place, Resolving, Known, Mapped, Locked, Writing, WithImage, Bound
  <1>1. /\ proc[p].at = "state" /\ proc[p].at \notin Locked /\ proc[p].bound = {}
        /\ proc[p] \in Process /\ PlaceOK(proc[p]) /\ Agrees(proc[p])
    BY DEF IInv, OpenState, At, PlaceOK
  <1>2. CASE Exit(p) /\ UNCHANGED <<state, lock>>
    BY <1>1, <1>2, ExitStep, SameDisk DEF OpenState, disk
  <1>3. CASE /\ lock = Nothing /\ lock' = p
             /\ state' = state \cup {[workflow |-> proc[p].binding.workflow,
                                      image    |-> proc[p].held]}
             /\ Go(p, "bind apps") \/ Go(p, "release")
    <2>1. PICK w \in {"bind apps", "release"} : Go(p, w)
      BY <1>3
    <2>2. /\ proc' \in [Pid -> Process]
          /\ \A q \in Pid : q # p => proc'[q] = proc[q]
          /\ proc'[p].at = w /\ proc'[p].mode = proc[p].mode
          /\ proc'[p].binding = proc[p].binding /\ proc'[p].held = proc[p].held
          /\ proc'[p].bound = proc[p].bound
      BY <2>1, GoFields DEF IInv
    <2>3. UNCHANGED <<made, image, manifest, temp, durable, sock, kills, losses>>
      BY DEF OpenState, disk
    <2>4. /\ proc[p].binding = manifest /\ manifest \in Binding /\ manifest # Nothing
          /\ proc[p].held = manifest.image
      BY <1>1, WorkspaceAssumption DEF PlaceOK, Agrees, Binding
    <2>5. state' = {manifest}
      <3>1. [workflow |-> proc[p].binding.workflow, image |-> proc[p].held] = manifest
        BY <2>4 DEF Binding
      <3>2. state \subseteq {manifest}
        BY <2>4 DEF IInv, StateOK
      <3>3. QED
        BY <1>3, <3>1, <3>2
    <2>6. DiskTypeOK'
      BY <1>3, <2>3, <2>4, <2>5 DEF IInv, DiskTypeOK
    <2>7. \A q \in Pid : PlaceOK(proc[q])'
      <3>1. PlaceOK(proc[p])'
        BY <1>1, <2>2 DEF PlaceOK
      <3>2. QED
        BY <2>2, <3>1, OthersInPlace
    <2>8. \A q \in Pid : Agrees(proc[q])'
      <3>1. ASSUME NEW q \in Pid, q # p PROVE Agrees(proc[q])'
        <4>1. Agrees(proc[q]) /\ proc'[q] = proc[q]
          BY <2>2, <3>1 DEF IInv
        <4>2. QED
          BY <2>3, <2>4, <4>1 DEF Agrees
      <3>2. Agrees(proc[p])'
        BY <1>1, <2>2, <2>3, <2>4 DEF Agrees
      <3>3. QED
        BY <3>1, <3>2
    <2>9. StateOK'
      BY <2>3, <2>5 DEF StateOK
    <2>10. OwnersOK'
      <3>1. OwnersOK /\ Nothing \notin Pid
        BY WorkspaceAssumption DEF IInv
      <3>2. ASSUME NEW q \in Pid PROVE proc'[q].at \in Locked <=> lock' = q
        <4>1. CASE q = p
          BY <1>3, <2>1, <2>2, <4>1
        <4>2. CASE q # p
          <5>1. proc[q].at \notin Locked
            BY <1>3, <3>1 DEF OwnersOK
          <5>2. QED
            BY <1>3, <2>2, <4>2, <5>1
        <4>3. QED
          BY <4>1, <4>2
      <3>3. ASSUME NEW q \in Pid PROVE \A t \in Socket : t \in proc'[q].bound <=> sock'[t] = q
        <4>1. proc'[q].bound = proc[q].bound
          BY <2>2
        <4>2. QED
          BY <2>3, <3>1, <4>1 DEF OwnersOK
      <3>4. QED
        BY <3>2, <3>3 DEF OwnersOK
    <2>11. FilesOK'
      BY <2>3, <2>4 DEF IInv, FilesOK
    <2>12. QED
      BY <2>2, <2>6, <2>7, <2>8, <2>9, <2>10, <2>11 DEF IInv
  <1>4. QED
    BY <1>2, <1>3 DEF OpenState

\* Steps about locks and sockets leave what is agreed about the disk.
LEMMA SameBinding ==
  ASSUME IInv, UNCHANGED <<image, manifest, state, losses>>
  PROVE  /\ StateOK' /\ FilesOK'
         /\ \A q \in Pid : proc'[q] = proc[q] => Agrees(proc[q])'
  <1>1. StateOK' /\ FilesOK'
    BY DEF IInv, StateOK, FilesOK
  <1>2. ASSUME NEW q \in Pid, proc'[q] = proc[q] PROVE Agrees(proc[q])'
    <2>1. Agrees(proc[q])
      BY DEF IInv
    <2>2. QED
      BY <1>2, <2>1 DEF Agrees
  <1>3. QED
    BY <1>1, <1>2

\* A name is taken only where it is free.
LEMMA CreateListenerKeeps ==
  ASSUME IInv, NEW p \in Pid, NEW s \in Socket, CreateListener(p, s) PROVE IInv'
  <1> USE DEF Place, Resolving, Known, Mapped, Locked, Writing, WithImage, Bound
  <1>1. /\ \/ s = "apps" /\ proc[p].at = "bind apps" /\ proc[p].bound = {}
           \/ s = "control" /\ proc[p].at = "bind control" /\ proc[p].bound = {"apps"}
        /\ proc[p] \in Process /\ PlaceOK(proc[p]) /\ Agrees(proc[p])
    <2>1. \/ s = "apps" /\ proc[p].at = "bind apps"
          \/ s = "control" /\ proc[p].at = "bind control"
      BY DEF CreateListener, At, Socket
    <2>2. proc[p] \in Process /\ PlaceOK(proc[p]) /\ Agrees(proc[p])
      BY DEF IInv
    <2>3. QED
      BY <2>1, <2>2 DEF PlaceOK
  <1>2. CASE Go(p, "close") /\ UNCHANGED sock
    <2>1. /\ Moved(p, "close").at = "close"
          /\ Moved(p, "close").mode = proc[p].mode
          /\ Moved(p, "close").binding = proc[p].binding
          /\ Moved(p, "close").held = proc[p].held
          /\ Moved(p, "close").bound = proc[p].bound
      BY <1>1 DEF Moved, Process
    <2>2. PlaceOK(Moved(p, "close"))
      BY <1>1, <2>1 DEF PlaceOK
    <2>3. Agrees(Moved(p, "close"))
      BY <1>1, <2>1 DEF Agrees
    <2>4. QED
      BY <1>1, <1>2, <2>2, <2>3, GoStep, SameDisk DEF CreateListener, disk
  <1>3. CASE /\ sock[s] = Nothing
             /\ sock' = [sock EXCEPT ![s] = p]
             /\ proc' = [proc EXCEPT ![p].bound = @ \cup {s},
                          ![p].at = IF s = "apps" THEN "bind control" ELSE "serve"]
    <2>1. PICK w \in {"bind control", "serve"} :
            /\ w = IF s = "apps" THEN "bind control" ELSE "serve"
            /\ proc' = [proc EXCEPT ![p].bound = @ \cup {s}, ![p].at = w]
      BY <1>3
    <2>2. /\ proc' \in [Pid -> Process]
          /\ \A q \in Pid : q # p => proc'[q] = proc[q]
          /\ proc'[p].at = w /\ proc'[p].mode = proc[p].mode
          /\ proc'[p].binding = proc[p].binding /\ proc'[p].held = proc[p].held
          /\ proc'[p].bound = proc[p].bound \cup {s}
      <3> DEFINE r == [proc[p] EXCEPT !.bound = @ \cup {s}, !.at = w]
      <3>1. proc' = [proc EXCEPT ![p] = r] /\ proc \in [Pid -> Process]
        BY <2>1 DEF IInv
      <3>2. /\ r \in Process /\ r.at = w /\ r.mode = proc[p].mode
            /\ r.binding = proc[p].binding /\ r.held = proc[p].held
            /\ r.bound = proc[p].bound \cup {s}
        BY <1>1 DEF Process
      <3> HIDE DEF r
      <3>3. proc' \in [Pid -> Process] /\ proc'[p] = r /\ \A q \in Pid : q # p => proc'[q] = proc[q]
        BY <3>1, <3>2
      <3>4. QED
        BY <3>2, <3>3
    <2>3. UNCHANGED <<made, image, manifest, temp, durable, state, lock, kills, losses>>
      BY DEF CreateListener, disk
    <2>4. DiskTypeOK'
      BY <1>3, <2>3 DEF IInv, DiskTypeOK
    <2>5. \A q \in Pid : PlaceOK(proc[q])'
      <3>1. PlaceOK(proc[p])'
        BY <1>1, <2>1, <2>2 DEF PlaceOK, Socket
      <3>2. QED
        BY <2>2, <3>1, OthersInPlace
    <2>6. \A q \in Pid : Agrees(proc[q])'
      <3>1. Agrees(proc[p])'
        BY <1>1, <2>2, <2>3 DEF Agrees
      <3>2. QED
        BY <2>2, <2>3, <3>1, SameBinding
    <2>7. OwnersOK'
      <3>1. \A q \in Pid : proc'[q].at \in Locked <=> lock' = q
        BY <1>1, <2>2, <2>3 DEF IInv, OwnersOK
      <3>2. ASSUME NEW q \in Pid, NEW t \in Socket PROVE t \in proc'[q].bound <=> sock'[t] = q
        <4>1. /\ t \in proc[q].bound <=> sock[t] = q
              /\ sock'[t] = IF t = s THEN p ELSE sock[t]
          BY <1>3 DEF IInv, OwnersOK, DiskTypeOK
        <4>2. proc'[q].bound = IF q = p THEN proc[q].bound \cup {s} ELSE proc[q].bound
          BY <2>2
        <4>3. sock[s] # q
          BY <1>3, WorkspaceAssumption
        <4>4. QED
          BY <4>1, <4>2, <4>3
      <3>3. QED
        BY <3>1, <3>2 DEF OwnersOK
    <2>8. QED
      BY <2>2, <2>3, <2>4, <2>5, <2>6, <2>7, SameBinding DEF IInv
  <1>4. QED
    BY <1>2, <1>3 DEF CreateListener

\* A daemon removes its own names only.
LEMMA UnlinkSocketKeeps ==
  ASSUME IInv, NEW p \in Pid, NEW s \in Socket, UnlinkSocket(p, s) PROVE IInv'
  <1> USE DEF Place, Resolving, Known, Mapped, Locked, Writing, WithImage, Bound
  <1>1. /\ proc[p].at = "close" /\ s \in proc[p].bound
        /\ proc[p] \in Process /\ PlaceOK(proc[p]) /\ Agrees(proc[p])
    BY DEF UnlinkSocket, At, IInv
  <1>2. /\ proc' \in [Pid -> Process]
        /\ \A q \in Pid : q # p => proc'[q] = proc[q]
        /\ proc'[p].at = proc[p].at /\ proc'[p].mode = proc[p].mode
        /\ proc'[p].binding = proc[p].binding /\ proc'[p].held = proc[p].held
        /\ proc'[p].bound = proc[p].bound \ {s}
    BY DEF IInv, UnlinkSocket, Process
  <1>3. /\ UNCHANGED <<made, image, manifest, temp, durable, state, lock, kills, losses>>
        /\ sock' = [sock EXCEPT ![s] = Nothing]
    BY DEF UnlinkSocket, disk
  <1>4. DiskTypeOK'
    BY <1>3 DEF IInv, DiskTypeOK
  <1>5. \A q \in Pid : PlaceOK(proc[q])'
    <2>1. PlaceOK(proc[p])'
      BY <1>1, <1>2 DEF PlaceOK
    <2>2. QED
      BY <1>2, <2>1, OthersInPlace
  <1>6. \A q \in Pid : Agrees(proc[q])'
    <2>1. Agrees(proc[p])'
      BY <1>1, <1>2, <1>3 DEF Agrees
    <2>2. QED
      BY <1>2, <1>3, <2>1, SameBinding
  <1>7. OwnersOK'
    <2>1. \A q \in Pid : proc'[q].at \in Locked <=> lock' = q
      BY <1>1, <1>2, <1>3 DEF IInv, OwnersOK
    <2>2. ASSUME NEW q \in Pid, NEW t \in Socket PROVE t \in proc'[q].bound <=> sock'[t] = q
      <3>1. /\ t \in proc[q].bound <=> sock[t] = q
            /\ sock'[t] = IF t = s THEN Nothing ELSE sock[t]
            /\ sock[s] = p /\ Nothing # q
        <4>1. OwnersOK /\ sock \in [Socket -> Pid \cup {Nothing, "stale"}]
          BY DEF IInv, DiskTypeOK
        <4>2. (t \in proc[q].bound <=> sock[t] = q) /\ sock[s] = p
          BY <1>1, <4>1 DEF OwnersOK
        <4>3. sock'[t] = IF t = s THEN Nothing ELSE sock[t]
          BY <1>3, <4>1
        <4>4. QED
          BY <4>2, <4>3, WorkspaceAssumption
      <3>2. proc'[q].bound = IF q = p THEN proc[q].bound \ {s} ELSE proc[q].bound
        BY <1>2
      <3>3. QED
        BY <3>1, <3>2
    <2>3. QED
      BY <2>1, <2>2 DEF OwnersOK
  <1>8. QED
    BY <1>2, <1>3, <1>4, <1>5, <1>6, <1>7, SameBinding DEF IInv

\* The lock is given back by its holder, after the names.
LEMMA ReleaseLockKeeps == ASSUME IInv, NEW p \in Pid, ReleaseLock(p) PROVE IInv'
  <1> USE DEF Place, Resolving, Known, Mapped, Locked, Writing, WithImage, Bound
  <1>1. proc[p].at = "release" /\ proc[p].bound = {} /\ lock = p
    BY DEF ReleaseLock, At, IInv, PlaceOK, OwnersOK
  <1>2. /\ proc' \in [Pid -> Process]
        /\ \A q \in Pid : q # p => proc'[q] = proc[q]
        /\ proc'[p].at = "off" /\ proc'[p].bound = {}
        /\ PlaceOK(proc'[p]) /\ Agrees(proc[p])'
    BY ExitFields DEF IInv, ReleaseLock
  <1>3. UNCHANGED <<made, image, manifest, temp, durable, state, sock, kills, losses>>
        /\ lock' = Nothing
    BY DEF ReleaseLock, disk
  <1>4. DiskTypeOK'
    BY <1>3 DEF IInv, DiskTypeOK
  <1>5. \A q \in Pid : PlaceOK(proc[q])'
    BY <1>2, OthersInPlace
  <1>6. \A q \in Pid : Agrees(proc[q])'
    BY <1>2, <1>3, SameBinding
  <1>7. OwnersOK'
    <2>1. OwnersOK /\ Nothing \notin Pid
      BY WorkspaceAssumption DEF IInv
    <2>2. ASSUME NEW q \in Pid PROVE ~(proc'[q].at \in Locked) /\ lock' # q
      <3>1. q # p => proc[q].at \notin Locked
        BY <1>1, <2>1 DEF OwnersOK
      <3>2. QED
        BY <1>2, <1>3, <2>1, <3>1
    <2>3. ASSUME NEW q \in Pid PROVE \A t \in Socket : t \in proc'[q].bound <=> sock'[t] = q
      <3>1. proc'[q].bound = proc[q].bound
        BY <1>1, <1>2
      <3>2. QED
        BY <1>3, <2>1, <3>1 DEF OwnersOK
    <2>4. QED
      BY <2>2, <2>3 DEF OwnersOK
  <1>8. QED
    BY <1>2, <1>3, <1>4, <1>5, <1>6, <1>7, SameBinding DEF IInv

-----------------------------------------------------------------------------
(* Kills and losses of power *)

\* The dead know nothing and hold nothing.
LEMMA DeadFields ==
  ASSUME proc \in [Pid -> Process], NEW ps, Dead(ps)
  PROVE  /\ proc' \in [Pid -> Process]
         /\ \A q \in Pid : q \notin ps => proc'[q] = proc[q]
         /\ \A q \in Pid \cap ps : /\ proc'[q].at = "off" /\ proc'[q].bound = {}
                                   /\ PlaceOK(proc[q])' /\ Agrees(proc[q])'
  <1>1. Idle \in Process
    BY DEF Idle, Process, Place
  <1>2. proc' \in [Pid -> Process] /\ \A q \in Pid : q \notin ps => proc'[q] = proc[q]
    BY <1>1 DEF Dead
  <1>3. ASSUME NEW q \in Pid \cap ps
        PROVE  /\ proc'[q].at = "off" /\ proc'[q].bound = {}
               /\ PlaceOK(proc[q])' /\ Agrees(proc[q])'
    <2>1. proc'[q] = Idle
      BY DEF Dead
    <2>2. proc'[q].at = "off" /\ proc'[q].bound = {} /\ proc'[q].mode = Nothing
      BY <2>1 DEF Idle
    <2>3. PlaceOK(proc[q])'
      BY <2>2 DEF PlaceOK, Writing, Known, Mapped, Place, Resolving
    <2>4. Agrees(proc[q])'
      BY <2>2 DEF Agrees, Writing, WithImage, Bound, Known, Mapped, Place, Resolving
    <2>5. QED
      BY <2>2, <2>3, <2>4
  <1>4. QED
    BY <1>2, <1>3

\* The kernel gives back the lock of a killed process and leaves the names of its
\* sockets, which belong to nobody from then on.
LEMMA KillKeeps == ASSUME IInv, NEW p \in Pid, Kill(p) PROVE IInv'
  <1>1. /\ proc' \in [Pid -> Process]
        /\ \A q \in Pid : q # p => proc'[q] = proc[q]
        /\ proc'[p].at = "off" /\ proc'[p].bound = {}
        /\ PlaceOK(proc[p])' /\ Agrees(proc[p])'
    BY DeadFields DEF IInv, Kill
  <1>2. /\ UNCHANGED <<made, image, manifest, temp, durable, state, losses>>
        /\ lock' = IF lock = p THEN Nothing ELSE lock
        /\ sock' = [s \in Socket |-> IF sock[s] = p THEN "stale" ELSE sock[s]]
        /\ kills < MaxKills /\ kills' = kills + 1
    BY DEF Kill, Dead, disk
  <1>3. DiskTypeOK'
    <2>1. sock' \in [Socket -> Pid \cup {Nothing, "stale"}]
      BY <1>2 DEF IInv, DiskTypeOK
    <2>2. kills' \in 0 .. MaxKills
      BY <1>2, WorkspaceAssumption DEF IInv, DiskTypeOK
    <2>3. QED
      BY <1>2, <2>1, <2>2 DEF IInv, DiskTypeOK
  <1>4. \A q \in Pid : PlaceOK(proc[q])'
    BY <1>1, OthersInPlace
  <1>5. \A q \in Pid : Agrees(proc[q])'
    BY <1>1, <1>2, SameBinding
  <1>6. OwnersOK'
    <2>1. OwnersOK /\ Nothing \notin Pid /\ "stale" \notin Pid
      BY WorkspaceAssumption DEF IInv
    <2>2. ASSUME NEW q \in Pid PROVE proc'[q].at \in Locked <=> lock' = q
      <3>1. CASE q = p
        BY <1>1, <1>2, <2>1, <3>1 DEF Locked
      <3>2. CASE q # p
        BY <1>1, <1>2, <2>1, <3>2 DEF OwnersOK
      <3>3. QED
        BY <3>1, <3>2
    <2>3. ASSUME NEW q \in Pid, NEW t \in Socket PROVE t \in proc'[q].bound <=> sock'[t] = q
      <3>1. sock'[t] = IF sock[t] = p THEN "stale" ELSE sock[t]
        BY <1>2
      <3>2. CASE q = p
        BY <1>1, <2>1, <3>1, <3>2
      <3>3. CASE q # p
        BY <1>1, <2>1, <3>1, <3>3 DEF OwnersOK
      <3>4. QED
        BY <3>2, <3>3
    <2>4. QED
      BY <2>2, <2>3 DEF OwnersOK
  <1>7. QED
    BY <1>1, <1>2, <1>3, <1>4, <1>5, <1>6, SameBinding DEF IInv

\* A loss of power ends everybody, and takes names and perhaps the state; it
\* never changes what remains.
LEMMA PowerLossKeeps == ASSUME IInv, PowerLoss PROVE IInv'
  <1>1. /\ proc' \in [Pid -> Process]
        /\ \A q \in Pid : /\ proc'[q].at = "off" /\ proc'[q].bound = {}
                          /\ PlaceOK(proc[q])' /\ Agrees(proc[q])'
    BY DeadFields DEF IInv, PowerLoss
  <1>2. /\ UNCHANGED <<made, temp, durable, kills>>
        /\ lock' = IF lock \in Pid THEN Nothing ELSE lock
        /\ sock' = [s \in Socket |-> IF sock[s] = Nothing THEN Nothing ELSE "stale"]
        /\ losses < MaxLosses /\ losses' = losses + 1
        /\ image' \in {image, Nothing} /\ manifest' \in {manifest, Nothing}
        /\ state' \in {state, {}}
    BY DEF PowerLoss, Dead
  <1>3. DiskTypeOK'
    <2>1. sock' \in [Socket -> Pid \cup {Nothing, "stale"}]
      BY <1>2
    <2>2. losses' \in 0 .. MaxLosses
      BY <1>2, WorkspaceAssumption DEF IInv, DiskTypeOK
    <2>3. lock' = Nothing
      BY <1>2 DEF IInv, DiskTypeOK
    <2>4. QED
      BY <1>2, <2>1, <2>2, <2>3 DEF IInv, DiskTypeOK
  <1>4. StateOK'
    BY <1>2 DEF IInv, StateOK
  <1>5. OwnersOK'
    <2>1. \A q \in Pid : proc'[q].at \notin Locked /\ lock' # q
      BY <1>1, <1>2, WorkspaceAssumption DEF Locked, IInv, DiskTypeOK
    <2>2. \A q \in Pid : \A t \in Socket : t \notin proc'[q].bound /\ sock'[t] # q
      BY <1>1, <1>2, WorkspaceAssumption
    <2>3. QED
      BY <2>1, <2>2 DEF OwnersOK
  <1>6. FilesOK'
    <2>1. losses' # 0
      BY <1>2 DEF IInv, DiskTypeOK
    <2>2. QED
      BY <2>1 DEF FilesOK
  <1>7. QED
    BY <1>1, <1>3, <1>4, <1>5, <1>6 DEF IInv

\* The operator frees a name that belongs to nobody.
LEMMA RemoveStaleKeeps == ASSUME IInv, NEW s \in Socket, RemoveStale(s) PROVE IInv'
  <1>1. /\ UNCHANGED <<made, image, manifest, temp, durable, state, lock, proc, kills, losses>>
        /\ sock[s] = "stale" /\ sock' = [sock EXCEPT ![s] = Nothing]
    BY DEF RemoveStale, disk
  <1>2. DiskTypeOK'
    BY <1>1 DEF IInv, DiskTypeOK
  <1>3. \A q \in Pid : PlaceOK(proc[q])'
    BY <1>1 DEF IInv, PlaceOK
  <1>4. \A q \in Pid : Agrees(proc[q])'
    BY <1>1, SameBinding
  <1>5. OwnersOK'
    <2>1. OwnersOK /\ sock \in [Socket -> Pid \cup {Nothing, "stale"}]
      BY DEF IInv, DiskTypeOK
    <2>2. ASSUME NEW q \in Pid, NEW t \in Socket PROVE t \in proc'[q].bound <=> sock'[t] = q
      <3>1. sock'[t] = IF t = s THEN Nothing ELSE sock[t]
        BY <1>1, <2>1
      <3>2. QED
        BY <1>1, <2>1, <3>1, WorkspaceAssumption DEF OwnersOK
    <2>3. QED
      BY <1>1, <2>1, <2>2 DEF OwnersOK
  <1>6. QED
    BY <1>1, <1>2, <1>3, <1>4, <1>5, SameBinding DEF IInv

-----------------------------------------------------------------------------
(* Theorems *)

\* Nothing is there before the first launch.
LEMMA InitKeeps == Init => IInv
  <1> SUFFICES ASSUME Init PROVE IInv
    OBVIOUS
  <1>1. Idle \in Process /\ Idle.at = "off" /\ Idle.bound = {} /\ Idle.mode = Nothing
    BY DEF Idle, Process, Place
  <1>2. proc \in [Pid -> Process] /\ \A p \in Pid : proc[p] = Idle
    BY <1>1 DEF Init
  <1>3. DiskTypeOK
    <2>1. 0 \in 0 .. MaxKills /\ 0 \in 0 .. MaxLosses
      BY WorkspaceAssumption
    <2>2. sock \in [Socket -> Pid \cup {Nothing, "stale"}]
      BY DEF Init
    <2>3. QED
      BY <2>1, <2>2 DEF Init, DiskTypeOK
  <1>4. PlaceOK(Idle)
    BY <1>1 DEF PlaceOK, Writing, Known, Mapped, Place, Resolving
  <1>5. Agrees(Idle)
    BY <1>1 DEF Agrees, Writing, WithImage, Bound, Known, Mapped, Place, Resolving
  <1>6. StateOK /\ FilesOK
    BY DEF Init, StateOK, FilesOK
  <1>7. OwnersOK
    BY <1>1, <1>2, WorkspaceAssumption DEF Init, OwnersOK, Locked
  <1>8. QED
    BY <1>2, <1>3, <1>4, <1>5, <1>6, <1>7 DEF IInv

\* A stuttering step changes nothing.
LEMMA StutterKeeps == ASSUME IInv, UNCHANGED vars PROVE IInv'
  BY DEF IInv, vars, DiskTypeOK, PlaceOK, Agrees, StateOK, OwnersOK, FilesOK

\* Every step of every process, kill and loss of power keeps the invariant.
LEMMA NextKeeps == ASSUME IInv, [Next]_vars PROVE IInv'
  <1>1. ASSUME NEW p \in Pid, Step(p) PROVE IInv'
    BY <1>1, LaunchKeeps, CheckImageKeeps, OpenWorkspaceKeeps, ReadSourceKeeps,
       LoadManifestKeeps, LoadImageKeeps, RequireNoManifestKeeps, RequireEmptyStateKeeps,
       ReuseOrphanKeeps, WriteTempKeeps, LinkTempKeeps, UnlinkTempKeeps, SyncWorkspaceKeeps,
       MapImageKeeps, OpenStateKeeps, CreateListenerKeeps, UnlinkSocketKeeps, StopKeeps,
       CloseStateKeeps, ReleaseLockKeeps, ConnectKeeps, AnsweredKeeps DEF Step
  <1>2. QED
    BY <1>1, KillKeeps, PowerLossKeeps, RemoveStaleKeeps, StutterKeeps DEF Next

\* The invariant holds in every state that launches, callers, apps, kills and
\* losses of power can reach.
THEOREM Invariance == Spec => []IInv
  <1>1. Init => IInv
    BY InitKeeps
  <1>2. IInv /\ [Next]_vars => IInv'
    BY NextKeeps
  <1>3. QED
    BY <1>1, <1>2, PTL DEF Spec

\* A name that no process answers for was left by a kill or by a loss of power.
LEMMA NamesHaveCauses == Spec => []StaleOK
  <1>1. Init => StaleOK
    BY WorkspaceAssumption DEF Init, StaleOK
  <1>2. IInv /\ StaleOK /\ [Next]_vars => StaleOK'
    <2> SUFFICES ASSUME IInv, StaleOK, [Next]_vars PROVE StaleOK'
      OBVIOUS
    <2>1. /\ sock \in [Socket -> Pid \cup {Nothing, "stale"}]
          /\ kills \in Nat /\ losses \in Nat
      BY WorkspaceAssumption DEF IInv, DiskTypeOK
    <2>2. CASE UNCHANGED <<sock, kills, losses>>
      BY <2>2 DEF StaleOK
    <2>3. ASSUME NEW p \in Pid, NEW s \in Socket, CreateListener(p, s) \/ UnlinkSocket(p, s)
          PROVE  StaleOK'
      <3>1. UNCHANGED <<kills, losses>> /\ sock' \in {sock, [sock EXCEPT ![s] = p],
                                                      [sock EXCEPT ![s] = Nothing]}
        BY <2>3 DEF CreateListener, UnlinkSocket
      <3>2. \A t \in Socket : sock'[t] = "stale" => sock[t] = "stale"
        BY <2>1, <3>1, WorkspaceAssumption
      <3>3. QED
        BY <3>1, <3>2 DEF StaleOK
    <2>4. ASSUME NEW s \in Socket, RemoveStale(s) PROVE StaleOK'
      <3>1. \A t \in Socket : sock'[t] = "stale" => sock[t] = "stale"
        BY <2>1, <2>4, WorkspaceAssumption DEF RemoveStale
      <3>2. QED
        BY <2>4, <3>1 DEF RemoveStale, StaleOK
    <2>5. ASSUME NEW p \in Pid, Kill(p) PROVE StaleOK'
      BY <2>1, <2>5 DEF Kill, StaleOK
    <2>6. CASE PowerLoss
      BY <2>1, <2>6 DEF PowerLoss, StaleOK
    <2>7. ASSUME NEW p \in Pid, Step(p)
          PROVE  \/ UNCHANGED <<sock, kills, losses>>
                 \/ \E s \in Socket : CreateListener(p, s) \/ UnlinkSocket(p, s)
      <3>1. CASE Launch(p) \/ CheckImage(p) \/ OpenWorkspace(p) \/ ReadSource(p)
                 \/ LoadManifest(p) \/ LoadImage(p) \/ RequireNoManifest(p)
                 \/ RequireEmptyState(p) \/ ReuseOrphan(p)
        BY <3>1 DEF Launch, CheckImage, OpenWorkspace, ReadSource, LoadManifest, LoadImage,
                    RequireNoManifest, RequireEmptyState, ReuseOrphan
      <3>2. CASE \E f \in File : WriteTemp(p, f) \/ LinkTemp(p, f) \/ UnlinkTemp(p, f)
        BY <3>2 DEF WriteTemp, LinkTemp, UnlinkTemp
      <3>3. CASE SyncWorkspace(p) \/ MapImage(p) \/ OpenState(p) \/ Stop(p) \/ CloseState(p)
                 \/ ReleaseLock(p) \/ Connect(p) \/ Answered(p)
        BY <3>3 DEF SyncWorkspace, MapImage, OpenState, Stop, CloseState, ReleaseLock, Connect,
                    Answered
      <3>4. QED
        BY <2>7, <3>1, <3>2, <3>3 DEF Step
    <2>8. QED
      BY <2>2, <2>3, <2>4, <2>5, <2>6, <2>7 DEF Next, vars
  <1>3. QED
    BY <1>1, <1>2, Invariance, PTL DEF Spec

\* Every step finds what it reads of its process set, on every path through the
\* open, load and bind calls.
THEOREM TypeCorrect == Spec => []TypeOK
  <1>1. IInv => TypeOK
    <2> SUFFICES ASSUME IInv PROVE TypeOK
      OBVIOUS
    <2>1. proc \in [Pid -> [at : Place, mode : Mode \cup {Nothing},
                            binding : Workflow \cup Binding \cup {Nothing},
                            held : Binding \cup Image \cup {Nothing},
                            bound : SUBSET Socket]]
      BY DEF IInv, Process
    <2>2. ASSUME NEW p \in Pid
          PROVE  /\ \/ proc[p].at \in Known
                    \/ proc[p].mode = "bind" /\ proc[p].at \notin {"off", "check", "open", "source"}
                    => proc[p].binding \in Binding
                 /\ proc[p].at = "managed" => proc[p].held \in Binding
                 /\ proc[p].at \in Mapped  => proc[p].held \in Image
      BY DEF IInv, PlaceOK
    <2>3. QED
      BY <2>1, <2>2 DEF IInv, DiskTypeOK, TypeOK
  <1>2. QED
    BY <1>1, Invariance, PTL

\* However many launches with however many images and workflow ids race: a
\* process for which the bind or load call returned holds the binding that is
\* on the disk, and has mapped its image.
THEOREM LaunchesAgree == Spec => []ProcessesAgree
  <1>1. IInv => ProcessesAgree
    <2> SUFFICES ASSUME IInv, NEW p \in Pid, proc[p].at \in Known
                 PROVE  /\ proc[p].binding = manifest /\ image = manifest.image
                        /\ proc[p].at # "map" => proc[p].held = image
      BY DEF ProcessesAgree
    <2>1. Agrees(proc[p]) /\ proc[p].at \in Place
      BY DEF IInv, Process
    <2>2. QED
      BY <2>1 DEF Agrees, Bound, Known, Mapped
  <1>2. QED
    BY <1>1, Invariance, PTL

\* State is never opened under two bindings, over any number of losses of power.
THEOREM StateHasOneBinding == Spec => []StateMatchesBinding
  <1>1. IInv => StateMatchesBinding
    <2> SUFFICES ASSUME IInv PROVE Cardinality(state) <= 1
      BY DEF StateMatchesBinding
    <2>1. CASE state = {}
      BY <2>1, FS_EmptySet
    <2>2. CASE state # {}
      <3>1. PICK b \in state : TRUE
        BY <2>2
      <3>2. state = {b}
        BY <3>1 DEF IInv, StateOK
      <3>3. QED
        BY <3>2, FS_Singleton
    <2>3. QED
      BY <2>1, <2>2
  <1>2. QED
    BY <1>1, Invariance, PTL

\* A serving daemon has the lock and both names; only kills leave a name behind.
THEOREM ServingOwns == Spec => []ServingOwnsWorkspace
  <1>1. IInv => ServingOwnsWorkspace
    <2> SUFFICES ASSUME IInv PROVE ServingOwnsWorkspace
      OBVIOUS
    <2>1. OwnersOK /\ \A p \in Pid : PlaceOK(proc[p])
      BY DEF IInv
    <2>2. ASSUME NEW p \in Pid, At(p, "serve") PROVE lock = p /\ \A s \in Socket : sock[s] = p
      <3>1. proc[p].bound = Socket /\ proc[p].at \in Locked
        BY <2>1, <2>2 DEF At, PlaceOK, Locked
      <3>2. QED
        BY <2>1, <3>1 DEF OwnersOK
    <2>3. \A s \in Socket : sock[s] \in Pid => s \in proc[sock[s]].bound
      BY <2>1 DEF OwnersOK
    <2>4. QED
      BY <2>2, <2>3 DEF ServingOwnsWorkspace
  <1>2. QED
    BY <1>1, Invariance, PTL

\* However many kills at whatever steps leave nothing but names of sockets that
\* refuses every later launch, and without a kill there are none of these either.
THEOREM KillsLeaveSocketsOnly == Spec => []OnlySocketNamesBlockLaunches
  <1>1. IInv /\ StaleOK => OnlySocketNamesBlockLaunches
    <2> SUFFICES ASSUME IInv, StaleOK, losses = 0
                 PROVE  Obstacles \subseteq (IF kills = 0 THEN {} ELSE {"socket"})
      BY DEF OnlySocketNamesBlockLaunches
    <2>1. "image" \notin Obstacles /\ "manifest" \notin Obstacles /\ "state" \notin Obstacles
      BY DEF IInv, FilesOK, Obstacles
    <2>2. "lock" \notin Obstacles
      <3>1. ASSUME lock # Nothing, At(lock, "off") PROVE FALSE
        BY <3>1 DEF IInv, DiskTypeOK, OwnersOK, At, Locked
      <3>2. QED
        BY <3>1 DEF Obstacles
    <2>3. ASSUME kills = 0 PROVE "socket" \notin Obstacles
      <3>1. ASSUME NEW s \in Socket, sock[s] # Nothing, \A p \in Pid : s \notin proc[p].bound
            PROVE  FALSE
        <4>1. sock[s] \in Pid \cup {Nothing, "stale"}
          BY DEF IInv, DiskTypeOK
        <4>2. sock[s] # "stale"
          BY <2>3 DEF StaleOK
        <4>3. QED
          BY <3>1, <4>1, <4>2 DEF IInv, OwnersOK
      <3>2. QED
        BY <3>1 DEF Obstacles
    <2>4. Obstacles \subseteq {"image", "manifest", "state", "lock", "socket"}
      BY DEF Obstacles
    <2>5. QED
      BY <2>1, <2>2, <2>3, <2>4
  <1>2. QED
    BY <1>1, Invariance, NamesHaveCauses, PTL
=============================================================================
