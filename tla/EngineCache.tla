----------------------------- MODULE EngineCache -----------------------------
(***************************************************************************)
(* The on-device engine cache (vrt-hub): threads of several processes call *)
(* get_or_build on one cache directory and load the engine they are given. *)
(* The steps of a call are the system calls another thread can see         *)
(* between: hash the ONNX graph, look for the engine, build, open the tmp  *)
(* file, write it chunk by chunk, rename it, open the engine, read it.     *)
(*                                                                         *)
(* A file is a sequence of chunks, a chunk the number of the build it      *)
(* comes from (two builds of one model differ: TensorRT times kernels), or *)
(* Hole where nothing was written. Eight hex digits of a sha256 are taken  *)
(* to tell files apart. TensorRT version and GPU are those of the box.     *)
(***************************************************************************)
EXTENDS Naturals, Sequences, Functions

CONSTANTS
    Thread,        \* callers of get_or_build
    Process,       \* process ids that share the cache directory
    PidOf,         \* the process id of each thread
    Name,          \* models
    Version,       \* contents an ONNX graph, or its weights file, can have
    FirstVersion,
    Profile,       \* profiles that validate() accepts
    Edits,         \* which of "graph", "weights" may change on disk
    EditMidCall,   \* may they change between the hash and the build?
    Chunks,        \* write() calls it takes to write an engine
    MaxBuilds      \* bound on the builds of a behaviour

ASSUME CacheAssumption ==
    /\ PidOf \in [Thread -> Process]
    /\ FirstVersion \in Version
    /\ Edits \subseteq {"graph", "weights"}
    /\ EditMidCall \in BOOLEAN
    /\ Chunks \in Nat \ {0}
    /\ MaxBuilds \in Nat

VARIABLES
    model,   \* the ONNX graph and the weights beside it, per model
    dir,     \* the cache directory: path -> number of the file it names
    files,   \* contents of the files ever created
    builds,  \* what each engine build read (the bytes of its engine)
    call     \* the call each thread is in

cacheVars == <<model, dir, files, builds, call>>

Key == [name : Name, graph : Version, profile : Profile]
Build == [key : Key, weights : Version]
Hole == 0

(* key_path: the sidecar that holds the weights is not hashed. (...Fault:  *)
(* plausible slips, each of which breaks a property of a run; unused here.)*)
KeyOfFault(n, p) == [name |-> n, graph |-> FirstVersion, profile |-> p]
KeyOf(n, p) == [name |-> n, graph |-> model[n].graph, profile |-> p]

(* What a build run now would read. *)
OnDisk(n, p) ==
    [key |-> [name |-> n, graph |-> model[n].graph, profile |-> p],
     weights |-> model[n].weights]

Path == [key : Key, tmp : Process] \cup [key : Key]
EnginePathFault(k) == [key |-> CHOOSE j \in Key : TRUE]
EnginePath(k) == [key |-> k]
TmpPath(t, k) == [key |-> k, tmp |-> PidOf[t]]

Idle == [pc |-> "idle"]
At(t, pc) == call[t].pc = pc
Exists(path) == path \in DOMAIN dir

CacheInit ==
    /\ model = [n \in Name |-> [graph |-> FirstVersion, weights |-> FirstVersion]]
    /\ dir = <<>>
    /\ files = <<>>
    /\ builds = <<>>
    /\ call = [t \in Thread |-> Idle]
-----------------------------------------------------------------------------
(* Someone exports the model anew. *)
Edit(n) ==
    /\ \A t \in Thread : call[t].pc \in {"keyed", "missed"} =>
                            EditMidCall \/ call[t].asked.key.name # n
    /\ \E v \in Version, part \in Edits :
          /\ v # model[n][part]
          /\ model' = [model EXCEPT ![n][part] = v]
    /\ UNCHANGED <<dir, files, builds, call>>

(* get_or_build begins: validate and hash (a profile or a name it rejects  *)
(* changes nothing). asked remembers the files now; the code does not.     *)
Ask(t, n, p) ==
    /\ At(t, "idle")
    /\ call' = [call EXCEPT ![t] = [pc |-> "keyed", key |-> KeyOf(n, p),
                                    asked |-> OnDisk(n, p)]]
    /\ UNCHANGED <<model, dir, files, builds>>

Hit(t) ==
    /\ At(t, "keyed")
    /\ Exists(EnginePath(call[t].key))
    /\ call' = [call EXCEPT ![t].pc = "ready"]
    /\ UNCHANGED <<model, dir, files, builds>>

Miss(t) ==
    /\ At(t, "keyed")
    /\ ~Exists(EnginePath(call[t].key))
    /\ call' = [call EXCEPT ![t].pc = "missed"]
    /\ UNCHANGED <<model, dir, files, builds>>

(* build_engine reads the files again and leaves the engine in memory. *)
BuildEngine(t) ==
    /\ At(t, "missed")
    /\ Len(builds) < MaxBuilds
    /\ builds' = Append(builds, LET k == call[t].asked.key
                                 IN  OnDisk(k.name, k.profile))
    /\ call' = [call EXCEPT ![t] = [pc |-> "built", key |-> @.key,
                                    asked |-> @.asked, blob |-> Len(builds')]]
    /\ UNCHANGED <<model, dir, files>>

(* fs::write opens the tmp file: created, or truncated if it is there. *)
OpenTmp(t) ==
    LET tmp == TmpPath(t, call[t].key)
        at  == IF Exists(tmp) THEN dir[tmp] ELSE Len(files) + 1
    IN  /\ At(t, "built")
        /\ dir' = [path \in DOMAIN dir \cup {tmp} |->
                     IF path = tmp THEN at ELSE dir[path]]
        /\ files' = [i \in DOMAIN files \cup {at} |->
                       IF i = at THEN <<>> ELSE files[i]]
        /\ call' = [call EXCEPT ![t] = [pc |-> "writing", key |-> @.key,
                                        asked |-> @.asked, blob |-> @.blob,
                                        file |-> at, off |-> 0]]
        /\ UNCHANGED <<model, builds>>

(* A write past the end (the file was truncated meanwhile) leaves a hole.  *)
Written(file, off, blob) ==
    [c \in DOMAIN file \cup 1 .. off + 1 |->
        CASE c = off + 1       -> blob
          [] c \in DOMAIN file -> file[c]
          [] OTHER             -> Hole]

WriteChunk(t) ==
    /\ At(t, "writing")
    /\ call[t].off < Chunks
    /\ files' = [files EXCEPT ![call[t].file] =
                   Written(@, call[t].off, call[t].blob)]
    /\ call' = [call EXCEPT ![t].off = @ + 1]
    /\ UNCHANGED <<model, dir, builds>>

(* Rename replaces the engine another process may have published. *)
Renamed(from, to) ==
    [path \in (DOMAIN dir \ {from}) \cup {to} |->
        IF path = to THEN dir[from] ELSE dir[path]]

(* Fault: copied over an engine that is already there. *)
PublishFault(t) ==
    LET tmp == TmpPath(t, call[t].key)
        path == EnginePath(call[t].key)
    IN  /\ At(t, "writing")
        /\ call[t].off = Chunks
        /\ Exists(tmp)
        /\ IF Exists(path)
           THEN /\ files' = [files EXCEPT ![dir[path]] = files[dir[tmp]]]
                /\ UNCHANGED dir
           ELSE /\ dir' = Renamed(tmp, path)
                /\ UNCHANGED files
        /\ call' = [call EXCEPT ![t] = [pc |-> "ready", key |-> @.key,
                                        asked |-> @.asked]]
        /\ UNCHANGED <<model, builds>>

Publish(t) ==
    LET tmp == TmpPath(t, call[t].key)
    IN  /\ At(t, "writing")
        /\ call[t].off = Chunks
        /\ Exists(tmp)
        /\ dir' = Renamed(tmp, EnginePath(call[t].key))
        /\ call' = [call EXCEPT ![t] = [pc |-> "ready", key |-> @.key,
                                        asked |-> @.asked]]
        /\ UNCHANGED <<model, files, builds>>

(* The error paths of get_or_build: the build fails, the disk is full, or  *)
(* another thread has renamed the tmp file away. No file is removed.       *)
Fail(t) ==
    /\ \/ At(t, "missed")
       \/ At(t, "writing") /\ call[t].off < Chunks
       \/ /\ At(t, "writing")
          /\ call[t].off = Chunks
          /\ ~Exists(TmpPath(t, call[t].key))
    /\ call' = [call EXCEPT ![t] = Idle]
    /\ UNCHANGED <<model, dir, files, builds>>

(* Engine::from_file on the path returned: fs::read opens the file ...     *)
OpenEngine(t) ==
    /\ At(t, "ready")
    /\ call' = [call EXCEPT ![t] = [pc |-> "reading", key |-> @.key,
                                    asked |-> @.asked,
                                    file |-> dir[EnginePath(@.key)],
                                    bytes |-> <<>>]]
    /\ UNCHANGED <<model, dir, files, builds>>

(* ... and reads to its end. *)
ReadChunk(t) ==
    /\ At(t, "reading")
    /\ Len(call[t].bytes) < Len(files[call[t].file])
    /\ call' = [call EXCEPT ![t].bytes =
                  Append(@, files[call[t].file][Len(@) + 1])]
    /\ UNCHANGED <<model, dir, files, builds>>

Loaded(t) ==
    /\ At(t, "reading")
    /\ Len(call[t].bytes) >= Len(files[call[t].file])
    /\ call' = [call EXCEPT ![t].pc = "loaded"]
    /\ UNCHANGED <<model, dir, files, builds>>

Return(t) ==
    /\ At(t, "loaded")
    /\ call' = [call EXCEPT ![t] = Idle]
    /\ UNCHANGED <<model, dir, files, builds>>

(* A process dies; a later one may be given its id. Its files stay. *)
Crash(q) ==
    /\ \E t \in Thread : PidOf[t] = q /\ ~At(t, "idle")
    /\ call' = [t \in Thread |-> IF PidOf[t] = q THEN Idle ELSE call[t]]
    /\ UNCHANGED <<model, dir, files, builds>>

Step(t) == \/ Hit(t) \/ Miss(t) \/ BuildEngine(t) \/ OpenTmp(t)
           \/ WriteChunk(t) \/ Publish(t) \/ Fail(t)
           \/ OpenEngine(t) \/ ReadChunk(t) \/ Loaded(t) \/ Return(t)

CacheNext == \/ \E n \in Name : Edit(n)
             \/ \E t \in Thread, n \in Name, p \in Profile : Ask(t, n, p)
             \/ \E t \in Thread : Step(t)
             \/ \E q \in Process : Crash(q)

CacheSpec == CacheInit /\ [][CacheNext]_cacheVars
=============================================================================
