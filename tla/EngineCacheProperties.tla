------------------------ MODULE EngineCacheProperties ------------------------
(***************************************************************************)
(* What must be true of the engine cache, and the table of engines it      *)
(* implements.                                                             *)
(***************************************************************************)
EXTENDS EngineCache

CONSTANTS NoEngine, Torn   \* no file under a name; a file that is no engine

ASSUME NoEngineAssumption == NoEngine \notin Build /\ Torn \notin Build

Chunk == 0 .. Len(builds)
Content == UNION {[1 .. n -> Chunk] : n \in 0 .. Chunks}

(* What a call carries at each point of get_or_build and of the load.      *)
Resting == [pc : {"idle"}]
Asking  == [pc : {"keyed", "missed", "ready"}, key : Key, asked : Build]
Holding == [pc : {"built"}, key : Key, asked : Build, blob : DOMAIN builds]
Writing == [pc : {"writing"}, key : Key, asked : Build, blob : DOMAIN builds,
            file : DOMAIN files, off : 0 .. Chunks]
Reading == [pc : {"reading", "loaded"}, key : Key, asked : Build,
            file : DOMAIN files, bytes : Content]
Call == Resting \cup Asking \cup Holding \cup Writing \cup Reading

(* Type correctness; a thread told its engine is ready finds one. *)
CacheTypeOK ==
    /\ model \in [Name -> [graph : Version, weights : Version]]
    /\ builds \in Seq(Build)
    /\ files \in Seq(Content)
    /\ dir \in [DOMAIN dir -> DOMAIN files]
    /\ DOMAIN dir \subseteq Path
    /\ call \in [Thread -> Call]
    /\ \A t \in Thread : At(t, "ready") => Exists(EnginePath(call[t].key))

(* A file content that is one build's engine, all of it. *)
WholeContent(s) ==
    /\ Len(s) = Chunks
    /\ s[1] # Hole
    /\ \A c \in DOMAIN s : s[c] = s[1]

(* An engine that exists under its final name is whole, whoever else is    *)
(* building it, however often a builder died half way.                     *)
PublishedWhole ==
    \A k \in Key : Exists(EnginePath(k)) =>
                      WholeContent(files[dir[EnginePath(k)]])

(* The cache is keyed by content: every byte under a key's final name was  *)
(* built from the graph the key hashes, for the profile it hashes.         *)
KeyedByContent ==
    \A k \in Key : Exists(EnginePath(k)) =>
        \A c \in DOMAIN files[dir[EnginePath(k)]] :
            LET chunk == files[dir[EnginePath(k)]][c]
            IN  chunk # Hole => builds[chunk].key = k

(* A caller ends up with the engine of the graph, weights and profile it   *)
(* asked for, as they were on disk when it asked.                          *)
EngineIsAsked ==
    \A t \in Thread : At(t, "loaded") =>
        /\ WholeContent(call[t].bytes)
        /\ builds[call[t].bytes[1]] = call[t].asked
-----------------------------------------------------------------------------
(* What makes them inductive. A file has one name; the bytes behind a name *)
(* are of its key, whoever still writes them; and what a call has built is *)
(* what it asked for, if nobody edits a model between hash and build.      *)
NamesApart == \A p, q \in DOMAIN dir : dir[p] = dir[q] => p = q

FilesKeyed ==
    \A p \in DOMAIN dir : \A c \in DOMAIN files[dir[p]] :
        files[dir[p]][c] # Hole => builds[files[dir[p]][c]].key = p.key

CallsKeyed ==
    \A t \in Thread :
        /\ ~At(t, "idle") => call[t].asked.key = call[t].key
        /\ At(t, "keyed") \/ At(t, "missed") =>
              OnDisk(call[t].key.name, call[t].key.profile) = call[t].asked
        /\ At(t, "built") \/ At(t, "writing") => builds[call[t].blob] = call[t].asked
        /\ At(t, "writing") =>
              \A p \in DOMAIN dir : dir[p] = call[t].file => p.key = call[t].key

KeyedInv == NamesApart /\ FilesKeyed /\ CallsKeyed

(* With a thread to a process, a writer is alone with its tmp file, what is *)
(* behind a final name is whole, and a reader's file is never written again. *)
OwnTmp ==
    \A t \in Thread : At(t, "writing") =>
        LET tmp == TmpPath(t, call[t].key)
        IN  /\ tmp \in DOMAIN dir /\ dir[tmp] = call[t].file
            /\ files[call[t].file] = [c \in 1 .. call[t].off |-> call[t].blob]

ReadersHold ==
    \A t \in Thread : At(t, "reading") \/ At(t, "loaded") =>
        LET file == files[call[t].file]
        IN  /\ WholeContent(file)
            /\ \A u \in Thread, k \in Key :
                  TmpPath(u, k) \in DOMAIN dir => dir[TmpPath(u, k)] # call[t].file
            /\ \A c \in DOMAIN call[t].bytes : call[t].bytes[c] = file[c]
            /\ At(t, "loaded") => Len(call[t].bytes) = Chunks

WholeInv == NamesApart /\ PublishedWhole /\ OwnTmp /\ ReadersHold

(* What a reader holds is of the key it asked for; and without edits of    *)
(* weights there is one build for a key.                                   *)
ReadersKeyed ==
    \A t \in Thread : At(t, "reading") \/ At(t, "loaded") =>
        builds[files[call[t].file][1]].key = call[t].key

WeightsStay ==
    /\ \A n \in Name : model[n].weights = FirstVersion
    /\ \A b \in DOMAIN builds : builds[b].weights = FirstVersion
    /\ \A t \in Thread : ~At(t, "idle") => call[t].asked.weights = FirstVersion
-----------------------------------------------------------------------------
(* The table of engines: a final name stands for the engine in its file, a *)
(* reader for the engine in the file it opened. A torn file is no engine.  *)
EngineIn(s) == IF WholeContent(s) THEN builds[s[1]] ELSE Torn

StoreOf == [k \in Key |-> IF Exists(EnginePath(k))
                          THEN EngineIn(files[dir[EnginePath(k)]])
                          ELSE NoEngine]

HeldBy == [t \in Thread |-> CASE At(t, "reading") -> EngineIn(files[call[t].file])
                              [] At(t, "loaded")  -> EngineIn(call[t].bytes)
                              [] OTHER            -> NoEngine]

Store == INSTANCE EngineStore
             WITH Engine <- Build, store <- StoreOf, held <- HeldBy

(* Calls, crashes and lost races implement the table of whole engines: one *)
(* appears under its own key in one step and never goes, and a reader has  *)
(* one engine from open to return even while the name is replaced.         *)
ImplementsStore == Store!Spec
=============================================================================
