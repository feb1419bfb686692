-------------------------- MODULE EngineCacheProofs --------------------------
(***************************************************************************)
(* Proofs about the engine cache.                                          *)
(***************************************************************************)
EXTENDS EngineCacheProperties, SequenceTheorems, TLAPS

USE DEF Hole

(* The names of a directory: a final name is never a tmp name, and both    *)
(* give back what they are made of.                                        *)
LEMMA PathsDiffer ==
    ASSUME CacheAssumption, NEW k \in Key, NEW j \in Key,
           NEW t \in Thread, NEW u \in Thread
    PROVE  /\ EnginePath(k) \in Path /\ TmpPath(t, k) \in Path
           /\ EnginePath(k).key = k /\ TmpPath(t, k).key = k
           /\ EnginePath(k) # TmpPath(t, j)
           /\ EnginePath(k) = EnginePath(j) => k = j
           /\ TmpPath(t, k) = TmpPath(u, j) => k = j /\ PidOf[t] = PidOf[u]
  <1>1. PidOf[t] \in Process
    BY DEF CacheAssumption
  <1>2. EnginePath(k) \in Path /\ TmpPath(t, k) \in Path
    BY <1>1 DEF EnginePath, TmpPath, Path
  <1>3. EnginePath(k).key = k /\ TmpPath(t, k).key = k
    BY DEF EnginePath, TmpPath
  <1>4. EnginePath(k) # TmpPath(t, j)
    <2>1. "tmp" \notin DOMAIN EnginePath(k)
      BY DEF EnginePath
    <2>2. "tmp" \in DOMAIN TmpPath(t, j)
      BY DEF TmpPath
    <2>. QED  BY <2>1, <2>2
  <1>5. EnginePath(k) = EnginePath(j) => k = j
    BY DEF EnginePath
  <1>6. TmpPath(t, k) = TmpPath(u, j) => k = j /\ PidOf[t] = PidOf[u]
    BY DEF TmpPath
  <1>. QED  BY <1>2, <1>3, <1>4, <1>5, <1>6

(* What a call carries, by the point it has reached. *)
LEMMA CallShape ==
    ASSUME call \in [Thread -> Call], NEW t \in Thread
    PROVE  /\ At(t, "idle") <=> call[t] \in Resting
           /\ At(t, "keyed") \/ At(t, "missed") \/ At(t, "ready") <=> call[t] \in Asking
           /\ At(t, "built") <=> call[t] \in Holding
           /\ At(t, "writing") <=> call[t] \in Writing
           /\ At(t, "reading") \/ At(t, "loaded") <=> call[t] \in Reading
           /\ ~At(t, "idle") => call[t].key \in Key /\ call[t].asked \in Build
           /\ At(t, "built") \/ At(t, "writing") => call[t].blob \in DOMAIN builds
           /\ At(t, "writing") => call[t].file \in DOMAIN files /\ call[t].off \in 0 .. Chunks
           /\ At(t, "reading") \/ At(t, "loaded") =>
                 call[t].file \in DOMAIN files /\ call[t].bytes \in Content
  <1>0. call[t] \in Call
    OBVIOUS
  <1>1. CASE call[t] \in Resting
    BY <1>1 DEF Resting, Asking, Holding, Writing, Reading, At
  <1>2. CASE call[t] \in Asking
    BY <1>2 DEF Resting, Asking, Holding, Writing, Reading, At
  <1>3. CASE call[t] \in Holding
    BY <1>3 DEF Resting, Asking, Holding, Writing, Reading, At
  <1>4. CASE call[t] \in Writing
    BY <1>4 DEF Resting, Asking, Holding, Writing, Reading, At
  <1>5. CASE call[t] \in Reading
    BY <1>5 DEF Resting, Asking, Holding, Writing, Reading, At
  <1>. QED  BY <1>0, <1>1, <1>2, <1>3, <1>4, <1>5 DEF Call

(* A call keeps its type when files and builds are only added. *)
LEMMA CallsGrow ==
    ASSUME builds \in Seq(Build), builds' \in Seq(Build),
           Len(builds) <= Len(builds'), DOMAIN files \subseteq DOMAIN files'
    PROVE  Call \subseteq Call' /\ Content \subseteq Content'
  <1>1. DOMAIN builds \subseteq DOMAIN builds' /\ Chunk \subseteq Chunk'
    BY LenProperties DEF Chunk
  <1>2. Content \subseteq Content'
    <2>. SUFFICES ASSUME NEW n \in 0 .. Chunks
                  PROVE  [1 .. n -> Chunk] \subseteq [1 .. n -> Chunk']
      BY DEF Content
    <2>. QED  BY <1>1
  <1>3. Resting \subseteq Resting' /\ Asking \subseteq Asking'
    BY DEF Resting, Asking
  <1>4. Holding \subseteq Holding'
    BY <1>1 DEF Holding
  <1>5. Writing \subseteq Writing'
    BY <1>1 DEF Writing
  <1>6. Reading \subseteq Reading'
    BY <1>2 DEF Reading
  <1>. QED  BY <1>2, <1>3, <1>4, <1>5, <1>6 DEF Call

(* Contents that are sequences of chunks, and what a write makes of them. *)
LEMMA ContentIsSeq ==
    ASSUME CacheAssumption, builds \in Seq(Build), NEW s \in Content
    PROVE  /\ s \in Seq(Chunk) /\ Len(s) \in 0 .. Chunks
           /\ DOMAIN s = 1 .. Len(s) /\ s \in [1 .. Len(s) -> Chunk]
  <1>1. PICK n \in 0 .. Chunks : s \in [1 .. n -> Chunk]
    BY DEF Content
  <1>2. n \in Nat
    BY DEF CacheAssumption
  <1>3. s \in Seq(Chunk)
    BY <1>1, <1>2, SeqDef
  <1>4. Len(s) = n
    BY <1>1, <1>2, <1>3, LenProperties
  <1>. QED  BY <1>1, <1>2, <1>3, <1>4

LEMMA FunctionIsContent ==
    ASSUME CacheAssumption, NEW n \in Nat, n <= Chunks, NEW s \in [1 .. n -> Chunk]
    PROVE  s \in Content
  BY DEF Content, CacheAssumption

LEMMA WrittenIsContent ==
    ASSUME CacheAssumption, builds \in Seq(Build), NEW s \in Content,
           NEW off \in 0 .. Chunks, off < Chunks, NEW b \in DOMAIN builds
    PROVE  Written(s, off, b) \in Content
  <1>. DEFINE n == IF Len(s) > off THEN Len(s) ELSE off + 1
  <1>1. /\ s \in [1 .. Len(s) -> Chunk] /\ Len(s) \in 0 .. Chunks /\ Len(s) \in Nat
        /\ off \in Nat /\ Chunks \in Nat
    BY ContentIsSeq DEF CacheAssumption
  <1>2. n \in Nat /\ n <= Chunks
    BY <1>1
  <1>3. DOMAIN s \cup 1 .. off + 1 = 1 .. n
    BY <1>1
  <1>4. b \in Chunk /\ 0 \in Chunk
    BY LenProperties DEF Chunk
  <1>5. Written(s, off, b) \in [1 .. n -> Chunk]
    BY <1>1, <1>3, <1>4 DEF Written
  <1>. QED  BY <1>2, <1>5, FunctionIsContent
-----------------------------------------------------------------------------
(* What the three steps that touch files do, name by name.                 *)
FileOf(t) == IF Exists(TmpPath(t, call[t].key)) THEN dir[TmpPath(t, call[t].key)]
                                             ELSE Len(files) + 1

LEMMA WrittenChunks ==
    ASSUME NEW s, NEW off, NEW b, NEW i \in DOMAIN Written(s, off, b)
    PROVE  /\ i \in DOMAIN s \cup 1 .. off + 1
           /\ Written(s, off, b)[i] = CASE i = off + 1   -> b
                                        [] i \in DOMAIN s -> s[i]
                                        [] OTHER         -> Hole
           /\ Written(s, off, b)[i] # Hole =>
                 \/ Written(s, off, b)[i] = b
                 \/ i \in DOMAIN s /\ Written(s, off, b)[i] = s[i]
  BY DEF Written

LEMMA Opened ==
    ASSUME CacheAssumption, CacheTypeOK, NEW t \in Thread, OpenTmp(t)
    PROVE  /\ call[t] \in Holding /\ call[t].key \in Key
           /\ FileOf(t) \in Nat \ {0}
           /\ files' = [i \in DOMAIN files \cup {FileOf(t)} |->
                            IF i = FileOf(t) THEN <<>> ELSE files[i]]
           /\ files' \in Seq(Content')
           /\ dir' = [path \in DOMAIN dir \cup {TmpPath(t, call[t].key)} |->
                         IF path = TmpPath(t, call[t].key) THEN FileOf(t) ELSE dir[path]]
           /\ Exists(TmpPath(t, call[t].key)) =>
                 FileOf(t) = dir[TmpPath(t, call[t].key)] /\ FileOf(t) \in DOMAIN files
           /\ ~Exists(TmpPath(t, call[t].key)) => FileOf(t) \notin DOMAIN files
           /\ call' = [call EXCEPT ![t] = [pc |-> "writing", key |-> call[t].key,
                          asked |-> call[t].asked, blob |-> call[t].blob,
                          file |-> FileOf(t), off |-> 0]]
           /\ UNCHANGED <<model, builds>>
  <1>. DEFINE tmp == TmpPath(t, call[t].key)
              m == IF Exists(tmp) THEN Len(files) ELSE Len(files) + 1
  <1>1. call[t] \in Holding /\ call[t].key \in Key
    BY CallShape DEF CacheTypeOK, OpenTmp, At
  <1>2. files \in Seq(Content) /\ Len(files) \in Nat /\ DOMAIN files = 1 .. Len(files)
        /\ files \in [1 .. Len(files) -> Content]
    BY LenProperties DEF CacheTypeOK
  <1>3. Exists(tmp) => dir[tmp] \in DOMAIN files
    BY DEF CacheTypeOK, Exists
  <1>4. /\ Exists(tmp) => FileOf(t) = dir[tmp] /\ FileOf(t) \in DOMAIN files
        /\ ~Exists(tmp) => FileOf(t) = Len(files) + 1 /\ FileOf(t) \notin DOMAIN files
    BY <1>2, <1>3 DEF FileOf
  <1>5. FileOf(t) \in Nat \ {0}
    BY <1>2, <1>4
  <1>6. files' = [i \in DOMAIN files \cup {FileOf(t)} |->
                      IF i = FileOf(t) THEN <<>> ELSE files[i]]
    BY DEF OpenTmp, FileOf
  <1>7. dir' = [path \in DOMAIN dir \cup {tmp} |-> IF path = tmp THEN FileOf(t) ELSE dir[path]]
    BY DEF OpenTmp, FileOf
  <1>8. call' = [call EXCEPT ![t] = [pc |-> "writing", key |-> call[t].key,
                          asked |-> call[t].asked, blob |-> call[t].blob,
                          file |-> FileOf(t), off |-> 0]]
    BY DEF OpenTmp, FileOf
  <1>9. UNCHANGED <<model, builds>>
    BY DEF OpenTmp
  <1>10. files' \in Seq(Content')
    <2>1. m \in Nat /\ DOMAIN files \cup {FileOf(t)} = 1 .. m
      BY <1>2, <1>4
    <2>2. <<>> \in Content
      <3>1. <<>> \in Seq(Chunk) /\ Len(<<>>) = 0
        OBVIOUS
      <3>2. <<>> \in [1 .. 0 -> Chunk]
        BY <3>1, LenProperties
      <3>3. 0 \in 0 .. Chunks
        BY DEF CacheAssumption
      <3>. QED  BY <3>2, <3>3 DEF Content
    <2>3. Content' = Content
      BY <1>9 DEF Content, Chunk
    <2>. HIDE DEF m
    <2>4. files' \in [1 .. m -> Content]
      BY <1>2, <1>6, <2>1, <2>2
    <2>. QED  BY <2>1, <2>3, <2>4, SeqDef
  <1>. QED  BY <1>1, <1>4, <1>5, <1>6, <1>7, <1>8, <1>9, <1>10

LEMMA Wrote ==
    ASSUME CacheAssumption, CacheTypeOK, NEW t \in Thread, WriteChunk(t)
    PROVE  /\ call[t] \in Writing /\ call[t].key \in Key
           /\ call[t].off \in Nat /\ call[t].off < Chunks
           /\ call[t].file \in DOMAIN files
           /\ files[call[t].file] \in Content
           /\ Written(files[call[t].file], call[t].off, call[t].blob) \in Content
           /\ files' = [files EXCEPT ![call[t].file] =
                           Written(files[call[t].file], call[t].off, call[t].blob)]
           /\ files' \in Seq(Content') /\ DOMAIN files' = DOMAIN files
           /\ call' = [call EXCEPT ![t] = [call[t] EXCEPT !.off = call[t].off + 1]]
           /\ UNCHANGED <<model, dir, builds>>
  <1>1. call[t] \in Writing /\ call[t].key \in Key /\ call[t].file \in DOMAIN files
        /\ call[t].blob \in DOMAIN builds /\ call[t].off \in 0 .. Chunks
    BY CallShape DEF CacheTypeOK, WriteChunk, At
  <1>2. call[t].off \in Nat /\ call[t].off < Chunks
    BY <1>1 DEF WriteChunk
  <1>3. files[call[t].file] \in Content
    BY <1>1, ElementOfSeq, LenProperties DEF CacheTypeOK
  <1>4. Written(files[call[t].file], call[t].off, call[t].blob) \in Content
    BY <1>1, <1>2, <1>3, WrittenIsContent DEF CacheTypeOK
  <1>5. /\ files' = [files EXCEPT ![call[t].file] =
                           Written(files[call[t].file], call[t].off, call[t].blob)]
        /\ UNCHANGED <<model, dir, builds>>
    BY DEF WriteChunk
  <1>6. call' = [call EXCEPT ![t] = [call[t] EXCEPT !.off = call[t].off + 1]]
    BY DEF WriteChunk
  <1>7. Content' = Content
    BY <1>5 DEF Content, Chunk
  <1>8. files' \in Seq(Content') /\ DOMAIN files' = DOMAIN files
    BY <1>1, <1>4, <1>5, <1>7, ExceptSeq, LenProperties DEF CacheTypeOK
  <1>. QED  BY <1>1, <1>2, <1>3, <1>4, <1>5, <1>6, <1>8

LEMMA Published ==
    ASSUME CacheAssumption, CacheTypeOK, NEW t \in Thread, Publish(t)
    PROVE  LET tmp == TmpPath(t, call[t].key)
               path == EnginePath(call[t].key)
           IN  /\ call[t] \in Writing /\ call[t].key \in Key
               /\ call[t].off = Chunks
               /\ tmp \in DOMAIN dir /\ path # tmp
               /\ DOMAIN dir' = (DOMAIN dir \ {tmp}) \cup {path}
               /\ dir'[path] = dir[tmp]
               /\ \A p \in DOMAIN dir \ {tmp, path} : dir'[p] = dir[p]
               /\ dir' = [p \in DOMAIN dir' |-> dir'[p]]
               /\ call' = [call EXCEPT ![t] = [pc |-> "ready", key |-> call[t].key,
                                               asked |-> call[t].asked]]
               /\ UNCHANGED <<model, files, builds>>
  <1>1. call[t] \in Writing /\ call[t].key \in Key
    BY CallShape DEF CacheTypeOK, Publish, At
  <1>2. EnginePath(call[t].key) # TmpPath(t, call[t].key)
    BY <1>1, PathsDiffer
  <1>. QED  BY <1>1, <1>2 DEF Publish, Renamed, Exists
-----------------------------------------------------------------------------
(* Type correctness.                                                       *)
LEMMA TypeOfCalls ==
    ASSUME CacheTypeOK, NEW t \in Thread, NEW c, c \in Call',
           Call \subseteq Call', call' = [call EXCEPT ![t] = c],
           c.pc = "ready" => EnginePath(c.key) \in DOMAIN dir',
           \A u \in Thread \ {t} : At(u, "ready") => EnginePath(call[u].key) \in DOMAIN dir'
    PROVE  /\ call' \in [Thread -> Call']
           /\ \A u \in Thread : At(u, "ready")' => Exists(EnginePath(call[u].key))'
  <1>1. call' \in [Thread -> Call']
    BY DEF CacheTypeOK
  <1>2. ASSUME NEW u \in Thread, At(u, "ready")'
        PROVE  Exists(EnginePath(call[u].key))'
    <2>1. call \in [Thread -> Call]
      BY DEF CacheTypeOK
    <2>2. CASE u = t
      BY <1>2, <2>1, <2>2 DEF At, Exists, EnginePath
    <2>3. CASE u # t
      BY <1>2, <2>1, <2>3 DEF At, Exists, EnginePath
    <2>. QED  BY <2>2, <2>3
  <1>. QED  BY <1>1, <1>2

LEMMA TypeOfQuietStep ==
    ASSUME CacheTypeOK, UNCHANGED <<model, dir, files, builds>>,
           NEW t \in Thread, NEW c \in Call, call' = [call EXCEPT ![t] = c],
           c.pc = "ready" => Exists(EnginePath(c.key))
    PROVE  CacheTypeOK'
  <1>1. Call' = Call /\ Content' = Content
    BY DEF Call, Resting, Asking, Holding, Writing, Reading, Content, Chunk
  <1>2. \A u \in Thread : At(u, "ready") => EnginePath(call[u].key) \in DOMAIN dir'
    BY DEF CacheTypeOK, Exists
  <1>3. /\ call' \in [Thread -> Call']
        /\ \A u \in Thread : At(u, "ready")' => Exists(EnginePath(call[u].key))'
    BY <1>1, <1>2, TypeOfCalls DEF Exists
  <1>4. /\ model' \in [Name -> [graph : Version, weights : Version]]
        /\ builds' \in Seq(Build)
        /\ files' \in Seq(Content')
        /\ dir' \in [DOMAIN dir' -> DOMAIN files']
        /\ DOMAIN dir' \subseteq Path
    BY <1>1 DEF CacheTypeOK
  <1>. QED  BY <1>3, <1>4 DEF CacheTypeOK

LEMMA InitTyped == CacheAssumption /\ CacheInit => CacheTypeOK
  <1>. SUFFICES ASSUME CacheAssumption, CacheInit PROVE CacheTypeOK
    OBVIOUS
  <1>1. model \in [Name -> [graph : Version, weights : Version]]
    BY DEF CacheAssumption, CacheInit
  <1>2. builds \in Seq(Build) /\ files \in Seq(Content)
    BY DEF CacheInit
  <1>3. dir \in [DOMAIN dir -> DOMAIN files] /\ DOMAIN dir \subseteq Path
    <2>1. dir \in Seq({}) /\ Len(dir) = 0
      BY DEF CacheInit
    <2>2. DOMAIN dir = {} /\ dir = [p \in {} |-> dir[p]]
      BY <2>1, LenProperties
    <2>. QED  BY <2>2
  <1>4. call \in [Thread -> Call]
    BY DEF CacheInit, Idle, Call, Resting
  <1>5. \A t \in Thread : ~At(t, "ready")
    BY DEF CacheInit, Idle, At
  <1>. QED  BY <1>1, <1>2, <1>3, <1>4, <1>5 DEF CacheTypeOK

LEMMA OnDiskTyped ==
    ASSUME CacheTypeOK, NEW n \in Name, NEW p \in Profile
    PROVE  OnDisk(n, p) \in Build /\ KeyOf(n, p) \in Key /\ OnDisk(n, p).key = KeyOf(n, p)
  <1>1. model[n].graph \in Version /\ model[n].weights \in Version
    BY DEF CacheTypeOK
  <1>2. KeyOf(n, p) \in Key
    BY <1>1 DEF KeyOf, Key
  <1>3. OnDisk(n, p) = [key |-> KeyOf(n, p), weights |-> model[n].weights]
    BY DEF OnDisk, KeyOf
  <1>. QED  BY <1>1, <1>2, <1>3 DEF Build

LEMMA KeyParts == \A k \in Key : k.name \in Name /\ k.graph \in Version /\ k.profile \in Profile
  BY DEF Key

LEMMA BuildParts == \A b \in Build : b.key \in Key /\ b.weights \in Version
  BY DEF Build

LEMMA NextTyped ==
    ASSUME CacheAssumption, CacheTypeOK, [CacheNext]_cacheVars
    PROVE  CacheTypeOK'
  <1>0. call \in [Thread -> Call]
    BY DEF CacheTypeOK
  <1>1. ASSUME NEW n \in Name, Edit(n) PROVE CacheTypeOK'
    <2>1. model' \in [Name -> [graph : Version, weights : Version]]
      <3>1. PICK v \in Version, part \in Edits : model' = [model EXCEPT ![n][part] = v]
        BY <1>1 DEF Edit
      <3>2. CASE part = "graph"
        BY <3>1, <3>2 DEF CacheTypeOK
      <3>3. CASE part = "weights"
        BY <3>1, <3>3 DEF CacheTypeOK
      <3>. QED  BY <3>2, <3>3 DEF CacheAssumption
    <2>2. UNCHANGED <<dir, files, builds, call>>
      BY <1>1 DEF Edit
    <2>3. Call' = Call /\ Content' = Content
      BY <2>2 DEF Call, Resting, Asking, Holding, Writing, Reading, Content, Chunk
    <2>. QED  BY <2>1, <2>2, <2>3 DEF CacheTypeOK, At, Exists, EnginePath
  <1>2. ASSUME NEW t \in Thread, NEW n \in Name, NEW p \in Profile, Ask(t, n, p)
        PROVE  CacheTypeOK'
    <2>. DEFINE c == [pc |-> "keyed", key |-> KeyOf(n, p), asked |-> OnDisk(n, p)]
    <2>1. c \in Call
      BY OnDiskTyped DEF Call, Asking
    <2>2. call' = [call EXCEPT ![t] = c] /\ UNCHANGED <<model, dir, files, builds>> /\ c.pc # "ready"
      BY <1>2 DEF Ask
    <2>. HIDE DEF c
    <2>. QED  BY <2>1, <2>2, TypeOfQuietStep
  <1>3. ASSUME NEW t \in Thread, Hit(t) PROVE CacheTypeOK'
    <2>. DEFINE c == [call[t] EXCEPT !.pc = "ready"]
    <2>1. call[t] \in Asking
      BY <1>0, <1>3, CallShape DEF Hit, At
    <2>2. c \in Call /\ c.key = call[t].key
      BY <2>1 DEF Call, Asking
    <2>3. call' = [call EXCEPT ![t] = c] /\ UNCHANGED <<model, dir, files, builds>>
          /\ Exists(EnginePath(call[t].key))
      BY <1>3 DEF Hit
    <2>. HIDE DEF c
    <2>. QED  BY <2>2, <2>3, TypeOfQuietStep
  <1>4. ASSUME NEW t \in Thread, Miss(t) PROVE CacheTypeOK'
    <2>. DEFINE c == [call[t] EXCEPT !.pc = "missed"]
    <2>1. call[t] \in Asking
      BY <1>0, <1>4, CallShape DEF Miss, At
    <2>2. c \in Call /\ c.pc # "ready"
      BY <2>1 DEF Call, Asking
    <2>3. call' = [call EXCEPT ![t] = c] /\ UNCHANGED <<model, dir, files, builds>>
      BY <1>4 DEF Miss
    <2>. HIDE DEF c
    <2>. QED  BY <2>2, <2>3, TypeOfQuietStep
  <1>5. ASSUME NEW t \in Thread, BuildEngine(t) PROVE CacheTypeOK'
    <2>. DEFINE k == call[t].asked.key
                b == OnDisk(k.name, k.profile)
                c == [pc |-> "built", key |-> call[t].key, asked |-> call[t].asked,
                      blob |-> Len(builds')]
    <2>1. call[t].key \in Key /\ call[t].asked \in Build
      BY <1>0, <1>5, CallShape DEF BuildEngine, At
    <2>2. b \in Build
      BY <2>1, OnDiskTyped, KeyParts, BuildParts
    <2>3. builds' = Append(builds, b) /\ UNCHANGED <<model, dir, files>>
          /\ call' = [call EXCEPT ![t] = c]
      BY <1>5 DEF BuildEngine
    <2>. HIDE DEF b
    <2>4. builds' \in Seq(Build) /\ Len(builds') = Len(builds) + 1 /\ Len(builds) \in Nat
          /\ Len(builds') \in DOMAIN builds'
      BY <2>2, <2>3, AppendProperties, LenProperties DEF CacheTypeOK
    <2>5. Call \subseteq Call' /\ Content \subseteq Content'
      BY <2>3, <2>4, CallsGrow DEF CacheTypeOK
    <2>6. c \in Call' /\ c.pc # "ready"
      BY <2>1, <2>4 DEF Call, Holding
    <2>. HIDE DEF c
    <2>7. files' \in Seq(Content')
      <3>1. files \in [1 .. Len(files) -> Content] /\ Len(files) \in Nat
        BY LenProperties DEF CacheTypeOK
      <3>2. files \in [1 .. Len(files) -> Content']
        BY <2>5, <3>1
      <3>. QED  BY <2>3, <3>1, <3>2, SeqDef
    <2>8. \A u \in Thread \ {t} : At(u, "ready") => EnginePath(call[u].key) \in DOMAIN dir'
      BY <2>3 DEF CacheTypeOK, Exists
    <2>9. /\ call' \in [Thread -> Call']
          /\ \A u \in Thread : At(u, "ready")' => Exists(EnginePath(call[u].key))'
      BY <2>3, <2>5, <2>6, <2>8, TypeOfCalls
    <2>10. /\ model' \in [Name -> [graph : Version, weights : Version]]
           /\ dir' \in [DOMAIN dir' -> DOMAIN files'] /\ DOMAIN dir' \subseteq Path
      BY <2>3 DEF CacheTypeOK
    <2>. QED  BY <2>4, <2>7, <2>9, <2>10 DEF CacheTypeOK
  <1>6. ASSUME NEW t \in Thread, OpenTmp(t) PROVE CacheTypeOK'
    <2>. DEFINE c == [pc |-> "writing", key |-> call[t].key, asked |-> call[t].asked,
                      blob |-> call[t].blob, file |-> FileOf(t), off |-> 0]
                tmp == TmpPath(t, call[t].key)
    <2>1. /\ call[t] \in Holding /\ call[t].key \in Key
          /\ files' \in Seq(Content')
          /\ UNCHANGED <<model, builds>>
          /\ call' = [call EXCEPT ![t] = c]
      BY <1>6, Opened
    <2>2. DOMAIN files' = DOMAIN files \cup {FileOf(t)}
      BY <1>6, Opened
    <2>3. DOMAIN dir' = DOMAIN dir \cup {tmp}
      BY <1>6, Opened
    <2>4. dir' \in [DOMAIN dir' -> DOMAIN files']
      <3>1. dir' = [path \in DOMAIN dir \cup {tmp} |-> IF path = tmp THEN FileOf(t) ELSE dir[path]]
        BY <1>6, Opened
      <3>2. \A path \in DOMAIN dir : dir[path] \in DOMAIN files
        BY DEF CacheTypeOK
      <3>. QED  BY <2>2, <3>1, <3>2
    <2>5. DOMAIN dir' \subseteq Path
      BY <2>1, <2>3, PathsDiffer DEF CacheTypeOK
    <2>6. Call \subseteq Call'
      <3>1. builds \in Seq(Build) /\ builds' = builds /\ Len(builds) \in Nat
        BY <2>1, LenProperties DEF CacheTypeOK
      <3>. QED  BY <2>2, <3>1, CallsGrow
    <2>7. c \in Call' /\ c.pc # "ready"
      <3>1. call[t].asked \in Build /\ call[t].blob \in DOMAIN builds
        BY <2>1 DEF Holding
      <3>2. 0 \in 0 .. Chunks
        BY DEF CacheAssumption
      <3>. QED  BY <2>1, <2>2, <3>1, <3>2 DEF Call, Writing
    <2>. HIDE DEF c
    <2>8. \A u \in Thread \ {t} : At(u, "ready") => EnginePath(call[u].key) \in DOMAIN dir'
      BY <2>3 DEF CacheTypeOK, Exists
    <2>9. /\ call' \in [Thread -> Call']
          /\ \A u \in Thread : At(u, "ready")' => Exists(EnginePath(call[u].key))'
      BY <2>1, <2>6, <2>7, <2>8, TypeOfCalls
    <2>10. /\ model' \in [Name -> [graph : Version, weights : Version]]
           /\ builds' \in Seq(Build)
      BY <2>1 DEF CacheTypeOK
    <2>. QED  BY <2>1, <2>4, <2>5, <2>9, <2>10 DEF CacheTypeOK
  <1>7. ASSUME NEW t \in Thread, WriteChunk(t) PROVE CacheTypeOK'
    <2>. DEFINE c == [call[t] EXCEPT !.off = call[t].off + 1]
    <2>1. /\ call[t] \in Writing /\ call[t].off \in Nat /\ call[t].off < Chunks
          /\ files' \in Seq(Content') /\ DOMAIN files' = DOMAIN files
          /\ call' = [call EXCEPT ![t] = c]
          /\ UNCHANGED <<model, dir, builds>>
      BY <1>7, Wrote
    <2>2. Call' = Call
      BY <2>1 DEF Call, Resting, Asking, Holding, Writing, Reading, Content, Chunk
    <2>3. c \in Call /\ c.pc # "ready"
      <3>1. call[t].off + 1 \in 0 .. Chunks
        BY <2>1 DEF CacheAssumption
      <3>2. c \in Writing /\ c.pc = "writing"
        BY <2>1, <3>1, Zenon DEF Writing
      <3>. QED  BY <3>2 DEF Call
    <2>. HIDE DEF c
    <2>4. \A u \in Thread \ {t} : At(u, "ready") => EnginePath(call[u].key) \in DOMAIN dir'
      BY <2>1 DEF CacheTypeOK, Exists
    <2>5. /\ call' \in [Thread -> Call']
          /\ \A u \in Thread : At(u, "ready")' => Exists(EnginePath(call[u].key))'
      BY <2>1, <2>2, <2>3, <2>4, TypeOfCalls
    <2>6. /\ model' \in [Name -> [graph : Version, weights : Version]]
          /\ builds' \in Seq(Build)
          /\ dir' \in [DOMAIN dir' -> DOMAIN files'] /\ DOMAIN dir' \subseteq Path
      BY <2>1 DEF CacheTypeOK
    <2>. QED  BY <2>1, <2>5, <2>6 DEF CacheTypeOK
  <1>8. ASSUME NEW t \in Thread, Publish(t) PROVE CacheTypeOK'
    <2>. DEFINE c == [pc |-> "ready", key |-> call[t].key, asked |-> call[t].asked]
                tmp == TmpPath(t, call[t].key)
                path == EnginePath(call[t].key)
    <2>1. /\ call[t] \in Writing /\ call[t].key \in Key
          /\ call' = [call EXCEPT ![t] = c]
          /\ UNCHANGED <<model, files, builds>>
      BY <1>8, Published
    <2>2. /\ DOMAIN dir' = (DOMAIN dir \ {tmp}) \cup {path}
          /\ tmp \in DOMAIN dir
          /\ dir'[path] = dir[tmp]
          /\ \A p \in DOMAIN dir \ {tmp, path} : dir'[p] = dir[p]
          /\ dir' = [p \in DOMAIN dir' |-> dir'[p]]
      BY <1>8, Published
    <2>3. Call' = Call /\ Content' = Content
      BY <2>1 DEF Call, Resting, Asking, Holding, Writing, Reading, Content, Chunk
    <2>4. c \in Call /\ EnginePath(c.key) = path
      <3>1. call[t].asked \in Build
        BY <2>1 DEF Writing
      <3>. QED  BY <2>1, <3>1 DEF Call, Asking
    <2>. HIDE DEF c
    <2>5. dir' \in [DOMAIN dir' -> DOMAIN files']
      <3>1. \A p \in DOMAIN dir : dir[p] \in DOMAIN files
        BY DEF CacheTypeOK
      <3>2. \A p \in DOMAIN dir' : dir'[p] \in DOMAIN files'
        BY <2>1, <2>2, <3>1
      <3>. QED  BY <2>2, <3>2
    <2>6. DOMAIN dir' \subseteq Path
      BY <2>1, <2>2, PathsDiffer DEF CacheTypeOK
    <2>7. ASSUME NEW u \in Thread \ {t}, At(u, "ready")
          PROVE  EnginePath(call[u].key) \in DOMAIN dir'
      <3>1. EnginePath(call[u].key) \in DOMAIN dir
        BY <2>7 DEF CacheTypeOK, Exists
      <3>2. call[u].key \in Key
        BY <1>0, <2>7, CallShape DEF At
      <3>3. EnginePath(call[u].key) # tmp
        BY <2>1, <3>2, PathsDiffer
      <3>. QED  BY <2>2, <3>1, <3>3
    <2>8. path \in DOMAIN dir'
      BY <2>2
    <2>9. /\ call' \in [Thread -> Call']
          /\ \A u \in Thread : At(u, "ready")' => Exists(EnginePath(call[u].key))'
      BY <2>1, <2>3, <2>4, <2>7, <2>8, TypeOfCalls
    <2>10. /\ model' \in [Name -> [graph : Version, weights : Version]]
           /\ builds' \in Seq(Build) /\ files' \in Seq(Content')
      BY <2>1, <2>3 DEF CacheTypeOK
    <2>. QED  BY <2>5, <2>6, <2>9, <2>10 DEF CacheTypeOK
  <1>9. ASSUME NEW t \in Thread, Fail(t) \/ Return(t) PROVE CacheTypeOK'
    <2>1. call' = [call EXCEPT ![t] = Idle] /\ UNCHANGED <<model, dir, files, builds>>
      BY <1>9 DEF Fail, Return
    <2>2. Idle \in Call /\ Idle.pc # "ready"
      BY DEF Idle, Call, Resting
    <2>. QED  BY <2>1, <2>2, TypeOfQuietStep
  <1>10. ASSUME NEW t \in Thread, OpenEngine(t) PROVE CacheTypeOK'
    <2>. DEFINE path == EnginePath(call[t].key)
                c == [pc |-> "reading", key |-> call[t].key, asked |-> call[t].asked,
                      file |-> dir[path], bytes |-> <<>>]
    <2>1. call' = [call EXCEPT ![t] = c] /\ UNCHANGED <<model, dir, files, builds>>
      BY <1>10 DEF OpenEngine
    <2>2. call[t].key \in Key /\ call[t].asked \in Build
      BY <1>0, <1>10, CallShape DEF OpenEngine, At
    <2>3. dir[path] \in DOMAIN files
      <3>1. path \in DOMAIN dir
        BY <1>10 DEF OpenEngine, CacheTypeOK, Exists
      <3>. QED  BY <3>1 DEF CacheTypeOK
    <2>4. <<>> \in Content
      <3>1. <<>> \in Seq(Chunk) /\ Len(<<>>) = 0
        OBVIOUS
      <3>2. <<>> \in [1 .. 0 -> Chunk]
        BY <3>1, LenProperties
      <3>3. 0 \in 0 .. Chunks
        BY DEF CacheAssumption
      <3>. QED  BY <3>2, <3>3 DEF Content
    <2>5. c \in Call /\ c.pc # "ready"
      BY <2>2, <2>3, <2>4 DEF Call, Reading
    <2>. HIDE DEF c
    <2>. QED  BY <2>1, <2>5, TypeOfQuietStep
  <1>11. ASSUME NEW t \in Thread, ReadChunk(t) PROVE CacheTypeOK'
    <2>. DEFINE s == call[t].bytes
                f == files[call[t].file]
                c == [call[t] EXCEPT !.bytes = Append(s, f[Len(s) + 1])]
    <2>1. /\ call' = [call EXCEPT ![t] = c] /\ UNCHANGED <<model, dir, files, builds>>
          /\ Len(s) < Len(f)
      BY <1>11 DEF ReadChunk
    <2>2. call[t] \in Reading /\ s \in Content /\ f \in Content
      <3>1. call[t] \in Reading
        BY <1>0, <1>11, CallShape DEF ReadChunk, At
      <3>. QED  BY <3>1, ElementOfSeq, LenProperties DEF Reading, CacheTypeOK
    <2>3. Append(s, f[Len(s) + 1]) \in Content
      <3>1. builds \in Seq(Build)
        BY DEF CacheTypeOK
      <3>2. /\ s \in Seq(Chunk) /\ Len(s) \in Nat
            /\ f \in [1 .. Len(f) -> Chunk] /\ Len(f) \in 0 .. Chunks /\ Chunks \in Nat
        BY <2>2, <3>1, ContentIsSeq DEF CacheAssumption
      <3>. HIDE DEF s, f
      <3>3. f[Len(s) + 1] \in Chunk /\ Len(s) + 1 \in 0 .. Chunks
        BY <2>1, <3>2
      <3>4. /\ Append(s, f[Len(s) + 1]) \in Seq(Chunk)
            /\ Len(Append(s, f[Len(s) + 1])) = Len(s) + 1
        BY <3>2, <3>3, AppendProperties
      <3>5. Append(s, f[Len(s) + 1]) \in [1 .. Len(s) + 1 -> Chunk]
        BY <3>4, LenProperties
      <3>. QED  BY <3>3, <3>5 DEF Content
    <2>4. c \in Call /\ c.pc # "ready"
      <3>. HIDE DEF s, f
      <3>1. c \in Reading /\ c.pc = "reading"
        BY <1>11, <2>2, <2>3 DEF Reading, ReadChunk, At
      <3>. QED  BY <3>1 DEF Call
    <2>. HIDE DEF c
    <2>. QED  BY <2>1, <2>4, TypeOfQuietStep
  <1>12. ASSUME NEW t \in Thread, Loaded(t) PROVE CacheTypeOK'
    <2>. DEFINE c == [call[t] EXCEPT !.pc = "loaded"]
    <2>1. call[t] \in Reading
      BY <1>0, <1>12, CallShape DEF Loaded, At
    <2>2. c \in Call /\ c.pc # "ready"
      BY <2>1 DEF Call, Reading
    <2>3. call' = [call EXCEPT ![t] = c] /\ UNCHANGED <<model, dir, files, builds>>
      BY <1>12 DEF Loaded
    <2>. HIDE DEF c
    <2>. QED  BY <2>2, <2>3, TypeOfQuietStep
  <1>13. ASSUME NEW q \in Process, Crash(q) PROVE CacheTypeOK'
    <2>1. /\ call' = [t \in Thread |-> IF PidOf[t] = q THEN Idle ELSE call[t]]
          /\ UNCHANGED <<model, dir, files, builds>>
      BY <1>13 DEF Crash
    <2>2. Idle \in Call /\ Idle.pc # "ready"
      BY DEF Idle, Call, Resting
    <2>3. Call' = Call /\ Content' = Content
      BY <2>1 DEF Call, Resting, Asking, Holding, Writing, Reading, Content, Chunk
    <2>4. call' \in [Thread -> Call']
      BY <1>0, <2>1, <2>2, <2>3
    <2>5. \A u \in Thread : At(u, "ready")' => Exists(EnginePath(call[u].key))'
      BY <2>1, <2>2 DEF CacheTypeOK, At, Exists, EnginePath
    <2>6. /\ model' \in [Name -> [graph : Version, weights : Version]]
          /\ builds' \in Seq(Build) /\ files' \in Seq(Content')
          /\ dir' \in [DOMAIN dir' -> DOMAIN files'] /\ DOMAIN dir' \subseteq Path
      BY <2>1, <2>3 DEF CacheTypeOK
    <2>. QED  BY <2>4, <2>5, <2>6 DEF CacheTypeOK
  <1>14. ASSUME UNCHANGED cacheVars PROVE CacheTypeOK'
    <2>1. UNCHANGED <<model, dir, files, builds, call>>
      BY <1>14 DEF cacheVars
    <2>2. Call' = Call /\ Content' = Content
      BY <2>1 DEF Call, Resting, Asking, Holding, Writing, Reading, Content, Chunk
    <2>. QED  BY <2>1, <2>2 DEF CacheTypeOK, At, Exists, EnginePath
  <1>. QED  BY <1>1, <1>2, <1>3, <1>4, <1>5, <1>6, <1>7, <1>8, <1>9, <1>10, <1>11,
               <1>12, <1>13, <1>14 DEF CacheNext, Step

(* Whatever threads, processes, profiles and chunks there are, and however *)
(* calls interleave, fail and die: every file holds chunks of real builds, *)
(* every name a file, and a thread told its engine is ready finds it.      *)
THEOREM CacheTypes == CacheSpec => []CacheTypeOK
  <1>1. CacheInit => CacheTypeOK
    BY InitTyped, CacheAssumption
  <1>2. CacheTypeOK /\ [CacheNext]_cacheVars => CacheTypeOK'
    BY NextTyped, CacheAssumption
  <1>. QED  BY <1>1, <1>2, PTL DEF CacheSpec
-----------------------------------------------------------------------------
(* Keyed by content. CallKeyed is CallsKeyed of one call.                  *)
CallKeyed(c) ==
    /\ c.pc # "idle" => c.asked.key = c.key
    /\ c.pc \in {"keyed", "missed"} => OnDisk(c.key.name, c.key.profile) = c.asked
    /\ c.pc \in {"built", "writing"} => builds[c.blob] = c.asked
    /\ c.pc = "writing" => \A p \in DOMAIN dir : dir[p] = c.file => p.key = c.key

LEMMA CallsKeyedEach == CallsKeyed <=> \A t \in Thread : CallKeyed(call[t])
  BY DEF CallsKeyed, CallKeyed, At

LEMMA KeyedQuiet ==
    ASSUME CacheTypeOK, KeyedInv, UNCHANGED <<model, dir, files, builds>>,
           NEW t \in Thread, NEW c, call' = [call EXCEPT ![t] = c], CallKeyed(c)
    PROVE  KeyedInv'
  <1>1. (\A u \in Thread : CallKeyed(call[u]))'
    <2>1. ASSUME NEW u \in Thread PROVE CallKeyed(call'[u])
      <3>1. call'[u] = IF u = t THEN c ELSE call[u]
        BY DEF CacheTypeOK
      <3>2. CallKeyed(call[u])
        BY CallsKeyedEach DEF KeyedInv
      <3>. QED  BY <3>1, <3>2
    <2>. QED  BY <2>1 DEF CallKeyed, OnDisk
  <1>2. CallsKeyed'
    BY <1>1 DEF CallsKeyed, CallKeyed, At
  <1>3. NamesApart' /\ FilesKeyed'
    BY DEF KeyedInv, NamesApart, FilesKeyed
  <1>. QED  BY <1>2, <1>3 DEF KeyedInv

(* A chunk that is written is one of the builds. *)
LEMMA ChunksAreBuilds ==
    ASSUME CacheAssumption, CacheTypeOK, NEW i \in DOMAIN files
    PROVE  /\ files[i] \in Content
           /\ \A c \in DOMAIN files[i] : files[i][c] \in Chunk
           /\ \A c \in DOMAIN files[i] : files[i][c] # Hole => files[i][c] \in DOMAIN builds
  <1>1. files[i] \in Content
    BY ElementOfSeq, LenProperties DEF CacheTypeOK
  <1>2. files[i] \in [1 .. Len(files[i]) -> Chunk] /\ DOMAIN files[i] = 1 .. Len(files[i])
    BY <1>1, ContentIsSeq DEF CacheTypeOK
  <1>3. \A c \in DOMAIN files[i] : files[i][c] \in Chunk
    BY <1>2
  <1>4. Chunk = DOMAIN builds \cup {0}
    BY LenProperties DEF Chunk, CacheTypeOK
  <1>. QED  BY <1>1, <1>3, <1>4

LEMMA InitKeyed == CacheInit => KeyedInv
  <1>. SUFFICES ASSUME CacheInit PROVE KeyedInv
    OBVIOUS
  <1>1. DOMAIN dir = {}
    BY DEF CacheInit
  <1>. QED  BY <1>1 DEF CacheInit, KeyedInv, NamesApart, FilesKeyed, CallsKeyed, Idle, At

LEMMA NextKeyed ==
    ASSUME CacheAssumption, ~EditMidCall, CacheTypeOK, KeyedInv, [CacheNext]_cacheVars
    PROVE  KeyedInv'
  <1>0. call \in [Thread -> Call] /\ \A t \in Thread : CallKeyed(call[t])
    BY CallsKeyedEach DEF CacheTypeOK, KeyedInv
  <1>1. ASSUME NEW n \in Name, Edit(n) PROVE KeyedInv'
    <2>1. UNCHANGED <<dir, files, builds, call>>
      BY <1>1 DEF Edit
    <2>2. \A m \in Name \ {n} : model'[m] = model[m]
      <3>1. PICK v \in Version, part \in Edits : model' = [model EXCEPT ![n][part] = v]
        BY <1>1 DEF Edit
      <3>. QED  BY <3>1 DEF CacheTypeOK
    <2>3. ASSUME NEW t \in Thread PROVE CallKeyed(call[t])'
      <3>1. ASSUME call[t].pc \in {"keyed", "missed"}
            PROVE  OnDisk(call[t].key.name, call[t].key.profile)' = call[t].asked
        <4>1. call[t].key.name \in Name \ {n}
          BY <1>0, <1>1, <3>1, CallShape, KeyParts DEF Edit, CallKeyed, At
        <4>. QED  BY <1>0, <2>1, <2>2, <3>1, <4>1 DEF CallKeyed, OnDisk
      <3>. QED  BY <1>0, <2>1, <3>1 DEF CallKeyed
    <2>4. CallsKeyed'
      BY <2>3 DEF CallsKeyed, CallKeyed, At
    <2>. QED  BY <2>1, <2>4 DEF KeyedInv, NamesApart, FilesKeyed
  <1>2. ASSUME NEW t \in Thread, NEW n \in Name, NEW p \in Profile, Ask(t, n, p)
        PROVE  KeyedInv'
    <2>. DEFINE c == [pc |-> "keyed", key |-> KeyOf(n, p), asked |-> OnDisk(n, p)]
    <2>1. OnDisk(n, p).key = KeyOf(n, p) /\ KeyOf(n, p).name = n /\ KeyOf(n, p).profile = p
      BY DEF KeyOf, OnDisk
    <2>2. CallKeyed(c)
      BY <2>1 DEF CallKeyed
    <2>3. call' = [call EXCEPT ![t] = c] /\ UNCHANGED <<model, dir, files, builds>>
      BY <1>2 DEF Ask
    <2>. HIDE DEF c
    <2>. QED  BY <2>2, <2>3, KeyedQuiet
  <1>3. ASSUME NEW t \in Thread, Hit(t) PROVE KeyedInv'
    <2>. DEFINE c == [call[t] EXCEPT !.pc = "ready"]
    <2>1. call[t] \in Asking /\ call[t].asked.key = call[t].key
      BY <1>0, <1>3, CallShape DEF Hit, At, CallKeyed
    <2>2. CallKeyed(c)
      BY <2>1 DEF CallKeyed, Asking
    <2>3. call' = [call EXCEPT ![t] = c] /\ UNCHANGED <<model, dir, files, builds>>
      BY <1>3 DEF Hit
    <2>. HIDE DEF c
    <2>. QED  BY <2>2, <2>3, KeyedQuiet
  <1>4. ASSUME NEW t \in Thread, Miss(t) PROVE KeyedInv'
    <2>. DEFINE c == [call[t] EXCEPT !.pc = "missed"]
    <2>1. call[t] \in Asking /\ call[t].asked.key = call[t].key
          /\ OnDisk(call[t].key.name, call[t].key.profile) = call[t].asked
      BY <1>0, <1>4, CallShape DEF Miss, At, CallKeyed
    <2>2. CallKeyed(c)
      BY <2>1 DEF CallKeyed, Asking
    <2>3. call' = [call EXCEPT ![t] = c] /\ UNCHANGED <<model, dir, files, builds>>
      BY <1>4 DEF Miss
    <2>. HIDE DEF c
    <2>. QED  BY <2>2, <2>3, KeyedQuiet
  <1>5. ASSUME NEW t \in Thread, BuildEngine(t) PROVE KeyedInv'
    <2>. DEFINE b == call[t].asked
                c == [pc |-> "built", key |-> call[t].key, asked |-> b,
                      blob |-> Len(builds')]
    <2>1. call[t].key = b.key /\ OnDisk(b.key.name, b.key.profile) = b /\ b \in Build
      BY <1>0, <1>5, CallShape DEF BuildEngine, At, CallKeyed
    <2>2. builds' = Append(builds, b) /\ UNCHANGED <<model, dir, files>>
          /\ call' = [call EXCEPT ![t] = c]
      BY <1>5, <2>1 DEF BuildEngine
    <2>. HIDE DEF b
    <2>3. /\ builds \in Seq(Build)
          /\ Len(builds') \in DOMAIN builds' /\ builds'[Len(builds')] = b
          /\ \A i \in DOMAIN builds : builds'[i] = builds[i]
      BY <2>1, <2>2, AppendProperties, LenProperties DEF CacheTypeOK
    <2>4. FilesKeyed'
      <3>1. ASSUME NEW p \in DOMAIN dir, NEW i \in DOMAIN files[dir[p]], files[dir[p]][i] # Hole
            PROVE  builds'[files[dir[p]][i]].key = p.key
        <4>1. dir[p] \in DOMAIN files
          BY DEF CacheTypeOK
        <4>2. files[dir[p]][i] \in DOMAIN builds
          BY <3>1, <4>1, ChunksAreBuilds
        <4>. QED  BY <2>3, <3>1, <4>2 DEF KeyedInv, FilesKeyed
      <3>2. dir' = dir /\ files' = files
        BY <2>2
      <3>. QED  BY <3>1, <3>2, Zenon DEF FilesKeyed
    <2>5. ASSUME NEW u \in Thread PROVE CallKeyed(call[u])'
      <3>1. CASE u = t
        <4>1. call'[u] = c
          BY <1>0, <2>2, <3>1
        <4>2. /\ c.pc = "built" /\ c.asked = b /\ c.key = b.key
              /\ c.blob = Len(builds')
          BY <2>1 DEF b
        <4>. HIDE DEF c
        <4>. QED  BY <2>3, <4>1, <4>2 DEF CallKeyed
      <3>2. CASE u # t
        <4>1. call'[u] = call[u]
          BY <1>0, <2>2, <3>2
        <4>2. call[u].pc \in {"built", "writing"} => call[u].blob \in DOMAIN builds
          BY <1>0, CallShape DEF At
        <4>. QED  BY <1>0, <2>2, <2>3, <4>1, <4>2 DEF CallKeyed, OnDisk
      <3>. QED  BY <3>1, <3>2
    <2>6. CallsKeyed'
      BY <2>5 DEF CallsKeyed, CallKeyed, At
    <2>. QED  BY <2>2, <2>4, <2>6 DEF KeyedInv, NamesApart
  <1>6. ASSUME NEW t \in Thread, OpenTmp(t) PROVE KeyedInv'
    <2>. DEFINE c == [pc |-> "writing", key |-> call[t].key, asked |-> call[t].asked,
                      blob |-> call[t].blob, file |-> FileOf(t), off |-> 0]
                tmp == TmpPath(t, call[t].key)
    <2>1. /\ call[t] \in Holding /\ call[t].key \in Key
          /\ UNCHANGED <<model, builds>>
          /\ call' = [call EXCEPT ![t] = c]
      BY <1>6, Opened
    <2>2. /\ files' = [i \in DOMAIN files \cup {FileOf(t)} |->
                          IF i = FileOf(t) THEN <<>> ELSE files[i]]
          /\ dir' = [path \in DOMAIN dir \cup {tmp} |->
                        IF path = tmp THEN FileOf(t) ELSE dir[path]]
          /\ tmp \in DOMAIN dir => FileOf(t) = dir[tmp]
          /\ tmp \notin DOMAIN dir => FileOf(t) \notin DOMAIN files
      BY <1>6, Opened DEF Exists
    <2>3. \A p \in DOMAIN dir : dir[p] \in DOMAIN files
      BY DEF CacheTypeOK
    <2>4. tmp.key = call[t].key
      BY <2>1, PathsDiffer
    <2>. HIDE DEF tmp
    <2>5. \A p \in DOMAIN dir' : dir'[p] = FileOf(t) => p = tmp
      BY <2>2, <2>3 DEF KeyedInv, NamesApart
    <2>6. NamesApart'
      BY <2>2, <2>3, <2>5 DEF KeyedInv, NamesApart
    <2>7. FilesKeyed'
      <3>1. ASSUME NEW p \in DOMAIN dir', NEW i \in DOMAIN files'[dir'[p]], files'[dir'[p]][i] # Hole
            PROVE  builds[files'[dir'[p]][i]].key = p.key
        <4>1. CASE p = tmp
          <5>1. files'[dir'[p]] = <<>>
            BY <2>2, <4>1
          <5>. QED  BY <3>1, <5>1
        <4>2. CASE p # tmp
          <5>1. p \in DOMAIN dir /\ dir'[p] = dir[p] /\ files'[dir[p]] = files[dir[p]]
            BY <2>2, <2>3, <2>5, <4>2
          <5>. QED  BY <3>1, <5>1 DEF KeyedInv, FilesKeyed
        <4>. QED  BY <4>1, <4>2
      <3>. QED  BY <2>1, <3>1 DEF FilesKeyed
    <2>8. ASSUME NEW u \in Thread PROVE CallKeyed(call[u])'
      <3>1. CASE u = t
        <4>1. call'[u] = c
          BY <1>0, <2>1, <3>1
        <4>2. /\ c.pc = "writing" /\ c.asked = call[t].asked /\ c.key = call[t].key
              /\ c.blob = call[t].blob /\ c.file = FileOf(t)
          OBVIOUS
        <4>3. call[t].pc = "built"
          BY <2>1 DEF Holding
        <4>. HIDE DEF c
        <4>. QED  BY <1>0, <2>1, <2>4, <2>5, <4>1, <4>2, <4>3 DEF CallKeyed
      <3>2. CASE u # t
        <4>1. call'[u] = call[u]
          BY <1>0, <2>1, <3>2
        <4>2. ASSUME call[u].pc = "writing", NEW p \in DOMAIN dir', dir'[p] = call[u].file
              PROVE  p.key = call[u].key
          <5>1. call[u].file \in DOMAIN files
            BY <1>0, <4>2, CallShape DEF At
          <5>2. p \in DOMAIN dir /\ dir[p] = call[u].file
            BY <2>2, <4>2, <5>1
          <5>. QED  BY <1>0, <4>2, <5>2 DEF CallKeyed
        <4>. QED  BY <1>0, <2>1, <4>1, <4>2 DEF CallKeyed, OnDisk
      <3>. QED  BY <3>1, <3>2
    <2>9. CallsKeyed'
      BY <2>8 DEF CallsKeyed, CallKeyed, At
    <2>. QED  BY <2>6, <2>7, <2>9 DEF KeyedInv
  <1>7. ASSUME NEW t \in Thread, WriteChunk(t) PROVE KeyedInv'
    <2>. DEFINE c == [call[t] EXCEPT !.off = call[t].off + 1]
                f == call[t].file
                w == Written(files[f], call[t].off, call[t].blob)
    <2>1. /\ call[t] \in Writing /\ f \in DOMAIN files
          /\ files' = [files EXCEPT ![f] = w]
          /\ call' = [call EXCEPT ![t] = c]
          /\ UNCHANGED <<model, dir, builds>>
      BY <1>7, Wrote
    <2>2. call[t].pc = "writing"
      BY <2>1 DEF Writing
    <2>3. \A i \in DOMAIN w : w[i] # Hole =>
             \/ w[i] = call[t].blob
             \/ i \in DOMAIN files[f] /\ w[i] = files[f][i]
      BY WrittenChunks
    <2>. HIDE DEF w
    <2>4. FilesKeyed'
      <3>1. ASSUME NEW p \in DOMAIN dir, NEW i \in DOMAIN files'[dir[p]], files'[dir[p]][i] # Hole
            PROVE  builds[files'[dir[p]][i]].key = p.key
        <4>1. dir[p] \in DOMAIN files
          BY DEF CacheTypeOK
        <4>2. CASE dir[p] = f
          <5>1. files'[dir[p]] = w
            BY <2>1, <4>2 DEF CacheTypeOK
          <5>2. p.key = call[t].key /\ builds[call[t].blob].key = call[t].key
            BY <1>0, <2>2, <4>2 DEF CallKeyed
          <5>. QED  BY <2>3, <3>1, <4>2, <5>1, <5>2 DEF KeyedInv, FilesKeyed
        <4>3. CASE dir[p] # f
          <5>1. files'[dir[p]] = files[dir[p]]
            BY <2>1, <4>1, <4>3 DEF CacheTypeOK
          <5>. QED  BY <3>1, <5>1 DEF KeyedInv, FilesKeyed
        <4>. QED  BY <4>2, <4>3
      <3>. QED  BY <2>1, <3>1 DEF FilesKeyed
    <2>5. ASSUME NEW u \in Thread PROVE CallKeyed(call[u])'
      <3>1. /\ call'[u].pc = call[u].pc /\ call'[u].key = call[u].key
            /\ call'[u].asked = call[u].asked /\ call'[u].blob = call[u].blob
            /\ call'[u].file = call[u].file
        <4>1. call'[u] = IF u = t THEN c ELSE call[u]
          BY <1>0, <2>1
        <4>2. /\ c.pc = call[t].pc /\ c.key = call[t].key
              /\ c.asked = call[t].asked /\ c.blob = call[t].blob /\ c.file = call[t].file
          BY <2>1 DEF Writing
        <4>. HIDE DEF c
        <4>. QED  BY <4>1, <4>2
      <3>. QED  BY <1>0, <2>1, <3>1 DEF CallKeyed, OnDisk
    <2>6. CallsKeyed'
      BY <2>5 DEF CallsKeyed, CallKeyed, At
    <2>. QED  BY <2>1, <2>4, <2>6 DEF KeyedInv, NamesApart
  <1>8. ASSUME NEW t \in Thread, Publish(t) PROVE KeyedInv'
    <2>. DEFINE c == [pc |-> "ready", key |-> call[t].key, asked |-> call[t].asked]
                tmp == TmpPath(t, call[t].key)
                path == EnginePath(call[t].key)
    <2>1. /\ call[t] \in Writing /\ call[t].key \in Key
          /\ call' = [call EXCEPT ![t] = c]
          /\ UNCHANGED <<model, files, builds>>
      BY <1>8, Published
    <2>2. /\ DOMAIN dir' = (DOMAIN dir \ {tmp}) \cup {path}
          /\ tmp \in DOMAIN dir
          /\ dir'[path] = dir[tmp]
          /\ \A p \in DOMAIN dir \ {tmp, path} : dir'[p] = dir[p]
      BY <1>8, Published
    <2>3. tmp.key = path.key
      BY <2>1, PathsDiffer
    <2>. HIDE DEF tmp, path
    <2>4. NamesApart'
      BY <2>2 DEF KeyedInv, NamesApart
    <2>5. FilesKeyed'
      BY <2>1, <2>2, <2>3 DEF KeyedInv, FilesKeyed
    <2>6. ASSUME NEW u \in Thread PROVE CallKeyed(call[u])'
      <3>1. CASE u = t
        <4>1. call'[u] = c
          BY <1>0, <2>1, <3>1
        <4>2. /\ c.pc = "ready" /\ c.asked = call[t].asked /\ c.key = call[t].key
          OBVIOUS
        <4>3. call[t].pc = "writing"
          BY <2>1 DEF Writing
        <4>. HIDE DEF c
        <4>. QED  BY <1>0, <4>1, <4>2, <4>3 DEF CallKeyed
      <3>2. CASE u # t
        <4>1. call'[u] = call[u]
          BY <1>0, <2>1, <3>2
        <4>2. call[u].pc = "writing" => \A p \in DOMAIN dir' : dir'[p] = call[u].file => p.key = call[u].key
          BY <1>0, <2>2, <2>3 DEF CallKeyed
        <4>. QED  BY <1>0, <2>1, <4>1, <4>2 DEF CallKeyed, OnDisk
      <3>. QED  BY <3>1, <3>2
    <2>7. CallsKeyed'
      BY <2>6 DEF CallsKeyed, CallKeyed, At
    <2>. QED  BY <2>4, <2>5, <2>7 DEF KeyedInv
  <1>9. ASSUME NEW t \in Thread, Fail(t) \/ Return(t) PROVE KeyedInv'
    <2>1. call' = [call EXCEPT ![t] = Idle] /\ UNCHANGED <<model, dir, files, builds>>
      BY <1>9 DEF Fail, Return
    <2>2. CallKeyed(Idle)
      BY DEF Idle, CallKeyed
    <2>. QED  BY <2>1, <2>2, KeyedQuiet
  <1>10. ASSUME NEW t \in Thread, OpenEngine(t) PROVE KeyedInv'
    <2>. DEFINE c == [pc |-> "reading", key |-> call[t].key, asked |-> call[t].asked,
                      file |-> dir[EnginePath(call[t].key)], bytes |-> <<>>]
    <2>1. call' = [call EXCEPT ![t] = c] /\ UNCHANGED <<model, dir, files, builds>>
      BY <1>10 DEF OpenEngine
    <2>2. CallKeyed(c)
      BY <1>0, <1>10 DEF OpenEngine, At, CallKeyed
    <2>. HIDE DEF c
    <2>. QED  BY <2>1, <2>2, KeyedQuiet
  <1>11. ASSUME NEW t \in Thread, ReadChunk(t) PROVE KeyedInv'
    <2>. DEFINE s == Append(call[t].bytes, files[call[t].file][Len(call[t].bytes) + 1])
                c == [call[t] EXCEPT !.bytes = s]
    <2>1. call' = [call EXCEPT ![t] = c] /\ UNCHANGED <<model, dir, files, builds>>
      BY <1>11 DEF ReadChunk
    <2>2. call[t] \in Reading /\ call[t].asked.key = call[t].key /\ call[t].pc = "reading"
      BY <1>0, <1>11, CallShape DEF ReadChunk, At, CallKeyed
    <2>. HIDE DEF s
    <2>3. CallKeyed(c)
      BY <2>2 DEF CallKeyed, Reading
    <2>. HIDE DEF c
    <2>. QED  BY <2>1, <2>3, KeyedQuiet
  <1>12. ASSUME NEW t \in Thread, Loaded(t) PROVE KeyedInv'
    <2>. DEFINE c == [call[t] EXCEPT !.pc = "loaded"]
    <2>1. call' = [call EXCEPT ![t] = c] /\ UNCHANGED <<model, dir, files, builds>>
      BY <1>12 DEF Loaded
    <2>2. call[t] \in Reading /\ call[t].asked.key = call[t].key
      BY <1>0, <1>12, CallShape DEF Loaded, At, CallKeyed
    <2>3. CallKeyed(c)
      BY <2>2 DEF CallKeyed, Reading
    <2>. HIDE DEF c
    <2>. QED  BY <2>1, <2>3, KeyedQuiet
  <1>13. ASSUME NEW q \in Process, Crash(q) PROVE KeyedInv'
    <2>1. /\ call' = [t \in Thread |-> IF PidOf[t] = q THEN Idle ELSE call[t]]
          /\ UNCHANGED <<model, dir, files, builds>>
      BY <1>13 DEF Crash
    <2>2. CallKeyed(Idle)
      BY DEF Idle, CallKeyed
    <2>3. (\A t \in Thread : CallKeyed(call[t]))'
      BY <1>0, <2>1, <2>2 DEF CallKeyed, OnDisk
    <2>4. CallsKeyed'
      BY <2>3 DEF CallsKeyed, CallKeyed, At
    <2>. QED  BY <2>1, <2>4 DEF KeyedInv, NamesApart, FilesKeyed
  <1>14. ASSUME UNCHANGED cacheVars PROVE KeyedInv'
    BY <1>14 DEF cacheVars, KeyedInv, NamesApart, FilesKeyed, CallsKeyed, At, OnDisk
  <1>. QED  BY <1>1, <1>2, <1>3, <1>4, <1>5, <1>6, <1>7, <1>8, <1>9, <1>10, <1>11,
               <1>12, <1>13, <1>14 DEF CacheNext, Step

(* If nobody exports a model anew between the hash and the build of a call,*)
(* what stands under a key was built from the graph and the profile of that*)
(* key, for any number of threads in any processes: of one process too,    *)
(* whose threads write one tmp file.                                       *)
THEOREM FilesOfTheirKey ==
    ASSUME ~EditMidCall
    PROVE  CacheSpec => []KeyedByContent
  <1>1. CacheInit => CacheTypeOK /\ KeyedInv
    BY InitTyped, InitKeyed, CacheAssumption
  <1>2. CacheTypeOK /\ KeyedInv /\ [CacheNext]_cacheVars => (CacheTypeOK /\ KeyedInv)'
    BY NextTyped, NextKeyed, CacheAssumption
  <1>3. KeyedInv => KeyedByContent
    <2>. SUFFICES ASSUME KeyedInv, NEW k \in Key, Exists(EnginePath(k)),
                         NEW c \in DOMAIN files[dir[EnginePath(k)]],
                         files[dir[EnginePath(k)]][c] # Hole
                  PROVE  builds[files[dir[EnginePath(k)]][c]].key = k
      BY DEF KeyedByContent
    <2>1. EnginePath(k).key = k
      BY DEF EnginePath
    <2>. QED  BY <2>1 DEF KeyedInv, FilesKeyed, Exists
  <1>. QED  BY <1>1, <1>2, <1>3, PTL DEF CacheSpec
-----------------------------------------------------------------------------
(* Whole. The rest is of a thread to a process: no two share a tmp name.   *)
ThreadPerProcess == \A t, u \in Thread : PidOf[t] = PidOf[u] => t = u

(* OwnTmp and ReadersHold of one call. *)
OwnsTmp(t, c) ==
    c.pc = "writing" =>
        /\ TmpPath(t, c.key) \in DOMAIN dir
        /\ dir[TmpPath(t, c.key)] = c.file
        /\ files[c.file] = [i \in 1 .. c.off |-> c.blob]

ReaderHolds(c) ==
    c.pc \in {"reading", "loaded"} =>
        /\ WholeContent(files[c.file])
        /\ \A u \in Thread, k \in Key :
              TmpPath(u, k) \in DOMAIN dir => dir[TmpPath(u, k)] # c.file
        /\ \A i \in DOMAIN c.bytes : c.bytes[i] = files[c.file][i]
        /\ c.pc = "loaded" => Len(c.bytes) = Chunks

LEMMA WholeEach ==
    WholeInv <=> /\ NamesApart /\ PublishedWhole
                 /\ \A t \in Thread : OwnsTmp(t, call[t]) /\ ReaderHolds(call[t])
  BY DEF WholeInv, OwnTmp, ReadersHold, OwnsTmp, ReaderHolds, At

LEMMA WholeEachPrimed ==
    ASSUME NamesApart', PublishedWhole',
           \A t \in Thread : OwnsTmp(t, call[t])' /\ ReaderHolds(call[t])'
    PROVE  WholeInv'
  BY DEF WholeInv, OwnTmp, ReadersHold, OwnsTmp, ReaderHolds, At

LEMMA WholeQuiet ==
    ASSUME CacheTypeOK, WholeInv, UNCHANGED <<dir, files>>,
           NEW t \in Thread, NEW c, call' = [call EXCEPT ![t] = c],
           c.pc # "writing", ReaderHolds(c)
    PROVE  WholeInv'
  <1>1. NamesApart' /\ PublishedWhole'
    BY DEF WholeInv, NamesApart, PublishedWhole, Exists, EnginePath, WholeContent
  <1>2. ASSUME NEW u \in Thread PROVE OwnsTmp(u, call[u])' /\ ReaderHolds(call[u])'
    <2>1. call'[u] = IF u = t THEN c ELSE call[u]
      BY DEF CacheTypeOK
    <2>2. OwnsTmp(u, call[u]) /\ ReaderHolds(call[u])
      BY WholeEach
    <2>3. dir' = dir /\ files' = files
      OBVIOUS
    <2>4. OwnsTmp(u, call[u])'
      BY <2>1, <2>2, <2>3 DEF OwnsTmp
    <2>5. ReaderHolds(call[u])'
      BY <2>1, <2>2, <2>3 DEF ReaderHolds
    <2>. QED  BY <2>4, <2>5
  <1>. QED  BY <1>1, <1>2, WholeEachPrimed

LEMMA InitWhole == CacheInit => WholeInv
  <1>. SUFFICES ASSUME CacheInit PROVE WholeInv
    OBVIOUS
  <1>1. DOMAIN dir = {}
    BY DEF CacheInit
  <1>. QED  BY <1>1 DEF CacheInit, WholeInv, NamesApart, PublishedWhole, Exists,
                        OwnTmp, ReadersHold, Idle, At

(* A file written by its owner alone. *)
LEMMA EmptyIsStart == ASSUME NEW b PROVE <<>> = [i \in 1 .. 0 |-> b]
  <1>1. [i \in 1 .. 0 |-> b] \in [1 .. 0 -> {b}]
    OBVIOUS
  <1>2. [i \in 1 .. 0 |-> b] \in Seq({b})
    BY <1>1, SeqDef
  <1>3. Len([i \in 1 .. 0 |-> b]) = 0
    BY <1>1, <1>2, LenProperties
  <1>. QED  BY <1>2, <1>3, EmptySeq

LEMMA NextChunk ==
    ASSUME NEW off \in Nat, NEW b
    PROVE  Written([i \in 1 .. off |-> b], off, b) = [i \in 1 .. off + 1 |-> b]
  <1>1. 1 .. off \cup 1 .. off + 1 = 1 .. off + 1
    OBVIOUS
  <1>2. \A c \in 1 .. off + 1 : c = off + 1 \/ c \in 1 .. off
    OBVIOUS
  <1>. QED  BY <1>1, <1>2 DEF Written

LEMMA AllChunks ==
    ASSUME CacheAssumption, NEW b, b # Hole
    PROVE  WholeContent([i \in 1 .. Chunks |-> b])
  <1>. DEFINE s == [i \in 1 .. Chunks |-> b]
  <1>1. Chunks \in Nat /\ 1 \in 1 .. Chunks
    BY DEF CacheAssumption
  <1>2. s \in Seq({b})
    <2>1. s \in [1 .. Chunks -> {b}]
      OBVIOUS
    <2>. QED  BY <1>1, <2>1, SeqDef
  <1>3. Len(s) = Chunks
    BY <1>1, <1>2, LenProperties
  <1>. QED  BY <1>1, <1>3 DEF WholeContent

(* No step writes a file somebody reads. *)
LEMMA ReadersUndisturbed ==
    ASSUME CacheAssumption, ThreadPerProcess, CacheTypeOK, WholeInv,
           NEW t \in Thread, OpenTmp(t) \/ WriteChunk(t),
           NEW u \in Thread, call[u].pc \in {"reading", "loaded"}
    PROVE  /\ call[u].file \in DOMAIN files
           /\ files'[call[u].file] = files[call[u].file]
           /\ OpenTmp(t) => call[u].file # FileOf(t)
           /\ WriteChunk(t) => call[u].file # call[t].file
  <1>1. call[u].file \in DOMAIN files
    BY CallShape DEF CacheTypeOK, At
  <1>2. \A k \in Key : TmpPath(t, k) \in DOMAIN dir => dir[TmpPath(t, k)] # call[u].file
    BY WholeEach DEF ReaderHolds
  <1>3. CASE OpenTmp(t)
    <2>1. call[u].file # FileOf(t)
      <3>1. /\ call[t].key \in Key
            /\ TmpPath(t, call[t].key) \in DOMAIN dir => FileOf(t) = dir[TmpPath(t, call[t].key)]
            /\ TmpPath(t, call[t].key) \notin DOMAIN dir => FileOf(t) \notin DOMAIN files
        BY <1>3, Opened DEF Exists
      <3>. QED  BY <1>1, <1>2, <3>1
    <2>2. files' = [i \in DOMAIN files \cup {FileOf(t)} |-> IF i = FileOf(t) THEN <<>> ELSE files[i]]
      BY <1>3, Opened
    <2>3. ~WriteChunk(t)
      BY <1>3 DEF OpenTmp, WriteChunk, At
    <2>. QED  BY <1>1, <2>1, <2>2, <2>3
  <1>4. CASE WriteChunk(t)
    <2>1. call[t].file # call[u].file
      <3>1. call[t].pc = "writing" /\ call[t].key \in Key
        BY <1>4, Wrote DEF WriteChunk, At
      <3>2. /\ TmpPath(t, call[t].key) \in DOMAIN dir
            /\ dir[TmpPath(t, call[t].key)] = call[t].file
        BY <3>1, WholeEach DEF OwnsTmp
      <3>. QED  BY <1>2, <3>1, <3>2
    <2>2. \E w : files' = [files EXCEPT ![call[t].file] = w]
      BY <1>4, Wrote
    <2>3. ~OpenTmp(t)
      BY <1>4 DEF OpenTmp, WriteChunk, At
    <2>. QED  BY <1>1, <2>1, <2>2, <2>3 DEF CacheTypeOK
  <1>. QED  BY <1>3, <1>4

LEMMA NextWhole ==
    ASSUME CacheAssumption, ThreadPerProcess, CacheTypeOK, WholeInv, [CacheNext]_cacheVars
    PROVE  WholeInv'
  <1>0. /\ call \in [Thread -> Call] /\ NamesApart /\ PublishedWhole
        /\ \A t \in Thread : OwnsTmp(t, call[t]) /\ ReaderHolds(call[t])
        /\ \A p \in DOMAIN dir : dir[p] \in DOMAIN files
    BY WholeEach DEF CacheTypeOK
  <1>1. ASSUME NEW n \in Name, Edit(n) PROVE WholeInv'
    <2>1. UNCHANGED <<dir, files, builds, call>>
      BY <1>1 DEF Edit
    <2>. QED  BY <2>1 DEF WholeInv, NamesApart, PublishedWhole, OwnTmp, ReadersHold,
                          At, Exists, EnginePath, TmpPath, WholeContent
  <1>2. ASSUME NEW t \in Thread, NEW n \in Name, NEW p \in Profile, Ask(t, n, p)
        PROVE  WholeInv'
    <2>. DEFINE c == [pc |-> "keyed", key |-> KeyOf(n, p), asked |-> OnDisk(n, p)]
    <2>1. call' = [call EXCEPT ![t] = c] /\ UNCHANGED <<dir, files>> /\ c.pc = "keyed"
      BY <1>2 DEF Ask
    <2>. HIDE DEF c
    <2>2. ReaderHolds(c)
      BY <2>1 DEF ReaderHolds
    <2>. QED  BY <2>1, <2>2, WholeQuiet
  <1>3. ASSUME NEW t \in Thread, Hit(t) PROVE WholeInv'
    <2>. DEFINE c == [call[t] EXCEPT !.pc = "ready"]
    <2>1. call[t] \in Asking
      BY <1>0, <1>3, CallShape DEF Hit, At
    <2>2. c.pc = "ready"
      BY <2>1 DEF Asking
    <2>3. call' = [call EXCEPT ![t] = c] /\ UNCHANGED <<dir, files>>
      BY <1>3 DEF Hit
    <2>. HIDE DEF c
    <2>4. ReaderHolds(c)
      BY <2>2 DEF ReaderHolds
    <2>. QED  BY <2>2, <2>3, <2>4, WholeQuiet
  <1>4. ASSUME NEW t \in Thread, Miss(t) PROVE WholeInv'
    <2>. DEFINE c == [call[t] EXCEPT !.pc = "missed"]
    <2>1. call[t] \in Asking
      BY <1>0, <1>4, CallShape DEF Miss, At
    <2>2. c.pc = "missed"
      BY <2>1 DEF Asking
    <2>3. call' = [call EXCEPT ![t] = c] /\ UNCHANGED <<dir, files>>
      BY <1>4 DEF Miss
    <2>. HIDE DEF c
    <2>4. ReaderHolds(c)
      BY <2>2 DEF ReaderHolds
    <2>. QED  BY <2>2, <2>3, <2>4, WholeQuiet
  <1>5. ASSUME NEW t \in Thread, BuildEngine(t) PROVE WholeInv'
    <2>. DEFINE c == [pc |-> "built", key |-> call[t].key, asked |-> call[t].asked,
                      blob |-> Len(builds')]
    <2>1. call' = [call EXCEPT ![t] = c] /\ UNCHANGED <<dir, files>> /\ c.pc = "built"
      BY <1>5 DEF BuildEngine
    <2>. HIDE DEF c
    <2>2. ReaderHolds(c)
      BY <2>1 DEF ReaderHolds
    <2>. QED  BY <2>1, <2>2, WholeQuiet
  <1>6. ASSUME NEW t \in Thread, OpenTmp(t) PROVE WholeInv'
    <2>. DEFINE at == FileOf(t)
                tmp == TmpPath(t, call[t].key)
                c == [pc |-> "writing", key |-> call[t].key, asked |-> call[t].asked,
                      blob |-> call[t].blob, file |-> at, off |-> 0]
    <2>1. /\ call[t] \in Holding /\ call[t].key \in Key
          /\ call' = [call EXCEPT ![t] = c]
      BY <1>6, Opened
    <2>2. /\ files' = [i \in DOMAIN files \cup {at} |-> IF i = at THEN <<>> ELSE files[i]]
          /\ dir' = [path \in DOMAIN dir \cup {tmp} |-> IF path = tmp THEN at ELSE dir[path]]
          /\ tmp \in DOMAIN dir => at = dir[tmp]
          /\ tmp \notin DOMAIN dir => at \notin DOMAIN files
      BY <1>6, Opened DEF Exists
    <2>3. \A k \in Key : EnginePath(k) # tmp
      BY <2>1, PathsDiffer
    <2>4. \A u \in Thread, k \in Key : TmpPath(u, k) = tmp => u = t
      BY <2>1, PathsDiffer DEF ThreadPerProcess
    <2>5. ASSUME NEW u \in Thread, call[u].pc \in {"reading", "loaded"}
          PROVE  call[u].file # at /\ files'[call[u].file] = files[call[u].file]
      BY <1>6, <2>5, ReadersUndisturbed
    <2>. HIDE DEF at, tmp
    <2>6. \A p \in DOMAIN dir' : dir'[p] = at => p = tmp
      BY <1>0, <2>2 DEF NamesApart
    <2>7. NamesApart'
      BY <1>0, <2>2, <2>6 DEF NamesApart
    <2>8. PublishedWhole'
      <3>1. ASSUME NEW k \in Key, EnginePath(k) \in DOMAIN dir'
            PROVE  WholeContent(files'[dir'[EnginePath(k)]])
        <4>1. /\ EnginePath(k) \in DOMAIN dir /\ dir'[EnginePath(k)] = dir[EnginePath(k)]
              /\ dir[EnginePath(k)] # at
          BY <2>2, <2>3, <2>6, <3>1
        <4>2. files'[dir[EnginePath(k)]] = files[dir[EnginePath(k)]]
          BY <1>0, <2>2, <4>1
        <4>. QED  BY <1>0, <4>1, <4>2 DEF PublishedWhole, Exists
      <3>. QED  BY <3>1 DEF PublishedWhole, Exists
    <2>9. ASSUME NEW u \in Thread PROVE OwnsTmp(u, call[u])' /\ ReaderHolds(call[u])'
      <3>1. CASE u = t
        <4>1. call'[u] = c
          BY <1>0, <2>1, <3>1
        <4>2. c.pc = "writing" /\ c.key = call[t].key /\ c.file = at /\ c.off = 0
          OBVIOUS
        <4>. HIDE DEF c
        <4>3. files'[c.file] = [i \in 1 .. c.off |-> c.blob]
          BY <2>2, <4>2, EmptyIsStart
        <4>4. OwnsTmp(u, call[u])'
          BY <2>2, <3>1, <4>1, <4>2, <4>3 DEF OwnsTmp, tmp
        <4>. QED  BY <4>1, <4>2, <4>4 DEF ReaderHolds
      <3>2. CASE u # t
        <4>1. call'[u] = call[u]
          BY <1>0, <2>1, <3>2
        <4>2. ASSUME call[u].pc = "writing"
              PROVE  /\ TmpPath(u, call[u].key) \in DOMAIN dir'
                     /\ dir'[TmpPath(u, call[u].key)] = call[u].file
                     /\ files'[call[u].file] = files[call[u].file]
          <5>1. call[u].key \in Key
            BY <1>0, <4>2, CallShape DEF At
          <5>2. /\ TmpPath(u, call[u].key) \in DOMAIN dir \ {tmp}
                /\ dir[TmpPath(u, call[u].key)] = call[u].file
            BY <1>0, <2>4, <3>2, <4>2, <5>1 DEF OwnsTmp
          <5>. QED  BY <1>0, <2>2, <2>6, <5>2
        <4>3. OwnsTmp(u, call[u])'
          BY <1>0, <4>1, <4>2 DEF OwnsTmp
        <4>4. ASSUME call[u].pc \in {"reading", "loaded"}, NEW v \in Thread, NEW k \in Key,
                     TmpPath(v, k) \in DOMAIN dir'
              PROVE  dir'[TmpPath(v, k)] # call[u].file
          BY <1>0, <2>2, <2>5, <4>4 DEF ReaderHolds
        <4>5. ReaderHolds(call[u])'
          BY <1>0, <2>5, <4>1, <4>4 DEF ReaderHolds
        <4>. QED  BY <4>3, <4>5
      <3>. QED  BY <3>1, <3>2
    <2>. QED  BY <2>7, <2>8, <2>9, WholeEachPrimed
  <1>7. ASSUME NEW t \in Thread, WriteChunk(t) PROVE WholeInv'
    <2>. DEFINE c == [call[t] EXCEPT !.off = call[t].off + 1]
                f == call[t].file
                w == Written(files[f], call[t].off, call[t].blob)
                tmp == TmpPath(t, call[t].key)
    <2>1. /\ call[t] \in Writing /\ call[t].key \in Key /\ f \in DOMAIN files
          /\ call[t].off \in Nat
          /\ files' = [files EXCEPT ![f] = w]
          /\ call' = [call EXCEPT ![t] = c]
          /\ dir' = dir
      BY <1>7, Wrote
    <2>2. /\ tmp \in DOMAIN dir /\ dir[tmp] = f
          /\ files[f] = [i \in 1 .. call[t].off |-> call[t].blob]
      BY <1>0, <1>7 DEF WriteChunk, At, OwnsTmp
    <2>3. w = [i \in 1 .. call[t].off + 1 |-> call[t].blob]
      <3>1. Written([i \in 1 .. call[t].off |-> call[t].blob], call[t].off, call[t].blob)
              = [i \in 1 .. call[t].off + 1 |-> call[t].blob]
        <4>. DEFINE off == call[t].off
                    b == call[t].blob
        <4>1. off \in Nat
          BY <2>1
        <4>. HIDE DEF off, b
        <4>2. Written([i \in 1 .. off |-> b], off, b) = [i \in 1 .. off + 1 |-> b]
          BY <4>1, NextChunk
        <4>. QED  BY <4>2 DEF off, b
      <3>. QED  BY <2>2, <3>1, Zenon
    <2>4. \A k \in Key : EnginePath(k) # tmp
      BY <2>1, PathsDiffer
    <2>5. \A u \in Thread, k \in Key : TmpPath(u, k) = tmp => u = t
      BY <2>1, PathsDiffer DEF ThreadPerProcess
    <2>6. \A p \in DOMAIN dir : dir[p] = f => p = tmp
      BY <1>0, <2>2 DEF NamesApart
    <2>. HIDE DEF w, tmp
    <2>7. \A i \in DOMAIN files \ {f} : files'[i] = files[i]
      BY <2>1 DEF CacheTypeOK
    <2>8. NamesApart'
      BY <1>0, <2>1 DEF NamesApart
    <2>9. PublishedWhole'
      <3>1. ASSUME NEW k \in Key, EnginePath(k) \in DOMAIN dir
            PROVE  WholeContent(files'[dir[EnginePath(k)]])
        <4>1. files'[dir[EnginePath(k)]] = files[dir[EnginePath(k)]]
          BY <1>0, <2>4, <2>6, <2>7, <3>1
        <4>. QED  BY <1>0, <3>1, <4>1 DEF PublishedWhole, Exists
      <3>. QED  BY <2>1, <3>1 DEF PublishedWhole, Exists
    <2>10. ASSUME NEW u \in Thread PROVE OwnsTmp(u, call[u])' /\ ReaderHolds(call[u])'
      <3>1. CASE u = t
        <4>1. call'[u] = c
          BY <1>0, <2>1, <3>1
        <4>2. /\ c.pc = "writing" /\ c.key = call[t].key /\ c.file = f
              /\ c.blob = call[t].blob /\ c.off = call[t].off + 1
          BY <2>1 DEF Writing
        <4>. HIDE DEF c
        <4>3. files'[f] = w
          BY <2>1 DEF CacheTypeOK
        <4>4. files'[c.file] = [i \in 1 .. c.off |-> c.blob]
          BY <2>3, <4>2, <4>3, Zenon
        <4>5. dir' = dir
          BY <2>1
        <4>6. OwnsTmp(u, call[u])'
          BY <2>2, <3>1, <4>1, <4>2, <4>4, <4>5 DEF OwnsTmp, tmp
        <4>. QED  BY <4>1, <4>2, <4>6 DEF ReaderHolds
      <3>2. CASE u # t
        <4>1. call'[u] = call[u]
          BY <1>0, <2>1, <3>2
        <4>2. ASSUME call[u].pc = "writing"
              PROVE  files'[call[u].file] = files[call[u].file]
          <5>1. call[u].key \in Key
            BY <1>0, <4>2, CallShape DEF At
          <5>2. /\ TmpPath(u, call[u].key) \in DOMAIN dir \ {tmp}
                /\ dir[TmpPath(u, call[u].key)] = call[u].file
            BY <1>0, <2>5, <3>2, <4>2, <5>1 DEF OwnsTmp
          <5>. QED  BY <1>0, <2>6, <2>7, <5>2
        <4>3. OwnsTmp(u, call[u])'
          <5>1. dir' = dir /\ OwnsTmp(u, call[u])
            BY <1>0, <2>1
          <5>. QED  BY <4>1, <4>2, <5>1 DEF OwnsTmp
        <4>4. call[u].pc \in {"reading", "loaded"} => files'[call[u].file] = files[call[u].file]
          BY <1>7, ReadersUndisturbed
        <4>5. ReaderHolds(call[u])'
          BY <1>0, <2>1, <4>1, <4>4 DEF ReaderHolds
        <4>. QED  BY <4>3, <4>5
      <3>. QED  BY <3>1, <3>2
    <2>. QED  BY <2>8, <2>9, <2>10, WholeEachPrimed
  <1>8. ASSUME NEW t \in Thread, Publish(t) PROVE WholeInv'
    <2>. DEFINE c == [pc |-> "ready", key |-> call[t].key, asked |-> call[t].asked]
                tmp == TmpPath(t, call[t].key)
                path == EnginePath(call[t].key)
    <2>1. /\ call[t] \in Writing /\ call[t].key \in Key /\ call[t].off = Chunks
          /\ call' = [call EXCEPT ![t] = c]
          /\ files' = files
      BY <1>8, Published
    <2>2. /\ DOMAIN dir' = (DOMAIN dir \ {tmp}) \cup {path}
          /\ tmp \in DOMAIN dir
          /\ dir'[path] = dir[tmp]
          /\ \A p \in DOMAIN dir \ {tmp, path} : dir'[p] = dir[p]
      BY <1>8, Published
    <2>3. /\ dir[tmp] = call[t].file
          /\ files[dir[tmp]] = [i \in 1 .. Chunks |-> call[t].blob]
      BY <1>0, <1>8, <2>1 DEF Publish, At, OwnsTmp
    <2>4. WholeContent(files[dir[tmp]])
      <3>1. call[t].blob # Hole
        <4>1. call[t].blob \in DOMAIN builds
          BY <2>1 DEF Writing
        <4>. QED  BY <4>1, LenProperties DEF CacheTypeOK
      <3>. QED  BY <2>3, <3>1, AllChunks
    <2>5. \A k \in Key : EnginePath(k) # tmp
      BY <2>1, PathsDiffer
    <2>6. \A u \in Thread, k \in Key : TmpPath(u, k) = tmp => u = t
      BY <2>1, PathsDiffer DEF ThreadPerProcess
    <2>7. \A u \in Thread, k \in Key : TmpPath(u, k) # path
      BY <2>1, PathsDiffer
    <2>. HIDE DEF tmp, path
    <2>8. NamesApart'
      BY <1>0, <2>2 DEF NamesApart
    <2>9. PublishedWhole'
      <3>1. ASSUME NEW k \in Key, EnginePath(k) \in DOMAIN dir'
            PROVE  WholeContent(files[dir'[EnginePath(k)]])
        <4>1. CASE EnginePath(k) = path
          BY <2>2, <2>4, <4>1
        <4>2. CASE EnginePath(k) # path
          BY <1>0, <2>2, <2>5, <3>1, <4>2 DEF PublishedWhole, Exists
        <4>. QED  BY <4>1, <4>2
      <3>. QED  BY <2>1, <3>1 DEF PublishedWhole, Exists
    <2>10. ASSUME NEW u \in Thread PROVE OwnsTmp(u, call[u])' /\ ReaderHolds(call[u])'
      <3>1. CASE u = t
        <4>1. call'[u] = c
          BY <1>0, <2>1, <3>1
        <4>2. c.pc = "ready"
          OBVIOUS
        <4>. HIDE DEF c
        <4>. QED  BY <4>1, <4>2 DEF OwnsTmp, ReaderHolds
      <3>2. CASE u # t
        <4>1. call'[u] = call[u]
          BY <1>0, <2>1, <3>2
        <4>2. ASSUME call[u].pc = "writing"
              PROVE  /\ TmpPath(u, call[u].key) \in DOMAIN dir'
                     /\ dir'[TmpPath(u, call[u].key)] = call[u].file
          <5>1. call[u].key \in Key
            BY <1>0, <4>2, CallShape DEF At
          <5>2. /\ TmpPath(u, call[u].key) \in DOMAIN dir \ {tmp, path}
                /\ dir[TmpPath(u, call[u].key)] = call[u].file
            BY <1>0, <2>6, <2>7, <3>2, <4>2, <5>1 DEF OwnsTmp
          <5>. QED  BY <2>2, <5>2
        <4>3. OwnsTmp(u, call[u])'
          BY <1>0, <2>1, <4>1, <4>2 DEF OwnsTmp
        <4>4. ASSUME call[u].pc \in {"reading", "loaded"}, NEW v \in Thread, NEW k \in Key,
                     TmpPath(v, k) \in DOMAIN dir'
              PROVE  dir'[TmpPath(v, k)] # call[u].file
          BY <1>0, <2>2, <2>7, <4>4 DEF ReaderHolds
        <4>5. ReaderHolds(call[u])'
          BY <1>0, <2>1, <4>1, <4>4 DEF ReaderHolds
        <4>. QED  BY <4>3, <4>5
      <3>. QED  BY <3>1, <3>2
    <2>. QED  BY <2>8, <2>9, <2>10, WholeEachPrimed
  <1>9. ASSUME NEW t \in Thread, Fail(t) \/ Return(t) PROVE WholeInv'
    <2>1. call' = [call EXCEPT ![t] = Idle] /\ UNCHANGED <<dir, files>>
      BY <1>9 DEF Fail, Return
    <2>2. ReaderHolds(Idle) /\ Idle.pc # "writing"
      BY DEF Idle, ReaderHolds
    <2>. QED  BY <2>1, <2>2, WholeQuiet
  <1>10. ASSUME NEW t \in Thread, OpenEngine(t) PROVE WholeInv'
    <2>. DEFINE path == EnginePath(call[t].key)
                c == [pc |-> "reading", key |-> call[t].key, asked |-> call[t].asked,
                      file |-> dir[path], bytes |-> <<>>]
    <2>1. call' = [call EXCEPT ![t] = c] /\ UNCHANGED <<dir, files>>
      BY <1>10 DEF OpenEngine
    <2>2. call[t].key \in Key /\ path \in DOMAIN dir
      BY <1>0, <1>10, CallShape DEF OpenEngine, CacheTypeOK, Exists, At
    <2>3. c.pc = "reading" /\ c.file = dir[path] /\ c.bytes = <<>>
      OBVIOUS
    <2>4. WholeContent(files[dir[path]])
      BY <1>0, <2>2 DEF PublishedWhole, Exists
    <2>5. \A u \in Thread, k \in Key :
             TmpPath(u, k) \in DOMAIN dir => dir[TmpPath(u, k)] # dir[path]
      BY <1>0, <2>2, PathsDiffer DEF NamesApart
    <2>. HIDE DEF c, path
    <2>6. ReaderHolds(c)
      BY <2>3, <2>4, <2>5 DEF ReaderHolds
    <2>. QED  BY <2>1, <2>3, <2>6, WholeQuiet
  <1>11. ASSUME NEW t \in Thread, ReadChunk(t) PROVE WholeInv'
    <2>. DEFINE b == call[t].bytes
                f == files[call[t].file]
                s == Append(b, f[Len(b) + 1])
                c == [call[t] EXCEPT !.bytes = s]
    <2>1. call' = [call EXCEPT ![t] = c] /\ UNCHANGED <<dir, files>> /\ call[t].pc = "reading"
      BY <1>11 DEF ReadChunk, At
    <2>2. call[t] \in Reading /\ b \in Content
      BY <1>0, <2>1, CallShape DEF At
    <2>3. \A i \in DOMAIN s : s[i] = f[i]
      <3>1. b \in Seq(Chunk) /\ \A i \in DOMAIN b : b[i] = f[i]
        BY <1>0, <2>1, <2>2, ContentIsSeq DEF CacheTypeOK, ReaderHolds
      <3>. HIDE DEF b, f
      <3>2. b \in Seq(Chunk \cup {f[Len(b) + 1]})
        BY <3>1, SeqMonotonic
      <3>. QED  BY <3>1, <3>2, AppendProperties, LenProperties
    <2>4. c.pc = "reading" /\ c.file = call[t].file /\ c.bytes = s
      <3>. HIDE DEF s
      <3>. QED  BY <2>1, <2>2 DEF Reading
    <2>. HIDE DEF c, s
    <2>5. ReaderHolds(c)
      BY <1>0, <2>1, <2>3, <2>4 DEF ReaderHolds
    <2>. QED  BY <2>1, <2>4, <2>5, WholeQuiet
  <1>12. ASSUME NEW t \in Thread, Loaded(t) PROVE WholeInv'
    <2>. DEFINE c == [call[t] EXCEPT !.pc = "loaded"]
    <2>1. /\ call' = [call EXCEPT ![t] = c] /\ UNCHANGED <<dir, files>> /\ call[t].pc = "reading"
          /\ Len(call[t].bytes) >= Len(files[call[t].file])
      BY <1>12 DEF Loaded, At
    <2>2. call[t] \in Reading /\ call[t].bytes \in Content
      BY <1>0, <2>1, CallShape DEF At
    <2>3. c.pc = "loaded" /\ c.file = call[t].file /\ c.bytes = call[t].bytes
      BY <2>2 DEF Reading
    <2>. HIDE DEF c
    <2>4. Len(call[t].bytes) = Chunks
      <3>1. Len(call[t].bytes) \in 0 .. Chunks /\ Chunks \in Nat
        BY <2>2, ContentIsSeq DEF CacheTypeOK, CacheAssumption
      <3>2. Len(files[call[t].file]) = Chunks
        BY <1>0, <2>1 DEF ReaderHolds, WholeContent
      <3>. QED  BY <2>1, <3>1, <3>2
    <2>5. ReaderHolds(c)
      BY <1>0, <2>1, <2>3, <2>4 DEF ReaderHolds
    <2>. QED  BY <2>1, <2>3, <2>5, WholeQuiet
  <1>13. ASSUME NEW q \in Process, Crash(q) PROVE WholeInv'
    <2>1. /\ call' = [t \in Thread |-> IF PidOf[t] = q THEN Idle ELSE call[t]]
          /\ dir' = dir /\ files' = files
      BY <1>13 DEF Crash
    <2>2. NamesApart' /\ PublishedWhole'
      BY <1>0, <2>1 DEF NamesApart, PublishedWhole, Exists, EnginePath, WholeContent
    <2>3. ASSUME NEW u \in Thread PROVE OwnsTmp(u, call[u])' /\ ReaderHolds(call[u])'
      <3>1. call'[u] = Idle \/ call'[u] = call[u]
        BY <2>1
      <3>2. CASE call'[u] = Idle
        BY <3>2 DEF OwnsTmp, ReaderHolds, Idle
      <3>3. CASE call'[u] = call[u]
        <4>1. OwnsTmp(u, call[u])'
          BY <1>0, <2>1, <3>3 DEF OwnsTmp
        <4>2. ReaderHolds(call[u])'
          BY <1>0, <2>1, <3>3 DEF ReaderHolds
        <4>. QED  BY <4>1, <4>2
      <3>. QED  BY <3>1, <3>2, <3>3
    <2>. QED  BY <2>2, <2>3, WholeEachPrimed
  <1>14. ASSUME UNCHANGED cacheVars PROVE WholeInv'
    BY <1>14 DEF cacheVars, WholeInv, NamesApart, PublishedWhole, OwnTmp, ReadersHold,
                 At, Exists, EnginePath, TmpPath, WholeContent
  <1>. QED  BY <1>1, <1>2, <1>3, <1>4, <1>5, <1>6, <1>7, <1>8, <1>9, <1>10, <1>11,
               <1>12, <1>13, <1>14 DEF CacheNext, Step

(* With a thread to a process, an engine under a final name is whole,      *)
(* whatever builders died half way and left a torn tmp file to their       *)
(* successors, and whatever was edited when.                               *)
THEOREM PublishedEnginesWhole ==
    ASSUME ThreadPerProcess
    PROVE  CacheSpec => []PublishedWhole
  <1>1. CacheInit => CacheTypeOK /\ WholeInv
    BY InitTyped, InitWhole, CacheAssumption
  <1>2. CacheTypeOK /\ WholeInv /\ [CacheNext]_cacheVars => (CacheTypeOK /\ WholeInv)'
    BY NextTyped, NextWhole, CacheAssumption
  <1>3. WholeInv => PublishedWhole
    BY DEF WholeInv
  <1>. QED  BY <1>1, <1>2, <1>3, PTL DEF CacheSpec
-----------------------------------------------------------------------------
(* What was asked for. ReaderKeyed is ReadersKeyed of one call.            *)
ReaderKeyed(c) ==
    c.pc \in {"reading", "loaded"} => builds[files[c.file][1]].key = c.key

LEMMA ReadersKeyedEach == ReadersKeyed <=> \A t \in Thread : ReaderKeyed(call[t])
  BY DEF ReadersKeyed, ReaderKeyed, At

LEMMA ReadersKeyedPrimed ==
    ASSUME \A t \in Thread : ReaderKeyed(call[t])'
    PROVE  ReadersKeyed'
  BY DEF ReadersKeyed, ReaderKeyed, At

(* The first chunk of a file somebody reads is a build. *)
LEMMA ReaderOfBuild ==
    ASSUME CacheAssumption, CacheTypeOK, WholeInv,
           NEW t \in Thread, call[t].pc \in {"reading", "loaded"}
    PROVE  files[call[t].file][1] \in DOMAIN builds
  <1>1. call[t].file \in DOMAIN files
    BY CallShape DEF CacheTypeOK, At
  <1>2. WholeContent(files[call[t].file])
    BY WholeEach DEF ReaderHolds
  <1>3. /\ files[call[t].file] \in [1 .. Chunks -> Chunk]
        /\ \A c \in DOMAIN files[call[t].file] :
              files[call[t].file][c] # Hole => files[call[t].file][c] \in DOMAIN builds
    BY <1>1, <1>2, ChunksAreBuilds, ContentIsSeq DEF CacheTypeOK, WholeContent
  <1>4. 1 \in 1 .. Chunks
    BY DEF CacheAssumption
  <1>. QED  BY <1>2, <1>3, <1>4 DEF WholeContent

LEMMA ReadersKeyedQuiet ==
    ASSUME CacheTypeOK, ReadersKeyed, UNCHANGED <<files, builds>>,
           NEW t \in Thread, NEW c, call' = [call EXCEPT ![t] = c], ReaderKeyed(c)
    PROVE  ReadersKeyed'
  <1>1. ASSUME NEW u \in Thread PROVE ReaderKeyed(call[u])'
    <2>1. call'[u] = IF u = t THEN c ELSE call[u]
      BY DEF CacheTypeOK
    <2>2. ReaderKeyed(call[u])
      BY ReadersKeyedEach
    <2>. QED  BY <2>1, <2>2 DEF ReaderKeyed
  <1>. QED  BY <1>1, ReadersKeyedPrimed

LEMMA NextReadersKeyed ==
    ASSUME CacheAssumption, ThreadPerProcess, CacheTypeOK, KeyedInv, WholeInv, ReadersKeyed,
           [CacheNext]_cacheVars
    PROVE  ReadersKeyed'
  <1>0. call \in [Thread -> Call] /\ \A t \in Thread : ReaderKeyed(call[t])
    BY ReadersKeyedEach DEF CacheTypeOK
  <1>1. ASSUME NEW n \in Name, Edit(n) PROVE ReadersKeyed'
    BY <1>1 DEF Edit, ReadersKeyed, At
  <1>2. ASSUME NEW t \in Thread, NEW n \in Name, NEW p \in Profile, Ask(t, n, p)
        PROVE  ReadersKeyed'
    <2>. DEFINE c == [pc |-> "keyed", key |-> KeyOf(n, p), asked |-> OnDisk(n, p)]
    <2>1. call' = [call EXCEPT ![t] = c] /\ UNCHANGED <<files, builds>> /\ c.pc = "keyed"
      BY <1>2 DEF Ask
    <2>. HIDE DEF c
    <2>2. ReaderKeyed(c)
      BY <2>1 DEF ReaderKeyed
    <2>. QED  BY <2>1, <2>2, ReadersKeyedQuiet
  <1>3. ASSUME NEW t \in Thread, Hit(t) PROVE ReadersKeyed'
    <2>. DEFINE c == [call[t] EXCEPT !.pc = "ready"]
    <2>1. call[t] \in Asking
      BY <1>0, <1>3, CallShape DEF Hit, At
    <2>2. c.pc = "ready"
      BY <2>1 DEF Asking
    <2>3. call' = [call EXCEPT ![t] = c] /\ UNCHANGED <<files, builds>>
      BY <1>3 DEF Hit
    <2>. HIDE DEF c
    <2>4. ReaderKeyed(c)
      BY <2>2 DEF ReaderKeyed
    <2>. QED  BY <2>3, <2>4, ReadersKeyedQuiet
  <1>4. ASSUME NEW t \in Thread, Miss(t) PROVE ReadersKeyed'
    <2>. DEFINE c == [call[t] EXCEPT !.pc = "missed"]
    <2>1. call[t] \in Asking
      BY <1>0, <1>4, CallShape DEF Miss, At
    <2>2. c.pc = "missed"
      BY <2>1 DEF Asking
    <2>3. call' = [call EXCEPT ![t] = c] /\ UNCHANGED <<files, builds>>
      BY <1>4 DEF Miss
    <2>. HIDE DEF c
    <2>4. ReaderKeyed(c)
      BY <2>2 DEF ReaderKeyed
    <2>. QED  BY <2>3, <2>4, ReadersKeyedQuiet
  <1>5. ASSUME NEW t \in Thread, BuildEngine(t) PROVE ReadersKeyed'
    <2>. DEFINE c == [pc |-> "built", key |-> call[t].key, asked |-> call[t].asked,
                      blob |-> Len(builds')]
    <2>1. call' = [call EXCEPT ![t] = c] /\ files' = files /\ c.pc = "built"
      BY <1>5 DEF BuildEngine
    <2>. HIDE DEF c
    <2>2. \A i \in DOMAIN builds : builds'[i] = builds[i]
      <3>1. PICK b : builds' = Append(builds, b)
        BY <1>5 DEF BuildEngine
      <3>2. builds \in Seq(Build \cup {b})
        BY SeqMonotonic DEF CacheTypeOK
      <3>. QED  BY <3>1, <3>2, AppendProperties, LenProperties
    <2>3. ASSUME NEW u \in Thread PROVE ReaderKeyed(call[u])'
      <3>1. CASE u = t
        <4>1. call'[u] = c
          BY <1>0, <2>1, <3>1
        <4>. QED  BY <2>1, <4>1 DEF ReaderKeyed
      <3>2. CASE u # t
        <4>1. call'[u] = call[u]
          BY <1>0, <2>1, <3>2
        <4>2. call[u].pc \in {"reading", "loaded"} => files[call[u].file][1] \in DOMAIN builds
          BY ReaderOfBuild
        <4>. QED  BY <1>0, <2>1, <2>2, <4>1, <4>2 DEF ReaderKeyed
      <3>. QED  BY <3>1, <3>2
    <2>. QED  BY <2>3, ReadersKeyedPrimed
  <1>6. ASSUME NEW t \in Thread, OpenTmp(t) \/ WriteChunk(t) PROVE ReadersKeyed'
    <2>1. PICK c : call' = [call EXCEPT ![t] = c] /\ c.pc = "writing"
      <3>1. CASE OpenTmp(t)
        <4>. DEFINE o == [pc |-> "writing", key |-> call[t].key, asked |-> call[t].asked,
                          blob |-> call[t].blob, file |-> FileOf(t), off |-> 0]
        <4>1. call' = [call EXCEPT ![t] = o] /\ o.pc = "writing"
          BY <3>1, Opened
        <4>. HIDE DEF o
        <4>. QED  BY <4>1
      <3>2. CASE WriteChunk(t)
        <4>. DEFINE o == [call[t] EXCEPT !.off = call[t].off + 1]
        <4>1. call' = [call EXCEPT ![t] = o] /\ call[t] \in Writing
          BY <3>2, Wrote
        <4>2. o.pc = "writing"
          BY <4>1 DEF Writing
        <4>. HIDE DEF o
        <4>. QED  BY <4>1, <4>2
      <3>. QED  BY <1>6, <3>1, <3>2
    <2>2. builds' = builds
      BY <1>6, Opened, Wrote
    <2>3. ASSUME NEW u \in Thread PROVE ReaderKeyed(call[u])'
      <3>1. CASE u = t
        <4>1. call'[u] = c
          BY <1>0, <2>1, <3>1
        <4>. QED  BY <2>1, <4>1 DEF ReaderKeyed
      <3>2. CASE u # t
        <4>1. call'[u] = call[u]
          BY <1>0, <2>1, <3>2
        <4>2. call[u].pc \in {"reading", "loaded"} => files'[call[u].file] = files[call[u].file]
          BY <1>6, ReadersUndisturbed
        <4>. QED  BY <1>0, <2>2, <4>1, <4>2 DEF ReaderKeyed
      <3>. QED  BY <3>1, <3>2
    <2>. QED  BY <2>3, ReadersKeyedPrimed
  <1>7. ASSUME NEW t \in Thread, Publish(t) PROVE ReadersKeyed'
    <2>. DEFINE c == [pc |-> "ready", key |-> call[t].key, asked |-> call[t].asked]
    <2>1. call' = [call EXCEPT ![t] = c] /\ UNCHANGED <<files, builds>> /\ c.pc = "ready"
      BY <1>7, Published
    <2>. HIDE DEF c
    <2>2. ReaderKeyed(c)
      BY <2>1 DEF ReaderKeyed
    <2>. QED  BY <2>1, <2>2, ReadersKeyedQuiet
  <1>8. ASSUME NEW t \in Thread, Fail(t) \/ Return(t) PROVE ReadersKeyed'
    <2>1. call' = [call EXCEPT ![t] = Idle] /\ UNCHANGED <<files, builds>>
      BY <1>8 DEF Fail, Return
    <2>2. ReaderKeyed(Idle)
      BY DEF Idle, ReaderKeyed
    <2>. QED  BY <2>1, <2>2, ReadersKeyedQuiet
  <1>9. ASSUME NEW t \in Thread, OpenEngine(t) PROVE ReadersKeyed'
    <2>. DEFINE path == EnginePath(call[t].key)
                c == [pc |-> "reading", key |-> call[t].key, asked |-> call[t].asked,
                      file |-> dir[path], bytes |-> <<>>]
    <2>1. call' = [call EXCEPT ![t] = c] /\ UNCHANGED <<files, builds>>
      BY <1>9 DEF OpenEngine
    <2>2. call[t].key \in Key /\ path \in DOMAIN dir
      BY <1>0, <1>9, CallShape DEF OpenEngine, CacheTypeOK, Exists, At
    <2>3. path.key = call[t].key
      BY DEF EnginePath
    <2>4. WholeContent(files[dir[path]])
      BY <2>2 DEF WholeInv, PublishedWhole, Exists
    <2>5. 1 \in DOMAIN files[dir[path]]
      <3>1. dir[path] \in DOMAIN files
        BY <2>2 DEF CacheTypeOK
      <3>2. DOMAIN files[dir[path]] = 1 .. Len(files[dir[path]])
        BY <3>1, ChunksAreBuilds, ContentIsSeq DEF CacheTypeOK
      <3>. QED  BY <2>4, <3>2 DEF WholeContent, CacheAssumption
    <2>6. c.file = dir[path] /\ c.key = call[t].key
      OBVIOUS
    <2>. HIDE DEF c, path
    <2>7. ReaderKeyed(c)
      BY <2>2, <2>3, <2>4, <2>5, <2>6 DEF ReaderKeyed, WholeContent, KeyedInv, FilesKeyed
    <2>. QED  BY <2>1, <2>7, ReadersKeyedQuiet
  <1>10. ASSUME NEW t \in Thread, ReadChunk(t) PROVE ReadersKeyed'
    <2>. DEFINE s == Append(call[t].bytes, files[call[t].file][Len(call[t].bytes) + 1])
                c == [call[t] EXCEPT !.bytes = s]
    <2>1. call' = [call EXCEPT ![t] = c] /\ UNCHANGED <<files, builds>> /\ call[t].pc = "reading"
      BY <1>10 DEF ReadChunk, At
    <2>2. call[t] \in Reading
      BY <1>0, <2>1, CallShape DEF At
    <2>. HIDE DEF s
    <2>3. c.file = call[t].file /\ c.key = call[t].key
      BY <2>2 DEF Reading
    <2>. HIDE DEF c
    <2>4. ReaderKeyed(c)
      BY <1>0, <2>1, <2>3 DEF ReaderKeyed
    <2>. QED  BY <2>1, <2>4, ReadersKeyedQuiet
  <1>11. ASSUME NEW t \in Thread, Loaded(t) PROVE ReadersKeyed'
    <2>. DEFINE c == [call[t] EXCEPT !.pc = "loaded"]
    <2>1. call' = [call EXCEPT ![t] = c] /\ UNCHANGED <<files, builds>> /\ call[t].pc = "reading"
      BY <1>11 DEF Loaded, At
    <2>2. call[t] \in Reading
      BY <1>0, <2>1, CallShape DEF At
    <2>3. c.file = call[t].file /\ c.key = call[t].key
      BY <2>2 DEF Reading
    <2>. HIDE DEF c
    <2>4. ReaderKeyed(c)
      BY <1>0, <2>1, <2>3 DEF ReaderKeyed
    <2>. QED  BY <2>1, <2>4, ReadersKeyedQuiet
  <1>12. ASSUME NEW q \in Process, Crash(q) PROVE ReadersKeyed'
    <2>1. /\ call' = [t \in Thread |-> IF PidOf[t] = q THEN Idle ELSE call[t]]
          /\ UNCHANGED <<files, builds>>
      BY <1>12 DEF Crash
    <2>2. ASSUME NEW u \in Thread PROVE ReaderKeyed(call[u])'
      <3>1. call'[u] = Idle \/ call'[u] = call[u]
        BY <2>1
      <3>2. Idle.pc = "idle"
        BY DEF Idle
      <3>. QED  BY <1>0, <2>1, <3>1, <3>2 DEF ReaderKeyed
    <2>. QED  BY <2>2, ReadersKeyedPrimed
  <1>13. ASSUME UNCHANGED cacheVars PROVE ReadersKeyed'
    BY <1>13 DEF cacheVars, ReadersKeyed, At
  <1>. QED  BY <1>1, <1>2, <1>3, <1>4, <1>5, <1>6, <1>7, <1>8, <1>9, <1>10, <1>11,
               <1>12, <1>13 DEF CacheNext, Step

LEMMA InitWeights ==
    CacheInit => ReadersKeyed /\ WeightsStay
  <1>. SUFFICES ASSUME CacheInit PROVE ReadersKeyed /\ WeightsStay
    OBVIOUS
  <1>1. DOMAIN builds = {}
    BY DEF CacheInit
  <1>. QED  BY <1>1 DEF CacheInit, ReadersKeyed, WeightsStay, Idle, At

(* Only an edit of the weights makes others of them. *)
LEMMA NextWeights ==
    ASSUME CacheAssumption, "weights" \notin Edits, CacheTypeOK, WeightsStay,
           [CacheNext]_cacheVars
    PROVE  WeightsStay'
  <1>0. /\ call \in [Thread -> Call]
        /\ \A t \in Thread : call[t].pc # "idle" => call[t].asked.weights = FirstVersion
    BY DEF CacheTypeOK, WeightsStay, At
  <1>1. ASSUME NEW n \in Name, Edit(n) PROVE WeightsStay'
    <2>1. PICK v \in Version, part \in Edits : model' = [model EXCEPT ![n][part] = v]
      BY <1>1 DEF Edit
    <2>2. part = "graph"
      BY DEF CacheAssumption
    <2>3. \A m \in Name : model'[m].weights = model[m].weights
      BY <2>1, <2>2 DEF CacheTypeOK
    <2>4. UNCHANGED <<builds, call>>
      BY <1>1 DEF Edit
    <2>. QED  BY <2>3, <2>4 DEF WeightsStay, At
  <1>2. ASSUME UNCHANGED <<model, builds>>, NEW t \in Thread, NEW c,
               call' = [call EXCEPT ![t] = c],
               c.pc # "idle" => c.asked.weights = FirstVersion
        PROVE  WeightsStay'
    <2>1. ASSUME NEW u \in Thread, call'[u].pc # "idle"
          PROVE  call'[u].asked.weights = FirstVersion
      <3>1. call'[u] = IF u = t THEN c ELSE call[u]
        BY <1>0, <1>2
      <3>. QED  BY <1>0, <1>2, <2>1, <3>1
    <2>. QED  BY <1>2, <2>1 DEF WeightsStay, At
  <1>3. ASSUME NEW t \in Thread, NEW n \in Name, NEW p \in Profile, Ask(t, n, p)
        PROVE  WeightsStay'
    <2>. DEFINE c == [pc |-> "keyed", key |-> KeyOf(n, p), asked |-> OnDisk(n, p)]
    <2>1. call' = [call EXCEPT ![t] = c] /\ UNCHANGED <<model, builds>>
      BY <1>3 DEF Ask
    <2>2. c.asked.weights = FirstVersion
      BY DEF OnDisk, WeightsStay
    <2>. HIDE DEF c
    <2>. QED  BY <1>2, <2>1, <2>2
  <1>4. ASSUME NEW t \in Thread, BuildEngine(t) PROVE WeightsStay'
    <2>. DEFINE k == call[t].asked.key
                b == OnDisk(k.name, k.profile)
    <2>1. /\ builds' = Append(builds, b) /\ model' = model
          /\ call' = [call EXCEPT ![t] = [pc |-> "built", key |-> call[t].key,
                                          asked |-> call[t].asked, blob |-> Len(builds')]]
          /\ call[t].pc = "missed"
      BY <1>4 DEF BuildEngine, At
    <2>2. b \in Build /\ b.weights = FirstVersion
      <3>1. k.name \in Name /\ k.profile \in Profile
        BY <1>0, <2>1, CallShape, KeyParts, BuildParts DEF At
      <3>. QED  BY <3>1, OnDiskTyped DEF OnDisk, WeightsStay
    <2>. HIDE DEF b
    <2>3. \A i \in DOMAIN builds' : builds'[i].weights = FirstVersion
      BY <2>1, <2>2, AppendProperties, LenProperties DEF CacheTypeOK, WeightsStay
    <2>4. ASSUME NEW u \in Thread, call'[u].pc # "idle"
          PROVE  call'[u].asked.weights = FirstVersion
      <3>1. CASE u = t
        BY <1>0, <2>1, <3>1
      <3>2. CASE u # t
        BY <1>0, <2>1, <2>4, <3>2
      <3>. QED  BY <3>1, <3>2
    <2>. QED  BY <2>1, <2>3, <2>4 DEF WeightsStay, At
  <1>5. ASSUME NEW t \in Thread, Hit(t) \/ Miss(t) \/ WriteChunk(t) \/ ReadChunk(t) \/ Loaded(t)
        PROVE  WeightsStay'
    <2>1. call[t].pc # "idle" /\ UNCHANGED <<model, builds>>
      BY <1>5 DEF Hit, Miss, WriteChunk, ReadChunk, Loaded, At
    <2>2. ASSUME NEW c, call' = [call EXCEPT ![t] = c], c.asked = call[t].asked
          PROVE  WeightsStay'
      BY <1>0, <1>2, <2>1, <2>2
    <2>3. CASE Hit(t)
      <3>1. [call[t] EXCEPT !.pc = "ready"].asked = call[t].asked
        BY <1>0, <2>3, CallShape DEF Hit, At, Asking
      <3>. QED  BY <2>2, <2>3, <3>1 DEF Hit
    <2>4. CASE Miss(t)
      <3>1. [call[t] EXCEPT !.pc = "missed"].asked = call[t].asked
        BY <1>0, <2>4, CallShape DEF Miss, At, Asking
      <3>. QED  BY <2>2, <2>4, <3>1 DEF Miss
    <2>5. CASE WriteChunk(t)
      <3>1. /\ call[t] \in Writing
            /\ call' = [call EXCEPT ![t] = [call[t] EXCEPT !.off = call[t].off + 1]]
        BY <2>5, Wrote
      <3>2. [call[t] EXCEPT !.off = call[t].off + 1].asked = call[t].asked
        BY <3>1 DEF Writing
      <3>. QED  BY <2>2, <3>1, <3>2
    <2>6. CASE ReadChunk(t)
      <3>. DEFINE s == Append(call[t].bytes, files[call[t].file][Len(call[t].bytes) + 1])
                  c == [call[t] EXCEPT !.bytes = s]
      <3>1. call[t] \in Reading /\ call' = [call EXCEPT ![t] = c]
        BY <1>0, <2>6, CallShape DEF ReadChunk, At
      <3>. HIDE DEF s
      <3>2. c.asked = call[t].asked
        BY <3>1 DEF Reading
      <3>. HIDE DEF c
      <3>. QED  BY <2>2, <3>1, <3>2
    <2>7. CASE Loaded(t)
      <3>1. [call[t] EXCEPT !.pc = "loaded"].asked = call[t].asked
        BY <1>0, <2>7, CallShape DEF Loaded, At, Reading
      <3>. QED  BY <2>2, <2>7, <3>1 DEF Loaded
    <2>. QED  BY <1>5, <2>3, <2>4, <2>5, <2>6, <2>7
  <1>6. ASSUME NEW t \in Thread, OpenTmp(t) PROVE WeightsStay'
    <2>. DEFINE c == [pc |-> "writing", key |-> call[t].key, asked |-> call[t].asked,
                      blob |-> call[t].blob, file |-> FileOf(t), off |-> 0]
    <2>1. call' = [call EXCEPT ![t] = c] /\ UNCHANGED <<model, builds>>
      BY <1>6, Opened
    <2>2. call[t].pc = "built" /\ c.asked = call[t].asked
      BY <1>6 DEF OpenTmp, At
    <2>. HIDE DEF c
    <2>. QED  BY <1>0, <1>2, <2>1, <2>2
  <1>7. ASSUME NEW t \in Thread, Publish(t) PROVE WeightsStay'
    <2>. DEFINE c == [pc |-> "ready", key |-> call[t].key, asked |-> call[t].asked]
    <2>1. call' = [call EXCEPT ![t] = c] /\ UNCHANGED <<model, builds>>
      BY <1>7, Published
    <2>2. call[t].pc = "writing" /\ c.asked = call[t].asked
      BY <1>7 DEF Publish, At
    <2>. HIDE DEF c
    <2>. QED  BY <1>0, <1>2, <2>1, <2>2
  <1>8. ASSUME NEW t \in Thread, OpenEngine(t) PROVE WeightsStay'
    <2>. DEFINE c == [pc |-> "reading", key |-> call[t].key, asked |-> call[t].asked,
                      file |-> dir[EnginePath(call[t].key)], bytes |-> <<>>]
    <2>1. call' = [call EXCEPT ![t] = c] /\ UNCHANGED <<model, builds>>
      BY <1>8 DEF OpenEngine
    <2>2. call[t].pc = "ready" /\ c.asked = call[t].asked
      BY <1>8 DEF OpenEngine, At
    <2>. HIDE DEF c
    <2>. QED  BY <1>0, <1>2, <2>1, <2>2
  <1>9. ASSUME NEW t \in Thread, Fail(t) \/ Return(t) PROVE WeightsStay'
    <2>1. call' = [call EXCEPT ![t] = Idle] /\ UNCHANGED <<model, builds>>
      BY <1>9 DEF Fail, Return
    <2>2. Idle.pc = "idle"
      BY DEF Idle
    <2>. QED  BY <1>2, <2>1, <2>2
  <1>10. ASSUME NEW q \in Process, Crash(q) PROVE WeightsStay'
    <2>1. /\ call' = [t \in Thread |-> IF PidOf[t] = q THEN Idle ELSE call[t]]
          /\ UNCHANGED <<model, builds>>
      BY <1>10 DEF Crash
    <2>2. Idle.pc = "idle"
      BY DEF Idle
    <2>3. ASSUME NEW u \in Thread, call'[u].pc # "idle"
          PROVE  call'[u].asked.weights = FirstVersion
      BY <1>0, <2>1, <2>2, <2>3
    <2>. QED  BY <2>1, <2>3 DEF WeightsStay, At
  <1>11. ASSUME UNCHANGED cacheVars PROVE WeightsStay'
    BY <1>11 DEF cacheVars, WeightsStay, At
  <1>. QED  BY <1>1, <1>3, <1>4, <1>5, <1>6, <1>7, <1>8, <1>9, <1>10, <1>11
               DEF CacheNext, Step

AskedInv == KeyedInv /\ WholeInv /\ ReadersKeyed /\ WeightsStay

(* With a thread to a process, no weights changed under a graph and no     *)
(* model exported between hash and build, whoever loads an engine has all  *)
(* of one build of the very files it asked for, although others meanwhile  *)
(* rename, truncate and write under the same names, and die doing so.      *)
THEOREM EngineAskedIsLoaded ==
    ASSUME ThreadPerProcess, ~EditMidCall, "weights" \notin Edits
    PROVE  CacheSpec => []EngineIsAsked
  <1>1. CacheInit => CacheTypeOK /\ AskedInv
    BY InitTyped, InitKeyed, InitWhole, InitWeights, CacheAssumption DEF AskedInv
  <1>2. CacheTypeOK /\ AskedInv /\ [CacheNext]_cacheVars => (CacheTypeOK /\ AskedInv)'
    <2>. SUFFICES ASSUME CacheTypeOK, AskedInv, [CacheNext]_cacheVars
                  PROVE  CacheTypeOK' /\ KeyedInv' /\ WholeInv' /\ ReadersKeyed' /\ WeightsStay'
      BY DEF AskedInv
    <2>. QED  BY NextTyped, NextKeyed, NextWhole, NextReadersKeyed, NextWeights,
                 CacheAssumption DEF AskedInv
  <1>3. CacheTypeOK /\ AskedInv => EngineIsAsked
    <2>. SUFFICES ASSUME CacheTypeOK, AskedInv, NEW t \in Thread, At(t, "loaded")
                  PROVE  /\ WholeContent(call[t].bytes)
                         /\ builds[call[t].bytes[1]] = call[t].asked
      BY DEF EngineIsAsked
    <2>. DEFINE s == call[t].bytes
                f == files[call[t].file]
    <2>1. s \in Content /\ f \in Content /\ call[t].asked \in Build
      <3>1. call[t].file \in DOMAIN files /\ s \in Content /\ call[t].asked \in Build
        BY CallShape DEF CacheTypeOK, At
      <3>. QED  BY <3>1, ChunksAreBuilds, CacheAssumption
    <2>2. /\ WholeContent(f) /\ Len(s) = Chunks
          /\ \A i \in DOMAIN s : s[i] = f[i]
      BY WholeEach DEF AskedInv, ReaderHolds, At
    <2>3. f[1] \in DOMAIN builds /\ builds[f[1]].key = call[t].key
      BY ReaderOfBuild, ReadersKeyedEach, CacheAssumption DEF AskedInv, ReaderKeyed, At
    <2>4. call[t].asked.key = call[t].key /\ call[t].asked.weights = FirstVersion
      BY DEF AskedInv, KeyedInv, CallsKeyed, WeightsStay, At
    <2>5. builds[f[1]] = call[t].asked
      <3>1. builds[f[1]] \in Build /\ builds[f[1]].weights = FirstVersion
        BY <2>3, ElementOfSeq, LenProperties DEF CacheTypeOK, AskedInv, WeightsStay
      <3>. QED  BY <2>1, <2>3, <2>4, <3>1 DEF Build
    <2>. HIDE DEF s, f
    <2>6. /\ DOMAIN s = 1 .. Chunks /\ DOMAIN f = 1 .. Chunks /\ 1 \in 1 .. Chunks
      <3>1. builds \in Seq(Build)
        BY DEF CacheTypeOK
      <3>2. DOMAIN s = 1 .. Len(s) /\ DOMAIN f = 1 .. Len(f)
        BY <2>1, <3>1, ContentIsSeq, CacheAssumption
      <3>. QED  BY <2>2, <3>2, CacheAssumption DEF WholeContent, CacheAssumption
    <2>7. WholeContent(s)
      BY <2>2, <2>6 DEF WholeContent
    <2>8. s[1] = f[1]
      BY <2>2, <2>6
    <2>. QED  BY <2>5, <2>7, <2>8 DEF s
  <1>. QED  BY <1>1, <1>2, <1>3, PTL DEF CacheSpec
-----------------------------------------------------------------------------
(* The table of engines. What a name stands for and what a reader holds is *)
(* the build of the first chunk, for all chunks are of it.                 *)
EngineUnder(k) == IF EnginePath(k) \in DOMAIN dir
                  THEN builds[files[dir[EnginePath(k)]][1]] ELSE NoEngine

EngineRead(c) == IF c.pc \in {"reading", "loaded"} THEN builds[files[c.file][1]]
                                                   ELSE NoEngine

LEMMA PublishedOfBuild ==
    ASSUME CacheAssumption, CacheTypeOK, WholeInv,
           NEW k \in Key, EnginePath(k) \in DOMAIN dir
    PROVE  /\ dir[EnginePath(k)] \in DOMAIN files
           /\ WholeContent(files[dir[EnginePath(k)]])
           /\ files[dir[EnginePath(k)]][1] \in DOMAIN builds
           /\ 1 \in DOMAIN files[dir[EnginePath(k)]]
  <1>. DEFINE f == files[dir[EnginePath(k)]]
  <1>1. dir[EnginePath(k)] \in DOMAIN files
    BY DEF CacheTypeOK
  <1>2. WholeContent(f)
    BY DEF WholeInv, PublishedWhole, Exists
  <1>3. /\ f \in [1 .. Chunks -> Chunk]
        /\ \A c \in DOMAIN f : f[c] # Hole => f[c] \in DOMAIN builds
    BY <1>1, <1>2, ChunksAreBuilds, ContentIsSeq DEF CacheTypeOK, WholeContent
  <1>4. 1 \in 1 .. Chunks
    BY DEF CacheAssumption
  <1>. QED  BY <1>1, <1>2, <1>3, <1>4 DEF WholeContent

LEMMA ReadWhole ==
    ASSUME CacheAssumption, CacheTypeOK, WholeInv, NEW t \in Thread, At(t, "loaded")
    PROVE  WholeContent(call[t].bytes) /\ call[t].bytes[1] = files[call[t].file][1]
  <1>. DEFINE s == call[t].bytes
              f == files[call[t].file]
  <1>1. s \in Content /\ f \in Content /\ builds \in Seq(Build)
    <2>1. call[t].file \in DOMAIN files /\ s \in Content
      BY CallShape DEF CacheTypeOK, At
    <2>. QED  BY <2>1, ChunksAreBuilds DEF CacheTypeOK
  <1>2. /\ WholeContent(f) /\ Len(s) = Chunks
        /\ \A i \in DOMAIN s : s[i] = f[i]
    BY WholeEach DEF ReaderHolds, At
  <1>. HIDE DEF s, f
  <1>3. DOMAIN s = 1 .. Chunks /\ DOMAIN f = 1 .. Chunks /\ 1 \in 1 .. Chunks
    <2>1. DOMAIN s = 1 .. Len(s) /\ DOMAIN f = 1 .. Len(f)
      BY <1>1, ContentIsSeq
    <2>. QED  BY <1>2, <2>1 DEF WholeContent, CacheAssumption
  <1>4. WholeContent(s) /\ s[1] = f[1]
    BY <1>2, <1>3 DEF WholeContent
  <1>. QED  BY <1>4 DEF s, f

ByFirstChunk == /\ StoreOf = [k \in Key |-> EngineUnder(k)]
                /\ HeldBy = [t \in Thread |-> EngineRead(call[t])]

LEMMA Views == CacheTypeOK /\ WholeInv => ByFirstChunk
  <1>. SUFFICES ASSUME CacheTypeOK, WholeInv
                PROVE  /\ StoreOf = [k \in Key |-> EngineUnder(k)]
                       /\ HeldBy = [t \in Thread |-> EngineRead(call[t])]
    BY DEF ByFirstChunk
  <1>1. ASSUME NEW k \in Key
        PROVE  (IF Exists(EnginePath(k)) THEN EngineIn(files[dir[EnginePath(k)]]) ELSE NoEngine)
                  = EngineUnder(k)
    <2>1. CASE EnginePath(k) \in DOMAIN dir
      <3>1. WholeContent(files[dir[EnginePath(k)]])
        BY <2>1, PublishedOfBuild, CacheAssumption
      <3>. QED  BY <2>1, <3>1 DEF EngineUnder, EngineIn, Exists
    <2>2. CASE EnginePath(k) \notin DOMAIN dir
      BY <2>2 DEF EngineUnder, Exists
    <2>. QED  BY <2>1, <2>2
  <1>2. ASSUME NEW t \in Thread
        PROVE  (CASE At(t, "reading") -> EngineIn(files[call[t].file])
                  [] At(t, "loaded")  -> EngineIn(call[t].bytes)
                  [] OTHER            -> NoEngine) = EngineRead(call[t])
    <2>1. CASE call[t].pc = "reading"
      <3>1. WholeContent(files[call[t].file])
        BY <2>1, WholeEach DEF ReaderHolds
      <3>. QED  BY <2>1, <3>1 DEF EngineRead, EngineIn, At
    <2>2. CASE call[t].pc = "loaded"
      <3>1. WholeContent(call[t].bytes) /\ call[t].bytes[1] = files[call[t].file][1]
        BY <2>2, ReadWhole, CacheAssumption DEF At
      <3>. QED  BY <2>2, <3>1 DEF EngineRead, EngineIn, At
    <2>3. CASE call[t].pc \notin {"reading", "loaded"}
      BY <2>3 DEF EngineRead, At
    <2>. QED  BY <2>1, <2>2, <2>3
  <1>. QED  BY <1>1, <1>2 DEF StoreOf, HeldBy

LEMMA ViewsPrimed ==
    CacheTypeOK' /\ WholeInv' => /\ StoreOf' = [k \in Key |-> EngineUnder(k)']
                                 /\ HeldBy' = [t \in Thread |-> EngineRead(call[t])']
  <1>1. CacheTypeOK' /\ WholeInv' => ByFirstChunk'
    BY Views, PTL
  <1>. QED  BY <1>1 DEF ByFirstChunk

(* A name stands for what it stood for, if its file is left alone. *)
LEMMA KeptUnder ==
    ASSUME CacheAssumption, CacheTypeOK, WholeInv, NEW k \in Key,
           EnginePath(k) \in DOMAIN dir' <=> EnginePath(k) \in DOMAIN dir,
           EnginePath(k) \in DOMAIN dir =>
               files'[dir'[EnginePath(k)]] = files[dir[EnginePath(k)]],
           \A i \in DOMAIN builds : builds'[i] = builds[i]
    PROVE  EngineUnder(k)' = EngineUnder(k)
  BY PublishedOfBuild DEF EngineUnder

LEMMA KeptRead ==
    ASSUME CacheAssumption, CacheTypeOK, WholeInv, NEW u \in Thread,
           call'[u].pc \in {"reading", "loaded"} <=> call[u].pc \in {"reading", "loaded"},
           call[u].pc \in {"reading", "loaded"} =>
               call'[u].file = call[u].file /\ files'[call[u].file] = files[call[u].file],
           \A i \in DOMAIN builds : builds'[i] = builds[i]
    PROVE  EngineRead(call[u])' = EngineRead(call[u])
  BY ReaderOfBuild DEF EngineRead

StoreInv == CacheTypeOK /\ KeyedInv /\ WholeInv

LEMMA InitStore == CacheInit => Store!Init
  <1>. SUFFICES ASSUME CacheInit PROVE Store!Init
    OBVIOUS
  <1>1. DOMAIN dir = {}
    BY DEF CacheInit
  <1>2. \A t \in Thread : call[t].pc = "idle"
    BY DEF CacheInit, Idle
  <1>3. StoreOf = [k \in Key |-> NoEngine]
    BY <1>1 DEF StoreOf, Exists
  <1>4. HeldBy = [t \in Thread |-> NoEngine]
    BY <1>2 DEF HeldBy, At
  <1>. QED  BY <1>3, <1>4 DEF Store!Init

LEMMA StepStore ==
    ASSUME CacheAssumption, ThreadPerProcess, StoreInv, StoreInv', [CacheNext]_cacheVars
    PROVE  [Store!Next]_<<StoreOf, HeldBy>>
  <1>. USE CacheAssumption
  <1>0. /\ CacheTypeOK /\ KeyedInv /\ WholeInv /\ call \in [Thread -> Call]
        /\ StoreOf = [k \in Key |-> EngineUnder(k)]
        /\ HeldBy = [t \in Thread |-> EngineRead(call[t])]
        /\ StoreOf' = [k \in Key |-> EngineUnder(k)']
        /\ HeldBy' = [t \in Thread |-> EngineRead(call[t])']
    BY Views, ViewsPrimed DEF StoreInv, CacheTypeOK, ByFirstChunk
  <1>1. ASSUME UNCHANGED <<dir, files>>, \A i \in DOMAIN builds : builds'[i] = builds[i]
        PROVE  StoreOf' = StoreOf
    <2>1. \A k \in Key : EngineUnder(k)' = EngineUnder(k)
      BY <1>0, <1>1, KeptUnder
    <2>. QED  BY <1>0, <2>1
  <1>2. ASSUME NEW t \in Thread, NEW c, call' = [call EXCEPT ![t] = c], UNCHANGED files,
               \A i \in DOMAIN builds : builds'[i] = builds[i],
               c.pc \in {"reading", "loaded"} <=> call[t].pc \in {"reading", "loaded"},
               c.pc \in {"reading", "loaded"} => c.file = call[t].file
        PROVE  HeldBy' = HeldBy
    <2>1. ASSUME NEW u \in Thread PROVE EngineRead(call[u])' = EngineRead(call[u])
      <3>1. call'[u] = IF u = t THEN c ELSE call[u]
        BY <1>0, <1>2
      <3>. QED  BY <1>0, <1>2, <3>1, KeptRead
    <2>. QED  BY <1>0, <2>1
  <1>3. ASSUME UNCHANGED <<dir, files>>,
               \A i \in DOMAIN builds : builds'[i] = builds[i],
               NEW t \in Thread, NEW c, call' = [call EXCEPT ![t] = c],
               c.pc \in {"reading", "loaded"} <=> call[t].pc \in {"reading", "loaded"},
               c.pc \in {"reading", "loaded"} => c.file = call[t].file
        PROVE  UNCHANGED <<StoreOf, HeldBy>>
    BY <1>1, <1>2, <1>3
  <1>4. ASSUME NEW n \in Name, Edit(n) PROVE UNCHANGED <<StoreOf, HeldBy>>
    <2>1. UNCHANGED <<dir, files, builds, call>>
      BY <1>4 DEF Edit
    <2>2. \A u \in Thread : EngineRead(call[u])' = EngineRead(call[u])
      BY <2>1 DEF EngineRead
    <2>. QED  BY <1>0, <1>1, <2>1, <2>2
  <1>5. ASSUME NEW t \in Thread, NEW n \in Name, NEW p \in Profile, Ask(t, n, p)
        PROVE  UNCHANGED <<StoreOf, HeldBy>>
    <2>. DEFINE c == [pc |-> "keyed", key |-> KeyOf(n, p), asked |-> OnDisk(n, p)]
    <2>1. call' = [call EXCEPT ![t] = c] /\ UNCHANGED <<dir, files, builds>>
          /\ c.pc = "keyed" /\ call[t].pc = "idle"
      BY <1>5 DEF Ask, At
    <2>. HIDE DEF c
    <2>. QED  BY <1>3, <2>1
  <1>6. ASSUME NEW t \in Thread, Hit(t) PROVE UNCHANGED <<StoreOf, HeldBy>>
    <2>. DEFINE c == [call[t] EXCEPT !.pc = "ready"]
    <2>1. call[t] \in Asking /\ call[t].pc = "keyed"
      BY <1>0, <1>6, CallShape DEF Hit, At
    <2>2. c.pc = "ready"
      BY <2>1 DEF Asking
    <2>3. call' = [call EXCEPT ![t] = c] /\ UNCHANGED <<dir, files, builds>>
      BY <1>6 DEF Hit
    <2>. HIDE DEF c
    <2>. QED  BY <1>3, <2>1, <2>2, <2>3
  <1>7. ASSUME NEW t \in Thread, Miss(t) PROVE UNCHANGED <<StoreOf, HeldBy>>
    <2>. DEFINE c == [call[t] EXCEPT !.pc = "missed"]
    <2>1. call[t] \in Asking /\ call[t].pc = "keyed"
      BY <1>0, <1>7, CallShape DEF Miss, At
    <2>2. c.pc = "missed"
      BY <2>1 DEF Asking
    <2>3. call' = [call EXCEPT ![t] = c] /\ UNCHANGED <<dir, files, builds>>
      BY <1>7 DEF Miss
    <2>. HIDE DEF c
    <2>. QED  BY <1>3, <2>1, <2>2, <2>3
  <1>8. ASSUME NEW t \in Thread, BuildEngine(t) PROVE UNCHANGED <<StoreOf, HeldBy>>
    <2>. DEFINE c == [pc |-> "built", key |-> call[t].key, asked |-> call[t].asked,
                      blob |-> Len(builds')]
    <2>1. call' = [call EXCEPT ![t] = c] /\ UNCHANGED <<dir, files>>
          /\ c.pc = "built" /\ call[t].pc = "missed"
      BY <1>8 DEF BuildEngine, At
    <2>. HIDE DEF c
    <2>2. \A i \in DOMAIN builds : builds'[i] = builds[i]
      <3>1. PICK b : builds' = Append(builds, b)
        BY <1>8 DEF BuildEngine
      <3>2. builds \in Seq(Build \cup {b})
        BY <1>0, SeqMonotonic DEF CacheTypeOK
      <3>. QED  BY <3>1, <3>2, AppendProperties, LenProperties
    <2>. QED  BY <1>3, <2>1, <2>2
  <1>9. ASSUME NEW t \in Thread, OpenTmp(t) \/ WriteChunk(t)
        PROVE  UNCHANGED <<StoreOf, HeldBy>>
    <2>1. PICK c : call' = [call EXCEPT ![t] = c] /\ c.pc = "writing"
      <3>1. CASE OpenTmp(t)
        <4>. DEFINE o == [pc |-> "writing", key |-> call[t].key, asked |-> call[t].asked,
                          blob |-> call[t].blob, file |-> FileOf(t), off |-> 0]
        <4>1. call' = [call EXCEPT ![t] = o] /\ o.pc = "writing"
          BY <1>0, <3>1, Opened
        <4>. HIDE DEF o
        <4>. QED  BY <4>1
      <3>2. CASE WriteChunk(t)
        <4>. DEFINE o == [call[t] EXCEPT !.off = call[t].off + 1]
        <4>1. call' = [call EXCEPT ![t] = o] /\ call[t] \in Writing
          BY <1>0, <3>2, Wrote
        <4>2. o.pc = "writing"
          BY <4>1 DEF Writing
        <4>. HIDE DEF o
        <4>. QED  BY <4>1, <4>2
      <3>. QED  BY <1>9, <3>1, <3>2
    <2>2. builds' = builds /\ call[t].pc \in {"built", "writing"}
      <3>1. builds' = builds
        BY <1>0, <1>9, Opened, Wrote
      <3>. QED  BY <1>9, <3>1 DEF OpenTmp, WriteChunk, At
    <2>3. ASSUME NEW u \in Thread PROVE EngineRead(call[u])' = EngineRead(call[u])
      <3>1. call'[u] = IF u = t THEN c ELSE call[u]
        BY <1>0, <2>1
      <3>2. call[u].pc \in {"reading", "loaded"} => files'[call[u].file] = files[call[u].file]
        BY <1>0, <1>9, ReadersUndisturbed
      <3>. QED  BY <1>0, <2>1, <2>2, <3>1, <3>2, KeptRead
    <2>4. ASSUME NEW k \in Key PROVE EngineUnder(k)' = EngineUnder(k)
      <3>1. EnginePath(k) \in DOMAIN dir' <=> EnginePath(k) \in DOMAIN dir
        <4>1. CASE OpenTmp(t)
          <5>1. call[t].key \in Key /\ DOMAIN dir' = DOMAIN dir \cup {TmpPath(t, call[t].key)}
            BY <1>0, <4>1, Opened
          <5>. QED  BY <5>1, PathsDiffer
        <4>2. CASE WriteChunk(t)
          BY <1>0, <4>2, Wrote
        <4>. QED  BY <1>9, <4>1, <4>2
      <3>2. ASSUME EnginePath(k) \in DOMAIN dir
            PROVE  files'[dir'[EnginePath(k)]] = files[dir[EnginePath(k)]]
        <4>1. dir[EnginePath(k)] \in DOMAIN files
          BY <1>0, <3>2, PublishedOfBuild
        <4>2. CASE OpenTmp(t)
          <5>1. /\ call[t].key \in Key
                /\ dir' = [path \in DOMAIN dir \cup {TmpPath(t, call[t].key)} |->
                        IF path = TmpPath(t, call[t].key) THEN FileOf(t) ELSE dir[path]]
                /\ files' = [i \in DOMAIN files \cup {FileOf(t)} |->
                               IF i = FileOf(t) THEN <<>> ELSE files[i]]
            BY <1>0, <4>2, Opened
          <5>2. /\ TmpPath(t, call[t].key) \in DOMAIN dir =>
                      FileOf(t) = dir[TmpPath(t, call[t].key)]
                /\ TmpPath(t, call[t].key) \notin DOMAIN dir => FileOf(t) \notin DOMAIN files
            BY <1>0, <4>2, Opened DEF Exists
          <5>3. EnginePath(k) # TmpPath(t, call[t].key)
            BY <5>1, PathsDiffer
          <5>4. dir[EnginePath(k)] # FileOf(t)
            BY <1>0, <3>2, <4>1, <5>2, <5>3 DEF WholeInv, NamesApart
          <5>. QED  BY <3>2, <4>1, <5>1, <5>3, <5>4
        <4>3. CASE WriteChunk(t)
          <5>1. call[t].key \in Key /\ dir' = dir /\ call[t].file \in DOMAIN files
                /\ \E w : files' = [files EXCEPT ![call[t].file] = w]
            BY <1>0, <4>3, Wrote
          <5>2. /\ TmpPath(t, call[t].key) \in DOMAIN dir
                /\ dir[TmpPath(t, call[t].key)] = call[t].file
            BY <1>0, <4>3, WholeEach DEF WriteChunk, At, OwnsTmp
          <5>3. EnginePath(k) # TmpPath(t, call[t].key)
            BY <5>1, PathsDiffer
          <5>4. dir[EnginePath(k)] # call[t].file
            BY <1>0, <3>2, <5>2, <5>3 DEF WholeInv, NamesApart
          <5>. QED  BY <1>0, <4>1, <5>1, <5>4 DEF CacheTypeOK
        <4>. QED  BY <1>9, <4>2, <4>3
      <3>. QED  BY <1>0, <2>2, <3>1, <3>2, KeptUnder
    <2>. QED  BY <1>0, <2>3, <2>4
  <1>10. ASSUME NEW t \in Thread, Publish(t) PROVE Store!Put(call[t].key)
    <2>. DEFINE c == [pc |-> "ready", key |-> call[t].key, asked |-> call[t].asked]
                tmp == TmpPath(t, call[t].key)
                path == EnginePath(call[t].key)
                e == builds[call[t].blob]
    <2>1. /\ call[t] \in Writing /\ call[t].key \in Key /\ call[t].off = Chunks
          /\ call' = [call EXCEPT ![t] = c] /\ c.pc = "ready"
          /\ files' = files /\ builds' = builds
      BY <1>0, <1>10, Published
    <2>2. /\ DOMAIN dir' = (DOMAIN dir \ {tmp}) \cup {path}
          /\ tmp \in DOMAIN dir
          /\ dir'[path] = dir[tmp]
          /\ \A p \in DOMAIN dir \ {tmp, path} : dir'[p] = dir[p]
      BY <1>0, <1>10, Published
    <2>3. e \in Build /\ e.key = call[t].key
      <3>1. call[t].pc = "writing" /\ call[t].blob \in DOMAIN builds
        BY <2>1 DEF Writing
      <3>2. e \in Build
        BY <1>0, <3>1, ElementOfSeq, LenProperties DEF CacheTypeOK
      <3>. QED  BY <1>0, <3>1, <3>2 DEF KeyedInv, CallsKeyed, At
    <2>4. files[dir[tmp]] = [i \in 1 .. Chunks |-> call[t].blob]
      BY <1>0, <1>10, <2>1, WholeEach DEF Publish, At, OwnsTmp
    <2>5. ASSUME NEW k \in Key, k = call[t].key PROVE EngineUnder(k)' = e
      <3>1. 1 \in 1 .. Chunks
        BY DEF CacheAssumption
      <3>2. EnginePath(k) = path
        BY <2>5
      <3>. HIDE DEF path, tmp
      <3>. QED  BY <2>1, <2>2, <2>4, <3>1, <3>2 DEF EngineUnder
    <2>6. ASSUME NEW k \in Key, k # call[t].key PROVE EngineUnder(k)' = EngineUnder(k)
      <3>1. EnginePath(k) \notin {tmp, path}
        BY <2>1, <2>6, PathsDiffer
      <3>. HIDE DEF tmp, path
      <3>. QED  BY <1>0, <2>1, <2>2, <3>1, KeptUnder
    <2>. HIDE DEF e, c
    <2>7. StoreOf' = [StoreOf EXCEPT ![call[t].key] = e]
      <3>1. ASSUME NEW k \in Key
            PROVE  EngineUnder(k)' = IF k = call[t].key THEN e ELSE EngineUnder(k)
        <4>1. CASE k = call[t].key
          BY <2>5, <4>1
        <4>2. CASE k # call[t].key
          BY <2>6, <4>2
        <4>. QED  BY <4>1, <4>2
      <3>2. call[t].key \in Key
        BY <2>1
      <3>. QED  BY <1>0, <3>1, <3>2, Zenon
    <2>8. HeldBy' = HeldBy
      <3>1. call[t].pc = "writing"
        BY <1>10 DEF Publish, At
      <3>. QED  BY <1>2, <2>1, <3>1
    <2>. QED  BY <2>3, <2>7, <2>8 DEF Store!Put
  <1>11. ASSUME NEW t \in Thread, OpenEngine(t) PROVE Store!Get(t, call[t].key)
    <2>. DEFINE path == EnginePath(call[t].key)
                c == [pc |-> "reading", key |-> call[t].key, asked |-> call[t].asked,
                      file |-> dir[path], bytes |-> <<>>]
    <2>1. call' = [call EXCEPT ![t] = c] /\ UNCHANGED <<dir, files, builds>>
          /\ call[t].pc = "ready" /\ c.pc = "reading" /\ c.file = dir[path]
      BY <1>11 DEF OpenEngine, At
    <2>2. call[t].key \in Key /\ path \in DOMAIN dir
      BY <1>0, <1>11, CallShape DEF OpenEngine, CacheTypeOK, Exists, At
    <2>3. files[dir[path]][1] \in DOMAIN builds
      BY <1>0, <2>2, PublishedOfBuild
    <2>4. EngineUnder(call[t].key) = builds[files[dir[path]][1]]
          /\ EngineUnder(call[t].key) # NoEngine
      <3>1. builds[files[dir[path]][1]] \in Build
        BY <1>0, <2>3, ElementOfSeq, LenProperties DEF CacheTypeOK
      <3>. QED  BY <2>2, <3>1, NoEngineAssumption DEF EngineUnder, NoEngineAssumption
    <2>. HIDE DEF c, path
    <2>5. call'[t] = c /\ \A u \in Thread \ {t} : call'[u] = call[u]
      BY <1>0, <2>1
    <2>6. EngineRead(call[t])' = EngineUnder(call[t].key)
      BY <2>1, <2>4, <2>5 DEF EngineRead
    <2>7. \A u \in Thread \ {t} : EngineRead(call[u])' = EngineRead(call[u])
      BY <2>1, <2>5 DEF EngineRead
    <2>8. EngineRead(call[t]) = NoEngine
      BY <2>1 DEF EngineRead
    <2>9. HeldBy' = [HeldBy EXCEPT ![t] = StoreOf[call[t].key]]
      BY <1>0, <2>2, <2>6, <2>7
    <2>10. StoreOf' = StoreOf
      BY <1>1, <2>1
    <2>11. HeldBy[t] = NoEngine /\ StoreOf[call[t].key] # NoEngine
      BY <1>0, <2>2, <2>4, <2>8
    <2>. QED  BY <2>9, <2>10, <2>11 DEF Store!Get
  <1>12. ASSUME NEW t \in Thread, Fail(t) PROVE UNCHANGED <<StoreOf, HeldBy>>
    <2>1. call' = [call EXCEPT ![t] = Idle] /\ UNCHANGED <<dir, files, builds>>
          /\ call[t].pc \in {"missed", "writing"} /\ Idle.pc = "idle"
      BY <1>12 DEF Fail, Idle, At
    <2>. QED  BY <1>3, <2>1
  <1>13. ASSUME NEW t \in Thread, ReadChunk(t) PROVE UNCHANGED <<StoreOf, HeldBy>>
    <2>. DEFINE s == Append(call[t].bytes, files[call[t].file][Len(call[t].bytes) + 1])
                c == [call[t] EXCEPT !.bytes = s]
    <2>1. call' = [call EXCEPT ![t] = c] /\ UNCHANGED <<dir, files, builds>>
          /\ call[t].pc = "reading"
      BY <1>13 DEF ReadChunk, At
    <2>2. call[t] \in Reading
      BY <1>0, <2>1, CallShape DEF At
    <2>. HIDE DEF s
    <2>3. c.file = call[t].file /\ c.pc = call[t].pc
      BY <2>2 DEF Reading
    <2>. HIDE DEF c
    <2>. QED  BY <1>3, <2>1, <2>3
  <1>14. ASSUME NEW t \in Thread, Loaded(t) PROVE UNCHANGED <<StoreOf, HeldBy>>
    <2>. DEFINE c == [call[t] EXCEPT !.pc = "loaded"]
    <2>1. call' = [call EXCEPT ![t] = c] /\ UNCHANGED <<dir, files, builds>>
          /\ call[t].pc = "reading"
      BY <1>14 DEF Loaded, At
    <2>2. call[t] \in Reading
      BY <1>0, <2>1, CallShape DEF At
    <2>3. c.file = call[t].file /\ c.pc = "loaded"
      BY <2>2 DEF Reading
    <2>. HIDE DEF c
    <2>. QED  BY <1>3, <2>1, <2>3
  <1>15. ASSUME NEW T \in SUBSET Thread, UNCHANGED <<dir, files, builds>>,
                call' = [t \in Thread |-> IF t \in T THEN Idle ELSE call[t]]
         PROVE  Store!Drop(T)
    <2>1. ASSUME NEW u \in Thread
          PROVE  EngineRead(call[u])' = IF u \in T THEN NoEngine ELSE EngineRead(call[u])
      <3>1. call'[u] = IF u \in T THEN Idle ELSE call[u]
        BY <1>15
      <3>2. Idle.pc = "idle"
        BY DEF Idle
      <3>. QED  BY <1>15, <3>1, <3>2 DEF EngineRead
    <2>2. HeldBy' = [t \in Thread |-> IF t \in T THEN NoEngine ELSE HeldBy[t]]
      BY <1>0, <2>1
    <2>3. StoreOf' = StoreOf
      BY <1>1, <1>15
    <2>. QED  BY <2>2, <2>3 DEF Store!Drop
  <1>16. ASSUME NEW t \in Thread, Return(t) PROVE Store!Drop({t})
    <2>1. call' = [call EXCEPT ![t] = Idle] /\ UNCHANGED <<dir, files, builds>>
      BY <1>16 DEF Return
    <2>2. call' = [u \in Thread |-> IF u \in {t} THEN Idle ELSE call[u]]
      BY <1>0, <2>1
    <2>. QED  BY <1>15, <2>1, <2>2
  <1>17. ASSUME NEW q \in Process, Crash(q) PROVE \E T \in SUBSET Thread : Store!Drop(T)
    <2>. DEFINE T == {t \in Thread : PidOf[t] = q}
    <2>1. call' = [t \in Thread |-> IF t \in T THEN Idle ELSE call[t]]
          /\ UNCHANGED <<dir, files, builds>>
      BY <1>17 DEF Crash
    <2>2. T \in SUBSET Thread
      OBVIOUS
    <2>. HIDE DEF T
    <2>. QED  BY <1>15, <2>1, <2>2
  <1>18. ASSUME UNCHANGED cacheVars PROVE UNCHANGED <<StoreOf, HeldBy>>
    <2>1. UNCHANGED <<dir, files, builds, call>>
      BY <1>18 DEF cacheVars
    <2>2. \A u \in Thread : EngineRead(call[u])' = EngineRead(call[u])
      BY <2>1 DEF EngineRead
    <2>. QED  BY <1>0, <1>1, <2>1, <2>2
  <1>19. ASSUME NEW t \in Thread, Publish(t) PROVE Store!Next
    <2>1. call[t].key \in Key
      BY <1>0, <1>19, Published
    <2>. QED  BY <1>10, <1>19, <2>1 DEF Store!Next
  <1>20. ASSUME NEW t \in Thread, OpenEngine(t) PROVE Store!Next
    <2>1. call[t].key \in Key
      BY <1>0, <1>20, CallShape DEF OpenEngine, At
    <2>. QED  BY <1>11, <1>20, <2>1 DEF Store!Next
  <1>21. ASSUME NEW t \in Thread, Return(t) PROVE Store!Next
    <2>1. {t} \in SUBSET Thread
      OBVIOUS
    <2>. QED  BY <1>16, <1>21, <2>1 DEF Store!Next
  <1>22. ASSUME NEW q \in Process, Crash(q) PROVE Store!Next
    BY <1>17, <1>22 DEF Store!Next
  <1>. QED  BY <1>4, <1>5, <1>6, <1>7, <1>8, <1>9, <1>12, <1>13, <1>14, <1>18,
               <1>19, <1>20, <1>21, <1>22 DEF CacheNext, Step

(* With a thread to a process and no export between hash and build, calls, *)
(* crashes, lost races and readers that are overtaken are steps of a table *)
(* of whole engines: a rename is the one step that puts an engine there,   *)
(* under its own key, and a reader holds one engine until it lets go.      *)
THEOREM CacheIsAStore ==
    ASSUME ThreadPerProcess, ~EditMidCall
    PROVE  CacheSpec => ImplementsStore
  <1>1. CacheInit => StoreInv
    BY InitTyped, InitKeyed, InitWhole, CacheAssumption DEF StoreInv
  <1>2. StoreInv /\ [CacheNext]_cacheVars => StoreInv'
    <2>. SUFFICES ASSUME StoreInv, [CacheNext]_cacheVars
                  PROVE  CacheTypeOK' /\ KeyedInv' /\ WholeInv'
      BY DEF StoreInv
    <2>. QED  BY NextTyped, NextKeyed, NextWhole, CacheAssumption DEF StoreInv
  <1>3. StoreInv /\ StoreInv' /\ [CacheNext]_cacheVars => [Store!Next]_<<StoreOf, HeldBy>>
    BY StepStore, CacheAssumption
  <1>4. CacheInit => Store!Init
    BY InitStore
  <1>. QED  BY <1>1, <1>2, <1>3, <1>4, PTL
            DEF CacheSpec, ImplementsStore, Store!Spec, Store!storeVars
=============================================================================
