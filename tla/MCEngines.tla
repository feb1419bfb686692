------------------------------ MODULE MCEngines ------------------------------
(***************************************************************************)
(* Instances of the way of an engine: the cache that finds or builds it    *)
(* (every thread in a process of its own, or all of them in one), what a   *)
(* model reads from it, and the kernels that pack what it answers. One job *)
(* of them at a time, the others rest.                                     *)
(***************************************************************************)
EXTENDS EngineCacheProperties, EngineContractProperties, SurvivorsProperties, TLC

VARIABLE job

Apart == [t \in Thread |-> t]
Together == [t \in Thread |-> CHOOSE q \in Process : TRUE]

Symmetry == Permutations(Thread) \cup Permutations(Profile)
------------------------------------------------------------------------------
(* Exports as documented, and ones with outputs of their own beside them.  *)
Typed(is, name, dims, type) == [is |-> is, name |-> name, dims |-> dims, type |-> type]
Shaped(is, shapes) == {Typed(is, is, dims, "f32") : dims \in shapes}

SomeInputs ==
    [detr |-> {<<1, 3, 2, 2>>, <<1, 3, -1, 2>>}, seg |-> {<<1, 3, 2, 2>>}, kpts |-> {<<1, 3, 2, 2>>},
     depth |-> {<<1, 3, 2, 2>>}, dino |-> {<<1, 3, 4, 4>>, <<1, 3, 4, 2>>, <<1, 3, 3, 4>>},
     raco |-> {<<-1, 3, -1, -1>>, <<1, 3, 4>>}, osnet |-> {<<2, 3, 4, 2>>, <<-1, 3, 4, 2>>}]
SomeTensors ==
    [detr |-> Shaped("boxes", {<<1, 2, 4>>, <<1, 3, 4>>, <<1, -1, 4>>})
              \cup Shaped("logits", {<<1, 2, 5>>, <<1, 3, 4>>, <<1, -1, 5>>, <<1, 2, 3>>})
              \cup Shaped("aux", {<<1, 2, 6>>, <<7>>, <<1, 2, 3>>})
              \cup {Typed("logits", "logits", <<1, 2, 5>>, "f16"), Typed("aux", "aux", <<7>>, "i64")},
     seg |-> Shaped("boxes", {<<1, 2, 4>>, <<1, 3, 4>>}) \cup Shaped("labels", {<<1, 2, 3>>, <<1, 2, 4>>})
             \cup Shaped("dense", {<<1, 2, 2, 2>>, <<1, -1, 2, 2>>})
             \cup Shaped("tokens", {<<1, 5, 2, 2>>, <<1, 1, 2, 3>>, <<1, 5, 4>>}) \cup Shaped("aux", {<<1, 9>>}),
     kpts |-> Shaped("boxes", {<<1, 2, 4>>}) \cup Shaped("labels", {<<1, 2, 2>>, <<1, 3, 2>>, <<1, 2, 4>>})
              \cup Shaped("dense", {<<1, 2, 3, 2>>, <<2, 2, 3, 2>>}) \cup Shaped("aux", {<<1, 3, 1>>}),
     depth |-> Shaped("depth", {<<1, 1, 2, 3>>, <<1, 2, 3>>, <<1, -1, 3>>})
               \cup Shaped("aux", {<<1, 2, 4>>, <<1, 3>>, <<1, 3, 2, 3>>}),
     dino |-> Shaped("desc", {<<1, 2>>, <<1, 3>>, <<1, -1>>})
              \cup Shaped("toks", {<<1, 5, 2>>, <<1, 3, 2>>, <<1, 4, 3>>})
              \cup Shaped("aux", {<<1, 2>>, <<1, 9, 2>>, <<1, 2, 2, 2>>}),
     raco |-> {Typed(r[1], r[2], <<b, k, r[3]>>, type) :
                r \in {<<"kpts", "keypoints", 2>>, <<"norm", "normalized_keypoints", 2>>, <<"descs", "descriptors", 3>>},
                b \in {-1, 2}, k \in {1, 2}, type \in {"f32", "bf16"}},
     osnet |-> Shaped("desc", {<<2, 3>>, <<1, 3>>, <<2, -1>>}) \cup Shaped("aux", {<<2, 1>>})]

SomeQueries == 0 .. 2
SomeLogits  == {0, 1, NaN}

\* the first image over every heat map, the second one of two
SomeHeatMaps ==
    LET Flat == [p \in Pixels |-> 1]
        Maps(h, r) == [heat |-> h, reliability |-> r]
    IN  {<<Maps(h, Flat)>> : h \in [Pixels -> {0, 1, 2, 5}]}
        \cup {<<Maps(h, [Flat EXCEPT ![0] = r]), Maps(g, Flat)>> :
                h \in [Pixels -> {0, 1, 3}], r \in {0, 2},
                g \in {[Flat EXCEPT ![0] = 0], [Flat EXCEPT ![1] = 3]}}
------------------------------------------------------------------------------
KernelsRest ==
    /\ crate = "detr"
    /\ in = CHOOSE answer \in Answers("detr") : TRUE
    /\ SurvivorsInit

Init ==
    \/ job = "cache" /\ CacheInit /\ EngineOff /\ KernelsRest
    \/ job = "contract" /\ CacheInit /\ EngineInit /\ KernelsRest
    \/ job = "kernels" /\ CacheInit /\ EngineOff /\ SurvivorsInit

vars == <<job, cacheVars, engine, survivorsVars>>

(* An engine that was read or refused, a submit that ran: nothing follows. *)
Over == \/ job = "contract" /\ engine.pc \in {"decoded", "failed"}
        \/ job = "kernels" /\ Synced

Next ==
    \/ job = "cache" /\ CacheNext /\ UNCHANGED <<job, engine, survivorsVars>>
    \/ job = "contract" /\ LoadAndRun /\ UNCHANGED <<job, cacheVars, survivorsVars>>
    \/ job = "kernels" /\ SurvivorsNext /\ UNCHANGED <<job, cacheVars, engine>>
    \/ Over /\ UNCHANGED vars

Spec == Init /\ [][Next]_vars
==============================================================================
