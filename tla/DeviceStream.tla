---------------------------- MODULE DeviceStream ----------------------------
(***************************************************************************)
(* Work on the one CUDA stream that all stages of a pipeline share.        *)
(*                                                                         *)
(* Device buffers, pinned host buffers and fields of host structs are      *)
(* cells <<owner, name>>. What a buffer holds is abstracted to the frames  *)
(* it was computed from, a sequence: <<f>> for one frame, <<f, g>> for a   *)
(* pair. An operation whose inputs belong to different frames, or that     *)
(* runs with the wrong dimensions, leaves Garbled behind.                  *)
(*                                                                         *)
(* A call only enqueues and the device executes in order, so mem is what   *)
(* the cells hold once the device has caught up: all a host that           *)
(* synchronises before it reads can see. What does depend on how far the   *)
(* device is, is kept beside it: busy, the models with a run that may      *)
(* still be executing, and dirty, the cells that may still be waited for.  *)
(***************************************************************************)
EXTENDS Naturals, Sequences, FiniteSets, SequencesExt, Functions

Zero == <<0>>          \* memory that was set to zero
Garbled == <<>>        \* uninitialised, freed, torn or mixed
NoSize == <<>>

(* The host side of a model: the dims it believes its buffers have, the    *)
(* dims they do have, those of its TensorRT context, and the buffers bound *)
(* to outputs for the next run.                                            *)
NewModel == [cur |-> NoSize, input |-> NoSize, score |-> NoSize, ctx |-> NoSize,
             bound |-> <<>>]

(* An operand is a set of sources that must belong together; a source is a *)
(* cell, or a literal value. Accumulating into zeroed memory leaves what   *)
(* is accumulated.                                                         *)
Lit(v) == <<"lit", v>>
Held(src, mem) == CASE src[1] = "lit" -> src[2]
                    [] src[1] # "lit" /\ src \in DOMAIN mem -> mem[src]
                    [] OTHER -> Garbled
Common(vs) == CASE Cardinality(vs \ {Zero}) = 0 -> Zero
                [] Cardinality(vs \ {Zero}) = 1 -> CHOOSE v \in vs \ {Zero} : TRUE
                [] OTHER -> Garbled

(* What an operation computes: its operands side by side. *)
Computed(from, sound, mem) ==
    LET parts == [i \in DOMAIN from |-> Common({Held(s, mem) : s \in from[i]})]
    IN  IF sound /\ \A i \in DOMAIN parts : parts[i] # Garbled
        THEN FlattenSeq(parts) ELSE Garbled

(* writes gives for each cell the part of the result it gets, 0 for all. *)
All(cells) == [c \in cells |-> 0]
Part(v, i) == IF i = 0 THEN v ELSE IF i \in DOMAIN v THEN <<v[i]>> ELSE Garbled

Enqueue(s, writes, from, sound) ==
    LET v == Computed(from, sound, s.mem)
    IN  [s EXCEPT !.mem = [c \in DOMAIN @ \cup DOMAIN writes |->
                              IF c \in DOMAIN writes THEN Part(v, writes[c]) ELSE @[c]],
                  !.dirty = @ \cup DOMAIN writes]

Idle(s) == [s EXCEPT !.busy = {}, !.dirty = {}]
-----------------------------------------------------------------------------
(* The steps a submit is made of. fails is the kind of failure a step may  *)
(* have, for an allocation the buffer. sizes must all be one size for a    *)
(* kernel to index its buffers as they are laid out.                       *)
Enq(writes, from, sizes) ==
    [do |-> "enqueue", writes |-> writes, from |-> from, sizes |-> sizes,
     fails |-> "launch"]
Preprocess(m, frames) ==
    [do |-> "enqueue", writes |-> All({<<m, "input">>}), from |-> <<{Lit(frames)}>>,
     sizes |-> {}, fails |-> "reject"]
Set(cell, v) == [do |-> "set", cell |-> cell, val |-> v, fails |-> "never"]
Check == [do |-> "check", fails |-> "reject"]
Drain == [do |-> "drain", fails |-> "launch"]
Resize(m, buf, size) ==
    [do |-> "resize", m |-> m, buf |-> buf, size |-> size, fails |-> buf]
SetCur(m, size) ==
    [do |-> "resize", m |-> m, buf |-> "cur", size |-> size, fails |-> "never"]
Bind(m, o, cell) ==
    [do |-> "bind", m |-> m, out |-> o, cell |-> cell, fails |-> "never"]
Run(m, outs, inputs) ==
    [do |-> "run", m |-> m, outs |-> outs, inputs |-> inputs, fails |-> "reject"]

(* TensorRT writes an output to the buffer bound for this run, else to the *)
(* session's own.                                                          *)
Destination(s, m, o) ==
    IF o \in DOMAIN s.model[m].bound THEN s.model[m].bound[o] ELSE <<m, o>>

(* Setting another input shape on a context with a run in flight mutates   *)
(* what that run is reading: whatever is not finished is lost.             *)
Configure(s, m) ==
    LET size == s.model[m].input
        torn == IF m \in s.busy /\ s.model[m].ctx # size THEN s.dirty ELSE {}
    IN  [s EXCEPT !.model[m].ctx = size,
                  !.mem = [c \in DOMAIN @ |-> IF c \in torn THEN Garbled ELSE @[c]]]

EnqueueRun(s, m, outs, inputs) ==
    LET dst == [o \in outs |-> Destination(s, m, o)]
        distinct == \A o, p \in outs : dst[o] = dst[p] => o = p
    IN  [Enqueue(s, All({dst[o] : o \in outs}), inputs, distinct) EXCEPT !.busy = @ \cup {m}]

(* run_device_inputs_on_device: the bindings go on every way out. Fault:   *)
(* they go after a successful run only.                                    *)
Unbind(s, m) == [s EXCEPT !.model[m].bound = <<>>]
FailedRunFault(s, m) == {s, Configure(s, m)}
FailedRun(s, m) == {Unbind(s, m), Unbind(Configure(s, m), m)}

SizeNow(s, src) == CASE src[1] = "lit" -> src[2]
                     [] src[1] = "cell" -> s.mem[src[2]]
                     [] OTHER -> s.model[src[1]][src[2]]

Apply(s, step) ==
    CASE step.do = "enqueue" ->
           Enqueue(s, step.writes, step.from,
                   Cardinality({SizeNow(s, x) : x \in step.sizes}) <= 1)
      [] step.do = "set" -> [s EXCEPT !.mem[step.cell] = step.val]
      [] step.do = "check" -> s
      [] step.do = "drain" -> Idle(s)
      [] step.do = "resize" -> [s EXCEPT !.model[step.m][step.buf] = step.size]
      [] step.do = "bind" ->
           [s EXCEPT !.model[step.m].bound =
               [o \in DOMAIN @ \cup {step.out} |-> IF o = step.out THEN step.cell ELSE @[o]]]
      [] step.do = "run" ->
           Unbind(EnqueueRun(Configure(s, step.m), step.m, step.outs, step.inputs), step.m)

Failed(s, step) == IF step.do = "run" THEN FailedRun(s, step.m) ELSE {s}

(* The states a program passes through, from s on. *)
Passed(s, program) ==
    LET states[i \in 0 .. Len(program)] ==
            IF i = 0 THEN <<s>>
            ELSE LET before == states[i - 1]
                 IN  Append(before, Apply(before[i], program[i]))
    IN  states[Len(program)]

(* A program that runs to its end, and the states one may leave behind     *)
(* when a step fails in one of the given ways. What the models' own        *)
(* buffers hold between two calls is nobody's.                             *)
Forget(s) ==
    LET kept == {c \in DOMAIN s.mem : c[1] \notin DOMAIN s.model}
    IN  [s EXCEPT !.mem = Restrict(@, kept), !.dirty = @ \cap kept]
Completed(passed) == Forget(Last(passed))
CutShort(passed, program, ways) ==
    {Forget(s) : s \in UNION {Failed(passed[i], program[i]) :
                           i \in {j \in DOMAIN program : program[j].fails \in ways}}}
=============================================================================
