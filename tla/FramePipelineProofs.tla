------------------------- MODULE FramePipelineProofs -------------------------
(***************************************************************************)
(* No run of a model writes into a result that was dropped, for any        *)
(* results, frames and faults.                                             *)
(***************************************************************************)
EXTENDS FramePipelineProperties, Sums

-----------------------------------------------------------------------------
(* The states a program passes through.                                    *)
Along(s, program, states, i) ==
    IF i = 0 THEN <<s>>
    ELSE Append(states[i - 1], Apply(states[i - 1][i], program[i]))
IsPassed(s, program, n, states) ==
    states = [i \in 0 .. n |-> Along(s, program, states, i)]

LEMMA PassedMeans ==
    ASSUME NEW s, NEW program
    PROVE  Passed(s, program)
             = (CHOOSE states : IsPassed(s, program, Len(program), states))[Len(program)]
BY Zenon DEF Passed, IsPassed, Along

LEMMA PassedExists ==
    ASSUME NEW s, NEW program, NEW n \in Nat
    PROVE  \E states : IsPassed(s, program, n, states)
<1> DEFINE F == {m \in Nat : \E states : IsPassed(s, program, m, states)}
           Step(seq, m) == Append(seq, Apply(seq[m], program[m]))
<1>1. 0 \in F
    <2> DEFINE it == [k \in 0 .. 0 |-> <<s>>]
    <2>1. \A k \in 0 .. 0 : k = 0  OBVIOUS
    <2>2. it = [k \in 0 .. 0 |-> Along(s, program, it, k)]  BY <2>1 DEF Along
    <2>3. IsPassed(s, program, 0, it)  BY <2>2 DEF IsPassed
    <2> QED BY <2>3
<1>2. ASSUME NEW m \in Nat, m \in F PROVE m + 1 \in F
    <2>1. PICK t : IsPassed(s, program, m, t)  BY <1>2
    <2>2. \A k \in 0 .. m : t[k] = Along(s, program, t, k)  BY <2>1, Zenon DEF IsPassed
    <2> DEFINE it == [k \in 0 .. m + 1 |-> IF k <= m THEN t[k] ELSE Step(t[m], m + 1)]
    <2>3. DOMAIN it = 0 .. m + 1 /\ it = [k \in 0 .. m + 1 |-> it[k]]  OBVIOUS
    <2>4. \A k \in 0 .. m : it[k] = t[k]  OBVIOUS
    <2>5. it[m + 1] = Step(t[m], m + 1)  OBVIOUS
    <2> HIDE DEF it
    <2>6. ASSUME NEW k \in 0 .. m + 1 PROVE it[k] = Along(s, program, it, k)
        <3>1. CASE k = 0
            <4>1. 0 \in 0 .. m  OBVIOUS
            <4> QED BY <2>2, <2>4, <3>1, <4>1 DEF Along
        <3>2. CASE k # 0 /\ k <= m
            <4>1. k \in 0 .. m /\ k - 1 \in 0 .. m  BY <3>2
            <4>2. it[k] = t[k] /\ it[k - 1] = t[k - 1]  BY <2>4, <4>1
            <4>3. t[k] = Step(t[k - 1], k)  BY <2>2, <3>2, <4>1 DEF Along
            <4> QED BY <3>2, <4>2, <4>3 DEF Along
        <3>3. CASE k = m + 1
            <4>1. k # 0 /\ k - 1 = m /\ m \in 0 .. m  BY <3>3
            <4>2. it[m] = t[m]  BY <2>4, <4>1
            <4> QED BY <2>5, <3>3, <4>1, <4>2 DEF Along
        <3> QED BY <3>1, <3>2, <3>3
    <2>7. [k \in 0 .. m + 1 |-> it[k]] = [k \in 0 .. m + 1 |-> Along(s, program, it, k)]
        BY <2>6, Zenon
    <2>8. IsPassed(s, program, m + 1, it)  BY <2>3, <2>7, Zenon DEF IsPassed
    <2> QED BY <2>8
<1> HIDE DEF F
<1>3. n \in F  BY <1>1, <1>2, EveryNumber
<1> QED BY <1>3 DEF F

LEMMA AppendMeans ==
    ASSUME NEW n \in Nat, NEW seq, DOMAIN seq = 1 .. n, NEW x
    PROVE  /\ DOMAIN Append(seq, x) = 1 .. n + 1
           /\ \A i \in 1 .. n : Append(seq, x)[i] = seq[i]
           /\ Append(seq, x)[n + 1] = x
OBVIOUS

(* They are one more than the steps, and each step leads to the next.      *)
LEMMA PassedSteps ==
    ASSUME NEW s, NEW program, Len(program) \in Nat
    PROVE  LET passed == Passed(s, program)
           IN  /\ DOMAIN passed = 1 .. Len(program) + 1
               /\ passed[1] = s
               /\ \A i \in 1 .. Len(program) : passed[i + 1] = Apply(passed[i], program[i])
<1> DEFINE n == Len(program)
           t == CHOOSE states : IsPassed(s, program, n, states)
           Good(m) == /\ DOMAIN t[m] = 1 .. m + 1 /\ t[m][1] = s
                      /\ \A i \in 1 .. m : t[m][i + 1] = Apply(t[m][i], program[i])
           F == {m \in Nat : m <= n => Good(m)}
<1>1. IsPassed(s, program, n, t)  BY PassedExists, Zenon
<1>2. Passed(s, program) = t[n]  BY PassedMeans, Zenon
<1> HIDE DEF t
<1>3. n \in Nat  OBVIOUS
<1> HIDE DEF n
<1>4. \A k \in 0 .. n : t[k] = Along(s, program, t, k)  BY <1>1, Zenon DEF IsPassed
<1>5. 0 \in F
    <2>1. 0 \in 0 .. n  BY <1>3
    <2>2. t[0] = <<s>>  BY <1>4, <2>1 DEF Along
    <2> QED BY <2>2
<1>6. ASSUME NEW m \in Nat, m \in F PROVE m + 1 \in F
    <2> SUFFICES ASSUME m + 1 <= n PROVE Good(m + 1)
        OBVIOUS
    <2>1. m <= n /\ m + 1 \in 0 .. n /\ m + 1 # 0 /\ (m + 1) - 1 = m  BY <1>3
    <2>2. Good(m)  BY <1>6, <2>1
    <2> DEFINE x == Apply(t[m][m + 1], program[m + 1])
    <2>3. t[m + 1] = Append(t[m], x)  BY <1>4, <2>1 DEF Along
    <2> HIDE DEF x
    <2>4. DOMAIN t[m] = 1 .. m + 1  BY <2>2
    <2>5. /\ DOMAIN t[m + 1] = 1 .. (m + 1) + 1
          /\ \A i \in 1 .. m + 1 : t[m + 1][i] = t[m][i]
          /\ t[m + 1][(m + 1) + 1] = x
        BY <2>3, <2>4, AppendMeans
    <2>6. t[m + 1][1] = s
        <3>1. 1 \in 1 .. m + 1  OBVIOUS
        <3> QED BY <2>2, <2>5, <3>1
    <2>7. ASSUME NEW i \in 1 .. m + 1 PROVE t[m + 1][i + 1] = Apply(t[m + 1][i], program[i])
        <3>1. CASE i \in 1 .. m
            <4>1. i + 1 \in 1 .. m + 1 /\ i \in 1 .. m + 1  BY <3>1
            <4>2. t[m + 1][i + 1] = t[m][i + 1] /\ t[m + 1][i] = t[m][i]  BY <2>5, <4>1
            <4>3. t[m][i + 1] = Apply(t[m][i], program[i])  BY <2>2, <3>1
            <4> QED BY <4>2, <4>3
        <3>2. CASE i = m + 1
            <4>1. t[m + 1][i] = t[m][m + 1]  BY <2>5, <3>2
            <4> QED BY <2>5, <3>2, <4>1 DEF x
        <3> QED BY <3>1, <3>2
    <2> QED BY <2>5, <2>6, <2>7
<1> HIDE DEF F
<1>7. n \in F  BY <1>3, <1>5, <1>6, EveryNumber
<1>8. Good(n)  BY <1>3, <1>7 DEF F
<1> QED BY <1>2, <1>8 DEF n
-----------------------------------------------------------------------------
(* What one step does to cells that nothing is bound to and that it does   *)
(* not name, and to the bindings.                                          *)
Host(s) ==
    /\ {"mem", "model"} \subseteq DOMAIN s
    /\ \A m \in DOMAIN s.model : "bound" \in DOMAIN s.model[m]

Spared(s, gone) ==
    /\ \A c \in gone : c \in DOMAIN s.mem /\ s.mem[c] = Garbled
    /\ \A m \in DOMAIN s.model : \A o \in DOMAIN s.model[m].bound : s.model[m].bound[o] \notin gone

Sparing(step, gone) ==
    \/ step.do = "enqueue" /\ DOMAIN step.writes \cap gone = {}
    \/ step.do = "set" /\ step.cell \notin gone
    \/ step.do \in {"check", "drain"}
    \/ step.do = "resize" /\ step.buf # "bound"
    \/ step.do = "bind" /\ step.cell \notin gone
    \/ step.do = "run" /\ \A o \in step.outs : <<step.m, o>> \notin gone

SameHost(s, t) == Host(t) /\ DOMAIN t.model = DOMAIN s.model
SameBound(s, t) == \A k \in DOMAIN s.model : t.model[k].bound = s.model[k].bound
NewBound(s, t, m, b) ==
    \A k \in DOMAIN s.model : t.model[k].bound = IF k = m THEN b ELSE s.model[k].bound

LEMMA EnqueueSpares ==
    ASSUME NEW s, Host(s), NEW writes, NEW from, NEW sound,
           NEW t, t = Enqueue(s, writes, from, sound)
    PROVE  /\ SameHost(s, t) /\ SameBound(s, t)
           /\ \A gone : Spared(s, gone) /\ DOMAIN writes \cap gone = {} => Spared(t, gone)
<1> DEFINE v == Computed(from, sound, s.mem)
           mem == [c \in DOMAIN s.mem \cup DOMAIN writes |->
                      IF c \in DOMAIN writes THEN Part(v, writes[c]) ELSE s.mem[c]]
<1>1. /\ DOMAIN t = DOMAIN s /\ t.model = s.model /\ t.mem = mem
    <2> HIDE DEF mem
    <2>1. t = [s EXCEPT !.mem = mem, !.dirty = s.dirty \cup DOMAIN writes]
        BY Zenon DEF Enqueue, mem
    <2> QED BY <2>1 DEF Host
<1> HIDE DEF v
<1>2. SameHost(s, t) /\ SameBound(s, t)  BY <1>1 DEF Host, SameHost, SameBound
<1>3. ASSUME NEW gone, Spared(s, gone), DOMAIN writes \cap gone = {} PROVE Spared(t, gone)
    <2>1. \A c \in gone : c \in DOMAIN mem /\ mem[c] = Garbled  BY <1>3 DEF Spared
    <2> HIDE DEF mem
    <2> QED BY <1>1, <1>3, <2>1 DEF Spared
<1> QED BY <1>2, <1>3

LEMMA BoundSet ==
    ASSUME NEW s, Host(s), NEW m, NEW b, NEW t, t = [s EXCEPT !.model[m].bound = b]
    PROVE  SameHost(s, t) /\ t.mem = s.mem /\ NewBound(s, t, m, b)
BY DEF Host, SameHost, NewBound

LEMMA ConfigureSpares ==
    ASSUME NEW s, Host(s), NEW m,
           NEW t, t = Configure(s, m)
    PROVE  /\ SameHost(s, t) /\ SameBound(s, t)
           /\ \A gone : Spared(s, gone) => Spared(t, gone)
<1> DEFINE size == s.model[m].input
           torn == IF m \in s.busy /\ s.model[m].ctx # size THEN s.dirty ELSE {}
           mem == [c \in DOMAIN s.mem |-> IF c \in torn THEN Garbled ELSE s.mem[c]]
<1>1. t = [s EXCEPT !.model[m].ctx = size, !.mem = mem]
    BY Zenon DEF Configure
<1> HIDE DEF mem, size
<1>2. SameHost(s, t) /\ t.mem = mem /\ SameBound(s, t)
    BY <1>1 DEF Host, SameHost, SameBound
<1>3. ASSUME NEW gone, Spared(s, gone) PROVE Spared(t, gone)
    <2>1. \A c \in gone : c \in DOMAIN mem /\ mem[c] = Garbled  BY <1>3 DEF Spared, mem
    <2> QED BY <1>2, <1>3, <2>1 DEF Spared, SameHost, SameBound
<1> QED BY <1>2, <1>3

(* When the bindings of a model go, those that are left bind what they did. *)
LEMMA UnbindSpares ==
    ASSUME NEW s, Host(s), NEW m,
           NEW t, t = Unbind(s, m)
    PROVE  /\ SameHost(s, t) /\ NewBound(s, t, m, <<>>)
           /\ \A gone : Spared(s, gone) => Spared(t, gone)
<1>1. t = [s EXCEPT !.model[m].bound = <<>>]  BY DEF Unbind
<1>2. SameHost(s, t) /\ t.mem = s.mem /\ NewBound(s, t, m, <<>>)
    BY <1>1 DEF Host, SameHost, NewBound
<1>3. ASSUME NEW gone, Spared(s, gone) PROVE Spared(t, gone)
    <2> SUFFICES ASSUME NEW k \in DOMAIN t.model, NEW o \in DOMAIN t.model[k].bound
                 PROVE  t.model[k].bound[o] \notin gone
        BY <1>2, <1>3 DEF Spared
    <2>1. k # m /\ t.model[k].bound = s.model[k].bound  BY <1>2 DEF SameHost, NewBound
    <2> QED BY <1>2, <1>3, <2>1 DEF Spared, SameHost
<1> QED BY <1>2, <1>3

LEMMA RunSpares ==
    ASSUME NEW s, Host(s), NEW m, NEW outs, NEW inputs, m \in DOMAIN s.model,
           NEW t, t = Unbind(EnqueueRun(Configure(s, m), m, outs, inputs), m)
    PROVE  /\ SameHost(s, t) /\ NewBound(s, t, m, <<>>)
           /\ \A gone : Spared(s, gone) /\ (\A o \in outs : <<m, o>> \notin gone) => Spared(t, gone)
<1> DEFINE c == Configure(s, m)
           dst == [o \in outs |-> Destination(c, m, o)]
           distinct == \A o, p \in outs : dst[o] = dst[p] => o = p
           writes == All({dst[o] : o \in outs})
           e == Enqueue(c, writes, inputs, distinct)
           r == [e EXCEPT !.busy = e.busy \cup {m}]
<1>0. EnqueueRun(c, m, outs, inputs) = r  BY Zenon DEF EnqueueRun
<1>1. t = Unbind(r, m)  BY <1>0
<1>2. SameHost(s, c) /\ SameBound(s, c) /\ \A gone : Spared(s, gone) => Spared(c, gone)
    BY ConfigureSpares
<1>3. ASSUME NEW gone, Spared(c, gone), \A o \in outs : <<m, o>> \notin gone
      PROVE  DOMAIN writes \cap gone = {}
    <2>1. ASSUME NEW o \in outs PROVE dst[o] \notin gone
        <3>1. dst[o] = IF o \in DOMAIN c.model[m].bound THEN c.model[m].bound[o] ELSE <<m, o>>
            BY Zenon DEF Destination
        <3>2. m \in DOMAIN c.model  BY <1>2 DEF SameHost
        <3> QED BY <1>3, <3>1, <3>2 DEF Spared
    <2> HIDE DEF dst
    <2> QED BY <2>1 DEF All
<1>4. /\ SameHost(c, e) /\ SameBound(c, e)
      /\ \A gone : Spared(c, gone) /\ DOMAIN writes \cap gone = {} => Spared(e, gone)
    <2> HIDE DEF c, writes, distinct
    <2>1. Host(c)  BY <1>2 DEF SameHost
    <2>2. e = Enqueue(c, writes, inputs, distinct)  OBVIOUS
    <2> HIDE DEF e
    <2> QED BY <2>1, <2>2, EnqueueSpares, Zenon
<1> HIDE DEF e, c
<1>5. Host(r) /\ r.model = e.model /\ r.mem = e.mem
    BY <1>4 DEF Host, SameHost
<1>6. \A gone : Spared(e, gone) => Spared(r, gone)  BY <1>5 DEF Spared
<1> HIDE DEF r
<1>7. SameHost(r, t) /\ NewBound(r, t, m, <<>>) /\ \A gone : Spared(r, gone) => Spared(t, gone)
    BY <1>1, <1>5, UnbindSpares
<1>8. SameHost(s, t)  BY <1>2, <1>4, <1>5, <1>7 DEF SameHost
<1>9. NewBound(s, t, m, <<>>)
    BY <1>2, <1>4, <1>5, <1>7 DEF SameHost, NewBound, SameBound
<1>10. ASSUME NEW gone, Spared(s, gone), \A o \in outs : <<m, o>> \notin gone
       PROVE  Spared(t, gone)
    BY <1>2, <1>3, <1>4, <1>6, <1>7, <1>10
<1> QED BY <1>8, <1>9, <1>10

BoundAs(s, t, step) ==
    IF step.do = "bind"
    THEN NewBound(s, t, step.m, [o \in DOMAIN s.model[step.m].bound \cup {step.out} |->
                                    IF o = step.out THEN step.cell ELSE s.model[step.m].bound[o]])
    ELSE IF step.do = "run" THEN NewBound(s, t, step.m, <<>>)
    ELSE SameBound(s, t)

LEMMA ApplySpares ==
    ASSUME NEW s, Host(s), NEW step,
           step.do \in {"enqueue", "set", "check", "drain", "resize", "bind", "run"},
           step.do = "resize" => step.buf # "bound",
           step.do = "run" => step.m \in DOMAIN s.model,
           NEW t, t = Apply(s, step)
    PROVE  /\ SameHost(s, t) /\ BoundAs(s, t, step)
           /\ \A gone : Spared(s, gone) /\ Sparing(step, gone) => Spared(t, gone)
<1>1. CASE step.do = "enqueue"
    <2> DEFINE sound == Cardinality({SizeNow(s, x) : x \in step.sizes}) <= 1
    <2>1. t = Enqueue(s, step.writes, step.from, sound)  BY <1>1, Zenon DEF Apply
    <2> HIDE DEF sound
    <2>2. /\ SameHost(s, t) /\ SameBound(s, t)
          /\ \A gone : Spared(s, gone) /\ DOMAIN step.writes \cap gone = {} => Spared(t, gone)
        BY <2>1, EnqueueSpares, Zenon
    <2>3. \A gone : Spared(s, gone) /\ Sparing(step, gone) => Spared(t, gone)
        BY <1>1, <2>2 DEF Sparing
    <2> QED BY <1>1, <2>2, <2>3 DEF BoundAs
<1>2. CASE step.do = "set"
    <2>1. t = [s EXCEPT !.mem[step.cell] = step.val]  BY <1>2 DEF Apply
    <2>2. Host(t) /\ t.model = s.model /\ DOMAIN t.mem = DOMAIN s.mem
          /\ \A c \in DOMAIN s.mem : c # step.cell => t.mem[c] = s.mem[c]
        BY <2>1 DEF Host
    <2>3. \A gone : Spared(s, gone) /\ Sparing(step, gone) => Spared(t, gone)
        BY <1>2, <2>2 DEF Spared, Sparing
    <2> QED BY <1>2, <2>2, <2>3 DEF SameHost, SameBound, BoundAs
<1>3. CASE step.do \in {"check", "drain"}
    <2>1. t = s \/ t = [s EXCEPT !.busy = {}, !.dirty = {}]  BY <1>3 DEF Apply, Idle
    <2>2. Host(t) /\ t.model = s.model /\ t.mem = s.mem  BY <2>1 DEF Host
    <2>3. \A gone : Spared(s, gone) => Spared(t, gone)  BY <2>2 DEF Spared
    <2> QED BY <1>3, <2>2, <2>3 DEF SameHost, SameBound, BoundAs
<1>4. CASE step.do = "resize"
    <2>1. t = [s EXCEPT !.model[step.m][step.buf] = step.size]  BY <1>4 DEF Apply
    <2>2. SameHost(s, t) /\ t.mem = s.mem /\ SameBound(s, t)
        BY <1>4, <2>1 DEF Host, SameHost, SameBound
    <2>3. \A gone : Spared(s, gone) => Spared(t, gone)
        BY <2>2 DEF Spared, SameHost, SameBound
    <2> QED BY <1>4, <2>2, <2>3 DEF BoundAs
<1>5. CASE step.do = "bind"
    <2> DEFINE b == [o \in DOMAIN s.model[step.m].bound \cup {step.out} |->
                        IF o = step.out THEN step.cell ELSE s.model[step.m].bound[o]]
    <2>1. t = [s EXCEPT !.model[step.m].bound = b]
        BY <1>5 DEF Apply
    <2> HIDE DEF b
    <2>2. SameHost(s, t) /\ t.mem = s.mem /\ NewBound(s, t, step.m, b)
        BY <2>1 DEF Host, SameHost, NewBound
    <2>3. ASSUME NEW gone, Spared(s, gone), Sparing(step, gone) PROVE Spared(t, gone)
        <3> SUFFICES ASSUME NEW k \in DOMAIN s.model, NEW o \in DOMAIN t.model[k].bound
                     PROVE  t.model[k].bound[o] \notin gone
            BY <2>2, <2>3 DEF Spared, SameHost
        <3>1. CASE k # step.m
            BY <2>2, <2>3, <3>1 DEF Spared, NewBound
        <3>2. CASE k = step.m
            <4>1. t.model[k].bound = b  BY <2>2, <3>2 DEF NewBound
            <4>2. o \in DOMAIN s.model[k].bound \cup {step.out}
                  /\ b[o] = IF o = step.out THEN step.cell ELSE s.model[k].bound[o]
                BY <3>2, <4>1 DEF b
            <4>3. step.cell \notin gone  BY <1>5, <2>3 DEF Sparing
            <4> QED BY <2>3, <4>1, <4>2, <4>3 DEF Spared
        <3> QED BY <3>1, <3>2
    <2>4. BoundAs(s, t, step)  BY <1>5, <2>2, Zenon DEF BoundAs, b
    <2> QED BY <2>2, <2>3, <2>4
<1>6. CASE step.do = "run"
    <2>1. t = Unbind(EnqueueRun(Configure(s, step.m), step.m, step.outs, step.inputs), step.m)
        BY <1>6 DEF Apply
    <2>2. step.m \in DOMAIN s.model  BY <1>6
    <2>3. /\ SameHost(s, t) /\ NewBound(s, t, step.m, <<>>)
          /\ \A gone : Spared(s, gone) /\ (\A o \in step.outs : <<step.m, o>> \notin gone)
                => Spared(t, gone)
        BY <2>1, <2>2, RunSpares
    <2>4. \A gone : Spared(s, gone) /\ Sparing(step, gone) => Spared(t, gone)
        BY <1>6, <2>3 DEF Sparing
    <2> QED BY <1>6, <2>3, <2>4 DEF BoundAs
<1> QED BY <1>1, <1>2, <1>3, <1>4, <1>5, <1>6
-----------------------------------------------------------------------------
(* Along a program whose steps are of the kinds there are.                 *)
Known(step, models) ==
    /\ step.do \in {"enqueue", "set", "check", "drain", "resize", "bind", "run"}
    /\ step.do = "resize" => step.buf # "bound"
    /\ step.do = "run" => step.m \in models

LEMMA AlongSpares ==
    ASSUME NEW s, Host(s), NEW program, Len(program) \in Nat, DOMAIN program = 1 .. Len(program),
           \A i \in DOMAIN program : Known(program[i], DOMAIN s.model),
           NEW gone, Spared(s, gone), \A i \in DOMAIN program : Sparing(program[i], gone),
           NEW passed, passed = Passed(s, program)
    PROVE  \A i \in 1 .. Len(program) + 1 : SameHost(s, passed[i]) /\ Spared(passed[i], gone)
<1> DEFINE n == Len(program)
           G(i) == SameHost(s, passed[i]) /\ Spared(passed[i], gone)
           F == {m \in Nat : m <= n => G(m + 1)}
<1>1. /\ passed[1] = s
      /\ \A i \in 1 .. n : passed[i + 1] = Apply(passed[i], program[i])
    BY PassedSteps
<1>2. 0 \in F
    <2>1. SameHost(s, s)  BY DEF SameHost
    <2> QED BY <1>1, <2>1
<1>3. ASSUME NEW m \in Nat, m \in F PROVE m + 1 \in F
    <2> SUFFICES ASSUME m + 1 <= n PROVE G((m + 1) + 1)
        OBVIOUS
    <2> DEFINE i == m + 1
    <2>1. i \in 1 .. n /\ m <= n  OBVIOUS
    <2>2. G(i)  BY <1>3, <2>1
    <2> HIDE DEF i
    <2>3. Known(program[i], DOMAIN s.model) /\ Sparing(program[i], gone)  BY <2>1
    <2>4. Host(passed[i]) /\ DOMAIN passed[i].model = DOMAIN s.model  BY <2>2 DEF SameHost
    <2>5. passed[i + 1] = Apply(passed[i], program[i])  BY <1>1, <2>1
    <2>6. SameHost(passed[i], passed[i + 1]) /\ Spared(passed[i + 1], gone)
        BY <2>2, <2>3, <2>4, <2>5, ApplySpares DEF Known
    <2>7. SameHost(s, passed[i + 1])  BY <2>4, <2>6 DEF SameHost
    <2> QED BY <2>6, <2>7 DEF i
<1> HIDE DEF F, G
<1>4. Nat \subseteq F  BY <1>2, <1>3, EveryNumber
<1> SUFFICES ASSUME NEW i \in 1 .. n + 1 PROVE G(i)
    BY Zenon DEF G
<1>5. i - 1 \in Nat /\ i - 1 <= n /\ (i - 1) + 1 = i  OBVIOUS
<1>6. (i - 1) \in F  BY <1>4, <1>5
<1> QED BY <1>5, <1>6 DEF F

(* A model is bound before its run only, and the run takes the bindings.   *)
Clean(s) == \A k \in DOMAIN s.model : s.model[k].bound = <<>>
CleanBut(s, m) == \A k \in DOMAIN s.model : k # m => s.model[k].bound = <<>>

BindsAndRuns(program, b, n, m) ==
    /\ n \in DOMAIN program /\ b \in 1 .. n
    /\ program[n].do = "run" /\ program[n].m = m
    /\ \A i \in DOMAIN program :
          /\ i \in b .. n - 1 => program[i].do = "bind" /\ program[i].m = m /\ program[i].fails = "never"
          /\ i \notin b .. n => program[i].do \notin {"bind", "run"}

LEMMA AlongBinds ==
    ASSUME NEW s, Host(s), NEW program, Len(program) \in Nat, DOMAIN program = 1 .. Len(program),
           \A i \in DOMAIN program : Known(program[i], DOMAIN s.model),
           NEW b, NEW n, NEW m, BindsAndRuns(program, b, n, m),
           CleanBut(s, m), Clean(s) \/ b = 1,
           NEW passed, passed = Passed(s, program)
    PROVE  \A i \in 1 .. Len(program) + 1 :
              /\ SameHost(s, passed[i]) /\ CleanBut(passed[i], m)
              /\ b # 1 /\ i <= b => Clean(passed[i])
              /\ i > n => Clean(passed[i])
<1> DEFINE l == Len(program)
           G(i) == /\ SameHost(s, passed[i]) /\ CleanBut(passed[i], m)
                   /\ b # 1 /\ i <= b => Clean(passed[i])
                   /\ i > n => Clean(passed[i])
           F == {k \in Nat : k <= l => G(k + 1)}
<1>0. l \in Nat /\ n \in 1 .. l /\ b \in 1 .. n  BY DEF BindsAndRuns
<1>1. /\ passed[1] = s
      /\ \A i \in 1 .. l : passed[i + 1] = Apply(passed[i], program[i])
    BY PassedSteps
<1> HIDE DEF l
<1>2. 0 \in F
    <2>1. SameHost(s, s)  BY DEF SameHost
    <2> QED BY <1>0, <1>1, <2>1
<1>3. ASSUME NEW k \in Nat, k \in F PROVE k + 1 \in F
    <2> SUFFICES ASSUME k + 1 <= l PROVE G((k + 1) + 1)
        OBVIOUS
    <2> DEFINE i == k + 1
    <2>1. i \in 1 .. l /\ k <= l  BY <1>0
    <2>2. G(i)  BY <1>3, <2>1
    <2> HIDE DEF i
    <2> DEFINE u == passed[i]
               v == passed[i + 1]
               step == program[i]
    <2>3. Known(step, DOMAIN s.model)  BY <2>1 DEF l
    <2>4. Host(u) /\ DOMAIN u.model = DOMAIN s.model  BY <2>2 DEF SameHost
    <2>5. v = Apply(u, step)  BY <1>1, <2>1
    <2> HIDE DEF v, u, step
    <2>6. SameHost(u, v) /\ BoundAs(u, v, step)
        BY <2>3, <2>4, <2>5, ApplySpares DEF Known
    <2>7. SameHost(s, v) /\ DOMAIN v.model = DOMAIN u.model  BY <2>4, <2>6 DEF SameHost
    <2>8. i \in DOMAIN program  BY <2>1 DEF l
    <2>9. /\ i \in b .. n - 1 => step.do = "bind" /\ step.m = m
          /\ i = n => step.do = "run" /\ step.m = m
          /\ i \notin b .. n => step.do \notin {"bind", "run"}
        BY <2>8, Zenon DEF BindsAndRuns, step
    <2>10. CASE i \in b .. n - 1
        <3>1. \A j \in DOMAIN u.model : j # m => v.model[j].bound = u.model[j].bound
            BY <2>6, <2>9, <2>10 DEF BoundAs, NewBound
        <3>2. CleanBut(v, m)  BY <2>2, <2>7, <3>1 DEF CleanBut, u
        <3>3. ~(i + 1 <= b) /\ ~(i + 1 > n)  BY <1>0, <2>1, <2>10
        <3> QED BY <2>7, <3>2, <3>3 DEF i, v
    <2>11. CASE i = n
        <3>1. \A j \in DOMAIN u.model : v.model[j].bound = IF j = m THEN <<>> ELSE u.model[j].bound
            BY <2>6, <2>9, <2>11 DEF BoundAs, NewBound
        <3>2. Clean(v) /\ CleanBut(v, m)  BY <2>2, <2>7, <3>1 DEF CleanBut, Clean, u
        <3> QED BY <2>7, <3>2 DEF i, v
    <2>12. CASE i \notin b .. n
        <3>1. \A j \in DOMAIN u.model : v.model[j].bound = u.model[j].bound
            BY <2>6, <2>9, <2>12 DEF BoundAs, SameBound
        <3>2. CleanBut(v, m) /\ (Clean(u) => Clean(v))
            BY <2>2, <2>7, <3>1 DEF CleanBut, Clean, u
        <3>3. (i + 1 <= b => i <= b) /\ (i + 1 > n => i > n)  BY <1>0, <2>1, <2>12
        <3> QED BY <2>2, <2>7, <3>2, <3>3 DEF i, v, u
    <2>13. i \in b .. n - 1 \/ i = n \/ i \notin b .. n  BY <1>0, <2>1
    <2> QED BY <2>10, <2>11, <2>12, <2>13
<1> HIDE DEF F, G
<1>4. Nat \subseteq F  BY <1>2, <1>3, EveryNumber
<1> SUFFICES ASSUME NEW i \in 1 .. l + 1 PROVE G(i)
    BY Zenon DEF G, l
<1>5. i - 1 \in Nat /\ i - 1 <= l /\ (i - 1) + 1 = i  BY <1>0
<1>6. (i - 1) \in F  BY <1>4, <1>5
<1> QED BY <1>5, <1>6 DEF F

(* What a call leaves of the device and the models: the same cells spared, *)
(* and nothing bound, whether it completes or fails.                       *)
Outside(gone, s) == \A c \in gone : c[1] \notin DOMAIN s.model
Left(s, t, gone) == SameHost(s, t) /\ Clean(t) /\ Spared(t, gone)

LEMMA ForgetLeaves ==
    ASSUME NEW s, NEW t, t = Forget(s), NEW gone,
           Host(s), Clean(s), Spared(s, gone), Outside(gone, s)
    PROVE  Left(s, t, gone)
<1> DEFINE kept == {c \in DOMAIN s.mem : c[1] \notin DOMAIN s.model}
           mem == Restrict(s.mem, kept)
<1>1. t = [s EXCEPT !.mem = mem, !.dirty = s.dirty \cap kept]  BY Zenon DEF Forget
<1>2. \A c \in gone : c \in DOMAIN mem /\ mem[c] = Garbled
    BY DEF Spared, Outside, Restrict
<1> HIDE DEF mem
<1>3. Host(t) /\ t.model = s.model /\ t.mem = mem  BY <1>1 DEF Host
<1> QED BY <1>2, <1>3 DEF Left, SameHost, Clean, Spared

LEMMA DisownedLeaves ==
    ASSUME NEW s, NEW rs, NEW t, t = Disowned(s, rs), NEW gone,
           Host(s), Clean(s), Spared(s, gone)
    PROVE  Left(s, t, gone)
<1> DEFINE mem == [c \in DOMAIN s.mem |-> IF c[1] \in rs /\ c # <<"pair", "n0">> THEN Garbled ELSE s.mem[c]]
<1>1. t = [s EXCEPT !.mem = mem]  BY Zenon DEF Disowned
<1>2. \A c \in gone : c \in DOMAIN mem /\ mem[c] = Garbled
    BY DEF Spared
<1> HIDE DEF mem
<1>3. Host(t) /\ t.model = s.model /\ t.mem = mem  BY <1>1 DEF Host
<1> QED BY <1>2, <1>3 DEF Left, SameHost, Clean, Spared

LEMMA FailedRunLeaves ==
    ASSUME NEW s, NEW m, NEW t, t \in FailedRun(s, m), NEW gone,
           Host(s), CleanBut(s, m), Spared(s, gone)
    PROVE  Left(s, t, gone)
<1>1. ASSUME NEW u, Host(u), CleanBut(u, m), Spared(u, gone) PROVE Left(u, Unbind(u, m), gone)
    <2>1. /\ SameHost(u, Unbind(u, m)) /\ NewBound(u, Unbind(u, m), m, <<>>)
          /\ Spared(Unbind(u, m), gone)
        BY <1>1, UnbindSpares
    <2> QED BY <1>1, <2>1 DEF Left, Clean, CleanBut, NewBound, SameHost
<1>2. CASE t = Unbind(s, m)  BY <1>1, <1>2
<1>3. CASE t = Unbind(Configure(s, m), m)
    <2> DEFINE c == Configure(s, m)
    <2>1. SameHost(s, c) /\ SameBound(s, c) /\ Spared(c, gone)  BY ConfigureSpares
    <2>2. Host(c) /\ CleanBut(c, m)  BY <2>1 DEF SameHost, SameBound, CleanBut
    <2> HIDE DEF c
    <2>3. Left(c, Unbind(c, m), gone)  BY <1>1, <2>1, <2>2
    <2> QED BY <1>3, <2>1, <2>3 DEF Left, SameHost, c
<1> QED BY <1>2, <1>3 DEF FailedRun

Sound(program, s, gone, b, n, m) ==
    /\ Len(program) \in Nat /\ DOMAIN program = 1 .. Len(program)
    /\ \A i \in DOMAIN program : Known(program[i], DOMAIN s.model) /\ Sparing(program[i], gone)
    /\ BindsAndRuns(program, b, n, m)
    /\ Host(s) /\ CleanBut(s, m) /\ (Clean(s) \/ b = 1)
    /\ Spared(s, gone) /\ Outside(gone, s)

LEMMA CompletedLeaves ==
    ASSUME NEW s, NEW program, NEW gone, NEW b, NEW n, NEW m, Sound(program, s, gone, b, n, m),
           NEW t, t = Completed(Passed(s, program))
    PROVE  Left(s, t, gone)
<1> DEFINE passed == Passed(s, program)
           l == Len(program)
<1>1. Spared(passed[l + 1], gone)
    <2>1. l + 1 \in 1 .. l + 1  BY DEF Sound
    <2>2. \A i \in 1 .. Len(program) + 1 : SameHost(s, passed[i]) /\ Spared(passed[i], gone)
        BY AlongSpares DEF Sound
    <2> QED BY <2>1, <2>2
<1>2. SameHost(s, passed[l + 1]) /\ Clean(passed[l + 1])
    <2>1. l + 1 \in 1 .. l + 1 /\ l + 1 > n  BY DEF Sound, BindsAndRuns
    <2>2. \A i \in 1 .. Len(program) + 1 :
              SameHost(s, passed[i]) /\ (i > n => Clean(passed[i]))
        BY AlongBinds DEF Sound
    <2> QED BY <2>1, <2>2
<1>3. Last(passed) = passed[l + 1]
    <2>1. DOMAIN passed = 1 .. l + 1 /\ l \in Nat  BY PassedSteps DEF Sound
    <2> HIDE DEF passed, l
    <2>2. Len(passed) = l + 1  BY <2>1
    <2> QED BY <2>2 DEF Last
<1> DEFINE u == passed[l + 1]
<1>4. t = Forget(u)  BY <1>3 DEF Completed
<1> HIDE DEF u
<1>5. Outside(gone, u)  BY <1>2 DEF SameHost, Outside, Sound, u
<1>6. Left(u, t, gone)  BY <1>1, <1>2, <1>4, <1>5, ForgetLeaves DEF SameHost, u
<1> QED BY <1>2, <1>6 DEF Left, SameHost, u

LEMMA CutShortLeaves ==
    ASSUME NEW s, NEW program, NEW gone, NEW b, NEW n, NEW m, Sound(program, s, gone, b, n, m),
           NEW ways, "never" \notin ways,
           NEW t, t \in CutShort(Passed(s, program), program, ways)
    PROVE  Left(s, t, gone)
<1> DEFINE passed == Passed(s, program)
<1>1. PICK i, u :
           /\ i \in DOMAIN program /\ u \in Failed(passed[i], program[i])
           /\ program[i].fails \in ways /\ t = Forget(u)
    BY DEF CutShort
<1> DEFINE v == passed[i]
           step == program[i]
<1>2. i \in DOMAIN program /\ i \in 1 .. Len(program) + 1  BY <1>1 DEF Sound
<1>3. Spared(v, gone)
    <2>1. \A j \in 1 .. Len(program) + 1 : SameHost(s, passed[j]) /\ Spared(passed[j], gone)
        BY AlongSpares DEF Sound
    <2> QED BY <1>2, <2>1
<1>4. /\ SameHost(s, v) /\ CleanBut(v, m)
      /\ b # 1 /\ i <= b => Clean(v)
      /\ i > n => Clean(v)
    <2>1. \A j \in 1 .. Len(program) + 1 :
              /\ SameHost(s, passed[j]) /\ CleanBut(passed[j], m)
              /\ b # 1 /\ j <= b => Clean(passed[j])
              /\ j > n => Clean(passed[j])
        BY AlongBinds DEF Sound
    <2> QED BY <1>2, <2>1
<1> HIDE DEF v
<1>5. /\ b \in 1 .. n /\ n \in 1 .. Len(program)
      /\ i \in b .. n - 1 => step.do = "bind" /\ step.fails = "never"
      /\ i = n => step.do = "run" /\ step.m = m
      /\ i \notin b .. n => step.do \notin {"bind", "run"}
    BY <1>2 DEF Sound, BindsAndRuns
<1>6. u \in Failed(v, step) /\ step.fails # "never"  BY <1>1 DEF v
<1> HIDE DEF step
<1>7. Left(v, u, gone)
    <2>1. CASE i = n
        <3>1. u \in FailedRun(v, m)  BY <1>5, <1>6, <2>1 DEF Failed
        <3> QED BY <1>3, <1>4, <3>1, FailedRunLeaves DEF SameHost
    <2>2. CASE i # n
        <3>1. i \notin b .. n  BY <1>2, <1>5, <1>6, <2>2
        <3>2. u = v  BY <1>5, <1>6, <3>1 DEF Failed
        <3>3. i > n \/ (b # 1 /\ i <= b)  BY <1>2, <1>5, <3>1
        <3>4. Clean(v)  BY <1>4, <3>3
        <3> QED BY <1>3, <1>4, <3>2, <3>4 DEF Left, SameHost
    <2> QED BY <2>1, <2>2
<1>8. Outside(gone, u)  BY <1>4, <1>7 DEF SameHost, Left, Outside, Sound
<1>9. Left(u, t, gone)  BY <1>1, <1>7, <1>8, ForgetLeaves DEF Left, SameHost
<1> QED BY <1>4, <1>7, <1>9 DEF Left, SameHost

LEMMA CallLeaves ==
    ASSUME NEW program, NEW gone, NEW b, NEW n, NEW m, Sound(program, st, gone, b, n, m),
           NEW rs, NEW value, Call(program, rs, value)
    PROVE  Left(st, st', gone) /\ DOMAIN told' = DOMAIN told
<1>1. CASE st' = Completed(Passed(st, program))
    BY <1>1, CompletedLeaves DEF Call, Passes, Fails
<1>2. CASE st' \in {Disowned(s, rs) : s \in CutShort(Passed(st, program), program, Faults)}
    <2>1. PICK u \in CutShort(Passed(st, program), program, Faults) : st' = Disowned(u, rs)
        BY <1>2
    <2>2. "never" \notin Faults  BY PipelineAssumption
    <2>3. Left(st, u, gone)  BY <2>1, <2>2, CutShortLeaves
    <2>4. Left(u, st', gone)  BY <2>1, <2>3, DisownedLeaves DEF Left, SameHost
    <2> QED BY <2>3, <2>4 DEF Left, SameHost, Call, Passes, Fails
<1> QED BY <1>1, <1>2 DEF Call, Passes, Fails
-----------------------------------------------------------------------------
(* The programs of the pipelines whose results may be dropped.             *)
GoneCells(live) == {<<r, c>> : r \in Result \ live, c \in DataFields[kind]}

LEMMA SevenJoined ==
    ASSUME NEW a, NEW p, NEW b1, NEW b2, NEW b3, NEW r, NEW s,
           NEW w, w = <<a>> \o <<>> \o <<p, b1, b2, b3, r, s>>
    PROVE  /\ Len(w) = 7 /\ DOMAIN w = 1 .. 7
           /\ w[1] = a /\ w[2] = p /\ w[3] = b1 /\ w[4] = b2 /\ w[5] = b3 /\ w[6] = r /\ w[7] = s
OBVIOUS

LEMMA TenJoined ==
    ASSUME NEW a, NEW d, NEW i, NEW c, NEW p, NEW b1, NEW b2, NEW b3, NEW r, NEW s,
           NEW w, w = <<a>> \o <<d, i, c>> \o <<p, b1, b2, b3, r, s>>
    PROVE  /\ Len(w) = 10 /\ DOMAIN w = 1 .. 10
           /\ w[1] = a /\ w[2] = d /\ w[3] = i /\ w[4] = c /\ w[5] = p
           /\ w[6] = b1 /\ w[7] = b2 /\ w[8] = b3 /\ w[9] = r /\ w[10] = s
OBVIOUS

LEMMA EightJoined ==
    ASSUME NEW a, NEW p1, NEW p2, NEW p3, NEW p4, NEW b1, NEW b2, NEW r,
           NEW w, w = <<a>> \o <<p1, p2>> \o <<p3, p4>> \o <<b1, b2, r>>
    PROVE  /\ Len(w) = 8 /\ DOMAIN w = 1 .. 8
           /\ w[1] = a /\ w[2] = p1 /\ w[3] = p2 /\ w[4] = p3 /\ w[5] = p4
           /\ w[6] = b1 /\ w[7] = b2 /\ w[8] = r
OBVIOUS

LEMMA CellsOfTheGone ==
    ASSUME NEW live
    PROVE  /\ \A r, c : r \in live => <<r, c>> \notin GoneCells(live)
           /\ \A m, c : m \in Kinds \cup {"pair", "glue"} => <<m, c>> \notin GoneCells(live)
BY PipelineAssumption DEF GoneCells

Fits(step, models, gone) == Known(step, models) /\ Sparing(step, gone)
Quiet(step) == step.do \notin {"bind", "run"}
Binding(step, m) == step.do = "bind" /\ step.m = m /\ step.fails = "never"
Running(step, m) == step.do = "run" /\ step.m = m

LEMMA RaCoSound ==
    ASSUME NEW f, NEW r \in alive, kind = "raco", kind \in Kinds,
           Host(st), DOMAIN st.model = Models(kind), Clean(st), Spared(st, GoneCells(alive))
    PROVE  \E b, n : Sound(RaCoProgram(f, r), st, GoneCells(alive), b, n, "raco")
<1> DEFINE size == SizeOf[f]
           gone == GoneCells(alive)
           ms == {"raco", "glue"}
           a == Check
           p == Preprocess("raco", <<f>>)
           b1 == Bind("raco", "keypoints", <<r, "kpts">>)
           b2 == Bind("raco", "normalized_keypoints", <<r, "norm_kpts">>)
           b3 == Bind("raco", "descriptors", <<r, "descs">>)
           x == Run("raco", Outputs["raco"], <<{<<"raco", "input">>}>>)
           s == Set(<<r, "stamp">>, size)
           d == Drain
           i == Resize("raco", "input", size)
           c == SetCur("raco", size)
           program == RaCoProgram(f, r)
<1>1. /\ \A q : <<r, q>> \notin gone
      /\ \A q : <<"raco", q>> \notin gone
    BY CellsOfTheGone
<1>2. DOMAIN st.model = ms /\ Outside(gone, st)
    <2>1. DOMAIN st.model = ms  BY DEF Models
    <2>2. \A q \in gone : q[1] \in Result  BY DEF GoneCells
    <2> QED BY <2>1, <2>2, PipelineAssumption DEF Outside
<1> HIDE DEF gone, ms
<1>3. Fits(a, ms, gone) /\ Quiet(a)
    BY DEF Check, Fits, Known, Sparing, Quiet
<1>4. Fits(p, ms, gone) /\ Quiet(p)
    BY <1>1 DEF Preprocess, All, Fits, Known, Sparing, Quiet
<1>5. /\ Fits(b1, ms, gone) /\ Binding(b1, "raco")
      /\ Fits(b2, ms, gone) /\ Binding(b2, "raco")
      /\ Fits(b3, ms, gone) /\ Binding(b3, "raco")
    BY <1>1 DEF Bind, Fits, Known, Sparing, Binding
<1>6. Fits(x, ms, gone) /\ Running(x, "raco")
    BY <1>1, "raco" \in ms DEF Run, Fits, Known, Sparing, Running, ms
<1>7. Fits(s, ms, gone) /\ Quiet(s)
    BY <1>1 DEF Set, Fits, Known, Sparing, Quiet
<1>8. Fits(d, ms, gone) /\ Quiet(d)
    BY DEF Drain, Fits, Known, Sparing, Quiet
<1>9. Fits(i, ms, gone) /\ Quiet(i) /\ Fits(c, ms, gone) /\ Quiet(c)
    BY DEF Resize, SetCur, Fits, Known, Sparing, Quiet
<1>10. CleanBut(st, "raco")  BY DEF Clean, CleanBut
<1>11. program = <<a>> \o (IF st.model["raco"].cur = size THEN <<>> ELSE <<d, i, c>>)
                       \o <<p, b1, b2, b3, x, s>>
    BY Zenon DEF RaCoProgram
<1> HIDE DEF a, p, b1, b2, b3, x, s, d, i, c, program, size
<1>12. CASE program = <<a>> \o <<>> \o <<p, b1, b2, b3, x, s>>
    <2>1. /\ Len(program) = 7 /\ DOMAIN program = 1 .. 7
          /\ program[1] = a /\ program[2] = p /\ program[3] = b1 /\ program[4] = b2
          /\ program[5] = b3 /\ program[6] = x /\ program[7] = s
        BY <1>12, SevenJoined
    <2>2. \A k \in 1 .. 7 : k = 1 \/ k = 2 \/ k = 3 \/ k = 4 \/ k = 5 \/ k = 6 \/ k = 7
        OBVIOUS
    <2>3. \A k \in 1 .. 7 : Fits(program[k], ms, gone)
        BY <1>3, <1>4, <1>5, <1>6, <1>7, <2>1, <2>2, Zenon
    <2>4. BindsAndRuns(program, 3, 6, "raco")
        <3>1. \A k \in 1 .. 7 : k \in 3 .. 5 => Binding(program[k], "raco")
            <4>1. \A k \in 1 .. 7 : k \in 3 .. 5 => k = 3 \/ k = 4 \/ k = 5  OBVIOUS
            <4> QED BY <1>5, <2>1, <4>1, Zenon
        <3>2. \A k \in 1 .. 7 : k \notin 3 .. 6 => Quiet(program[k])
            <4>1. \A k \in 1 .. 7 : k \notin 3 .. 6 => k = 1 \/ k = 2 \/ k = 7  OBVIOUS
            <4> QED BY <1>3, <1>4, <1>7, <2>1, <4>1, Zenon
        <3>3. Running(program[6], "raco")  BY <1>6, <2>1
        <3>4. 6 - 1 = 5 /\ 6 \in 1 .. 7 /\ 3 \in 1 .. 6  OBVIOUS
        <3> QED BY <2>1, <3>1, <3>2, <3>3, <3>4 DEF BindsAndRuns, Binding, Quiet, Running
    <2>5. Sound(program, st, gone, 3, 6, "raco")
        BY <1>2, <1>10, <2>1, <2>3, <2>4 DEF Sound, Fits, gone
    <2> QED BY <2>5 DEF program, gone
<1>13. CASE program = <<a>> \o <<d, i, c>> \o <<p, b1, b2, b3, x, s>>
    <2>1. /\ Len(program) = 10 /\ DOMAIN program = 1 .. 10
          /\ program[1] = a /\ program[2] = d /\ program[3] = i /\ program[4] = c
          /\ program[5] = p /\ program[6] = b1 /\ program[7] = b2
          /\ program[8] = b3 /\ program[9] = x /\ program[10] = s
        BY <1>13, TenJoined
    <2>2. \A k \in 1 .. 10 : \/ k = 1 \/ k = 2 \/ k = 3 \/ k = 4 \/ k = 5
                             \/ k = 6 \/ k = 7 \/ k = 8 \/ k = 9 \/ k = 10
        OBVIOUS
    <2>3. \A k \in 1 .. 10 : Fits(program[k], ms, gone)
        BY <1>3, <1>4, <1>5, <1>6, <1>7, <1>8, <1>9, <2>1, <2>2, Zenon
    <2>4. BindsAndRuns(program, 6, 9, "raco")
        <3>1. \A k \in 1 .. 10 : k \in 6 .. 8 => Binding(program[k], "raco")
            <4>1. \A k \in 1 .. 10 : k \in 6 .. 8 => k = 6 \/ k = 7 \/ k = 8  OBVIOUS
            <4> QED BY <1>5, <2>1, <4>1, Zenon
        <3>2. \A k \in 1 .. 10 : k \notin 6 .. 9 => Quiet(program[k])
            <4>1. \A k \in 1 .. 10 : k \notin 6 .. 9 =>
                      k = 1 \/ k = 2 \/ k = 3 \/ k = 4 \/ k = 5 \/ k = 10
                OBVIOUS
            <4> QED BY <1>3, <1>4, <1>7, <1>8, <1>9, <2>1, <4>1, Zenon
        <3>3. Running(program[9], "raco")  BY <1>6, <2>1
        <3>4. 9 - 1 = 8 /\ 9 \in 1 .. 10 /\ 6 \in 1 .. 9  OBVIOUS
        <3> QED BY <2>1, <3>1, <3>2, <3>3, <3>4 DEF BindsAndRuns, Binding, Quiet, Running
    <2>5. Sound(program, st, gone, 6, 9, "raco")
        BY <1>2, <1>10, <2>1, <2>3, <2>4 DEF Sound, Fits, gone
    <2> QED BY <2>5 DEF program, gone
<1> QED BY <1>11, <1>12, <1>13

LEMMA GlueSound ==
    ASSUME NEW l, NEW r, kind = "raco", kind \in Kinds,
           Host(st), DOMAIN st.model = Models(kind), Clean(st), Spared(st, GoneCells(alive))
    PROVE  \E b, n : Sound(GlueProgram(l, r), st, GoneCells(alive), b, n, "glue")
<1> DEFINE gone == GoneCells(alive)
           ms == {"raco", "glue"}
           a == Check
           copy(c, from) == Enq(All({In(c)}), from, {})
           p1 == copy("kpts_in" \o "1", <<{<<l, "norm_kpts">>}>>)
           p2 == copy("descs_in" \o "1", <<{<<l, "descs">>}>>)
           p3 == copy("kpts_in" \o "2", <<{<<r, "norm_kpts">>}>>)
           p4 == copy("descs_in" \o "2", <<{<<r, "descs">>}>>)
           b1 == Bind("glue", "matches0", <<"pair", "matches0">>)
           b2 == Bind("glue", "mscores0", <<"pair", "mscores0">>)
           inputs == <<{In("kpts_in1"), In("descs_in1")}, {In("kpts_in2"), In("descs_in2")}>>
           x == Run("glue", Outputs["glue"], inputs)
           program == GlueProgram(l, r)
<1>1. \A m, c : m \in {"pair", "glue"} => <<m, c>> \notin gone
    BY CellsOfTheGone
<1>2. DOMAIN st.model = ms /\ Outside(gone, st)
    <2>1. DOMAIN st.model = ms  BY DEF Models
    <2>2. \A q \in gone : q[1] \in Result  BY DEF GoneCells
    <2> QED BY <2>1, <2>2, PipelineAssumption DEF Outside
<1> HIDE DEF gone, ms
<1>3. Fits(a, ms, gone) /\ Quiet(a)
    BY DEF Check, Fits, Known, Sparing, Quiet
<1>4. ASSUME NEW c, NEW from PROVE Fits(copy(c, from), ms, gone) /\ Quiet(copy(c, from))
    <2>1. DOMAIN All({In(c)}) \cap gone = {}  BY <1>1 DEF All, In
    <2> QED BY <2>1 DEF Enq, Fits, Known, Sparing, Quiet
<1>5. /\ Fits(p1, ms, gone) /\ Quiet(p1) /\ Fits(p2, ms, gone) /\ Quiet(p2)
      /\ Fits(p3, ms, gone) /\ Quiet(p3) /\ Fits(p4, ms, gone) /\ Quiet(p4)
    <2> HIDE DEF copy
    <2> QED BY <1>4, Zenon
<1>6. /\ Fits(b1, ms, gone) /\ Binding(b1, "glue")
      /\ Fits(b2, ms, gone) /\ Binding(b2, "glue")
    BY <1>1 DEF Bind, Fits, Known, Sparing, Binding
<1>7. Fits(x, ms, gone) /\ Running(x, "glue")
    <2> HIDE DEF inputs
    <2> QED BY <1>1, "glue" \in ms DEF Run, Fits, Known, Sparing, Running, ms
<1>8. CleanBut(st, "glue")  BY DEF Clean, CleanBut
<1>9. program = <<a>> \o <<p1, p2>> \o <<p3, p4>> \o <<b1, b2, x>>
    BY Zenon DEF GlueProgram, Pack
<1> HIDE DEF a, p1, p2, p3, p4, b1, b2, x, program
<1>10. /\ Len(program) = 8 /\ DOMAIN program = 1 .. 8
       /\ program[1] = a /\ program[2] = p1 /\ program[3] = p2 /\ program[4] = p3
       /\ program[5] = p4 /\ program[6] = b1 /\ program[7] = b2 /\ program[8] = x
    BY <1>9, EightJoined
<1>11. \A k \in 1 .. 8 : Fits(program[k], ms, gone)
    <2>1. \A k \in 1 .. 8 : k = 1 \/ k = 2 \/ k = 3 \/ k = 4 \/ k = 5 \/ k = 6 \/ k = 7 \/ k = 8
        OBVIOUS
    <2> QED BY <1>3, <1>5, <1>6, <1>7, <1>10, <2>1, Zenon
<1>12. BindsAndRuns(program, 6, 8, "glue")
    <2>1. \A k \in 1 .. 8 : k \in 6 .. 7 => Binding(program[k], "glue")
        <3>1. \A k \in 1 .. 8 : k \in 6 .. 7 => k = 6 \/ k = 7  OBVIOUS
        <3> QED BY <1>6, <1>10, <3>1, Zenon
    <2>2. \A k \in 1 .. 8 : k \notin 6 .. 8 => Quiet(program[k])
        <3>1. \A k \in 1 .. 8 : k \notin 6 .. 8 => k = 1 \/ k = 2 \/ k = 3 \/ k = 4 \/ k = 5
            OBVIOUS
        <3> QED BY <1>3, <1>5, <1>10, <3>1, Zenon
    <2>3. Running(program[8], "glue")  BY <1>7, <1>10
    <2>4. 8 - 1 = 7 /\ 8 \in 1 .. 8 /\ 6 \in 1 .. 8  OBVIOUS
    <2> QED BY <1>10, <2>1, <2>2, <2>3, <2>4 DEF BindsAndRuns, Binding, Quiet, Running
<1>13. Sound(program, st, gone, 6, 8, "glue")
    BY <1>2, <1>8, <1>10, <1>11, <1>12 DEF Sound, Fits, gone
<1> QED BY <1>13 DEF program, gone

LEMMA SessionSound ==
    ASSUME NEW inputs, kind = "session", kind \in Kinds,
           Host(st), DOMAIN st.model = Models(kind), Spared(st, GoneCells(alive))
    PROVE  Sound(<<Run("session", Outputs["session"], inputs)>>, st, GoneCells(alive), 1, 1, "session")
<1> DEFINE gone == GoneCells(alive)
           x == Run("session", Outputs["session"], inputs)
           program == <<x>>
<1>1. \A c : <<"session", c>> \notin gone
    BY CellsOfTheGone
<1>2. DOMAIN st.model = {"session"} /\ Outside(gone, st)
    <2>1. DOMAIN st.model = {"session"}  BY DEF Models
    <2>2. \A q \in gone : q[1] \in Result  BY DEF GoneCells
    <2> QED BY <2>1, <2>2, PipelineAssumption DEF Outside
<1> HIDE DEF gone
<1>3. Fits(x, {"session"}, gone) /\ Running(x, "session")
    BY <1>1 DEF Run, Fits, Known, Sparing, Running
<1> HIDE DEF x
<1>4. Len(program) = 1 /\ DOMAIN program = 1 .. 1 /\ program[1] = x  OBVIOUS
<1>5. \A k \in 1 .. 1 : k = 1  OBVIOUS
<1> HIDE DEF program
<1>6. BindsAndRuns(program, 1, 1, "session")
    BY <1>3, <1>4, <1>5 DEF BindsAndRuns, Running
<1>7. CleanBut(st, "session")  BY <1>2 DEF CleanBut
<1>8. Sound(program, st, gone, 1, 1, "session")
    BY <1>2, <1>3, <1>4, <1>5, <1>6, <1>7 DEF Sound, Fits, gone
<1> QED BY <1>8 DEF program, x, gone
-----------------------------------------------------------------------------
(* Where results can be dropped nothing a dropped one held is kept, and    *)
(* nothing is bound between two calls but, in a session that its caller    *)
(* binds, a result that lives, to the output the caller was told.          *)
BoundAlive ==
    \A p \in DOMAIN st.model["session"].bound :
        /\ p \in Outputs["session"]
        /\ \E r \in alive \cap Result : /\ st.model["session"].bound[p] = <<r, "buf">>
                                        /\ told[r] = Bound(p)

Hosted == Host(st) /\ DOMAIN st.model = Models(kind) /\ DOMAIN told = Result \cup {"pair", "scores"}

Dropping ==
    /\ kind \in Kinds
    /\ kind \notin {"session", "raco"} => alive = Result
    /\ kind \in {"session", "raco"} => Hosted /\ Spared(st, GoneCells(alive))
    /\ kind = "raco" => Clean(st)
    /\ kind = "session" => BoundAlive

LEMMA DroppingStarts == Init => Dropping
<1> SUFFICES ASSUME Init PROVE Dropping
    OBVIOUS
<1>1. kind \in Kinds /\ alive = Result  BY DEF Init
<1>2. GoneCells(alive) = {}  BY <1>1 DEF GoneCells
<1>3. st.model = [m \in Models(kind) |-> NewModel]  BY DEF Init
<1>4. "mem" \in DOMAIN st /\ "model" \in DOMAIN st  BY DEF Init
<1>5. \A m \in DOMAIN st.model : /\ "bound" \in DOMAIN st.model[m]
                                 /\ st.model[m].bound = <<>>
    BY <1>3 DEF NewModel
<1>6. Hosted  BY <1>3, <1>4, <1>5 DEF Hosted, Host, Init
<1>7. Spared(st, GoneCells(alive))
    <2>1. \A m \in DOMAIN st.model : DOMAIN st.model[m].bound = {}  BY <1>5
    <2> QED BY <1>2, <2>1 DEF Spared
<1>8. Clean(st)  BY <1>5 DEF Clean
<1>9. kind = "session" => BoundAlive
    <2> SUFFICES ASSUME kind = "session" PROVE DOMAIN st.model["session"].bound = {}
        BY DEF BoundAlive
    <2>1. "session" \in DOMAIN st.model  BY <1>3 DEF Models
    <2> QED BY <1>5, <2>1
<1> QED BY <1>1, <1>6, <1>7, <1>8, <1>9 DEF Dropping

(* A change of the device that leaves the models and the cells gone.       *)
LEMMA DeviceKeeps ==
    ASSUME Dropping, UNCHANGED <<kind, told, alive>>,
           Host(st'), st'.model = st.model, Spared(st', GoneCells(alive))
    PROVE  Dropping'
<1>1. GoneCells(alive)' = GoneCells(alive)  BY DEF GoneCells
<1>2. kind \in {"session", "raco"} => Hosted' /\ Spared(st, GoneCells(alive))'
    BY <1>1 DEF Dropping, Hosted, Host, Models
<1>3. kind = "raco" => Clean(st)'  BY DEF Dropping, Clean
<1>4. kind = "session" => BoundAlive'  BY DEF Dropping, BoundAlive
<1> QED BY <1>2, <1>3, <1>4 DEF Dropping

LEMMA IdleKeeps ==
    ASSUME Dropping, UNCHANGED <<kind, told, alive>>, st' = Idle(st)
    PROVE  Dropping'
<1>1. CASE kind \in {"session", "raco"}
    <2>1. Host(st) /\ Spared(st, GoneCells(alive))  BY <1>1 DEF Dropping, Hosted
    <2>2. Host(st') /\ st'.model = st.model /\ st'.mem = st.mem
        BY <2>1 DEF Idle, Host
    <2>3. Spared(st', GoneCells(alive))  BY <2>1, <2>2 DEF Spared
    <2> QED BY <2>2, <2>3, DeviceKeeps
<1>2. CASE kind \notin {"session", "raco"}  BY <1>2 DEF Dropping
<1> QED BY <1>1, <1>2

LEMMA OtherPipelinesKeep ==
    ASSUME Dropping, UNCHANGED <<kind, alive>>, kind \notin {"session", "raco"}
    PROVE  Dropping'
BY DEF Dropping

LEMMA LeftKeeps ==
    ASSUME Dropping, UNCHANGED <<kind, alive>>, kind \in {"session", "raco"},
           Left(st, st', GoneCells(alive)), DOMAIN told' = DOMAIN told
    PROVE  Dropping'
<1>1. GoneCells(alive)' = GoneCells(alive)  BY DEF GoneCells
<1>2. Host(st') /\ DOMAIN st'.model = DOMAIN st.model /\ Clean(st') /\ Spared(st', GoneCells(alive))
    BY DEF Left, SameHost
<1>3. Hosted'  BY <1>2 DEF Dropping, Hosted, Host, Models
<1>4. kind = "session" => BoundAlive'
    <2> SUFFICES ASSUME kind = "session" PROVE DOMAIN st'.model["session"].bound = {}
        BY DEF BoundAlive
    <2>1. "session" \in DOMAIN st'.model  BY <1>2 DEF Dropping, Hosted, Models
    <2> QED BY <1>2, <2>1 DEF Clean
<1> QED BY <1>1, <1>2, <1>3, <1>4 DEF Dropping, Clean

LEMMA RaCoKeeps ==
    ASSUME Dropping, NEW f, NEW r, RaCoSubmit(f, r)
    PROVE  Dropping'
<1> DEFINE value == [x \in {r} |-> <<f>>]
<1>1. /\ kind = "raco" /\ r \in alive /\ UNCHANGED <<kind, alive>>
      /\ Call(RaCoProgram(f, r), {r}, value)
    BY DEF RaCoSubmit
<1> HIDE DEF value
<1>2. \E b, n : Sound(RaCoProgram(f, r), st, GoneCells(alive), b, n, "raco")
    BY <1>1, RaCoSound DEF Dropping, Hosted
<1>3. Left(st, st', GoneCells(alive)) /\ DOMAIN told' = DOMAIN told
    BY <1>1, <1>2, CallLeaves
<1> QED BY <1>1, <1>3, LeftKeeps

LEMMA GlueKeeps ==
    ASSUME Dropping, NEW l, NEW r, Glue(l, r)
    PROVE  Dropping'
<1> DEFINE value == [x \in {"pair"} |-> told[l].of \o told[r].of]
<1>1. /\ kind = "raco" /\ UNCHANGED <<kind, alive>>
      /\ Call(GlueProgram(l, r), {"pair"}, value)
    BY DEF Glue
<1> HIDE DEF value
<1>2. \E b, n : Sound(GlueProgram(l, r), st, GoneCells(alive), b, n, "glue")
    BY <1>1, GlueSound DEF Dropping, Hosted
<1>3. Left(st, st', GoneCells(alive)) /\ DOMAIN told' = DOMAIN told
    BY <1>1, <1>2, CallLeaves
<1> QED BY <1>1, <1>3, LeftKeeps

LEMMA RunKeeps ==
    ASSUME Dropping, NEW f, RunSession(f)
    PROVE  Dropping'
<1> DEFINE rs == {r \in Result : told[r].res \in Outputs["session"]}
           value == [r \in rs |-> <<f>>]
           inputs == <<{Lit(<<f>>)}>>
           program == <<Run("session", Outputs["session"], inputs)>>
<1>1. kind = "session" /\ UNCHANGED <<kind, alive>> /\ Call(program, rs, value)
    BY Zenon DEF RunSession
<1> HIDE DEF value, rs, inputs
<1>2. Sound(program, st, GoneCells(alive), 1, 1, "session")
    BY <1>1, SessionSound DEF Dropping, Hosted
<1> HIDE DEF program
<1>3. Left(st, st', GoneCells(alive)) /\ DOMAIN told' = DOMAIN told
    BY <1>1, <1>2, CallLeaves
<1> QED BY <1>1, <1>3, LeftKeeps

LEMMA BindKeeps ==
    ASSUME Dropping, NEW o \in Outputs["session"], NEW r \in Result, BindOutput(o, r)
    PROVE  Dropping'
<1> DEFINE bound == st.model["session"].bound
           step == Bind("session", o, <<r, "buf">>)
           gone == GoneCells(alive)
<1>1. /\ kind = "session" /\ r \in alive /\ UNCHANGED <<kind, alive>>
      /\ \A p \in DOMAIN bound : bound[p] = <<r, "buf">> => p = o
      /\ st' = Apply(st, step)
      /\ told' = [x \in DOMAIN told |-> IF x = r THEN Bound(o)
                                        ELSE IF told[x] = Bound(o) THEN None ELSE told[x]]
    BY Zenon DEF BindOutput, Rebind
<1>2. Hosted /\ Spared(st, gone) /\ BoundAlive  BY <1>1 DEF Dropping
<1>3. gone' = gone  BY <1>1 DEF GoneCells
<1>4. <<r, "buf">> \notin gone  BY <1>1, CellsOfTheGone
<1> HIDE DEF gone
<1>5. /\ step.do = "bind" /\ step.m = "session" /\ step.out = o /\ step.cell = <<r, "buf">>
      /\ Sparing(step, gone)
    BY <1>4 DEF Bind, Sparing
<1> HIDE DEF step
<1>6. Host(st)  BY <1>2 DEF Hosted
<1>7. /\ SameHost(st, st') /\ BoundAs(st, st', step)
      /\ Spared(st', gone)
    BY <1>1, <1>2, <1>5, <1>6, ApplySpares
<1>8. Hosted'
    BY <1>1, <1>2, <1>7 DEF Hosted, SameHost, Host, Models
<1>9. "session" \in DOMAIN st.model  BY <1>1, <1>2 DEF Hosted, Models
<1>10. st'.model["session"].bound
         = [p \in DOMAIN bound \cup {o} |-> IF p = o THEN <<r, "buf">> ELSE bound[p]]
    BY <1>5, <1>7, <1>9 DEF BoundAs, NewBound
<1>11. BoundAlive'
    <2> SUFFICES ASSUME NEW p \in DOMAIN bound \cup {o}
                 PROVE  /\ p \in Outputs["session"]
                        /\ \E q \in alive \cap Result :
                              /\ st'.model["session"].bound[p] = <<q, "buf">>
                              /\ told'[q] = Bound(p)
        BY <1>1, <1>10 DEF BoundAlive
    <2>1. CASE p = o
        <3>1. told'[r] = Bound(o)  BY <1>1, <1>2 DEF Hosted
        <3> QED BY <1>1, <1>10, <2>1, <3>1
    <2>2. CASE p # o
        <3>1. p \in DOMAIN bound  BY <2>2
        <3>2. PICK q \in alive \cap Result : bound[p] = <<q, "buf">> /\ told[q] = Bound(p)
            BY <1>2, <3>1 DEF BoundAlive
        <3>3. q # r  BY <1>1, <2>2, <3>1, <3>2
        <3>4. told[q] # Bound(o)  BY <2>2, <3>2 DEF Bound
        <3>5. told'[q] = Bound(p)  BY <1>1, <1>2, <3>2, <3>3, <3>4 DEF Hosted
        <3>6. p \in Outputs["session"]  BY <1>2, <3>1 DEF BoundAlive
        <3>7. st'.model["session"].bound[p] = <<q, "buf">>  BY <1>10, <2>2, <3>1, <3>2
        <3> QED BY <3>2, <3>5, <3>6, <3>7
    <2> QED BY <2>1, <2>2
<1>12. Spared(st, GoneCells(alive))'  BY <1>3, <1>7 DEF gone
<1> QED BY <1>1, <1>8, <1>11, <1>12 DEF Dropping

(* What is freed holds nothing any more.                                   *)
LEMMA NothingComputed ==
    ASSUME NEW mem
    PROVE  Computed(<<{Lit(Garbled)}>>, TRUE, mem) = Garbled
<1> DEFINE from == <<{Lit(Garbled)}>>
           parts == [i \in DOMAIN from |-> Common({Held(s, mem) : s \in from[i]})]
<1>1. DOMAIN from = 1 .. 1 /\ from[1] = {Lit(Garbled)}  OBVIOUS
<1>2. Held(Lit(Garbled), mem) = Garbled  BY DEF Held, Lit
<1>3. {Held(s, mem) : s \in from[1]} = {Garbled}  BY <1>1, <1>2
<1>4. Garbled # Zero  BY DEF Garbled, Zero
<1>5. {Garbled} \ {Zero} = {Garbled}  BY <1>4
<1>6. Cardinality({Garbled}) = 1  BY FS_Singleton
<1>7. Common({Garbled}) = Garbled
    <2>1. Cardinality({Garbled} \ {Zero}) = 1  BY <1>5, <1>6
    <2>2. Common({Garbled}) = CHOOSE v \in {Garbled} \ {Zero} : TRUE  BY <2>1 DEF Common
    <2> QED BY <1>5, <2>2
<1> HIDE DEF from
<1>8. 1 \in DOMAIN parts /\ parts[1] = Garbled  BY <1>1, <1>3, <1>7
<1>9. Computed(from, TRUE, mem)
        = IF TRUE /\ \A i \in DOMAIN parts : parts[i] # Garbled THEN FlattenSeq(parts) ELSE Garbled
    BY Zenon DEF Computed
<1> HIDE DEF parts
<1> QED BY <1>8, <1>9 DEF from

Written(s, t, cells, v) ==
    /\ DOMAIN t.mem = DOMAIN s.mem \cup cells
    /\ \A c \in DOMAIN t.mem : t.mem[c] = IF c \in cells THEN v ELSE s.mem[c]

LEMMA AllWritten ==
    ASSUME NEW s, Host(s), NEW cells, NEW from, NEW t, t = Enqueue(s, All(cells), from, TRUE)
    PROVE  /\ SameHost(s, t) /\ SameBound(s, t)
           /\ Written(s, t, cells, Computed(from, TRUE, s.mem))
<1> DEFINE v == Computed(from, TRUE, s.mem)
           writes == All(cells)
           mem == [c \in DOMAIN s.mem \cup DOMAIN writes |->
                      IF c \in DOMAIN writes THEN Part(v, writes[c]) ELSE s.mem[c]]
<1>1. SameHost(s, t) /\ SameBound(s, t)
    <2> HIDE DEF writes
    <2>1. t = Enqueue(s, writes, from, TRUE)  BY DEF writes
    <2> QED BY <2>1, EnqueueSpares
<1>2. t.mem = mem
    <2> HIDE DEF mem
    <2>1. t = [s EXCEPT !.mem = mem, !.dirty = s.dirty \cup DOMAIN writes]
        BY Zenon DEF Enqueue, mem
    <2> QED BY <2>1 DEF Host
<1> HIDE DEF v
<1>3. DOMAIN writes = cells /\ \A c \in cells : writes[c] = 0  BY DEF All
<1> HIDE DEF writes
<1>4. DOMAIN mem = DOMAIN s.mem \cup cells  BY <1>3
<1>5. \A c \in DOMAIN mem : mem[c] = IF c \in cells THEN v ELSE s.mem[c]
    BY <1>3 DEF Part
<1> HIDE DEF mem
<1> QED BY <1>1, <1>2, <1>4, <1>5 DEF v, Written

LEMMA DropKeeps ==
    ASSUME Dropping, NEW r \in Result, Drop(r)
    PROVE  Dropping'
<1> DEFINE gone == GoneCells(alive)
           cells == {<<r, c>> : c \in DataFields[kind]}
           from == <<{Lit(Garbled)}>>
<1>1. /\ kind \in {"session", "raco"} /\ r \in alive /\ UNCHANGED kind
      /\ told[r].res \notin Outputs["session"]
      /\ alive' = alive \ {r} /\ told' = [told EXCEPT ![r] = None]
      /\ st' = Enqueue(st, All(cells), from, TRUE)
    BY Zenon DEF Drop
<1>2. Hosted /\ Spared(st, gone)  BY <1>1 DEF Dropping
<1>3. gone' = gone \cup cells
    BY <1>1 DEF GoneCells
<1>4. Computed(from, TRUE, st.mem) = Garbled  BY NothingComputed
<1>5. \A p \in DOMAIN st.model["session"].bound : kind = "session" => st.model["session"].bound[p] \notin cells
    <2> SUFFICES ASSUME kind = "session", NEW p \in DOMAIN st.model["session"].bound
                 PROVE  st.model["session"].bound[p] \notin cells
        OBVIOUS
    <2>1. p \in Outputs["session"] /\ \E q \in alive \cap Result :
              st.model["session"].bound[p] = <<q, "buf">> /\ told[q] = Bound(p)
        BY DEF Dropping, BoundAlive
    <2>2. PICK q \in alive \cap Result : st.model["session"].bound[p] = <<q, "buf">> /\ told[q] = Bound(p)
        BY <2>1
    <2>3. told[q].res = p  BY <2>2 DEF Bound
    <2>4. q # r  BY <1>1, <2>1, <2>3
    <2> QED BY <2>2, <2>4
<1> HIDE DEF cells, from, gone
<1>6. Host(st)  BY <1>2 DEF Hosted
<1>7. /\ SameHost(st, st') /\ SameBound(st, st')
      /\ DOMAIN st'.mem = DOMAIN st.mem \cup cells
      /\ \A c \in DOMAIN st'.mem : st'.mem[c] = IF c \in cells THEN Garbled ELSE st.mem[c]
    <2>1. SameHost(st, st') /\ SameBound(st, st') /\ Written(st, st', cells, Computed(from, TRUE, st.mem))
        BY <1>1, <1>6, AllWritten, Zenon
    <2> QED BY <1>4, <2>1 DEF Written
<1>8. Hosted'  BY <1>1, <1>2, <1>7 DEF Hosted, SameHost, Host, Models
<1>9. kind = "session" => DOMAIN st.model = {"session"}  BY <1>2 DEF Hosted, Models
<1>10. kind = "raco" => Clean(st)  BY DEF Dropping
<1>11. \A m \in DOMAIN st.model : \A p \in DOMAIN st.model[m].bound :
          st.model[m].bound[p] \notin gone \cup cells
    <2> SUFFICES ASSUME NEW m \in DOMAIN st.model, NEW p \in DOMAIN st.model[m].bound
                 PROVE  st.model[m].bound[p] \notin cells
        BY <1>2 DEF Spared
    <2>1. CASE kind = "raco"
        <3>1. st.model[m].bound = <<>>  BY <1>10, <2>1 DEF Clean
        <3> QED BY <3>1
    <2>2. CASE kind = "session"
        BY <1>5, <1>9, <2>2
    <2> QED BY <1>1, <2>1, <2>2
<1>12. Spared(st', gone \cup cells)
    <2>1. \A c \in gone \cup cells : c \in DOMAIN st'.mem /\ st'.mem[c] = Garbled
        BY <1>2, <1>7 DEF Spared
    <2>2. \A m \in DOMAIN st'.model : m \in DOMAIN st.model /\ st'.model[m].bound = st.model[m].bound
        BY <1>7 DEF SameHost, SameBound
    <2> QED BY <1>11, <2>1, <2>2 DEF Spared
<1>13. Spared(st, GoneCells(alive))'  BY <1>3, <1>12 DEF gone
<1>14. kind = "raco" => Clean(st)'
    BY <1>7, <1>10 DEF Clean, SameHost, SameBound
<1>15. kind = "session" => BoundAlive'
    <2> SUFFICES ASSUME kind = "session", NEW p \in DOMAIN st'.model["session"].bound
                 PROVE  /\ p \in Outputs["session"]
                        /\ \E q \in alive' \cap Result :
                              /\ st'.model["session"].bound[p] = <<q, "buf">>
                              /\ told'[q] = Bound(p)
        BY DEF BoundAlive
    <2>1. st'.model["session"].bound = st.model["session"].bound  BY <1>7, <1>9 DEF SameBound
    <2>2. p \in Outputs["session"] /\ \E q \in alive \cap Result :
              st.model["session"].bound[p] = <<q, "buf">> /\ told[q] = Bound(p)
        BY <2>1 DEF Dropping, BoundAlive
    <2>3. PICK q \in alive \cap Result : st.model["session"].bound[p] = <<q, "buf">> /\ told[q] = Bound(p)
        BY <2>2
    <2>4. told[q].res = p  BY <2>3 DEF Bound
    <2>5. q # r  BY <1>1, <2>2, <2>4
    <2>6. q \in alive' /\ told'[q] = Bound(p)  BY <1>1, <1>2, <2>3, <2>5 DEF Hosted
    <2> QED BY <2>1, <2>2, <2>3, <2>6
<1> QED BY <1>1, <1>8, <1>13, <1>14, <1>15 DEF Dropping

LEMMA AllocKeeps ==
    ASSUME Dropping, NEW r \in Result, Alloc(r)
    PROVE  Dropping'
<1> DEFINE gone == GoneCells(alive)
           cells == {<<r, c>> : c \in DataFields[kind]}
           from == <<{Lit(Zero)}>>
<1>1. /\ r \notin alive /\ UNCHANGED <<kind, told>> /\ alive' = alive \cup {r}
      /\ st' = Enqueue(st, All(cells), from, TRUE)
    BY Zenon DEF Alloc
<1>2. kind \in {"session", "raco"} /\ Hosted /\ Spared(st, gone)  BY <1>1 DEF Dropping
<1>3. gone' = gone \ cells  BY <1>1 DEF GoneCells
<1> HIDE DEF cells, from, gone
<1>4. Host(st)  BY <1>2 DEF Hosted
<1>5. /\ SameHost(st, st') /\ SameBound(st, st')
      /\ DOMAIN st'.mem = DOMAIN st.mem \cup cells
      /\ \A c \in DOMAIN st'.mem : c \notin cells => st'.mem[c] = st.mem[c]
    <2>1. SameHost(st, st') /\ SameBound(st, st') /\ Written(st, st', cells, Computed(from, TRUE, st.mem))
        BY <1>1, <1>4, AllWritten, Zenon
    <2> QED BY <2>1 DEF Written
<1>6. Hosted'  BY <1>1, <1>2, <1>5 DEF Hosted, SameHost, Host, Models
<1>7. Spared(st', gone \ cells)
    <2>1. \A c \in gone \ cells : c \in DOMAIN st'.mem /\ st'.mem[c] = Garbled
        BY <1>2, <1>5 DEF Spared
    <2>2. \A m \in DOMAIN st'.model : m \in DOMAIN st.model /\ st'.model[m].bound = st.model[m].bound
        BY <1>5 DEF SameHost, SameBound
    <2> QED BY <1>2, <2>1, <2>2 DEF Spared
<1>8. Spared(st, GoneCells(alive))'  BY <1>3, <1>7 DEF gone
<1>9. kind = "raco" => Clean(st)'
    BY <1>5 DEF Dropping, Clean, SameHost, SameBound
<1>10. kind = "session" => BoundAlive'
    <2> SUFFICES ASSUME kind = "session" PROVE BoundAlive'
        OBVIOUS
    <2>1. "session" \in DOMAIN st.model  BY <1>2 DEF Hosted, Models
    <2>2. st'.model["session"].bound = st.model["session"].bound  BY <1>5, <2>1 DEF SameBound
    <2>3. BoundAlive  BY DEF Dropping
    <2> QED BY <1>1, <2>2, <2>3 DEF BoundAlive
<1> QED BY <1>1, <1>2, <1>6, <1>8, <1>9, <1>10 DEF Dropping
-----------------------------------------------------------------------------
LEMMA DroppingSteps ==
    ASSUME Dropping, [Next]_vars
    PROVE  Dropping'
<1>1. CASE UNCHANGED vars
    <2>1. UNCHANGED <<kind, st, told, alive>>  BY <1>1 DEF vars
    <2> QED BY <2>1 DEF Dropping, Hosted, BoundAlive, GoneCells, Host, Models, Clean, Spared
<1>2. CASE DeviceCatchesUp \/ Synchronize
    BY <1>2, IdleKeeps DEF DeviceCatchesUp, Synchronize
<1>3. ASSUME NEW f \in Frame, RunSession(f) PROVE Dropping'
    BY <1>3, RunKeeps
<1>4. ASSUME NEW r \in Result, Drop(r) PROVE Dropping'
    BY <1>4, DropKeeps
<1>5. ASSUME NEW r \in Result, Alloc(r) PROVE Dropping'
    BY <1>5, AllocKeeps
<1>6. ASSUME NEW r \in Result, NEW o \in Outputs["session"], BindOutput(o, r) PROVE Dropping'
    BY <1>6, BindKeeps
<1>7. ASSUME NEW f, NEW r, RaCoSubmit(f, r) PROVE Dropping'
    BY <1>7, RaCoKeeps
<1>8. ASSUME NEW l, NEW r, Glue(l, r) PROVE Dropping'
    BY <1>8, GlueKeeps
<1>9. ASSUME NEW r, Enroll(r) \/ MatchInto(r) \/ ClearBank \/ \E i \in 1 .. Capacity : Replace(i, r)
      PROVE  Dropping'
    <2>1. kind = "dino" /\ UNCHANGED <<kind, alive>>
        BY <1>9 DEF Enroll, MatchInto, ClearBank, Replace
    <2> QED BY <2>1, OtherPipelinesKeep
<1>10. ASSUME NEW f, NEW g, NEW l, NEW r,
              XFeatSubmit(f, r) \/ Submit(f, r) \/ Match(l, r) \/ XFeatSubmitPair(f, g, l, r)
       PROVE  Dropping'
    <2>1. kind \notin {"session", "raco"} /\ UNCHANGED <<kind, alive>>
        BY <1>10 DEF XFeatSubmit, Submit, Match, XFeatSubmitPair
    <2> QED BY <2>1, OtherPipelinesKeep
<1> QED BY <1>1, <1>2, <1>3, <1>4, <1>5, <1>6, <1>7, <1>8, <1>9, <1>10 DEF Next

(* "a persistent binding would let a caller drop the result buffer and     *)
(* have the next run write into freed device memory": no run does, for     *)
(* any results, frames and sizes, and whichever calls fail.                *)
THEOREM NothingWrittenAfterDrop == Spec => []NoWriteAfterDrop
<1>1. Init => Dropping  BY DroppingStarts
<1>2. Dropping /\ [Next]_vars => Dropping'  BY DroppingSteps
<1>3. Dropping => NoWriteAfterDrop
    <2> SUFFICES ASSUME Dropping, NEW r \in Result \ alive, NEW c \in DataFields[kind]
                 PROVE  st.mem[<<r, c>>] = Garbled
        BY DEF NoWriteAfterDrop
    <2>1. kind \in {"session", "raco"}  BY DEF Dropping
    <2>2. <<r, c>> \in GoneCells(alive)  BY DEF GoneCells
    <2> QED BY <2>1, <2>2 DEF Dropping, Spared
<1> QED BY <1>1, <1>2, <1>3, PTL DEF Spec
=============================================================================
