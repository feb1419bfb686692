--------------------------- MODULE LiveViewProofs ---------------------------
(***************************************************************************)
(* What a viewer of the live view may rely on, proved for any number of    *)
(* views and viewers, any queue bound and distance of keyframes, and any   *)
(* interleaving of the producer, the worker, the serving threads, lost     *)
(* connections and decoder errors.                                         *)
(***************************************************************************)
EXTENDS LiveViewProperties, SequenceTheorems, TLAPS

-----------------------------------------------------------------------------
(* Queues.                                                                 *)

LEMMA Messages ==
    /\ \A s \in View : /\ Config(s) \in Message /\ Config(s).kind = "config"
                       /\ Config(s).view = s
    /\ \A s \in View, au \in AccessUnit :
          /\ Frame(s, au) \in Message /\ Frame(s, au).kind = "frame"
          /\ Frame(s, au).view = s /\ Frame(s, au).au = au
    /\ \A m \in Message : /\ m.view \in View /\ m.kind \in {"config", "frame"}
                          /\ m.kind = "config" => m = Config(m.view)
                          /\ m.kind = "frame" => m.au \in AccessUnit
BY DEF Message, Config, Frame

LEMMA Appending ==
    ASSUME NEW S, NEW q \in Seq(S), NEW m \in S
    PROVE  /\ Append(q, m) \in Seq(S) /\ Len(q) \in Nat /\ DOMAIN q = 1 .. Len(q)
           /\ Len(Append(q, m)) = Len(q) + 1
           /\ DOMAIN Append(q, m) = 1 .. Len(q) + 1
           /\ \A k \in 1 .. Len(q) : Append(q, m)[k] = q[k]
           /\ Append(q, m)[Len(q) + 1] = m
OBVIOUS

LEMMA Popping ==
    ASSUME NEW S, NEW q \in Seq(S), q # <<>>
    PROVE  /\ Tail(q) \in Seq(S) /\ Len(q) \in Nat /\ Len(q) >= 1
           /\ DOMAIN q = 1 .. Len(q) /\ DOMAIN Tail(q) = 1 .. Len(q) - 1
           /\ Len(Tail(q)) = Len(q) - 1
           /\ \A k \in 1 .. Len(q) - 1 : Tail(q)[k] = q[k + 1]
           /\ Head(q) = q[1] /\ q[1] \in S
OBVIOUS

(* A message that is no frame of the view leaves its frames where they are. *)
LEMMA AppendedFrames ==
    ASSUME NEW q \in Seq(Message), NEW m \in Message, NEW s
    PROVE  /\ FramesOf(q, s) \subseteq 1 .. Len(q)
           /\ ~(m.kind = "frame" /\ m.view = s) => FramesOf(Append(q, m), s) = FramesOf(q, s)
           /\ m.kind = "frame" /\ m.view = s =>
                 FramesOf(Append(q, m), s) = FramesOf(q, s) \cup {Len(q) + 1}
<1> DEFINE r == Append(q, m)
<1>1. /\ Len(q) \in Nat /\ DOMAIN q = 1 .. Len(q) /\ DOMAIN r = 1 .. Len(q) + 1
      /\ \A k \in 1 .. Len(q) : r[k] = q[k]
      /\ r[Len(q) + 1] = m
    BY Appending
<1> HIDE DEF r
<1>2. \A k : k \in FramesOf(q, s) <=>
               k \in 1 .. Len(q) /\ q[k].kind = "frame" /\ q[k].view = s
    BY <1>1 DEF FramesOf
<1>3. \A k : k \in FramesOf(r, s) <=>
               k \in 1 .. Len(q) + 1 /\ r[k].kind = "frame" /\ r[k].view = s
    BY <1>1 DEF FramesOf
<1>4. CASE ~(m.kind = "frame" /\ m.view = s)
  <2>1. ASSUME NEW k PROVE k \in FramesOf(r, s) <=> k \in FramesOf(q, s)
    BY <1>1, <1>2, <1>3, <1>4
  <2> QED
    BY <1>2, <1>4, <2>1 DEF r
<1>5. CASE m.kind = "frame" /\ m.view = s
  <2>1. ASSUME NEW k
        PROVE  k \in FramesOf(r, s) <=> k \in FramesOf(q, s) \cup {Len(q) + 1}
    BY <1>1, <1>2, <1>3, <1>5
  <2> QED
    BY <1>2, <1>5, <2>1 DEF r
<1> QED
    BY <1>4, <1>5

LEMMA PoppedFrames ==
    ASSUME NEW q \in Seq(Message), q # <<>>, NEW s
    PROVE  /\ \A i \in FramesOf(q, s) : /\ i \in Nat /\ 1 <= i /\ i <= Len(q)
                                         /\ (i = 1 \/ i - 1 \in FramesOf(Tail(q), s))
           /\ \A k \in FramesOf(Tail(q), s) : /\ k \in Nat /\ 1 <= k
                                               /\ k + 1 \in FramesOf(q, s)
                                               /\ Tail(q)[k] = q[k + 1]
           /\ 1 \in FramesOf(q, s) <=> Head(q).kind = "frame" /\ Head(q).view = s
<1> DEFINE r == Tail(q)
<1>1. /\ Len(q) \in Nat /\ Len(q) >= 1 /\ DOMAIN q = 1 .. Len(q)
      /\ DOMAIN r = 1 .. Len(q) - 1 /\ Head(q) = q[1]
      /\ \A k \in 1 .. Len(q) - 1 : r[k] = q[k + 1]
    BY Popping
<1> HIDE DEF r
<1>2. \A k : k \in FramesOf(q, s) <=>
               k \in 1 .. Len(q) /\ q[k].kind = "frame" /\ q[k].view = s
    BY <1>1 DEF FramesOf
<1>3. \A k : k \in FramesOf(r, s) <=>
               k \in 1 .. Len(q) - 1 /\ r[k].kind = "frame" /\ r[k].view = s
    BY <1>1 DEF FramesOf
<1>4. ASSUME NEW i \in FramesOf(q, s)
      PROVE  /\ i \in Nat /\ 1 <= i /\ i <= Len(q)
             /\ (i = 1 \/ i - 1 \in FramesOf(r, s))
  <2>1. i \in Nat /\ 1 <= i /\ i <= Len(q)
    BY <1>1, <1>2
  <2>2. CASE i # 1
    <3>1. i - 1 \in 1 .. Len(q) - 1 /\ (i - 1) + 1 = i
      BY <1>1, <2>1, <2>2
    <3> QED
      BY <1>1, <1>2, <1>3, <2>1, <3>1
  <2> QED
    BY <2>1, <2>2
<1>5. ASSUME NEW k \in FramesOf(r, s)
      PROVE  /\ k \in Nat /\ 1 <= k
             /\ k + 1 \in FramesOf(q, s) /\ r[k] = q[k + 1]
  <2>1. k \in Nat /\ 1 <= k /\ k \in 1 .. Len(q) - 1 /\ k + 1 \in 1 .. Len(q)
    BY <1>1, <1>3
  <2> QED
    BY <1>1, <1>2, <1>3, <2>1
<1>6. 1 \in FramesOf(q, s) <=> Head(q).kind = "frame" /\ Head(q).view = s
    BY <1>1, <1>2
<1> QED
    BY <1>4, <1>5, <1>6 DEF r

(* A decoder that waits for a keyframe expects no particular frame.        *)
LEMMA WaitingExpectsNothing ==
    ASSUME NEW q, NEW d, NEW e, NEW s, e.waitkey
    PROVE  /\ Contiguous(q, d, s) => Contiguous(q, e, s)
           /\ \A n : UpToDate(q, d, s, n) => UpToDate(q, e, s, n)
BY DEF Contiguous, UpToDate

LEMMA CastOther ==
    ASSUME NEW q \in Seq(Message), NEW m \in Message, NEW d, NEW s,
           ~(m.kind = "frame" /\ m.view = s)
    PROVE  /\ Contiguous(q, d, s) => Contiguous(Append(q, m), d, s)
           /\ \A n : UpToDate(q, d, s, n) => UpToDate(Append(q, m), d, s, n)
           /\ Announced(q, s) => Announced(Append(q, m), s)
<1>1. /\ FramesOf(Append(q, m), s) = FramesOf(q, s)
      /\ FramesOf(q, s) \subseteq 1 .. Len(q)
    BY AppendedFrames
<1>2. Len(q) \in Nat /\ \A k \in 1 .. Len(q) : Append(q, m)[k] = q[k]
    BY Appending
<1>3. \A k \in FramesOf(q, s) : Append(q, m)[k] = q[k]
    BY <1>1, <1>2
<1>4. Contiguous(q, d, s) => Contiguous(Append(q, m), d, s)
    BY <1>1, <1>3 DEF Contiguous
<1>5. \A n : UpToDate(q, d, s, n) => UpToDate(Append(q, m), d, s, n)
    BY <1>1, <1>3 DEF UpToDate
<1>6. ASSUME Announced(q, s), NEW k \in FramesOf(q, s)
      PROVE  \E j \in 1 .. k - 1 : Append(q, m)[j] = Config(s)
  <2>1. PICK j \in 1 .. k - 1 : q[j] = Config(s)
    BY <1>6 DEF Announced
  <2>2. j \in 1 .. Len(q)
    BY <1>1, <1>2
  <2> QED
    BY <1>2, <2>1, <2>2
<1> QED
    BY <1>1, <1>4, <1>5, <1>6 DEF Announced

(* The next frame in order joins a queue that is up to date.               *)
LEMMA CastOwn ==
    ASSUME NEW q \in Seq(Message), NEW m \in Message, NEW d, NEW s, NEW n \in Int,
           m.kind = "frame", m.view = s, m.au.n = n + 1,
           Contiguous(q, d, s), UpToDate(q, d, s, n)
    PROVE  /\ Contiguous(Append(q, m), d, s)
           /\ UpToDate(Append(q, m), d, s, n + 1)
           /\ Announced(q, s) /\ (\E j \in DOMAIN q : q[j] = Config(s))
                 => Announced(Append(q, m), s)
<1> DEFINE r == Append(q, m)
           last == Len(q) + 1
<1>1. /\ FramesOf(r, s) = FramesOf(q, s) \cup {last}
      /\ FramesOf(q, s) \subseteq 1 .. Len(q)
    BY AppendedFrames
<1>2. Len(q) \in Nat /\ (\A k \in 1 .. Len(q) : r[k] = q[k]) /\ r[last] = m
    BY Appending
<1> HIDE DEF r
<1>3. \A k \in FramesOf(q, s) : r[k] = q[k] /\ k \in Nat /\ k < last
    BY <1>1, <1>2
<1>4. last \in Nat
    BY <1>2
<1> HIDE DEF last
<1>5. ASSUME NEW k \in FramesOf(r, s), \A j \in FramesOf(r, s) : k <= j, ~d.waitkey
      PROVE  r[k].au.n = d.last.n + 1
  <2>1. CASE k = last
    <3>1. FramesOf(q, s) = {}
      BY <1>1, <1>3, <1>4, <1>5, <2>1
    <3> QED
      BY <1>2, <1>5, <2>1, <3>1 DEF UpToDate
  <2>2. CASE k # last
    BY <1>1, <1>3, <1>5, <2>2 DEF Contiguous
  <2> QED
    BY <2>1, <2>2
<1>6. ASSUME NEW j \in FramesOf(r, s), NEW k \in FramesOf(r, s), j < k,
             \A i \in FramesOf(r, s) : i <= j \/ k <= i
      PROVE  r[k].au.n = r[j].au.n + 1
  <2>1. j \in FramesOf(q, s)
    BY <1>1, <1>3, <1>4, <1>6
  <2>2. CASE k = last
    <3>1. \A i \in FramesOf(q, s) : i <= j
      BY <1>1, <1>3, <1>4, <1>6, <2>2
    <3>2. q[j].au.n = n
      BY <2>1, <3>1 DEF UpToDate
    <3> QED
      BY <1>2, <1>3, <2>1, <2>2, <3>2
  <2>3. CASE k # last
    BY <1>1, <1>3, <1>6, <2>1, <2>3 DEF Contiguous
  <2> QED
    BY <2>2, <2>3
<1>7. ASSUME NEW k \in FramesOf(r, s), \A j \in FramesOf(r, s) : j <= k
      PROVE  r[k].au.n = n + 1
  <2>1. last \in FramesOf(r, s)
    BY <1>1
  <2>2. last <= k
    BY <1>7, <2>1
  <2>3. k \notin FramesOf(q, s)
    BY <1>3, <1>4, <2>2
  <2>4. k = last
    BY <1>1, <2>3
  <2> QED
    BY <1>2, <2>4
<1>8. FramesOf(r, s) # {}
    BY <1>1
<1>9. ASSUME Announced(q, s), NEW c \in DOMAIN q, q[c] = Config(s),
             NEW k \in FramesOf(r, s)
      PROVE  \E j \in 1 .. k - 1 : r[j] = Config(s)
  <2>1. /\ DOMAIN q = 1 .. Len(q)
        /\ \A i \in FramesOf(q, s) : i \in 1 .. Len(q)
    BY <1>1, Appending
  <2>2. CASE k = last
    <3>1. c \in 1 .. k - 1 /\ r[c] = q[c]
      BY <1>2, <1>9, <2>1, <2>2 DEF last
    <3> QED
      BY <1>9, <3>1
  <2>3. CASE k # last
    <3>1. k \in FramesOf(q, s)
      BY <1>1, <1>9, <2>3
    <3>2. PICK j \in 1 .. k - 1 : q[j] = Config(s)
      BY <1>9, <3>1 DEF Announced
    <3>3. j \in 1 .. Len(q)
      BY <1>2, <2>1, <3>1, <3>2
    <3> QED
      BY <1>2, <3>2, <3>3
  <2> QED
    BY <2>2, <2>3
<1>10. Announced(q, s) /\ (\E j \in DOMAIN q : q[j] = Config(s)) => Announced(r, s)
    BY <1>9 DEF Announced
<1> QED
    BY <1>5, <1>6, <1>7, <1>8, <1>10 DEF Contiguous, UpToDate, r

(* The relay takes a message that is no frame of the view off the queue.   *)
LEMMA PopOther ==
    ASSUME NEW q \in Seq(Message), q # <<>>, NEW d, NEW s,
           ~(Head(q).kind = "frame" /\ Head(q).view = s)
    PROVE  /\ Contiguous(q, d, s) => Contiguous(Tail(q), d, s)
           /\ \A n : UpToDate(q, d, s, n) => UpToDate(Tail(q), d, s, n)
           /\ Announced(q, s) /\ Head(q) # Config(s) => Announced(Tail(q), s)
<1> DEFINE r == Tail(q)
<1> DEFINE own == Head(q).kind = "frame" /\ Head(q).view = s
<1>p. /\ \A i \in FramesOf(q, s) : /\ i \in Nat /\ 1 <= i /\ i <= Len(q)
                                    /\ (i = 1 \/ i - 1 \in FramesOf(r, s))
      /\ \A k \in FramesOf(r, s) : /\ k \in Nat /\ 1 <= k
                                    /\ k + 1 \in FramesOf(q, s) /\ r[k] = q[k + 1]
      /\ 1 \in FramesOf(q, s) <=> own
    BY PoppedFrames, Zenon
<1>2. /\ Len(q) \in Nat /\ Head(q) = q[1]
      /\ \A k \in 1 .. Len(q) - 1 : r[k] = q[k + 1]
    BY Popping
<1>1. 1 \notin FramesOf(q, s)
    BY <1>p
<1> HIDE DEF r, own
<1>3. \A i \in FramesOf(q, s) : i \in Nat /\ i <= Len(q) /\ i - 1 \in FramesOf(r, s)
    BY <1>p, <1>1
<1>4. \A k \in FramesOf(r, s) : k \in Nat /\ k + 1 \in FramesOf(q, s) /\ r[k] = q[k + 1]
    BY <1>p
<1>5. ASSUME Contiguous(q, d, s) PROVE Contiguous(r, d, s)
  <2>1. ASSUME NEW k \in FramesOf(r, s), \A j \in FramesOf(r, s) : k <= j, ~d.waitkey
        PROVE  r[k].au.n = d.last.n + 1
    <3>1. ASSUME NEW i \in FramesOf(q, s) PROVE k + 1 <= i
      BY <1>3, <1>4, <2>1
    <3> QED
      BY <1>4, <1>5, <2>1, <3>1 DEF Contiguous
  <2>2. ASSUME NEW j \in FramesOf(r, s), NEW k \in FramesOf(r, s), j < k,
               \A i \in FramesOf(r, s) : i <= j \/ k <= i
        PROVE  r[k].au.n = r[j].au.n + 1
    <3>1. ASSUME NEW i \in FramesOf(q, s) PROVE i <= j + 1 \/ k + 1 <= i
      <4>1. i - 1 \in FramesOf(r, s) /\ i \in Nat /\ j \in Nat /\ k \in Nat
        BY <1>3, <1>4
      <4>2. i - 1 <= j \/ k <= i - 1
        BY <2>2, <4>1
      <4> QED
        BY <4>1, <4>2
    <3>2. j + 1 < k + 1
      BY <1>4, <2>2
    <3> QED
      BY <1>4, <1>5, <3>1, <3>2 DEF Contiguous
  <2> QED
    BY <2>1, <2>2 DEF Contiguous
<1>6. ASSUME NEW n, UpToDate(q, d, s, n) PROVE UpToDate(r, d, s, n)
  <2>1. ASSUME NEW k \in FramesOf(r, s), \A j \in FramesOf(r, s) : j <= k
        PROVE  r[k].au.n = n
    <3>1. ASSUME NEW i \in FramesOf(q, s) PROVE i <= k + 1
      BY <1>3, <1>4, <2>1
    <3> QED
      BY <1>4, <1>6, <3>1 DEF UpToDate
  <2>2. FramesOf(r, s) = {} => FramesOf(q, s) = {}
    BY <1>3
  <2> QED
    BY <1>6, <2>1, <2>2 DEF UpToDate
<1>7. ASSUME Announced(q, s), Head(q) # Config(s), NEW k \in FramesOf(r, s)
      PROVE  \E j \in 1 .. k - 1 : r[j] = Config(s)
  <2>1. PICK i \in 1 .. (k + 1) - 1 : q[i] = Config(s)
    BY <1>4, <1>7 DEF Announced
  <2>2. i # 1
    BY <1>2, <1>7, <2>1
  <2>3. k \in Nat /\ k + 1 <= Len(q)
    BY <1>3, <1>4
  <2>4. i - 1 \in 1 .. k - 1 /\ i - 1 \in 1 .. Len(q) - 1 /\ (i - 1) + 1 = i
    BY <1>2, <2>2, <2>3
  <2> QED
    BY <1>2, <2>1, <2>4
<1> QED
    BY <1>5, <1>6, <1>7 DEF Announced, r

(* The relay takes a frame: a decoder it was fed to expects the next one.  *)
LEMMA PopOwn ==
    ASSUME NEW q \in Seq(Message), q # <<>>, NEW d, NEW e, NEW s,
           Head(q).kind = "frame", Head(q).view = s,
           ~e.waitkey => e.last = Head(q).au,
           Contiguous(q, d, s)
    PROVE  /\ Contiguous(Tail(q), e, s)
           /\ \A n : UpToDate(q, d, s, n) => UpToDate(Tail(q), e, s, n)
           /\ ~Announced(q, s)
           /\ ~d.waitkey => Head(q).au.n = d.last.n + 1
<1> DEFINE r == Tail(q)
<1> DEFINE own == Head(q).kind = "frame" /\ Head(q).view = s
<1>p. /\ \A i \in FramesOf(q, s) : /\ i \in Nat /\ 1 <= i /\ i <= Len(q)
                                    /\ (i = 1 \/ i - 1 \in FramesOf(r, s))
      /\ \A k \in FramesOf(r, s) : /\ k \in Nat /\ 1 <= k
                                    /\ k + 1 \in FramesOf(q, s) /\ r[k] = q[k + 1]
      /\ 1 \in FramesOf(q, s) <=> own
    BY PoppedFrames, Zenon
<1>1. 1 \in FramesOf(q, s)
    BY <1>p
<1>2. Head(q) = q[1]
    BY Popping
<1> HIDE DEF r, own
<1>3. \A i \in FramesOf(q, s) : i \in Nat /\ 1 <= i /\ (i = 1 \/ i - 1 \in FramesOf(r, s))
    BY <1>p
<1>4. \A k \in FramesOf(r, s) : /\ k \in Nat /\ 1 <= k
                                /\ k + 1 \in FramesOf(q, s) /\ r[k] = q[k + 1]
    BY <1>p
<1>5. ASSUME NEW k \in FramesOf(r, s), \A j \in FramesOf(r, s) : k <= j, ~e.waitkey
      PROVE  r[k].au.n = e.last.n + 1
  <2>1. ASSUME NEW i \in FramesOf(q, s) PROVE i <= 1 \/ k + 1 <= i
    BY <1>3, <1>4, <1>5
  <2>2. 1 < k + 1
    BY <1>4
  <2>3. q[k + 1].au.n = q[1].au.n + 1
    BY <1>1, <1>4, <2>1, <2>2 DEF Contiguous
  <2> QED
    BY <1>2, <1>4, <1>5, <2>3
<1>6. ASSUME NEW j \in FramesOf(r, s), NEW k \in FramesOf(r, s), j < k,
             \A i \in FramesOf(r, s) : i <= j \/ k <= i
      PROVE  r[k].au.n = r[j].au.n + 1
  <2>1. ASSUME NEW i \in FramesOf(q, s) PROVE i <= j + 1 \/ k + 1 <= i
    <3>1. i \in Nat /\ j \in Nat /\ k \in Nat /\ 1 <= j
      BY <1>3, <1>4
    <3>2. CASE i = 1
      BY <3>1, <3>2
    <3>3. CASE i # 1
      <4>1. i - 1 <= j \/ k <= i - 1
        BY <1>3, <1>6, <3>3
      <4> QED
        BY <3>1, <4>1
    <3> QED
      BY <3>2, <3>3
  <2>2. j + 1 < k + 1
    BY <1>4, <1>6
  <2> QED
    BY <1>4, <2>1, <2>2 DEF Contiguous
<1>7. ASSUME NEW n, UpToDate(q, d, s, n) PROVE UpToDate(r, e, s, n)
  <2>1. ASSUME NEW k \in FramesOf(r, s), \A j \in FramesOf(r, s) : j <= k
        PROVE  r[k].au.n = n
    <3>1. ASSUME NEW i \in FramesOf(q, s) PROVE i <= k + 1
      BY <1>3, <1>4, <2>1
    <3> QED
      BY <1>4, <1>7, <3>1 DEF UpToDate
  <2>2. ASSUME FramesOf(r, s) = {}, ~e.waitkey PROVE e.last.n = n
    <3>1. \A i \in FramesOf(q, s) : i <= 1
      BY <1>3, <2>2
    <3> QED
      BY <1>1, <1>2, <1>7, <2>2, <3>1 DEF UpToDate
  <2> QED
    BY <2>1, <2>2 DEF UpToDate
<1>8. ~Announced(q, s)
  <2>1. \A j \in 1 .. 1 - 1 : FALSE
    OBVIOUS
  <2> QED
    BY <1>1, <2>1 DEF Announced
<1>9. ~d.waitkey => Head(q).au.n = d.last.n + 1
    BY <1>1, <1>2, <1>3 DEF Contiguous
<1> QED
    BY <1>5, <1>6, <1>7, <1>8, <1>9 DEF Contiguous, r

-----------------------------------------------------------------------------
(* Decoders.                                                               *)

LEMMA DecoderSteps ==
    ASSUME NEW d \in Decoder
    PROVE  /\ ResetDec(d) \in Decoder /\ EnsureDec(d) \in Decoder /\ OnConfig(d) \in Decoder
           /\ ResetDec(d).cfg = d.cfg /\ ResetDec(d).dec = "none"
           /\ ResetDec(d).waitkey /\ ResetDec(d).last = NoFrame
           /\ EnsureDec(d).cfg = d.cfg /\ EnsureDec(d).waitkey = d.waitkey
           /\ EnsureDec(d).last = d.last
           /\ EnsureDec(d).dec = IF d.dec # "none" THEN d.dec
                                 ELSE IF d.cfg THEN "configured" ELSE "bare"
           /\ OnConfig(d).cfg /\ OnConfig(d).waitkey
           /\ OnConfig(d).last = NoFrame /\ OnConfig(d).dec = "configured"
BY DEF Decoder, ResetDec, EnsureDec, OnConfig

LEMMA ConfigDecoding ==
    ASSUME NEW d \in Decoder
    PROVE  /\ Decoding(ResetDec(d)) /\ Decoding(OnConfig(d))
           /\ Decoding(EnsureDec(ResetDec(d))) /\ EnsureDec(ResetDec(d)) \in Decoder
           /\ EnsureDec(ResetDec(d)).waitkey /\ EnsureDec(ResetDec(d)).cfg = d.cfg
           /\ EnsureDec(ResetDec(d)).last = NoFrame
<1>1. /\ ResetDec(d) \in Decoder /\ ResetDec(d).cfg = d.cfg /\ ResetDec(d).dec = "none"
      /\ ResetDec(d).waitkey /\ ResetDec(d).last = NoFrame
      /\ OnConfig(d).cfg /\ OnConfig(d).waitkey
      /\ OnConfig(d).last = NoFrame /\ OnConfig(d).dec = "configured"
    BY DecoderSteps
<1>2. LET e == EnsureDec(ResetDec(d))
      IN  /\ e \in Decoder /\ e.cfg = d.cfg /\ e.waitkey /\ e.last = NoFrame
          /\ e.dec = IF d.cfg THEN "configured" ELSE "bare"
    BY <1>1, DecoderSteps
<1> QED
    BY <1>1, <1>2 DEF Decoding

(* A decoder that has its config is fed a keyframe or, while it decodes,   *)
(* what comes; or it waits for a keyframe, and then holds what it held.    *)
LEMMA FrameDecoding ==
    ASSUME NEW d \in Decoder, NEW au \in AccessUnit, NEW e \in OnFrame(d, au)
    PROVE  /\ e \in Decoder /\ e.cfg = d.cfg
           /\ d.cfg /\ Decoding(d) => Decoding(e)
           /\ \/ e.waitkey /\ e.last = d.last
              \/ ~e.waitkey /\ e.last = au /\ (au.key \/ ~d.waitkey)
<1> DEFINE open == EnsureDec(d)
<1>1. /\ open \in Decoder /\ open.cfg = d.cfg /\ open.waitkey = d.waitkey
      /\ open.last = d.last
      /\ open.dec = IF d.dec # "none" THEN d.dec
                    ELSE IF d.cfg THEN "configured" ELSE "bare"
    BY DecoderSteps
<1>2. au # NoFrame
    BY DEF AccessUnit, NoFrame
<1>3. \/ e = open /\ open.waitkey
      \/ e = [open EXCEPT !.waitkey = FALSE, !.last = au] /\ (au.key \/ ~open.waitkey)
      \/ e = [open EXCEPT !.waitkey = TRUE]
    BY DEF OnFrame
<1> HIDE DEF open
<1>4. CASE e = open /\ open.waitkey
    BY <1>1, <1>4 DEF Decoding
<1>5. CASE e = [open EXCEPT !.waitkey = FALSE, !.last = au] /\ (au.key \/ ~open.waitkey)
  <2>1. e \in Decoder /\ e.cfg = open.cfg /\ ~e.waitkey /\ e.last = au /\ e.dec = open.dec
    BY <1>1, <1>5 DEF Decoder
  <2> QED
    BY <1>1, <1>2, <1>5, <2>1 DEF Decoding, Decoder
<1>6. CASE e = [open EXCEPT !.waitkey = TRUE]
  <2>1. e \in Decoder /\ e.cfg = open.cfg /\ e.waitkey /\ e.last = open.last /\ e.dec = open.dec
    BY <1>1, <1>6 DEF Decoder
  <2> QED
    BY <1>1, <2>1 DEF Decoding
<1> QED
    BY <1>3, <1>4, <1>5, <1>6
-----------------------------------------------------------------------------
(* Types.                                                                  *)

LEMMA ViewsTyped ==
    /\ Views \in Seq(View) /\ Len(Views) \in Nat /\ Len(Views) >= 1
    /\ DOMAIN Views = 1 .. Len(Views) /\ 1 \in DOMAIN Views
    /\ \A i \in DOMAIN Views : Views[i] \in View
BY LiveViewAssumption

LEMMA InitTyped == Init => TypeOK
<1> SUFFICES ASSUME Init PROVE TypeOK
    OBVIOUS
<1>1. AtSlot \in WorkerState
    BY ViewsTyped DEF AtSlot, WorkerState
<1>2. 0 \in 0 .. Gop - 1 /\ 0 <= QueueCap
    BY LiveViewAssumption
<1>3. NewEncoder \in EncoderState
    BY <1>2 DEF NewEncoder, EncoderState
<1>4. NewDecoder \in Decoder
    BY DEF NewDecoder, Decoder
<1>5. Closed \in Connection
    BY DEF Closed, Connection
<1>6. <<>> \in Seq(Message) /\ Len(<<>>) = 0
    OBVIOUS
<1> QED
    BY <1>1, <1>2, <1>3, <1>4, <1>5, <1>6 DEF Init, TypeOK

(* A broadcast appends to the queues of those it keeps as viewers.         *)
LEMMA Broadcasting ==
    ASSUME TypeOK, NEW m \in Message, Broadcast(m)
    PROVE  /\ clients' \subseteq clients
           /\ queue' \in [Viewer -> Seq(Message)]
           /\ \A v \in Viewer :
                 /\ v \in clients' => queue'[v] = Append(queue[v], m)
                 /\ v \notin clients' => queue'[v] = queue[v]
                 /\ Len(queue'[v]) <= QueueCap
<1>1. /\ clients' = {v \in clients : Len(queue[v]) < QueueCap}
      /\ queue' = [v \in Viewer |-> IF v \in clients' THEN Append(queue[v], m)
                                                      ELSE queue[v]]
    BY DEF Broadcast
<1>2. /\ queue \in [Viewer -> Seq(Message)] /\ QueueCap \in Nat
      /\ \A v \in Viewer : Len(queue[v]) <= QueueCap
    BY LiveViewAssumption DEF TypeOK
<1>3. ASSUME NEW v \in Viewer
      PROVE  /\ v \in clients' => queue'[v] = Append(queue[v], m)
             /\ v \notin clients' => queue'[v] = queue[v]
             /\ queue'[v] \in Seq(Message)
             /\ Len(queue'[v]) <= QueueCap
  <2>1. queue[v] \in Seq(Message)
    BY <1>2
  <2>2. /\ Append(queue[v], m) \in Seq(Message) /\ Len(queue[v]) \in Nat
        /\ Len(Append(queue[v], m)) = Len(queue[v]) + 1
    BY <2>1, Appending
  <2>3. CASE v \in clients'
    BY <1>1, <1>2, <2>2, <2>3
  <2>4. CASE v \notin clients'
    BY <1>1, <1>2, <2>1, <2>4
  <2> QED
    BY <2>3, <2>4
<1>4. queue' \in [Viewer -> Seq(Message)]
  <2> DEFINE f(v) == IF v \in clients' THEN Append(queue[v], m) ELSE queue[v]
  <2>1. queue' = [v \in Viewer |-> f(v)]
    BY <1>1
  <2>2. \A v \in Viewer : queue'[v] = f(v)
    BY <2>1
  <2>3. \A v \in Viewer : f(v) \in Seq(Message)
    BY <1>3, <2>2
  <2> HIDE DEF f
  <2> QED
    BY <2>1, <2>3
<1> QED
    BY <1>1, <1>3, <1>4

LEMMA WorkerTyped ==
    ASSUME NEW w \in WorkerState
    PROVE  /\ NextView(w) \in WorkerState /\ NextView(w).aus = <<>>
           /\ NextView(w).pc \in {"check", "encode"}
           /\ \A pc \in {"check", "wait", "encode", "config", "cast", "frames"} :
                 [w EXCEPT !.pc = pc] \in WorkerState
<1>1. \A k \in DOMAIN Views : k < Len(Views) => k + 1 \in DOMAIN Views
    BY ViewsTyped
<1>2. ASSUME NEW pc \in {"check", "wait", "encode", "config", "cast", "frames"}
      PROVE  [w EXCEPT !.pc = pc] \in WorkerState
    BY DEF WorkerState
<1>3. w.at \in DOMAIN Views /\ 1 \in DOMAIN Views /\ <<>> \in Seq(AccessUnit)
    BY ViewsTyped DEF WorkerState
<1>4. CASE w.at < Len(Views)
  <2>1. NextView(w) = [w EXCEPT !.pc = "encode", !.at = w.at + 1, !.aus = <<>>]
    BY <1>4 DEF NextView
  <2>2. w.at + 1 \in DOMAIN Views
    BY <1>1, <1>3, <1>4
  <2> QED
    BY <1>2, <1>3, <2>1, <2>2, ZenonT(40) DEF WorkerState
<1>5. CASE ~(w.at < Len(Views))
  <2>1. NextView(w) = [w EXCEPT !.pc = "check", !.at = 1, !.aus = <<>>]
    BY <1>5 DEF NextView
  <2> QED
    BY <1>2, <1>3, <2>1, ZenonT(40) DEF WorkerState
<1> QED
    BY <1>4, <1>5

LEMMA ProducerTyped == TypeOK /\ (Submit \/ Notify) => TypeOK'
<1> SUFFICES ASSUME TypeOK, Submit \/ Notify PROVE TypeOK'
    OBVIOUS
<1>1. UNCHANGED <<encoder, configs, clients, queue, conn, page, losses>>
    BY DEF Submit, Notify, serving
<1>2. slot' \in Nat /\ producer' \in [sets : Nat, notify : BOOLEAN]
  <2>1. slot \in Nat /\ producer \in [sets : Nat, notify : BOOLEAN]
    BY DEF TypeOK
  <2>2. CASE Submit
    BY <2>1, <2>2 DEF Submit
  <2>3. CASE Notify
    BY <2>1, <2>3 DEF Notify
  <2> QED
    BY <2>2, <2>3
<1>3. worker' \in WorkerState
    BY WorkerTyped DEF Submit, Notify, TypeOK
<1> QED
    BY <1>1, <1>2, <1>3 DEF TypeOK

LEMMA WorkerStepTyped ==
    TypeOK /\ (Take \/ Wait \/ SpuriousWakeup \/ EncodeFails \/ CacheConfig \/ NoConfig \/ ViewDone)
        => TypeOK'
<1> SUFFICES ASSUME TypeOK,
                    \/ Take \/ Wait \/ SpuriousWakeup \/ EncodeFails
                    \/ CacheConfig \/ NoConfig \/ ViewDone
             PROVE  TypeOK'
    OBVIOUS
<1>1. UNCHANGED <<producer, encoder, clients, queue, conn, page, losses>>
    BY DEF Take, Wait, SpuriousWakeup, EncodeFails, CacheConfig, NoConfig, ViewDone, serving
<1>2. slot' \in Nat
  <2>1. slot' \in {slot, 0}
    BY DEF Take, Wait, SpuriousWakeup, EncodeFails, CacheConfig, NoConfig, ViewDone
  <2> QED
    BY <2>1 DEF TypeOK
<1>3. Views[worker.at] \in View
    BY ViewsTyped DEF TypeOK, WorkerState
<1>4. configs' \subseteq View
  <2>1. configs' \in {configs, configs \cup {Views[worker.at]}}
    BY DEF Take, Wait, SpuriousWakeup, EncodeFails, CacheConfig, NoConfig, ViewDone
  <2> QED
    BY <1>3, <2>1 DEF TypeOK
<1>5. worker' \in WorkerState
  <2>1. worker \in WorkerState
    BY DEF TypeOK
  <2>2. CASE Take
    <3>1. worker' = [pc |-> "encode", set |-> slot, at |-> 1, aus |-> <<>>]
      BY <2>2 DEF Take
    <3>2. slot \in Nat /\ 1 \in DOMAIN Views /\ <<>> \in Seq(AccessUnit)
      BY ViewsTyped DEF TypeOK
    <3> QED
      BY <3>1, <3>2 DEF WorkerState
  <2>3. CASE Wait \/ SpuriousWakeup \/ CacheConfig \/ NoConfig
    BY <2>1, <2>3, WorkerTyped DEF Wait, SpuriousWakeup, CacheConfig, NoConfig
  <2>4. CASE EncodeFails \/ ViewDone
    BY <2>1, <2>4, WorkerTyped DEF EncodeFails, ViewDone
  <2> QED
    BY <2>2, <2>3, <2>4
<1> QED
    BY <1>1, <1>2, <1>4, <1>5 DEF TypeOK

(* What a step of an encoder does to its units.                            *)
EncodedUnits(s, key, pulled) ==
    LET done == Append(encoder[s].pending, [n |-> encoder[s].n + 1, key |-> key])
    IN  /\ pulled \in 0 .. Len(done)
        /\ worker' = [worker EXCEPT !.pc = "config", !.aus = SubSeq(done, 1, pulled)]
        /\ encoder' = [encoder EXCEPT ![s] =
              [encoder[s] EXCEPT !.n = @ + 1,
                                 !.sinceKey = IF key THEN 0 ELSE @ + 1,
                                 !.pending = SubSeq(done, pulled + 1, Len(done)),
                                 !.codec = @ \/ pulled > 0]]

LEMMA Encoding ==
    ASSUME TypeOK, Encode
    PROVE  LET e == encoder[Current]
               f == encoder'[Current]
               w == worker'
               m == Len(e.pending)
           IN  /\ Current \in View /\ worker.pc = "encode" /\ e \in EncoderState /\ m \in Nat
               /\ encoder' \in [View -> EncoderState]
               /\ \A s \in View : s # Current => encoder'[s] = encoder[s]
               /\ w \in WorkerState /\ w.pc = "config" /\ w.at = worker.at
               /\ f.n = e.n + 1 /\ f.cfg_sent = e.cfg_sent
               /\ w.aus # <<>> => f.codec
               /\ Len(w.aus) + Len(f.pending) = m + 1
               /\ Len(w.aus) \in Nat /\ Len(f.pending) \in Nat
               /\ DOMAIN w.aus = 1 .. Len(w.aus)
               /\ DOMAIN f.pending = 1 .. Len(f.pending)
               /\ \A i \in DOMAIN w.aus :
                     w.aus[i].n = IF i <= m THEN e.pending[i].n ELSE e.n + 1
               /\ \A i \in DOMAIN f.pending :
                     f.pending[i].n = IF i + Len(w.aus) <= m THEN e.pending[i + Len(w.aus)].n
                                      ELSE e.n + 1
<1> DEFINE e == encoder[Current]
           f == encoder'[Current]
           m == Len(e.pending)
<1>1. Current \in View /\ worker \in WorkerState /\ worker.pc = "encode"
    BY ViewsTyped DEF TypeOK, WorkerState, Current, Encode
<1>2. e \in EncoderState /\ encoder \in [View -> EncoderState]
    BY <1>1 DEF TypeOK
<1>3. e.pending \in Seq(AccessUnit) /\ e.n \in Nat /\ e.sinceKey \in 0 .. Gop - 1
    BY <1>2 DEF EncoderState
<1>a. PICK key \in BOOLEAN :
          /\ (e.n = 0 \/ e.sinceKey + 1 >= Gop) => key
          /\ \E pulled : EncodedUnits(Current, key, pulled)
    BY ZenonT(40) DEF Encode, EncodedUnits, Current
<1>4. PICK pulled :
          /\ (e.n = 0 \/ e.sinceKey + 1 >= Gop) => key
          /\ EncodedUnits(Current, key, pulled)
    BY <1>a
<1> DEFINE au == [n |-> e.n + 1, key |-> key]
           done == Append(e.pending, au)
<1>5. au \in AccessUnit
    BY <1>3 DEF AccessUnit
<1>6. /\ done \in Seq(AccessUnit) /\ m \in Nat /\ Len(done) = m + 1
      /\ \A k \in 1 .. m : done[k] = e.pending[k]
      /\ done[m + 1] = au
    BY <1>3, <1>5, Appending
<1>7. /\ pulled \in 0 .. m + 1
      /\ worker' = [worker EXCEPT !.pc = "config", !.aus = SubSeq(done, 1, pulled)]
      /\ encoder' = [encoder EXCEPT ![Current] =
            [e EXCEPT !.n = @ + 1,
                      !.sinceKey = IF key THEN 0 ELSE @ + 1,
                      !.pending = SubSeq(done, pulled + 1, m + 1),
                      !.codec = @ \/ pulled > 0]]
    BY <1>4, <1>6 DEF EncodedUnits
<1> HIDE DEF done
<1>8. /\ SubSeq(done, 1, pulled) \in Seq(AccessUnit)
      /\ Len(SubSeq(done, 1, pulled)) = pulled
      /\ \A i \in 1 .. pulled : SubSeq(done, 1, pulled)[i] = done[i]
    BY <1>6, <1>7
<1>9. /\ SubSeq(done, pulled + 1, m + 1) \in Seq(AccessUnit)
      /\ Len(SubSeq(done, pulled + 1, m + 1)) = m + 1 - pulled
      /\ \A i \in 1 .. m + 1 - pulled :
            SubSeq(done, pulled + 1, m + 1)[i] = done[i + pulled]
  <2>1. /\ pulled + 1 \in Int /\ m + 1 \in Int /\ pulled \in 0 .. m + 1
        /\ \A i \in pulled + 1 .. m + 1 : done[i] \in AccessUnit
    BY <1>6, <1>7
  <2>2. /\ SubSeq(done, pulled + 1, m + 1) \in Seq(AccessUnit)
        /\ Len(SubSeq(done, pulled + 1, m + 1)) =
              IF pulled + 1 <= m + 1 THEN (m + 1) - (pulled + 1) + 1 ELSE 0
        /\ \A i \in 1 .. (m + 1) - (pulled + 1) + 1 :
              SubSeq(done, pulled + 1, m + 1)[i] = done[(pulled + 1) + i - 1]
    BY <2>1, SubSeqProperties
  <2>3. /\ (m + 1) - (pulled + 1) + 1 = m + 1 - pulled
        /\ \A i \in 1 .. m + 1 - pulled : (pulled + 1) + i - 1 = i + pulled
        /\ ~(pulled + 1 <= m + 1) => m + 1 - pulled = 0
    BY <1>6, <2>1
  <2> QED
    BY <2>2, <2>3
<1>10. /\ worker' \in WorkerState /\ worker'.pc = "config" /\ worker'.at = worker.at
       /\ worker'.aus = SubSeq(done, 1, pulled)
    BY <1>1, <1>7, <1>8 DEF WorkerState
<1>11. /\ encoder'[Current] =
             [e EXCEPT !.n = @ + 1,
                       !.sinceKey = IF key THEN 0 ELSE @ + 1,
                       !.pending = SubSeq(done, pulled + 1, m + 1),
                       !.codec = @ \/ pulled > 0]
       /\ \A s \in View : s # Current => encoder'[s] = encoder[s]
    BY <1>1, <1>2, <1>7
<1>12. (IF key THEN 0 ELSE e.sinceKey + 1) \in 0 .. Gop - 1
    BY <1>3, <1>4, LiveViewAssumption
<1>13. /\ f \in EncoderState /\ f.n = e.n + 1 /\ f.cfg_sent = e.cfg_sent
       /\ f.pending = SubSeq(done, pulled + 1, m + 1)
       /\ f.codec = (e.codec \/ pulled > 0)
  <2> DEFINE rest == SubSeq(done, pulled + 1, m + 1)
             since == IF key THEN 0 ELSE e.sinceKey + 1
  <2>1. /\ f = [e EXCEPT !.n = e.n + 1, !.sinceKey = since, !.pending = rest,
                        !.codec = e.codec \/ pulled > 0]
        /\ rest \in Seq(AccessUnit) /\ since \in 0 .. Gop - 1 /\ e.n + 1 \in Nat
    BY <1>3, <1>9, <1>11, <1>12
  <2> HIDE DEF rest, since, f
  <2>2. (e.codec \/ pulled > 0) \in BOOLEAN
    BY <1>2 DEF EncoderState
  <2>3. /\ f \in EncoderState /\ f.n = e.n + 1 /\ f.cfg_sent = e.cfg_sent
        /\ f.pending = rest /\ f.codec = (e.codec \/ pulled > 0)
    BY <1>2, <2>1, <2>2 DEF EncoderState
  <2> QED
    BY <2>3 DEF rest
<1>14. encoder' \in [View -> EncoderState]
    BY <1>2, <1>7, <1>11, <1>13
<1>15. worker'.aus # <<>> => pulled > 0
  <2>1. CASE pulled = 0
    BY <1>8, <1>10, <2>1
  <2>2. CASE pulled # 0
    BY <1>6, <1>7, <2>2
  <2> QED
    BY <2>1, <2>2
<1>16. /\ Len(worker'.aus) = pulled /\ DOMAIN worker'.aus = 1 .. pulled
       /\ Len(f.pending) = m + 1 - pulled /\ DOMAIN f.pending = 1 .. m + 1 - pulled
       /\ pulled \in Nat /\ m + 1 - pulled \in Nat
  <2>1. worker'.aus \in Seq(AccessUnit) /\ f.pending \in Seq(AccessUnit)
    BY <1>8, <1>9, <1>10, <1>13
  <2>2. Len(worker'.aus) = pulled /\ Len(f.pending) = m + 1 - pulled
    BY <1>8, <1>9, <1>10, <1>13
  <2>3. pulled \in Nat /\ m + 1 - pulled \in Nat
    BY <1>6, <1>7
  <2> QED
    BY <2>1, <2>2, <2>3
<1>17. ASSUME NEW i \in DOMAIN worker'.aus
       PROVE  worker'.aus[i].n = IF i <= m THEN e.pending[i].n ELSE e.n + 1
  <2>1. worker'.aus[i] = done[i] /\ i \in 1 .. m + 1
    BY <1>6, <1>7, <1>8, <1>10, <1>16
  <2> QED
    BY <1>6, <2>1
<1>18. ASSUME NEW i \in DOMAIN f.pending
       PROVE  f.pending[i].n = IF i + pulled <= m THEN e.pending[i + pulled].n ELSE e.n + 1
  <2>1. i \in 1 .. m + 1 - pulled
    BY <1>16
  <2>2. f.pending[i] = done[i + pulled]
    BY <1>9, <1>13, <2>1
  <2>3. i + pulled \in 1 .. m + 1
    BY <1>6, <1>16, <2>1
  <2> QED
    BY <1>6, <2>2, <2>3
<1>19. Len(worker'.aus) + Len(f.pending) = m + 1
    BY <1>6, <1>16
<1> HIDE DEF e, f, m
<1>20. \A i \in DOMAIN f.pending :
          f.pending[i].n = IF i + Len(worker'.aus) <= m THEN e.pending[i + Len(worker'.aus)].n
                           ELSE e.n + 1
    BY <1>16, <1>18
<1> QED
    BY <1>1, <1>2, <1>6, <1>10, <1>11, <1>13, <1>14, <1>15, <1>16, <1>17, <1>19, <1>20
       DEF e, f, m
-----------------------------------------------------------------------------
(* The worker.                                                             *)

LEMMA CurrentTyped ==
    ASSUME TypeOK
    PROVE  /\ Current \in View /\ worker \in WorkerState
           /\ worker.aus \in Seq(AccessUnit) /\ worker.at \in DOMAIN Views
           /\ \A s \in View : /\ encoder[s] \in EncoderState /\ encoder[s].n \in Nat
                              /\ encoder[s].pending \in Seq(AccessUnit)
                              /\ Sent(s) \in Int
<1>1. worker \in WorkerState /\ encoder \in [View -> EncoderState]
    BY DEF TypeOK
<1>2. worker.at \in DOMAIN Views /\ worker.aus \in Seq(AccessUnit)
    BY <1>1 DEF WorkerState
<1>3. Current \in View
    BY <1>2, ViewsTyped DEF Current
<1>4. ASSUME NEW s \in View
      PROVE  /\ encoder[s] \in EncoderState /\ encoder[s].n \in Nat
             /\ encoder[s].pending \in Seq(AccessUnit)
    BY <1>1 DEF EncoderState
<1>5. ASSUME NEW s \in View PROVE Sent(s) \in Int
  <2> DEFINE n == encoder[s].n
             p == Len(encoder[s].pending)
             a == IF s = Current THEN Len(worker.aus) ELSE 0
  <2>1. n \in Int /\ p \in Int
    BY <1>4
  <2>2. a \in Int
    BY <1>2
  <2>3. Sent(s) = n - p - a
    BY DEF Sent
  <2> HIDE DEF n, p, a
  <2> QED
    BY <2>1, <2>2, <2>3
<1> QED
    BY <1>1, <1>2, <1>3, <1>4, <1>5

(* What is served does not depend on where the worker stands.              *)
LEMMA SameService ==
    ASSUME ViewersInOrder, UNCHANGED <<clients, queue, conn, page>>,
           configs \subseteq configs',
           \A s \in View : /\ encoder'[s].cfg_sent = encoder[s].cfg_sent
                           /\ Sent(s)' = Sent(s)
    PROVE  ViewersInOrder'
<1> SUFFICES ASSUME NEW v \in Viewer PROVE ViewerInOrder(v)'
    BY DEF ViewersInOrder
<1>1. ViewerInOrder(v)
    BY DEF ViewersInOrder
<1>2. ASSUME NEW s \in View PROVE Served(v, s)'
  <2>1. Served(v, s)
    BY <1>1 DEF ViewerInOrder
  <2>2. Given(v, s) => Given(v, s)'
    BY DEF Given
  <2> QED
    BY <2>1, <2>2 DEF Served
<1> QED
    BY <1>1, <1>2 DEF ViewerInOrder

LEMMA IdleWorker ==
    ASSUME TypeOK, LiveInv, UNCHANGED <<encoder, clients, queue, conn, page>>,
           configs \subseteq configs',
           \/ worker'.aus = worker.aus /\ worker'.at = worker.at
           \/ worker.aus = <<>> /\ worker'.aus = <<>>,
           worker'.pc \in {"check", "wait", "encode"} => worker'.aus = <<>>,
           worker'.pc = "cast" => worker'.at = worker.at /\ Current \in configs',
           worker'.pc = "frames" /\ worker'.aus # <<>> => encoder[Current].cfg_sent
    PROVE  LiveInv'
<1>1. EncodersInOrder /\ WorkerInOrder /\ ViewersInOrder
    BY DEF LiveInv
<1>2. \A s \in View : Sent(s)' = Sent(s)
  <2>1. Len(<<>>) = 0
    OBVIOUS
  <2>2. CASE worker'.aus = worker.aus /\ worker'.at = worker.at
    BY <2>2 DEF Sent, Current
  <2>3. CASE worker.aus = <<>> /\ worker'.aus = <<>>
    BY <2>1, <2>3 DEF Sent
  <2> QED
    BY <2>2, <2>3
<1>3. EncodersInOrder'
    BY <1>1 DEF EncodersInOrder
<1>4. Current \in View
    BY CurrentTyped
<1>5. WorkerInOrder'
  <2>1. CASE worker'.aus = worker.aus /\ worker'.at = worker.at
    <3>1. Current' = Current
      BY <2>1 DEF Current
    <3>2. Sent(Current)' = Sent(Current)
      BY <2>1 DEF Sent, Current
    <3> QED
      BY <1>1, <2>1, <3>1, <3>2 DEF WorkerInOrder
  <2>2. CASE worker.aus = <<>> /\ worker'.aus = <<>>
    <3>1. DOMAIN <<>> = {}
      OBVIOUS
    <3>2. worker'.pc = "cast" => Current' \in configs'
      BY DEF Current
    <3> QED
      BY <2>2, <3>1, <3>2 DEF WorkerInOrder
  <2> QED
    BY <2>1, <2>2
<1>6. ViewersInOrder'
    BY <1>1, <1>2, SameService
<1> QED
    BY <1>3, <1>5, <1>6 DEF LiveInv

LEMMA ProducerKeeps == TypeOK /\ LiveInv /\ (Submit \/ Notify) => LiveInv'
<1> SUFFICES ASSUME TypeOK, LiveInv, Submit \/ Notify PROVE LiveInv'
    OBVIOUS
<1>1. worker \in WorkerState /\ WorkerInOrder
    BY DEF TypeOK, LiveInv
<1>2. UNCHANGED <<encoder, configs, clients, queue, conn, page>>
    BY DEF Submit, Notify, serving
<1>3. /\ worker'.aus = worker.aus /\ worker'.at = worker.at
      /\ (worker'.pc = worker.pc \/ (worker.pc = "wait" /\ worker'.pc = "check"))
  <2>1. CASE Submit
    BY <2>1 DEF Submit
  <2>2. CASE Notify
    BY <1>1, <2>2 DEF Notify, WorkerState
  <2> QED
    BY <2>1, <2>2
<1> QED
    BY <1>1, <1>2, <1>3, IdleWorker DEF WorkerInOrder

LEMMA WorkerStepKeeps ==
    TypeOK /\ LiveInv
      /\ (Take \/ Wait \/ SpuriousWakeup \/ EncodeFails \/ CacheConfig \/ NoConfig \/ ViewDone)
        => LiveInv'
<1> SUFFICES ASSUME TypeOK, LiveInv,
                    \/ Take \/ Wait \/ SpuriousWakeup \/ EncodeFails
                    \/ CacheConfig \/ NoConfig \/ ViewDone
             PROVE  LiveInv'
    OBVIOUS
<1>1. worker \in WorkerState /\ WorkerInOrder /\ Current \in View
    BY CurrentTyped DEF LiveInv
<1>2. UNCHANGED <<encoder, clients, queue, conn, page>>
    BY DEF Take, Wait, SpuriousWakeup, EncodeFails, CacheConfig, NoConfig, ViewDone, serving
<1>3. CASE Take
  <2>1. /\ worker.aus = <<>> /\ worker'.aus = <<>> /\ worker'.pc = "encode"
        /\ configs' = configs
    BY <1>1, <1>3 DEF Take, WorkerInOrder
  <2> QED
    BY <1>2, <2>1, IdleWorker
<1>4. CASE Wait \/ SpuriousWakeup
  <2>1. /\ worker.aus = <<>> /\ worker'.aus = worker.aus /\ worker'.at = worker.at
        /\ worker'.pc \in {"check", "wait"} /\ configs' = configs
    BY <1>1, <1>4 DEF Wait, SpuriousWakeup, WorkerInOrder, WorkerState
  <2> QED
    BY <1>2, <2>1, IdleWorker
<1>5. CASE EncodeFails \/ ViewDone
  <2>1. /\ worker.aus = <<>> /\ worker' = NextView(worker) /\ configs' = configs
    BY <1>1, <1>5 DEF EncodeFails, ViewDone, WorkerInOrder
  <2>2. worker'.aus = <<>> /\ worker'.pc \in {"check", "encode"}
    BY <1>1, <2>1, WorkerTyped
  <2> QED
    BY <1>2, <2>1, <2>2, IdleWorker
<1>6. CASE CacheConfig
  <2>1. /\ configs' = configs \cup {Current} /\ worker' = [worker EXCEPT !.pc = "cast"]
    BY <1>6 DEF CacheConfig, Current
  <2>2. worker'.aus = worker.aus /\ worker'.at = worker.at /\ worker'.pc = "cast"
    BY <1>1, <2>1 DEF WorkerState
  <2> QED
    BY <1>2, <2>1, <2>2, IdleWorker
<1>7. CASE NoConfig
  <2>1. /\ configs' = configs /\ worker' = [worker EXCEPT !.pc = "frames"]
        /\ (encoder[Current].codec => encoder[Current].cfg_sent)
    BY <1>7 DEF NoConfig, Current
  <2>2. worker'.aus = worker.aus /\ worker'.at = worker.at /\ worker'.pc = "frames"
    BY <1>1, <2>1 DEF WorkerState
  <2>3. worker'.aus # <<>> => encoder[Current].cfg_sent
    BY <1>1, <2>1, <2>2 DEF WorkerInOrder
  <2> QED
    BY <1>2, <2>1, <2>2, <2>3, IdleWorker
<1> QED
    BY <1>3, <1>4, <1>5, <1>6, <1>7

LEMMA EncodeTyped == TypeOK /\ Encode => TypeOK'
<1> SUFFICES ASSUME TypeOK, Encode PROVE TypeOK'
    OBVIOUS
<1>1. worker' \in WorkerState /\ encoder' \in [View -> EncoderState]
    BY Encoding
<1>2. UNCHANGED <<slot, producer, configs, clients, queue, conn, page, losses>>
    BY DEF Encode, serving
<1> QED
    BY <1>1, <1>2 DEF TypeOK

(* An encoder accepts a frame: the numbers of its units go on, and what has *)
(* been cast of them stays what it was.                                    *)
LEMMA EncodeKeeps == TypeOK /\ LiveInv /\ Encode => LiveInv'
<1> SUFFICES ASSUME TypeOK, LiveInv, Encode PROVE LiveInv'
    OBVIOUS
<1>1. UNCHANGED <<configs, clients, queue, conn, page>>
    BY DEF Encode, serving
<1>2. EncodersInOrder /\ WorkerInOrder /\ ViewersInOrder
    BY DEF LiveInv
<1> DEFINE e == encoder[Current]
           f == encoder'[Current]
           w == worker'
           m == Len(e.pending)
           a == Len(w.aus)
           r == Len(f.pending)
<1>3. /\ Current \in View /\ worker.pc = "encode" /\ m \in Nat
      /\ \A s \in View : s # Current => encoder'[s] = encoder[s]
      /\ w.pc = "config" /\ w.at = worker.at
      /\ f.n = e.n + 1 /\ f.cfg_sent = e.cfg_sent
      /\ w.aus # <<>> => f.codec
      /\ a + r = m + 1 /\ a \in Nat /\ r \in Nat
      /\ DOMAIN w.aus = 1 .. a /\ DOMAIN f.pending = 1 .. r
    BY Encoding
<1>4. /\ \A i \in DOMAIN w.aus : w.aus[i].n = IF i <= m THEN e.pending[i].n ELSE e.n + 1
      /\ \A i \in DOMAIN f.pending :
            f.pending[i].n = IF i + a <= m THEN e.pending[i + a].n ELSE e.n + 1
    BY Encoding
<1>5. /\ e.n \in Nat /\ DOMAIN e.pending = 1 .. m
      /\ worker.aus = <<>> /\ Len(worker.aus) = 0
      /\ \A i \in 1 .. m : e.pending[i].n = e.n - m + i
  <2>1. e.n \in Nat /\ e.pending \in Seq(AccessUnit)
    BY <1>3, CurrentTyped
  <2>2. worker.aus = <<>>
    BY <1>2, <1>3 DEF WorkerInOrder
  <2>3. DOMAIN e.pending = 1 .. m
    BY <2>1
  <2>4. \A i \in DOMAIN e.pending : e.pending[i].n = e.n - m + i
    BY <1>2, <1>3 DEF EncodersInOrder
  <2> QED
    BY <2>1, <2>2, <2>3, <2>4
<1>6. Current' = Current
    BY <1>3 DEF Current
<1>7. Sent(Current) = e.n - m - 0
    BY <1>5 DEF Sent
<1>8. ASSUME NEW s \in View, s = Current PROVE Sent(s)' = f.n - r - a
    BY <1>6, <1>8 DEF Sent
<1>9. ASSUME NEW s \in View, s # Current PROVE Sent(s)' = Sent(s)
    BY <1>3, <1>6, <1>9 DEF Sent
<1> HIDE DEF e, f, w, m, a, r
<1>10. f.n - r - a = Sent(Current)
    BY <1>3, <1>5, <1>7
<1>11. ViewersInOrder'
  <2>1. ASSUME NEW s \in View
        PROVE  encoder'[s].cfg_sent = encoder[s].cfg_sent /\ Sent(s)' = Sent(s)
    <3>1. CASE s = Current
      BY <1>3, <1>8, <1>10, <3>1 DEF e, f
    <3>2. CASE s # Current
      BY <1>3, <1>9, <3>2
    <3> QED
      BY <3>1, <3>2
  <2> QED
    BY <1>1, <1>2, <2>1, SameService
<1>12. EncodersInOrder'
  <2>1. ASSUME NEW i \in DOMAIN f.pending PROVE f.pending[i].n = f.n - r + i
    <3>1. i \in 1 .. r
      BY <1>3, <2>1
    <3>2. CASE i + a <= m
      <4>1. i + a \in 1 .. m
        BY <1>3, <3>1, <3>2
      <4>2. f.pending[i].n = e.n - m + (i + a)
        BY <1>4, <1>5, <2>1, <3>2, <4>1
      <4>3. a + r = m + 1 /\ a \in Nat /\ r \in Nat /\ m \in Nat
        BY <1>3
      <4>4. r = m + 1 - a
        BY <4>3
      <4>5. f.n = e.n + 1 /\ e.n \in Nat
        BY <1>3, <1>5
      <4>6. i \in Nat
        BY <3>1, <4>3
      <4>7. f.n - r + i = e.n - m + (i + a)
        BY <4>3, <4>4, <4>5, <4>6
      <4> QED
        BY <4>2, <4>7
    <3>3. CASE ~(i + a <= m)
      <4>1. i = r /\ f.pending[i].n = e.n + 1
        BY <1>3, <1>4, <2>1, <3>1, <3>3
      <4> QED
        BY <1>3, <1>5, <4>1
    <3> QED
      BY <3>2, <3>3
  <2>2. ASSUME NEW s \in View
        PROVE  /\ \A i \in DOMAIN encoder'[s].pending :
                     encoder'[s].pending[i].n
                        = encoder'[s].n - Len(encoder'[s].pending) + i
               /\ encoder'[s].cfg_sent => s \in configs'
    <3>1. CASE s = Current
      <4>1. encoder[Current].cfg_sent => Current \in configs
        BY <1>2, <1>3 DEF EncodersInOrder
      <4> QED
        BY <1>1, <1>3, <2>1, <3>1, <4>1 DEF e, f, r
    <3>2. CASE s # Current
      BY <1>1, <1>2, <1>3, <3>2 DEF EncodersInOrder
    <3> QED
      BY <3>1, <3>2
  <2> QED
    BY <2>2 DEF EncodersInOrder
<1>13. WorkerInOrder'
  <2>1. ASSUME NEW i \in DOMAIN w.aus PROVE w.aus[i].n = Sent(Current) + i
    <3>1. i \in 1 .. a
      BY <1>3, <2>1
    <3>2. CASE i <= m
      <4>1. w.aus[i].n = e.pending[i].n
        BY <1>4, <2>1, <3>2
      <4>2. i \in 1 .. m
        BY <1>3, <3>1, <3>2
      <4>3. e.pending[i].n = e.n - m + i
        BY <1>5, <4>2
      <4>4. e.n \in Nat /\ m \in Nat /\ i \in Nat
        BY <1>3, <1>5, <4>2
      <4>5. Sent(Current) + i = e.n - m + i
        BY <1>7, <4>4
      <4> QED
        BY <4>1, <4>3, <4>5
    <3>3. CASE ~(i <= m)
      <4>1. i = m + 1 /\ w.aus[i].n = e.n + 1
        BY <1>3, <1>4, <2>1, <3>1, <3>3
      <4> QED
        BY <1>3, <1>5, <1>7, <4>1
    <3> QED
      BY <3>2, <3>3
  <2> QED
    <3>1. Sent(Current)' = Sent(Current)
      BY <1>6, <1>10 DEF Sent, w, f, r, a
    <3> QED
      BY <1>3, <1>6, <2>1, <3>1 DEF WorkerInOrder, w, f
<1> QED
    BY <1>11, <1>12, <1>13 DEF LiveInv
-----------------------------------------------------------------------------
(* Casting.                                                                *)

LEMMA CastTyped == TypeOK /\ (CastConfig \/ CastFrame) => TypeOK'
<1> SUFFICES ASSUME TypeOK, CastConfig \/ CastFrame PROVE TypeOK'
    OBVIOUS
<1>1. Current \in View /\ worker \in WorkerState /\ worker.aus \in Seq(AccessUnit)
    BY CurrentTyped
<1>2. UNCHANGED <<slot, producer, configs, conn, page, losses>>
    BY DEF CastConfig, CastFrame
<1>3. CASE CastConfig
  <2>1. /\ Broadcast(Config(Current)) /\ Config(Current) \in Message
        /\ worker' = [worker EXCEPT !.pc = "frames"]
        /\ encoder' = [encoder EXCEPT ![Current].cfg_sent = TRUE]
    BY <1>1, <1>3, Messages DEF CastConfig, Current
  <2>2. /\ clients' \subseteq clients /\ queue' \in [Viewer -> Seq(Message)]
        /\ \A v \in Viewer : Len(queue'[v]) <= QueueCap
    BY <2>1, Broadcasting
  <2>3. worker' \in WorkerState
    BY <1>1, <2>1, WorkerTyped
  <2>4. encoder' \in [View -> EncoderState]
    <3>1. encoder \in [View -> EncoderState]
      BY DEF TypeOK
    <3> QED
      BY <1>1, <2>1, <3>1 DEF EncoderState
  <2> QED
    BY <1>2, <2>2, <2>3, <2>4 DEF TypeOK
<1>4. CASE CastFrame
  <2>1. /\ Broadcast(Frame(Current, Head(worker.aus)))
        /\ worker.aus # <<>> /\ encoder' = encoder
        /\ worker' = [worker EXCEPT !.aus = Tail(worker.aus)]
    BY <1>4 DEF CastFrame, Current
  <2>2. Head(worker.aus) \in AccessUnit /\ Tail(worker.aus) \in Seq(AccessUnit)
    BY <1>1, <2>1, Popping
  <2>3. Frame(Current, Head(worker.aus)) \in Message
    BY <1>1, <2>2, Messages
  <2>4. /\ clients' \subseteq clients /\ queue' \in [Viewer -> Seq(Message)]
        /\ \A v \in Viewer : Len(queue'[v]) <= QueueCap
    BY <2>1, <2>3, Broadcasting
  <2>5. worker' \in WorkerState
    BY <1>1, <2>1, <2>2 DEF WorkerState
  <2> QED
    BY <1>2, <2>1, <2>4, <2>5 DEF TypeOK
<1> QED
    BY <1>3, <1>4

(* A message reaches a viewer: a frame of a view only as the next one of it *)
(* and after its config.                                                   *)
LEMMA CastServed ==
    ASSUME TypeOK, NEW m \in Message, Broadcast(m), UNCHANGED <<configs, conn, page>>,
           NEW v \in Viewer, NEW s \in View, Served(v, s),
           m.kind = "frame" /\ m.view = s =>
              m.au.n = Sent(s) + 1 /\ encoder[s].cfg_sent /\ Sent(s)' = Sent(s) + 1,
           ~(m.kind = "frame" /\ m.view = s) => Sent(s)' = Sent(s),
           encoder'[s].cfg_sent => encoder[s].cfg_sent \/ m = Config(s)
    PROVE  Served(v, s)'
<1> DEFINE q == queue[v]
           d == page[v][s]
           r == Append(queue[v], m)
           n == Sent(s)
           given == Given(v, s)
           own == m.kind = "frame" /\ m.view = s
<1>1. /\ Decoding(d)
      /\ ~d.waitkey => s \in conn[v].started
      /\ given \/ Announced(q, s)
      /\ Contiguous(q, d, s)
      /\ v \in clients =>
            /\ encoder[s].cfg_sent => given \/ \E j \in DOMAIN q : q[j] = Config(s)
            /\ UpToDate(q, d, s, n)
    BY DEF Served
<1>2. Given(v, s)' <=> given
    BY DEF Given
<1>3. q \in Seq(Message) /\ n \in Int
    BY CurrentTyped DEF TypeOK
<1>4. CASE v \notin clients'
  <2>1. queue'[v] = q
    BY <1>4, Broadcasting
  <2> QED
    BY <1>1, <1>2, <1>4, <2>1 DEF Served
<1>5. CASE v \in clients'
  <2>1. queue'[v] = r /\ v \in clients
    BY <1>5, Broadcasting
  <2>2. /\ encoder[s].cfg_sent => given \/ \E j \in DOMAIN q : q[j] = Config(s)
        /\ UpToDate(q, d, s, n)
    BY <1>1, <2>1
  <2>3. /\ \A j \in DOMAIN q : j \in DOMAIN r /\ r[j] = q[j]
        /\ \E j \in DOMAIN r : r[j] = m
    <3>1. /\ Len(q) \in Nat /\ DOMAIN q = 1 .. Len(q) /\ DOMAIN r = 1 .. Len(q) + 1
          /\ (\A k \in 1 .. Len(q) : r[k] = q[k]) /\ r[Len(q) + 1] = m
      BY <1>3, Appending
    <3> HIDE DEF q, r
    <3> QED
      BY <3>1
  <2>4. encoder'[s].cfg_sent => given \/ \E j \in DOMAIN r : r[j] = Config(s)
    BY <2>2, <2>3
  <2>5. /\ Contiguous(r, d, s) /\ UpToDate(r, d, s, Sent(s)')
        /\ given \/ Announced(r, s)
    <3>1. CASE own
      <4>1. m.kind = "frame" /\ m.view = s /\ m.au.n = n + 1
        BY <3>1
      <4>2. /\ Contiguous(r, d, s) /\ UpToDate(r, d, s, n + 1)
            /\ Announced(q, s) /\ (\E j \in DOMAIN q : q[j] = Config(s)) => Announced(r, s)
        <5> HIDE DEF n, d
        <5> QED
          BY <1>1, <1>3, <2>2, <4>1, CastOwn
      <4> QED
        BY <1>1, <2>2, <3>1, <4>2
    <3>2. CASE ~own
      <4>1. /\ Contiguous(q, d, s) => Contiguous(r, d, s)
            /\ UpToDate(q, d, s, n) => UpToDate(r, d, s, n)
            /\ Announced(q, s) => Announced(r, s)
        <5> HIDE DEF n, d
        <5> QED
          BY <1>3, <3>2, CastOther
      <4> QED
        BY <1>1, <2>2, <3>2, <4>1
    <3> QED
      BY <3>1, <3>2
  <2> QED
    BY <1>1, <1>2, <2>1, <2>4, <2>5 DEF Served
<1> QED
    BY <1>4, <1>5

LEMMA CastKeepsViewers ==
    ASSUME TypeOK, ViewersInOrder, NEW m \in Message, Broadcast(m),
           UNCHANGED <<conn, page>>,
           \A v \in Viewer, s \in View : Served(v, s) => Served(v, s)'
    PROVE  ViewersInOrder'
<1> SUFFICES ASSUME NEW v \in Viewer PROVE ViewerInOrder(v)'
    BY DEF ViewersInOrder
<1>1. ViewerInOrder(v)
    BY DEF ViewersInOrder
<1>2. clients' \subseteq clients /\ (v \notin clients' => queue'[v] = queue[v])
    BY Broadcasting
<1> QED
    BY <1>1, <1>2 DEF ViewerInOrder

LEMMA CastConfigKeeps == TypeOK /\ LiveInv /\ CastConfig => LiveInv'
<1> SUFFICES ASSUME TypeOK, LiveInv, CastConfig PROVE LiveInv'
    OBVIOUS
<1>1. EncodersInOrder /\ WorkerInOrder /\ ViewersInOrder
    BY DEF LiveInv
<1>2. /\ Current \in View /\ worker \in WorkerState
      /\ encoder \in [View -> EncoderState]
    BY CurrentTyped DEF TypeOK
<1>3. /\ worker.pc = "cast" /\ Broadcast(Config(Current))
      /\ encoder' = [encoder EXCEPT ![Current].cfg_sent = TRUE]
      /\ worker' = [worker EXCEPT !.pc = "frames"]
      /\ UNCHANGED <<configs, conn, page>>
    BY DEF CastConfig, Current
<1>4. /\ worker'.pc = "frames" /\ worker'.aus = worker.aus /\ worker'.at = worker.at
      /\ Current' = Current
    BY <1>2, <1>3 DEF WorkerState, Current
<1>5. ASSUME NEW s \in View
      PROVE  /\ encoder'[s].n = encoder[s].n /\ encoder'[s].pending = encoder[s].pending
             /\ encoder'[s].codec = encoder[s].codec
             /\ s = Current => encoder'[s].cfg_sent
             /\ s # Current => encoder'[s].cfg_sent = encoder[s].cfg_sent
    BY <1>2, <1>3 DEF EncoderState
<1>6. ASSUME NEW s \in View PROVE Sent(s)' = Sent(s)
    BY <1>4, <1>5 DEF Sent
<1>7. EncodersInOrder'
  <2>1. Current \in configs'
    BY <1>1, <1>3 DEF WorkerInOrder
  <2>2. ASSUME NEW s \in View
        PROVE  /\ \A i \in DOMAIN encoder'[s].pending :
                     encoder'[s].pending[i].n
                        = encoder'[s].n - Len(encoder'[s].pending) + i
               /\ encoder'[s].cfg_sent => s \in configs'
    BY <1>1, <1>3, <1>5, <2>1 DEF EncodersInOrder
  <2> QED
    BY <2>2 DEF EncodersInOrder
<1>8. WorkerInOrder'
  <2>1. Sent(Current)' = Sent(Current)
    BY <1>2, <1>4, <1>5 DEF Sent
  <2> QED
    BY <1>1, <1>2, <1>4, <1>5, <2>1 DEF WorkerInOrder
<1>9. ViewersInOrder'
  <2>1. Config(Current) \in Message /\ Config(Current).kind # "frame"
    BY <1>2, Messages
  <2>2. ASSUME NEW v \in Viewer, NEW s \in View, Served(v, s) PROVE Served(v, s)'
    <3>1. encoder'[s].cfg_sent => encoder[s].cfg_sent \/ Config(Current) = Config(s)
      BY <1>5
    <3> QED
      BY <1>3, <1>6, <2>1, <2>2, <3>1, CastServed
  <2> QED
    BY <1>1, <1>3, <2>1, <2>2, CastKeepsViewers
<1> QED
    BY <1>7, <1>8, <1>9 DEF LiveInv

LEMMA CastFrameKeeps == TypeOK /\ LiveInv /\ CastFrame => LiveInv'
<1> SUFFICES ASSUME TypeOK, LiveInv, CastFrame PROVE LiveInv'
    OBVIOUS
<1> DEFINE au == Head(worker.aus)
           m == Frame(Current, au)
<1>1. EncodersInOrder /\ WorkerInOrder /\ ViewersInOrder
    BY DEF LiveInv
<1>2. /\ Current \in View /\ worker \in WorkerState /\ worker.aus \in Seq(AccessUnit)
      /\ \A s \in View : encoder[s].pending \in Seq(AccessUnit) /\ Sent(s) \in Int
    BY CurrentTyped
<1>3. /\ worker.pc = "frames" /\ worker.aus # <<>> /\ Broadcast(m)
      /\ worker' = [worker EXCEPT !.aus = Tail(worker.aus)]
      /\ UNCHANGED <<encoder, configs, conn, page>>
    BY DEF CastFrame, Current
<1>4. /\ worker'.pc = "frames" /\ worker'.aus = Tail(worker.aus)
      /\ worker'.at = worker.at /\ Current' = Current
    BY <1>2, <1>3 DEF WorkerState, Current
<1>5. /\ Len(worker.aus) \in Nat /\ DOMAIN worker.aus = 1 .. Len(worker.aus)
      /\ DOMAIN worker'.aus = 1 .. Len(worker.aus) - 1
      /\ Len(worker.aus) >= 1
      /\ Len(worker'.aus) = Len(worker.aus) - 1
      /\ \A k \in 1 .. Len(worker.aus) - 1 : worker'.aus[k] = worker.aus[k + 1]
      /\ au = worker.aus[1] /\ au \in AccessUnit
    BY <1>2, <1>3, <1>4, Popping
<1> HIDE DEF au
<1>6. au.n = Sent(Current) + 1
  <2>1. 1 \in DOMAIN worker.aus
    BY <1>5
  <2> QED
    BY <1>1, <1>5, <2>1 DEF WorkerInOrder
<1>7. encoder[Current].cfg_sent /\ encoder[Current].codec
    BY <1>1, <1>3 DEF WorkerInOrder
<1>8. ASSUME NEW s \in View
      PROVE  /\ s = Current => Sent(s)' = Sent(s) + 1
             /\ s # Current => Sent(s)' = Sent(s)
  <2> DEFINE n == encoder[s].n
             p == Len(encoder[s].pending)
             a == Len(worker.aus)
  <2>1. n \in Int /\ p \in Int /\ a \in Int
    BY <1>2, <1>5, CurrentTyped
  <2>2. Sent(s) = n - p - (IF s = Current THEN a ELSE 0)
    BY DEF Sent
  <2>3. Sent(s)' = n - p - (IF s = Current THEN a - 1 ELSE 0)
    BY <1>3, <1>4, <1>5 DEF Sent
  <2> HIDE DEF n, p, a
  <2> QED
    BY <2>1, <2>2, <2>3
<1>9. EncodersInOrder'
    BY <1>1, <1>3 DEF EncodersInOrder
<1>10. WorkerInOrder'
  <2>1. Sent(Current)' = Sent(Current) + 1
    <3>1. PICK s \in View : s = Current
      BY <1>2
    <3>2. Sent(s)' = Sent(s) + 1
      BY <1>8, <3>1
    <3>3. Sent(s)' = Sent(Current)'
      BY <1>4, <3>1 DEF Sent
    <3> QED
      BY <3>1, <3>2, <3>3
  <2>2. ASSUME NEW i \in DOMAIN worker'.aus
        PROVE  worker'.aus[i].n = Sent(Current) + 1 + i
    <3>1. i \in Nat /\ i + 1 \in DOMAIN worker.aus /\ worker'.aus[i] = worker.aus[i + 1]
      BY <1>5
    <3>2. worker.aus[i + 1].n = Sent(Current) + (i + 1)
      BY <1>1, <3>1 DEF WorkerInOrder
    <3> QED
      BY <1>2, <3>1, <3>2
  <2> QED
    BY <1>3, <1>4, <1>7, <2>1, <2>2 DEF WorkerInOrder
<1>11. ViewersInOrder'
  <2>1. m \in Message /\ m.kind = "frame" /\ m.view = Current /\ m.au = au
    BY <1>2, <1>5, Messages
  <2> HIDE DEF m
  <2>2. ASSUME NEW v \in Viewer, NEW s \in View, Served(v, s) PROVE Served(v, s)'
    <3>1. m.kind = "frame" /\ m.view = s =>
             m.au.n = Sent(s) + 1 /\ encoder[s].cfg_sent /\ Sent(s)' = Sent(s) + 1
      BY <1>6, <1>7, <1>8, <2>1
    <3>2. ~(m.kind = "frame" /\ m.view = s) => Sent(s)' = Sent(s)
      BY <1>8, <2>1
    <3>3. encoder'[s].cfg_sent => encoder[s].cfg_sent \/ m = Config(s)
      BY <1>3
    <3> QED
      BY <1>3, <2>1, <2>2, <3>1, <3>2, <3>3, CastServed
  <2> QED
    BY <1>1, <1>3, <2>1, <2>2, CastKeepsViewers
<1> QED
    BY <1>9, <1>10, <1>11 DEF LiveInv
-----------------------------------------------------------------------------
(* Serving a viewer.                                                       *)

(* What one viewer does leaves the others and the encoding alone.          *)
LEMMA OneViewer ==
    ASSUME TypeOK, LiveInv, NEW v \in Viewer, UNCHANGED encoding, losses' \in Nat,
           clients' \subseteq Viewer,
           queue' \in [Viewer -> Seq(Message)], Len(queue'[v]) <= QueueCap,
           conn' \in [Viewer -> Connection],
           page' \in [Viewer -> [View -> Decoder]],
           \A w \in Viewer : w # v => /\ (w \in clients' <=> w \in clients)
                                      /\ queue'[w] = queue[w] /\ conn'[w] = conn[w]
                                      /\ page'[w] = page[w],
           ViewerInOrder(v)'
    PROVE  TypeOK' /\ LiveInv'
<1>1. UNCHANGED <<slot, producer, worker, encoder, configs>>
    BY DEF encoding
<1>2. TypeOK'
  <2>1. \A w \in Viewer : Len(queue'[w]) <= QueueCap
    BY DEF TypeOK
  <2> QED
    BY <1>1, <2>1 DEF TypeOK
<1>3. EncodersInOrder' /\ WorkerInOrder'
    BY <1>1 DEF LiveInv, EncodersInOrder, WorkerInOrder, Sent, Current
<1>4. ASSUME NEW w \in Viewer PROVE ViewerInOrder(w)'
  <2>1. CASE w = v
    BY <2>1
  <2>2. CASE w # v
    <3>1. ViewerInOrder(w)
      BY DEF LiveInv, ViewersInOrder
    <3>2. /\ (w \in clients' <=> w \in clients) /\ queue'[w] = queue[w]
          /\ conn'[w] = conn[w] /\ page'[w] = page[w]
      BY <2>2
    <3>3. ASSUME NEW s \in View PROVE Served(w, s)'
      <4>1. Served(w, s)
        BY <3>1 DEF ViewerInOrder
      <4>2. Sent(s)' = Sent(s)
        BY <1>1 DEF Sent, Current
      <4>3. Given(w, s)' <=> Given(w, s)
        BY <1>1, <3>2 DEF Given
      <4> QED
        BY <1>1, <3>2, <4>1, <4>2, <4>3 DEF Served
    <3> QED
      BY <3>1, <3>2, <3>3 DEF ViewerInOrder
  <2> QED
    BY <2>1, <2>2
<1> QED
    BY <1>2, <1>3, <1>4 DEF LiveInv, ViewersInOrder

LEMMA ViewerTyped ==
    ASSUME TypeOK, NEW v \in Viewer
    PROVE  /\ conn[v] \in Connection /\ queue[v] \in Seq(Message)
           /\ Len(queue[v]) <= QueueCap /\ QueueCap \in Nat
           /\ page[v] \in [View -> Decoder]
           /\ \A s \in View : page[v][s] \in Decoder /\ Sent(s) \in Int
           /\ losses \in Nat
BY CurrentTyped, LiveViewAssumption DEF TypeOK

(* One decoder of a page changes.                                          *)
LEMMA OneDecoder ==
    ASSUME TypeOK, NEW v \in Viewer, NEW s \in View, NEW d \in Decoder,
           page' = [page EXCEPT ![v][s] = d]
    PROVE  /\ page' \in [Viewer -> [View -> Decoder]]
           /\ page'[v][s] = d
           /\ \A t \in View : t # s => page'[v][t] = page[v][t]
           /\ \A w \in Viewer : w # v => page'[w] = page[w]
BY DEF TypeOK

LEMMA InOrder ==
    ASSUME LiveInv, NEW v \in Viewer
    PROVE  /\ ViewerInOrder(v) /\ EncodersInOrder
           /\ \A s \in View : Served(v, s)
BY DEF LiveInv, ViewersInOrder, ViewerInOrder

LEMMA SubscribeKeeps ==
    ASSUME TypeOK, LiveInv, NEW v \in Viewer, Connect(v) \/ Join(v) \/ CopyConfigs(v)
    PROVE  TypeOK' /\ LiveInv'
<1>1. /\ ViewerInOrder(v) /\ EncodersInOrder /\ conn[v] \in Connection
      /\ conn \in [Viewer -> Connection] /\ configs \subseteq View
      /\ clients \subseteq Viewer
    BY InOrder, ViewerTyped DEF TypeOK
<1>2. UNCHANGED encoding /\ UNCHANGED <<queue, page, losses>>
    BY DEF Connect, Join, CopyConfigs
<1>3. UNCHANGED <<worker, encoder, configs>>
    BY <1>2 DEF encoding
<1>4. \A s \in View : Sent(s)' = Sent(s)
    BY <1>3 DEF Sent, Current
<1>5. /\ conn' \in [Viewer -> Connection] /\ clients' \subseteq Viewer
      /\ conn'[v].started = conn[v].started
      /\ conn[v].pc # "relay" => conn[v].started = {} /\ conn[v].cfgs = {}
      /\ \A w \in Viewer : w # v => /\ (w \in clients' <=> w \in clients)
                                    /\ conn'[w] = conn[w]
  <2>1. CASE Connect(v)
    BY <1>1, <2>1 DEF Connect, Connection, ViewerInOrder
  <2>2. CASE Join(v)
    BY <1>1, <2>2 DEF Join, Connection, ViewerInOrder
  <2>3. CASE CopyConfigs(v)
    BY <1>1, <2>3 DEF CopyConfigs, Connection, ViewerInOrder
  <2> QED
    BY <2>1, <2>2, <2>3
<1>6. ViewerInOrder(v)'
  <2>1. CASE Connect(v)
    <3>1. /\ conn[v].pc = "closed" /\ conn'[v].pc = "upgraded"
          /\ conn'[v].cfgs = conn[v].cfgs /\ clients' = clients
      BY <1>1, <2>1 DEF Connect, Connection
    <3>2. \A s \in View : Given(v, s)' <=> Given(v, s)
      BY <1>2, <3>1 DEF Given
    <3>3. \A s \in View : Served(v, s)'
      BY <1>1, <1>2, <1>3, <1>4, <1>5, <3>1, <3>2 DEF ViewerInOrder, Served
    <3> QED
      BY <1>1, <1>2, <1>5, <3>1, <3>3 DEF ViewerInOrder
  <2>2. CASE Join(v)
    <3>1. /\ conn[v].pc = "upgraded" /\ conn'[v].pc = "joined"
          /\ conn'[v].cfgs = conn[v].cfgs
          /\ queue[v] = <<>> /\ conn[v].started = {}
      BY <1>1, <2>2 DEF Join, Connection, ViewerInOrder
    <3>2. ASSUME NEW s \in View PROVE Served(v, s)'
      <4>1. Served(v, s)
        BY <1>1 DEF ViewerInOrder
      <4>2. page[v][s].waitkey
        BY <3>1, <4>1 DEF Served
      <4>3. Given(v, s) => Given(v, s)'
        BY <1>2, <3>1 DEF Given
      <4>4. encoder[s].cfg_sent => Given(v, s)'
        BY <1>1, <1>3, <3>1 DEF Given, EncodersInOrder
      <4>5. FramesOf(<<>>, s) = {}
        BY DEF FramesOf
      <4>6. \A n : UpToDate(<<>>, page[v][s], s, n)
        BY <4>2, <4>5 DEF UpToDate
      <4>7. UpToDate(queue'[v], page'[v][s], s, Sent(s)')
        BY <1>2, <3>1, <4>6
      <4> QED
        BY <1>2, <1>3, <1>5, <4>1, <4>3, <4>4, <4>7 DEF Served
    <3> QED
      BY <1>5, <3>1, <3>2 DEF ViewerInOrder
  <2>3. CASE CopyConfigs(v)
    <3>1. /\ conn[v].pc = "joined" /\ conn'[v].pc = "relay"
          /\ conn'[v].cfgs = configs /\ conn[v].cfgs = {} /\ clients' = clients
      BY <1>1, <2>3 DEF CopyConfigs, Connection, ViewerInOrder
    <3>2. \A s \in View : Given(v, s)' <=> Given(v, s)
      BY <1>2, <3>1 DEF Given
    <3>3. \A s \in View : Served(v, s)'
      BY <1>1, <1>2, <1>3, <1>4, <1>5, <3>1, <3>2 DEF ViewerInOrder, Served
    <3> QED
      BY <3>1, <3>3 DEF ViewerInOrder
  <2> QED
    BY <2>1, <2>2, <2>3
<1> QED
  <2>1. queue \in [Viewer -> Seq(Message)] /\ page \in [Viewer -> [View -> Decoder]]
    BY DEF TypeOK
  <2> QED
    BY <1>2, <1>5, <1>6, <2>1, OneViewer, ViewerTyped

(* The page gets a config: from the copy, or from the queue.               *)
LEMMA SendConfigKeeps ==
    ASSUME TypeOK, LiveInv, NEW v \in Viewer, SendConfig(v)
    PROVE  TypeOK' /\ LiveInv'
<1>1. /\ ViewerInOrder(v) /\ conn[v] \in Connection
      /\ conn \in [Viewer -> Connection] /\ clients \subseteq Viewer
      /\ queue \in [Viewer -> Seq(Message)]
    BY InOrder, ViewerTyped DEF TypeOK
<1>2. PICK t \in conn[v].cfgs :
          /\ conn' = [conn EXCEPT ![v].cfgs = @ \ {t}]
          /\ page' = [page EXCEPT ![v][t] = OnConfig(page[v][t])]
    BY DEF SendConfig
<1>3. t \in View
    BY <1>1 DEF Connection
<1>4. /\ OnConfig(page[v][t]) \in Decoder /\ OnConfig(page[v][t]).cfg
      /\ OnConfig(page[v][t]).waitkey /\ Decoding(OnConfig(page[v][t]))
    BY <1>3, ViewerTyped, DecoderSteps, ConfigDecoding
<1>5. /\ page' \in [Viewer -> [View -> Decoder]]
      /\ page'[v][t] = OnConfig(page[v][t])
      /\ \A s \in View : s # t => page'[v][s] = page[v][s]
      /\ \A w \in Viewer : w # v => page'[w] = page[w]
    BY <1>2, <1>3, <1>4, OneDecoder
<1>6. /\ conn' \in [Viewer -> Connection]
      /\ conn'[v].pc = "relay" /\ conn'[v].started = conn[v].started
      /\ conn'[v].cfgs = conn[v].cfgs \ {t} /\ conn[v].pc = "relay"
      /\ \A w \in Viewer : w # v => conn'[w] = conn[w]
    BY <1>1, <1>2 DEF SendConfig, Connection
<1>7. UNCHANGED encoding /\ UNCHANGED <<clients, queue, losses>>
    BY DEF SendConfig
<1>8. UNCHANGED <<encoder, worker, configs>>
    BY <1>7 DEF encoding
<1>9. ASSUME NEW s \in View PROVE Served(v, s)'
  <2>1. Served(v, s) /\ Sent(s)' = Sent(s)
    BY <1>1, <1>8 DEF ViewerInOrder, Sent, Current
  <2>2. CASE s = t
    <3>1. Given(v, s)'
      BY <1>4, <1>5, <2>2 DEF Given
    <3>2. page'[v][s].waitkey /\ Decoding(page'[v][s])
      BY <1>4, <1>5, <2>2
    <3>3. /\ Contiguous(queue[v], page[v][s], s) => Contiguous(queue[v], page'[v][s], s)
          /\ \A n : UpToDate(queue[v], page[v][s], s, n)
                       => UpToDate(queue[v], page'[v][s], s, n)
      BY <3>2, WaitingExpectsNothing
    <3> QED
      BY <1>7, <1>8, <2>1, <3>1, <3>2, <3>3 DEF Served
  <2>3. CASE s # t
    <3>1. page'[v][s] = page[v][s]
      BY <1>5, <2>3
    <3>2. Given(v, s) => Given(v, s)'
      BY <1>6, <1>8, <2>3, <3>1 DEF Given
    <3> QED
      BY <1>6, <1>7, <1>8, <2>1, <3>1, <3>2 DEF Served
  <2> QED
    BY <2>2, <2>3
<1>10. ViewerInOrder(v)'
    BY <1>6, <1>9 DEF ViewerInOrder
<1> QED
    BY <1>1, <1>5, <1>6, <1>7, <1>10, OneViewer, ViewerTyped

LEMMA StillQueued ==
    ASSUME NEW q \in Seq(Message), q # <<>>, NEW c, Head(q) # c,
           NEW j \in DOMAIN q, q[j] = c
    PROVE  \E i \in DOMAIN Tail(q) : Tail(q)[i] = c
<1> DEFINE r == Tail(q)
<1>1. /\ Len(q) \in Nat /\ DOMAIN q = 1 .. Len(q) /\ DOMAIN r = 1 .. Len(q) - 1
      /\ Head(q) = q[1] /\ \A k \in 1 .. Len(q) - 1 : r[k] = q[k + 1]
    BY Popping
<1> HIDE DEF r
<1>2. j - 1 \in 1 .. Len(q) - 1 /\ (j - 1) + 1 = j
    BY <1>1
<1>3. j - 1 \in DOMAIN r /\ r[j - 1] = c
    BY <1>1, <1>2
<1> QED
    BY <1>3 DEF r

(* A message for another view passes.                                      *)
LEMMA RelayOther ==
    ASSUME TypeOK, LiveInv, NEW v \in Viewer, NEW s \in View, UNCHANGED encoding,
           queue[v] # <<>>, queue'[v] = Tail(queue[v]), clients' = clients,
           ~(Head(queue[v]).kind = "frame" /\ Head(queue[v]).view = s),
           Head(queue[v]) # Config(s), page'[v][s] = page[v][s],
           conn[v].pc = "relay", conn'[v].pc = "relay", conn'[v].cfgs = conn[v].cfgs,
           conn[v].started \subseteq conn'[v].started
    PROVE  Served(v, s)'
<1> DEFINE q == queue[v]
           d == page[v][s]
<1>1. Served(v, s) /\ q \in Seq(Message)
    BY InOrder, ViewerTyped
<1>2. UNCHANGED <<encoder, worker, configs>>
    BY DEF encoding
<1>3. Sent(s)' = Sent(s)
    BY <1>2 DEF Sent, Current
<1>4. Given(v, s)' <=> Given(v, s)
    BY <1>2 DEF Given
<1>5. /\ Contiguous(q, d, s) => Contiguous(Tail(q), d, s)
      /\ \A n : UpToDate(q, d, s, n) => UpToDate(Tail(q), d, s, n)
      /\ Announced(q, s) => Announced(Tail(q), s)
  <2> HIDE DEF d
  <2> QED
    BY <1>1, PopOther
<1>6. (\E j \in DOMAIN q : q[j] = Config(s))
        => \E j \in DOMAIN Tail(q) : Tail(q)[j] = Config(s)
    BY <1>1, StillQueued
<1> QED
    BY <1>1, <1>2, <1>3, <1>4, <1>5, <1>6 DEF Served

LEMMA RelayConfigKeeps ==
    ASSUME TypeOK, LiveInv, NEW v \in Viewer, RelayConfig(v)
    PROVE  TypeOK' /\ LiveInv'
<1> DEFINE q == queue[v]
           t == Head(queue[v]).view
           e == OnConfig(page[v][t])
<1>1. /\ ViewerInOrder(v) /\ q \in Seq(Message) /\ clients \subseteq Viewer
      /\ queue \in [Viewer -> Seq(Message)] /\ conn \in [Viewer -> Connection]
      /\ Len(q) <= QueueCap /\ QueueCap \in Nat /\ losses \in Nat
    BY InOrder, ViewerTyped DEF TypeOK
<1>2. /\ q # <<>> /\ Head(q).kind = "config" /\ conn[v].pc = "relay"
      /\ queue' = [queue EXCEPT ![v] = Tail(q)]
      /\ page' = [page EXCEPT ![v][t] = e]
      /\ UNCHANGED <<clients, conn, losses>> /\ UNCHANGED encoding
    BY DEF RelayConfig, Relaying
<1>3. /\ Tail(q) \in Seq(Message) /\ Len(Tail(q)) <= QueueCap /\ Head(q) \in Message
  <2>1. /\ Tail(q) \in Seq(Message) /\ Len(q) \in Nat /\ Len(Tail(q)) = Len(q) - 1
        /\ Head(q) \in Message
    BY <1>1, <1>2, Popping
  <2> HIDE DEF q
  <2> QED
    BY <1>1, <2>1
<1>4. t \in View /\ Head(q) = Config(t)
    BY <1>2, <1>3, Messages
<1>5. e \in Decoder /\ e.cfg /\ e.waitkey /\ Decoding(e)
    BY <1>4, ViewerTyped, DecoderSteps, ConfigDecoding
<1>6. /\ page' \in [Viewer -> [View -> Decoder]] /\ page'[v][t] = e
      /\ \A s \in View : s # t => page'[v][s] = page[v][s]
      /\ \A w \in Viewer : w # v => page'[w] = page[w]
  <2> HIDE DEF e, t
  <2> QED
    BY <1>2, <1>4, <1>5, OneDecoder, ZenonT(40)
<1>7. /\ queue' \in [Viewer -> Seq(Message)] /\ queue'[v] = Tail(q)
      /\ \A w \in Viewer : w # v => queue'[w] = queue[w]
    BY <1>1, <1>2, <1>3
<1>8. UNCHANGED <<encoder, worker, configs>>
    BY <1>2 DEF encoding
<1>9. ASSUME NEW s \in View PROVE Served(v, s)'
  <2>1. CASE s = t
    <3>1. Served(v, s) /\ Sent(s)' = Sent(s)
      BY <1>1, <1>8 DEF ViewerInOrder, Sent, Current
    <3>2. Given(v, s)'
      BY <1>5, <1>6, <2>1 DEF Given
    <3>3. page'[v][s].waitkey /\ Decoding(page'[v][s])
      BY <1>5, <1>6, <2>1
    <3>4. /\ Contiguous(q, page[v][s], s) => Contiguous(Tail(q), page[v][s], s)
          /\ \A n : UpToDate(q, page[v][s], s, n) => UpToDate(Tail(q), page[v][s], s, n)
      BY <1>1, <1>2, PopOther
    <3>5. /\ Contiguous(Tail(q), page[v][s], s) => Contiguous(Tail(q), page'[v][s], s)
          /\ \A n : UpToDate(Tail(q), page[v][s], s, n)
                       => UpToDate(Tail(q), page'[v][s], s, n)
      BY <3>3, WaitingExpectsNothing
    <3> QED
      BY <1>2, <1>7, <1>8, <3>1, <3>2, <3>3, <3>4, <3>5 DEF Served
  <2>2. CASE s # t
    <3>1. Head(q) # Config(s)
      BY <1>4, <2>2, Messages
    <3>2. page'[v][s] = page[v][s]
      BY <1>6, <2>2
    <3> QED
      BY <1>2, <1>7, <3>1, <3>2, RelayOther
  <2> QED
    BY <2>1, <2>2
<1>10. ViewerInOrder(v)'
    BY <1>2, <1>9 DEF ViewerInOrder
<1> QED
    BY <1>1, <1>2, <1>3, <1>6, <1>7, <1>10, OneViewer

(* A frame that leaves the queue has been announced, so its decoder has its *)
(* config; it is fed if it is the next one or a keyframe.                  *)
LEMMA RelayingFrame ==
    ASSUME TypeOK, LiveInv, NEW v \in Viewer, RelayFrame(v)
    PROVE  LET msg == Head(queue[v])
               s == msg.view
               d == page[v][s]
               e == page'[v][s]
           IN  /\ queue[v] # <<>> /\ msg \in Message /\ msg.kind = "frame"
               /\ s \in View /\ msg.au \in AccessUnit /\ conn[v].pc = "relay"
               /\ d \in Decoder /\ d.cfg /\ e.cfg /\ Decoding(e)
               /\ page' \in [Viewer -> [View -> Decoder]]
               /\ conn' \in [Viewer -> Connection]
               /\ \A w \in Viewer : w # v => conn'[w] = conn[w] /\ page'[w] = page[w]
               /\ \A t \in View : t # s => page'[v][t] = page[v][t]
               /\ conn'[v].pc = "relay" /\ conn'[v].cfgs = conn[v].cfgs
               /\ conn[v].started \subseteq conn'[v].started
               /\ ~e.waitkey => s \in conn'[v].started /\ e.last = msg.au
               /\ ~d.waitkey => msg.au.n = d.last.n + 1
               /\ e.last # d.last => e.last = msg.au /\ (msg.au.key \/ ~d.waitkey)
<1> DEFINE q == queue[v]
           msg == Head(queue[v])
           s == msg.view
           d == page[v][s]
           e == page'[v][s]
<1>1. /\ ViewerInOrder(v) /\ q \in Seq(Message) /\ conn[v] \in Connection
      /\ conn \in [Viewer -> Connection] /\ page \in [Viewer -> [View -> Decoder]]
    BY InOrder, ViewerTyped DEF TypeOK
<1>2. q # <<>> /\ msg.kind = "frame" /\ conn[v].pc = "relay" /\ conn[v].cfgs = {}
    BY DEF RelayFrame, Relaying
<1>3. msg \in Message /\ s \in View /\ msg.au \in AccessUnit
  <2>1. msg \in Message
    BY <1>1, <1>2, Popping
  <2> QED
    BY <1>2, <2>1, Messages
<1>4. d \in Decoder /\ Served(v, s)
    BY <1>1, <1>3, ViewerTyped DEF ViewerInOrder
<1>5. ~Announced(q, s) /\ (~d.waitkey => msg.au.n = d.last.n + 1)
  <2>1. Contiguous(q, d, s)
    BY <1>4 DEF Served
  <2> DEFINE waiting == [waitkey |-> TRUE]
  <2>2. waiting.waitkey
    OBVIOUS
  <2> HIDE DEF d, waiting
  <2> QED
    BY <1>1, <1>2, <2>1, <2>2, PopOwn, ZenonT(40)
<1>6. d.cfg /\ Decoding(d) /\ (~d.waitkey => s \in conn[v].started)
    BY <1>2, <1>4, <1>5, Zenon DEF Served, Given
<1>7. CASE s \in conn[v].started \/ msg.au.key
  <2>1. conn' = [conn EXCEPT ![v].started = @ \cup {s}]
    BY <1>7 DEF RelayFrame
  <2>2. PICK x \in OnFrame(d, msg.au) : page' = [page EXCEPT ![v][s] = x]
    BY <1>7 DEF RelayFrame
  <2>3. /\ x \in Decoder /\ x.cfg = d.cfg /\ Decoding(x)
        /\ \/ x.waitkey /\ x.last = d.last
           \/ ~x.waitkey /\ x.last = msg.au /\ (msg.au.key \/ ~d.waitkey)
    BY <1>3, <1>4, <1>6, FrameDecoding, ZenonT(40)
  <2>4. /\ page' \in [Viewer -> [View -> Decoder]] /\ e = x
        /\ \A t \in View : t # s => page'[v][t] = page[v][t]
        /\ \A w \in Viewer : w # v => page'[w] = page[w]
    <3> HIDE DEF s, d
    <3> QED
      BY <1>3, <2>2, <2>3, OneDecoder, ZenonT(40)
  <2>5. /\ conn' \in [Viewer -> Connection]
        /\ conn'[v].pc = "relay" /\ conn'[v].cfgs = conn[v].cfgs
        /\ conn'[v].started = conn[v].started \cup {s}
        /\ \A w \in Viewer : w # v => conn'[w] = conn[w]
    BY <1>1, <1>2, <1>3, <2>1 DEF Connection
  <2> QED
    BY <1>2, <1>3, <1>4, <1>5, <1>6, <2>3, <2>4, <2>5, Zenon
<1>8. CASE ~(s \in conn[v].started \/ msg.au.key)
  <2>1. UNCHANGED <<conn, page>>
    BY <1>8 DEF RelayFrame
  <2>2. d.waitkey
    BY <1>6, <1>8
  <2> QED
    BY <1>1, <1>2, <1>3, <1>4, <1>5, <1>6, <2>1, <2>2
<1> QED
    BY <1>7, <1>8, Zenon

LEMMA RelayFrameKeeps ==
    ASSUME TypeOK, LiveInv, NEW v \in Viewer, RelayFrame(v)
    PROVE  TypeOK' /\ LiveInv'
<1> DEFINE q == queue[v]
           msg == Head(queue[v])
           t == msg.view
           d == page[v][t]
           e == page'[v][t]
<1>1. /\ ViewerInOrder(v) /\ q \in Seq(Message) /\ clients \subseteq Viewer
      /\ queue \in [Viewer -> Seq(Message)]
      /\ Len(q) <= QueueCap /\ QueueCap \in Nat /\ losses \in Nat
    BY InOrder, ViewerTyped DEF TypeOK
<1>2. /\ queue' = [queue EXCEPT ![v] = Tail(q)]
      /\ UNCHANGED <<clients, losses>> /\ UNCHANGED encoding
    BY DEF RelayFrame
<1>3. /\ q # <<>> /\ msg \in Message /\ msg.kind = "frame" /\ t \in View
      /\ conn[v].pc = "relay" /\ e.cfg /\ Decoding(e)
      /\ page' \in [Viewer -> [View -> Decoder]]
      /\ conn' \in [Viewer -> Connection]
      /\ \A w \in Viewer : w # v => conn'[w] = conn[w] /\ page'[w] = page[w]
      /\ \A s \in View : s # t => page'[v][s] = page[v][s]
      /\ conn'[v].pc = "relay" /\ conn'[v].cfgs = conn[v].cfgs
      /\ conn[v].started \subseteq conn'[v].started
      /\ ~e.waitkey => t \in conn'[v].started /\ e.last = msg.au
    BY RelayingFrame
<1>4. Tail(q) \in Seq(Message) /\ Len(Tail(q)) <= QueueCap
  <2>1. /\ Tail(q) \in Seq(Message) /\ Len(q) \in Nat /\ Len(Tail(q)) = Len(q) - 1
    BY <1>1, <1>3, Popping
  <2> HIDE DEF q
  <2> QED
    BY <1>1, <2>1
<1>5. /\ queue' \in [Viewer -> Seq(Message)] /\ queue'[v] = Tail(q)
      /\ \A w \in Viewer : w # v => queue'[w] = queue[w]
    BY <1>1, <1>2, <1>4
<1>6. UNCHANGED <<encoder, worker, configs>>
    BY <1>2 DEF encoding
<1>7. ASSUME NEW s \in View PROVE Served(v, s)'
  <2>1. CASE s = t
    <3>1. Served(v, t)
      BY <1>1, <1>3 DEF ViewerInOrder
    <3>2. Contiguous(q, d, t)
      BY <3>1 DEF Served
    <3>3. /\ Contiguous(Tail(q), e, t)
          /\ \A n : UpToDate(q, d, t, n) => UpToDate(Tail(q), e, t, n)
      <4> HIDE DEF d, e
      <4> QED
        BY <1>1, <1>3, <3>2, PopOwn
    <3>4. Given(v, s)'
      BY <1>3, <2>1 DEF Given
    <3>5. Sent(s)' = Sent(s)
      BY <1>6 DEF Sent, Current
    <3>6. /\ Served(v, s) /\ d = page[v][s] /\ e = page'[v][s]
          /\ Contiguous(Tail(q), page'[v][s], s)
          /\ \A n : UpToDate(q, page[v][s], s, n) => UpToDate(Tail(q), page'[v][s], s, n)
      BY <2>1, <3>1, <3>3
    <3>7. Decoding(page'[v][s]) /\ (~page'[v][s].waitkey => s \in conn'[v].started)
      BY <1>3, <2>1
    <3> HIDE DEF d, e, t, msg
    <3> QED
      BY <1>2, <1>5, <1>6, <3>4, <3>5, <3>6, <3>7 DEF Served
  <2>2. CASE s # t
    <3>1. msg # Config(s)
      BY <1>3, Messages
    <3> QED
      BY <1>2, <1>3, <1>5, <2>2, <3>1, RelayOther
  <2> QED
    BY <2>1, <2>2
<1>8. ViewerInOrder(v)'
    BY <1>3, <1>7 DEF ViewerInOrder
<1> QED
    BY <1>1, <1>2, <1>3, <1>4, <1>5, <1>8, OneViewer

(* A connection ends: nothing is queued, and every decoder waits.          *)
LEMMA DisconnectKeeps ==
    ASSUME TypeOK, LiveInv, NEW v \in Viewer, RelayEnds(v) \/ ConnectionLost(v)
    PROVE  TypeOK' /\ LiveInv'
<1>1. /\ clients \subseteq Viewer /\ queue \in [Viewer -> Seq(Message)]
      /\ conn \in [Viewer -> Connection] /\ page \in [Viewer -> [View -> Decoder]]
      /\ losses \in Nat /\ QueueCap \in Nat
    BY ViewerTyped DEF TypeOK
<1>2. /\ conn' = [conn EXCEPT ![v] = Closed] /\ clients' = clients \ {v}
      /\ queue' = [queue EXCEPT ![v] = <<>>] /\ UNCHANGED encoding
    BY DEF RelayEnds, ConnectionLost, Disconnect
<1>3. losses' \in Nat
    BY <1>1 DEF RelayEnds, ConnectionLost
<1>4. NewDecoder \in Decoder /\ Decoding(NewDecoder) /\ NewDecoder.waitkey
    BY DEF NewDecoder, Decoder, Decoding
<1>5. ASSUME NEW s \in View
      PROVE  /\ ResetDec(page[v][s]) \in Decoder /\ Decoding(ResetDec(page[v][s]))
             /\ ResetDec(page[v][s]).waitkey
    BY ViewerTyped, DecoderSteps, ConfigDecoding
<1>6. PICK d : /\ d \in {[s \in View |-> ResetDec(page[v][s])], [s \in View |-> NewDecoder]}
               /\ page' = [page EXCEPT ![v] = d]
    BY DEF RelayEnds, ConnectionLost
<1>7. /\ d \in [View -> Decoder]
      /\ \A s \in View : Decoding(d[s]) /\ d[s].waitkey
  <2>1. CASE d = [s \in View |-> ResetDec(page[v][s])]
    BY <1>5, <2>1
  <2>2. CASE d = [s \in View |-> NewDecoder]
    BY <1>4, <2>2
  <2> QED
    BY <1>6, <2>1, <2>2
<1>8. /\ page' \in [Viewer -> [View -> Decoder]] /\ page'[v] = d
      /\ \A w \in Viewer : w # v => page'[w] = page[w]
    BY <1>1, <1>6, <1>7
<1>9. /\ conn' \in [Viewer -> Connection] /\ conn'[v] = Closed
      /\ queue' \in [Viewer -> Seq(Message)] /\ queue'[v] = <<>>
      /\ Len(queue'[v]) <= QueueCap
      /\ clients' \subseteq Viewer /\ v \notin clients'
      /\ \A w \in Viewer : w # v => /\ (w \in clients' <=> w \in clients)
                                    /\ conn'[w] = conn[w] /\ queue'[w] = queue[w]
  <2>1. Closed \in Connection
    BY DEF Closed, Connection
  <2>2. <<>> \in Seq(Message) /\ Len(<<>>) = 0
    OBVIOUS
  <2> QED
    BY <1>1, <1>2, <2>1, <2>2
<1>10. Closed.pc = "closed" /\ Closed.started = {} /\ Closed.cfgs = {}
    BY DEF Closed
<1>11. ASSUME NEW s \in View PROVE Served(v, s)'
  <2>1. FramesOf(<<>>, s) = {}
    BY DEF FramesOf
  <2>2. Announced(<<>>, s) /\ Contiguous(<<>>, d[s], s)
    BY <2>1 DEF Announced, Contiguous
  <2> QED
    BY <1>7, <1>8, <1>9, <2>2 DEF Served
<1>12. ViewerInOrder(v)'
    BY <1>9, <1>10, <1>11 DEF ViewerInOrder
<1> QED
    BY <1>2, <1>3, <1>8, <1>9, <1>12, OneViewer

LEMMA DecoderErrorKeeps ==
    ASSUME TypeOK, LiveInv, NEW v \in Viewer, DecoderError(v)
    PROVE  TypeOK' /\ LiveInv'
<1>1. /\ ViewerInOrder(v) /\ clients \subseteq Viewer
      /\ queue \in [Viewer -> Seq(Message)] /\ conn \in [Viewer -> Connection]
    BY InOrder DEF TypeOK
<1>2. PICK t \in View : page' = [page EXCEPT ![v][t] = EnsureDec(ResetDec(page[v][t]))]
    BY DEF DecoderError
<1> DEFINE e == EnsureDec(ResetDec(page[v][t]))
<1>3. e \in Decoder /\ e.cfg = page[v][t].cfg /\ e.waitkey /\ Decoding(e)
    BY ViewerTyped, ConfigDecoding
<1>4. /\ page' \in [Viewer -> [View -> Decoder]] /\ page'[v][t] = e
      /\ \A s \in View : s # t => page'[v][s] = page[v][s]
      /\ \A w \in Viewer : w # v => page'[w] = page[w]
  <2>1. page' = [page EXCEPT ![v][t] = e]
    BY <1>2
  <2> HIDE DEF e
  <2> QED
    BY <1>3, <2>1, OneDecoder
<1>5. UNCHANGED encoding /\ UNCHANGED <<clients, queue, conn, losses>>
    BY DEF DecoderError
<1>6. UNCHANGED <<encoder, worker, configs>>
    BY <1>5 DEF encoding
<1>7. ASSUME NEW s \in View PROVE Served(v, s)'
  <2>1. Served(v, s) /\ Sent(s)' = Sent(s)
    BY <1>1, <1>6 DEF ViewerInOrder, Sent, Current
  <2>2. Given(v, s)' <=> Given(v, s)
    BY <1>3, <1>4, <1>5, <1>6 DEF Given
  <2>3. CASE s = t
    <3>1. page'[v][s].waitkey /\ Decoding(page'[v][s])
      BY <1>3, <1>4, <2>3
    <3>2. /\ Contiguous(queue[v], page[v][s], s) => Contiguous(queue[v], page'[v][s], s)
          /\ \A n : UpToDate(queue[v], page[v][s], s, n)
                       => UpToDate(queue[v], page'[v][s], s, n)
      BY <3>1, WaitingExpectsNothing
    <3> QED
      BY <1>5, <1>6, <2>1, <2>2, <3>1, <3>2 DEF Served
  <2>4. CASE s # t
    <3>1. page'[v][s] = page[v][s]
      BY <1>4, <2>4
    <3> QED
      BY <1>5, <1>6, <2>1, <2>2, <3>1 DEF Served
  <2> QED
    BY <2>3, <2>4
<1>8. ViewerInOrder(v)'
    BY <1>1, <1>5, <1>7 DEF ViewerInOrder
<1> QED
    BY <1>1, <1>4, <1>5, <1>8, OneViewer, ViewerTyped
-----------------------------------------------------------------------------
(* The invariant.                                                          *)

LEMMA InitInOrder == Init => LiveInv
<1> SUFFICES ASSUME Init PROVE LiveInv
    OBVIOUS
<1>1. /\ worker.pc = "check" /\ worker.aus = <<>> /\ worker.at = 1
      /\ configs = {} /\ clients = {}
      /\ \A s \in View : encoder[s].pending = <<>> /\ encoder[s].cfg_sent = FALSE
    BY DEF Init, AtSlot, NewEncoder
<1>2. DOMAIN <<>> = {}
    OBVIOUS
<1>3. EncodersInOrder /\ WorkerInOrder
    BY <1>1, <1>2 DEF EncodersInOrder, WorkerInOrder
<1>4. ASSUME NEW v \in Viewer PROVE ViewerInOrder(v)
  <2>1. /\ conn[v].pc = "closed" /\ conn[v].started = {} /\ conn[v].cfgs = {}
        /\ queue[v] = <<>>
    BY DEF Init, Closed
  <2>2. ASSUME NEW s \in View PROVE Served(v, s)
    <3>1. page[v][s].waitkey /\ Decoding(page[v][s])
      BY DEF Init, NewDecoder, Decoding
    <3>2. FramesOf(<<>>, s) = {}
      BY DEF FramesOf
    <3>3. Announced(<<>>, s) /\ Contiguous(<<>>, page[v][s], s)
      BY <3>2 DEF Announced, Contiguous
    <3> QED
      BY <1>1, <2>1, <3>1, <3>3 DEF Served
  <2> QED
    BY <1>1, <2>1, <2>2 DEF ViewerInOrder
<1> QED
    BY <1>3, <1>4 DEF LiveInv, ViewersInOrder

LEMMA LiveKept == TypeOK /\ LiveInv /\ [Next]_vars => TypeOK' /\ LiveInv'
<1> SUFFICES ASSUME TypeOK, LiveInv, [Next]_vars PROVE TypeOK' /\ LiveInv'
    OBVIOUS
<1>1. CASE Submit \/ Notify
    BY <1>1, ProducerTyped, ProducerKeeps
<1>2. CASE \/ Take \/ Wait \/ SpuriousWakeup \/ EncodeFails
           \/ CacheConfig \/ NoConfig \/ ViewDone
    BY <1>2, WorkerStepTyped, WorkerStepKeeps
<1>3. CASE Encode
    BY <1>3, EncodeTyped, EncodeKeeps
<1>4. CASE CastConfig \/ CastFrame
    BY <1>4, CastTyped, CastConfigKeeps, CastFrameKeeps
<1>5. ASSUME NEW v \in Viewer, Serve(v) \/ ConnectionLost(v) \/ DecoderError(v)
      PROVE  TypeOK' /\ LiveInv'
  <2>1. CASE Connect(v) \/ Join(v) \/ CopyConfigs(v)
    BY <2>1, SubscribeKeeps
  <2>2. CASE SendConfig(v)
    BY <2>2, SendConfigKeeps
  <2>3. CASE RelayConfig(v)
    BY <2>3, RelayConfigKeeps
  <2>4. CASE RelayFrame(v)
    BY <2>4, RelayFrameKeeps
  <2>5. CASE RelayEnds(v) \/ ConnectionLost(v)
    BY <2>5, DisconnectKeeps
  <2>6. CASE DecoderError(v)
    BY <2>6, DecoderErrorKeeps
  <2> QED
    BY <1>5, <2>1, <2>2, <2>3, <2>4, <2>5, <2>6 DEF Serve
<1>6. CASE UNCHANGED vars
  <2>1. UNCHANGED <<slot, producer, worker, encoder, configs, clients, queue, conn,
                    page, losses>>
    BY <1>6 DEF vars
  <2>2. TypeOK'
    BY <2>1 DEF TypeOK
  <2>3. EncodersInOrder' /\ WorkerInOrder'
    BY <2>1 DEF LiveInv, EncodersInOrder, WorkerInOrder, Sent, Current
  <2>4. ViewersInOrder'
    <3>1. \A s \in View : Sent(s)' = Sent(s)
      BY <2>1 DEF Sent, Current
    <3> QED
      BY <2>1, <3>1, SameService DEF LiveInv
  <2> QED
    BY <2>2, <2>3, <2>4 DEF LiveInv
<1> QED
    BY <1>1, <1>2, <1>3, <1>4, <1>5, <1>6 DEF Next, Work

LEMMA LiveInvariant == Spec => [](TypeOK /\ LiveInv)
<1>1. Init => TypeOK /\ LiveInv
    BY InitTyped, InitInOrder
<1> QED
    BY <1>1, LiveKept, PTL DEF Spec

(* The variables keep their types, and no viewer is ever more than its     *)
(* queue behind: H264Cast::broadcast lets go of those who would be.        *)
THEOREM LiveTypes == Spec => []TypeOK
BY LiveInvariant, PTL

(* No decoder is fed before it has been configured, however subscribe falls *)
(* between the two halves of publish_config: the sender is registered       *)
(* before the configs are copied, and the config is cached before it is    *)
(* broadcast, so a viewer gets it one way or the other.                    *)
THEOREM ConfiguredBeforeFed == Spec => []ConfiguredFirst
<1>1. LiveInv => ConfiguredFirst
    BY InOrder DEF ConfiguredFirst, Served, Decoding
<1> QED
    BY <1>1, LiveInvariant, PTL

(* Only a frame off the queue is ever fed to a decoder.                    *)
LEMMA FedFromTheQueue ==
    ASSUME TypeOK, LiveInv, [Next]_vars, NEW v \in Viewer, NEW s \in View
    PROVE  \/ page'[v][s].last \in {page[v][s].last, NoFrame}
           \/ RelayFrame(v) /\ Head(queue[v]).view = s
<1>1. page \in [Viewer -> [View -> Decoder]]
    BY DEF TypeOK
<1>2. CASE UNCHANGED page
    BY <1>2
<1>3. ASSUME NEW w \in Viewer, NEW t \in View, NEW d \in Decoder, d.last = NoFrame,
             page' = [page EXCEPT ![w][t] = d]
      PROVE  page'[v][s].last \in {page[v][s].last, NoFrame}
    BY <1>1, <1>3
<1>4. ASSUME NEW w \in Viewer, SendConfig(w)
      PROVE  page'[v][s].last \in {page[v][s].last, NoFrame}
  <2>1. PICK t \in conn[w].cfgs : page' = [page EXCEPT ![w][t] = OnConfig(page[w][t])]
    BY <1>4 DEF SendConfig
  <2>2. t \in View
    BY ViewerTyped DEF Connection
  <2>3. OnConfig(page[w][t]) \in Decoder /\ OnConfig(page[w][t]).last = NoFrame
    BY <2>2, ViewerTyped, DecoderSteps
  <2> QED
    BY <1>3, <2>1, <2>2, <2>3
<1>5. ASSUME NEW w \in Viewer, RelayConfig(w)
      PROVE  page'[v][s].last \in {page[v][s].last, NoFrame}
  <2>1. queue[w] \in Seq(Message) /\ queue[w] # <<>>
    BY <1>5, ViewerTyped DEF RelayConfig
  <2>2. Head(queue[w]) \in Message
    BY <2>1, Popping
  <2>3. PICK t \in View : t = Head(queue[w]).view
    BY <2>2, Messages
  <2>4. page' = [page EXCEPT ![w][t] = OnConfig(page[w][t])]
    BY <1>5, <2>3 DEF RelayConfig
  <2>5. OnConfig(page[w][t]) \in Decoder /\ OnConfig(page[w][t]).last = NoFrame
    BY ViewerTyped, DecoderSteps
  <2> QED
    BY <1>3, <2>4, <2>5
<1>6. ASSUME NEW w \in Viewer, DecoderError(w)
      PROVE  page'[v][s].last \in {page[v][s].last, NoFrame}
  <2>1. PICK t \in View : page' = [page EXCEPT ![w][t] = EnsureDec(ResetDec(page[w][t]))]
    BY <1>6 DEF DecoderError
  <2>2. /\ EnsureDec(ResetDec(page[w][t])) \in Decoder
        /\ EnsureDec(ResetDec(page[w][t])).last = NoFrame
    BY ViewerTyped, ConfigDecoding
  <2> QED
    BY <1>3, <2>1, <2>2
<1>7. ASSUME NEW w \in Viewer, RelayEnds(w) \/ ConnectionLost(w)
      PROVE  page'[v][s].last \in {page[v][s].last, NoFrame}
  <2>1. PICK d : /\ d \in {[t \in View |-> ResetDec(page[w][t])], [t \in View |-> NewDecoder]}
                 /\ page' = [page EXCEPT ![w] = d]
    BY <1>7 DEF RelayEnds, ConnectionLost
  <2>2. ResetDec(page[w][s]).last = NoFrame /\ NewDecoder.last = NoFrame
    BY ViewerTyped, DecoderSteps DEF NewDecoder
  <2>3. d[s].last = NoFrame
    BY <2>1, <2>2
  <2> QED
    BY <1>1, <2>1, <2>3
<1>8. ASSUME NEW w \in Viewer, RelayFrame(w)
      PROVE  \/ page'[v][s].last \in {page[v][s].last, NoFrame}
             \/ RelayFrame(v) /\ Head(queue[v]).view = s
  <2>1. /\ w # v => page'[v] = page[v]
        /\ Head(queue[w]).view # s => page'[w][s] = page[w][s]
    BY <1>8, RelayingFrame
  <2> QED
    BY <1>8, <2>1
<1>9. CASE \E w \in Viewer : Serve(w) \/ ConnectionLost(w) \/ DecoderError(w)
  <2>1. PICK w \in Viewer : Serve(w) \/ ConnectionLost(w) \/ DecoderError(w)
    BY <1>9
  <2>2. CASE Connect(w) \/ Join(w) \/ CopyConfigs(w)
    BY <1>2, <2>2 DEF Connect, Join, CopyConfigs
  <2> QED
    BY <1>4, <1>5, <1>6, <1>7, <1>8, <2>1, <2>2 DEF Serve
<1>10. CASE Submit \/ Notify \/ Work \/ SpuriousWakeup
    BY <1>2, <1>10, Zenon DEF Submit, Notify, Work, SpuriousWakeup, Take, Wait, Encode, EncodeFails,
                       CacheConfig, NoConfig, CastConfig, CastFrame, ViewDone, serving
<1>11. CASE UNCHANGED vars
    BY <1>2, <1>11 DEF vars
<1> QED
    BY <1>9, <1>10, <1>11 DEF Next

(* A decoder is only ever fed a keyframe or the frame right after its last: *)
(* what is queued for a viewer that is still sent to has no gaps, and a     *)
(* viewer that is let go loses the tail of its frames, never the middle.   *)
THEOREM NoGaps == Spec => GapFree
<1>1. ASSUME TypeOK, LiveInv, [Next]_vars, NEW v \in Viewer, NEW s \in View,
             page'[v][s].last \notin {page[v][s].last, NoFrame}
      PROVE  \/ page'[v][s].last.key
             \/ /\ page[v][s].last # NoFrame
                /\ page'[v][s].last.n = page[v][s].last.n + 1
  <2> DEFINE d == page[v][s]
             e == page'[v][s]
             au == Head(queue[v]).au
  <2>1. RelayFrame(v) /\ Head(queue[v]).view = s
    BY <1>1, FedFromTheQueue
  <2>2. /\ ~d.waitkey => au.n = d.last.n + 1
        /\ e.last # d.last => e.last = au /\ (au.key \/ ~d.waitkey)
    BY <1>1, <2>1, RelayingFrame
  <2>3. ~d.waitkey => d.last # NoFrame
    BY <1>1, InOrder DEF Served, Decoding
  <2> QED
    BY <1>1, <2>2, <2>3
<1>2. TypeOK /\ LiveInv /\ [Next]_vars
        => [\A v \in Viewer, s \in View :
              LET was == page[v][s].last
                  is == page'[v][s].last
              IN  is \notin {was, NoFrame} =>
                     is.key \/ (was # NoFrame /\ is.n = was.n + 1)]_vars
    BY <1>1
<1> QED
    BY <1>2, LiveInvariant, PTL DEF Spec, GapFree
=============================================================================
