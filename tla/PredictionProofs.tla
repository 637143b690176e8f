-------------------------- MODULE PredictionProofs --------------------------
(***************************************************************************)
(* Theorems about the prediction history of Movement.tla: its types and    *)
(* bound, what the loops over it compute, the frames that acknowledge a    *)
(* teleport, and how often its ticks go back.                              *)
(***************************************************************************)
EXTENDS MovementProofs, DataInduction

-----------------------------------------------------------------------------
(* What correctPrediction's loop computes: the predictions it keeps. *)

KeptRun(g, S, h, t) ==
    /\ g \in [0..Len(h) -> Seq(S)] /\ g[0] = <<>> /\ Kept(h, t) = g[Len(h)]
    /\ \A n \in 1..Len(h) : g[n] = Keep(g[n - 1], h[n], t)

LEMMA KeptTrace ==
    ASSUME NEW S, NEW h \in Seq(S), NEW t
    PROVE  \E g : KeptRun(g, S, h, t)
<1> DEFINE Is(f) == f = [n \in 0..Len(h) |-> IF n = 0 THEN <<>> ELSE Keep(f[n - 1], h[n], t)]
           step == [n \in 1..Len(h) |-> [v \in Seq(S) |-> Keep(v, h[n], t)]]
<1> HIDE DEF step, Is
<1>1. Len(h) \in Nat /\ <<>> \in Seq(S)
  OBVIOUS
<1>2. \A n \in 1..Len(h), v \in Seq(S) : Keep(v, h[n], t) \in Seq(S)
  BY DEF Keep
<1>3. step \in [1..Len(h) -> [Seq(S) -> Seq(S)]]
  BY <1>2 DEF step
<1>4. PICK g : IsTrace(g, Seq(S), <<>>, Len(h), step)
  BY <1>1, <1>3, TraceExists, Zenon
<1>5. \A n \in 1..Len(h) : g[n] = Keep(g[n - 1], h[n], t)
  <2>1. \A n \in 1..Len(h) : g[n - 1] \in Seq(S)
    BY <1>1, <1>4 DEF IsTrace
  <2>2. QED
    BY <1>4, <2>1 DEF step, IsTrace
<1>6. Is(g)
  <2>1. \A n \in 0..Len(h) : g[n] = IF n = 0 THEN <<>> ELSE Keep(g[n - 1], h[n], t)
    BY <1>1, <1>4, <1>5 DEF IsTrace
  <2>2. g \in [0..Len(h) -> Seq(S)]
    BY <1>4 DEF IsTrace
  <2>3. QED
    BY <2>1, <2>2 DEF Is
<1>7. PICK kept : Is(kept) /\ Kept(h, t) = kept[Len(h)]
  <2>1. Is(CHOOSE f : Is(f))
    BY <1>6, Zenon
  <2>2. QED
    BY <2>1, Zenon DEF Kept, Is
<1>8. \A n \in 0..Len(h) : kept[n] = g[n]
  <2>1. \A n \in 0..Len(h) : kept[n] = IF n = 0 THEN <<>> ELSE Keep(kept[n - 1], h[n], t)
    BY <1>7, Zenon DEF Is
  <2>2. SameSteps(kept, g, Len(h))
    BY <1>1, <1>4, <1>5, <2>1 DEF IsTrace, SameSteps
  <2>3. QED
    BY <1>1, <2>2, TraceUnique, Zenon
<1>9. Kept(h, t) = g[Len(h)]
  BY <1>1, <1>7, <1>8
<1>10. QED
  BY <1>4, <1>5, <1>9 DEF IsTrace, KeptRun

LEMMA KeptTyped ==
    ASSUME NEW S, NEW h \in Seq(S), NEW t
    PROVE  Kept(h, t) \in Seq(S) /\ Kept(<<>>, t) = <<>>
<1>1. PICK g : KeptRun(g, S, h, t)
  BY KeptTrace, Zenon
<1>2. Len(h) \in Nat /\ <<>> \in Seq(S) /\ Len(<<>>) = 0
  OBVIOUS
<1>3. PICK f : KeptRun(f, S, <<>>, t)
  BY <1>2, KeptTrace, Zenon
<1>4. Kept(<<>>, t) = <<>>
  BY <1>2, <1>3 DEF KeptRun
<1>5. QED
  BY <1>1, <1>2, <1>4 DEF KeptRun

\* Round by round.
LEMMA KeptAppend ==
    ASSUME NEW S, NEW h \in Seq(S), NEW e \in S, NEW t
    PROVE  Kept(Append(h, e), t) = Keep(Kept(h, t), e, t)
<1> DEFINE b == Append(h, e)
<1>2. PICK g : KeptRun(g, S, h, t)
  BY KeptTrace, Zenon
<1>3. /\ b \in Seq(S) /\ Len(h) \in Nat /\ Len(b) = Len(h) + 1 /\ b[Len(h) + 1] = e
      /\ \A n \in 1..Len(h) : b[n] = h[n]
  OBVIOUS
<1> HIDE DEF b
<1>4. PICK f : KeptRun(f, S, b, t)
  BY <1>3, KeptTrace, Zenon
<1>5. \A n \in 0..Len(h) : f[n] = g[n]
  <2>1. \A n \in 1..Len(h) : f[n] = Keep(f[n - 1], h[n], t)
    BY <1>3, <1>4 DEF KeptRun
  <2>2. SameSteps(f, g, Len(h))
    BY <1>2, <1>4, <2>1 DEF KeptRun, SameSteps
  <2>3. Len(h) \in Nat
    BY <1>3
  <2>4. QED
    BY <2>2, <2>3, TraceUnique, Zenon
<1>6. Kept(b, t) = Keep(f[Len(h)], e, t)
  BY <1>3, <1>4 DEF KeptRun
<1>7. Kept(b, t) = Keep(Kept(h, t), e, t)
  BY <1>2, <1>3, <1>5, <1>6 DEF KeptRun
<1>8. QED
  BY <1>7 DEF b

-----------------------------------------------------------------------------
(* What a replay adds up. *)

\* Sets of predictions and of frames.
Moving(S) == \A e \in S : e.tick \in Int /\ e.delta \in Position

LEMMA PlusTyped ==
    ASSUME NEW p \in Position, NEW d \in Position
    PROVE  /\ Plus(p, d) \in Position
           /\ Plus(p, d).x = p.x + d.x /\ Plus(p, d).y = p.y + d.y
  BY DEF Plus, Position

ReplayRun(g, p, h) ==
    /\ g \in [0..Len(h) -> Position] /\ g[0] = p /\ Replay(p, h) = g[Len(h)]
    /\ \A n \in 1..Len(h) : g[n] = Plus(g[n - 1], h[n].delta)

LEMMA ReplayTrace ==
    ASSUME NEW S, Moving(S), NEW p \in Position, NEW h \in Seq(S)
    PROVE  \E g : ReplayRun(g, p, h)
<1> DEFINE Is(f) == f = [n \in 0..Len(h) |-> IF n = 0 THEN p ELSE Plus(f[n - 1], h[n].delta)]
           step == [n \in 1..Len(h) |-> [v \in Position |-> Plus(v, h[n].delta)]]
<1> HIDE DEF step, Is
<1>1. Len(h) \in Nat /\ \A n \in 1..Len(h) : h[n].delta \in Position
  BY DEF Moving
<1>2. \A n \in 1..Len(h), v \in Position : Plus(v, h[n].delta) \in Position
  BY <1>1, PlusTyped
<1>3. step \in [1..Len(h) -> [Position -> Position]]
  BY <1>2 DEF step
<1>4. PICK g : IsTrace(g, Position, p, Len(h), step)
  BY <1>1, <1>3, TraceExists, Zenon
<1>5. \A n \in 1..Len(h) : g[n] = Plus(g[n - 1], h[n].delta)
  <2>1. \A n \in 1..Len(h) : g[n - 1] \in Position
    BY <1>1, <1>4 DEF IsTrace
  <2>2. QED
    BY <1>4, <2>1 DEF step, IsTrace
<1>6. Is(g)
  <2>1. \A n \in 0..Len(h) : g[n] = IF n = 0 THEN p ELSE Plus(g[n - 1], h[n].delta)
    BY <1>1, <1>4, <1>5 DEF IsTrace
  <2>2. g \in [0..Len(h) -> Position]
    BY <1>4 DEF IsTrace
  <2>3. QED
    BY <2>1, <2>2 DEF Is
<1>7. PICK current : Is(current) /\ Replay(p, h) = current[Len(h)]
  <2>1. Is(CHOOSE f : Is(f))
    BY <1>6, Zenon
  <2>2. QED
    BY <2>1, Zenon DEF Replay, Is
<1>8. \A n \in 0..Len(h) : current[n] = g[n]
  <2>1. \A n \in 0..Len(h) : current[n] = IF n = 0 THEN p ELSE Plus(current[n - 1], h[n].delta)
    BY <1>7, Zenon DEF Is
  <2>2. SameSteps(current, g, Len(h))
    BY <1>1, <1>4, <1>5, <2>1 DEF IsTrace, SameSteps
  <2>3. QED
    BY <1>1, <2>2, TraceUnique, Zenon
<1>9. Replay(p, h) = g[Len(h)]
  BY <1>1, <1>7, <1>8
<1>10. QED
  BY <1>4, <1>5, <1>9 DEF IsTrace, ReplayRun

LEMMA ReplayTyped ==
    ASSUME NEW S, Moving(S), NEW p \in Position, NEW h \in Seq(S)
    PROVE  Replay(p, h) \in Position /\ Replay(p, <<>>) = p
<1>1. PICK g : ReplayRun(g, p, h)
  BY ReplayTrace, Zenon
<1>2. Len(h) \in Nat /\ <<>> \in Seq(S) /\ Len(<<>>) = 0
  OBVIOUS
<1>3. PICK f : ReplayRun(f, p, <<>>)
  BY <1>2, ReplayTrace, Zenon
<1>4. Replay(p, <<>>) = p
  BY <1>2, <1>3 DEF ReplayRun
<1>5. QED
  BY <1>1, <1>2, <1>4 DEF ReplayRun

\* Round by round.
LEMMA ReplayAppend ==
    ASSUME NEW S, Moving(S), NEW p \in Position, NEW h \in Seq(S), NEW e \in S
    PROVE  Replay(p, Append(h, e)) = Plus(Replay(p, h), e.delta)
<1> DEFINE b == Append(h, e)
<1>2. PICK g : ReplayRun(g, p, h)
  BY ReplayTrace, Zenon
<1>3. /\ b \in Seq(S) /\ Len(h) \in Nat /\ Len(b) = Len(h) + 1 /\ b[Len(h) + 1] = e
      /\ \A n \in 1..Len(h) : b[n] = h[n]
  OBVIOUS
<1> HIDE DEF b
<1>4. PICK f : ReplayRun(f, p, b)
  BY <1>3, ReplayTrace, Zenon
<1>5. \A n \in 0..Len(h) : f[n] = g[n]
  <2>1. \A n \in 1..Len(h) : f[n] = Plus(f[n - 1], h[n].delta)
    BY <1>3, <1>4 DEF ReplayRun
  <2>2. SameSteps(f, g, Len(h))
    BY <1>2, <1>4, <2>1 DEF ReplayRun, SameSteps
  <2>3. Len(h) \in Nat
    BY <1>3
  <2>4. QED
    BY <2>2, <2>3, TraceUnique, Zenon
<1>6. Replay(p, b) = Plus(f[Len(h)], e.delta)
  BY <1>3, <1>4 DEF ReplayRun
<1>7. Replay(p, b) = Plus(Replay(p, h), e.delta)
  BY <1>2, <1>3, <1>5, <1>6 DEF ReplayRun
<1>8. QED
  BY <1>7 DEF b

\* How far the elements of s for ticks after t go, together.
Displacement(s, t) == Replay(Still, Kept(s, t))

LEMMA StillPosition == Still \in Position /\ Still.x = 0 /\ Still.y = 0
  BY DEF Still, Position

LEMMA DisplacementTyped ==
    ASSUME NEW S, Moving(S), NEW s \in Seq(S), NEW t
    PROVE  Displacement(s, t) \in Position /\ Displacement(<<>>, t) = Still
<1>1. Kept(<<>>, t) = <<>> /\ Kept(s, t) \in Seq(S)
  BY KeptTyped, Zenon
<1>2. Replay(Still, <<>>) = Still /\ Replay(Still, Kept(s, t)) \in Position
  BY <1>1, StillPosition, ReplayTyped, Zenon
<1>3. QED
  BY <1>1, <1>2, Zenon DEF Displacement

LEMMA DisplacementAppend ==
    ASSUME NEW S, Moving(S), NEW s \in Seq(S), NEW e \in S, NEW t
    PROVE  Displacement(Append(s, e), t) = IF e.tick > t THEN Plus(Displacement(s, t), e.delta)
                                                         ELSE Displacement(s, t)
<1>1. Kept(s, t) \in Seq(S) /\ Kept(Append(s, e), t) = Keep(Kept(s, t), e, t)
  BY KeptTyped, KeptAppend, Zenon
<1>2. Replay(Still, Append(Kept(s, t), e)) = Plus(Replay(Still, Kept(s, t)), e.delta)
  BY <1>1, StillPosition, ReplayAppend, Zenon
<1>3. QED
  BY <1>1, <1>2, Zenon DEF Displacement, Keep

LEMMA PlusRight ==
    ASSUME NEW p \in Position, NEW d \in Position, NEW e \in Position
    PROVE  /\ Plus(Plus(p, d), e) = Plus(p, Plus(d, e))
           /\ Plus(p, Still) = p /\ Plus(Still, p) = p
<1>1. /\ p = [x |-> p.x, y |-> p.y] /\ d = [x |-> d.x, y |-> d.y] /\ e = [x |-> e.x, y |-> e.y]
      /\ p.x \in Int /\ p.y \in Int /\ d.x \in Int /\ d.y \in Int /\ e.x \in Int /\ e.y \in Int
  BY DEF Position
<1>2. /\ (p.x + d.x) + e.x = p.x + (d.x + e.x) /\ (p.y + d.y) + e.y = p.y + (d.y + e.y)
      /\ p.x + 0 = p.x /\ 0 + p.x = p.x /\ p.y + 0 = p.y /\ 0 + p.y = p.y
  BY <1>1
<1>3. Plus(Plus(p, d), e) = Plus(p, Plus(d, e))
  BY <1>2 DEF Plus
<1>4. Plus(p, Still) = p /\ Plus(Still, p) = p
  BY <1>1, <1>2 DEF Plus, Still
<1>5. QED
  BY <1>3, <1>4

\* A replay moves a position by the displacement of what it replays.
LEMMA ReplayKept ==
    ASSUME NEW S, Moving(S), NEW p \in Position, NEW s \in Seq(S), NEW t
    PROVE  Replay(p, Kept(s, t)) = Plus(p, Displacement(s, t))
<1> DEFINE T == {h \in Seq(S) : Replay(p, h) = Plus(p, Replay(Still, h))}
<1>1. <<>> \in T
  <2>1. <<>> \in Seq(S)
    OBVIOUS
  <2>2. Replay(p, <<>>) = p /\ Replay(Still, <<>>) = Still
    BY <2>1, ReplayTyped, StillPosition, Zenon
  <2>3. QED
    BY <2>1, <2>2, PlusRight, Zenon
<1>2. ASSUME NEW h \in Seq(S), NEW e \in S, h \in T PROVE Append(h, e) \in T
  <2>1. /\ Replay(p, Append(h, e)) = Plus(Replay(p, h), e.delta)
        /\ Replay(Still, Append(h, e)) = Plus(Replay(Still, h), e.delta)
    BY ReplayAppend, StillPosition, Zenon
  <2>2. Replay(Still, h) \in Position /\ e.delta \in Position
    BY ReplayTyped, StillPosition, Zenon DEF Moving
  <2>3. Plus(Plus(p, Replay(Still, h)), e.delta) = Plus(p, Plus(Replay(Still, h), e.delta))
    BY <2>2, PlusRight, Zenon
  <2>4. Replay(p, h) = Plus(p, Replay(Still, h))
    BY <1>2
  <2>5. Append(h, e) \in Seq(S)
    OBVIOUS
  <2>6. QED
    BY <2>1, <2>3, <2>4, <2>5, Zenon
<1> HIDE DEF T
<1>3. \A h \in Seq(S) : h \in T
  BY <1>1, <1>2, SequenceInduction, Zenon
<1>4. Kept(s, t) \in Seq(S)
  BY KeptTyped, Zenon
<1>5. QED
  BY <1>3, <1>4, Zenon DEF T, Displacement

\* Of a part that is later still, only that part counts.
LEMMA DisplacementOfKept ==
    ASSUME NEW S, Moving(S), NEW s \in Seq(S), NEW t \in Int, NEW u \in Int, t <= u
    PROVE  Displacement(Kept(s, t), u) = Displacement(s, u)
<1> DEFINE T == {h \in Seq(S) : Displacement(Kept(h, t), u) = Displacement(h, u)}
<1>1. <<>> \in T
  <2>1. <<>> \in Seq(S) /\ Kept(<<>>, t) = <<>>
    BY KeptTyped
  <2>2. QED
    BY <2>1
<1>2. ASSUME NEW h \in Seq(S), NEW e \in S, h \in T PROVE Append(h, e) \in T
  <2>1. /\ Append(h, e) \in Seq(S) /\ Kept(h, t) \in Seq(S)
        /\ Kept(Append(h, e), t) = Keep(Kept(h, t), e, t)
    BY KeptTyped, KeptAppend
  <2>2. e.tick \in Int /\ Displacement(Kept(h, t), u) = Displacement(h, u)
    BY <1>2 DEF Moving
  <2>3. /\ Displacement(Append(h, e), u) =
               IF e.tick > u THEN Plus(Displacement(h, u), e.delta) ELSE Displacement(h, u)
        /\ Displacement(Append(Kept(h, t), e), u) =
               IF e.tick > u THEN Plus(Displacement(h, u), e.delta) ELSE Displacement(h, u)
    BY <2>1, <2>2, DisplacementAppend, Zenon
  <2>4. e.tick > u => e.tick > t
    BY <2>2
  <2>5. Displacement(Kept(Append(h, e), t), u) = Displacement(Append(h, e), u)
    <3>1. CASE e.tick > t
      BY <2>1, <2>2, <2>3, <3>1 DEF Keep
    <3>2. CASE ~(e.tick > t)
      BY <2>1, <2>2, <2>3, <2>4, <3>2 DEF Keep
    <3>3. QED
      BY <3>1, <3>2
  <2>6. QED
    BY <2>1, <2>5
<1> HIDE DEF T
<1>3. \A h \in Seq(S) : h \in T
  BY <1>1, <1>2, SequenceInduction, Zenon
<1>4. QED
  BY <1>3, Zenon DEF T

\* Which elements count is all that matters of the tick.
LEMMA DisplacementSame ==
    ASSUME NEW S, Moving(S), NEW s \in Seq(S), NEW t, NEW u,
           \A i \in 1..Len(s) : s[i].tick > t <=> s[i].tick > u
    PROVE  Displacement(s, t) = Displacement(s, u)
<1> DEFINE Same(h) == \A i \in 1..Len(h) : h[i].tick > t <=> h[i].tick > u
           T == {h \in Seq(S) : Same(h) => Displacement(h, t) = Displacement(h, u)}
<1>1. <<>> \in T
  <2>1. <<>> \in Seq(S)
    OBVIOUS
  <2>2. Displacement(<<>>, t) = Displacement(<<>>, u)
    BY <2>1, DisplacementTyped, Zenon
  <2>3. QED
    BY <2>1, <2>2, Zenon
<1>2. ASSUME NEW h \in Seq(S), NEW e \in S, h \in T PROVE Append(h, e) \in T
  <2> DEFINE b == Append(h, e)
  <2>1. /\ b \in Seq(S) /\ Len(b) = Len(h) + 1 /\ Len(h) \in Nat /\ b[Len(b)] = e
        /\ \A i \in 1..Len(h) : b[i] = h[i]
    OBVIOUS
  <2>2. Same(b) => Same(h) /\ (e.tick > t <=> e.tick > u)
    <3> HIDE DEF b
    <3>1. Len(b) \in 1..Len(b) /\ \A i \in 1..Len(h) : i \in 1..Len(b)
      BY <2>1
    <3>2. QED
      BY <2>1, <3>1, Zenon
  <2>3. /\ Displacement(b, t) =
               IF e.tick > t THEN Plus(Displacement(h, t), e.delta) ELSE Displacement(h, t)
        /\ Displacement(b, u) =
               IF e.tick > u THEN Plus(Displacement(h, u), e.delta) ELSE Displacement(h, u)
    BY DisplacementAppend, Zenon
  <2>4. Same(h) => Displacement(h, t) = Displacement(h, u)
    BY <1>2
  <2> HIDE DEF b, Same
  <2>5. Same(b) => Displacement(b, t) = Displacement(b, u)
    BY <2>2, <2>3, <2>4, Zenon
  <2>6. b \in T
    BY <2>1, <2>5
  <2>7. QED
    BY <2>6 DEF b
<1>3. \A h \in Seq(S) : h \in T
  <2> HIDE DEF T
  <2>1. QED
    BY <1>1, <1>2, SequenceInduction, Zenon
<1>4. QED
  BY <1>3, Zenon

\* What is not later than t does not count.
LEMMA DisplacementNone ==
    ASSUME NEW S, Moving(S), NEW s \in Seq(S), NEW t, \A i \in 1..Len(s) : ~(s[i].tick > t)
    PROVE  Displacement(s, t) = Still
<1> DEFINE None(h) == \A i \in 1..Len(h) : ~(h[i].tick > t)
           T == {h \in Seq(S) : None(h) => Displacement(h, t) = Still}
<1>1. <<>> \in T
  <2>1. <<>> \in Seq(S)
    OBVIOUS
  <2>2. Displacement(<<>>, t) = Still
    BY <2>1, DisplacementTyped, Zenon
  <2>3. QED
    BY <2>1, <2>2, Zenon
<1>2. ASSUME NEW h \in Seq(S), NEW e \in S, h \in T PROVE Append(h, e) \in T
  <2> DEFINE b == Append(h, e)
  <2>1. /\ b \in Seq(S) /\ Len(b) = Len(h) + 1 /\ Len(h) \in Nat /\ b[Len(b)] = e
        /\ \A i \in 1..Len(h) : b[i] = h[i]
    OBVIOUS
  <2>2. None(b) => None(h) /\ ~(e.tick > t)
    <3> HIDE DEF b
    <3>1. Len(b) \in 1..Len(b) /\ \A i \in 1..Len(h) : i \in 1..Len(b)
      BY <2>1
    <3>2. QED
      BY <2>1, <3>1, Zenon
  <2>3. Displacement(b, t) =
               IF e.tick > t THEN Plus(Displacement(h, t), e.delta) ELSE Displacement(h, t)
    BY DisplacementAppend, Zenon
  <2>4. None(h) => Displacement(h, t) = Still
    BY <1>2
  <2> HIDE DEF b, None
  <2>5. None(b) => Displacement(b, t) = Still
    BY <2>2, <2>3, <2>4, Zenon
  <2>6. b \in T
    BY <2>1, <2>5
  <2>7. QED
    BY <2>6 DEF b
<1>3. \A h \in Seq(S) : h \in T
  <2> HIDE DEF T
  <2>1. QED
    BY <1>1, <1>2, SequenceInduction, Zenon
<1>4. QED
  BY <1>3, Zenon

\* The first element counts first.
LEMMA DisplacementTail ==
    ASSUME NEW S, Moving(S), NEW s \in Seq(S), s # <<>>, NEW t
    PROVE  Displacement(s, t) = IF Head(s).tick > t
                                THEN Plus(Head(s).delta, Displacement(Tail(s), t))
                                ELSE Displacement(Tail(s), t)
<1> DEFINE D(h) == Displacement(h, t)
           First(h) == D(h) = IF Head(h).tick > t THEN Plus(Head(h).delta, D(Tail(h))) ELSE D(Tail(h))
           T == {h \in Seq(S) : h # <<>> => First(h)}
<1> HIDE DEF D
<1>1. <<>> \in T
  OBVIOUS
<1>2. ASSUME NEW h \in Seq(S), NEW e \in S, h \in T PROVE Append(h, e) \in T
  <2> DEFINE b == Append(h, e)
  <2>1. b \in Seq(S) /\ D(b) = IF e.tick > t THEN Plus(D(h), e.delta) ELSE D(h)
    BY DisplacementAppend DEF D
  <2>2. CASE h = <<>>
    <3>1. Head(b) = e /\ Tail(b) = <<>> /\ b # <<>>
      BY <2>2
    <3>2. D(h) = Still /\ D(Tail(b)) = Still
      BY <2>2, <3>1, DisplacementTyped, Zenon DEF D
    <3>3. Plus(Still, e.delta) = Plus(e.delta, Still)
      BY PlusRight, StillPosition DEF Moving
    <3> HIDE DEF b
    <3>4. First(b)
      BY <2>1, <3>1, <3>2, <3>3, Zenon
    <3> HIDE DEF First
    <3>5. b \in T
      BY <2>1, <3>4
    <3>6. QED
      BY <3>5 DEF b
  <2>3. CASE h # <<>>
    <3>1. /\ Head(b) = Head(h) /\ Tail(b) = Append(Tail(h), e) /\ Tail(h) \in Seq(S)
          /\ Head(h) \in S
      BY <2>3
    <3>2. First(h)
      BY <1>2, <2>3
    <3>3. D(Tail(b)) = IF e.tick > t THEN Plus(D(Tail(h)), e.delta) ELSE D(Tail(h))
      <4>1. D(Append(Tail(h), e)) =
                IF e.tick > t THEN Plus(D(Tail(h)), e.delta) ELSE D(Tail(h))
        BY <3>1, DisplacementAppend, Zenon DEF D
      <4> HIDE DEF b
      <4>2. QED
        BY <3>1, <4>1, Zenon
    <3>4. D(Tail(h)) \in Position /\ e.delta \in Position /\ Head(h).delta \in Position
      BY <3>1, DisplacementTyped DEF D, Moving
    <3>5. Plus(Plus(Head(h).delta, D(Tail(h))), e.delta) = Plus(Head(h).delta, Plus(D(Tail(h)), e.delta))
      BY <3>4, PlusRight, Zenon
    <3> HIDE DEF b
    <3>6. First(b)
      BY <2>1, <3>1, <3>2, <3>3, <3>5, Zenon
    <3> HIDE DEF First
    <3>7. b \in T
      BY <2>1, <3>6
    <3>8. QED
      BY <3>7 DEF b
  <2>4. QED
    BY <2>2, <2>3
<1>3. \A h \in Seq(S) : h \in T
  <2> HIDE DEF T
  <2>1. QED
    BY <1>1, <1>2, SequenceInduction, Zenon
<1>4. First(s)
  BY <1>3
<1>5. QED
  BY <1>4 DEF D

-----------------------------------------------------------------------------
(* Types. *)

\* The bot walks from the settle delay on, and a loop whose action is still to be started flies.
ScenarioInv ==
    /\ tpc = "settle" => scenario = "walk"
    /\ control = "none" /\ tpc # "settle" => scenario = "fly"

TypeInv == TypeOK /\ ScenarioInv

LEMMA StepTypes ==
    /\ Still \in Delta /\ Ahead \in Delta /\ Delta \subseteq Position
    /\ Moving(Prediction) /\ Moving(Frame) /\ NoFrame \in Frame
<1>1. ClimbStep \in Nat \ {0} /\ MaxTick \in Nat /\ Placeholder \in Position
  BY AltitudeAssumption, CounterAssumption, PlacesAssumption
<1>2. Still \in Delta /\ Ahead \in Delta /\ Delta \subseteq Position
  BY <1>1 DEF Still, Ahead, Delta, Position
<1>3. Moving(Prediction) /\ Moving(Frame)
  BY <1>1, <1>2 DEF Moving, Prediction, Frame
<1>4. NoFrame \in Frame
  BY <1>1, <1>2 DEF NoFrame, Frame
<1>5. QED
  BY <1>2, <1>3, <1>4

LEMMA TypeInit == Init => TypeInv
<1> SUFFICES ASSUME Init PROVE TypeInv
  OBVIOUS
<1>1. /\ MaxTick \in Nat /\ MaxEvents \in Nat /\ MaxAltitude \in Nat /\ HistoryLimit \in Nat \ {0}
      /\ RetryTicks \in Nat /\ RetryTicks > 1 /\ Placeholder \in Position /\ Places \subseteq Position
      /\ Scenarios \subseteq {"walk", "fly"}
  BY AltitudeAssumption, CounterAssumption, PlacesAssumption, ScenariosAssumption
<1>2. {pos, seen, srvPos} \subseteq Position
  BY <1>1 DEF Init
<1>3. ready \in BOOLEAN
  BY DEF Init, Valid
<1>4. frame \in Frame
  BY StepTypes DEF Init
<1>5. history \in Seq(Prediction) /\ toServer \in Seq(Frame) /\ toBot \in Seq(Packet)
      /\ probes \in Seq(0..MaxTick) /\ Len(history) <= HistoryLimit
  BY <1>1 DEF Init
<1>6. tpc \in {"settle", "first"} /\ scenario \in Scenarios /\ ScenarioInv
  BY <1>1 DEF Init, ScenarioInv
<1>7. /\ nextTick \in 0..MaxTick + 1 /\ tick \in 0..MaxTick /\ targetY \in 0..MaxAltitude
      /\ elapsed \in 0..RetryTicks - 1 /\ owed \in -1..MaxTick
      /\ srvTick \in 0..MaxTick /\ events \in 0..MaxEvents
      /\ requests \in Nat /\ starts \in Nat
  BY <1>1 DEF Init
<1>8. QED
  BY <1>2, <1>3, <1>4, <1>5, <1>6, <1>7 DEF Init, TypeInv, TypeOK

\* One tick of flight stays within the step.
LEMMA NextDeltaTyped ==
    ASSUME pos \in Position, targetY \in Int
    PROVE  NextDelta \in Delta
<1>1. ClimbStep \in Nat \ {0}
  BY AltitudeAssumption
<1>2. pos.y \in Int
  BY DEF Position
<1>3. FlightDelta \in Delta
  <2> DEFINE climb == IF targetY > pos.y THEN Smaller(ClimbStep, targetY - pos.y)
                                         ELSE -Smaller(ClimbStep, pos.y - targetY)
  <2>1. targetY # pos.y => climb \in -ClimbStep..ClimbStep
    BY <1>1, <1>2 DEF Smaller
  <2>2. FlightDelta = IF targetY = pos.y THEN Ahead ELSE [x |-> 0, y |-> climb]
    BY DEF FlightDelta
  <2> HIDE DEF climb
  <2>3. QED
    BY <2>1, <2>2, StepTypes DEF Delta
<1>4. QED
  BY <1>3, StepTypes DEF NextDelta

LEMMA ClampTyped ==
    ASSUME NEW y \in Int
    PROVE  Clamp(y) \in MinAltitude..MaxAltitude /\ MinAltitude \in MinAltitude..MaxAltitude
  BY AltitudeAssumption DEF Clamp, Smaller

LEMMA TypeSnapshot == TypeInv /\ InputSnapshot => TypeInv'
<1> SUFFICES ASSUME TypeInv, InputSnapshot PROVE TypeInv'
  OBVIOUS
<1>1. pos \in Position /\ targetY \in Int /\ tick \in 0..MaxTick
      /\ teleport \in BOOLEAN /\ startPending \in BOOLEAN /\ probeSent \in BOOLEAN
  BY DEF TypeInv, TypeOK
<1>2. NextDelta \in Delta /\ NextDelta \in Position /\ Still \in Position
  BY <1>1, NextDeltaTyped, StepTypes
<1>3. Probing \in BOOLEAN
  BY DEF Probing
<1>4. frame' \in Frame
  BY <1>1, <1>2, <1>3, PlusTyped DEF InputSnapshot, Frame
<1>5. Committed(frame') \in Position
  BY <1>4, StepTypes DEF Committed, Frame
<1>6. pos' \in Position
  BY <1>1, <1>5, PlusTyped DEF InputSnapshot
<1>7. probeSent' \in BOOLEAN
  BY <1>1, <1>3 DEF InputSnapshot
<1>8. ScenarioInv'
  BY DEF InputSnapshot, TypeInv, ScenarioInv
<1>9. QED
  BY <1>4, <1>6, <1>7, <1>8 DEF InputSnapshot, TypeInv, TypeOK, serverVars, ghostVars

\* The newest predictions are as many as the limit allows.
LEMMA NewestTyped ==
    ASSUME NEW S, NEW h \in Seq(S)
    PROVE  Newest(h) \in Seq(S) /\ Len(Newest(h)) <= HistoryLimit
  BY CounterAssumption DEF Newest

LEMMA TypeRecord == TypeInv /\ RecordAndWrite => TypeInv'
<1> SUFFICES ASSUME TypeInv, RecordAndWrite PROVE TypeInv'
  OBVIOUS
<1>1. frame \in Frame /\ history \in Seq(Prediction) /\ toServer \in Seq(Frame)
      /\ starts \in Nat /\ probes \in Seq(0..MaxTick)
  BY DEF TypeInv, TypeOK
<1>2. Committed(frame) \in Delta /\ frame.tick \in 0..MaxTick
  BY <1>1, StepTypes DEF Committed, Frame
<1>3. [tick |-> frame.tick, delta |-> Committed(frame)] \in Prediction
  BY <1>2 DEF Prediction
<1>4. Append(history, [tick |-> frame.tick, delta |-> Committed(frame)]) \in Seq(Prediction)
  BY <1>1, <1>3
<1>5. history' \in Seq(Prediction) /\ Len(history') <= HistoryLimit
  BY <1>4, NewestTyped DEF RecordAndWrite
<1>6. toServer' \in Seq(Frame)
  BY <1>1 DEF RecordAndWrite
<1>7. starts' \in Nat /\ probes' \in Seq(0..MaxTick)
  <2>1. starts' \in Nat
    BY <1>1 DEF RecordAndWrite
  <2>2. Append(probes, frame.tick) \in Seq(0..MaxTick)
    BY <1>1, <1>2
  <2>3. probes' = Append(probes, frame.tick) \/ probes' = probes
    BY DEF RecordAndWrite
  <2>4. QED
    BY <1>1, <2>1, <2>2, <2>3
<1>8. ScenarioInv' /\ tpc' \in {"readPos", "ticker"}
  BY DEF RecordAndWrite, TypeInv, ScenarioInv
<1>9. QED
  BY <1>5, <1>6, <1>7, <1>8 DEF RecordAndWrite, TypeInv, TypeOK, serverVars

LEMMA TypeTick == TypeInv /\ FlightInv /\ TickLoop => TypeInv'
<1> SUFFICES ASSUME TypeInv, FlightInv, TickLoop PROVE TypeInv'
  OBVIOUS
<1>0. /\ MaxTick \in Nat /\ MaxAltitude \in Nat /\ MinAltitude \in Nat /\ AltitudeGain \in Nat
      /\ RetryTicks \in Nat /\ RetryTicks > 1
  BY AltitudeAssumption, CounterAssumption
<1>1. CASE StartWalk
  BY <1>1 DEF StartWalk, TypeInv, TypeOK, ScenarioInv, serverVars, ghostVars
<1>2. CASE NextInputTick
  <2>1. tick' \in 0..MaxTick /\ nextTick' \in 0..MaxTick + 1
    <3>1. nextTick \in 0..MaxTick + 1 /\ nextTick <= MaxTick
      BY <1>2 DEF NextInputTick, TypeInv, TypeOK
    <3>2. tick' = nextTick /\ nextTick' = nextTick + 1
      BY <1>2 DEF NextInputTick
    <3>3. QED
      BY <1>0, <3>1, <3>2
  <2>2. QED
    BY <1>2, <2>1 DEF NextInputTick, TypeInv, TypeOK, ScenarioInv, serverVars, ghostVars
<1>3. CASE ActionTick
  <2>1. elapsed' \in 0..RetryTicks - 1
    BY <1>0, <1>3, SMTT(30) DEF ActionTick, TypeInv, TypeOK
  <2>2. tpc' \in {"retry", "snap"}
    BY <1>3 DEF ActionTick
  <2>3. QED
    BY <1>3, <2>1, <2>2 DEF ActionTick, TypeInv, TypeOK, ScenarioInv, playerVars, serverVars,
                            ghostVars
<1>4. CASE RequestFlight
  BY <1>4 DEF RequestFlight, Queued, TypeInv, TypeOK, ScenarioInv, serverVars
<1>5. CASE ReadPosition
  BY <1>5 DEF ReadPosition, TypeInv, TypeOK, ScenarioInv, playerVars, serverVars, ghostVars
<1>6. CASE ReadReady
  <2>1. seen.y + AltitudeGain \in Int
    BY <1>0 DEF TypeInv, TypeOK, Position
  <2>2. targetY' \in 0..MaxAltitude
    BY <1>0, <1>6, <2>1, ClampTyped DEF ReadReady
  <2>3. QED
    BY <1>6, <2>2 DEF ReadReady, TypeInv, TypeOK, ScenarioInv, serverVars, ghostVars
<1>7. CASE StartFly
  <2>1. scenario = "fly"
    BY <1>7 DEF StartFly, FlightInv, Unstarted, TypeInv, ScenarioInv
  <2>2. QED
    BY <1>7, <2>1 DEF StartFly, TypeInv, TypeOK, ScenarioInv, serverVars, ghostVars
<1>8. QED
  BY <1>1, <1>2, <1>3, <1>4, <1>5, <1>6, <1>7, TypeSnapshot, TypeRecord DEF TickLoop

\* What the head of a channel is.
LEMMA PacketTyped ==
    ASSUME toBot \in Seq(Packet), toBot # <<>>
    PROVE  LET p == Head(toBot) IN
           /\ Tail(toBot) \in Seq(Packet)
           /\ p.kind \in {"correct", "move"} => p.pos \in Position
           /\ p.kind = "publisher" => p.block \in Position
           /\ p.kind \in {"correct", "move", "sync"} => p.tick \in 0..MaxTick
           /\ p.kind = "move" => p.teleport \in BOOLEAN
           /\ p.kind = "abilities" => p.flying \in BOOLEAN
<1>1. Head(toBot) \in Packet /\ Tail(toBot) \in Seq(Packet)
  OBVIOUS
<1>2. QED
  BY <1>1 DEF Packet

\* Blocks and the positions taken for them.
LEMMA BlockTyped ==
    ASSUME NEW p \in Position
    PROVE  BlockOf(p) \in Position /\ PublisherEye(p) \in Position
<1>1. /\ p.x \in Int /\ p.y \in Int /\ BlockSize \in Nat \ {0} /\ EyeOffset \in Int
      /\ BlockSize \div 2 \in Int
  BY BlockAssumption DEF Position
<1>2. /\ p.x \div BlockSize \in Int /\ p.y \div BlockSize \in Int
      /\ p.x * BlockSize + BlockSize \div 2 \in Int /\ p.y * BlockSize + EyeOffset \in Int
  BY <1>1
<1>3. QED
  BY <1>2 DEF BlockOf, PublisherEye, Position

\* A correction keeps some of the predictions.
LEMMA KeptShorter ==
    ASSUME NEW S, NEW s \in Seq(S), NEW t
    PROVE  Len(Kept(s, t)) <= Len(s)
<1> DEFINE T == {h \in Seq(S) : Len(Kept(h, t)) <= Len(h)}
<1>1. <<>> \in T
  <2>1. <<>> \in Seq(S) /\ Kept(<<>>, t) = <<>>
    BY KeptTyped
  <2>2. QED
    BY <2>1
<1>2. ASSUME NEW h \in Seq(S), NEW e \in S, h \in T PROVE Append(h, e) \in T
  <2>1. /\ Kept(Append(h, e), t) = Keep(Kept(h, t), e, t) /\ Kept(h, t) \in Seq(S)
        /\ Len(Kept(h, t)) <= Len(h)
    BY <1>2, KeptTyped, KeptAppend
  <2>2. Len(Keep(Kept(h, t), e, t)) <= Len(Kept(h, t)) + 1
    BY <2>1 DEF Keep
  <2>3. Keep(Kept(h, t), e, t) \in Seq(S)
    BY <2>1 DEF Keep
  <2>4. Append(h, e) \in Seq(S) /\ Len(Append(h, e)) = Len(h) + 1 /\ Len(h) \in Nat
    OBVIOUS
  <2>5. Len(Kept(Append(h, e), t)) <= Len(Append(h, e))
    BY <2>1, <2>2, <2>3, <2>4
  <2>6. QED
    BY <2>4, <2>5
<1>3. \A h \in Seq(S) : h \in T
  <2> HIDE DEF T
  <2>1. QED
    BY <1>1, <1>2, SequenceInduction, Zenon
<1>4. QED
  BY <1>3

LEMMA TypeRead == TypeInv /\ Reader => TypeInv'
<1> SUFFICES ASSUME TypeInv, Reader PROVE TypeInv'
  OBVIOUS
<1>0. MaxTick \in Nat /\ HistoryLimit \in Nat
  BY CounterAssumption
<1>1. ScenarioInv'
  BY DEF Reader, CorrectPrediction, Update, SyncOnly, SyncServerTick, AcceptPublisherPosition,
         SetFlyingConfirmed, TypeInv, ScenarioInv, playerVars, tickVars
<1>2. CASE CorrectPrediction
  <2> DEFINE p == Head(toBot)
  <2>1. /\ toBot # <<>> /\ toBot' = Tail(toBot) /\ p.kind = "correct"
        /\ history' = Kept(history, p.tick) /\ pos' = Replay(p.pos, history')
        /\ ready' = (ready \/ Valid(p.pos)) /\ owed' = p.tick
        /\ missed' = (missed \/ Missing(p.tick))
    BY <1>2 DEF CorrectPrediction, Receives
  <2>2. toBot' \in Seq(Packet) /\ p.pos \in Position /\ p.tick \in 0..MaxTick
    BY <2>1, PacketTyped DEF TypeInv, TypeOK
  <2>3. history \in Seq(Prediction) /\ Len(history) <= HistoryLimit
    BY DEF TypeInv, TypeOK
  <2> HIDE DEF p
  <2>4. history' \in Seq(Prediction) /\ Len(history') <= Len(history)
    BY <2>1, <2>3, KeptTyped, KeptShorter
  <2>5. Len(history') <= HistoryLimit
    BY <1>0, <2>3, <2>4
  <2>6. pos' \in Position
    BY <2>1, <2>2, <2>4, StepTypes, ReplayTyped
  <2>7. ready' \in BOOLEAN /\ missed' \in BOOLEAN
    BY <2>1 DEF TypeInv, TypeOK, Valid, Missing
  <2>8. owed' \in -1..MaxTick
    BY <1>0, <2>1, <2>2
  <2>9. QED
    BY <1>1, <1>2, <2>2, <2>4, <2>5, <2>6, <2>7, <2>8
    DEF CorrectPrediction, TypeInv, TypeOK, tickVars, serverVars
<1>3. CASE Update
  <2> DEFINE p == Head(toBot)
  <2>1. /\ toBot # <<>> /\ toBot' = Tail(toBot) /\ p.kind = "move" /\ pos' = p.pos
        /\ ready' = (ready \/ Valid(p.pos)) /\ teleport' = (teleport \/ p.teleport)
        /\ owed' = p.tick /\ displaced' = (displaced \/ ~p.teleport)
    BY <1>3 DEF Update, Receives, KeepsTeleport
  <2>2. /\ toBot' \in Seq(Packet) /\ p.pos \in Position /\ p.tick \in 0..MaxTick
        /\ p.teleport \in BOOLEAN
    BY <2>1, PacketTyped DEF TypeInv, TypeOK
  <2> HIDE DEF p
  <2>3. ready' \in BOOLEAN /\ teleport' \in BOOLEAN /\ displaced' \in BOOLEAN
    BY <2>1, <2>2 DEF TypeInv, TypeOK, Valid
  <2>4. owed' \in -1..MaxTick /\ pos' \in Position
    BY <1>0, <2>1, <2>2
  <2>5. QED
    BY <1>1, <1>3, <2>2, <2>3, <2>4 DEF Update, TypeInv, TypeOK, tickVars, serverVars
<1>4. CASE SyncOnly
  <2>1. /\ toBot # <<>> /\ toBot' = Tail(toBot) /\ Head(toBot).kind = "sync"
        /\ owed' = Head(toBot).tick
    BY <1>4 DEF SyncOnly, Receives
  <2>2. toBot' \in Seq(Packet) /\ Head(toBot).tick \in 0..MaxTick
    BY <2>1, PacketTyped DEF TypeInv, TypeOK
  <2>3. owed' \in -1..MaxTick
    BY <1>0, <2>1, <2>2
  <2>4. QED
    BY <1>1, <1>4, <2>2, <2>3 DEF SyncOnly, TypeInv, TypeOK, playerVars, tickVars, serverVars, ghostVars
<1>5. CASE SyncServerTick
  <2>1. owed \in 0..MaxTick /\ owed' \in -1..MaxTick
    BY <1>0, <1>5 DEF SyncServerTick, TypeInv, TypeOK
  <2>2. nextTick \in 0..MaxTick + 1
    BY DEF TypeInv, TypeOK
  <2>3. nextTick' = owed + 1 \/ nextTick' = nextTick
    BY <1>5 DEF SyncServerTick
  <2>4. nextTick' \in 0..MaxTick + 1
    BY <1>0, <2>1, <2>2, <2>3
  <2>5. synced' \in BOOLEAN /\ rewound' \in BOOLEAN
    BY <1>5 DEF SyncServerTick, TypeInv, TypeOK
  <2>6. QED
    BY <1>1, <1>5, <2>1, <2>4, <2>5 DEF SyncServerTick, TypeInv, TypeOK, tickVars, serverVars
<1>6. CASE AcceptPublisherPosition
  <2>1. toBot' \in Seq(Packet) /\ Head(toBot).block \in Position
    BY <1>6, PacketTyped DEF AcceptPublisherPosition, Receives, TypeInv, TypeOK
  <2>2. /\ pos' \in Position /\ ready' \in BOOLEAN
        /\ seed' \in {"none", "unseen", "seen", "unheard"}
    BY <1>6, <2>1, BlockTyped DEF AcceptPublisherPosition, TypeInv, TypeOK
  <2>3. QED
    BY <1>1, <1>6, <2>1, <2>2 DEF AcceptPublisherPosition, TypeInv, TypeOK, tickVars, serverVars,
                                  ghostVars
<1>7. CASE SetFlyingConfirmed
  <2>1. toBot' \in Seq(Packet) /\ Head(toBot).flying \in BOOLEAN
    BY <1>7, PacketTyped DEF SetFlyingConfirmed, Receives, TypeInv, TypeOK
  <2>2. flying' \in BOOLEAN
    BY <1>7, <2>1 DEF SetFlyingConfirmed, TypeInv, TypeOK
  <2>3. QED
    BY <1>1, <1>7, <2>1, <2>2 DEF SetFlyingConfirmed, TypeInv, TypeOK, tickVars, serverVars,
                                  ghostVars
<1>8. QED
  BY <1>2, <1>3, <1>4, <1>5, <1>6, <1>7 DEF Reader

\* Packets as the server sends them.
LEMMA SentTyped ==
    ASSUME TypeInv, NEW packet \in Packet, Sends(packet)
    PROVE  toBot' \in Seq(Packet)
  BY DEF Sends, TypeInv, TypeOK

LEMMA TypeServe == TypeInv /\ Server => TypeInv'
<1> SUFFICES ASSUME TypeInv, Server PROVE TypeInv'
  OBVIOUS
<1>0. MaxTick \in Nat /\ MaxEvents \in Nat /\ Places \subseteq Position
  BY CounterAssumption, PlacesAssumption
<1>1. ScenarioInv'
  BY DEF Server, IgnoreFrame, ProcessFrame, MoveBot, SendPublisher, SendAbilities, SendSync,
         TypeInv, ScenarioInv, playerVars, tickVars
<1>2. ASSUME Takes
      PROVE  toServer' \in Seq(Frame) /\ Head(toServer) \in Frame /\ srvTick' \in 0..MaxTick
  <2>1. toServer \in Seq(Frame) /\ toServer # <<>> /\ toServer' = Tail(toServer)
        /\ srvTick' = Head(toServer).tick
    BY <1>2 DEF Takes, TypeInv, TypeOK
  <2>2. Head(toServer) \in Frame /\ toServer' \in Seq(Frame)
    BY <2>1
  <2>3. QED
    BY <2>1, <2>2 DEF Frame
<1>3. Acts => events' \in 0..MaxEvents
  BY <1>0 DEF Acts, TypeInv, TypeOK
<1>4. srvPos \in Position /\ srvTick \in 0..MaxTick /\ toBot \in Seq(Packet)
      /\ srvAwaitsAck \in BOOLEAN /\ events \in 0..MaxEvents
  BY DEF TypeInv, TypeOK
<1>5. CASE IgnoreFrame
  <2>1. toServer' \in Seq(Frame) /\ srvTick' \in 0..MaxTick
    BY <1>2, <1>5 DEF IgnoreFrame
  <2>2. QED
    BY <1>1, <1>5, <2>1 DEF IgnoreFrame, TypeInv, TypeOK, playerVars, tickVars, ghostVars
<1>6. CASE ProcessFrame
  <2> DEFINE f == Head(toServer)
             correction == [kind |-> "correct", pos |-> srvPos', tick |-> f.tick]
  <2>1. toServer' \in Seq(Frame) /\ f \in Frame /\ srvTick' \in 0..MaxTick
    BY <1>2, <1>6 DEF ProcessFrame
  <2>2. f.delta \in Position /\ f.tick \in 0..MaxTick
    BY <2>1, StepTypes DEF Frame
  <2>3. srvPos' \in Position
    BY <1>4, <1>6, <2>2, PlusTyped DEF ProcessFrame
  <2>4. correction \in Packet
    BY <2>2, <2>3 DEF Packet
  <2>5. toBot' \in Seq(Packet)
    BY <1>4, <1>6, <2>4, SentTyped DEF ProcessFrame
  <2>6. /\ events' \in 0..MaxEvents /\ srvAwaitsAck' \in BOOLEAN
        /\ seed' \in {"none", "unseen", "seen", "unheard"}
    BY <1>3, <1>4, <1>6 DEF ProcessFrame, Follows, TypeInv, TypeOK
  <2>7. QED
    BY <1>1, <1>6, <2>1, <2>3, <2>5, <2>6
    DEF ProcessFrame, TypeInv, TypeOK, playerVars, tickVars, ghostVars
<1>7. CASE MoveBot
  <2>1. PICK p \in Places, asked \in {FALSE, ~srvAwaitsAck} :
            /\ srvPos' = p /\ srvAwaitsAck' = (srvAwaitsAck \/ asked)
            /\ Sends([kind |-> "move", pos |-> p, teleport |-> asked, tick |-> srvTick])
    BY <1>7 DEF MoveBot
  <2>2. asked \in BOOLEAN /\ p \in Position
    BY <1>0, <1>4
  <2>3. [kind |-> "move", pos |-> p, teleport |-> asked, tick |-> srvTick] \in Packet
    BY <1>4, <2>2 DEF Packet
  <2>4. toBot' \in Seq(Packet)
    BY <2>1, <2>3, SentTyped
  <2>5. srvPos' \in Position /\ srvAwaitsAck' \in BOOLEAN /\ events' \in 0..MaxEvents
    BY <1>3, <1>4, <1>7, <2>1, <2>2 DEF MoveBot
  <2>6. QED
    BY <1>1, <1>7, <2>4, <2>5 DEF MoveBot, TypeInv, TypeOK, playerVars, tickVars, ghostVars
<1>8. CASE SendPublisher
  <2>1. [kind |-> "publisher", block |-> BlockOf(srvPos)] \in Packet
    BY <1>4, BlockTyped DEF Packet
  <2>2. toBot' \in Seq(Packet) /\ events' \in 0..MaxEvents
    BY <1>3, <1>8, <2>1, SentTyped DEF SendPublisher
  <2>3. QED
    BY <1>1, <1>8, <2>2 DEF SendPublisher, TypeInv, TypeOK, playerVars, tickVars, ghostVars
<1>9. CASE SendAbilities
  <2>1. \A on \in BOOLEAN : [kind |-> "abilities", flying |-> on] \in Packet
    BY DEF Packet
  <2>2. toBot' \in Seq(Packet) /\ events' \in 0..MaxEvents
    BY <1>3, <1>9, <2>1, SentTyped DEF SendAbilities
  <2>3. QED
    BY <1>1, <1>9, <2>2 DEF SendAbilities, TypeInv, TypeOK, playerVars, tickVars, ghostVars
<1>10. CASE SendSync
  <2>1. [kind |-> "sync", tick |-> srvTick] \in Packet
    BY <1>4 DEF Packet
  <2>2. toBot' \in Seq(Packet) /\ events' \in 0..MaxEvents
    BY <1>3, <1>10, <2>1, SentTyped DEF SendSync
  <2>3. QED
    BY <1>1, <1>10, <2>2 DEF SendSync, TypeInv, TypeOK, playerVars, tickVars, ghostVars
<1>11. QED
  BY <1>5, <1>6, <1>7, <1>8, <1>9, <1>10 DEF Server

LEMMA TypeStep == TypeInv /\ FlightInv /\ [Next]_vars => TypeInv'
<1> SUFFICES ASSUME TypeInv, FlightInv, [Next]_vars PROVE TypeInv'
  OBVIOUS
<1>1. CASE TicksOver \/ UNCHANGED vars
  <2>1. UNCHANGED vars
    BY <1>1 DEF TicksOver
  <2>2. QED
    BY <2>1 DEF vars, playerVars, tickVars, serverVars, ghostVars, TypeInv, TypeOK, ScenarioInv
<1>2. QED
  BY <1>1, TypeTick, TypeRead, TypeServe DEF Next

\* Positions, deltas and ticks keep their types, the prediction history never outgrows
\* predictionHistoryLimit, and the target altitude stays in its range: TypeOK.
THEOREM TypeCorrect == Spec => []TypeOK
<1>1. TypeInv => TypeOK
  BY DEF TypeInv
<1>2. QED
  BY <1>1, FlightInit, FlightStep, TypeInit, TypeStep, PTL DEF Spec

\* The frame that acknowledges a teleport moves nothing, whatever the controls ask for, and is
\* no probe: AckStandsStill.
THEOREM AcksCorrect == Spec => AckStandsStill
<1>1. ASSUME TypeInv, tpc = "snap", frame'.ack, tpc' = "record", [Next]_vars
      PROVE  frame'.pos = pos /\ pos' = pos /\ ~frame'.probe
  <2>1. InputSnapshot
    BY <1>1 DEF Next, TickLoop, StartWalk, NextInputTick, ActionTick, RequestFlight, RecordAndWrite,
                ReadPosition, ReadReady, StartFly, Reader, CorrectPrediction, Update, SyncOnly,
                SyncServerTick, AcceptPublisherPosition, SetFlyingConfirmed, Server, IgnoreFrame,
                ProcessFrame, MoveBot, SendPublisher, SendAbilities, SendSync, TicksOver, vars,
                tickVars
  <2>2. teleport /\ pos \in Position
    BY <1>1, <2>1 DEF InputSnapshot, TypeInv, TypeOK
  <2>3. NextDelta = Still /\ ~Probing
    BY <2>2 DEF NextDelta, Probing, Acking
  <2>4. /\ frame'.pos = Plus(pos, Still) /\ frame'.probe = FALSE
        /\ Committed(frame') = Still /\ pos' = Plus(pos, Still)
    BY <2>1, <2>3 DEF InputSnapshot, Committed
  <2>5. QED
    BY <2>2, <2>4, PlusRight, StillPosition
<1>2. QED
  BY <1>1, FlightInit, FlightStep, TypeInit, TypeStep, PTL DEF Spec, AckStandsStill

-----------------------------------------------------------------------------
(* Without an authoritative position. *)

\* What neither climbs nor descends, and what stands still.
Level(S) == {e \in S : e.delta.y = 0}
Resting  == {e \in Prediction : e.delta = Still}

\* Until the bot is told a valid position it holds none, and its frames are level; chunk-fly
\* predicts no movement, the probe notwithstanding.
Unready ==
    ~ready =>
        /\ ~Valid(pos)
        /\ history \in Seq(Level(Prediction)) /\ toServer \in Seq(Level(Frame))
        /\ tpc = "record" => frame.delta.y = 0
        /\ scenario = "fly" =>
              history \in Seq(Resting) /\ (tpc = "record" => Committed(frame) = Still)

\* A replay of level predictions keeps the altitude; one of predictions at rest, the place.
LEMMA LevelReplay ==
    ASSUME NEW p \in Position, NEW h \in Seq(Level(Prediction))
    PROVE  Replay(p, h).y = p.y /\ (h \in Seq(Resting) => Replay(p, h) = p)
<1> DEFINE S == Level(Prediction)
           T == {s \in Seq(S) : Replay(p, s).y = p.y}
<1>1. Moving(S) /\ Moving(Resting)
  BY StepTypes DEF Moving, Level, Resting
<1>2. \A e \in S : e.delta \in Position /\ e.delta.y = 0
  BY <1>1 DEF Moving, Level
<1> HIDE DEF S
<1>3. <<>> \in T
  <2>1. <<>> \in Seq(S)
    OBVIOUS
  <2>2. Replay(p, <<>>) = p
    BY <1>1, <2>1, ReplayTyped, Zenon
  <2>3. QED
    BY <2>1, <2>2
<1>4. ASSUME NEW s \in Seq(S), NEW e \in S, s \in T PROVE Append(s, e) \in T
  <2>1. Replay(p, Append(s, e)) = Plus(Replay(p, s), e.delta)
    BY <1>1, ReplayAppend, Zenon
  <2>2. Replay(p, s) \in Position /\ Replay(p, s).y = p.y
    BY <1>1, <1>4, ReplayTyped
  <2>3. Plus(Replay(p, s), e.delta).y = p.y
    <3>1. Plus(Replay(p, s), e.delta).y = Replay(p, s).y + e.delta.y
      BY <1>2, <2>2, PlusTyped
    <3>2. p.y \in Int
      BY DEF Position
    <3>3. QED
      BY <1>2, <2>2, <3>1, <3>2
  <2>4. Append(s, e) \in Seq(S)
    OBVIOUS
  <2>5. QED
    BY <2>1, <2>3, <2>4
<1>5. \A s \in Seq(S) : s \in T
  <2> HIDE DEF T
  <2>1. QED
    BY <1>3, <1>4, SequenceInduction, Zenon
<1> DEFINE U == {s \in Seq(Resting) : Replay(p, s) = p}
<1>6. <<>> \in U
  <2>1. <<>> \in Seq(Resting)
    OBVIOUS
  <2>2. Replay(p, <<>>) = p
    BY <1>1, <2>1, ReplayTyped, Zenon
  <2>3. QED
    BY <2>1, <2>2
<1>7. ASSUME NEW s \in Seq(Resting), NEW e \in Resting, s \in U PROVE Append(s, e) \in U
  <2>1. Replay(p, Append(s, e)) = Plus(Replay(p, s), e.delta)
    BY <1>1, ReplayAppend, Zenon
  <2>2. Replay(p, s) = p /\ e.delta = Still
    BY <1>7 DEF Resting
  <2>3. Plus(p, Still) = p
    BY PlusRight, StillPosition
  <2>4. Append(s, e) \in Seq(Resting)
    OBVIOUS
  <2>5. QED
    BY <2>1, <2>2, <2>3, <2>4
<1>8. \A s \in Seq(Resting) : s \in U
  <2> HIDE DEF U
  <2>1. QED
    BY <1>6, <1>7, SequenceInduction, Zenon
<1>9. QED
  BY <1>5, <1>8 DEF S

LEMMA UnreadyInit == Init => Unready
<1> SUFFICES ASSUME Init, ~ready PROVE Unready
  BY DEF Unready
<1>1. <<>> \in Seq(Level(Prediction)) /\ <<>> \in Seq(Level(Frame)) /\ <<>> \in Seq(Resting)
  OBVIOUS
<1>2. history = <<>> /\ toServer = <<>> /\ tpc # "record" /\ ~Valid(pos)
  BY DEF Init
<1>3. QED
  BY <1>1, <1>2 DEF Unready

\* The bot walks on its level, or waits but for the probe.
LEMMA UnreadySnapshot ==
    ASSUME TypeInv, Unready, InputSnapshot
    PROVE  Unready'
<1> SUFFICES ASSUME ~ready PROVE Unready'
  BY DEF Unready, InputSnapshot
<1>1. /\ UNCHANGED <<ready, history, toServer, scenario>> /\ tpc' = "record"
      /\ frame'.delta = NextDelta /\ frame'.probe = Probing
      /\ pos' = Plus(pos, Committed(frame'))
  BY DEF InputSnapshot, serverVars
<1>2. /\ pos \in Position /\ control \in {"none", scenario} /\ scenario \in {"walk", "fly"}
  BY ScenariosAssumption DEF TypeInv, TypeOK
<1>3. /\ NextDelta \in {Still, Ahead}
      /\ scenario = "fly" /\ ~Probing => NextDelta = Still
  BY <1>2 DEF NextDelta, Probing
<1>4. Committed(frame') \in {Still, Ahead} /\ (scenario = "fly" => Committed(frame') = Still)
  BY <1>1, <1>3 DEF Committed
<1>5. /\ Still \in Position /\ Ahead \in Position /\ Still.y = 0 /\ Ahead.y = 0
      /\ \A d \in Position : Plus(pos, d).y = pos.y + d.y
      /\ pos.y \in Int
  BY <1>2, StepTypes, PlusTyped DEF Still, Ahead, Position
<1>6. pos'.y = pos.y /\ frame'.delta.y = 0
  BY <1>1, <1>3, <1>4, <1>5
<1>7. ~Valid(pos)'
  BY <1>6 DEF Unready, Valid
<1>8. QED
  BY <1>1, <1>4, <1>6, <1>7 DEF Unready

LEMMA UnreadyRecord ==
    ASSUME TypeInv, Unready, RecordAndWrite
    PROVE  Unready'
<1> SUFFICES ASSUME ~ready PROVE Unready'
  BY DEF Unready, RecordAndWrite
<1> DEFINE said == [tick |-> frame.tick, delta |-> Committed(frame)]
<1>1. /\ UNCHANGED <<ready, pos, scenario>> /\ tpc = "record" /\ tpc' # "record"
      /\ history' = Newest(Append(history, said)) /\ toServer' = Append(toServer, frame)
  BY DEF RecordAndWrite, serverVars
<1>2. /\ frame \in Level(Frame) /\ said \in Level(Prediction)
      /\ scenario = "fly" => said \in Resting
  <2>1. frame \in Frame /\ frame.delta.y = 0 /\ (scenario = "fly" => Committed(frame) = Still)
    BY <1>1 DEF Unready, TypeInv, TypeOK
  <2>2. Committed(frame) \in Delta /\ frame.tick \in 0..MaxTick /\ Still.y = 0
    BY <2>1, StepTypes DEF Committed, Frame, Still
  <2>3. Committed(frame).y = 0
    BY <2>1, <2>2 DEF Committed
  <2>4. said \in Prediction /\ said.delta = Committed(frame)
    BY <2>2 DEF Prediction
  <2>5. QED
    BY <2>1, <2>3, <2>4 DEF Level, Resting
<1> HIDE DEF said
<1>3. history \in Seq(Level(Prediction)) => history' \in Seq(Level(Prediction))
  <2> DEFINE S == Level(Prediction)
  <2>1. said \in S
    BY <1>2
  <2> HIDE DEF S
  <2>2. history \in Seq(S) => Append(history, said) \in Seq(S)
    BY <2>1
  <2>3. QED
    BY <1>1, <2>2, NewestTyped DEF S
<1>4. scenario = "fly" /\ history \in Seq(Resting) => history' \in Seq(Resting)
  <2> DEFINE S == Resting
  <2>1. scenario = "fly" => said \in S
    BY <1>2
  <2> HIDE DEF S
  <2>2. scenario = "fly" /\ history \in Seq(S) => Append(history, said) \in Seq(S)
    BY <2>1
  <2>3. QED
    BY <1>1, <2>2, NewestTyped DEF S
<1>5. toServer \in Seq(Level(Frame)) => toServer' \in Seq(Level(Frame))
  BY <1>1, <1>2
<1>6. QED
  BY <1>1, <1>3, <1>4, <1>5 DEF Unready, Valid

\* A packet with a valid position ends it; one with another leaves the bot there.
LEMMA UnreadyRead ==
    ASSUME TypeInv, Unready, Reader
    PROVE  Unready'
<1> SUFFICES ASSUME ~ready' PROVE Unready'
  BY DEF Unready
<1>0. ~ready
  <2>1. ready => ready'
    BY DEF Reader, CorrectPrediction, Update, SyncOnly, SyncServerTick, AcceptPublisherPosition,
           SetFlyingConfirmed, playerVars
  <2>2. QED
    BY <2>1
<1>1. UNCHANGED <<toServer, tpc, frame, scenario>> /\ ~ready
  <2>1. UNCHANGED <<toServer, tpc, frame, scenario>>
    BY DEF Reader, CorrectPrediction, Update, SyncOnly, SyncServerTick, AcceptPublisherPosition,
           SetFlyingConfirmed, tickVars
  <2>2. QED
    BY <1>0, <2>1
<1>2. CASE CorrectPrediction
  <2> DEFINE p == Head(toBot)
  <2>1. /\ toBot # <<>> /\ p.kind = "correct" /\ ~Valid(p.pos)
        /\ history' = Kept(history, p.tick) /\ pos' = Replay(p.pos, history')
    BY <1>2 DEF CorrectPrediction, Receives
  <2>2. p.pos \in Position
    BY <2>1, PacketTyped DEF TypeInv, TypeOK
  <2> HIDE DEF p
  <2>3. history' \in Seq(Level(Prediction)) /\ (scenario = "fly" => history' \in Seq(Resting))
    BY <1>1, <2>1, KeptTyped DEF Unready
  <2>4. pos'.y = p.pos.y
    BY <2>1, <2>2, <2>3, LevelReplay
  <2>5. ~Valid(pos)'
    BY <2>1, <2>4 DEF Valid
  <2>6. QED
    BY <1>1, <2>3, <2>5 DEF Unready, Committed
<1>3. CASE Update
  <2>1. ~Valid(pos)' /\ history' = history
    BY <1>3 DEF Update, Valid
  <2>2. QED
    BY <1>1, <2>1 DEF Unready, Committed
<1>4. CASE ~CorrectPrediction /\ ~Update
  <2>1. pos' = pos /\ history' = history
    BY <1>4 DEF Reader, SyncOnly, SyncServerTick, AcceptPublisherPosition, SetFlyingConfirmed,
                playerVars
  <2>2. QED
    BY <1>1, <2>1 DEF Unready, Committed, Valid
<1>5. QED
  BY <1>2, <1>3, <1>4

LEMMA UnreadyStep ==
    ASSUME TypeInv, Unready, [Next]_vars
    PROVE  Unready'
<1>1. ASSUME UNCHANGED <<ready, pos, history, frame, scenario>>, tpc' = "record" <=> tpc = "record",
             toServer' = toServer \/ (toServer # <<>> /\ toServer' = Tail(toServer))
      PROVE  Unready'
  <2>1. toServer \in Seq(Level(Frame)) => toServer' \in Seq(Level(Frame))
    <3> DEFINE S == Level(Frame)
    <3> HIDE DEF S
    <3>1. toServer \in Seq(S) => toServer' \in Seq(S)
      BY <1>1
    <3>2. QED
      BY <3>1 DEF S
  <2>2. QED
    BY <1>1, <2>1 DEF Unready, Committed, Valid
<1>2. CASE TickLoop
  BY <1>1, <1>2, UnreadySnapshot, UnreadyRecord
  DEF TickLoop, StartWalk, NextInputTick, ActionTick, RequestFlight, ReadPosition, ReadReady,
      StartFly, playerVars
<1>3. CASE Server
  BY <1>1, <1>3 DEF Server, IgnoreFrame, ProcessFrame, MoveBot, SendPublisher, SendAbilities,
                    SendSync, Takes, playerVars, tickVars
<1>4. CASE TicksOver \/ UNCHANGED vars
  BY <1>1, <1>4 DEF TicksOver, vars, playerVars, tickVars
<1>5. QED
  BY <1>2, <1>3, <1>4, UnreadyRead DEF Next

\* A flying bot without an authoritative position sends one probe however many answers cross
\* it, predicts no movement and holds no valid position, wherever the server puts it --
\* valid or not: ProbeIsOneShot.
THEOREM ProbeCorrect == Spec => []ProbeIsOneShot
<1>1. TypeInv /\ Counted /\ Unready => ProbeIsOneShot
  <2> SUFFICES ASSUME TypeInv, Counted, Unready, scenario = "fly"
               PROVE  /\ Len(probes) <= 1
                      /\ ~ready => ~Valid(pos) /\ \A i \in DOMAIN history : history[i].delta = Still
    BY DEF ProbeIsOneShot
  <2>1. Len(probes) <= 1
    BY DEF Counted, Sequential
  <2>2. ASSUME ~ready PROVE ~Valid(pos) /\ \A i \in DOMAIN history : history[i].delta = Still
    <3>1. ~Valid(pos) /\ history \in Seq(Resting)
      BY <2>2 DEF Unready
    <3>2. \A i \in DOMAIN history : history[i] \in Resting
      BY <3>1
    <3>3. QED
      BY <3>1, <3>2 DEF Resting
  <2>3. QED
    BY <2>1, <2>2
<1>2. Unready /\ TypeInv /\ [Next]_vars => Unready'
  BY UnreadyStep
<1>3. QED
  BY <1>1, <1>2, FlightInit, FlightStep, TypeInit, TypeStep, CountedInit, CountedStep, UnreadyInit,
     PTL DEF Spec

-----------------------------------------------------------------------------
(* The input clock goes back once. *)

\* What correctPrediction keeps is in the order it was in: the k-th kept is the f[k]-th of s.
Embeds(f, kept, s) ==
    /\ \A k \in 1..Len(kept) : f[k] \in 1..Len(s) /\ kept[k] = s[f[k]]
    /\ \A k, l \in 1..Len(kept) : k < l => f[k] < f[l]

LEMMA KeptEmbeds ==
    ASSUME NEW S, NEW s \in Seq(S), NEW t
    PROVE  \E f : Embeds(f, Kept(s, t), s)
<1> DEFINE T == {h \in Seq(S) : \E f : Embeds(f, Kept(h, t), h)}
<1>1. <<>> \in T
  <2>1. <<>> \in Seq(S) /\ Kept(<<>>, t) = <<>>
    BY KeptTyped
  <2>2. Embeds(<<>>, <<>>, <<>>)
    BY DEF Embeds
  <2>3. QED
    BY <2>1, <2>2
<1>2. ASSUME NEW h \in Seq(S), NEW e \in S, h \in T PROVE Append(h, e) \in T
  <2> DEFINE k == Kept(h, t)
             b == Append(h, e)
  <2>1. PICK f : Embeds(f, k, h)
    BY <1>2
  <2>2. /\ k \in Seq(S) /\ Kept(b, t) = Keep(k, e, t)
        /\ b \in Seq(S) /\ Len(b) = Len(h) + 1 /\ Len(h) \in Nat /\ b[Len(h) + 1] = e
        /\ \A i \in 1..Len(h) : b[i] = h[i]
    BY KeptTyped, KeptAppend
  <2> HIDE DEF k, b
  <2>3. Embeds(f, k, b)
    BY <2>1, <2>2 DEF Embeds
  <2>4. ASSUME e.tick > t PROVE \E g : Embeds(g, Kept(b, t), b)
    <3> DEFINE g == [i \in 1..Len(k) + 1 |-> IF i = Len(k) + 1 THEN Len(h) + 1 ELSE f[i]]
               a == Append(k, e)
    <3>1. /\ Len(k) \in Nat /\ Len(a) = Len(k) + 1 /\ a[Len(k) + 1] = e
          /\ \A i \in 1..Len(k) : a[i] = k[i]
      BY <2>2
    <3>2. g[Len(k) + 1] = Len(h) + 1 /\ \A i \in 1..Len(k) : g[i] = f[i]
      BY <3>1
    <3> HIDE DEF g, a
    <3>3. \A i \in 1..Len(a) : i = Len(k) + 1 \/ i \in 1..Len(k)
      BY <3>1
    <3>4. \A i \in 1..Len(a) : g[i] \in 1..Len(b) /\ a[i] = b[g[i]]
      <4>1. g[Len(k) + 1] \in 1..Len(b) /\ a[Len(k) + 1] = b[g[Len(k) + 1]]
        BY <2>2, <3>1, <3>2
      <4>2. \A i \in 1..Len(k) : f[i] \in 1..Len(h) /\ f[i] \in 1..Len(b) /\ k[i] = h[f[i]]
        BY <2>1, <2>2 DEF Embeds
      <4>3. \A i \in 1..Len(k) : g[i] \in 1..Len(b) /\ a[i] = b[g[i]]
        <5> SUFFICES ASSUME NEW i \in 1..Len(k) PROVE g[i] \in 1..Len(b) /\ a[i] = b[g[i]]
          OBVIOUS
        <5>1. g[i] = f[i] /\ a[i] = k[i] /\ f[i] \in 1..Len(h) /\ f[i] \in 1..Len(b) /\ k[i] = h[f[i]]
          BY <3>1, <3>2, <4>2
        <5>2. b[f[i]] = h[f[i]]
          BY <2>2, <5>1
        <5>3. QED
          BY <5>1, <5>2
      <4>4. QED
        BY <3>3, <4>1, <4>3
    <3>5. \A i, j \in 1..Len(a) : i < j => g[i] < g[j]
      <4> SUFFICES ASSUME NEW i \in 1..Len(a), NEW j \in 1..Len(a), i < j PROVE g[i] < g[j]
        OBVIOUS
      <4>1. i \in 1..Len(k) /\ f[i] \in 1..Len(h) /\ g[i] = f[i]
        BY <2>1, <3>1, <3>2 DEF Embeds
      <4>2. CASE j = Len(k) + 1
        BY <2>2, <3>2, <4>1, <4>2
      <4>3. CASE j \in 1..Len(k)
        BY <2>1, <3>2, <4>1, <4>3 DEF Embeds
      <4>4. QED
        BY <3>3, <4>2, <4>3
    <3>6. Kept(b, t) = a
      BY <2>2, <2>4 DEF Keep, a
    <3>7. Embeds(g, a, b)
      BY <3>4, <3>5, Zenon DEF Embeds
    <3>8. QED
      BY <3>6, <3>7, Zenon
  <2>5. ASSUME ~(e.tick > t) PROVE Kept(b, t) = k
    BY <2>2, <2>5 DEF Keep
  <2>6. \E g : Embeds(g, Kept(b, t), b)
    BY <2>3, <2>4, <2>5, Zenon
  <2>7. b \in T
    BY <2>2, <2>6
  <2>8. QED
    BY <2>7 DEF b
<1>3. \A h \in Seq(S) : h \in T
  <2> HIDE DEF T
  <2>1. QED
    BY <1>1, <1>2, SequenceInduction, Zenon
<1>4. QED
  BY <1>3

\* The ticks of h advance but between the predictions made before the clock went back and those
\* made since, whose places are R.
Runs(h, R) ==
    \A i, j \in 1..Len(h) : i < j =>
        /\ i \in R => j \in R
        /\ (i \in R <=> j \in R) => h[i].tick < h[j].tick

\* A tick is handed out and not recorded yet.
InHand == tpc \in {"act", "retry", "snap", "record"}
Edge == IF InHand THEN tick ELSE nextTick

\* Predictions since are behind the clock, and so is the tick in hand; or that tick is the last
\* of before.
Rewinding(R) ==
    /\ Runs(history, R)
    /\ \/ /\ \A i \in 1..Len(history) : i \in R => history[i].tick < Edge
          /\ InHand => tick < nextTick
          /\ ~synced => R = Nat
       \/ /\ synced /\ InHand
          /\ \A i \in 1..Len(history) : i \notin R /\ history[i].tick < tick

RewindInv ==
    /\ tpc = "record" => frame.tick = tick
    /\ \E R \in SUBSET Nat : Rewinding(R)

LEMMA RewindInit == Init => RewindInv
<1> SUFFICES ASSUME Init PROVE RewindInv
  OBVIOUS
<1>1. history = <<>> /\ tpc \in {"settle", "first"} /\ Len(<<>>) = 0
  BY DEF Init
<1>2. Rewinding(Nat) /\ Nat \in SUBSET Nat
  BY <1>1 DEF Rewinding, Runs, InHand
<1>3. QED
  BY <1>1, <1>2 DEF RewindInv

\* Steps that neither touch the history nor the clock.
LEMMA RewindAside ==
    ASSUME RewindInv, UNCHANGED <<history, nextTick, synced, tick, frame>>,
           (tpc' = tpc \/ tpc' = "snap") \/ ~InHand, InHand' <=> InHand
    PROVE  RewindInv'
<1>1. PICK R \in SUBSET Nat : Rewinding(R)
  BY DEF RewindInv
<1>2. Rewinding(R)'
  BY <1>1 DEF Rewinding, Runs, Edge
<1>3. tpc' = "record" => frame'.tick = tick'
  BY DEF RewindInv, InHand
<1>4. QED
  BY <1>2, <1>3 DEF RewindInv

\* Dropping the oldest shifts the places.
LEMMA RunsNewest ==
    ASSUME NEW S, Moving(S), NEW h \in Seq(S), NEW R \in SUBSET Nat, Runs(h, R)
    PROVE  \E Q \in SUBSET Nat :
              /\ Runs(Newest(h), Q)
              /\ \A i \in 1..Len(Newest(h)) : \E j \in 1..Len(h) :
                    Newest(h)[i] = h[j] /\ (i \in Q <=> j \in R)
              /\ R = Nat => Q = Nat
<1> DEFINE first == IF Len(h) > HistoryLimit THEN Len(h) - HistoryLimit + 1 ELSE 1
           n == Newest(h)
           Q == {i \in Nat : i + first - 1 \in R}
<1>1. HistoryLimit \in Nat \ {0} /\ Len(h) \in Nat
  BY CounterAssumption
<1>2. first \in Nat /\ first >= 1 /\ first <= Len(h) + 1
  BY <1>1
<1>3. n = SubSeq(h, first, Len(h))
  BY DEF Newest
<1> HIDE DEF first, n
<1>4. /\ Len(n) = Len(h) - first + 1
      /\ \A i \in 1..Len(n) : i + first - 1 \in 1..Len(h) /\ n[i] = h[i + first - 1]
  BY <1>1, <1>2, <1>3
<1>5. \A i \in 1..Len(n) : i \in Q <=> i + first - 1 \in R
  OBVIOUS
<1>6. R = Nat => Q = Nat
  BY <1>2
<1>7. Runs(n, Q)
  <2> HIDE DEF Q
  <2>1. SUFFICES ASSUME NEW i \in 1..Len(n), NEW j \in 1..Len(n), i < j
                 PROVE  /\ i \in Q => j \in Q
                        /\ (i \in Q <=> j \in Q) => n[i].tick < n[j].tick
    BY DEF Runs
  <2>2. i + first - 1 < j + first - 1
    <3>1. i \in Int /\ j \in Int
      OBVIOUS
    <3>2. QED
      BY <1>2, <2>1, <3>1
  <2>3. QED
    BY <1>4, <1>5, <2>2 DEF Runs
<1>8. \A i \in 1..Len(n) : \E j \in 1..Len(h) : n[i] = h[j] /\ (i \in Q <=> j \in R)
  <2> HIDE DEF Q
  <2>1. QED
    BY <1>4, <1>5
<1>9. Q \in SUBSET Nat
  OBVIOUS
<1> HIDE DEF Q
<1>10. QED
  BY <1>6, <1>7, <1>8, <1>9, Zenon DEF n

\* A recorded tick is one more of its run.
LEMMA RewindRecord == RewindInv /\ TypeInv /\ RecordAndWrite => RewindInv'
<1> SUFFICES ASSUME RewindInv, TypeInv, RecordAndWrite PROVE RewindInv'
  OBVIOUS
<1> DEFINE e == [tick |-> frame.tick, delta |-> Committed(frame)]
           h == Append(history, e)
<1>1. PICK R \in SUBSET Nat : Rewinding(R)
  BY DEF RewindInv
<1>2. /\ tpc = "record" /\ frame.tick = tick /\ history' = Newest(h)
      /\ UNCHANGED <<nextTick, synced, tick, frame>> /\ tpc' \in {"readPos", "ticker"}
      /\ InHand /\ ~InHand'
  BY DEF RecordAndWrite, RewindInv, InHand
<1>3. history \in Seq(Prediction) /\ tick \in Nat /\ nextTick \in Nat /\ frame \in Frame
  BY CounterAssumption DEF TypeInv, TypeOK
<1>4. e.tick = tick /\ e \in Prediction
  BY <1>2, <1>3, StepTypes DEF Committed, Frame, Prediction
<1> HIDE DEF e
<1>5. /\ h \in Seq(Prediction) /\ Len(history) \in Nat /\ Len(h) = Len(history) + 1
      /\ h[Len(history) + 1] = e /\ \A i \in 1..Len(history) : h[i] = history[i]
  BY <1>3, <1>4
<1> HIDE DEF h
<1>6. \A i \in 1..Len(h) : i = Len(history) + 1 \/ i \in 1..Len(history)
  BY <1>5
<1>7. ASSUME NEW Q \in SUBSET Nat, Runs(h, Q), ~synced => Q = Nat,
             \A i \in 1..Len(h) : i \in Q => h[i].tick < nextTick
      PROVE  RewindInv'
  <2>1. PICK P \in SUBSET Nat :
              /\ Runs(Newest(h), P)
              /\ \A i \in 1..Len(Newest(h)) : \E j \in 1..Len(h) :
                    Newest(h)[i] = h[j] /\ (i \in P <=> j \in Q)
              /\ Q = Nat => P = Nat
    BY <1>5, <1>7, RunsNewest, StepTypes
  <2>2. \A i \in 1..Len(Newest(h)) : i \in P => Newest(h)[i].tick < nextTick
    BY <1>7, <2>1
  <2>3. Rewinding(P)'
    BY <1>2, <1>7, <2>1, <2>2 DEF Rewinding, Edge, Runs
  <2>4. QED
    BY <1>2, <2>3 DEF RewindInv
<1>8. CASE /\ \A i \in 1..Len(history) : i \in R => history[i].tick < Edge
           /\ InHand => tick < nextTick
           /\ ~synced => R = Nat
  <2> DEFINE Q == R \cup {i \in Nat : i > Len(history)}
  <2>1. Edge = tick /\ tick < nextTick
    BY <1>2, <1>8 DEF Edge
  <2>2. /\ Q \in SUBSET Nat /\ Len(history) + 1 \in Q /\ (~synced => Q = Nat)
        /\ \A i \in 1..Len(history) : i \in Q <=> i \in R
    <3>1. Q \in SUBSET Nat /\ Len(history) + 1 \in Q
      <4>1. Len(history) + 1 \in Nat /\ Len(history) + 1 > Len(history)
        BY <1>5
      <4>2. Q \in SUBSET Nat
        OBVIOUS
      <4>3. QED
        BY <4>1, <4>2, Zenon
    <3>2. ~synced => Q = Nat
      BY <1>8
    <3>3. \A i \in 1..Len(history) : ~(i > Len(history))
      BY <1>5
    <3>4. QED
      BY <3>1, <3>2, <3>3
  <2> HIDE DEF Q
  <2>3. Runs(h, Q)
    <3> SUFFICES ASSUME NEW i \in 1..Len(h), NEW j \in 1..Len(h), i < j
                 PROVE  /\ i \in Q => j \in Q
                        /\ (i \in Q <=> j \in Q) => h[i].tick < h[j].tick
      BY DEF Runs
    <3>1. i \in 1..Len(history)
      BY <1>5
    <3>2. CASE j \in 1..Len(history)
      BY <1>1, <1>5, <2>2, <3>1, <3>2 DEF Rewinding, Runs
    <3>3. CASE j = Len(history) + 1
      BY <1>4, <1>5, <1>8, <2>1, <2>2, <3>1, <3>3
    <3>4. QED
      BY <1>6, <3>2, <3>3
  <2>4. \A i \in 1..Len(h) : i \in Q => h[i].tick < nextTick
    <3> SUFFICES ASSUME NEW i \in 1..Len(h), i \in Q PROVE h[i].tick < nextTick
      OBVIOUS
    <3>1. CASE i \in 1..Len(history)
      <4>1. history[i].tick < tick /\ history[i].tick \in Int
        BY <1>3, <1>8, <2>1, <2>2, <3>1, StepTypes DEF Moving
      <4>2. QED
        BY <1>3, <1>5, <2>1, <3>1, <4>1
    <3>2. CASE i = Len(history) + 1
      BY <1>4, <1>5, <2>1, <3>2
    <3>3. QED
      BY <1>6, <3>1, <3>2
  <2>5. QED
    BY <1>7, <2>2, <2>3, <2>4
<1>9. CASE /\ synced /\ InHand
           /\ \A i \in 1..Len(history) : i \notin R /\ history[i].tick < tick
  <2>1. Runs(h, {})
    <3> SUFFICES ASSUME NEW i \in 1..Len(h), NEW j \in 1..Len(h), i < j
                 PROVE  h[i].tick < h[j].tick
      BY DEF Runs
    <3>1. i \in 1..Len(history)
      BY <1>5
    <3>2. CASE j \in 1..Len(history)
      BY <1>1, <1>5, <1>9, <3>1, <3>2 DEF Rewinding, Runs
    <3>3. CASE j = Len(history) + 1
      BY <1>4, <1>5, <1>9, <3>1, <3>3
    <3>4. QED
      BY <1>6, <3>2, <3>3
  <2>2. {} \in SUBSET Nat
    OBVIOUS
  <2>3. QED
    BY <1>7, <1>9, <2>1, <2>2
<1>10. QED
  BY <1>1, <1>8, <1>9 DEF Rewinding

LEMMA RewindTick == RewindInv /\ TypeInv /\ TickLoop => RewindInv'
<1> SUFFICES ASSUME RewindInv, TypeInv, TickLoop PROVE RewindInv'
  OBVIOUS
<1>1. CASE StartWalk
  BY <1>1, RewindAside DEF StartWalk, InHand
<1>2. CASE NextInputTick
  <2>1. PICK R \in SUBSET Nat : Rewinding(R)
    BY DEF RewindInv
  <2>2. /\ ~InHand /\ InHand' /\ tick' = nextTick /\ nextTick' = nextTick + 1 /\ nextTick \in Nat
        /\ UNCHANGED <<history, synced>> /\ tpc' # "record"
    BY <1>2, CounterAssumption, SMTT(30) DEF NextInputTick, InHand, TypeInv, TypeOK
  <2>3. Rewinding(R)'
    BY <2>1, <2>2 DEF Rewinding, Edge, Runs
  <2>4. QED
    BY <2>2, <2>3 DEF RewindInv
<1>3. CASE ActionTick
  <2>1. tpc' \in {"retry", "snap"}
    BY <1>3 DEF ActionTick
  <2>2. QED
    <3>1. PICK R \in SUBSET Nat : Rewinding(R)
      BY DEF RewindInv
    <3>2. InHand /\ InHand' /\ UNCHANGED <<history, nextTick, synced, tick>>
      BY <1>3, <2>1 DEF ActionTick, InHand, playerVars
    <3>3. Rewinding(R)'
      BY <3>1, <3>2 DEF Rewinding, Edge, Runs
    <3>4. QED
      BY <2>1, <3>3 DEF RewindInv
<1>4. CASE RequestFlight
  BY <1>4, RewindAside DEF RequestFlight, InHand
<1>5. CASE InputSnapshot
  <2>1. PICK R \in SUBSET Nat : Rewinding(R)
    BY DEF RewindInv
  <2>2. /\ InHand /\ InHand' /\ frame'.tick = tick
        /\ UNCHANGED <<history, nextTick, synced, tick>>
    BY <1>5 DEF InputSnapshot, InHand
  <2>3. Rewinding(R)'
    BY <2>1, <2>2 DEF Rewinding, Edge, Runs
  <2>4. QED
    BY <2>2, <2>3 DEF RewindInv
<1>6. CASE ReadPosition
  BY <1>6, RewindAside DEF ReadPosition, InHand, playerVars
<1>7. CASE ReadReady
  BY <1>7, RewindAside DEF ReadReady, InHand
<1>8. CASE StartFly
  BY <1>8, RewindAside DEF StartFly, InHand
<1>9. QED
  BY <1>1, <1>2, <1>3, <1>4, <1>5, <1>6, <1>7, <1>8, RewindRecord DEF TickLoop

LEMMA RewindRead == RewindInv /\ TypeInv /\ Reader => RewindInv'
<1> SUFFICES ASSUME RewindInv, TypeInv, Reader PROVE RewindInv'
  OBVIOUS
<1>1. PICK R \in SUBSET Nat : Rewinding(R)
  BY DEF RewindInv
<1>2. UNCHANGED <<tpc, tick, frame>> /\ (InHand' <=> InHand)
  BY DEF Reader, CorrectPrediction, Update, SyncOnly, SyncServerTick, AcceptPublisherPosition,
         SetFlyingConfirmed, tickVars, InHand
<1>3. CASE CorrectPrediction
  <2> DEFINE t == Head(toBot).tick
  <2>1. history' = Kept(history, t) /\ UNCHANGED <<nextTick, synced>>
    BY <1>3 DEF CorrectPrediction
  <2> HIDE DEF t
  <2>2. history \in Seq(Prediction)
    BY DEF TypeInv, TypeOK
  <2>3. PICK f : Embeds(f, history', history)
    BY <2>1, <2>2, KeptEmbeds
  <2>4. \A k \in 1..Len(history') : f[k] \in 1..Len(history) /\ history'[k] = history[f[k]]
    BY <2>3 DEF Embeds
  <2>5. PICK Q \in SUBSET Nat : /\ R = Nat => Q = Nat
                               /\ \A k \in 1..Len(history') : k \in Q <=> f[k] \in R
    <3>1. CASE R = Nat
      <4>1. \A k \in 1..Len(history') : k \in Nat /\ f[k] \in Nat
        BY <2>4
      <4>2. QED
        BY <3>1, <4>1
    <3>2. CASE R # Nat
      <4>1. {k \in 1..Len(history') : f[k] \in R} \in SUBSET Nat
        OBVIOUS
      <4>2. QED
        BY <3>2, <4>1
    <3>3. QED
      BY <3>1, <3>2
  <2>6. \A k, l \in 1..Len(history') : k < l => f[k] < f[l]
    BY <2>3 DEF Embeds
  <2>7. Runs(history', Q)
    <3> SUFFICES ASSUME NEW i \in 1..Len(history'), NEW j \in 1..Len(history'), i < j
                 PROVE  /\ i \in Q => j \in Q
                        /\ (i \in Q <=> j \in Q) => history'[i].tick < history'[j].tick
      BY DEF Runs
    <3>1. /\ f[i] \in 1..Len(history) /\ f[j] \in 1..Len(history) /\ f[i] < f[j]
          /\ history'[i] = history[f[i]] /\ history'[j] = history[f[j]]
          /\ (i \in Q <=> f[i] \in R) /\ (j \in Q <=> f[j] \in R)
      BY <2>4, <2>5, <2>6
    <3>2. /\ f[i] \in R => f[j] \in R
          /\ (f[i] \in R <=> f[j] \in R) => history[f[i]].tick < history[f[j]].tick
      BY <1>1, <3>1 DEF Rewinding, Runs
    <3>3. QED
      BY <3>1, <3>2
  <2>8. Edge' = Edge
    BY <1>2, <2>1 DEF Edge
  <2>9. Rewinding(Q)'
    BY <1>1, <1>2, <2>1, <2>4, <2>5, <2>7, <2>8 DEF Rewinding
  <2>10. QED
    BY <1>2, <2>5, <2>9 DEF RewindInv
<1>4. CASE SyncServerTick
  <2>1. history' = history /\ nextTick \in Nat /\ owed \in Int /\ history \in Seq(Prediction)
    BY <1>4, CounterAssumption DEF SyncServerTick, TypeInv, TypeOK
  <2>2. CASE owed # 0 /\ MovesClock(owed) /\ ~synced
    <3>1. /\ synced' /\ \A i \in 1..Len(history) : history[i].tick < Edge
          /\ InHand => Edge = tick
          /\ \A i, j \in 1..Len(history) : i < j => history[i].tick < history[j].tick
      BY <1>1, <1>4, <2>2 DEF SyncServerTick, Rewinding, Edge, Runs
    <3>2. Rewinding({})'
      BY <1>2, <2>1, <3>1 DEF Rewinding, Runs
    <3>3. {} \in SUBSET Nat
      OBVIOUS
    <3>4. QED
      BY <1>2, <3>2, <3>3 DEF RewindInv
  <2>3. CASE owed # 0 /\ MovesClock(owed) /\ synced
    <3>1. synced' /\ nextTick' \in Int /\ nextTick' > nextTick
      BY <1>4, <2>1, <2>3 DEF SyncServerTick, MovesClock
    <3>2. Edge \in Int /\ Edge' \in Int /\ Edge' >= Edge /\ tick \in Int
      BY <1>2, <2>1, <3>1 DEF Edge, TypeInv, TypeOK
    <3>3. \A i \in 1..Len(history) : history[i].tick \in Int
      BY <2>1, StepTypes DEF Moving
    <3>4. Rewinding(R)'
      BY <1>1, <1>2, <2>1, <3>1, <3>2, <3>3 DEF Rewinding, Runs
    <3>5. QED
      BY <1>2, <3>4 DEF RewindInv
  <2>4. CASE ~(owed # 0 /\ MovesClock(owed))
    <3>1. UNCHANGED <<nextTick, synced>>
      BY <1>4, <2>4 DEF SyncServerTick
    <3>2. Rewinding(R)'
      BY <1>1, <1>2, <2>1, <3>1 DEF Rewinding, Runs, Edge
    <3>3. QED
      BY <1>2, <3>2 DEF RewindInv
  <2>5. QED
    BY <2>2, <2>3, <2>4
<1>5. CASE Update \/ SyncOnly \/ AcceptPublisherPosition \/ SetFlyingConfirmed
  <2>1. UNCHANGED <<history, nextTick, synced>>
    BY <1>5 DEF Update, SyncOnly, AcceptPublisherPosition, SetFlyingConfirmed, playerVars
  <2>2. QED
    BY <1>2, <2>1, RewindAside
<1>6. QED
  BY <1>3, <1>4, <1>5 DEF Reader

LEMMA RewindStep == RewindInv /\ TypeInv /\ [Next]_vars => RewindInv'
<1> SUFFICES ASSUME RewindInv, TypeInv, [Next]_vars PROVE RewindInv'
  OBVIOUS
<1>1. CASE Server \/ TicksOver \/ UNCHANGED vars
  <2>1. UNCHANGED <<history, nextTick, synced, tick, frame, tpc>>
    BY <1>1 DEF Server, IgnoreFrame, ProcessFrame, MoveBot, SendPublisher, SendAbilities, SendSync,
                TicksOver, vars, playerVars, tickVars
  <2>2. QED
    BY <2>1, RewindAside DEF InHand
<1>2. QED
  BY <1>1, RewindTick, RewindRead DEF Next

\* However corrections, ticks of the server and frames interleave, the predictions a bot holds
\* are two runs of advancing ticks at most: OneRewind.
THEOREM RewindsCorrect == Spec => []OneRewind
<1>1. TypeInv /\ RewindInv => OneRewind
  <2> SUFFICES ASSUME TypeInv, RewindInv,
                      NEW i \in 2..Len(history), NEW j \in 2..Len(history),
                      history[i].tick <= history[i - 1].tick,
                      history[j].tick <= history[j - 1].tick
               PROVE  i = j
    BY DEF OneRewind
  <2>1. PICK R \in SUBSET Nat : Runs(history, R)
    BY DEF RewindInv, Rewinding
  <2>2. Len(history) \in Nat /\ \A k \in 1..Len(history) : history[k].tick \in Int
    <3>1. history \in Seq(Prediction)
      BY DEF TypeInv, TypeOK
    <3>2. QED
      BY <3>1, StepTypes DEF Moving
  <2>3. /\ {i, i - 1, j, j - 1} \subseteq 1..Len(history) /\ i - 1 < i /\ j - 1 < j
        /\ (i < j => i <= j - 1) /\ (j < i => j <= i - 1) /\ (i < j \/ j < i \/ i = j)
    BY <2>2
  <2>4. i - 1 \notin R /\ i \in R /\ j - 1 \notin R /\ j \in R
    BY <2>1, <2>2, <2>3, SMTT(30) DEF Runs
  <2>5. ~(i < j)
    BY <2>1, <2>3, <2>4 DEF Runs
  <2>6. ~(j < i)
    BY <2>1, <2>3, <2>4 DEF Runs
  <2>7. QED
    BY <2>3, <2>5, <2>6
<1>2. QED
  BY <1>1, FlightInit, FlightStep, TypeInit, TypeStep, RewindInit, RewindStep, PTL DEF Spec
=============================================================================
