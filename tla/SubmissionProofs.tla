-------------------------- MODULE SubmissionProofs --------------------------
(***************************************************************************)
(* What bulk_group_transfers, build_job_params and the choices made for a  *)
(* file promise of the jobs of a round, for any RSEs, paths and length of  *)
(* jobs.  The loops are recursive functions: they are reasoned about by    *)
(* induction over sets of naturals.                                        *)
(***************************************************************************)
EXTENDS Submission, FiniteSetTheorems, SequenceTheorems, WellFoundedInduction, TLAPS

(* A set of naturals has a least element,                                  *)
LEMMA Least ==
  ASSUME NEW T, T \subseteq Nat, T # {}
  PROVE  \E x \in T : \A y \in T : x <= y
<1> DEFINE R == {ss \in Nat \X Nat : ss[1] < ss[2]}
<1>1. IsWellFoundedOn(R, Nat)
  BY NatLessThanWellFounded DEF OpToRel
<1>2. PICK x \in T : \A y \in T : <<y, x>> \notin R
  BY <1>1, WFMin
<1>3. ASSUME NEW y \in T PROVE x <= y
  <2>1. x \in Nat /\ y \in Nat
    OBVIOUS
  <2>2. ~(y < x)
    BY <1>2, <2>1
  <2> QED BY <2>1, <2>2
<1> QED BY <1>3

(* so what holds of 0, and of the successor of every number it holds of,   *)
(* holds of all of them.  A set takes the place of the predicate.          *)
LEMMA SetInduction ==
  ASSUME NEW S, 0 \in S, \A n \in Nat : n \in S => n + 1 \in S
  PROVE  Nat \subseteq S
<1> SUFFICES ASSUME Nat \ S # {} PROVE FALSE
  OBVIOUS
<1>1. PICK x \in Nat \ S : \A y \in Nat \ S : x <= y
  <2>1. Nat \ S \subseteq Nat
    OBVIOUS
  <2> QED BY <2>1, Least
<1>2. x - 1 \in Nat /\ x - 1 \in S
  BY <1>1
<1> QED BY <1>1, <1>2

(* A loop of N steps: in its n-th step the state b becomes step[b, n]. Its *)
(* states, from a on, are a function of the steps done.                    *)
Steps(A, N, step) == \A b \in A, n \in 1 .. N : step[<<b, n>>] \in A
Follows(g, A, N, a, step) ==
  /\ g \in [0 .. N -> A] /\ g[0] = a
  /\ \A n \in 1 .. N : g[n] = step[<<g[n - 1], n>>]

(* Every loop has such a function, so the CHOOSE of a recursive definition *)
(* finds one.                                                              *)
LEMMA Recursion ==
  ASSUME NEW N \in Nat, NEW A, NEW a \in A, NEW step, Steps(A, N, step)
  PROVE  \E g : Follows(g, A, N, a, step)
<1> USE DEF Steps
<1> DEFINE Good(g, m) == g[0] = a /\ \A n \in 1 .. m : g[n] = step[<<g[n - 1], n>>]
           S == {m \in Nat : m <= N => \E g \in [0 .. m -> A] : Good(g, m)}
<1>1. 0 \in S
  <2>1. Good([i \in 0 .. 0 |-> a], 0)
    OBVIOUS
  <2>2. [i \in 0 .. 0 |-> a] \in [0 .. 0 -> A]
    OBVIOUS
  <2> QED BY <2>1, <2>2
<1>2. ASSUME NEW m \in Nat, m \in S PROVE m + 1 \in S
  <2> SUFFICES ASSUME m + 1 <= N PROVE \E g \in [0 .. m + 1 -> A] : Good(g, m + 1)
    OBVIOUS
  <2>1. PICK g \in [0 .. m -> A] : Good(g, m)
    BY <1>2
  <2> DEFINE h == [i \in 0 .. m + 1 |-> IF i <= m THEN g[i] ELSE step[<<g[m], m + 1>>]]
  <2>2. g[m] \in A /\ m + 1 \in 1 .. N
    BY <2>1
  <2>3. step[<<g[m], m + 1>>] \in A
    BY <2>2
  <2>4. h \in [0 .. m + 1 -> A]
    BY <2>1, <2>3
  <2>5. Good(h, m + 1)
    <3>1. h[0] = a
      BY <2>1
    <3>2. ASSUME NEW n \in 1 .. m + 1 PROVE h[n] = step[<<h[n - 1], n>>]
      <4>1. CASE n \in 1 .. m
        <5>1. h[n] = g[n] /\ h[n - 1] = g[n - 1]
          BY <4>1
        <5>2. g[n] = step[<<g[n - 1], n>>]
          BY <2>1, <4>1
        <5> QED BY <5>1, <5>2
      <4>2. CASE n = m + 1
        <5>1. h[n] = step[<<g[m], m + 1>>] /\ h[n - 1] = g[m]
          BY <4>2
        <5> QED BY <4>2, <5>1
      <4> QED BY <4>1, <4>2
    <3> QED BY <3>1, <3>2
  <2> QED BY <2>4, <2>5
<1>3. N \in S
  <2> HIDE DEF S
  <2> QED BY <1>1, <1>2, SetInduction
<1> QED BY <1>3 DEF Follows

----------------------------------------------------------------------------
(* The sides that a strategy validates.                                    *)
LEMMA SidesAre ==
  /\ C({})!Strategy = {"both", "target", "source", "none"}
  /\ C({})!Sides("both") = {"source", "target"} /\ C({})!Sides("none") = {}
  /\ C({})!Sides("target") = {"target"} /\ C({})!Sides("source") = {"source"}
BY DEF C!Strategy, C!Sides, C!Side

(* A merge validates what both validate.                                   *)
LEMMA MergeSides ==
  ASSUME NEW p \in C({})!Strategy, NEW h \in C({})!Strategy
  PROVE  /\ C({})!Merge(p, h) \in C({})!Strategy
         /\ C({})!Sides(C({})!Merge(p, h)) = C({})!Sides(p) \cap C({})!Sides(h)
<1>1. CASE p = "both"
  <2>1. C({})!Merge("both", h) = h
    BY SidesAre DEF C!Merge
  <2> QED BY <1>1, <2>1, SidesAre
<1>2. CASE p = "none"
  <2>1. C({})!Merge("none", h) = "none"
    BY SidesAre DEF C!Merge
  <2> QED BY <1>2, <2>1, SidesAre
<1>3. CASE p = "target"
  <2>1. C({})!Merge("target", h) = IF h \in {"both", "target"} THEN "target" ELSE "none"
    BY SidesAre DEF C!Merge
  <2> QED BY <1>3, <2>1, SidesAre
<1>4. CASE p = "source"
  <2>1. C({})!Merge("source", h) = IF h \in {"both", "source"} THEN "source" ELSE "none"
    BY SidesAre DEF C!Merge
  <2> QED BY <1>4, <2>1, SidesAre
<1> QED BY <1>1, <1>2, <1>3, <1>4, SidesAre

(* A hop has a strategy.                                                   *)
LEMMA HopStrategyType ==
  ASSUME NEW hop
  PROVE  C({})!HopStrategy(hop) \in C({})!Strategy
BY SidesAre DEF C!HopStrategy

(* The strategy of a transfer taken alone.                                 *)
Own(t) == C({})!HopStrategy(CheckHop(t))

(* The recursive function in PathStrategy, once it exists, is its own      *)
(* body,                                                                   *)
LEMMA StrategyUnfolds ==
  ASSUME NEW path \in Seq(Transfer), NEW g,
         g = [n \in 0 .. Len(path) |-> IF n = 0 THEN "both"
                ELSE C({})!Merge(g[n - 1], C({})!HopStrategy(CheckHop(path[n])))]
  PROVE  \E u : /\ u = [n \in 0 .. Len(path) |-> IF n = 0 THEN "both"
                          ELSE C({})!Merge(u[n - 1], C({})!HopStrategy(CheckHop(path[n])))]
                /\ PathStrategy(path) = u[Len(path)]
BY DEF PathStrategy

(* and it exists: the loop over the hops.                                  *)
LEMMA StrategyLoop ==
  ASSUME NEW path \in Seq(Transfer)
  PROVE  \E u \in [0 .. Len(path) -> C({})!Strategy] :
           /\ u[0] = "both" /\ PathStrategy(path) = u[Len(path)]
           /\ \A n \in 1 .. Len(path) : u[n] = C({})!Merge(u[n - 1], Own(path[n]))
<1> DEFINE S == C({})!Strategy
           N == Len(path)
           step == [x \in S \X (1 .. N) |-> C({})!Merge(x[1], Own(path[x[2]]))]
           F(u) == [n \in 0 .. N |-> IF n = 0 THEN "both" ELSE C({})!Merge(u[n - 1], Own(path[n]))]
<1>1. N \in Nat /\ "both" \in S
  BY SidesAre
<1>2. ASSUME NEW b \in S, NEW n \in 1 .. N
      PROVE  step[<<b, n>>] = C({})!Merge(b, Own(path[n])) /\ step[<<b, n>>] \in S
  <2>1. Own(path[n]) \in S
    BY HopStrategyType DEF Own
  <2>2. C({})!Merge(b, Own(path[n])) \in S
    BY <2>1, MergeSides
  <2> QED BY <2>2
<1> HIDE DEF step, S
<1>3. PICK g \in [0 .. N -> S] : g[0] = "both" /\ \A n \in 1 .. N : g[n] = step[<<g[n - 1], n>>]
  <2>1. Steps(S, N, step)
    BY <1>2 DEF Steps
  <2>2. PICK g : Follows(g, S, N, "both", step)
    BY <1>1, <2>1, Recursion
  <2> QED BY <2>2 DEF Follows
<1>4. ASSUME NEW n \in 1 .. N PROVE g[n] = C({})!Merge(g[n - 1], Own(path[n]))
  <2>1. g[n - 1] \in S
    BY <1>1
  <2> QED BY <1>2, <1>3, <2>1
<1>5. g = F(g)
  <2>1. \A n \in 0 .. N : n = 0 \/ n \in 1 .. N
    BY <1>1
  <2>2. \A n \in 0 .. N : g[n] = F(g)[n]
    BY <1>3, <1>4, <2>1
  <2> QED BY <2>2
<1>6. PICK u : u = F(u) /\ PathStrategy(path) = u[N]
  BY <1>5, StrategyUnfolds DEF Own
<1>7. u[0] = "both" /\ \A n \in 1 .. N : u[n] = C({})!Merge(u[n - 1], Own(path[n]))
  BY <1>1, <1>6
<1>8. \A n \in 0 .. N : u[n] \in S
  <2> DEFINE T == {n \in Nat : n <= N => u[n] \in S}
  <2>1. 0 \in T
    BY <1>1, <1>7
  <2>2. ASSUME NEW n \in Nat, n \in T PROVE n + 1 \in T
    <3> SUFFICES ASSUME n + 1 <= N PROVE u[n + 1] \in S
      OBVIOUS
    <3>1. u[n] \in S /\ n + 1 \in 1 .. N
      BY <1>1, <2>2
    <3>2. u[n + 1] = C({})!Merge(u[n], Own(path[n + 1]))
      <4>1. (n + 1) - 1 = n
        OBVIOUS
      <4> QED BY <1>7, <3>1, <4>1
    <3> QED BY <3>1, <3>2, MergeSides, HopStrategyType DEF S, Own
  <2>3. Nat \subseteq T
    <3> HIDE DEF T
    <3> QED BY <2>1, <2>2, SetInduction
  <2> QED BY <1>1, <2>3
<1>9. u \in [0 .. N -> S]
  BY <1>6, <1>8
<1> QED BY <1>6, <1>7, <1>9 DEF S

(* _path_checksum_validation_strategy: FTS validates on a side exactly     *)
(* when every hop of the path can be validated there.                      *)
LEMMA StrategySides ==
  ASSUME NEW path \in Seq(Transfer)
  PROVE  /\ PathStrategy(path) \in C({})!Strategy
         /\ C({})!Sides(PathStrategy(path)) \subseteq {"source", "target"}
         /\ \A side \in {"source", "target"} :
              side \in C({})!Sides(PathStrategy(path)) <=>
                \A i \in 1 .. Len(path) : side \in C({})!Sides(Own(path[i]))
<1> DEFINE N == Len(path)
<1>1. PICK u \in [0 .. N -> C({})!Strategy] :
        /\ u[0] = "both" /\ PathStrategy(path) = u[N]
        /\ \A n \in 1 .. N : u[n] = C({})!Merge(u[n - 1], Own(path[n]))
  BY StrategyLoop
<1>2. PathStrategy(path) \in C({})!Strategy
  BY <1>1
<1>3. ASSUME NEW side \in {"source", "target"}
      PROVE  \A n \in 0 .. N : side \in C({})!Sides(u[n]) <=>
                                 \A i \in 1 .. n : side \in C({})!Sides(Own(path[i]))
  <2> DEFINE T == {n \in Nat : n <= N => (side \in C({})!Sides(u[n]) <=>
                                 \A i \in 1 .. n : side \in C({})!Sides(Own(path[i])))}
  <2>1. 0 \in T
    BY <1>1, SidesAre
  <2>2. ASSUME NEW n \in Nat, n \in T PROVE n + 1 \in T
    <3> SUFFICES ASSUME n + 1 <= N
                 PROVE  side \in C({})!Sides(u[n + 1]) <=>
                          \A i \in 1 .. n + 1 : side \in C({})!Sides(Own(path[i]))
      OBVIOUS
    <3>1. u[n] \in C({})!Strategy /\ n + 1 \in 1 .. N
      BY <1>1
    <3>2. u[n + 1] = C({})!Merge(u[n], Own(path[n + 1]))
      <4>1. (n + 1) - 1 = n
        OBVIOUS
      <4> QED BY <1>1, <3>1, <4>1
    <3>3. Own(path[n + 1]) \in C({})!Strategy
      BY HopStrategyType DEF Own
    <3>4. C({})!Sides(u[n + 1]) = C({})!Sides(u[n]) \cap C({})!Sides(Own(path[n + 1]))
      BY <3>1, <3>2, <3>3, MergeSides
    <3>5. \A i \in 1 .. n + 1 : i \in 1 .. n \/ i = n + 1
      OBVIOUS
    <3>6. side \in C({})!Sides(u[n]) <=> \A i \in 1 .. n : side \in C({})!Sides(Own(path[i]))
      BY <2>2
    <3> QED BY <3>4, <3>5, <3>6
  <2>3. Nat \subseteq T
    <3> HIDE DEF T
    <3> QED BY <2>1, <2>2, SetInduction
  <2> QED BY <2>3
<1>4. C({})!Sides(PathStrategy(path)) \subseteq {"source", "target"}
  BY <1>2, SidesAre
<1>5. N \in 0 .. N
  OBVIOUS
<1> QED BY <1>1, <1>2, <1>3, <1>4, <1>5

----------------------------------------------------------------------------
(* What the loop of bulk_group_transfers puts into the group of a key.     *)
InGroup(q, key) == ~Alone(q) /\ GroupKey(q) = key

(* The same two steps for the recursive function in Group.                 *)
LEMMA GroupUnfolds ==
  ASSUME NEW X, NEW paths \in Seq(X), NEW key, NEW g,
         g = [n \in 0 .. Len(paths) |-> IF n = 0 THEN <<>>
                ELSE IF ~Alone(paths[n]) /\ GroupKey(paths[n]) = key
                     THEN Append(g[n - 1], paths[n]) ELSE g[n - 1]]
  PROVE  \E u : /\ u = [n \in 0 .. Len(paths) |-> IF n = 0 THEN <<>>
                          ELSE IF ~Alone(paths[n]) /\ GroupKey(paths[n]) = key
                               THEN Append(u[n - 1], paths[n]) ELSE u[n - 1]]
                /\ Group(paths, key) = u[Len(paths)]
BY DEF Group

(* The loop of bulk_group_transfers, as far as one key goes.               *)
LEMMA GroupLoop ==
  ASSUME NEW X, NEW paths \in Seq(X), NEW key
  PROVE  \E u : /\ u[0] = <<>> /\ Group(paths, key) = u[Len(paths)]
                /\ \A n \in 1 .. Len(paths) :
                     u[n] = IF InGroup(paths[n], key) THEN Append(u[n - 1], paths[n]) ELSE u[n - 1]
<1> DEFINE S == Seq(X)
           N == Len(paths)
           step == [x \in S \X (1 .. N) |-> IF InGroup(paths[x[2]], key)
                                            THEN Append(x[1], paths[x[2]]) ELSE x[1]]
           F(u) == [n \in 0 .. N |-> IF n = 0 THEN <<>>
                ELSE IF ~Alone(paths[n]) /\ GroupKey(paths[n]) = key
                     THEN Append(u[n - 1], paths[n]) ELSE u[n - 1]]
<1>1. N \in Nat /\ <<>> \in S
  OBVIOUS
<1>2. ASSUME NEW b \in S, NEW n \in 1 .. N
      PROVE  /\ step[<<b, n>>] = IF InGroup(paths[n], key) THEN Append(b, paths[n]) ELSE b
             /\ step[<<b, n>>] \in S
  <2>1. paths[n] \in X
    BY ElementOfSeq
  <2>2. Append(b, paths[n]) \in S
    BY <2>1, AppendProperties
  <2> QED BY <2>2
<1> HIDE DEF step, S
<1>3. PICK g \in [0 .. N -> S] : g[0] = <<>> /\ \A n \in 1 .. N : g[n] = step[<<g[n - 1], n>>]
  <2>1. Steps(S, N, step)
    BY <1>2 DEF Steps
  <2>2. PICK g : Follows(g, S, N, <<>>, step)
    BY <1>1, <2>1, Recursion
  <2> QED BY <2>2 DEF Follows
<1>4. ASSUME NEW n \in 1 .. N
      PROVE  g[n] = IF InGroup(paths[n], key) THEN Append(g[n - 1], paths[n]) ELSE g[n - 1]
  <2>1. g[n - 1] \in S
    BY <1>1
  <2> QED BY <1>2, <1>3, <2>1
<1>5. g = F(g)
  <2>1. \A n \in 0 .. N : n = 0 \/ n \in 1 .. N
    BY <1>1
  <2>2. \A n \in 0 .. N : g[n] = F(g)[n]
    BY <1>3, <1>4, <2>1 DEF InGroup
  <2> QED BY <2>2
<1>6. PICK u : u = F(u) /\ Group(paths, key) = u[N]
  BY <1>5, GroupUnfolds
<1>7. u[0] = <<>>
      /\ \A n \in 1 .. N :
             u[n] = IF InGroup(paths[n], key) THEN Append(u[n - 1], paths[n]) ELSE u[n - 1]
  <2>1. 0 \in 0 .. N /\ \A n \in 1 .. N : n \in 0 .. N /\ n # 0
    BY <1>1
  <2>2. \A n \in 0 .. N : u[n] = F(u)[n]
    BY <1>6
  <2>3. u[0] = <<>>
    BY <2>1, <2>2
  <2>4. ASSUME NEW n \in 1 .. N
        PROVE  u[n] = IF InGroup(paths[n], key) THEN Append(u[n - 1], paths[n]) ELSE u[n - 1]
    BY <2>1, <2>2 DEF InGroup
  <2> QED BY <2>3, <2>4
<1> QED BY <1>6, <1>7

(* A group has all the paths of its key, no others, and each once.         *)
LEMMA GroupIs ==
  ASSUME NEW X, NEW paths \in Seq(X), NEW key,
         \A i, k \in 1 .. Len(paths) : paths[i] = paths[k] => i = k
  PROVE  /\ Group(paths, key) \in Seq(X)
         /\ \A n \in 1 .. Len(Group(paths, key)) : \E i \in 1 .. Len(paths) :
              Group(paths, key)[n] = paths[i] /\ InGroup(paths[i], key)
         /\ \A i \in 1 .. Len(paths) : InGroup(paths[i], key) =>
              \E n \in 1 .. Len(Group(paths, key)) : Group(paths, key)[n] = paths[i]
         /\ \A m, n \in 1 .. Len(Group(paths, key)) :
              Group(paths, key)[m] = Group(paths, key)[n] => m = n
<1> DEFINE N == Len(paths)
           Good(g, m) ==
             /\ g \in Seq(X)
             /\ \A n \in 1 .. Len(g) : \E i \in 1 .. m : g[n] = paths[i] /\ InGroup(paths[i], key)
             /\ \A i \in 1 .. m : InGroup(paths[i], key) => \E n \in 1 .. Len(g) : g[n] = paths[i]
             /\ \A k, n \in 1 .. Len(g) : g[k] = g[n] => k = n
<1>1. PICK u : /\ u[0] = <<>> /\ Group(paths, key) = u[N]
               /\ \A n \in 1 .. N :
                    u[n] = IF InGroup(paths[n], key) THEN Append(u[n - 1], paths[n]) ELSE u[n - 1]
  BY GroupLoop
<1> DEFINE T == {m \in Nat : m <= N => Good(u[m], m)}
<1>2. 0 \in T
  <2>1. <<>> \in Seq(X) /\ Len(<<>>) = 0
    OBVIOUS
  <2>2. Good(<<>>, 0)
    BY <2>1
  <2>3. Good(u[0], 0)
    BY <1>1, <2>2
  <2> HIDE DEF Good
  <2> QED BY <2>3
<1>3. ASSUME NEW m \in Nat, m \in T PROVE m + 1 \in T
  <2>0. ASSUME Good(u[m + 1], m + 1) PROVE m + 1 \in T
    <3> HIDE DEF Good
    <3> QED BY <2>0
  <2> SUFFICES ASSUME m + 1 <= N PROVE Good(u[m + 1], m + 1)
    <3>1. m + 1 <= N => Good(u[m + 1], m + 1)
      OBVIOUS
    <3> HIDE DEF Good
    <3> QED BY <3>1
  <2>1. m + 1 \in 1 .. N /\ (m + 1) - 1 = m /\ paths[m + 1] \in X
    <3>1. m + 1 \in 1 .. N /\ (m + 1) - 1 = m
      OBVIOUS
    <3> QED BY <3>1, ElementOfSeq
  <2> DEFINE g == u[m]
             x == paths[m + 1]
  <2>2. Good(g, m)
    BY <1>3
  <2>3. u[m + 1] = IF InGroup(x, key) THEN Append(g, x) ELSE g
    BY <1>1, <2>1
  <2>4. \A i \in 1 .. m + 1 : i \in 1 .. m \/ i = m + 1
    OBVIOUS
  <2>5. CASE ~InGroup(x, key)
    <3>1. u[m + 1] = g
      BY <2>3, <2>5
    <3>2. Good(g, m + 1)
      <4> HIDE DEF g
      <4>1. \A n \in 1 .. Len(g) : \E i \in 1 .. m + 1 : g[n] = paths[i] /\ InGroup(paths[i], key)
        <5>1. \A i \in 1 .. m : i \in 1 .. m + 1
          OBVIOUS
        <5> QED BY <2>2, <5>1
      <4>2. \A i \in 1 .. m + 1 : InGroup(paths[i], key) => \E n \in 1 .. Len(g) : g[n] = paths[i]
        BY <2>2, <2>4, <2>5
      <4> QED BY <2>2, <4>1, <4>2
    <3> QED BY <3>1, <3>2
  <2>6. CASE InGroup(x, key)
    <3> DEFINE h == Append(g, x)
    <3>1. u[m + 1] = h
      BY <2>3, <2>6
    <3>2. /\ h \in Seq(X) /\ Len(h) = Len(g) + 1 /\ h[Len(g) + 1] = x
          /\ \A n \in 1 .. Len(g) : h[n] = g[n]
      BY <2>1, <2>2, AppendProperties
    <3>3. Len(g) \in Nat /\ \A n \in 1 .. Len(g) + 1 : n \in 1 .. Len(g) \/ n = Len(g) + 1
      BY <2>2
    <3> HIDE DEF h, g
    <3>4. \A n \in 1 .. Len(h) : \E i \in 1 .. m + 1 : h[n] = paths[i] /\ InGroup(paths[i], key)
      BY <2>1, <2>2, <2>6, <3>2, <3>3
    <3>5. \A i \in 1 .. m + 1 : InGroup(paths[i], key) => \E n \in 1 .. Len(h) : h[n] = paths[i]
      <4>1. Len(g) + 1 \in 1 .. Len(h) /\ \A n \in 1 .. Len(g) : n \in 1 .. Len(h)
        BY <3>2, <3>3
      <4>2. ASSUME NEW i \in 1 .. m, InGroup(paths[i], key)
            PROVE  \E n \in 1 .. Len(h) : h[n] = paths[i]
        BY <2>2, <3>2, <4>1, <4>2
      <4> QED BY <2>4, <3>2, <4>1, <4>2
    <3>6. \A n \in 1 .. Len(g) : g[n] # x
      <4>1. \A i \in 1 .. m : i \in 1 .. N /\ i # m + 1
        BY <2>1
      <4> QED BY <2>1, <2>2, <4>1
    <3>7. \A k, n \in 1 .. Len(h) : h[k] = h[n] => k = n
      BY <2>2, <3>2, <3>3, <3>6
    <3> QED BY <3>1, <3>2, <3>4, <3>5, <3>7
  <2> QED BY <2>5, <2>6
<1>4. N \in T
  <2>1. Nat \subseteq T
    <3> HIDE DEF T
    <3> QED BY <1>2, <1>3, SetInduction
  <2> QED BY <2>1
<1>5. Good(u[N], N)
  BY <1>4
<1> QED BY <1>1, <1>5

----------------------------------------------------------------------------
(* What the assumption on the constants says, over ranges of naturals.     *)
LEMMA Constants ==
  /\ \A r \in RSE : Attr[r].checks \in C({})!Rse
  /\ \A t \in Transfer : t.sources \in Seq(RSE) \ {<<>>} /\ t.dst \in RSE
  /\ \A path \in Path :
       /\ path \in Seq(Transfer) /\ path # <<>>
       /\ \A i \in 1 .. Len(path) - 1 :
            ~Attr[path[i].dst].tape /\ ~Attr[path[i + 1].sources[1]].tape
  /\ \A p, q \in Path : \A i \in 1 .. Len(p), k \in 1 .. Len(q) : p[i] = q[k] => p = q /\ i = k
  /\ \A paths \in Round : /\ paths \in Seq(Path) /\ paths # <<>>
                          /\ \A i, k \in 1 .. Len(paths) : paths[i] = paths[k] => i = k
  /\ GroupBulk \in Nat /\ GroupBulk >= 1
<1>1. \A path \in Path : path \in Seq(Transfer) /\ DOMAIN path = 1 .. Len(path)
  BY SubmissionAssumption
<1>2. \A paths \in Round : paths \in Seq(Path) /\ DOMAIN paths = 1 .. Len(paths)
  BY SubmissionAssumption
<1> QED BY <1>1, <1>2, SubmissionAssumption

(* A sub-path is the beginning of its path, and all its hops have a        *)
(* server.                                                                 *)
LEMMA SubPathIs ==
  ASSUME NEW path \in Path
  PROVE  \E n \in 0 .. Len(path) :
           /\ SubPath(path) \in Seq(Transfer) /\ Len(SubPath(path)) = n
           /\ \A i \in 1 .. n : SubPath(path)[i] = path[i] /\ Server(path[i]) # NoHost
<1> DEFINE N == Len(path)
           IsCut(n) == /\ \A i \in 1 .. n : Server(path[i]) # NoHost
                       /\ n < N => Server(path[n + 1]) = NoHost
<1>1. path \in Seq(Transfer) /\ N \in Nat
  BY Constants
<1>2. \E n \in 0 .. N : IsCut(n)
  <2> DEFINE T == {i \in 1 .. N : Server(path[i]) = NoHost}
  <2>1. CASE T = {}
    <3>1. IsCut(N)
      BY <1>1, <2>1
    <3> QED BY <1>1, <3>1
  <2>2. CASE T # {}
    <3>1. PICK x \in T : \A y \in T : x <= y
      <4>1. T \subseteq Nat
        OBVIOUS
      <4> HIDE DEF T
      <4> QED BY <2>2, <4>1, Least
    <3>2. IsCut(x - 1)
      BY <1>1, <3>1
    <3>3. x - 1 \in 0 .. N
      BY <1>1
    <3> QED BY <3>2, <3>3
  <2> QED BY <2>1, <2>2
<1>3. PICK n \in 0 .. N : IsCut(n) /\ SubPath(path) = SubSeq(path, 1, n)
  BY <1>2 DEF SubPath
<1>4. /\ SubSeq(path, 1, n) \in Seq(Transfer) /\ Len(SubSeq(path, 1, n)) = n
      /\ \A i \in 1 .. n : SubSeq(path, 1, n)[i] = path[i]
  <2>1. \A i \in 1 .. n : path[i] \in Transfer
    <3>1. \A i \in 1 .. n : i \in 1 .. N
      BY <1>1
    <3> QED BY <1>1, <3>1, ElementOfSeq
  <2>2. 1 \in Int /\ n \in Int
    BY <1>1
  <2>3. n - 1 + 1 = n /\ \A i \in 1 .. n : 1 + i - 1 = i
    BY <1>1
  <2>4. CASE n = 0
    <3>1. SubSeq(path, 1, n) = <<>>
      BY <1>1, <2>4, SubSeqProperties
    <3> QED BY <2>4, <3>1
  <2>5. CASE n # 0
    <3>1. 1 <= n
      BY <1>1, <2>5
    <3> QED BY <1>1, <2>1, <2>2, <2>3, <3>1, SubSeqProperties
  <2> QED BY <2>4, <2>5
<1> QED BY <1>3, <1>4

(* What a round gives to the transfertool: sub-paths with at least one     *)
(* hop, one builder for all, no transfer twice, no tape inside a path.     *)
GoodBatch(paths) ==
  /\ paths \in Seq(Seq(Transfer) \ {<<>>}) /\ paths # <<>>
  /\ \A i, k \in 1 .. Len(paths) :
       /\ Builder(paths[i]) = Builder(paths[k])
       /\ \A a \in 1 .. Len(paths[i]), b \in 1 .. Len(paths[k]) :
            paths[i][a] = paths[k][b] => i = k /\ a = b
  /\ \A i \in 1 .. Len(paths) :
       /\ \A a \in 1 .. Len(paths[i]) : Server(paths[i][a]) # NoHost
       /\ \A a \in 1 .. Len(paths[i]) - 1 :
            ~Attr[paths[i][a].dst].tape /\ ~Attr[paths[i][a + 1].sources[1]].tape

(* The rounds give that.                                                   *)
LEMMA BatchIs ==
  ASSUME NEW batched \in Batches
  PROVE  GoodBatch(batched)
<1>1. PICK paths \in Round :
        /\ batched = [i \in DOMAIN paths |-> SubPath(paths[i])]
        /\ \A i, k \in DOMAIN paths :
             /\ SubPath(paths[i]) # <<>>
             /\ Builder(SubPath(paths[i])) = Builder(SubPath(paths[k]))
  BY DEF Batches
<1> DEFINE N == Len(paths)
<1>2. /\ paths \in Seq(Path) /\ paths # <<>> /\ N \in Nat /\ N # 0 /\ DOMAIN paths = 1 .. N
      /\ \A i \in 1 .. N : paths[i] \in Path
      /\ \A i, k \in 1 .. N : paths[i] = paths[k] => i = k
  <2>1. paths \in Seq(Path) /\ paths # <<>> /\ \A i, k \in 1 .. N : paths[i] = paths[k] => i = k
    BY Constants
  <2>2. \A i \in 1 .. N : paths[i] \in Path
    BY <2>1, ElementOfSeq
  <2> QED BY <2>1, <2>2
<1>3. ASSUME NEW i \in 1 .. N
      PROVE  /\ batched[i] = SubPath(paths[i]) /\ batched[i] \in Seq(Transfer) \ {<<>>}
             /\ Len(batched[i]) <= Len(paths[i]) /\ Len(batched[i]) \in Nat /\ Len(paths[i]) \in Nat
             /\ \A a \in 1 .. Len(batched[i]) :
                  /\ a \in 1 .. Len(paths[i]) /\ batched[i][a] = paths[i][a]
                  /\ Server(paths[i][a]) # NoHost
  <2>1. paths[i] \in Path /\ batched[i] = SubPath(paths[i]) /\ SubPath(paths[i]) # <<>>
    BY <1>1, <1>2
  <2>2. PICK n \in 0 .. Len(paths[i]) :
           /\ SubPath(paths[i]) \in Seq(Transfer) /\ Len(SubPath(paths[i])) = n
           /\ \A a \in 1 .. n : SubPath(paths[i])[a] = paths[i][a] /\ Server(paths[i][a]) # NoHost
    BY <2>1, SubPathIs
  <2>3. Len(paths[i]) \in Nat
    BY <2>1, Constants
  <2>4. \A a \in 1 .. n : a \in 1 .. Len(paths[i])
    BY <2>3
  <2> QED BY <2>1, <2>2, <2>3, <2>4
<1>4. batched \in Seq(Seq(Transfer) \ {<<>>}) /\ batched # <<>> /\ Len(batched) = N
  <2>1. batched = [i \in 1 .. N |-> SubPath(paths[i])]
    BY <1>1, <1>2
  <2>2. \A i \in 1 .. N : SubPath(paths[i]) \in Seq(Transfer) \ {<<>>}
    BY <1>3
  <2>3. batched \in [1 .. N -> Seq(Transfer) \ {<<>>}]
    BY <2>1, <2>2
  <2>4. batched \in Seq(Seq(Transfer) \ {<<>>}) /\ Len(batched) = N
    BY <1>2, <2>3
  <2> QED BY <1>2, <2>4
<1>5. ASSUME NEW i \in 1 .. N, NEW k \in 1 .. N, NEW a \in 1 .. Len(batched[i]),
             NEW b \in 1 .. Len(batched[k]), batched[i][a] = batched[k][b]
      PROVE  i = k /\ a = b
  <2>1. paths[i][a] = paths[k][b] /\ a \in 1 .. Len(paths[i]) /\ b \in 1 .. Len(paths[k])
    BY <1>3, <1>5
  <2>2. paths[i] = paths[k] /\ a = b
    BY <1>2, <2>1, Constants
  <2> QED BY <1>2, <2>2
<1>6. ASSUME NEW i \in 1 .. N, NEW a \in 1 .. Len(batched[i]) - 1
      PROVE  ~Attr[batched[i][a].dst].tape /\ ~Attr[batched[i][a + 1].sources[1]].tape
  <2>1. a \in 1 .. Len(paths[i]) - 1 /\ a \in 1 .. Len(batched[i]) /\ a + 1 \in 1 .. Len(batched[i])
    BY <1>3
  <2>2. batched[i][a] = paths[i][a] /\ batched[i][a + 1] = paths[i][a + 1]
    BY <1>3, <2>1
  <2> QED BY <1>2, <2>1, <2>2, Constants
<1>7. \A i, k \in 1 .. N : Builder(batched[i]) = Builder(batched[k])
  BY <1>1, <1>2, <1>3
<1>8. \A i \in 1 .. N : \A a \in 1 .. Len(batched[i]) : Server(batched[i][a]) # NoHost
  BY <1>3
<1> QED BY <1>4, <1>5, <1>6, <1>7, <1>8 DEF GoodBatch

----------------------------------------------------------------------------
(* The parameters of a path that its files have to suit.                   *)
LEMMA Params ==
  ASSUME NEW p \in Seq(Transfer) \ {<<>>}
  PROVE  /\ JobParams(p).verify_checksum = PathStrategy(p)
         /\ JobParams(p).bring_online = Attr[Src(p[1])].tape
         /\ JobParams(p).multihop = (Len(p) > 1)
         /\ JobParams(p).multi_sources = (Len(p) = 1 /\ Len(p[1].sources) > 1)
         /\ JobParams(p).overwrite /\ Attr[p[Len(p)].dst].tape =>
              \/ p[Len(p)].overwrite = "yes"
              \/ /\ Attr[p[Len(p)].dst].overwrite
                 /\ ~Attr[p[Len(p)].dst].overwrite_when_only_on_disk
<1>1. Len(p) = 1 => p[Len(p)] = p[1]
  OBVIOUS
<1>2. JobParams(p).verify_checksum = PathStrategy(p)
  BY DEF JobParams
<1>3. JobParams(p).bring_online = Attr[Src(p[1])].tape
  BY DEF JobParams
<1>4. JobParams(p).multihop = (Len(p) > 1)
  BY DEF JobParams
<1>5. JobParams(p).multi_sources = (Len(p) = 1 /\ Len(p[1].sources) > 1)
  BY <1>1 DEF JobParams
<1>6. JobParams(p).overwrite /\ Attr[p[Len(p)].dst].tape =>
              \/ p[Len(p)].overwrite = "yes"
              \/ /\ Attr[p[Len(p)].dst].overwrite
                 /\ ~Attr[p[Len(p)].dst].overwrite_when_only_on_disk
  BY DEF JobParams
<1> QED BY <1>2, <1>3, <1>4, <1>5, <1>6

(* A path that may share a job has one hop with one source.                *)
LEMMA NotAlone ==
  ASSUME NEW p \in Seq(Transfer) \ {<<>>}, ~Alone(p)
  PROVE  /\ Len(p) = 1 /\ p[1] \in Transfer /\ p[1].sources = <<Src(p[1])>>
         /\ ~JobParams(p).multihop /\ ~JobParams(p).multi_sources
<1>1. ~JobParams(p).multihop /\ ~JobParams(p).multi_sources
  BY DEF Alone
<1>2. Len(p) \in Nat /\ Len(p) # 0
  OBVIOUS
<1>3. ~(Len(p) > 1) /\ ~(Len(p) = 1 /\ Len(p[1].sources) > 1)
  BY <1>1, Params
<1>4. Len(p) = 1 /\ p[1] \in Transfer
  <2>1. Len(p) = 1
    <3> DEFINE n == Len(p)
    <3>1. n \in Nat /\ n # 0 /\ ~(n > 1)
      BY <1>2, <1>3
    <3> HIDE DEF n
    <3>2. n = 1
      BY <3>1
    <3> QED BY <3>2 DEF n
  <2>2. 1 \in 1 .. Len(p) /\ p \in Seq(Transfer)
    BY <2>1
  <2> QED BY <2>1, <2>2, ElementOfSeq
<1>5. p[1].sources \in Seq(RSE) /\ p[1].sources # <<>>
  BY <1>4, Constants
<1>6. Len(p[1].sources) = 1
  BY <1>3, <1>4, <1>5
<1>7. p[1].sources = <<p[1].sources[1]>>
  BY <1>5, <1>6
<1> QED BY <1>1, <1>4, <1>7 DEF Src

(* What the parameters of a job have to do with a transfer of it.          *)
Suits(params, t) ==
  /\ params.verify_checksum \in C({})!Strategy
  /\ C({})!Sides(params.verify_checksum) \subseteq C({})!Sides(Own(t))
  /\ ~params.multihop => C({})!Sides(params.verify_checksum) = C({})!Sides(Own(t))
  /\ Attr[t.dst].tape /\ params.overwrite =>
       \/ t.overwrite = "yes"
       \/ Attr[t.dst].overwrite /\ ~Attr[t.dst].overwrite_when_only_on_disk
  /\ Attr[Src(t)].tape => params.bring_online

(* The parameters of a path suit each of its hops: they are computed from  *)
(* its first source and its last destination, the only ones that may be    *)
(* tapes.                                                                  *)
LEMMA SuitsPath ==
  ASSUME NEW p \in Seq(Transfer) \ {<<>>}, NEW a \in 1 .. Len(p),
         \A i \in 1 .. Len(p) - 1 : ~Attr[p[i].dst].tape /\ ~Attr[p[i + 1].sources[1]].tape
  PROVE  Suits(JobParams(p), p[a])
<1> DEFINE s == PathStrategy(p)
<1>1. JobParams(p).verify_checksum = s /\ JobParams(p).multihop = (Len(p) > 1)
  BY Params
<1>2. /\ s \in C({})!Strategy /\ C({})!Sides(s) \subseteq {"source", "target"}
      /\ \A side \in {"source", "target"} :
           side \in C({})!Sides(s) <=> \A i \in 1 .. Len(p) : side \in C({})!Sides(Own(p[i]))
  BY StrategySides
<1>3. C({})!Sides(Own(p[a])) \subseteq {"source", "target"}
  BY HopStrategyType, SidesAre DEF Own
<1>4. C({})!Sides(s) \subseteq C({})!Sides(Own(p[a]))
  BY <1>2
<1>5. ASSUME ~(Len(p) > 1) PROVE C({})!Sides(Own(p[a])) \subseteq C({})!Sides(s)
  <2>1. \A i \in 1 .. Len(p) : i = a
    BY <1>5
  <2> QED BY <1>2, <1>3, <2>1
<1>6. ASSUME Attr[p[a].dst].tape PROVE a = Len(p)
  BY <1>6
<1>7. ASSUME Attr[Src(p[a])].tape PROVE a = 1
  <2>1. ASSUME a # 1 PROVE FALSE
    <3>1. a - 1 \in 1 .. Len(p) - 1 /\ (a - 1) + 1 = a
      BY <2>1
    <3> QED BY <1>7, <3>1 DEF Src
  <2> QED BY <2>1
<1>8. Attr[p[a].dst].tape /\ JobParams(p).overwrite =>
        \/ p[a].overwrite = "yes"
        \/ Attr[p[a].dst].overwrite /\ ~Attr[p[a].dst].overwrite_when_only_on_disk
  BY <1>6, Params
<1>9. Attr[Src(p[a])].tape => JobParams(p).bring_online
  BY <1>7, Params
<1> QED BY <1>1, <1>2, <1>4, <1>5, <1>8, <1>9 DEF Suits

(* Paths of one key have these parameters in common,                       *)
LEMMA KeyShares ==
  ASSUME NEW p, NEW q, GroupKey(p) = GroupKey(q)
  PROVE  /\ JobParams(p).verify_checksum = JobParams(q).verify_checksum
         /\ JobParams(p).bring_online = JobParams(q).bring_online
         /\ JobParams(p).overwrite = JobParams(q).overwrite
         /\ JobParams(p).spacetoken = JobParams(q).spacetoken
         /\ JobParams(p).terms = JobParams(q).terms
         /\ JobParams(p).overwrite_when_only_on_disk = JobParams(q).overwrite_when_only_on_disk
         /\ PolicyKey(p[1]) = PolicyKey(q[1])
<1>1. ParamsKey(p) = ParamsKey(q) /\ PolicyKey(p[1]) = PolicyKey(q[1])
  BY DEF GroupKey
<1> QED BY <1>1 DEF ParamsKey

(* and so those of one suit the transfers of the others.                   *)
LEMMA SuitsGroup ==
  ASSUME NEW p \in Seq(Transfer) \ {<<>>}, NEW q \in Seq(Transfer) \ {<<>>},
         ~Alone(p), ~Alone(q), GroupKey(p) = GroupKey(q)
  PROVE  Suits(JobParams(q), p[1])
<1>1. Len(p) = 1 /\ ~JobParams(p).multihop /\ ~JobParams(q).multihop
  BY NotAlone
<1>2. Suits(JobParams(p), p[1])
  BY <1>1, SuitsPath
<1> QED BY <1>1, <1>2, KeyShares DEF Suits

----------------------------------------------------------------------------
(* Division by the length of a chunk.                                      *)
LEMMA Division ==
  ASSUME NEW n \in Nat, NEW b \in Nat, b >= 1
  PROVE  /\ n \div b \in Nat /\ (n \div b) * b <= n /\ n < (n \div b) * b + b
         /\ \A k \in Nat : k * b <= n /\ n < k * b + b => k = n \div b
OBVIOUS

(* The k-th chunk of a sequence, and where it ends.                        *)
ChunkEnd(s, k) == IF Len(s) < (k + 1) * GroupBulk THEN Len(s) ELSE (k + 1) * GroupBulk

ChunkOf(s, k) == SubSeq(s, k * GroupBulk + 1, ChunkEnd(s, k))

(* A chunk has at least one element and at most group_bulk.                *)
LEMMA ChunkIs ==
  ASSUME NEW X, NEW s \in Seq(X), s # <<>>, NEW k \in 0 .. (Len(s) - 1) \div GroupBulk
  PROVE  /\ ChunkOf(s, k) \in Seq(X) /\ Len(ChunkOf(s, k)) = ChunkEnd(s, k) - k * GroupBulk
         /\ k * GroupBulk \in Nat /\ Len(ChunkOf(s, k)) \in 1 .. GroupBulk
         /\ \A n \in 1 .. Len(ChunkOf(s, k)) :
              k * GroupBulk + n \in 1 .. Len(s) /\ ChunkOf(s, k)[n] = s[k * GroupBulk + n]
<1> DEFINE c == ChunkOf(s, k)
           B == GroupBulk
           L == Len(s)
           lo == k * B
           hi == ChunkEnd(s, k)
<1>1. B \in Nat /\ B >= 1 /\ L \in Nat /\ L >= 1 /\ k \in Nat
  BY Constants
<1>2. k * B <= L - 1
  <2>1. L - 1 \in Nat
    BY <1>1
  <2>2. ((L - 1) \div B) * B <= L - 1 /\ (L - 1) \div B \in Nat
    BY <1>1, <2>1, Division
  <2>3. k * B <= ((L - 1) \div B) * B
    BY <1>1, <2>2
  <2>4. k * B \in Nat /\ ((L - 1) \div B) * B \in Nat
    BY <1>1, <2>2
  <2> QED BY <2>1, <2>2, <2>3, <2>4
<1>3. lo \in Nat /\ lo <= L - 1 /\ (k + 1) * B = lo + B
  BY <1>1, <1>2
<1>4. hi = IF L < lo + B THEN L ELSE lo + B
  BY <1>3 DEF ChunkEnd
<1> HIDE DEF lo, hi, L, B, c
<1>5. hi \in Nat /\ lo + 1 <= hi /\ hi <= L /\ hi - lo \in 1 .. B
  BY <1>1, <1>3, <1>4
<1>6. c = SubSeq(s, lo + 1, hi)
  BY DEF lo, hi, B, c, ChunkOf
<1>7. \A i \in lo + 1 .. hi : s[i] \in X
  <2>1. \A i \in lo + 1 .. hi : i \in 1 .. L
    BY <1>1, <1>3, <1>5
  <2> QED BY <2>1, ElementOfSeq DEF L
<1>8. hi - (lo + 1) + 1 = hi - lo /\ \A n \in 1 .. hi - lo : (lo + 1) + n - 1 = lo + n
  BY <1>3, <1>5
<1>9. /\ c \in Seq(X) /\ Len(c) = hi - lo
      /\ \A n \in 1 .. hi - lo : c[n] = s[lo + n]
  <2>1. lo + 1 \in Int /\ hi \in Int /\ lo + 1 <= hi
    BY <1>3, <1>5
  <2>2. /\ c \in Seq(X) /\ Len(c) = hi - (lo + 1) + 1
        /\ \A n \in 1 .. hi - (lo + 1) + 1 : c[n] = s[(lo + 1) + n - 1]
    <3>1. ASSUME NEW i \in Int, i = lo + 1, \A j \in i .. hi : s[j] \in X, i <= hi
          PROVE  /\ SubSeq(s, i, hi) \in Seq(X) /\ Len(SubSeq(s, i, hi)) = hi - i + 1
                 /\ \A n \in 1 .. hi - i + 1 : SubSeq(s, i, hi)[n] = s[i + n - 1]
      BY <2>1, <3>1, SubSeqProperties
    <3> QED BY <1>6, <1>7, <2>1, <3>1
  <2> QED BY <1>8, <2>2
<1>10. \A n \in 1 .. hi - lo : lo + n \in 1 .. L
  BY <1>1, <1>3, <1>5
<1> QED BY <1>3, <1>5, <1>9, <1>10 DEF lo, hi, B, L, c

(* chunks makes these.                                                     *)
LEMMA ChunksAre ==
  ASSUME NEW s
  PROVE  Chunks(s) = {ChunkOf(s, k) : k \in 0 .. (Len(s) - 1) \div GroupBulk}
BY DEF Chunks, ChunkEnd, ChunkOf

(* Every element is in one chunk only.                                     *)
LEMMA InOneChunk ==
  ASSUME NEW X, NEW s \in Seq(X), NEW m \in 1 .. Len(s)
  PROVE  /\ (m - 1) \div GroupBulk \in 0 .. (Len(s) - 1) \div GroupBulk
         /\ m - ((m - 1) \div GroupBulk) * GroupBulk
              \in 1 .. ChunkEnd(s, (m - 1) \div GroupBulk) - ((m - 1) \div GroupBulk) * GroupBulk
         /\ \A k \in Nat, n \in 1 .. GroupBulk :
              k * GroupBulk + n = m => k = (m - 1) \div GroupBulk
<1> DEFINE B == GroupBulk
           L == Len(s)
           k0 == (m - 1) \div B
<1>1. B \in Nat /\ B >= 1 /\ L \in Nat /\ m - 1 \in Nat /\ L - 1 \in Nat /\ m <= L /\ m \in Nat
  BY Constants
<1>2. k0 \in Nat /\ k0 * B <= m - 1 /\ m - 1 < k0 * B + B /\ k0 * B \in Nat
  BY <1>1, Division
<1>3. \A k \in Nat : k * B <= m - 1 /\ m - 1 < k * B + B => k = k0
  BY <1>1, Division
<1>4. k0 <= (L - 1) \div B
  <2> DEFINE k1 == (L - 1) \div B
  <2>1. k1 \in Nat /\ L - 1 < k1 * B + B
    BY <1>1, Division
  <2>2. ASSUME ~(k0 <= k1) PROVE FALSE
    <3> HIDE DEF k0, k1, L, B
    <3>1. k1 + 1 <= k0
      BY <1>2, <2>1, <2>2
    <3>2. (k1 + 1) * B <= k0 * B
      BY <1>1, <1>2, <2>1, <3>1
    <3>3. (k1 + 1) * B = k1 * B + B /\ k1 * B \in Nat
      BY <1>1, <2>1
    <3> QED BY <1>1, <1>2, <2>1, <3>2, <3>3
  <2> QED BY <2>2
<1>5. (L - 1) \div B \in Nat
  BY <1>1, Division
<1>6. (k0 + 1) * B = k0 * B + B
  BY <1>1, <1>2
<1>7. m - k0 * B \in 1 .. ChunkEnd(s, k0) - k0 * B
  <2> HIDE DEF k0
  <2> QED BY <1>1, <1>2, <1>6 DEF ChunkEnd
<1>8. ASSUME NEW k \in Nat, NEW n \in 1 .. B, k * B + n = m PROVE k = k0
  <2>1. k * B \in Nat
    BY <1>1
  <2>2. k * B <= m - 1 /\ m - 1 < k * B + B
    BY <1>1, <1>8, <2>1
  <2> QED BY <1>3, <2>2
<1> QED BY <1>2, <1>4, <1>5, <1>7, <1>8

----------------------------------------------------------------------------
(* The transfers of a group, the two kinds of jobs, and the group of a     *)
(* path.                                                                   *)
Firsts(g) == [i \in DOMAIN g |-> g[i][1]]
AloneJob(p) == [transfers |-> Cut(p), params |-> JobParams(p)]
ChunkJob(g, k) ==
  [transfers |-> ChunkOf(Firsts(g), k), params |-> JobParams(g[1])]
NumChunks(g) == 0 .. (Len(Firsts(g)) - 1) \div GroupBulk
GroupOf(paths, i) == Group(paths, GroupKey(paths[i]))

(* Every job is of one of the two kinds.                                   *)
LEMMA JobsAre ==
  ASSUME NEW paths, NEW job
  PROVE  job \in JobsOf(paths) <=>
           \/ \E i \in DOMAIN paths : Alone(paths[i]) /\ job = AloneJob(paths[i])
           \/ \E i \in DOMAIN paths : /\ ~Alone(paths[i])
                                      /\ \E k \in NumChunks(GroupOf(paths, i)) :
                                           job = ChunkJob(GroupOf(paths, i), k)
<1> DEFINE each == {paths[i] : i \in DOMAIN paths}
           groups == {Group(paths, GroupKey(p)) : p \in {p \in each : ~Alone(p)}}
           chunked(g) == {[transfers |-> c, params |-> JobParams(g[1])] : c \in Chunks(Firsts(g))}
<1>1. JobsOf(paths) = {[transfers |-> Cut(p), params |-> JobParams(p)] :
                         p \in {p \in each : Alone(p)}}
                      \cup UNION {chunked(g) : g \in groups}
  BY DEF JobsOf, Firsts
<1>2. job \in {[transfers |-> Cut(p), params |-> JobParams(p)] : p \in {p \in each : Alone(p)}} <=>
        \E i \in DOMAIN paths : Alone(paths[i]) /\ job = AloneJob(paths[i])
  BY DEF AloneJob
<1>3. ASSUME NEW g
      PROVE  job \in chunked(g) <=> \E k \in NumChunks(g) : job = ChunkJob(g, k)
  BY ChunksAre DEF ChunkJob, NumChunks
<1>4. job \in UNION {chunked(g) : g \in groups} <=>
        \E i \in DOMAIN paths : ~Alone(paths[i]) /\ job \in chunked(GroupOf(paths, i))
  BY DEF GroupOf
<1> QED BY <1>1, <1>2, <1>3, <1>4

(* A path that is cut keeps its first group_bulk hops.                     *)
LEMMA CutIs ==
  ASSUME NEW p \in Seq(Transfer) \ {<<>>}
  PROVE  /\ Cut(p) \in Seq(Transfer) /\ Len(Cut(p)) \in 1 .. GroupBulk
         /\ Len(Cut(p)) = IF Len(p) < GroupBulk THEN Len(p) ELSE GroupBulk
         /\ \A n \in 1 .. Len(Cut(p)) : n \in 1 .. Len(p) /\ Cut(p)[n] = p[n]
<1> DEFINE h == IF Len(p) < GroupBulk THEN Len(p) ELSE GroupBulk
<1>1. Len(p) \in Nat /\ Len(p) # 0 /\ GroupBulk \in Nat /\ GroupBulk >= 1
  BY Constants
<1>2. h \in 1 .. GroupBulk /\ h <= Len(p) /\ h \in Int /\ 1 \in Int /\ 1 <= h
  BY <1>1
<1>3. Cut(p) = SubSeq(p, 1, h)
  BY DEF Cut
<1> HIDE DEF h
<1>4. \A i \in 1 .. h : i \in 1 .. Len(p) /\ p[i] \in Transfer
  <2>1. \A i \in 1 .. h : i \in 1 .. Len(p)
    BY <1>1, <1>2
  <2> QED BY <2>1, ElementOfSeq
<1>5. h - 1 + 1 = h /\ \A n \in 1 .. h : 1 + n - 1 = n
  BY <1>2
<1>6. /\ SubSeq(p, 1, h) \in Seq(Transfer) /\ Len(SubSeq(p, 1, h)) = h
      /\ \A n \in 1 .. h : SubSeq(p, 1, h)[n] = p[n]
  BY <1>2, <1>4, <1>5, SubSeqProperties
<1> QED BY <1>2, <1>3, <1>4, <1>6 DEF h

(* The paths of a round have hops.                                         *)
LEMMA BatchPath ==
  ASSUME NEW paths, GoodBatch(paths), NEW i \in 1 .. Len(paths)
  PROVE  paths[i] \in Seq(Transfer) \ {<<>>}
<1>1. paths \in Seq(Seq(Transfer) \ {<<>>})
  BY DEF GoodBatch
<1> QED BY <1>1, ElementOfSeq

(* The group of a path: the paths of the round that have its key.          *)
LEMMA GroupFacts ==
  ASSUME NEW paths, GoodBatch(paths), NEW i \in 1 .. Len(paths), ~Alone(paths[i])
  PROVE  /\ GroupOf(paths, i) \in Seq(Seq(Transfer) \ {<<>>}) /\ GroupOf(paths, i) # <<>>
         /\ Firsts(GroupOf(paths, i)) \in Seq(Transfer)
         /\ Len(Firsts(GroupOf(paths, i))) = Len(GroupOf(paths, i))
         /\ \A n \in 1 .. Len(GroupOf(paths, i)) :
              /\ Firsts(GroupOf(paths, i))[n] = GroupOf(paths, i)[n][1]
              /\ \E k \in 1 .. Len(paths) :
                   /\ GroupOf(paths, i)[n] = paths[k] /\ ~Alone(paths[k])
                   /\ GroupKey(paths[k]) = GroupKey(paths[i])
         /\ \A k \in 1 .. Len(paths) :
              ~Alone(paths[k]) /\ GroupKey(paths[k]) = GroupKey(paths[i]) =>
                \E n \in 1 .. Len(GroupOf(paths, i)) : GroupOf(paths, i)[n] = paths[k]
         /\ \A m, n \in 1 .. Len(GroupOf(paths, i)) :
              GroupOf(paths, i)[m] = GroupOf(paths, i)[n] => m = n
<1> DEFINE X == Seq(Transfer) \ {<<>>}
           key == GroupKey(paths[i])
           g == GroupOf(paths, i)
<1>1. paths \in Seq(X)
  BY DEF GoodBatch
<1>2. ASSUME NEW k \in 1 .. Len(paths), NEW m \in 1 .. Len(paths), paths[k] = paths[m]
      PROVE  k = m
  <2>1. paths[k] \in X /\ 1 \in 1 .. Len(paths[k])
    BY BatchPath
  <2>2. paths[k][1] = paths[m][1] /\ 1 \in 1 .. Len(paths[m])
    BY <1>2, <2>1
  <2>3. \A a \in 1 .. Len(paths[k]), b \in 1 .. Len(paths[m]) :
          paths[k][a] = paths[m][b] => k = m /\ a = b
    BY DEF GoodBatch
  <2> QED BY <2>1, <2>2, <2>3
<1>3. g = Group(paths, key)
  BY DEF GroupOf
<1> HIDE DEF X
<1>4. /\ Group(paths, key) \in Seq(X)
      /\ \A n \in 1 .. Len(Group(paths, key)) : \E k \in 1 .. Len(paths) :
           Group(paths, key)[n] = paths[k] /\ InGroup(paths[k], key)
      /\ \A k \in 1 .. Len(paths) : InGroup(paths[k], key) =>
           \E n \in 1 .. Len(Group(paths, key)) : Group(paths, key)[n] = paths[k]
      /\ \A m, n \in 1 .. Len(Group(paths, key)) :
           Group(paths, key)[m] = Group(paths, key)[n] => m = n
  <2> HIDE DEF key
  <2>1. \A k, m \in 1 .. Len(paths) : paths[k] = paths[m] => k = m
    BY <1>2
  <2> QED BY <1>1, <2>1, GroupIs
<1> HIDE DEF g
<1>5. /\ g \in Seq(X)
      /\ \A n \in 1 .. Len(g) : \E k \in 1 .. Len(paths) : g[n] = paths[k] /\ InGroup(paths[k], key)
      /\ \A k \in 1 .. Len(paths) : InGroup(paths[k], key) => \E n \in 1 .. Len(g) : g[n] = paths[k]
      /\ \A m, n \in 1 .. Len(g) : g[m] = g[n] => m = n
  BY <1>3, <1>4
<1>6. g # <<>>
  <2>1. PICK n \in 1 .. Len(g) : g[n] = paths[i]
    BY <1>5 DEF InGroup
  <2> QED BY <2>1
<1>7. Firsts(g) \in Seq(Transfer) /\ Len(Firsts(g)) = Len(g)
      /\ \A n \in 1 .. Len(g) : Firsts(g)[n] = g[n][1]
  <2>1. \A n \in 1 .. Len(g) : g[n][1] \in Transfer
    <3>1. ASSUME NEW n \in 1 .. Len(g) PROVE g[n][1] \in Transfer
      <4>1. g[n] \in X
        BY <1>5, ElementOfSeq
      <4>2. g[n] \in Seq(Transfer) /\ 1 \in 1 .. Len(g[n])
        BY <4>1 DEF X
      <4> QED BY <4>2, ElementOfSeq
    <3> QED BY <3>1
  <2>2. DOMAIN g = 1 .. Len(g) /\ Len(g) \in Nat
    BY <1>5
  <2>3. Firsts(g) = [n \in 1 .. Len(g) |-> g[n][1]]
    BY <2>2 DEF Firsts
  <2>4. Firsts(g) \in [1 .. Len(g) -> Transfer]
    BY <2>1, <2>3
  <2>5. Firsts(g) \in Seq(Transfer) /\ Len(Firsts(g)) = Len(g)
    BY <2>2, <2>4
  <2> QED BY <2>3, <2>5
<1> QED BY <1>5, <1>6, <1>7 DEF g, key, X, InGroup

(* The transfers of a chunk, by their places in the group.                 *)
LEMMA ChunkJobIs ==
  ASSUME NEW paths, GoodBatch(paths), NEW i \in 1 .. Len(paths), ~Alone(paths[i]),
         NEW k \in NumChunks(GroupOf(paths, i)), NEW job, job = ChunkJob(GroupOf(paths, i), k)
  PROVE  /\ job.transfers \in Seq(Transfer) /\ Len(job.transfers) \in 1 .. GroupBulk
         /\ Len(job.transfers)
              = ChunkEnd(Firsts(GroupOf(paths, i)), k) - k * GroupBulk
         /\ k \in Nat /\ k * GroupBulk \in Nat
         /\ \A n \in 1 .. Len(job.transfers) :
              /\ k * GroupBulk + n \in 1 .. Len(GroupOf(paths, i))
              /\ job.transfers[n] = GroupOf(paths, i)[k * GroupBulk + n][1]
         /\ job.params = JobParams(GroupOf(paths, i)[1])
<1> DEFINE g == GroupOf(paths, i)
           s == Firsts(g)
           c == ChunkOf(s, k)
<1>1. /\ s \in Seq(Transfer) /\ Len(s) = Len(g) /\ g # <<>> /\ Len(g) \in Nat
      /\ \A n \in 1 .. Len(g) : s[n] = g[n][1]
  BY GroupFacts
<1>2. s # <<>>
  <2>1. Len(g) # 0
    BY <1>1, GroupFacts
  <2> QED BY <1>1, <2>1
<1>3. k \in 0 .. (Len(s) - 1) \div GroupBulk
  BY DEF NumChunks
<1>4. /\ c \in Seq(Transfer) /\ Len(c) = ChunkEnd(s, k) - k * GroupBulk
      /\ k * GroupBulk \in Nat /\ Len(c) \in 1 .. GroupBulk
      /\ \A n \in 1 .. Len(c) :
           k * GroupBulk + n \in 1 .. Len(s) /\ c[n] = s[k * GroupBulk + n]
  <2> HIDE DEF s
  <2> QED BY <1>1, <1>2, <1>3, ChunkIs
<1>5. job.transfers = c /\ job.params = JobParams(g[1])
  BY DEF ChunkJob
<1>6. k \in Nat
  BY <1>3
<1> QED
  <2> HIDE DEF c
  <2>1. \A n \in 1 .. Len(c) : /\ k * GroupBulk + n \in 1 .. Len(g)
                               /\ c[n] = g[k * GroupBulk + n][1]
    BY <1>1, <1>4
  <2> QED BY <1>4, <1>5, <1>6, <2>1

(* Where the n-th transfer of a job comes from: the n-th hop of a path     *)
(* alone in its job, or a path of one hop whose key the group has.         *)
ComesFrom(job, n, paths, k) ==
  \/ /\ Alone(paths[k]) /\ job.params = JobParams(paths[k])
     /\ n \in 1 .. Len(paths[k]) /\ job.transfers[n] = paths[k][n]
  \/ /\ ~Alone(paths[k]) /\ job.transfers[n] = paths[k][1]
     /\ \E m \in 1 .. Len(paths) :
          /\ ~Alone(paths[m]) /\ GroupKey(paths[m]) = GroupKey(paths[k])
          /\ job.params = JobParams(paths[m])

(* Every transfer of a job comes from a path of the round, and no job is   *)
(* empty or longer than group_bulk.                                        *)
LEMMA JobFrom ==
  ASSUME NEW paths, GoodBatch(paths), NEW job \in JobsOf(paths)
  PROVE  /\ job.transfers \in Seq(Transfer) /\ Len(job.transfers) \in 1 .. GroupBulk
         /\ \A n \in 1 .. Len(job.transfers) : \E k \in 1 .. Len(paths) :
              ComesFrom(job, n, paths, k)
<1>0. DOMAIN paths = 1 .. Len(paths)
  BY DEF GoodBatch
<1>1. ASSUME NEW k \in 1 .. Len(paths), Alone(paths[k]), job = AloneJob(paths[k])
      PROVE  /\ job.transfers \in Seq(Transfer) /\ Len(job.transfers) \in 1 .. GroupBulk
             /\ \A n \in 1 .. Len(job.transfers) :
                  /\ job.params = JobParams(paths[k])
                  /\ n \in 1 .. Len(paths[k]) /\ job.transfers[n] = paths[k][n]
  <2>1. paths[k] \in Seq(Transfer) \ {<<>>}
    BY BatchPath
  <2>2. job.transfers = Cut(paths[k]) /\ job.params = JobParams(paths[k])
    BY <1>1 DEF AloneJob
  <2> QED BY <2>1, <2>2, CutIs
<1>2. ASSUME NEW i \in 1 .. Len(paths), ~Alone(paths[i]), NEW k \in NumChunks(GroupOf(paths, i)),
             job = ChunkJob(GroupOf(paths, i), k)
      PROVE  /\ job.transfers \in Seq(Transfer) /\ Len(job.transfers) \in 1 .. GroupBulk
             /\ \A n \in 1 .. Len(job.transfers) : \E j, m \in 1 .. Len(paths) :
                  /\ ~Alone(paths[j]) /\ job.transfers[n] = paths[j][1]
                  /\ ~Alone(paths[m]) /\ GroupKey(paths[m]) = GroupKey(paths[j])
                  /\ job.params = JobParams(paths[m])
  <2> DEFINE g == GroupOf(paths, i)
  <2>1. /\ job.transfers \in Seq(Transfer) /\ Len(job.transfers) \in 1 .. GroupBulk
        /\ \A n \in 1 .. Len(job.transfers) :
             /\ k * GroupBulk + n \in 1 .. Len(g)
             /\ job.transfers[n] = g[k * GroupBulk + n][1]
        /\ job.params = JobParams(g[1])
    BY <1>2, ChunkJobIs
  <2>2. \A n \in 1 .. Len(g) : \E j \in 1 .. Len(paths) :
          /\ g[n] = paths[j] /\ ~Alone(paths[j])
          /\ GroupKey(paths[j]) = GroupKey(paths[i])
    BY <1>2, GroupFacts
  <2>3. 1 \in 1 .. Len(g)
    BY <1>2, GroupFacts
  <2> HIDE DEF g
  <2>4. PICK m \in 1 .. Len(paths) :
           g[1] = paths[m] /\ ~Alone(paths[m]) /\ GroupKey(paths[m]) = GroupKey(paths[i])
    BY <2>2, <2>3
  <2>5. ASSUME NEW n \in 1 .. Len(job.transfers)
        PROVE  \E j, l \in 1 .. Len(paths) :
                  /\ ~Alone(paths[j]) /\ job.transfers[n] = paths[j][1]
                  /\ ~Alone(paths[l]) /\ GroupKey(paths[l]) = GroupKey(paths[j])
                  /\ job.params = JobParams(paths[l])
    <3>1. PICK j \in 1 .. Len(paths) :
             /\ g[k * GroupBulk + n] = paths[j] /\ ~Alone(paths[j])
             /\ GroupKey(paths[j]) = GroupKey(paths[i])
      BY <2>1, <2>2
    <3> QED BY <2>1, <2>4, <3>1
  <2> QED BY <2>1, <2>5
<1>3. \/ \E i \in 1 .. Len(paths) : Alone(paths[i]) /\ job = AloneJob(paths[i])
      \/ \E i \in 1 .. Len(paths) : ~Alone(paths[i]) /\ \E k \in NumChunks(GroupOf(paths, i)) :
                                      job = ChunkJob(GroupOf(paths, i), k)
  BY <1>0, JobsAre
<1>4. CASE \E i \in 1 .. Len(paths) : Alone(paths[i]) /\ job = AloneJob(paths[i])
  BY <1>1, <1>4 DEF ComesFrom
<1>5. CASE \E i \in 1 .. Len(paths) : ~Alone(paths[i]) /\ \E k \in NumChunks(GroupOf(paths, i)) :
                                         job = ChunkJob(GroupOf(paths, i), k)
  BY <1>2, <1>5 DEF ComesFrom
<1> QED BY <1>3, <1>4, <1>5

(* A job that suits each of its transfers.                                 *)
JobSuits(job, oidc) ==
  /\ job.transfers \in Seq(Transfer) /\ Len(job.transfers) \in 1 .. GroupBulk
  /\ \A n \in 1 .. Len(job.transfers) :
       Suits(job.params, job.transfers[n]) /\ (oidc => UseTokens(job.transfers[n]))

(* Every job does: the paths of a round take tokens all or none.           *)
LEMMA JobsSuit ==
  ASSUME NEW paths, GoodBatch(paths), NEW job \in JobsOf(paths)
  PROVE  JobSuits(job, Builder(paths[1]).oidc)
<1> DEFINE oidc == Builder(paths[1]).oidc
<1>1. ASSUME NEW k \in 1 .. Len(paths), NEW a \in 1 .. Len(paths[k]), oidc
      PROVE  UseTokens(paths[k][a])
  <2>1. 1 \in 1 .. Len(paths)
    OBVIOUS
  <2>2. Builder(paths[k]).oidc
    BY <1>1, <2>1 DEF GoodBatch
  <2>3. a \in DOMAIN paths[k]
    BY BatchPath
  <2> QED BY <2>2, <2>3 DEF Builder
<1>2. ASSUME NEW k \in 1 .. Len(paths), NEW a \in 1 .. Len(paths[k])
      PROVE  Suits(JobParams(paths[k]), paths[k][a])
  <2>1. \A b \in 1 .. Len(paths[k]) - 1 :
          ~Attr[paths[k][b].dst].tape /\ ~Attr[paths[k][b + 1].sources[1]].tape
    BY DEF GoodBatch
  <2> QED BY <2>1, BatchPath, SuitsPath
<1>3. ASSUME NEW n \in 1 .. Len(job.transfers)
      PROVE  Suits(job.params, job.transfers[n]) /\ (oidc => UseTokens(job.transfers[n]))
  <2>1. PICK k \in 1 .. Len(paths) : ComesFrom(job, n, paths, k)
    BY JobFrom
  <2> HIDE DEF oidc
  <2>2. CASE /\ Alone(paths[k]) /\ job.params = JobParams(paths[k])
             /\ n \in 1 .. Len(paths[k]) /\ job.transfers[n] = paths[k][n]
    BY <1>1, <1>2, <2>2
  <2>3. ASSUME ~Alone(paths[k]), job.transfers[n] = paths[k][1], NEW m \in 1 .. Len(paths),
               ~Alone(paths[m]), GroupKey(paths[m]) = GroupKey(paths[k]),
               job.params = JobParams(paths[m])
        PROVE  Suits(job.params, job.transfers[n]) /\ (oidc => UseTokens(job.transfers[n]))
    <3>1. paths[k] \in Seq(Transfer) \ {<<>>} /\ paths[m] \in Seq(Transfer) \ {<<>>}
      BY BatchPath
    <3>2. 1 \in 1 .. Len(paths[k])
      BY <3>1
    <3>3. Suits(JobParams(paths[m]), paths[k][1])
      BY <2>3, <3>1, SuitsGroup
    <3> QED BY <1>1, <2>3, <3>2, <3>3
  <2> QED BY <2>1, <2>2, <2>3 DEF ComesFrom
<1> QED BY <1>3, JobFrom DEF JobSuits

----------------------------------------------------------------------------
(* SharedParams, of one job.                                               *)
Shared(job) ==
  ~(job.params.multihop \/ job.params.multi_sources) =>
    \A i \in DOMAIN job.transfers :
      LET own == JobParams(<<job.transfers[i]>>) IN
      /\ policy # "rule" =>
           \A p \in {"strict_copy", "archive_timeout", "dst_file_report"} : job.params[p] = own[p]
      /\ policy \in {"src_dest", "rule_src_dest", "activity_src_dest"} => job.params = own

(* The parameters are a record of these fields,                            *)
LEMMA ParamsRecord ==
  ASSUME NEW p
  PROVE  JobParams(p) =
           [verify_checksum |-> JobParams(p).verify_checksum, terms |-> JobParams(p).terms,
            bring_online |-> JobParams(p).bring_online, multihop |-> JobParams(p).multihop,
            multi_sources |-> JobParams(p).multi_sources, overwrite |-> JobParams(p).overwrite,
            overwrite_hop |-> JobParams(p).overwrite_hop,
            overwrite_when_only_on_disk |-> JobParams(p).overwrite_when_only_on_disk,
            spacetoken |-> JobParams(p).spacetoken, strict_copy |-> JobParams(p).strict_copy,
            ipv4 |-> JobParams(p).ipv4, s3alternate |-> JobParams(p).s3alternate,
            archive_timeout |-> JobParams(p).archive_timeout,
            dst_file_report |-> JobParams(p).dst_file_report]
BY DEF JobParams

(* to an RSE that reports when a file is archived,                         *)
Archived(r) == Attr[r].tape /\ Attr[r].archive_timeout = "valid"

(* and those that the key leaves out depend on the RSEs only.              *)
LEMMA ParamsOfRses ==
  ASSUME NEW p \in Seq(Transfer), Len(p) = 1, p[1].sources = <<Src(p[1])>>
  PROVE  /\ JobParams(p).strict_copy = Attr[p[1].dst].strict_copy
         /\ JobParams(p).dst_file_report = Archived(p[1].dst)
         /\ JobParams(p).archive_timeout =
              CASE Archived(p[1].dst) /\ ArchiveTimeoutOverride = "none" -> "own"
                [] Archived(p[1].dst) /\ ArchiveTimeoutOverride = "set" -> "override"
                [] OTHER -> "none"
         /\ JobParams(p).s3alternate = (~Attr[Src(p[1])].s3host /\ ~Attr[p[1].dst].s3host)
         /\ JobParams(p).ipv4 = (\E r \in {Src(p[1]), p[1].dst} : Attr[r].ipv4)
         /\ JobParams(p).overwrite_hop = FALSE
         /\ JobParams(p).multihop = FALSE /\ JobParams(p).multi_sources = FALSE
<1>1. Endpoints(p[1]) = {Src(p[1]), p[1].dst}
  <2>1. DOMAIN p[1].sources = {1} /\ p[1].sources[1] = Src(p[1])
    <3>1. DOMAIN <<Src(p[1])>> = {1} /\ <<Src(p[1])>>[1] = Src(p[1])
      OBVIOUS
    <3> QED BY <3>1
  <2> QED BY <2>1 DEF Endpoints
<1>2. Len(p[1].sources) = 1
  OBVIOUS
<1>3. /\ JobParams(p).strict_copy = Attr[p[1].dst].strict_copy
      /\ JobParams(p).dst_file_report = Archived(p[1].dst)
  BY DEF JobParams, Archived
<1>4. JobParams(p).archive_timeout =
              CASE Archived(p[1].dst) /\ ArchiveTimeoutOverride = "none" -> "own"
                [] Archived(p[1].dst) /\ ArchiveTimeoutOverride = "set" -> "override"
                [] OTHER -> "none"
  BY DEF JobParams, Archived
<1>5. JobParams(p).s3alternate = (~Attr[Src(p[1])].s3host /\ ~Attr[p[1].dst].s3host)
  BY DEF JobParams
<1>6. JobParams(p).ipv4 = (\E r \in {Src(p[1]), p[1].dst} : Attr[r].ipv4)
  BY <1>1 DEF JobParams
<1>7. JobParams(p).overwrite_hop = FALSE
  <2>1. ~(Len(p) > 1)
    OBVIOUS
  <2>2. JobParams(p).overwrite_hop \in BOOLEAN /\ ~JobParams(p).overwrite_hop
    BY <2>1 DEF JobParams
  <2> QED BY <2>2
<1>8. JobParams(p).multihop = FALSE /\ JobParams(p).multi_sources = FALSE
  <2>1. ~(Len(p) > 1) /\ ~(Len(p[1].sources) > 1)
    BY <1>2
  <2>2. JobParams(p).multihop \in BOOLEAN /\ ~JobParams(p).multihop
    <3> DEFINE several == Len(p) > 1
    <3>1. JobParams(p).multihop = several
      BY DEF JobParams
    <3>2. several \in BOOLEAN /\ ~several
      BY <2>1
    <3> HIDE DEF several
    <3> QED BY <3>1, <3>2
  <2>3. JobParams(p).multi_sources \in BOOLEAN /\ ~JobParams(p).multi_sources
    BY <2>1 DEF JobParams
  <2> QED BY <2>2, <2>3
<1> QED BY <1>3, <1>4, <1>5, <1>6, <1>7, <1>8

(* A policy that names the RSEs makes them the same for the paths of one   *)
(* key.                                                                    *)
LEMMA SharedGroup ==
  ASSUME policy \in Policy, NEW p \in Seq(Transfer) \ {<<>>}, NEW q \in Seq(Transfer) \ {<<>>},
         ~Alone(p), ~Alone(q), GroupKey(p) = GroupKey(q)
  PROVE  /\ policy # "rule" =>
              /\ JobParams(p).strict_copy = JobParams(q).strict_copy
              /\ JobParams(p).archive_timeout = JobParams(q).archive_timeout
              /\ JobParams(p).dst_file_report = JobParams(q).dst_file_report
         /\ policy \in {"src_dest", "rule_src_dest", "activity_src_dest"} =>
              JobParams(p) = JobParams(q)
<1>1. /\ Len(p) = 1 /\ p[1].sources = <<Src(p[1])>> /\ p \in Seq(Transfer)
      /\ Len(q) = 1 /\ q[1].sources = <<Src(q[1])>> /\ q \in Seq(Transfer)
  BY NotAlone
<1>2. policy \in {"rule", "dest", "src_dest", "rule_src_dest", "activity_dest", "activity_src_dest"}
  BY SubmissionAssumption
<1>3. PolicyKey(p[1]) = PolicyKey(q[1])
  BY KeyShares
<1>4. policy # "rule" => p[1].dst = q[1].dst
  BY <1>2, <1>3 DEF PolicyKey
<1>5. policy \in {"src_dest", "rule_src_dest", "activity_src_dest"} =>
        p[1].dst = q[1].dst /\ Src(p[1]) = Src(q[1])
  BY <1>3 DEF PolicyKey
<1>6. ASSUME p[1].dst = q[1].dst
      PROVE  /\ JobParams(p).strict_copy = JobParams(q).strict_copy
             /\ JobParams(p).archive_timeout = JobParams(q).archive_timeout
             /\ JobParams(p).dst_file_report = JobParams(q).dst_file_report
  <2>1. /\ JobParams(p).strict_copy = Attr[p[1].dst].strict_copy
        /\ JobParams(q).strict_copy = Attr[q[1].dst].strict_copy
        /\ JobParams(p).dst_file_report = Archived(p[1].dst)
        /\ JobParams(q).dst_file_report = Archived(q[1].dst)
    BY <1>1, ParamsOfRses
  <2>2. JobParams(p).archive_timeout =
              CASE Archived(p[1].dst) /\ ArchiveTimeoutOverride = "none" -> "own"
                [] Archived(p[1].dst) /\ ArchiveTimeoutOverride = "set" -> "override"
                [] OTHER -> "none"
    BY <1>1, ParamsOfRses
  <2>3. JobParams(q).archive_timeout =
              CASE Archived(q[1].dst) /\ ArchiveTimeoutOverride = "none" -> "own"
                [] Archived(q[1].dst) /\ ArchiveTimeoutOverride = "set" -> "override"
                [] OTHER -> "none"
    BY <1>1, ParamsOfRses
  <2> QED BY <1>6, <2>1, <2>2, <2>3
<1>7. ASSUME p[1].dst = q[1].dst, Src(p[1]) = Src(q[1])
      PROVE  JobParams(p) = JobParams(q)
  <2>1. /\ JobParams(p).ipv4 = JobParams(q).ipv4
        /\ JobParams(p).s3alternate = JobParams(q).s3alternate
    BY <1>1, <1>7, ParamsOfRses
  <2>2. /\ JobParams(p).overwrite_hop = JobParams(q).overwrite_hop
        /\ JobParams(p).multihop = JobParams(q).multihop
        /\ JobParams(p).multi_sources = JobParams(q).multi_sources
    BY <1>1, ParamsOfRses
  <2> QED BY <1>6, <1>7, <2>1, <2>2, KeyShares, ParamsRecord
<1> QED BY <1>4, <1>5, <1>6, <1>7

(* Every job has, as far as its policy goes, the parameters of each of its *)
(* transfers.                                                              *)
LEMMA JobsShare ==
  ASSUME policy \in Policy, NEW paths, GoodBatch(paths), NEW job \in JobsOf(paths)
  PROVE  Shared(job)
<1> SUFFICES ASSUME ~(job.params.multihop \/ job.params.multi_sources),
                    NEW n \in DOMAIN job.transfers
             PROVE  /\ policy # "rule" =>
                         \A f \in {"strict_copy", "archive_timeout", "dst_file_report"} :
                           job.params[f] = JobParams(<<job.transfers[n]>>)[f]
                    /\ policy \in {"src_dest", "rule_src_dest", "activity_src_dest"} =>
                         job.params = JobParams(<<job.transfers[n]>>)
  BY DEF Shared
<1>1. n \in 1 .. Len(job.transfers)
  BY JobFrom
<1>2. PICK k \in 1 .. Len(paths) : ComesFrom(job, n, paths, k)
  BY <1>1, JobFrom
<1>3. ~Alone(paths[k])
  BY <1>2 DEF ComesFrom, Alone
<1>4. PICK m \in 1 .. Len(paths) :
          /\ ~Alone(paths[m]) /\ GroupKey(paths[m]) = GroupKey(paths[k])
          /\ job.params = JobParams(paths[m])
  BY <1>2, <1>3 DEF ComesFrom
<1>5. paths[k] \in Seq(Transfer) \ {<<>>} /\ paths[m] \in Seq(Transfer) \ {<<>>}
  BY BatchPath
<1>6. <<job.transfers[n]>> = paths[k]
  <2>1. Len(paths[k]) = 1
    BY <1>3, <1>5, NotAlone
  <2>2. job.transfers[n] = paths[k][1]
    BY <1>2, <1>3 DEF ComesFrom
  <2>3. paths[k] = <<paths[k][1]>>
    BY <1>5, <2>1
  <2> QED BY <2>2, <2>3
<1>7. /\ policy # "rule" =>
              /\ JobParams(paths[m]).strict_copy = JobParams(paths[k]).strict_copy
              /\ JobParams(paths[m]).archive_timeout = JobParams(paths[k]).archive_timeout
              /\ JobParams(paths[m]).dst_file_report = JobParams(paths[k]).dst_file_report
      /\ policy \in {"src_dest", "rule_src_dest", "activity_src_dest"} =>
           JobParams(paths[m]) = JobParams(paths[k])
  BY <1>3, <1>4, <1>5, SharedGroup
<1> QED BY <1>4, <1>6, <1>7

----------------------------------------------------------------------------
(* A hop is in the job of its own path only,                               *)
LEMMA PlaceAlone ==
  ASSUME NEW paths, GoodBatch(paths), NEW i \in 1 .. Len(paths), NEW k \in 1 .. Len(paths[i]),
         NEW j \in 1 .. Len(paths), Alone(paths[j]),
         NEW n \in 1 .. Len(Cut(paths[j])), Cut(paths[j])[n] = paths[i][k]
  PROVE  i = j /\ n = k
<1>1. paths[j] \in Seq(Transfer) \ {<<>>}
  BY BatchPath
<1>2. n \in 1 .. Len(paths[j]) /\ Cut(paths[j])[n] = paths[j][n]
  BY <1>1, CutIs
<1>3. paths[i][k] = paths[j][n]
  BY <1>2
<1>4. \A a \in 1 .. Len(paths[i]), b \in 1 .. Len(paths[j]) :
        paths[i][a] = paths[j][b] => i = j /\ a = b
  BY DEF GoodBatch
<1>5. i = j /\ k = n
  BY <1>2, <1>3, <1>4
<1> QED BY <1>5

(* or in a chunk of the group of its own path, at its place in the group.  *)
LEMMA PlaceShared ==
  ASSUME NEW paths, GoodBatch(paths), NEW i \in 1 .. Len(paths), NEW k \in 1 .. Len(paths[i]),
         NEW j \in 1 .. Len(paths), ~Alone(paths[j]), NEW c \in NumChunks(GroupOf(paths, j)),
         NEW job, job = ChunkJob(GroupOf(paths, j), c),
         NEW n \in 1 .. Len(job.transfers), job.transfers[n] = paths[i][k]
  PROVE  /\ ~Alone(paths[i]) /\ GroupOf(paths, j) = GroupOf(paths, i)
         /\ c \in Nat /\ c * GroupBulk + n \in 1 .. Len(GroupOf(paths, i))
         /\ GroupOf(paths, i)[c * GroupBulk + n] = paths[i]
<1> DEFINE g == GroupOf(paths, j)
           m == c * GroupBulk + n
<1>1. c \in Nat /\ m \in 1 .. Len(g) /\ job.transfers[n] = g[m][1]
  BY ChunkJobIs
<1>2. PICK l \in 1 .. Len(paths) :
         /\ g[m] = paths[l] /\ ~Alone(paths[l]) /\ GroupKey(paths[l]) = GroupKey(paths[j])
  BY <1>1, GroupFacts
<1>3. paths[l] \in Seq(Transfer) \ {<<>>}
  BY BatchPath
<1>4. 1 \in 1 .. Len(paths[l])
  BY <1>3
<1>5. paths[l][1] = paths[i][k]
  BY <1>1, <1>2
<1>6. l = i
  BY <1>4, <1>5 DEF GoodBatch
<1>7. GroupOf(paths, j) = GroupOf(paths, i)
  BY <1>2, <1>6 DEF GroupOf
<1> QED BY <1>1, <1>2, <1>6, <1>7

(* The places of a transfer in the jobs of a round.                        *)
Places(paths, t) ==
  {place \in JobsOf(paths) \X (1 .. GroupBulk) :
     LET s == place[1].transfers IN place[2] \in DOMAIN s /\ s[place[2]] = t}

(* The places of a hop of a path that is alone in its job,                 *)
LEMMA PlacesOfAlone ==
  ASSUME NEW paths, GoodBatch(paths), NEW i \in 1 .. Len(paths), NEW k \in 1 .. Len(paths[i]),
         Alone(paths[i])
  PROVE  Places(paths, paths[i][k]) =
           IF k <= GroupBulk THEN {<<AloneJob(paths[i]), k>>} ELSE {}
<1>0. GroupBulk \in Nat /\ GroupBulk >= 1 /\ DOMAIN paths = 1 .. Len(paths)
  BY Constants DEF GoodBatch
<1>1. ASSUME NEW place \in Places(paths, paths[i][k])
      PROVE  place = <<AloneJob(paths[i]), k>> /\ k <= GroupBulk
  <2> DEFINE job == place[1]
             n == place[2]
  <2>1. job \in JobsOf(paths) /\ n \in 1 .. GroupBulk /\ place = <<job, n>>
    BY DEF Places
  <2>2. n \in DOMAIN job.transfers /\ job.transfers[n] = paths[i][k]
    BY DEF Places
  <2>3. DOMAIN job.transfers = 1 .. Len(job.transfers)
    BY <2>1, JobFrom
  <2> HIDE DEF job, n
  <2>4. CASE \E j \in DOMAIN paths : Alone(paths[j]) /\ job = AloneJob(paths[j])
    <3>1. PICK j \in 1 .. Len(paths) : Alone(paths[j]) /\ job = AloneJob(paths[j])
      BY <1>0, <2>4
    <3>2. job.transfers = Cut(paths[j])
      BY <3>1 DEF AloneJob
    <3>3. i = j /\ n = k
      BY <2>2, <2>3, <3>1, <3>2, PlaceAlone
    <3> QED BY <2>1, <3>1, <3>3
  <2>5. CASE \E j \in DOMAIN paths : /\ ~Alone(paths[j])
                                     /\ \E c \in NumChunks(GroupOf(paths, j)) :
                                          job = ChunkJob(GroupOf(paths, j), c)
    <3>1. PICK j \in 1 .. Len(paths) :
             ~Alone(paths[j]) /\ \E c \in NumChunks(GroupOf(paths, j)) :
                                   job = ChunkJob(GroupOf(paths, j), c)
      BY <1>0, <2>5
    <3>2. PICK c \in NumChunks(GroupOf(paths, j)) : job = ChunkJob(GroupOf(paths, j), c)
      BY <3>1
    <3>3. ~Alone(paths[i])
      BY <2>2, <2>3, <3>1, <3>2, PlaceShared
    <3> QED BY <3>3
  <2> QED BY <2>1, <2>4, <2>5, JobsAre
<1>2. ASSUME k <= GroupBulk
      PROVE  <<AloneJob(paths[i]), k>> \in Places(paths, paths[i][k])
  <2>1. paths[i] \in Seq(Transfer) \ {<<>>}
    BY BatchPath
  <2>2. AloneJob(paths[i]) \in JobsOf(paths) /\ AloneJob(paths[i]).transfers = Cut(paths[i])
    BY <1>0, JobsAre DEF AloneJob
  <2>3. /\ Len(paths[i]) \in Nat
        /\ Len(Cut(paths[i])) = IF Len(paths[i]) < GroupBulk THEN Len(paths[i]) ELSE GroupBulk
    BY <2>1, CutIs
  <2>4. k \in 1 .. Len(Cut(paths[i]))
    BY <1>0, <1>2, <2>3
  <2>5. k \in DOMAIN Cut(paths[i]) /\ Cut(paths[i])[k] = paths[i][k]
    BY <2>1, <2>4, CutIs
  <2>6. k \in 1 .. GroupBulk
    BY <1>0, <1>2
  <2> QED BY <2>2, <2>5, <2>6 DEF Places
<1> QED BY <1>1, <1>2

(* A set of one element.                                                   *)
IsOne(S) == \E x : S = {x}

(* and of a path that shares it.                                           *)
LEMMA PlacesOfShared ==
  ASSUME NEW paths, GoodBatch(paths), NEW i \in 1 .. Len(paths), NEW k \in 1 .. Len(paths[i]),
         ~Alone(paths[i])
  PROVE  k <= GroupBulk /\ IsOne(Places(paths, paths[i][k]))
<1>0. GroupBulk \in Nat /\ GroupBulk >= 1 /\ DOMAIN paths = 1 .. Len(paths)
  BY Constants DEF GoodBatch
<1>1. k = 1 /\ k <= GroupBulk
  <2>1. Len(paths[i]) = 1
    BY BatchPath, NotAlone
  <2> QED BY <1>0, <2>1
<1> DEFINE g == GroupOf(paths, i)
<1>2. PICK m \in 1 .. Len(g) : g[m] = paths[i]
  BY GroupFacts
<1> DEFINE c0 == (m - 1) \div GroupBulk
           n0 == m - c0 * GroupBulk
           job0 == ChunkJob(g, c0)
<1>3. /\ g \in Seq(Seq(Transfer) \ {<<>>}) /\ Firsts(g) \in Seq(Transfer) /\ Len(Firsts(g)) = Len(g)
      /\ \A a, b \in 1 .. Len(g) : g[a] = g[b] => a = b
  BY GroupFacts
<1>4. /\ c0 \in NumChunks(g) /\ n0 \in 1 .. ChunkEnd(Firsts(g), c0) - c0 * GroupBulk
      /\ \A c \in Nat, n \in 1 .. GroupBulk : c * GroupBulk + n = m => c = c0
  BY <1>3, InOneChunk DEF NumChunks
<1>5. /\ job0.transfers \in Seq(Transfer) /\ Len(job0.transfers) \in 1 .. GroupBulk
      /\ Len(job0.transfers) = ChunkEnd(Firsts(g), c0) - c0 * GroupBulk
      /\ c0 * GroupBulk \in Nat
      /\ \A n \in 1 .. Len(job0.transfers) : job0.transfers[n] = g[c0 * GroupBulk + n][1]
  BY <1>4, ChunkJobIs
<1>6. c0 * GroupBulk + n0 = m /\ \A n \in Nat : c0 * GroupBulk + n = m => n = n0
  BY <1>2, <1>5
<1>7. job0 \in JobsOf(paths)
  BY <1>0, <1>4, JobsAre
<1>8. <<job0, n0>> \in Places(paths, paths[i][k])
  <2>1. n0 \in 1 .. Len(job0.transfers)
    BY <1>4, <1>5
  <2>3. job0.transfers[n0] = paths[i][k]
    BY <1>1, <1>2, <1>5, <1>6, <2>1
  <2>4. DOMAIN job0.transfers = 1 .. Len(job0.transfers) /\ Len(job0.transfers) \in 1 .. GroupBulk
    BY <1>5
  <2> HIDE DEF job0, n0
  <2>2. n0 \in DOMAIN job0.transfers /\ n0 \in 1 .. GroupBulk
    BY <1>0, <2>1, <2>4
  <2> QED BY <1>7, <2>2, <2>3 DEF Places
<1>9. ASSUME NEW place \in Places(paths, paths[i][k])
      PROVE  place = <<job0, n0>>
  <2> DEFINE job == place[1]
             n == place[2]
  <2>1. job \in JobsOf(paths) /\ n \in 1 .. GroupBulk /\ place = <<job, n>>
    BY DEF Places
  <2>2. n \in DOMAIN job.transfers /\ job.transfers[n] = paths[i][k]
    BY DEF Places
  <2>3. DOMAIN job.transfers = 1 .. Len(job.transfers)
    BY <2>1, JobFrom
  <2> HIDE DEF job, n
  <2>4. CASE \E j \in DOMAIN paths : Alone(paths[j]) /\ job = AloneJob(paths[j])
    <3>1. PICK j \in 1 .. Len(paths) : Alone(paths[j]) /\ job = AloneJob(paths[j])
      BY <1>0, <2>4
    <3>2. job.transfers = Cut(paths[j])
      BY <3>1 DEF AloneJob
    <3>3. i = j
      BY <2>2, <2>3, <3>1, <3>2, PlaceAlone
    <3> QED BY <3>1, <3>3
  <2>5. CASE \E j \in DOMAIN paths : /\ ~Alone(paths[j])
                                     /\ \E c \in NumChunks(GroupOf(paths, j)) :
                                          job = ChunkJob(GroupOf(paths, j), c)
    <3>1. PICK j \in 1 .. Len(paths) :
             ~Alone(paths[j]) /\ \E c \in NumChunks(GroupOf(paths, j)) :
                                   job = ChunkJob(GroupOf(paths, j), c)
      BY <1>0, <2>5
    <3>2. PICK c \in NumChunks(GroupOf(paths, j)) : job = ChunkJob(GroupOf(paths, j), c)
      BY <3>1
    <3>3. /\ GroupOf(paths, j) = g
          /\ c \in Nat /\ c * GroupBulk + n \in 1 .. Len(g) /\ g[c * GroupBulk + n] = paths[i]
      BY <2>2, <2>3, <3>1, <3>2, PlaceShared
    <3>4. c * GroupBulk + n = m
      BY <1>2, <1>3, <3>3
    <3>5. c = c0
      BY <1>4, <2>1, <3>3, <3>4
    <3>6. n = n0
      BY <1>6, <2>1, <3>4, <3>5
    <3> QED BY <2>1, <3>2, <3>3, <3>5, <3>6
  <2> QED BY <2>1, <2>4, <2>5, JobsAre
<1> HIDE DEF job0, n0
<1>10. Places(paths, paths[i][k]) = {<<job0, n0>>}
  BY <1>8, <1>9
<1> QED BY <1>1, <1>10 DEF IsOne

(* So no hop is forgotten or submitted twice by the grouping, but those    *)
(* that are cut off.                                                       *)
LEMMA HopOnce ==
  ASSUME NEW paths, GoodBatch(paths), NEW i \in 1 .. Len(paths), NEW k \in 1 .. Len(paths[i])
  PROVE  Cardinality(Places(paths, paths[i][k])) = IF k <= GroupBulk THEN 1 ELSE 0
<1>0. Cardinality({}) = 0 /\ \A x : Cardinality({x}) = 1
  BY FS_EmptySet, FS_Singleton
<1>1. CASE Alone(paths[i])
  <2>1. Places(paths, paths[i][k]) = IF k <= GroupBulk THEN {<<AloneJob(paths[i]), k>>} ELSE {}
    BY <1>1, PlacesOfAlone
  <2>2. CASE k <= GroupBulk
    <3>1. Places(paths, paths[i][k]) = {<<AloneJob(paths[i]), k>>}
      BY <2>1, <2>2
    <3>2. Cardinality(Places(paths, paths[i][k])) = 1
      BY <1>0, <3>1
    <3> QED BY <2>2, <3>2
  <2>3. CASE ~(k <= GroupBulk)
    <3>1. Places(paths, paths[i][k]) = {}
      BY <2>1, <2>3
    <3>2. Cardinality(Places(paths, paths[i][k])) = 0
      BY <1>0, <3>1
    <3> QED BY <2>3, <3>2
  <2> QED BY <2>2, <2>3
<1>2. CASE ~Alone(paths[i])
  <2>1. k <= GroupBulk /\ IsOne(Places(paths, paths[i][k]))
    BY <1>2, PlacesOfShared
  <2>2. Cardinality(Places(paths, paths[i][k])) = 1
    BY <1>0, <2>1 DEF IsOne
  <2> QED BY <2>1, <2>2
<1> QED BY <1>1, <1>2

----------------------------------------------------------------------------
(* A server that a hop has is one of the known ones,                       *)
LEMMA ServerHost ==
  ASSUME NEW t \in Transfer, Server(t) # NoHost
  PROVE  Server(t) \in Host
<1>1. t.sources \in Seq(RSE) \ {<<>>} /\ t.dst \in RSE
  BY Constants
<1>2. Src(t) \in RSE
  <2>1. 1 \in 1 .. Len(t.sources)
    BY <1>1
  <2> QED BY <1>1, <2>1, ElementOfSeq DEF Src
<1> QED BY <1>1, <1>2 DEF Server, Host

(* and so is that of a round.                                              *)
LEMMA BuilderOf ==
  ASSUME NEW paths, GoodBatch(paths)
  PROVE  /\ Builder(paths[1]).host \in Host /\ Builder(paths[1]).host # NoHost
         /\ Builder(paths[1]).oidc \in BOOLEAN
<1>1. 1 \in 1 .. Len(paths)
  BY DEF GoodBatch
<1>2. paths[1] \in Seq(Transfer) \ {<<>>}
  BY <1>1, BatchPath
<1> DEFINE n == Len(paths[1])
<1>3. n \in 1 .. Len(paths[1])
  BY <1>2
<1>4. paths[1][n] \in Transfer
  BY <1>2, <1>3, ElementOfSeq
<1>5. Server(paths[1][n]) # NoHost
  BY <1>1, <1>3 DEF GoodBatch
<1>6. Builder(paths[1]).host = Server(paths[1][n])
  BY DEF Builder
<1>7. Builder(paths[1]).oidc \in BOOLEAN
  BY DEF Builder
<1> QED BY <1>4, <1>5, <1>6, <1>7, ServerHost

(* Between two rounds there is no job.                                     *)
IdleSound == pc = "idle" => jobs = {} /\ posted.id = NoId
(* The jobs of a round suit their transfers, with the token in use.        *)
JobsSound == \A job \in jobs : JobSuits(job, tool.token)
(* An entry of the cache is of its own server.                             *)
CacheSound == \A h \in Host : baseids[h] \in {h, NoHost}

(* The inductive invariant.                                                *)
Inv ==
  /\ TypeOK /\ IdleSound /\ JobsSound /\ CacheSound
  /\ FilesFit /\ SharedParams /\ EachHopOnce /\ IdsRight

(* It holds at the start.                                                  *)
LEMMA InitInv == Init => Inv
<1> SUFFICES ASSUME Init PROVE Inv
  OBVIOUS
<1>1. MaxVersion \in Nat /\ MaxVersion >= 1
  BY SubmissionAssumption
<1>2. /\ NoTool.host = NoHost
      /\ NoTool \in [host : Host \cup {NoHost}, token : BOOLEAN, tags : Version]
  BY <1>1 DEF NoTool, Version
<1>3. registry \in [version : Version, answer : {"ok", "error", "timeout"}]
  <2>1. 1 \in Version
    BY <1>1 DEF Version, Init
  <2> QED BY <2>1 DEF Init
<1>4. TypeOK
  BY <1>1, <1>2, <1>3 DEF Init, TypeOK, Version
<1>5. posted.files = <<>> /\ posted.id = NoId
  BY DEF Init, NotPosted
<1>6. FilesFit
  BY <1>5 DEF FilesFit
<1> QED BY <1>4, <1>5, <1>6
     DEF Init, Inv, IdleSound, JobsSound, CacheSound, SharedParams, EachHopOnce, IdsRight

(* Steps that leave the jobs alone keep what is said of them.              *)
LEMMA KeepSuits ==
  ASSUME JobsSound, UNCHANGED <<jobs, tool>>
  PROVE  JobsSound'
BY DEF JobsSound

(* The same for the parameters,                                            *)
LEMMA KeepShared ==
  ASSUME SharedParams, UNCHANGED <<policy, jobs>>
  PROVE  SharedParams'
BY DEF SharedParams

(* for the places,                                                         *)
LEMMA KeepOnce ==
  ASSUME EachHopOnce, UNCHANGED <<pc, batch, jobs>>
  PROVE  EachHopOnce'
BY DEF EachHopOnce

(* and for the files posted.                                               *)
LEMMA KeepFits ==
  ASSUME FilesFit, UNCHANGED posted
  PROVE  FilesFit'
BY DEF FilesFit, ChecksumFits, TokensFit, OverwriteFits, StagingFits

(* A round begins: what its jobs are, all the lemmas above say.            *)
LEMMA ConstructInv ==
  ASSUME Inv, NEW paths \in Batches, Construct(paths)
  PROVE  Inv'
<1>0. /\ pc = "idle" /\ batch' = paths /\ scitags' = Fetched /\ pc' = "submitting"
      /\ jobs' = JobsOf(paths) /\ todo' = JobsOf(paths)
      /\ UNCHANGED <<policy, registry, baseids, posted>>
  BY DEF Construct
<1>1. PICK token \in {Builder(paths[1]).oidc, FALSE} :
         tool' = [host |-> Builder(paths[1]).host, token |-> token, tags |-> Fetched.ids]
  BY DEF Construct
<1>2. GoodBatch(paths)
  BY BatchIs
<1>3. Builder(paths[1]).host \in Host /\ Builder(paths[1]).host # NoHost
      /\ Builder(paths[1]).oidc \in BOOLEAN
  BY <1>2, BuilderOf
<1>4. policy \in Policy /\ posted.id = NoId
  BY <1>0 DEF Inv, TypeOK, IdleSound
<1>5. Fetched \in [ids : Version, due : BOOLEAN]
  BY SubmissionAssumption DEF Fetched, Inv, TypeOK, Version
<1>6. \A job \in JobsOf(paths) : JobSuits(job, Builder(paths[1]).oidc)
  BY <1>2, JobsSuit
<1>7. \A job \in JobsOf(paths) : Shared(job)
  BY <1>2, <1>4, JobsShare
<1>8. JobsSound'
  <2>1. \A job \in JobsOf(paths) : JobSuits(job, token)
    BY <1>1, <1>6 DEF JobSuits
  <2>2. tool'.token = token
    BY <1>1
  <2> QED BY <1>0, <2>1, <2>2 DEF JobsSound
<1>9. SharedParams'
  BY <1>0, <1>7 DEF SharedParams, Shared
<1>10. EachHopOnce'
  <2>1. \A i \in DOMAIN paths : \A k \in DOMAIN paths[i] :
          Cardinality(Places(paths, paths[i][k])) = IF k <= GroupBulk THEN 1 ELSE 0
    <3> SUFFICES ASSUME NEW i \in DOMAIN paths, NEW k \in DOMAIN paths[i]
                 PROVE  Cardinality(Places(paths, paths[i][k])) = IF k <= GroupBulk THEN 1 ELSE 0
      OBVIOUS
    <3>1. i \in 1 .. Len(paths)
      BY <1>2 DEF GoodBatch
    <3>2. k \in 1 .. Len(paths[i])
      BY <1>2, <3>1, BatchPath
    <3> QED BY <1>2, <3>1, <3>2, HopOnce
  <2> QED BY <1>0, <2>1 DEF EachHopOnce, Places
<1>11. TypeOK'
  <2>1. tool' \in [host : Host \cup {NoHost}, token : BOOLEAN, tags : Version]
        /\ tool'.host # NoHost
    BY <1>1, <1>3, <1>5
  <2>2. \A job \in JobsOf(paths) : 0 < Len(job.transfers) /\ Len(job.transfers) <= GroupBulk
    BY <1>6, Constants DEF JobSuits
  <2> QED BY <1>0, <1>5, <2>1, <2>2 DEF Inv, TypeOK
<1>12. FilesFit' /\ CacheSound' /\ IdleSound' /\ IdsRight'
  BY <1>0, <1>4, KeepFits DEF Inv, CacheSound, IdleSound, IdsRight
<1> QED BY <1>8, <1>9, <1>10, <1>11, <1>12 DEF Inv

(* The round ends and leaves no job.                                       *)
LEMMA FinishInv ==
  ASSUME Inv, Finish
  PROVE  Inv'
<1>1. /\ pc' = "idle" /\ batch' = <<>> /\ tool' = NoTool /\ jobs' = {} /\ posted' = NotPosted
      /\ todo = {} /\ todo' = todo
      /\ UNCHANGED <<policy, registry, scitags, baseids>>
  BY DEF Finish, caches
<1>2. /\ NoTool.host = NoHost
      /\ NoTool \in [host : Host \cup {NoHost}, token : BOOLEAN, tags : Version]
  BY SubmissionAssumption DEF NoTool, Version
<1>3. TypeOK'
  BY <1>1, <1>2 DEF Inv, TypeOK
<1>4. posted'.files = <<>> /\ posted'.id = NoId
  BY <1>1 DEF NotPosted
<1>5. FilesFit'
  BY <1>4 DEF FilesFit
<1> QED BY <1>1, <1>3, <1>4, <1>5
     DEF Inv, IdleSound, JobsSound, CacheSound, SharedParams, EachHopOnce, IdsRight

(* Nothing of it depends on the registry.                                  *)
LEMMA OthersInv ==
  ASSUME Inv, ScitagsDue \/ RegistryChanges \/ UNCHANGED vars
  PROVE  Inv'
<1>1. /\ UNCHANGED <<policy, baseids, pc, batch, tool, jobs, todo, posted>>
      /\ registry' \in [version : Version, answer : {"ok", "error", "timeout"}]
      /\ scitags' \in [ids : Version, due : BOOLEAN]
  <2>1. CASE ScitagsDue
    BY <2>1 DEF ScitagsDue, Inv, TypeOK
  <2>2. CASE UNCHANGED vars
    BY <2>2 DEF vars, caches, Inv, TypeOK
  <2>3. CASE RegistryChanges
    <3>1. UNCHANGED <<policy, scitags, baseids, pc, batch, tool, jobs, todo, posted>>
      BY <2>3 DEF RegistryChanges, caches
    <3>2. registry' \in [version : Version, answer : {"ok", "error", "timeout"}]
      <4>1. registry \in [version : 0 .. MaxVersion, answer : {"ok", "error", "timeout"}]
            /\ MaxVersion \in Nat
        BY SubmissionAssumption DEF Inv, TypeOK, Version
      <4>2. CASE registry.version < MaxVersion
                 /\ registry' = [registry EXCEPT !.version = registry.version + 1]
        <5>1. registry.version + 1 \in 0 .. MaxVersion
          BY <4>1, <4>2
        <5> QED BY <4>1, <4>2, <5>1 DEF Version
      <4>3. CASE \E answer \in {"ok", "error", "timeout"} \ {registry.answer} :
                   registry' = [registry EXCEPT !.answer = answer]
        BY <4>1, <4>3 DEF Version
      <4> QED BY <2>3, <4>2, <4>3 DEF RegistryChanges
    <3> QED BY <3>1, <3>2 DEF Inv, TypeOK
  <2> QED BY <2>1, <2>2, <2>3
<1>2. TypeOK'
  BY <1>1 DEF Inv, TypeOK
<1>3. FilesFit' /\ SharedParams' /\ EachHopOnce' /\ JobsSound'
  BY <1>1, KeepFits, KeepShared, KeepOnce, KeepSuits DEF Inv
<1>4. IdleSound' /\ CacheSound' /\ IdsRight'
  BY <1>1 DEF Inv, IdleSound, CacheSound, IdsRight
<1> QED BY <1>2, <1>3, <1>4 DEF Inv

(* An entry that expires may not name a wrong server later.                *)
LEMMA ExpiresInv ==
  ASSUME Inv, NEW h \in Host, BaseidExpires(h)
  PROVE  Inv'
<1>1. /\ UNCHANGED <<policy, registry, scitags, pc, batch, tool, jobs, todo, posted>>
      /\ baseids' = [baseids EXCEPT ![h] = NoHost]
  BY DEF BaseidExpires
<1>2. TypeOK' /\ CacheSound'
  BY <1>1 DEF Inv, TypeOK, CacheSound
<1>3. FilesFit' /\ SharedParams' /\ EachHopOnce' /\ JobsSound'
  BY <1>1, KeepFits, KeepShared, KeepOnce, KeepSuits DEF Inv
<1>4. IdleSound' /\ IdsRight'
  BY <1>1 DEF Inv, IdleSound, IdsRight
<1> QED BY <1>2, <1>3, <1>4 DEF Inv

(* _pick_fts_checksum: a checksum that is known and possible on all the    *)
(* sides to validate.                                                      *)
LEMMA PicksFit ==
  ASSUME NEW t, NEW s \in C({})!Strategy, NEW c \in C(t.known)!Picks(CheckHop(t), s),
         c # NoChecksum
  PROVE  /\ c \in t.known
         /\ \A side \in C({})!Sides(s) : c \in C({})!Checksums(CheckHop(t), side)
<1> DEFINE hop == CheckHop(t)
           P == C(t.known)!Possible(hop, s)
<1>1. c \in P /\ c \in t.known
  BY DEF C!Picks
<1>2. \A side \in {"source", "target"} :
        C(t.known)!Checksums(hop, side) = C({})!Checksums(hop, side)
  BY DEF C!Checksums, C!Available
<1>3. CASE s = "both"
  <2>1. P = C(t.known)!Checksums(hop, "source") \cap C(t.known)!Checksums(hop, "target")
    BY <1>3 DEF C!Possible, C!Common
  <2> QED BY <1>1, <1>2, <1>3, <2>1, SidesAre
<1>4. CASE s = "target"
  <2>1. P = C(t.known)!Checksums(hop, "target")
    BY <1>4 DEF C!Possible
  <2> QED BY <1>1, <1>2, <1>4, <2>1, SidesAre
<1>5. CASE s = "source"
  <2>1. P = C(t.known)!Checksums(hop, "source")
    BY <1>5 DEF C!Possible
  <2> QED BY <1>1, <1>2, <1>5, <2>1, SidesAre
<1>6. CASE s = "none"
  BY <1>1, <1>6, SidesAre
<1> QED BY <1>3, <1>4, <1>5, <1>6, SidesAre

(* FilesFit, of one file.                                                  *)
Fit(file, params) ==
  LET hop == CheckHop(file.transfer)
      own == C({})!Sides(C({})!HopStrategy(hop))
      named == C({})!Sides(params.verify_checksum)
      dst == Attr[file.transfer.dst]
  IN  /\ named \subseteq own
      /\ ~params.multihop => named = own
      /\ file.checksum # NoChecksum =>
           /\ file.checksum \in file.transfer.known
           /\ \A side \in named : file.checksum \in C({})!Checksums(hop, side)
      /\ file.tokens => UseTokens(file.transfer)
      /\ dst.tape /\ params.overwrite =>
           file.transfer.overwrite = "yes" \/ (dst.overwrite /\ ~dst.overwrite_when_only_on_disk)
      /\ file.staging => params.bring_online

(* A file of a transfer that its job suits fits.                           *)
LEMMA FitOf ==
  ASSUME NEW f, NEW params, Suits(params, f.transfer),
         f.tokens => UseTokens(f.transfer), f.staging = Attr[Src(f.transfer)].tape,
         f.checksum # NoChecksum =>
           /\ f.checksum \in f.transfer.known
           /\ \A side \in C({})!Sides(params.verify_checksum) :
                f.checksum \in C({})!Checksums(CheckHop(f.transfer), side)
  PROVE  Fit(f, params)
<1>1. Own(f.transfer) = C({})!HopStrategy(CheckHop(f.transfer))
  BY DEF Own
<1>2. f.staging => params.bring_online
  BY DEF Suits
<1> DEFINE t == f.transfer
           own == C({})!Sides(C({})!HopStrategy(CheckHop(t)))
           named == C({})!Sides(params.verify_checksum)
<1>3. named \subseteq own /\ (~params.multihop => named = own)
  BY <1>1 DEF Suits
<1>4. Attr[t.dst].tape /\ params.overwrite =>
        t.overwrite = "yes" \/ (Attr[t.dst].overwrite /\ ~Attr[t.dst].overwrite_when_only_on_disk)
  BY DEF Suits
<1> QED BY <1>2, <1>3, <1>4 DEF Fit

(* _file_from_transfer makes such files only.                              *)
LEMMA FilesOfFit ==
  ASSUME NEW job, JobSuits(job, tool.token), NEW files \in FilesOf(job)
  PROVE  \A i \in DOMAIN files : Fit(files[i], job.params)
<1> DEFINE picks(t) == C(t.known)!Picks(CheckHop(t), job.params.verify_checksum)
           file(t, c) ==
             [transfer |-> t, checksum |-> c, tokens |-> tool.token,
              tag |-> IF t.activity \in Tagged THEN tool.tags ELSE 0,
              staging |-> Attr[Src(t)].tape]
<1>1. PICK c \in [DOMAIN job.transfers -> Checksum \cup {NoChecksum}] :
         /\ \A i \in DOMAIN c : c[i] \in picks(job.transfers[i])
         /\ files = [i \in DOMAIN job.transfers |-> file(job.transfers[i], c[i])]
  BY DEF FilesOf
<1> SUFFICES ASSUME NEW i \in DOMAIN files PROVE Fit(files[i], job.params)
  OBVIOUS
<1>2. i \in DOMAIN job.transfers /\ i \in 1 .. Len(job.transfers)
  BY <1>1 DEF JobSuits
<1> DEFINE t == job.transfers[i]
<1>3. files[i] = file(t, c[i]) /\ c[i] \in picks(t)
  BY <1>1, <1>2
<1>4. /\ files[i].transfer = t /\ files[i].checksum = c[i] /\ files[i].tokens = tool.token
      /\ files[i].staging = Attr[Src(t)].tape
  BY <1>3
<1>5. Suits(job.params, t) /\ (tool.token => UseTokens(t))
  BY <1>2 DEF JobSuits
<1>6. c[i] # NoChecksum =>
        /\ c[i] \in t.known
        /\ \A side \in C({})!Sides(job.params.verify_checksum) :
             c[i] \in C({})!Checksums(CheckHop(t), side)
  <2>1. job.params.verify_checksum \in C({})!Strategy
    BY <1>5 DEF Suits
  <2>2. c[i] \in C(t.known)!Picks(CheckHop(t), job.params.verify_checksum)
    BY <1>3
  <2> HIDE DEF t
  <2> QED BY <2>1, <2>2, PicksFit
<1> HIDE DEF t
<1> QED BY <1>4, <1>5, <1>6, FitOf

(* A job is posted: its files fit, and the id expected of it is derived    *)
(* from the server it is posted to.                                        *)
LEMMA SubmitInv ==
  ASSUME Inv, NEW job \in todo, Submit(job)
  PROVE  Inv'
<1>1. /\ pc = "submitting" /\ todo' = todo \ {job}
      /\ UNCHANGED <<policy, registry, scitags, pc, batch, tool, jobs>>
  BY DEF Submit
<1>2. PICK known \in Host \cup {NoHost} :
        /\ LooksUp(tool.host, known)
        /\ \E files \in FilesOf(job) :
             posted' = [files |-> files, params |-> job.params, sid |-> job.transfers[1],
                        id |-> IF known = NoHost THEN NoId ELSE <<known, job.transfers[1]>>]
  BY DEF Submit
<1>3. PICK files \in FilesOf(job) :
        posted' = [files |-> files, params |-> job.params, sid |-> job.transfers[1],
                   id |-> IF known = NoHost THEN NoId ELSE <<known, job.transfers[1]>>]
  BY <1>2
<1>4. tool.host \in Host /\ tool.host # NoHost /\ job \in jobs
  BY <1>1 DEF Inv, TypeOK
<1>5. /\ known \in {tool.host, NoHost}
      /\ baseids' \in [Host -> Host \cup {NoHost}] /\ CacheSound'
  BY <1>2, <1>4 DEF LooksUp, Inv, TypeOK, CacheSound
<1>6. FilesFit'
  <2>1. JobSuits(job, tool.token)
    BY <1>4 DEF Inv, JobsSound
  <2>2. \A i \in DOMAIN files : Fit(files[i], job.params)
    BY <2>1, FilesOfFit
  <2>3. posted'.files = files /\ posted'.params = job.params
    BY <1>3
  <2>4. \A i \in DOMAIN posted'.files : Fit(posted'.files[i], posted'.params)
    BY <2>2, <2>3
  <2> QED BY <2>4 DEF Fit, FilesFit, ChecksumFits, TokensFit, OverwriteFits, StagingFits
<1>7. IdsRight'
  BY <1>1, <1>3, <1>5 DEF IdsRight
<1>8. TypeOK'
  BY <1>1, <1>5 DEF Inv, TypeOK
<1>9. SharedParams' /\ EachHopOnce' /\ JobsSound'
  BY <1>1, KeepShared, KeepOnce, KeepSuits DEF Inv
<1>10. IdleSound'
  BY <1>1 DEF IdleSound
<1> QED BY <1>5, <1>6, <1>7, <1>8, <1>9, <1>10 DEF Inv

(* The invariant holds in every reachable state, for any RSEs, paths,      *)
(* rounds and length of jobs.                                              *)
THEOREM SubmissionInvCorrect == Spec => []Inv
<1>1. Inv /\ [Next]_vars => Inv'
  BY ConstructInv, FinishInv, SubmitInv, OthersInv, ExpiresInv DEF Next
<1> QED BY InitInv, <1>1, PTL DEF Spec

(* The state keeps its types, and no job is empty or longer than           *)
(* group_bulk.                                                             *)
THEOREM SubmissionTypeCorrect == Spec => []TypeOK
<1>1. Inv => TypeOK
  BY DEF Inv
<1> QED BY SubmissionInvCorrect, <1>1, PTL

(* build_job_params and _file_from_transfer: what is computed for a path,  *)
(* or for the first transfer of a group, suits every file of the job that  *)
(* bulk_group_transfers puts it into: checksum, tokens, overwriting,       *)
(* staging.                                                                *)
THEOREM FilesCorrect == Spec => []FilesFit
<1>1. Inv => FilesFit
  BY DEF Inv
<1> QED BY SubmissionInvCorrect, <1>1, PTL

(* bulk_group_transfers: under a policy that names the destination the     *)
(* parameters of the destination are those of every transfer of a job,     *)
(* under one that names the source too all of them are.                    *)
THEOREM SharedCorrect == Spec => []SharedParams
<1>1. Inv => SharedParams
  BY DEF Inv
<1> QED BY SubmissionInvCorrect, <1>1, PTL

(* bulk_group_transfers: every hop of a round is in exactly one job and at *)
(* one place of it, but for the hops of a path beyond group_bulk.          *)
THEOREM OnceCorrect == Spec => []EachHopOnce
<1>1. Inv => EachHopOnce
  BY DEF Inv
<1> QED BY SubmissionInvCorrect, <1>1, PTL

(* __get_transfer_baseid_voname: whatever whoami answers and whenever an   *)
(* entry expires, the id expected of a job is the one that its own server  *)
(* derives.                                                                *)
THEOREM IdsCorrect == Spec => []IdsRight
<1>1. Inv => IdsRight
  BY DEF Inv
<1> QED BY SubmissionInvCorrect, <1>1, PTL

=============================================================================
