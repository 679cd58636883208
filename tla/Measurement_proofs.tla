------------------------- MODULE Measurement_proofs -------------------------
(***************************************************************************)
(* What the robot measures, proved for any periods, limits, speeds and     *)
(* lengths of its logs.                                                    *)
(*                                                                         *)
(* The code keeps sums and flags; GyroYaw and Estimates keep beside them a *)
(* log of the calls, and say by folds over it what must have been summed.  *)
(* A fold is a recursive function chosen by the library: that it exists,   *)
(* is unique and may take its elements in any order follows from a least   *)
(* counterexample among the subsets of a finite set, so no induction       *)
(* theorem with an operator parameter is needed.  From there each          *)
(* integrator is shown to stay in step with its log: a call adds to the    *)
(* record just what it adds to the fold over the log with one call more.   *)
(*                                                                         *)
(* The last part is Publication: the messages of the ROS firmware are each *)
(* of a sample of their own and of the calibration in force, given         *)
(* SAMPLE_PERIOD + MAX_LOOP <= IMU_PERIOD.                                 *)
(***************************************************************************)
EXTENDS Publication, Estimates, GyroYaw, FiniteSetTheorems, WellFoundedInduction, TLAPS

-----------------------------------------------------------------------------
(* The estimator of the gyro; Wheels_proofs has more of it. *)

\* A fresh estimator is one, and so is one a tick older, with the verdict it had.
LEMMA GyroAges ==
    /\ gyro_yaw_begin \in GyroType /\ ~gyro_yaw_begin.calibrated
    /\ \A g \in GyroType : GyroOlder(g) \in GyroType /\ GyroOlder(g).calibrated = g.calibrated
<1>1. gyro_yaw_begin \in GyroType /\ ~gyro_yaw_begin.calibrated
  BY GyroAssumption DEF gyro_yaw_begin, GyroType, WindowType, NoWindow
<1>2. ASSUME NEW g \in GyroType
      PROVE  GyroOlder(g) \in GyroType /\ GyroOlder(g).calibrated = g.calibrated
  <2>1. /\ \A top \in Nat : \A age \in 0 .. top : Older(age, top) \in 0 .. top
        /\ 0 \in 0 .. GYRO_MAX_AGE + 1 /\ 0 \in 0 .. GYRO_WINDOW
        /\ GYRO_MAX_AGE + 1 \in Nat /\ GYRO_WINDOW \in Nat
    BY GyroAssumption DEF Older
  <2>2. QED
    BY <2>1 DEF GyroOlder, GyroType, WindowType
<1>3. QED
  BY <1>1, <1>2

\* Whatever is sampled, the estimator is one.
LEMMA ObserveType ==
    ASSUME NEW g \in GyroType, NEW rate \in Int, NEW valid \in BOOLEAN, NEW stationary \in BOOLEAN
    PROVE  gyro_yaw_observe(g, rate, valid, stationary) \in GyroType
<1>1. 0 \in 0 .. GYRO_MAX_AGE + 1 /\ 0 \in 0 .. GYRO_WINDOW /\ NoWindow \in WindowType
  BY GyroAssumption DEF NoWindow, WindowType
<1>2. \A w \in WindowType : AddSample(w, rate) \in WindowType
  BY <1>1 DEF AddSample, WindowType
<1>3. \A h \in GyroType : restart_window(h) \in GyroType /\ DropSample(h) \in GyroType
  BY <1>1 DEF restart_window, DropSample, GyroType
<1>4. [g EXCEPT !.sample_age = 0, !.sample_valid = TRUE] \in GyroType
  BY <1>1 DEF GyroType
<1>5. \A h \in GyroType, w \in WindowType :
          [h EXCEPT !.window = w] \in GyroType /\ [h EXCEPT !.window = w, !.calibrated = TRUE] \in GyroType
  BY DEF GyroType
<1>6. g.window \in WindowType
  BY DEF GyroType
<1>7. QED
  BY <1>1, <1>2, <1>3, <1>4, <1>5, <1>6 DEF gyro_yaw_observe

-----------------------------------------------------------------------------
(* The wheel pose *)

\* What is left of an angle by whole turns is a natural number below one turn.
LEMMA ModType ==
    ASSUME NEW a \in Int, NEW b \in Nat \ {0}
    PROVE  a % b \in 0 .. b - 1
OBVIOUS

\* An angle that is wrapped is a heading.
LEMMA WrapType ==
    ASSUME NEW a \in Int
    PROVE  Wrap(a) \in Headings
<1> DEFINE r == a % TURN
<1>1. r \in 0 .. TURN - 1 /\ TURN \in Nat \ {0}
  BY ModType, OdometryAssumption
<1>2. Wrap(a) = IF 2 * r > TURN THEN r - TURN ELSE r
  BY DEF Wrap
<1> HIDE DEF r
<1>3. QED
  BY <1>1, <1>2 DEF Headings

\* At boot there is a pose, and no sample of it.
LEMMA NoOdometryType == NoOdometry \in OdometryType /\ ~NoOdometry.valid
<1>1. 0 \in Headings /\ 0 \in 0 .. ODOM_MAX_DT + 1
  BY OdometryAssumption DEF Headings
<1>2. QED
  BY <1>1 DEF NoOdometry, OdometryType

\* A reset forgets the sample with the pose.
LEMMA ResetPoseType ==
    ASSUME NEW o \in OdometryType
    PROVE  /\ odometry_reset_pose(o) \in OdometryType
           /\ ~odometry_reset_pose(o).valid
<1> DEFINE zero == 0
           home == [o EXCEPT !.x = zero, !.y = zero, !.yaw = zero]
<1>1. zero \in Headings /\ zero \in Int
  BY OdometryAssumption DEF Headings
<1>2. odometry_reset_pose(o) = [home EXCEPT !.valid = FALSE, !.tracking = FALSE]
  BY DEF odometry_reset_pose
<1> HIDE DEF zero
<1>3. home \in OdometryType
  BY <1>1 DEF OdometryType
<1> HIDE DEF home
<1>4. QED
  BY <1>2, <1>3 DEF OdometryType

\* An interval makes a pose of a pose.
LEMMA AdvanceType ==
    ASSUME NEW o \in OdometryType, NEW vx \in Int, NEW wz \in Int
    PROVE  Advance(o, vx, wz) \in OdometryType
<1> DEFINE distance == (o.vx + vx) * o.age
           turn == (o.wz + wz) * o.age
           mid == (2 * o.yaw + turn) % (2 * TURN)
<1>1. o.vx \in Int /\ o.wz \in Int /\ o.age \in Int /\ o.yaw \in Int /\ o.x \in Int /\ o.y \in Int
  BY OdometryAssumption DEF OdometryType, Headings
<1>2. distance \in Int /\ turn \in Int
  BY <1>1
<1>3. mid \in 0 .. 2 * TURN - 1
  <2>1. 2 * TURN \in Nat \ {0}
    BY OdometryAssumption
  <2>2. 2 * o.yaw + turn \in Int
    <3> HIDE DEF turn
    <3> QED
      BY <1>1, <1>2
  <2> DEFINE a == 2 * o.yaw + turn
             b == 2 * TURN
  <2>3. a \in Int /\ b \in Nat \ {0}
    BY <2>1, <2>2
  <2> HIDE DEF a, b
  <2>4. a % b \in 0 .. b - 1
    BY <2>3, ModType
  <2>5. QED
    BY <2>4 DEF a, b
<1>4. COS[mid] \in Int /\ SIN[mid] \in Int
  BY <1>3, OdometryAssumption
<1> DEFINE x == o.x + distance * COS[mid]
           y == o.y + distance * SIN[mid]
           yaw == Wrap(o.yaw + turn)
<1>5. x \in Int /\ y \in Int /\ o.yaw + turn \in Int
  BY <1>1, <1>2, <1>4
<1>6. yaw \in Headings
  BY <1>5, WrapType
<1>7. Advance(o, vx, wz) = [o EXCEPT !.x = x, !.y = y, !.yaw = yaw]
  BY DEF Advance
<1> HIDE DEF x, y, yaw, distance, turn, mid
<1>8. QED
  BY <1>5, <1>6, <1>7 DEF OdometryType

\* So does an update; the sample it leaves is valid just when its inputs were.
LEMMA UpdateType ==
    ASSUME NEW o \in OdometryType, NEW vx \in Int, NEW wz \in Int, NEW valid \in BOOLEAN
    PROVE  /\ odometry_update(o, vx, wz, valid) \in OdometryType
           /\ odometry_update(o, vx, wz, valid).valid = valid
<1>1. CASE ~valid
  BY <1>1 DEF odometry_update, OdometryType
<1>2. CASE valid
  <2> DEFINE moved == IF o.tracking /\ o.age \in 1 .. ODOM_MAX_DT
                      THEN Advance(o, vx, wz) ELSE o
  <2>1. moved \in OdometryType
    BY AdvanceType
  <2>2. 0 \in 0 .. ODOM_MAX_DT + 1
    BY OdometryAssumption
  <2>3. odometry_update(o, vx, wz, valid) =
            [moved EXCEPT !.vx = vx, !.wz = wz, !.age = 0, !.valid = TRUE, !.tracking = TRUE]
    BY <1>2 DEF odometry_update
  <2> HIDE DEF moved
  <2>4. QED
    BY <1>2, <2>1, <2>2, <2>3 DEF OdometryType
<1>3. QED
  BY <1>1, <1>2

\* And the passing of time.
LEMMA OlderOdometryType ==
    ASSUME NEW o \in OdometryType
    PROVE  /\ OdometryOlder(o, 1) \in OdometryType
           /\ OdometryOlder(o, 1).valid = o.valid
<1> DEFINE age == IF o.age + 1 < ODOM_MAX_DT + 1 THEN o.age + 1 ELSE ODOM_MAX_DT + 1
<1>1. age \in 0 .. ODOM_MAX_DT + 1
  BY OdometryAssumption DEF OdometryType
<1>2. OdometryOlder(o, 1) = [o EXCEPT !.age = age]
  BY DEF OdometryOlder
<1> HIDE DEF age
<1>3. QED
  BY <1>1, <1>2 DEF OdometryType

-----------------------------------------------------------------------------
(* Finite sums. *)

\* Induction over the subsets of a finite set; G holds those the claim is true of.
LEMMA SubsetInduction ==
    ASSUME NEW S, IsFiniteSet(S), NEW G,
           \A U \in SUBSET S : (\A V \in SUBSET U : V # U => V \in G) => U \in G
    PROVE  S \in G
<1> DEFINE R == StrictSubsetOrdering(S)
           B == FiniteSubsetsOf(S)
<1>1. IsWellFoundedOn(R, B)
  BY FS_StrictSubsetOrderingWellFounded
<1>2. B = SUBSET S
  BY FS_Subset DEF FiniteSubsetsOf
<1>3. \A U, V \in SUBSET S : <<U, V>> \in R <=> U \subseteq V /\ U # V
  BY DEF StrictSubsetOrdering
<1> HIDE DEF R, B
<1> DEFINE M == B \ G
<1>4. SUFFICES ASSUME M # {} PROVE FALSE
  BY <1>2
<1>5. PICK U \in M : \A V \in M : ~(<<V, U>> \in R)
  <2>1. M \subseteq B
    OBVIOUS
  <2> HIDE DEF M
  <2>2. QED
    BY <1>1, <1>4, <2>1, WFMin
<1>6. QED
  BY <1>2, <1>3, <1>5

\* Induction over the natural numbers.
LEMMA NatSetInduction ==
    ASSUME NEW G, 0 \in G, \A n \in Nat : n \in G => n + 1 \in G
    PROVE  \A n \in Nat : n \in G
<1> DEFINE R == OpToRel(<, Nat)
<1>1. \A x, y \in Nat : <<y, x>> \in R <=> y < x
  BY DEF OpToRel
<1>2. IsWellFoundedOn(R, Nat)
  BY NatLessThanWellFounded
<1> HIDE DEF R
<1>3. SUFFICES ASSUME Nat \ G # {} PROVE FALSE
  OBVIOUS
<1>4. PICK n \in Nat \ G : \A m \in Nat \ G : ~(<<m, n>> \in R)
  BY <1>2, <1>3, WFMin
<1>5. n # 0 /\ n - 1 \in Nat /\ (n - 1) + 1 = n
  BY <1>4
<1>6. n - 1 \in G
  <2>1. <<n - 1, n>> \in R
    BY <1>1, <1>5
  <2>2. QED
    BY <1>4, <1>5, <2>1
<1>7. QED
  BY <1>4, <1>5, <1>6

\* The element the fold takes first.
Some(s) == CHOOSE x \in s : TRUE

\* A function is the fold of f over the subsets of U.
Folds(g, f, U) ==
    g = [s \in SUBSET U |-> IF s = {} THEN 0 ELSE f[Some(s)] + g[s \ {Some(s)}]]

\* The recursive function that the library's sum chooses.
TheFold(f, U) == CHOOSE g : Folds(g, f, U)

\* The sum of the library is that function at the whole set.
LEMMA FoldUnfolds == \A f, S : SumFunctionOnSet(f, S) = TheFold(f, S)[S]
BY DEF SumFunctionOnSet, FoldFunctionOnSet, MapThenFoldSet, TheFold, Folds, Some

\* What is taken is there.
LEMMA SomeIn == \A s : s # {} => Some(s) \in s
BY DEF Some

\* There is at most one fold: two that differ would differ at a least subset.
LEMMA FoldUnique ==
    ASSUME NEW f, NEW U, IsFiniteSet(U), NEW g, NEW h, Folds(g, f, U), Folds(h, f, U)
    PROVE  g = h
<1> DEFINE G == {s \in SUBSET U : g[s] = h[s]}
<1>1. SUFFICES ASSUME NEW T \in SUBSET U PROVE T \in G
  BY DEF Folds
<1>2. IsFiniteSet(T)
  BY FS_Subset
<1>3. ASSUME NEW s \in SUBSET T, \A v \in SUBSET s : v # s => v \in G PROVE s \in G
  <2>1. CASE s = {}
    BY <2>1 DEF Folds
  <2>2. CASE s # {}
    <3>1. s \ {Some(s)} \in G
      BY <1>3, <2>2, SomeIn
    <3>2. QED
      BY <2>2, <3>1 DEF Folds
  <2>3. QED
    BY <2>1, <2>2
<1> HIDE DEF G
<1>4. QED
  BY <1>2, <1>3, SubsetInduction

\* A fold over the subsets of U is one over those of any subset of U.
LEMMA FoldNarrows ==
    ASSUME NEW f, NEW U, NEW V \in SUBSET U, NEW g, Folds(g, f, U)
    PROVE  Folds([s \in SUBSET V |-> g[s]], f, V)
BY DEF Folds

\* There is one over every finite set, so the library's choice is a fold.
LEMMA FoldExists ==
    ASSUME NEW f, NEW S, IsFiniteSet(S)
    PROVE  Folds(TheFold(f, S), f, S)
<1> DEFINE G == {U \in SUBSET S : \E g : Folds(g, f, U)}
<1>1. ASSUME NEW U \in SUBSET S, \A V \in SUBSET U : V # U => V \in G
      PROVE  U \in G
  <2> DEFINE g == [s \in SUBSET U |->
                     IF s = {} THEN 0 ELSE f[Some(s)] + TheFold(f, s \ {Some(s)})[s \ {Some(s)}]]
  <2>1. ASSUME NEW s \in SUBSET U, s # {}
        PROVE  g[s \ {Some(s)}] = TheFold(f, s \ {Some(s)})[s \ {Some(s)}]
    <3> DEFINE W == s \ {Some(s)}
               X == W \ {Some(W)}
               h == TheFold(f, W)
    <3>1. W \in SUBSET U /\ W # U /\ IsFiniteSet(W) /\ X \in SUBSET W
      BY <2>1, SomeIn, FS_Subset
    <3>2. Folds(h, f, W)
      BY <1>1, <3>1 DEF TheFold
    <3>3. CASE W = {}
      BY <3>1, <3>2, <3>3 DEF Folds
    <3>4. CASE W # {}
      <4>1. X \in SUBSET U /\ X # U /\ IsFiniteSet(X)
        BY <3>1, FS_Subset
      <4>2. Folds(TheFold(f, X), f, X)
        BY <1>1, <4>1 DEF TheFold
      <4>3. Folds([x \in SUBSET X |-> h[x]], f, X)
        BY <3>1, <3>2, FoldNarrows
      <4>4. [x \in SUBSET X |-> h[x]] = TheFold(f, X)
        BY <4>1, <4>2, <4>3, FoldUnique
      <4>5. h[X] = TheFold(f, X)[X]
        BY <4>4
      <4>6. h[W] = f[Some(W)] + h[X]
        BY <3>1, <3>2, <3>4 DEF Folds
      <4>7. g[W] = f[Some(W)] + TheFold(f, X)[X]
        BY <3>1, <3>4
      <4>8. QED
        BY <4>5, <4>6, <4>7
    <3>5. QED
      BY <3>3, <3>4
  <2>2. Folds(g, f, U)
    BY <2>1 DEF Folds
  <2>3. QED
    BY <2>2
<1>2. S \in G
  <2> HIDE DEF G
  <2>1. QED
    BY <1>1, SubsetInduction
<1>3. QED
  BY <1>2 DEF TheFold

\* The sum satisfies its recursion.
LEMMA SumUnfolds ==
    ASSUME NEW f, NEW S, IsFiniteSet(S)
    PROVE  SumFunctionOnSet(f, S) =
               IF S = {} THEN 0 ELSE f[Some(S)] + SumFunctionOnSet(f, S \ {Some(S)})
<1> DEFINE T == S \ {Some(S)}
           h == TheFold(f, S)
<1>1. Folds(h, f, S)
  BY FoldExists
<1>2. IsFiniteSet(T) /\ T \in SUBSET S
  BY FS_Subset
<1>3. [x \in SUBSET T |-> h[x]] = TheFold(f, T)
  <2>1. Folds([x \in SUBSET T |-> h[x]], f, T)
    BY <1>1, <1>2, FoldNarrows
  <2>2. Folds(TheFold(f, T), f, T)
    BY <1>2, FoldExists
  <2>3. QED
    BY <1>2, <2>1, <2>2, FoldUnique
<1>4. h[T] = TheFold(f, T)[T]
  BY <1>3
<1>5. h[S] = IF S = {} THEN 0 ELSE f[Some(S)] + h[T]
  BY <1>1 DEF Folds
<1>6. QED
  BY <1>4, <1>5, FoldUnfolds

\* Any element may be taken first.
LEMMA SumAdds ==
    ASSUME NEW S, IsFiniteSet(S), NEW f, \A y \in S : f[y] \in Int
    PROVE  /\ SumFunctionOnSet(f, S) \in Int
           /\ \A x \in S : SumFunctionOnSet(f, S) = f[x] + SumFunctionOnSet(f, S \ {x})
<1> DEFINE Sum(U) == SumFunctionOnSet(f, U)
           Claim(U) == Sum(U) \in Int /\ \A x \in U : Sum(U) = f[x] + Sum(U \ {x})
           G == {U \in SUBSET S : Claim(U)}
<1>1. ASSUME NEW U \in SUBSET S, \A V \in SUBSET U : V # U => V \in G PROVE U \in G
  <2> DEFINE c == Some(U)
  <2>1. Sum(U) = IF U = {} THEN 0 ELSE f[c] + Sum(U \ {c})
    BY FS_Subset, SumUnfolds
  <2>2. \A x \in U : Claim(U \ {x}) /\ f[x] \in Int
    BY <1>1
  <2> HIDE DEF Sum
  <2>3. CASE U = {}
    BY <2>1, <2>3
  <2>4. CASE U # {}
    <3>1. c \in U
      BY <2>4, SomeIn
    <3> HIDE DEF c
    <3>2. ASSUME NEW x \in U PROVE Sum(U) = f[x] + Sum(U \ {x})
      <4>1. CASE x = c
        BY <2>1, <2>4, <4>1
      <4>2. CASE x # c
        <5>1. Sum(U \ {c}) = f[x] + Sum((U \ {c}) \ {x})
          BY <2>2, <3>1, <4>2
        <5>2. Sum(U \ {x}) = f[c] + Sum((U \ {x}) \ {c})
          BY <2>2, <3>1, <4>2
        <5> DEFINE rest == Sum((U \ {x}) \ {c})
        <5>3. (U \ {c}) \ {x} = (U \ {x}) \ {c}
          OBVIOUS
        <5>4. rest \in Int /\ f[x] \in Int /\ f[c] \in Int
          <6>1. (U \ {x}) \ {c} \in G
            BY <1>1, <3>1
          <6>2. QED
            BY <2>2, <3>1, <6>1
        <5>5. Sum(U) = f[c] + (f[x] + rest)
          BY <2>1, <2>4, <5>1, <5>3
        <5> HIDE DEF rest
        <5>6. f[c] + (f[x] + rest) = f[x] + (f[c] + rest)
          BY <5>4
        <5>7. QED
          BY <5>2, <5>5, <5>6 DEF rest
      <4>3. QED
        BY <4>1, <4>2
    <3>3. Sum(U) \in Int
      BY <2>1, <2>2, <2>4, <3>1
    <3>4. QED
      BY <3>2, <3>3
  <2>5. QED
    BY <2>3, <2>4
<1>2. S \in G
  <2> HIDE DEF G
  <2>1. QED
    BY <1>1, SubsetInduction
<1>3. QED
  BY <1>2

\* The sum over no element and over one element more.
LEMMA SumGrows ==
    ASSUME NEW S, IsFiniteSet(S), NEW x, x \notin S, NEW f, \A y \in S \cup {x} : f[y] \in Int
    PROVE  /\ SumFunctionOnSet(f, S) \in Int
           /\ SumFunctionOnSet(f, S \cup {x}) = SumFunctionOnSet(f, S) + f[x]
           /\ SumFunctionOnSet(f, {}) = 0
<1>1. IsFiniteSet(S \cup {x}) /\ (S \cup {x}) \ {x} = S /\ x \in S \cup {x}
  BY FS_AddElement
<1>2. SumFunctionOnSet(f, S \cup {x}) = f[x] + SumFunctionOnSet(f, S)
  BY <1>1, SumAdds
<1>3. SumFunctionOnSet(f, S) \in Int /\ f[x] \in Int
  BY SumAdds
<1>4. SumFunctionOnSet(f, {}) = 0
  BY SumUnfolds, FS_EmptySet
<1>5. QED
  BY <1>2, <1>3, <1>4

\* Functions that agree on a set have the same sum over it.
LEMMA SumSame ==
    ASSUME NEW S, IsFiniteSet(S), NEW f, NEW g, \A y \in S : f[y] = g[y]
    PROVE  SumFunctionOnSet(f, S) = SumFunctionOnSet(g, S)
<1> DEFINE G == {U \in SUBSET S : SumFunctionOnSet(f, U) = SumFunctionOnSet(g, U)}
<1>1. ASSUME NEW U \in SUBSET S, \A V \in SUBSET U : V # U => V \in G PROVE U \in G
  <2>1. IsFiniteSet(U)
    BY FS_Subset
  <2>2. CASE U = {}
    BY <2>1, <2>2, SumUnfolds
  <2>3. CASE U # {}
    <3>1. Some(U) \in U /\ U \ {Some(U)} \in G
      BY <1>1, <2>3, SomeIn
    <3>2. QED
      BY <2>1, <2>3, <3>1, SumUnfolds
  <2>4. QED
    BY <2>2, <2>3
<1>2. S \in G
  <2> HIDE DEF G
  <2>1. QED
    BY <1>1, SubsetInduction
<1>3. QED
  BY <1>2

\* Nothing sums to nothing.
LEMMA SumOfNone == \A f : SumFunctionOnSet(f, {}) = 0
BY SumUnfolds, FS_EmptySet

-----------------------------------------------------------------------------
(* The gyro bias estimator and the log of its samples (GyroYaw). *)

\* A sum over 1 .. n + 1 has one term more than the sum over 1 .. n.
LEMMA SumToNext ==
    ASSUME NEW n \in Nat, NEW f, \A k \in 1 .. n + 1 : f[k] \in Int
    PROVE  /\ SumFunctionOnSet(f, 1 .. n) \in Int
           /\ SumFunctionOnSet(f, 1 .. n + 1) = SumFunctionOnSet(f, 1 .. n) + f[n + 1]
<1> DEFINE S == 1 .. n
           x == n + 1
<1>1. IsFiniteSet(S)
  BY FS_Interval
<1>2. x \notin S /\ 1 .. n + 1 = S \cup {x}
  OBVIOUS
<1>3. \A y \in S \cup {x} : f[y] \in Int
  BY <1>2
<1> HIDE DEF S, x
<1>4. SumFunctionOnSet(f, S) \in Int /\ SumFunctionOnSet(f, S \cup {x}) = SumFunctionOnSet(f, S) + f[x]
  BY <1>1, <1>2, <1>3, SumGrows
<1>5. QED
  BY <1>2, <1>4 DEF S, x

\* A sum over a log with a new first entry is that entry's term and the sum over the old log.
LEMMA SumPrepends ==
    ASSUME NEW n \in Nat, NEW f, NEW g, \A k \in 1 .. n : f[k] \in Int /\ g[k + 1] = f[k], g[1] \in Int
    PROVE  SumFunctionOnSet(g, 1 .. n + 1) = g[1] + SumFunctionOnSet(f, 1 .. n)
<1> DEFINE F(m) == SumFunctionOnSet(f, 1 .. m)
           H(m) == SumFunctionOnSet(g, 1 .. m)
           G == {m \in Nat : m <= n => H(m + 1) = g[1] + F(m) /\ F(m) \in Int}
<1>1. 0 \in G
  <2>1. H(1) = H(0) + g[1]
    <3>1. 0 \in Nat /\ 0 + 1 = 1 /\ \A k \in 1 .. 0 + 1 : g[k] \in Int
      OBVIOUS
    <3>2. SumFunctionOnSet(g, 1 .. 0 + 1) = SumFunctionOnSet(g, 1 .. 0) + g[0 + 1]
      BY <3>1, SumToNext
    <3>3. QED
      BY <3>1, <3>2
  <2>2. 1 .. 0 = {}
    OBVIOUS
  <2>3. H(0) = 0 /\ F(0) = 0
    BY <2>2, SumOfNone
  <2> HIDE DEF F, H
  <2>4. QED
    BY <2>1, <2>3
<1>2. ASSUME NEW m \in Nat, m \in G PROVE m + 1 \in G
  <2> SUFFICES ASSUME m + 1 <= n PROVE H(m + 2) = g[1] + F(m + 1) /\ F(m + 1) \in Int
    OBVIOUS
  <2>1. F(m) \in Int /\ F(m + 1) = F(m) + f[m + 1]
    <3>1. \A k \in 1 .. m + 1 : f[k] \in Int
      OBVIOUS
    <3>2. QED
      BY <3>1, SumToNext
  <2>2. H(m + 2) = H(m + 1) + g[m + 2]
    <3>1. \A k \in 1 .. (m + 1) + 1 : g[k] \in Int
      <4>1. ASSUME NEW k \in 1 .. (m + 1) + 1, k # 1 PROVE g[k] \in Int
        <5>1. k - 1 \in 1 .. n /\ (k - 1) + 1 = k
          BY <4>1
        <5>2. QED
          BY <5>1
      <4>2. QED
        BY <4>1
    <3>2. m + 1 \in Nat /\ (m + 1) + 1 = m + 2
      OBVIOUS
    <3>3. QED
      BY <3>1, <3>2, SumToNext
  <2>3. g[m + 2] = f[m + 1] /\ f[m + 1] \in Int
    <3>1. m + 1 \in 1 .. n /\ (m + 1) + 1 = m + 2
      OBVIOUS
    <3>2. QED
      BY <3>1
  <2>4. H(m + 1) = g[1] + F(m)
    BY <1>2
  <2> HIDE DEF F, H
  <2>5. QED
    BY <2>1, <2>2, <2>3, <2>4
<1>3. n \in G
  <2> HIDE DEF G
  <2>1. QED
    BY <1>1, <1>2, NatSetInduction
<1>4. QED
  BY <1>3

\* The identity behind the sums of squares that the estimator keeps.
LEMMA SpreadAlgebra ==
    ASSUME NEW n \in Int, NEW q \in Int, NEW s \in Int, NEW x \in Int
    PROVE  (n * q - s * s) + (q - 2 * x * s + n * (x * x))
               = (n + 1) * (q + x * x) - (s + x) * (s + x)
OBVIOUS

\* The same for one pair of readings.
LEMMA PairAlgebra ==
    ASSUME NEW q \in Int, NEW s \in Int, NEW m \in Int, NEW x \in Int, NEW y \in Int
    PROVE  (q - 2 * x * s + m * (x * x)) + (y - x) * (y - x)
               = (q + y * y) - 2 * x * (s + y) + (m + 1) * (x * x)
OBVIOUS

\* The spread of the rates is what the code computes from their sum and their squares.
LEMMA SpreadIsMoment ==
    ASSUME NEW l, NEW N \in Nat, \A k \in 1 .. N : l[k].rate \in Int
    PROVE  SpreadOf(l, N) = N * SquaresOf(l, N) - SumOf(l, N) * SumOf(l, N)
<1> DEFINE f == [p \in Pairs(N) |-> (l[p[1]].rate - l[p[2]].rate) * (l[p[1]].rate - l[p[2]].rate)]
           a == [k \in 1 .. N |-> l[k].rate]
           b == [k \in 1 .. N |-> l[k].rate * l[k].rate]
           F(P) == SumFunctionOnSet(f, P)
           A(m) == SumFunctionOnSet(a, 1 .. m)
           B(m) == SumFunctionOnSet(b, 1 .. m)
           Row(n, m) == {<<k, n>> : k \in 1 .. m}
           G == {n \in Nat : n <= N => IsFiniteSet(Pairs(n)) /\ F(Pairs(n)) = n * B(n) - A(n) * A(n)}
<1>1. A(0) = 0 /\ B(0) = 0 /\ Pairs(0) = {} /\ F({}) = 0
  <2>1. 1 .. 0 = {}
    OBVIOUS
  <2>2. QED
    BY <2>1, SumOfNone DEF Pairs
<1>2. ASSUME NEW m \in Nat, m < N
      PROVE  /\ A(m) \in Int /\ A(m + 1) = A(m) + a[m + 1]
             /\ B(m) \in Int /\ B(m + 1) = B(m) + b[m + 1]
             /\ a[m + 1] \in Int /\ b[m + 1] = a[m + 1] * a[m + 1]
  <2>1. \A k \in 1 .. m + 1 : a[k] \in Int /\ b[k] \in Int /\ b[k] = a[k] * a[k]
    <3> TAKE k \in 1 .. m + 1
    <3>1. k \in 1 .. N
      BY <1>2
    <3>2. a[k] = l[k].rate /\ b[k] = l[k].rate * l[k].rate /\ l[k].rate \in Int
      BY <3>1
    <3>3. QED
      BY <3>2
  <2>2. m + 1 \in 1 .. m + 1
    OBVIOUS
  <2> HIDE DEF a, b
  <2>3. QED
    BY <2>1, <2>2, SumToNext
<1>3. ASSUME NEW p \in Pairs(N) PROVE f[p] \in Int
  BY <1>3 DEF Pairs
<1>4. 0 \in G
  <2>1. IsFiniteSet(Pairs(0)) /\ F(Pairs(0)) = 0
    BY <1>1, FS_EmptySet
  <2> HIDE DEF F, A, B
  <2>2. 0 * B(0) - A(0) * A(0) = 0
    BY <1>1
  <2>3. QED
    BY <2>1, <2>2
<1>5. ASSUME NEW n \in Nat, n \in G PROVE n + 1 \in G
  <2> SUFFICES ASSUME n + 1 <= N
      PROVE IsFiniteSet(Pairs(n + 1)) /\ F(Pairs(n + 1)) = (n + 1) * B(n + 1) - A(n + 1) * A(n + 1)
    OBVIOUS
  <2> DEFINE x == a[n + 1]
             Part(m) == Pairs(n) \cup Row(n + 1, m)
             K == {m \in Nat : m <= n =>
                      /\ IsFiniteSet(Part(m))
                      /\ F(Part(m)) = F(Pairs(n)) + (B(m) - 2 * x * A(m) + m * (x * x))}
  <2>0. F(Pairs(n)) \in Int /\ x \in Int
    <3>1. Pairs(n) \subseteq Pairs(N)
      BY DEF Pairs
    <3>2. IsFiniteSet(Pairs(n))
      BY <1>5
    <3>3. x \in Int
      BY <1>2
    <3> HIDE DEF f
    <3>4. QED
      BY <1>3, <3>1, <3>2, <3>3, SumAdds
  <2>1. 0 \in K
    <3>1. Part(0) = Pairs(n)
      OBVIOUS
    <3>2. IsFiniteSet(Pairs(n))
      BY <1>5
    <3>3. F(Pairs(n)) = F(Pairs(n)) + (0 - 2 * x * 0 + 0 * (x * x))
      <4> HIDE DEF F, x
      <4>1. QED
        BY <2>0
    <3> HIDE DEF F, A, B, Part, x
    <3>4. QED
      BY <1>1, <3>1, <3>2, <3>3
  <2>2. ASSUME NEW m \in Nat, m \in K PROVE m + 1 \in K
    <3> SUFFICES ASSUME m + 1 <= n
        PROVE /\ IsFiniteSet(Part(m + 1))
              /\ F(Part(m + 1)) = F(Pairs(n)) + (B(m + 1) - 2 * x * A(m + 1) + (m + 1) * (x * x))
      OBVIOUS
    <3> DEFINE p == <<m + 1, n + 1>>
    <3>1. Part(m + 1) = Part(m) \cup {p} /\ p \notin Part(m)
      <4>1. 1 .. m + 1 = (1 .. m) \cup {m + 1}
        OBVIOUS
      <4>2. Row(n + 1, m + 1) = Row(n + 1, m) \cup {p}
        BY <4>1
      <4>3. p \notin Pairs(n)
        BY DEF Pairs
      <4>4. p \notin Row(n + 1, m)
        OBVIOUS
      <4>5. QED
        BY <4>2, <4>3, <4>4
    <3>2. Part(m) \cup {p} \subseteq Pairs(N)
      <4>1. Pairs(n) \subseteq Pairs(N) /\ p \in Pairs(N)
        BY DEF Pairs
      <4>2. Row(n + 1, m) \subseteq Pairs(N)
        BY DEF Pairs
      <4>3. QED
        BY <4>1, <4>2
    <3>3. f[p] = (a[m + 1] - x) * (a[m + 1] - x) /\ a[m + 1] \in Int
      <4>1. p \in Pairs(N) /\ p[1] = m + 1 /\ p[2] = n + 1
        BY <3>2
      <4>2. m + 1 \in 1 .. N /\ n + 1 \in 1 .. N
        OBVIOUS
      <4>3. QED
        BY <4>1, <4>2
    <3>4. IsFiniteSet(Part(m)) /\ F(Part(m)) = F(Pairs(n)) + (B(m) - 2 * x * A(m) + m * (x * x))
      BY <2>2
    <3>5. F(Part(m) \cup {p}) = F(Part(m)) + f[p]
      <4>1. \A q \in Part(m) \cup {p} : f[q] \in Int
        BY <1>3, <3>2
      <4> HIDE DEF f, Part, p
      <4>2. QED
        BY <3>1, <3>4, <4>1, SumGrows
    <3>6. A(m) \in Int /\ A(m + 1) = A(m) + a[m + 1] /\ B(m) \in Int
          /\ B(m + 1) = B(m) + a[m + 1] * a[m + 1]
      <4>1. m < N
        OBVIOUS
      <4> HIDE DEF A, B, a, b
      <4>2. QED
        BY <1>2, <4>1
    <3>7. F(Part(m + 1)) = F(Pairs(n)) + ((B(m) - 2 * x * A(m) + m * (x * x))
                                            + (a[m + 1] - x) * (a[m + 1] - x))
      <4> HIDE DEF F, A, B, a, x, f, p, Part
      <4> DEFINE u == B(m) - 2 * x * A(m) + m * (x * x)
                 v == (a[m + 1] - x) * (a[m + 1] - x)
      <4>1. u \in Int /\ v \in Int
        BY <2>0, <3>3, <3>6
      <4>2. F(Part(m + 1)) = (F(Pairs(n)) + u) + v
        BY <3>1, <3>3, <3>4, <3>5
      <4> HIDE DEF u, v
      <4>3. F(Part(m + 1)) = F(Pairs(n)) + (u + v)
        BY <2>0, <4>1, <4>2
      <4>4. QED
        BY <4>3 DEF u, v
    <3>8. (B(m) - 2 * x * A(m) + m * (x * x)) + (a[m + 1] - x) * (a[m + 1] - x)
              = (B(m) + a[m + 1] * a[m + 1]) - 2 * x * (A(m) + a[m + 1]) + (m + 1) * (x * x)
      <4> HIDE DEF A, B, a, x
      <4>1. QED
        BY <2>0, <3>3, <3>6, PairAlgebra
    <3>9. IsFiniteSet(Part(m + 1))
      BY <3>1, <3>4, FS_AddElement
    <3> HIDE DEF F, A, B, a, x, f, p, Part
    <3>10. QED
      BY <3>6, <3>7, <3>8, <3>9
  <2>3. n \in K
    <3> HIDE DEF K
    <3>1. QED
      BY <2>1, <2>2, NatSetInduction
  <2>4. Pairs(n + 1) = Part(n)
    <3>1. \A p \in Pairs(n + 1) : p \in Part(n)
      <4> SUFFICES ASSUME NEW i \in 1 .. n + 1, NEW j \in 1 .. n + 1, i < j
                   PROVE  <<i, j>> \in Part(n)
        BY DEF Pairs
      <4>1. CASE j = n + 1
        <5>1. i \in 1 .. n
          BY <4>1
        <5>2. QED
          BY <4>1, <5>1
      <4>2. CASE j # n + 1
        <5>1. i \in 1 .. n /\ j \in 1 .. n
          BY <4>2
        <5>2. QED
          BY <5>1 DEF Pairs
      <4>3. QED
        BY <4>1, <4>2
    <3>2. Pairs(n) \subseteq Pairs(n + 1) /\ Row(n + 1, n) \subseteq Pairs(n + 1)
      BY DEF Pairs
    <3>3. QED
      BY <3>1, <3>2
  <2>5. /\ A(n) \in Int /\ A(n + 1) = A(n) + x /\ B(n) \in Int /\ B(n + 1) = B(n) + x * x
    <3>1. n < N
      OBVIOUS
    <3> HIDE DEF A, B, a, b
    <3>2. QED
      BY <1>2, <3>1
  <2>6. IsFiniteSet(Part(n)) /\ F(Part(n)) = F(Pairs(n)) + (B(n) - 2 * x * A(n) + n * (x * x))
    BY <2>3
  <2>7. F(Pairs(n)) = n * B(n) - A(n) * A(n)
    BY <1>5
  <2> HIDE DEF F, A, B, x, Part
  <2>8. (n * B(n) - A(n) * A(n)) + (B(n) - 2 * x * A(n) + n * (x * x))
            = (n + 1) * (B(n) + x * x) - (A(n) + x) * (A(n) + x)
    BY <2>0, <2>5, SpreadAlgebra
  <2>9. QED
    BY <2>4, <2>5, <2>6, <2>7, <2>8
<1>6. N \in G
  <2> HIDE DEF G
  <2>1. QED
    BY <1>4, <1>5, NatSetInduction
<1>7. QED
  BY <1>6 DEF SpreadOf, SumOf, SquaresOf

\* A fresh estimator knows nothing of a log.
LEMMA FreshIsLogged ==
    ASSUME estimator' = gyro_yaw_begin, log' = <<>>
    PROVE  GyroYawInv'
<1>1. estimator' \in GyroType /\ log' \in Seq(Logged)
  BY GyroAges
<1>2. ~estimator'.sample_valid /\ estimator'.window = NoWindow
  BY DEF gyro_yaw_begin
<1>3. QED
  BY <1>1, <1>2 DEF GyroYawInv, NewestIsKnown, WindowIsLogged, Joinable

\* A sample put before a log
LEMMA Prepended ==
    ASSUME NEW l \in Seq(Logged), NEW sample \in Logged
    PROVE  /\ <<sample>> \o l \in Seq(Logged)
           /\ Len(<<sample>> \o l) = Len(l) + 1
           /\ (<<sample>> \o l)[1] = sample
           /\ \A k \in 1 .. Len(l) : (<<sample>> \o l)[k + 1] = l[k]
OBVIOUS

\* The window a stationary sample joins covers the log with that sample before it.
LEMMA WindowJoins ==
    ASSUME GyroYawInv, ~estimator.calibrated, NEW rate \in Int,
           NEW base, base = IF ~estimator.sample_valid \/ estimator.sample_age = 0
                                \/ estimator.sample_age > GYRO_MAX_AGE
                            THEN NoWindow ELSE estimator.window,
           NEW l, l = <<[age |-> 0, valid |-> TRUE, still |-> TRUE, rate |-> rate]>> \o log
    PROVE  Covers(AddSample(base, rate), l)
<1> DEFINE s == [age |-> 0, valid |-> TRUE, still |-> TRUE, rate |-> rate]
           w == AddSample(base, rate)
           n == base.samples
<1>1. /\ log \in Seq(Logged) /\ l \in Seq(Logged) /\ Len(l) = Len(log) + 1 /\ l[1] = s
      /\ \A k \in 1 .. Len(log) : l[k + 1] = log[k]
  <2>1. s \in Logged /\ log \in Seq(Logged)
    BY DEF Logged, GyroYawInv
  <2>2. QED
    BY <2>1, Prepended
<1>2. \A k \in 1 .. Len(log) : log[k] \in Logged /\ log[k].age \in Nat /\ log[k].rate \in Int
  <2> TAKE k \in 1 .. Len(log)
  <2>1. log[k] \in Logged
    BY <1>1
  <2>2. QED
    BY <2>1 DEF Logged
<1>3. GYRO_WINDOW \in Nat \ {0} /\ GYRO_MAX_AGE \in Nat \ {0}
  BY GyroAssumption
<1>4. CASE base = NoWindow
  <2>1. n = 0 /\ base.sum = 0 /\ base.squares = 0 /\ ~base.started
    BY <1>4 DEF NoWindow
  <2>2. w = [started |-> TRUE, age |-> 0, samples |-> 1, sum |-> rate, squares |-> rate * rate]
    <3> DEFINE square == rate * rate
    <3>1. square \in Int
      OBVIOUS
    <3>2. w = [started |-> TRUE, age |-> 0, samples |-> 0 + 1, sum |-> 0 + rate, squares |-> 0 + square]
      BY <2>1 DEF AddSample
    <3> HIDE DEF square
    <3>3. 0 + square = square /\ 0 + rate = rate /\ 0 + 1 = 1
      BY <3>1
    <3>4. QED
      BY <3>2, <3>3 DEF square
  <2>3. SumOf(l, 1) = rate /\ SquaresOf(l, 1) = rate * rate
    <3>1. 1 .. 1 = {} \cup {1} /\ IsFiniteSet({}) /\ rate * rate \in Int
      BY FS_EmptySet
    <3> DEFINE a == [k \in 1 .. 1 |-> l[k].rate]
               b == [k \in 1 .. 1 |-> l[k].rate * l[k].rate]
    <3>2. a[1] = rate /\ b[1] = rate * rate /\ a[1] \in Int /\ b[1] \in Int
      BY <1>1, <3>1
    <3> HIDE DEF a, b
    <3>3. SumFunctionOnSet(a, {} \cup {1}) = SumFunctionOnSet(a, {}) + a[1]
          /\ SumFunctionOnSet(a, {}) = 0
      BY <3>1, <3>2, SumGrows
    <3>4. SumFunctionOnSet(b, {} \cup {1}) = SumFunctionOnSet(b, {}) + b[1]
          /\ SumFunctionOnSet(b, {}) = 0
      BY <3>1, <3>2, SumGrows
    <3>5. SumFunctionOnSet(a, 1 .. 1) = rate /\ SumFunctionOnSet(b, 1 .. 1) = rate * rate
      BY <3>1, <3>2, <3>3, <3>4
    <3>6. QED
      BY <3>5 DEF a, b, SumOf, SquaresOf
  <2>4. l[1].age = 0 /\ l[1].valid /\ l[1].still
    BY <1>1
  <2>5. CleanRun(l, 1)
    BY <2>4 DEF CleanRun
  <2>6. 1 \in 1 .. Len(l)
    BY <1>1
  <2> HIDE DEF w
  <2>7. QED
    BY <1>3, <2>2, <2>3, <2>4, <2>5, <2>6 DEF Covers, w
<1>5. CASE base # NoWindow
  <2>1. /\ base = estimator.window /\ base.started /\ Joinable /\ estimator.sample_age # 0
        /\ log[1].age = estimator.sample_age /\ log # <<>>
    <3>1. /\ base = estimator.window /\ estimator.sample_valid /\ estimator.sample_age # 0
          /\ ~(estimator.sample_age > GYRO_MAX_AGE)
      BY <1>5
    <3>2. estimator.sample_age \in Nat
      BY <1>3 DEF GyroYawInv, GyroType
    <3>3. Joinable
      BY <1>3, <3>1, <3>2 DEF Joinable
    <3>4. QED
      BY <1>5, <3>1, <3>3 DEF GyroYawInv, NewestIsKnown, WindowIsLogged
  <2>2. Covers(base, log)
    BY <2>1 DEF GyroYawInv, WindowIsLogged
  <2>3. /\ n \in 1 .. Len(log) /\ CleanRun(log, n) /\ \A k \in 1 .. n : log[k].age <= log[n].age
        /\ base.age = IF log[n].age < GYRO_WINDOW THEN log[n].age ELSE GYRO_WINDOW
        /\ base.sum = SumOf(log, n) /\ base.squares = SquaresOf(log, n)
    BY <2>2 DEF Covers
  <2>4. w = [started |-> TRUE, age |-> base.age, samples |-> n + 1, sum |-> base.sum + rate,
             squares |-> base.squares + rate * rate]
    BY <2>1 DEF AddSample
  <2>5. l[n + 1] = log[n] /\ n + 1 \in 1 .. Len(l) /\ n \in Nat
    <3>1. n \in 1 .. Len(log)
      BY <2>3
    <3> HIDE DEF n
    <3>2. n \in Nat /\ n + 1 \in 1 .. Len(l)
      BY <1>1, <3>1
    <3>3. l[n + 1] = log[n]
      BY <1>1, <3>1
    <3>4. QED
      BY <3>2, <3>3
  <2>6. \A k \in 2 .. n + 1 : k - 1 \in 1 .. n /\ l[k] = log[k - 1]
    <3> TAKE k \in 2 .. n + 1
    <3>1. k - 1 \in 1 .. n /\ k - 1 \in 1 .. Len(log) /\ (k - 1) + 1 = k
      BY <2>3
    <3>2. QED
      BY <1>1, <3>1
  <2>7. \A k \in 1 .. n + 1 : l[k].age <= l[n + 1].age
    <3> TAKE k \in 1 .. n + 1
    <3>1. CASE k = 1
      BY <1>1, <1>2, <2>3, <2>5, <3>1
    <3>2. CASE k # 1
      BY <2>3, <2>5, <2>6, <3>2
    <3>3. QED
      BY <3>1, <3>2
  <2>8. CleanRun(l, n + 1)
    <3>1. ASSUME NEW k \in 1 .. n + 1 PROVE l[k].valid /\ l[k].still
      <4>1. CASE k = 1
        BY <1>1, <4>1
      <4>2. CASE k # 1
        BY <2>3, <2>6, <4>2 DEF CleanRun
      <4>3. QED
        BY <4>1, <4>2
    <3>2. ASSUME NEW k \in 1 .. n
          PROVE  l[k].age < l[k + 1].age /\ l[k + 1].age <= l[k].age + GYRO_MAX_AGE
      <4>1. l[k + 1] = log[k]
        BY <1>1, <2>3
      <4>2. CASE k = 1
        <5>1. l[k].age = 0
          BY <1>1, <4>2
        <5>2. log[1].age \in Nat /\ log[1].age # 0 /\ log[1].age <= GYRO_MAX_AGE
          BY <1>2, <2>1, <2>3 DEF Joinable
        <5>3. l[k + 1].age = log[1].age
          BY <4>1, <4>2
        <5>4. 0 < log[1].age /\ log[1].age <= 0 + GYRO_MAX_AGE
          BY <1>3, <5>2
        <5>5. QED
          BY <5>1, <5>3, <5>4
      <4>3. CASE k # 1
        <5>1. k - 1 \in 1 .. n - 1 /\ l[k] = log[k - 1] /\ (k - 1) + 1 = k
          BY <2>3, <2>6, <4>3
        <5>2. log[k - 1].age < log[(k - 1) + 1].age /\ log[(k - 1) + 1].age <= log[k - 1].age + GYRO_MAX_AGE
          BY <2>3, <5>1 DEF CleanRun
        <5>3. QED
          BY <4>1, <5>1, <5>2
      <4>4. QED
        BY <4>2, <4>3
    <3>3. (n + 1) - 1 = n
      BY <2>3
    <3>4. QED
      BY <3>1, <3>2, <3>3 DEF CleanRun
  <2>9. SumOf(l, n + 1) = rate + SumOf(log, n) /\ SumOf(log, n) \in Int
    <3> DEFINE f == [k \in 1 .. n |-> log[k].rate]
               g == [k \in 1 .. n + 1 |-> l[k].rate]
    <3>1. g[1] = rate
      BY <1>1, <2>3
    <3>2. ASSUME NEW k \in 1 .. n PROVE f[k] \in Int /\ g[k + 1] = f[k]
      <4>1. k + 1 \in 1 .. n + 1 /\ l[k + 1] = log[k] /\ log[k].rate \in Int
        BY <1>1, <1>2, <2>3
      <4>2. QED
        BY <4>1
    <3> HIDE DEF f, g
    <3>3. SumFunctionOnSet(g, 1 .. n + 1) = g[1] + SumFunctionOnSet(f, 1 .. n)
      BY <2>5, <3>1, <3>2, SumPrepends
    <3>4. SumFunctionOnSet(f, 1 .. n) \in Int
      <4>1. IsFiniteSet(1 .. n)
        BY <2>5, FS_Interval
      <4>2. QED
        BY <3>2, <4>1, SumAdds
    <3>5. QED
      BY <3>1, <3>3, <3>4 DEF f, g, SumOf
  <2>10. SquaresOf(l, n + 1) = rate * rate + SquaresOf(log, n) /\ SquaresOf(log, n) \in Int
    <3> DEFINE f == [k \in 1 .. n |-> log[k].rate * log[k].rate]
               g == [k \in 1 .. n + 1 |-> l[k].rate * l[k].rate]
    <3>1. g[1] = rate * rate
      BY <1>1, <2>3
    <3>2. ASSUME NEW k \in 1 .. n PROVE f[k] \in Int /\ g[k + 1] = f[k]
      <4>1. k + 1 \in 1 .. n + 1 /\ l[k + 1] = log[k] /\ log[k].rate \in Int
        BY <1>1, <1>2, <2>3
      <4>2. log[k].rate * log[k].rate \in Int
        BY <4>1
      <4>3. QED
        BY <4>1, <4>2
    <3>3. rate * rate \in Int
      OBVIOUS
    <3> DEFINE square == rate * rate
    <3> HIDE DEF f, g, square
    <3>4. SumFunctionOnSet(g, 1 .. n + 1) = g[1] + SumFunctionOnSet(f, 1 .. n)
      BY <2>5, <3>1, <3>2, <3>3, SumPrepends DEF square
    <3>5. SumFunctionOnSet(f, 1 .. n) \in Int
      <4>1. IsFiniteSet(1 .. n)
        BY <2>5, FS_Interval
      <4>2. QED
        BY <3>2, <4>1, SumAdds
    <3>6. QED
      BY <3>1, <3>4, <3>5 DEF f, g, SquaresOf
  <2> DEFINE square == rate * rate
  <2>11. square \in Int
    OBVIOUS
  <2>12. /\ w.samples = n + 1 /\ w.age = base.age /\ w.sum = base.sum + rate
         /\ w.squares = base.squares + square
    BY <2>4
  <2> HIDE DEF w, square
  <2>13. w.sum = SumOf(l, n + 1) /\ w.squares = SquaresOf(l, n + 1)
    BY <2>3, <2>9, <2>10, <2>11, <2>12 DEF square
  <2>14. Covers(w, l)
    BY <2>3, <2>5, <2>7, <2>8, <2>12, <2>13 DEF Covers
  <2>15. QED
    BY <2>14 DEF w
<1>6. QED
  BY <1>4, <1>5

\* Nothing joins, so no window has to be covered
LEMMA Unjoined ==
    ASSUME estimator' \in GyroType, log' \in Seq(Logged), NewestIsKnown',
           estimator'.window.started \/ estimator'.window = NoWindow,
           ~estimator'.sample_valid \/ estimator'.calibrated \/ estimator'.window = NoWindow
    PROVE  GyroYawInv'
BY DEF GyroYawInv, WindowIsLogged, Joinable, NoWindow

\* A sample that is due leaves the estimator in step with its log.
LEMMA ObserveInv ==
    ASSUME GyroYawInv, NEW rate \in Int, NEW valid \in BOOLEAN, NEW still \in BOOLEAN,
           Observe(rate, valid, still)
    PROVE  GyroYawInv'
<1> DEFINE s == [age |-> 0, valid |-> valid, still |-> still, rate |-> rate]
<1>1. estimator \in GyroType /\ estimator' = gyro_yaw_observe(estimator, rate, valid, still)
  BY DEF GyroYawInv, Observe
<1>2. estimator' \in GyroType
  BY <1>1, ObserveType
<1>3. log' = (IF valid /\ still /\ ~estimator.calibrated THEN <<s>> \o log ELSE <<s>>)
  BY DEF Observe
<1>4. log' \in Seq(Logged) /\ log' # <<>> /\ log'[1] = s
  <2>1. s \in Logged /\ log \in Seq(Logged)
    BY DEF Logged, GyroYawInv
  <2>2. <<s>> \in Seq(Logged) /\ Len(<<s>>) = 1 /\ <<s>>[1] = s
    BY <2>1
  <2>3. /\ <<s>> \o log \in Seq(Logged) /\ Len(<<s>> \o log) = Len(log) + 1
        /\ (<<s>> \o log)[1] = s /\ Len(log) \in Nat
    BY <2>1, Prepended
  <2> HIDE DEF s
  <2>4. QED
    BY <1>3, <2>2, <2>3
<1>5. log'[1].valid = valid /\ log'[1].age = 0
  BY <1>4
<1>6. GYRO_WINDOW \in Nat \ {0} /\ GYRO_MAX_AGE \in Nat \ {0}
  BY GyroAssumption
<1> DEFINE taken == [estimator EXCEPT !.sample_age = 0, !.sample_valid = TRUE]
<1>7. estimator.window.started \/ estimator.window = NoWindow
  BY DEF GyroYawInv, WindowIsLogged
<1>8. CASE ~valid
  <2>1. estimator' = DropSample(estimator)
    BY <1>1, <1>8 DEF gyro_yaw_observe
  <2>2. ~estimator'.sample_valid /\ (estimator'.window = estimator.window \/ estimator'.window = NoWindow)
    BY <1>1, <2>1 DEF DropSample, restart_window, GyroType
  <2>3. NewestIsKnown'
    BY <1>5, <1>8, <2>2 DEF NewestIsKnown, Joinable
  <2>4. QED
    BY <1>2, <1>4, <1>7, <2>2, <2>3, Unjoined
<1>9. ASSUME valid, estimator'.sample_valid, estimator'.sample_age = 0 PROVE NewestIsKnown'
  BY <1>4, <1>5, <1>6, <1>9 DEF NewestIsKnown, Joinable
<1>10. CASE valid /\ estimator.calibrated
  <2>1. estimator' = taken
    BY <1>1, <1>10 DEF gyro_yaw_observe
  <2>2. /\ estimator'.sample_valid /\ estimator'.sample_age = 0 /\ estimator'.calibrated
        /\ estimator'.window = estimator.window
    BY <1>1, <1>10, <2>1 DEF GyroType
  <2>3. QED
    BY <1>2, <1>4, <1>7, <1>9, <1>10, <2>2, Unjoined
<1>11. ASSUME valid, estimator' = restart_window(taken) PROVE GyroYawInv'
  <2>1. estimator'.sample_valid /\ estimator'.sample_age = 0 /\ estimator'.window = NoWindow
    BY <1>1, <1>11 DEF GyroType, restart_window
  <2>2. QED
    BY <1>2, <1>4, <1>9, <1>11, <2>1, Unjoined
<1>12. CASE valid /\ ~estimator.calibrated /\ ~still
  <2>1. estimator' = restart_window(taken)
    BY <1>1, <1>12 DEF gyro_yaw_observe
  <2>2. QED
    BY <1>11, <1>12, <2>1
<1>13. CASE valid /\ ~estimator.calibrated /\ still
  <2> DEFINE base == IF ~estimator.sample_valid \/ estimator.sample_age = 0
                        \/ estimator.sample_age > GYRO_MAX_AGE
                     THEN NoWindow ELSE estimator.window
             w == AddSample(base, rate)
  <2>1. Covers(w, log')
    BY <1>3, <1>13, WindowJoins
  <2>2. \/ w.age < GYRO_WINDOW /\ estimator' = [taken EXCEPT !.window = w]
        \/ estimator' = [taken EXCEPT !.window = w, !.calibrated = TRUE]
        \/ estimator' = restart_window(taken)
    BY <1>1, <1>13 DEF gyro_yaw_observe
  <2>3. w.started
    BY DEF AddSample
  <2> HIDE DEF w
  <2>4. CASE w.age < GYRO_WINDOW /\ estimator' = [taken EXCEPT !.window = w]
    <3>1. estimator'.sample_valid /\ estimator'.sample_age = 0 /\ estimator'.window = w
      BY <1>1, <2>4 DEF GyroType
    <3>2. log'[w.samples].age < log'[1].age + GYRO_WINDOW
      <4>1. w.samples \in 1 .. Len(log') /\ w.age = IF log'[w.samples].age < GYRO_WINDOW
                                                    THEN log'[w.samples].age ELSE GYRO_WINDOW
        BY <2>1 DEF Covers
      <4>2. log'[w.samples].age < GYRO_WINDOW
        BY <1>6, <2>4, <4>1
      <4>3. 0 + GYRO_WINDOW = GYRO_WINDOW
        BY <1>6
      <4>4. QED
        BY <1>5, <4>2, <4>3
    <3>3. WindowIsLogged'
      BY <2>1, <2>3, <3>1, <3>2 DEF WindowIsLogged
    <3>4. QED
      BY <1>2, <1>4, <1>9, <1>13, <3>1, <3>3 DEF GyroYawInv
  <2>5. CASE estimator' = [taken EXCEPT !.window = w, !.calibrated = TRUE]
    <3>1. /\ estimator'.sample_valid /\ estimator'.sample_age = 0 /\ estimator'.window = w
          /\ estimator'.calibrated
      BY <1>1, <2>5 DEF GyroType
    <3>2. QED
      BY <1>2, <1>4, <1>9, <1>13, <2>3, <3>1, Unjoined
  <2>6. QED
    BY <1>11, <1>13, <2>2, <2>4, <2>5
<1>14. QED
  BY <1>8, <1>10, <1>12, <1>13

\* A tick leaves the estimator in step with its log.
LEMMA GyroTickInv ==
    ASSUME GyroYawInv, GyroYawTick
    PROVE  GyroYawInv'
<1> DEFINE w == estimator.window
           v == estimator'.window
<1>1. PICK m \in 0 .. Len(log) :
          /\ \A k \in DOMAIN log : k <= m <=> log[k].age + 1 < LOG_AGE_MAX
          /\ log' = [k \in 1 .. m |-> [log[k] EXCEPT !.age = @ + 1]]
  BY DEF GyroYawTick
<1>2. estimator \in GyroType /\ log \in Seq(Logged) /\ estimator' = GyroOlder(estimator)
  BY DEF GyroYawInv, GyroYawTick
<1>3. m \in Nat /\ Len(log) \in Nat /\ DOMAIN log = 1 .. Len(log) /\ 1 .. m \subseteq 1 .. Len(log)
  BY <1>2
<1>4. ASSUME NEW k \in 1 .. Len(log)
      PROVE  log[k] \in Logged /\ log[k].age \in Nat /\ log[k].rate \in Int
  <2>1. log[k] \in Logged
    BY <1>2
  <2>2. QED
    BY <2>1 DEF Logged
<1>5. ASSUME NEW k \in 1 .. m
      PROVE  /\ log'[k].age = log[k].age + 1 /\ log'[k].rate = log[k].rate
             /\ log'[k].valid = log[k].valid /\ log'[k].still = log[k].still /\ log'[k] \in Logged
  <2>1. log'[k] = [log[k] EXCEPT !.age = @ + 1] /\ log[k] \in Logged
    BY <1>1, <1>3, <1>4
  <2>2. QED
    BY <2>1 DEF Logged
<1>6. log' \in Seq(Logged) /\ Len(log') = m
  BY <1>1, <1>3, <1>5
<1>7. estimator' \in GyroType /\ estimator'.calibrated = estimator.calibrated
  BY <1>2, GyroAges
<1>8. GYRO_WINDOW \in Nat \ {0} /\ GYRO_MAX_AGE \in Nat \ {0}
  BY GyroAssumption
<1>9. /\ estimator'.sample_valid = estimator.sample_valid
      /\ estimator'.sample_age = IF estimator.sample_valid
                                 THEN Older(estimator.sample_age, GYRO_MAX_AGE + 1) ELSE 0
      /\ v = [w EXCEPT !.age = IF w.started THEN Older(w.age, GYRO_WINDOW) ELSE 0]
  BY <1>2 DEF GyroOlder, GyroType
<1>10. /\ estimator.sample_age \in 0 .. GYRO_MAX_AGE + 1 /\ w \in WindowType
  BY <1>2 DEF GyroType
<1>11. /\ v.started = w.started /\ v.samples = w.samples /\ v.sum = w.sum /\ v.squares = w.squares
       /\ v.age = IF w.started THEN Older(w.age, GYRO_WINDOW) ELSE 0
  BY <1>9, <1>10 DEF WindowType
<1>12. Joinable' => Joinable /\ estimator'.sample_age = estimator.sample_age + 1
                    /\ estimator.sample_age + 1 <= GYRO_MAX_AGE
  BY <1>8, <1>9, <1>10 DEF Joinable, Older
<1>13. Joinable /\ estimator.sample_age + 1 <= GYRO_MAX_AGE
           => Joinable' /\ estimator'.sample_age = estimator.sample_age + 1
  BY <1>8, <1>9, <1>10 DEF Joinable, Older
<1>14. LOG_AGE_MAX = GYRO_WINDOW + GYRO_MAX_AGE + 1
  BY DEF LOG_AGE_MAX
<1>15. NewestIsKnown'
  <2>1. CASE Joinable'
    <3>1. /\ Joinable /\ log # <<>> /\ log[1].valid /\ log[1].age = estimator.sample_age
          /\ log[1].age + 1 <= GYRO_MAX_AGE
      BY <1>12, <2>1 DEF GyroYawInv, NewestIsKnown
    <3>2. 1 \in DOMAIN log /\ log[1].age \in Nat
      BY <1>2, <1>3, <1>4, <3>1
    <3>3. log[1].age + 1 < LOG_AGE_MAX
      BY <1>8, <1>14, <3>1, <3>2
    <3>4. 1 \in 1 .. m
      BY <1>1, <1>3, <3>2, <3>3
    <3>5. log' # <<>>
      BY <1>6, <3>4
    <3>6. log'[1].valid /\ log'[1].age = estimator'.sample_age /\ log'[1].age <= GYRO_MAX_AGE
      BY <1>5, <1>12, <2>1, <3>1, <3>4
    <3>7. QED
      BY <2>1, <3>5, <3>6 DEF NewestIsKnown
  <2>2. CASE ~Joinable'
    <3>1. SUFFICES ASSUME log' # <<>>, log'[1].valid, log'[1].age <= GYRO_MAX_AGE PROVE FALSE
      BY <2>2 DEF NewestIsKnown
    <3>2. 1 \in 1 .. m
      BY <1>3, <1>6, <3>1
    <3>3. log[1].valid /\ log[1].age \in Nat /\ log[1].age + 1 <= GYRO_MAX_AGE /\ log # <<>>
      BY <1>3, <1>4, <1>5, <3>1, <3>2
    <3>4. Joinable /\ log[1].age = estimator.sample_age
      BY <1>8, <3>3 DEF GyroYawInv, NewestIsKnown
    <3>5. QED
      BY <1>13, <2>2, <3>3, <3>4
  <2>3. QED
    BY <2>1, <2>2
<1>16. v.started \/ v = NoWindow
  <2>1. w.started \/ w = NoWindow
    BY DEF GyroYawInv, WindowIsLogged
  <2>2. CASE w = NoWindow
    BY <1>9, <2>2 DEF NoWindow
  <2>3. QED
    BY <1>11, <2>1, <2>2
<1>17. ASSUME ~estimator'.calibrated, v.started, Joinable'
       PROVE  Covers(v, log') /\ log'[v.samples].age < log'[1].age + GYRO_WINDOW
  <2> DEFINE n == w.samples
  <2>1. Covers(w, log) /\ log[n].age < log[1].age + GYRO_WINDOW
    BY <1>7, <1>11, <1>12, <1>17 DEF GyroYawInv, WindowIsLogged
  <2>2. n \in 1 .. Len(log) /\ log[n].age \in Nat /\ log[1].age \in Nat
    <3>1. n \in 1 .. Len(log) /\ 1 \in 1 .. Len(log)
      BY <1>3, <2>1 DEF Covers
    <3>2. QED
      BY <1>4, <3>1
  <2>3. log[1].age + 1 <= GYRO_MAX_AGE
    BY <1>12, <1>17 DEF GyroYawInv, NewestIsKnown
  <2>4. log[n].age + 1 < LOG_AGE_MAX
    <3> DEFINE oldest == log[n].age
               newest == log[1].age
    <3>1. oldest < newest + GYRO_WINDOW /\ oldest \in Nat /\ newest \in Nat /\ newest + 1 <= GYRO_MAX_AGE
      BY <2>1, <2>2, <2>3
    <3> HIDE DEF oldest, newest
    <3>2. oldest + 1 < GYRO_WINDOW + GYRO_MAX_AGE + 1
      BY <1>8, <3>1
    <3>3. QED
      BY <1>14, <3>2 DEF oldest
  <2>5. n \in 1 .. m
    BY <1>1, <1>3, <2>2, <2>4
  <2>6. 1 \in 1 .. m /\ 1 .. n \subseteq 1 .. m
    BY <1>3, <2>5
  <2>7. \A k \in 1 .. n : /\ log'[k].age = log[k].age + 1 /\ log'[k].rate = log[k].rate
                          /\ log'[k].valid = log[k].valid /\ log'[k].still = log[k].still
                          /\ log[k].age \in Nat
    BY <1>3, <1>4, <1>5, <2>6
  <2>8. SumOf(log', n) = SumOf(log, n) /\ SquaresOf(log', n) = SquaresOf(log, n)
    <3>1. [k \in 1 .. n |-> log'[k].rate] = [k \in 1 .. n |-> log[k].rate]
      BY <2>7
    <3>2. [k \in 1 .. n |-> log'[k].rate * log'[k].rate] = [k \in 1 .. n |-> log[k].rate * log[k].rate]
      BY <2>7
    <3>3. QED
      BY <3>1, <3>2 DEF SumOf, SquaresOf
  <2>9. CleanRun(log', n)
    <3>1. \A k \in 1 .. n : log'[k].valid /\ log'[k].still
      BY <2>1, <2>7 DEF Covers, CleanRun
    <3>2. ASSUME NEW k \in 1 .. n - 1
          PROVE  log'[k].age < log'[k + 1].age /\ log'[k + 1].age <= log'[k].age + GYRO_MAX_AGE
      <4>1. k \in 1 .. n /\ k + 1 \in 1 .. n
        BY <2>5, <1>3
      <4>2. log[k].age < log[k + 1].age /\ log[k + 1].age <= log[k].age + GYRO_MAX_AGE
        BY <2>1 DEF Covers, CleanRun
      <4>3. /\ log'[k].age = log[k].age + 1 /\ log[k].age \in Nat
            /\ log'[k + 1].age = log[k + 1].age + 1 /\ log[k + 1].age \in Nat
        BY <2>7, <4>1
      <4>4. QED
        BY <1>8, <4>2, <4>3
    <3>3. QED
      BY <3>1, <3>2 DEF CleanRun
  <2>10. \A k \in 1 .. n : log'[k].age <= log'[n].age
    <3> TAKE k \in 1 .. n
    <3>1. log[k].age <= log[n].age
      BY <2>1 DEF Covers
    <3>2. log'[k].age = log[k].age + 1 /\ log[k].age \in Nat
      BY <2>7
    <3>3. log'[n].age = log[n].age + 1
      BY <1>5, <2>5
    <3>4. QED
      BY <2>2, <3>1, <3>2, <3>3
  <2>11. w.age = (IF log[n].age < GYRO_WINDOW THEN log[n].age ELSE GYRO_WINDOW)
         /\ w.sum = SumOf(log, n) /\ w.squares = SquaresOf(log, n)
    BY <2>1 DEF Covers
  <2>12. v.age = IF log'[n].age < GYRO_WINDOW THEN log'[n].age ELSE GYRO_WINDOW
    <3>1. log'[n].age = log[n].age + 1
      BY <1>5, <2>5
    <3>2. v.age = Older(w.age, GYRO_WINDOW)
      BY <1>11, <1>17
    <3>3. QED
      BY <1>8, <2>2, <2>11, <3>1, <3>2 DEF Older
  <2>13. log'[n].age < log'[1].age + GYRO_WINDOW
    <3> DEFINE oldest == log[n].age
               newest == log[1].age
    <3>1. log'[n].age = oldest + 1 /\ log'[1].age = newest + 1
      BY <1>5, <2>5, <2>6
    <3>2. oldest < newest + GYRO_WINDOW /\ oldest \in Nat /\ newest \in Nat
      BY <2>1, <2>2
    <3> HIDE DEF oldest, newest
    <3>3. QED
      BY <1>8, <3>1, <3>2
  <2>14. v.samples = n /\ n \in 1 .. Len(log')
    BY <1>6, <1>11, <2>5
  <2>15. v.sum = SumOf(log', n) /\ v.squares = SquaresOf(log', n)
    BY <1>11, <2>8, <2>11
  <2> HIDE DEF n, v
  <2>16. QED
    BY <2>9, <2>10, <2>12, <2>13, <2>14, <2>15 DEF Covers
<1>18. QED
  BY <1>6, <1>7, <1>15, <1>16, <1>17 DEF GyroYawInv, WindowIsLogged

\* The estimator stays in step with the log of its samples: an open window's count, sums and
\* age are those of the newest samples of the log, which are all valid and still.
THEOREM EstimatorKnowsItsLog == GyroYawSpec => []GyroYawInv
<1>1. GyroYawInit => GyroYawInv
  <2> SUFFICES ASSUME GyroYawInit PROVE GyroYawInv
    OBVIOUS
  <2>1. estimator = gyro_yaw_begin /\ log = <<>>
    BY DEF GyroYawInit
  <2>2. estimator \in GyroType /\ log \in Seq(Logged)
    BY <2>1, GyroAges
  <2>3. ~estimator.sample_valid /\ estimator.window = NoWindow
    BY <2>1 DEF gyro_yaw_begin
  <2>4. QED
    BY <2>1, <2>2, <2>3 DEF GyroYawInv, NewestIsKnown, WindowIsLogged, Joinable
<1>2. GyroYawInv /\ [GyroYawNext]_gyroYawVars => GyroYawInv'
  <2> SUFFICES ASSUME GyroYawInv, [GyroYawNext]_gyroYawVars PROVE GyroYawInv'
    OBVIOUS
  <2>1. CASE Restart
    BY <2>1, FreshIsLogged DEF Restart
  <2>2. ASSUME NEW rate \in RAW_RATES, NEW valid \in BOOLEAN, NEW still \in BOOLEAN,
               Observe(rate, valid, still)
        PROVE  GyroYawInv'
    BY <2>2, ObserveInv, LogAssumption
  <2>3. CASE GyroYawTick
    BY <2>3, GyroTickInv
  <2>4. CASE UNCHANGED gyroYawVars
    BY <2>4 DEF gyroYawVars, GyroYawInv, NewestIsKnown, WindowIsLogged, Joinable
  <2>5. QED
    BY <2>1, <2>2, <2>3, <2>4 DEF GyroYawNext
<1>3. QED
  BY <1>1, <1>2, PTL DEF GyroYawSpec

\* What the code asks of a window that covers its log is what makes it a good one.
LEMMA AcceptedIsGood ==
    ASSUME NEW l \in Seq(Logged), NEW w, w.samples \in Nat, Covers(w, l)
    PROVE  w.age >= GYRO_WINDOW /\ WindowAccepted(w) <=> GoodWindow(l, w.samples)
<1> DEFINE n == w.samples
           sum == SumOf(l, n)
           squares == SquaresOf(l, n)
           limit == GYRO_MAX_BIAS * n
<1>1. n \in 1 .. Len(l) /\ CleanRun(l, n) /\ w.sum = sum /\ w.squares = squares
      /\ w.age = IF l[n].age < GYRO_WINDOW THEN l[n].age ELSE GYRO_WINDOW
  BY DEF Covers
<1>2. \A k \in 1 .. n : l[k].rate \in Int /\ l[k].age \in Nat
  <2> TAKE k \in 1 .. n
  <2>1. k \in 1 .. Len(l)
    BY <1>1
  <2>2. l[k] \in Logged
    BY <2>1
  <2>3. QED
    BY <2>2 DEF Logged
<1>3. SpreadOf(l, n) = n * squares - sum * sum
  <2>1. \A k \in 1 .. n : l[k].rate \in Int
    BY <1>2
  <2>2. QED
    BY <2>1, SpreadIsMoment
<1>4. sum \in Int
  <2> DEFINE f == [k \in 1 .. n |-> l[k].rate]
  <2>1. \A k \in 1 .. n : f[k] \in Int
    BY <1>2
  <2>2. IsFiniteSet(1 .. n)
    BY FS_Interval
  <2> HIDE DEF f
  <2>3. SumFunctionOnSet(f, 1 .. n) \in Int
    BY <2>1, <2>2, SumAdds
  <2>4. QED
    BY <2>3 DEF f, SumOf
<1>5. limit \in Int /\ -GYRO_MAX_BIAS * n = -limit
  BY GyroAssumption
<1>6. w.age >= GYRO_WINDOW <=> l[n].age >= GYRO_WINDOW
  BY <1>1, <1>2, GyroAssumption
<1> HIDE DEF sum, squares, limit
<1>7. (IF sum < 0 THEN -sum ELSE sum) <= limit <=> sum \in -limit .. limit
  BY <1>4, <1>5
<1>8. WindowAccepted(w) <=> /\ n >= GYRO_MIN_SAMPLES /\ sum \in -limit .. limit /\ n > 1
                            /\ n * squares - sum * sum <= GYRO_MAX_STDDEV * GYRO_MAX_STDDEV * n * (n - 1)
  BY <1>1, <1>7 DEF WindowAccepted, limit
<1>9. GoodWindow(l, n) <=> /\ l[n].age >= GYRO_WINDOW /\ n >= GYRO_MIN_SAMPLES /\ n > 1
                           /\ sum \in -limit .. limit
                           /\ n * squares - sum * sum <= GYRO_MAX_STDDEV * GYRO_MAX_STDDEV * n * (n - 1)
  BY <1>1, <1>3, <1>5 DEF GoodWindow, sum, limit
<1>10. QED
  BY <1>6, <1>8, <1>9

\* A stationary sample before calibration: the window it joins covers the log, and is
\* judged when it is long enough.
LEMMA StationarySample ==
    ASSUME GyroYawInv, ~estimator.calibrated, NEW rate \in Int, Observe(rate, TRUE, TRUE),
           NEW base, base = IF ~estimator.sample_valid \/ estimator.sample_age = 0
                                \/ estimator.sample_age > GYRO_MAX_AGE
                            THEN NoWindow ELSE estimator.window,
           NEW w, w = AddSample(base, rate)
    PROVE  /\ log' \in Seq(Logged) /\ Covers(w, log') /\ w.samples \in Nat /\ w.samples = base.samples + 1
           /\ estimator'.calibrated <=> w.age >= GYRO_WINDOW /\ WindowAccepted(w)
           /\ estimator'.calibrated => estimator'.window = w
<1> DEFINE s == [age |-> 0, valid |-> TRUE, still |-> TRUE, rate |-> rate]
           taken == [estimator EXCEPT !.sample_age = 0, !.sample_valid = TRUE]
<1>1. log' = <<s>> \o log /\ estimator' = gyro_yaw_observe(estimator, rate, TRUE, TRUE)
  BY DEF Observe
<1>2. log' \in Seq(Logged)
  <2>1. s \in Logged /\ log \in Seq(Logged)
    BY DEF Logged, GyroYawInv
  <2>2. <<s>> \o log \in Seq(Logged)
    BY <2>1, Prepended
  <2>3. QED
    BY <1>1, <2>2
<1>3. Covers(w, log')
  BY <1>1, WindowJoins
<1>4. w.samples = base.samples + 1
  BY DEF AddSample
<1>5. w.samples \in Nat /\ w.age \in Int
  <2>1. /\ w.samples \in 1 .. Len(log') /\ w.age = (IF log'[w.samples].age < GYRO_WINDOW
                                                   THEN log'[w.samples].age ELSE GYRO_WINDOW)
    BY <1>3 DEF Covers
  <2>2. log'[w.samples] \in Logged
    BY <1>2, <2>1
  <2>3. QED
    BY <2>1, <2>2, GyroAssumption DEF Logged
<1>6. estimator \in GyroType
  BY DEF GyroYawInv
<1>7. estimator' = IF w.age < GYRO_WINDOW THEN [taken EXCEPT !.window = w]
                   ELSE IF WindowAccepted(w)
                        THEN [taken EXCEPT !.window = w, !.calibrated = TRUE]
                        ELSE restart_window(taken)
  BY <1>1 DEF gyro_yaw_observe
<1>8. w.age < GYRO_WINDOW <=> ~(w.age >= GYRO_WINDOW)
  BY <1>5, GyroAssumption
<1>9. /\ w.age < GYRO_WINDOW => ~estimator'.calibrated
      /\ ~(w.age < GYRO_WINDOW) /\ WindowAccepted(w) => estimator'.calibrated /\ estimator'.window = w
      /\ ~(w.age < GYRO_WINDOW) /\ ~WindowAccepted(w) => ~estimator'.calibrated
  BY <1>6, <1>7 DEF GyroType, restart_window
<1>10. QED
  BY <1>2, <1>3, <1>4, <1>5, <1>8, <1>9

\* The bias is measured over exactly one good window: when a step calibrates, the log has
\* a clean run of the required length and spread, and the bias is its mean (gyro_yaw_observe).
THEOREM BiasIsOfAGoodWindow == GyroYawSpec => CalibratesOnGoodWindow
<1>1. ASSUME GyroYawInv, [GyroYawNext]_gyroYawVars, ~estimator.calibrated, estimator'.calibrated
      PROVE  /\ estimator'.window.samples \in 1 .. Len(log')
             /\ GoodWindow(log', estimator'.window.samples)
             /\ estimator'.window.sum = SumOf(log', estimator'.window.samples)
  <2>1. estimator \in GyroType
    BY <1>1 DEF GyroYawInv
  <2>2. ~Restart /\ ~GyroYawTick /\ ~UNCHANGED gyroYawVars
    BY <1>1, <2>1, GyroAges DEF Restart, GyroYawTick, gyroYawVars
  <2>3. PICK rate \in RAW_RATES, valid \in BOOLEAN, still \in BOOLEAN : Observe(rate, valid, still)
    BY <1>1, <2>2 DEF GyroYawNext
  <2>4. rate \in Int
    BY LogAssumption
  <2>5. valid /\ still
    BY <1>1, <2>1, <2>3 DEF Observe, gyro_yaw_observe, DropSample, restart_window, GyroType
  <2> DEFINE base == IF ~estimator.sample_valid \/ estimator.sample_age = 0
                        \/ estimator.sample_age > GYRO_MAX_AGE
                     THEN NoWindow ELSE estimator.window
             w == AddSample(base, rate)
  <2>6. Observe(rate, TRUE, TRUE)
    BY <2>3, <2>5
  <2>7. /\ log' \in Seq(Logged) /\ Covers(w, log') /\ w.samples \in Nat
        /\ w.age >= GYRO_WINDOW /\ WindowAccepted(w) /\ estimator'.window = w
    BY <1>1, <2>4, <2>6, StationarySample
  <2> HIDE DEF w
  <2>8. GoodWindow(log', w.samples)
    BY <2>7, AcceptedIsGood
  <2>9. w.samples \in 1 .. Len(log') /\ w.sum = SumOf(log', w.samples)
    BY <2>7 DEF Covers
  <2>10. QED
    BY <2>7, <2>8, <2>9
<1>2. GyroYawInv /\ [GyroYawNext]_gyroYawVars
          => [~estimator.calibrated /\ estimator'.calibrated
              => /\ estimator'.window.samples \in 1 .. Len(log')
                 /\ GoodWindow(log', estimator'.window.samples)
                 /\ estimator'.window.sum = SumOf(log', estimator'.window.samples)]_gyroYawVars
  BY <1>1
<1>3. QED
  BY <1>2, EstimatorKnowsItsLog, PTL DEF GyroYawSpec, CalibratesOnGoodWindow

\* No good window is passed over: a sample that completes one calibrates the estimator.
THEOREM NoGoodWindowIsLost == GyroYawSpec => GoodWindowCalibrates
<1> DEFINE n == estimator.window.samples + 1
<1>1. ASSUME GyroYawInv, [GyroYawNext]_gyroYawVars, n <= Len(log'), log' # log,
             log'[1].age = 0, GoodWindow(log', n)
      PROVE  estimator'.calibrated
  <2>1. estimator \in GyroType /\ log \in Seq(Logged) /\ estimator.window.samples \in Nat
    BY <1>1 DEF GyroYawInv, GyroType, WindowType
  <2>2. n > 1 /\ n \in Nat /\ 1 \in 1 .. n /\ 2 \in 1 .. n /\ 1 \in 1 .. n - 1 /\ CleanRun(log', n)
    BY <1>1, <2>1 DEF GoodWindow
  <2>3. ~Restart
    <3>1. SUFFICES ASSUME Restart PROVE FALSE
      OBVIOUS
    <3>2. Len(log') = 0
      BY <3>1 DEF Restart
    <3> HIDE DEF n
    <3>3. QED
      BY <1>1, <2>2, <3>2
  <2>4. ~GyroYawTick
    <3>1. SUFFICES ASSUME GyroYawTick PROVE FALSE
      OBVIOUS
    <3>2. PICK m \in 0 .. Len(log) : log' = [k \in 1 .. m |-> [log[k] EXCEPT !.age = @ + 1]]
      BY <3>1 DEF GyroYawTick
    <3>3. m \in Nat /\ Len(log') = m
      BY <2>1, <3>2
    <3>4. 1 \in 1 .. m /\ 1 \in 1 .. Len(log)
      <4> HIDE DEF n
      <4>1. QED
        BY <1>1, <2>1, <2>2, <3>2, <3>3
    <3>5. log[1] \in Logged
      BY <2>1, <3>4
    <3>6. log'[1].age = log[1].age + 1 /\ log[1].age \in Nat
      BY <3>2, <3>4, <3>5 DEF Logged
    <3>7. QED
      BY <1>1, <3>6
  <2>5. PICK rate \in RAW_RATES, valid \in BOOLEAN, still \in BOOLEAN : Observe(rate, valid, still)
    BY <1>1, <2>3, <2>4 DEF GyroYawNext, gyroYawVars
  <2>6. rate \in Int
    BY LogAssumption
  <2> DEFINE s == [age |-> 0, valid |-> valid, still |-> still, rate |-> rate]
  <2>7. valid /\ still /\ ~estimator.calibrated
    <3>1. SUFFICES ASSUME ~(valid /\ still /\ ~estimator.calibrated) PROVE FALSE
      OBVIOUS
    <3>2. log' = <<s>>
      BY <2>5, <3>1 DEF Observe
    <3>3. Len(log') = 1
      BY <3>2
    <3> HIDE DEF n
    <3>4. QED
      BY <1>1, <2>2, <3>3
  <2>8. Observe(rate, TRUE, TRUE)
    BY <2>5, <2>7
  <2>9. log' = <<s>> \o log
    BY <2>5, <2>7 DEF Observe
  <2>10. Len(log) >= 1 /\ log'[2] = log[1] /\ 1 \in 1 .. Len(log)
    <3>1. s \in Logged
      BY <2>6 DEF Logged
    <3>2. Len(log') = Len(log) + 1 /\ \A k \in 1 .. Len(log) : log'[k + 1] = log[k]
      BY <2>1, <2>9, <3>1, Prepended
    <3>3. Len(log) \in Nat
      BY <2>1
    <3> HIDE DEF n, s
    <3>4. Len(log) >= 1 /\ 1 \in 1 .. Len(log)
      BY <1>1, <2>2, <3>2, <3>3
    <3>5. log'[1 + 1] = log[1]
      BY <3>2, <3>4
    <3>6. QED
      BY <3>4, <3>5
  <2>11. log # <<>> /\ log[1].valid /\ log[1].age \in Nat /\ log[1].age > 0 /\ log[1].age <= GYRO_MAX_AGE
    <3>1. log[1] \in Logged
      BY <2>1, <2>10
    <3>2. log'[2].valid
      BY <2>2 DEF CleanRun
    <3>3. log'[1].age < log'[1 + 1].age /\ log'[1 + 1].age <= log'[1].age + GYRO_MAX_AGE
      BY <2>2 DEF CleanRun
    <3>4. 0 < log[1].age /\ log[1].age <= 0 + GYRO_MAX_AGE
      BY <1>1, <2>10, <3>3
    <3>5. log # <<>>
      BY <2>10
    <3>6. QED
      BY <2>10, <3>1, <3>2, <3>4, <3>5, GyroAssumption DEF Logged
  <2>12. estimator.sample_valid /\ estimator.sample_age = log[1].age
    BY <1>1, <2>11 DEF GyroYawInv, NewestIsKnown, Joinable
  <2> DEFINE base == IF ~estimator.sample_valid \/ estimator.sample_age = 0
                        \/ estimator.sample_age > GYRO_MAX_AGE
                     THEN NoWindow ELSE estimator.window
             w == AddSample(base, rate)
  <2>13. base = estimator.window
    BY <2>11, <2>12, GyroAssumption
  <2>14. /\ log' \in Seq(Logged) /\ Covers(w, log') /\ w.samples \in Nat
         /\ w.samples = base.samples + 1
         /\ estimator'.calibrated <=> w.age >= GYRO_WINDOW /\ WindowAccepted(w)
    BY <1>1, <2>6, <2>7, <2>8, StationarySample
  <2>15. w.samples = n
    BY <2>13, <2>14
  <2> HIDE DEF w, n
  <2>16. w.age >= GYRO_WINDOW /\ WindowAccepted(w)
    BY <1>1, <2>14, <2>15, AcceptedIsGood
  <2>17. QED
    BY <2>14, <2>16
<1>2. GyroYawInv /\ [GyroYawNext]_gyroYawVars
          => [LET m == estimator.window.samples + 1
              IN  m <= Len(log') /\ log' # log /\ log'[1].age = 0 /\ GoodWindow(log', m)
                  => estimator'.calibrated]_gyroYawVars
  BY <1>1
<1>3. QED
  BY <1>2, EstimatorKnowsItsLog, PTL DEF GyroYawSpec, GoodWindowCalibrates

-----------------------------------------------------------------------------
(* Remainders. *)

\* Quotient and remainder.
LEMMA DivMod ==
    ASSUME NEW a \in Int, NEW b \in Nat \ {0}
    PROVE  /\ a \div b \in Int /\ a % b \in 0 .. b - 1
           /\ a = b * (a \div b) + (a % b)
OBVIOUS

\* A number has one remainder.
LEMMA QuotientUnique ==
    ASSUME NEW b \in Nat \ {0}, NEW q \in Int, NEW p \in Int, NEW r \in 0 .. b - 1, NEW s \in 0 .. b - 1,
           b * q + r = b * p + s
    PROVE  r = s
<1>1. b * (q - p) = s - r
  OBVIOUS
<1>2. s - r < b /\ s - r > -b
  OBVIOUS
<1> DEFINE k == q - p
<1>3. k \in Int /\ b * k < b /\ b * k > -b
  BY <1>1, <1>2
<1>4. k = 0
  <2> HIDE DEF k
  <2>1. ~(k >= 1)
    <3>1. k >= 1 => b * k >= b * 1
      BY <1>3
    <3>2. QED
      BY <1>3, <3>1
  <2>2. ~(k <= -1)
    <3>1. k <= -1 => b * k <= -b
      BY <1>3
    <3>2. QED
      BY <1>3, <3>1
  <2>3. QED
    BY <1>3, <2>1, <2>2
<1>5. QED
  BY <1>1, <1>4

\* Whole multiples of the divisor leave the remainder alone.
LEMMA ModShift ==
    ASSUME NEW a \in Int, NEW q \in Int, NEW b \in Nat \ {0}
    PROVE  (a + q * b) % b = a % b
<1> DEFINE c == a + q * b
           p == a \div b
           s == c \div b
<1>1. c \in Int
  OBVIOUS
<1>2. p \in Int /\ a % b \in 0 .. b - 1 /\ a = b * p + (a % b)
  BY DivMod
<1>3. s \in Int /\ c % b \in 0 .. b - 1 /\ c = b * s + (c % b)
  <2> HIDE DEF c
  <2>1. QED
    BY <1>1, DivMod
<1> DEFINE u == a % b
           v == c % b
<1>4. u \in Int /\ v \in Int /\ a = b * p + u /\ c = b * s + v
  BY <1>2, <1>3
<1>5. c = a + q * b
  OBVIOUS
<1> HIDE DEF c, p, s, u, v
<1>6. b * (p + q) + u = b * s + v
  <2>1. c = b * p + u + q * b
    BY <1>4, <1>5
  <2>2. b * p + u + q * b = b * (p + q) + u
    BY <1>2, <1>4
  <2>3. QED
    BY <1>4, <2>1, <2>2
<1>7. u = v
  <2>1. p + q \in Int
    BY <1>2
  <2>2. u \in 0 .. b - 1 /\ v \in 0 .. b - 1
    BY <1>2, <1>3 DEF u, v
  <2>3. QED
    BY <1>3, <1>6, <2>1, <2>2, QuotientUnique
<1>8. QED
  BY <1>7 DEF u, v, c

-----------------------------------------------------------------------------
(* Logs of calls and what is summed over them (Estimates). *)

\* What a sequence is made of.
LEMMA SeqElements ==
    ASSUME NEW T, NEW s \in Seq(T)
    PROVE  Len(s) \in Nat /\ DOMAIN s = 1 .. Len(s) /\ \A k \in 1 .. Len(s) : s[k] \in T
OBVIOUS

\* A sum of natural numbers is one.
LEMMA SumNat ==
    ASSUME NEW S, IsFiniteSet(S), NEW f, \A y \in S : f[y] \in Nat
    PROVE  SumFunctionOnSet(f, S) \in Nat
<1> DEFINE G == {U \in SUBSET S : SumFunctionOnSet(f, U) \in Nat}
<1>1. ASSUME NEW U \in SUBSET S, \A V \in SUBSET U : V # U => V \in G PROVE U \in G
  <2>1. IsFiniteSet(U)
    BY FS_Subset
  <2>2. CASE U = {}
    BY <2>2, SumOfNone
  <2>3. CASE U # {}
    <3>1. Some(U) \in U /\ U \ {Some(U)} \in G
      BY <1>1, <2>3, SomeIn
    <3>2. f[Some(U)] \in Nat
      BY <3>1
    <3>3. QED
      BY <2>1, <2>3, <3>1, <3>2, SumUnfolds
  <2>4. QED
    BY <2>2, <2>3
<1>2. S \in G
  <2> HIDE DEF G
  <2>1. QED
    BY <1>1, SubsetInduction
<1>3. QED
  BY <1>2

\* One element more, and a function that may have changed outside S.
LEMMA SumExtends ==
    ASSUME NEW S, IsFiniteSet(S), NEW x, x \notin S, NEW f, NEW g,
           \A y \in S : f[y] \in Int /\ g[y] = f[y], g[x] \in Int
    PROVE  /\ SumFunctionOnSet(f, S) \in Int
           /\ SumFunctionOnSet(g, S \cup {x}) = SumFunctionOnSet(f, S) + g[x]
<1>1. SumFunctionOnSet(g, S) = SumFunctionOnSet(f, S)
  BY SumSame
<1>2. \A y \in S \cup {x} : g[y] \in Int
  OBVIOUS
<1>3. SumFunctionOnSet(g, S) \in Int /\ SumFunctionOnSet(g, S \cup {x}) = SumFunctionOnSet(g, S) + g[x]
  BY <1>2, SumGrows
<1>4. QED
  BY <1>1, <1>3

\* A set of natural numbers has a least element, and Min is it.
LEMMA MinIsLeast ==
    ASSUME NEW S \in SUBSET Nat, S # {}
    PROVE  Min(S) \in S /\ \A y \in S : Min(S) <= y
<1> DEFINE R == OpToRel(<, Nat)
<1>1. \A x, y \in Nat : <<y, x>> \in R <=> y < x
  BY DEF OpToRel
<1>2. IsWellFoundedOn(R, Nat)
  BY NatLessThanWellFounded
<1> HIDE DEF R
<1>3. PICK n \in S : \A m \in S : ~(<<m, n>> \in R)
  BY <1>2, WFMin
<1>4. ASSUME NEW y \in S PROVE n <= y
  <2>1. n \in Nat /\ y \in Nat
    OBVIOUS
  <2>2. ~(y < n)
    BY <1>1, <1>3, <2>1
  <2>3. QED
    BY <2>1, <2>2
<1>5. QED
  BY <1>4 DEF Min

\* The least element is that of a set with only larger ones added.
LEMMA MinStays ==
    ASSUME NEW S \in SUBSET Nat, S # {}, NEW x \in Nat, \A y \in S : y <= x
    PROVE  Min(S \cup {x}) = Min(S)
<1>1. Min(S) \in S /\ \A y \in S : Min(S) <= y
  BY MinIsLeast
<1>2. Min(S \cup {x}) \in S \cup {x} /\ \A y \in S \cup {x} : Min(S \cup {x}) <= y
  BY MinIsLeast
<1> DEFINE a == Min(S)
           b == Min(S \cup {x})
<1>3. a \in S /\ b \in S \cup {x} /\ b <= a /\ a \in Nat /\ b \in Nat
  BY <1>1, <1>2
<1>4. a <= b
  BY <1>1, <1>3
<1> HIDE DEF a, b
<1>5. a = b
  BY <1>3, <1>4
<1>6. QED
  BY <1>5 DEF a, b

\* The least of one.
LEMMA MinOfOne == \A x \in Nat : Min({x}) = x
<1> TAKE x \in Nat
<1>1. Min({x}) \in {x}
  BY MinIsLeast
<1>2. QED
  BY <1>1

\* The time a log gives to an interval of d ticks.
Span(d) == IF d < LASTED_TOP THEN d ELSE LASTED_TOP

\* The log `new` is the log `old` after d ticks and one call more.
Follows(new, old, d, r, motion) ==
    LET n == Len(old)
    IN  /\ Len(new) = n + 1
        /\ \A k \in 1 .. n : new[k].r = old[k].r /\ new[k].moving = old[k].moving
        /\ \A k \in 1 .. n - 1 : new[k].lasted = old[k].lasted
        /\ n > 0 => new[n].lasted = Span(d)
        /\ new[n + 1].r = r /\ new[n + 1].moving = motion /\ new[n + 1].lasted = 0

\* The limits are natural numbers, in this order.
LEMMA TopsAreNat ==
    /\ METRICS_TOP \in Nat /\ LASTED_TOP \in Nat
    /\ METRICS_GAP < METRICS_TOP /\ METRICS_GAP < LASTED_TOP /\ ODOM_MAX_DT < LASTED_TOP
    /\ METRICS_TOP <= LASTED_TOP /\ METRICS_SETTLE < METRICS_TOP /\ METRICS_DEBOUNCE < METRICS_TOP
    /\ METRICS_GAP \in Nat /\ ODOM_MAX_DT \in Nat /\ METRICS_SETTLE \in Nat
    /\ METRICS_DEBOUNCE \in Nat /\ 0 < METRICS_TOP
BY MetricsAssumption, OdometryAssumption DEF METRICS_TOP, LASTED_TOP

\* The log after a call follows the log before it.
LEMMA CalledFollows ==
    ASSUME NEW R, NEW calls \in Calls(R), JustCalled(calls), NEW d \in Nat, NEW r \in R,
           NEW motion \in BOOLEAN
    PROVE  /\ Called(calls, d, r, motion) \in Calls(R)
           /\ JustCalled(Called(calls, d, r, motion))
           /\ Follows(Called(calls, d, r, motion), calls, d, r, motion)
<1> DEFINE n == Len(calls)
           waited == Waited(calls, d)
           entry == [r |-> r, moving |-> motion, lasted |-> 0]
           Entry == [r : R, moving : BOOLEAN, lasted : 0 .. LASTED_TOP]
<1>1. calls \in Seq(Entry) /\ n \in Nat /\ DOMAIN calls = 1 .. n /\ \A k \in 1 .. n : calls[k] \in Entry
  <2>1. calls \in Seq(Entry)
    BY DEF Calls
  <2> HIDE DEF Entry
  <2>2. QED
    BY <2>1, SeqElements
<1>2. LASTED_TOP \in Nat /\ entry \in Entry
  BY TopsAreNat
<1>3. Span(d) \in 0 .. LASTED_TOP
  BY <1>2 DEF Span
<1>4. /\ waited \in Seq(Entry) /\ Len(waited) = n
      /\ \A k \in 1 .. n : waited[k].r = calls[k].r /\ waited[k].moving = calls[k].moving
      /\ \A k \in 1 .. n - 1 : waited[k].lasted = calls[k].lasted
      /\ n > 0 => waited[n].lasted = Span(d)
  <2>1. CASE calls = <<>>
    BY <1>1, <2>1 DEF Waited
  <2>2. CASE calls # <<>>
    <3>1. n \in 1 .. n /\ calls[n].lasted = 0
      BY <1>1, <2>2 DEF JustCalled
    <3>2. waited = [calls EXCEPT ![n] = [calls[n] EXCEPT !.lasted = Span(d)]]
      <4>1. 0 + d = d
        OBVIOUS
      <4>2. QED
        BY <2>2, <3>1, <4>1 DEF Waited, Span
    <3>3. calls[n] \in Entry
      BY <1>1, <3>1
    <3> DEFINE aged == [calls[n] EXCEPT !.lasted = Span(d)]
    <3>4. aged \in Entry /\ aged.r = calls[n].r /\ aged.moving = calls[n].moving /\ aged.lasted = Span(d)
      BY <1>3, <3>3
    <3> HIDE DEF aged, waited, Entry
    <3>5. waited = [calls EXCEPT ![n] = aged]
      BY <3>2 DEF aged
    <3>6. waited \in Seq(Entry) /\ Len(waited) = n /\ waited[n] = aged
          /\ \A k \in 1 .. n : k # n => waited[k] = calls[k]
      BY <1>1, <3>1, <3>4, <3>5
    <3>7. ASSUME NEW k \in 1 .. n PROVE waited[k].r = calls[k].r /\ waited[k].moving = calls[k].moving
      BY <3>4, <3>6
    <3>8. ASSUME NEW k \in 1 .. n - 1 PROVE waited[k].lasted = calls[k].lasted
      <4>1. k \in 1 .. n /\ k # n
        <5>1. n \in Nat
          BY <1>1
        <5> HIDE DEF n
        <5>2. QED
          BY <3>8, <5>1
      <4>2. QED
        BY <3>6, <4>1
    <3>9. QED
      BY <3>4, <3>6, <3>7, <3>8
  <2>3. QED
    BY <2>1, <2>2
<1> DEFINE new == Append(waited, entry)
<1>5. new = Called(calls, d, r, motion)
  BY DEF Called
<1> HIDE DEF waited, Entry
<1>6. /\ new \in Seq(Entry) /\ Len(new) = n + 1 /\ new[n + 1] = entry
      /\ \A k \in 1 .. n : new[k] = waited[k]
  BY <1>1, <1>2, <1>4
<1>7. entry.r = r /\ entry.moving = motion /\ entry.lasted = 0
  OBVIOUS
<1> HIDE DEF new, entry
<1>8. Follows(new, calls, d, r, motion)
  <2>1. \A k \in 1 .. n - 1 : k \in 1 .. n
    BY <1>1
  <2>2. n > 0 => n \in 1 .. n
    BY <1>1
  <2>3. QED
    BY <1>4, <1>6, <1>7, <2>1, <2>2 DEF Follows
<1>9. JustCalled(new)
  BY <1>6, <1>7 DEF JustCalled
<1>10. QED
  BY <1>5, <1>6, <1>8, <1>9 DEF Calls, Entry

\* A set that agrees with B inside Q, where all of B is, and may have one element outside.
LEMMA OneMore ==
    ASSUME NEW Q, NEW x, x \notin Q, NEW A, NEW B, B \subseteq Q, A \subseteq Q \cup {x},
           \A k \in Q : k \in A <=> k \in B
    PROVE  /\ x \in A => A = B \cup {x}
           /\ x \notin A => A = B
OBVIOUS

\* The new call closes an interval no longer than `limit`.
Joins(old, d, r, limit) ==
    Len(old) > 0 /\ old[Len(old)].r.valid /\ r.valid /\ d <= limit

\* The intervals S are of calls of the log.
OfCalls(S, calls) == S \subseteq 2 .. Len(calls)

\* The intervals up to a call are those before it and, when both readings are good and close,
\* its own.
LEMMA IntervalsGrow ==
    ASSUME NEW old, NEW new, NEW d \in Nat, NEW r, NEW motion, NEW limit \in Nat,
           limit < LASTED_TOP, Len(old) \in Nat, Follows(new, old, d, r, motion)
    PROVE  /\ OfCalls(Intervals(old, limit), old) /\ IsFiniteSet(Intervals(old, limit))
           /\ Len(old) + 1 \notin Intervals(old, limit)
           /\ Joins(old, d, r, limit) =>
                  Intervals(new, limit) = Intervals(old, limit) \cup {Len(old) + 1}
           /\ ~Joins(old, d, r, limit) => Intervals(new, limit) = Intervals(old, limit)
<1> DEFINE n == Len(old)
<1>1. Intervals(old, limit) \subseteq 2 .. n
  BY DEF Intervals
<1>2. IsFiniteSet(2 .. n)
  BY FS_Interval
<1>3. n + 1 \notin 2 .. n
  OBVIOUS
<1>4. \A k \in 2 .. n : k \in Intervals(new, limit) <=> k \in Intervals(old, limit)
  <2> TAKE k \in 2 .. n
  <2>1. k \in 1 .. n /\ k - 1 \in 1 .. n /\ k - 1 \in 1 .. n - 1 /\ k \in 2 .. n + 1 /\ Len(new) = n + 1
    BY DEF Follows
  <2>2. new[k].r = old[k].r /\ new[k - 1].r = old[k - 1].r /\ new[k - 1].lasted = old[k - 1].lasted
    BY <2>1 DEF Follows
  <2>3. QED
    BY <2>1, <2>2 DEF Intervals
<1>5. n + 1 \in Intervals(new, limit) <=> n > 0 /\ old[n].r.valid /\ r.valid /\ d <= limit
  <2>1. CASE n = 0
    BY <2>1 DEF Intervals
  <2>2. CASE n > 0
    <3>1. n + 1 \in 2 .. n + 1 /\ Len(new) = n + 1 /\ (n + 1) - 1 = n /\ n \in 1 .. n
      BY <2>2 DEF Follows
    <3>2. new[n + 1].r = r /\ new[n].r = old[n].r /\ new[n].lasted = Span(d)
      BY <2>2, <3>1 DEF Follows
    <3>3. Span(d) <= limit <=> d <= limit
      BY TopsAreNat DEF Span
    <3>4. n + 1 \in Intervals(new, limit) <=>
              new[(n + 1) - 1].r.valid /\ new[n + 1].r.valid /\ new[(n + 1) - 1].lasted <= limit
      BY <3>1 DEF Intervals
    <3>5. QED
      BY <2>2, <3>1, <3>2, <3>3, <3>4
  <2>3. QED
    BY <2>1, <2>2
<1>6. Intervals(new, limit) \subseteq (2 .. n) \cup {n + 1}
  <2>1. Len(new) = n + 1
    BY DEF Follows
  <2>2. QED
    BY <2>1 DEF Intervals
<1>7. IsFiniteSet(Intervals(old, limit)) /\ n + 1 \notin Intervals(old, limit)
  BY <1>1, <1>2, <1>3, FS_Subset
<1> DEFINE joins == Joins(old, d, r, limit)
           I == Intervals(old, limit)
           J == Intervals(new, limit)
<1> HIDE DEF n, joins, I, J
<1>8. J = IF joins THEN I \cup {n + 1} ELSE I
  <2> DEFINE Q == 2 .. n
             x == n + 1
  <2>1. /\ I \subseteq Q /\ x \notin Q /\ J \subseteq Q \cup {x} /\ \A k \in Q : k \in J <=> k \in I
        /\ x \in J <=> joins
    BY <1>1, <1>3, <1>4, <1>5, <1>6 DEF I, J, joins, Joins, n
  <2> HIDE DEF Q, x
  <2>2. (x \in J => J = I \cup {x}) /\ (x \notin J => J = I)
    BY <2>1, OneMore
  <2>3. QED
    BY <2>1, <2>2 DEF x
<1>9. /\ Joins(old, d, r, limit) => Intervals(new, limit) = Intervals(old, limit) \cup {Len(old) + 1}
      /\ ~Joins(old, d, r, limit) => Intervals(new, limit) = Intervals(old, limit)
  BY <1>8 DEF joins, I, J, n
<1>10. QED
  BY <1>1, <1>7, <1>9 DEF n, OfCalls

\* What a log is made of.
LEMMA CallsLength ==
    ASSUME NEW R, NEW calls \in Calls(R)
    PROVE  Len(calls) \in Nat /\ \A k \in 1 .. Len(calls) : calls[k].r \in R /\ calls[k].lasted \in Nat
<1> DEFINE Entry == [r : R, moving : BOOLEAN, lasted : 0 .. LASTED_TOP]
<1>1. Len(calls) \in Nat /\ \A k \in 1 .. Len(calls) : calls[k] \in Entry
  <2>1. calls \in Seq(Entry)
    BY DEF Calls
  <2> HIDE DEF Entry
  <2>2. QED
    BY <2>1, SeqElements
<1>2. QED
  BY <1>1, TopsAreNat

\* What the intervals of a log are, whatever their times.
LEMMA OfCallsFinite ==
    ASSUME NEW R, NEW calls \in Calls(R), NEW S, OfCalls(S, calls)
    PROVE  IsFiniteSet(S) /\ Len(calls) + 1 \notin S /\ Len(calls) \in Nat
<1>1. Len(calls) \in Nat
  BY CallsLength
<1>2. IsFiniteSet(2 .. Len(calls)) /\ Len(calls) + 1 \notin 2 .. Len(calls)
  BY <1>1, FS_Interval
<1>3. QED
  BY <1>1, <1>2, FS_Subset DEF OfCalls

\* A duration is a natural number.
LEMMA DurationNat ==
    ASSUME NEW R, NEW calls \in Calls(R), NEW S, OfCalls(S, calls)
    PROVE  Duration(calls, S) \in Nat
<1> DEFINE f == [k \in S |-> calls[k - 1].lasted]
<1>1. \A k \in S : f[k] \in Nat
  <2> TAKE k \in S
  <2>1. k - 1 \in 1 .. Len(calls)
    BY CallsLength DEF OfCalls
  <2>2. QED
    BY <2>1, CallsLength
<1>2. IsFiniteSet(S)
  BY OfCallsFinite
<1> HIDE DEF f
<1>3. SumFunctionOnSet(f, S) \in Nat
  BY <1>1, <1>2, SumNat
<1>4. QED
  BY <1>3 DEF Duration, f

\* The times of the earlier intervals stay what they were.
LEMMA LastedKept ==
    ASSUME NEW R, NEW old \in Calls(R), NEW new \in Calls(R), NEW d, NEW r, NEW motion,
           Follows(new, old, d, r, motion), NEW S, OfCalls(S, old), NEW k \in S
    PROVE  /\ k \in 1 .. Len(old) /\ k - 1 \in 1 .. Len(old)
           /\ new[k - 1].lasted = old[k - 1].lasted
           /\ new[k - 1].r = old[k - 1].r /\ new[k].r = old[k].r
<1>1. k \in 1 .. Len(old) /\ k - 1 \in 1 .. Len(old) /\ k - 1 \in 1 .. Len(old) - 1
  BY CallsLength DEF OfCalls
<1>2. QED
  BY <1>1 DEF Follows

\* The duration of the earlier intervals stays what it was.
LEMMA DurationKept ==
    ASSUME NEW R, NEW old \in Calls(R), NEW new \in Calls(R), NEW d, NEW r, NEW motion,
           Follows(new, old, d, r, motion), NEW S, OfCalls(S, old)
    PROVE  Duration(new, S) = Duration(old, S)
<1>1. [k \in S |-> new[k - 1].lasted] = [k \in S |-> old[k - 1].lasted]
  BY LastedKept
<1>2. QED
  BY <1>1 DEF Duration

\* One interval more adds its own time.
LEMMA DurationGrows ==
    ASSUME NEW R, NEW old \in Calls(R), NEW new \in Calls(R), NEW d \in Nat, NEW r, NEW motion,
           Follows(new, old, d, r, motion), NEW S, OfCalls(S, old), Len(old) > 0
    PROVE  Duration(new, S \cup {Len(old) + 1}) = Duration(old, S) + Span(d)
<1> DEFINE n == Len(old)
           x == n + 1
           f == [k \in S |-> old[k - 1].lasted]
           g == [k \in S \cup {x} |-> new[k - 1].lasted]
<1>1. IsFiniteSet(S) /\ x \notin S /\ n \in Nat
  BY OfCallsFinite
<1>2. \A k \in S : f[k] \in Int /\ g[k] = f[k]
  <2> TAKE k \in S
  <2>1. k - 1 \in 1 .. Len(old) /\ new[k - 1].lasted = old[k - 1].lasted
    BY LastedKept
  <2>2. old[k - 1].lasted \in Nat
    BY <2>1, CallsLength
  <2>3. QED
    BY <2>1, <2>2
<1>3. g[x] = Span(d) /\ g[x] \in Int
  <2>1. x - 1 = n /\ n > 0
    BY <1>1
  <2>2. new[n].lasted = Span(d)
    BY DEF Follows
  <2>3. Span(d) \in Int
    BY TopsAreNat DEF Span
  <2>4. g[x] = new[x - 1].lasted
    OBVIOUS
  <2>5. QED
    BY <2>1, <2>2, <2>3, <2>4
<1> HIDE DEF f, g, x
<1>4. SumFunctionOnSet(g, S \cup {x}) = SumFunctionOnSet(f, S) + g[x]
  BY <1>1, <1>2, <1>3, SumExtends, ZenonT(60)
<1>5. QED
  BY <1>3, <1>4 DEF Duration, f, g, x

\* What a log knows of a call, it knows after one call more.
LEMMA MovedGrows ==
    ASSUME NEW old, NEW new, NEW d, NEW r, NEW motion, Len(old) \in Nat,
           Follows(new, old, d, r, motion)
    PROVE  LET n == Len(old)
           IN  /\ \A k \in 0 .. n : Moved(new, k) = Moved(old, k) /\ Moved(old, k) \subseteq 1 .. k
               /\ Moved(new, n + 1) = IF motion /\ r.valid THEN Moved(old, n) \cup {n + 1}
                                      ELSE Moved(old, n)
<1> DEFINE n == Len(old)
<1>1. \A k \in 0 .. n : Moved(new, k) = Moved(old, k) /\ Moved(old, k) \subseteq 1 .. k
  BY DEF Follows, Moved
<1>2. Moved(new, n + 1) = IF motion /\ r.valid THEN Moved(old, n) \cup {n + 1} ELSE Moved(old, n)
  <2>1. 1 .. n + 1 = (1 .. n) \cup {n + 1} /\ n + 1 \notin 1 .. n
    OBVIOUS
  <2>2. n + 1 \in Moved(new, n + 1) <=> motion /\ r.valid
    BY <2>1 DEF Follows, Moved
  <2>3. \A k \in 1 .. n : k \in Moved(new, n + 1) <=> k \in Moved(old, n)
    BY <2>1 DEF Follows, Moved
  <2>4. Moved(new, n + 1) \subseteq (1 .. n) \cup {n + 1} /\ Moved(old, n) \subseteq 1 .. n
    BY <2>1 DEF Moved
  <2> DEFINE Q == 1 .. n
             x == n + 1
             A == Moved(new, x)
             B == Moved(old, n)
  <2>5. A \subseteq Q \cup {x} /\ B \subseteq Q /\ x \notin Q /\ \A k \in Q : k \in A <=> k \in B
    BY <2>1, <2>3, <2>4
  <2> HIDE DEF Q, x, A, B
  <2>6. (x \in A => A = B \cup {x}) /\ (x \notin A => A = B)
    BY <2>5, OneMore
  <2>7. QED
    BY <2>2, <2>6 DEF A, B, x
<1>3. QED
  BY <1>1, <1>2

\* Since when the motion lasts at an earlier call does not change.
LEMMA MotionKept ==
    ASSUME NEW R, NEW old \in Calls(R), NEW new \in Calls(R), NEW d \in Nat, NEW r, NEW motion,
           Follows(new, old, d, r, motion), NEW k \in 1 .. Len(old), Moved(old, k) # {}
    PROVE  MotionAt(new, k) = MotionAt(old, k) /\ MotionAt(old, k) \in 0 .. METRICS_TOP
<1> DEFINE n == Len(old)
           M == Moved(old, k)
           S == Min(M) + 1 .. k
<1>1. n \in Nat /\ Moved(new, k) = M /\ M \subseteq 1 .. k
  <2>1. n \in Nat /\ k \in 0 .. n
    BY CallsLength
  <2> HIDE DEF n
  <2>2. QED
    BY <2>1, MovedGrows DEF n
<1>2. Min(M) \in 1 .. k
  <2>1. M \in SUBSET Nat
    BY <1>1
  <2> HIDE DEF M
  <2>2. QED
    BY <1>1, <2>1, MinIsLeast DEF M
<1>3. S \in SUBSET (2 .. n)
  BY <1>1, <1>2
<1> HIDE DEF S
<1>4. Duration(new, S) = Duration(old, S) /\ Duration(old, S) \in Nat
  <2>1. OfCalls(S, old)
    BY <1>3 DEF OfCalls
  <2>2. QED
    BY <2>1, DurationKept, DurationNat
<1>5. /\ MotionAt(new, k) = IF Duration(new, S) < METRICS_TOP THEN Duration(new, S) ELSE METRICS_TOP
      /\ MotionAt(old, k) = IF Duration(old, S) < METRICS_TOP THEN Duration(old, S) ELSE METRICS_TOP
  BY <1>1 DEF MotionAt, S
<1>6. QED
  BY <1>4, <1>5, TopsAreNat

\* At the new call it lasts as much longer, or begins.
LEMMA MotionGrows ==
    ASSUME NEW R, NEW old \in Calls(R), NEW new \in Calls(R), NEW d \in Nat, NEW r, NEW motion,
           Follows(new, old, d, r, motion)
    PROVE  LET n == Len(old)
               before == IF Moved(old, n) = {} THEN Never ELSE MotionAt(old, n)
               now == IF Moved(new, n + 1) = {} THEN Never ELSE MotionAt(new, n + 1)
           IN  /\ now = IF before = Never
                        THEN (IF motion /\ r.valid THEN 0 ELSE Never)
                        ELSE MetricsLater(before, d)
               /\ before = Never <=> Moved(old, n) = {}
<1> DEFINE n == Len(old)
           M == Moved(old, n)
<1>1. n \in Nat /\ M \subseteq 1 .. n /\ M \in SUBSET Nat
      /\ Moved(new, n + 1) = IF motion /\ r.valid THEN M \cup {n + 1} ELSE M
  <2>1. n \in Nat /\ n \in 0 .. n
    BY CallsLength
  <2>2. /\ Moved(new, n + 1) = IF motion /\ r.valid THEN M \cup {n + 1} ELSE M
        /\ \A k \in 0 .. n : Moved(old, k) \subseteq 1 .. k
    BY <2>1, MovedGrows
  <2>3. QED
    BY <2>1, <2>2
<1>2. Never = -1
  BY DEF Never
<1>3. CASE M = {}
  <2>1. CASE motion /\ r.valid
    <3>1. Moved(new, n + 1) = {n + 1}
      BY <1>1, <1>3, <2>1
    <3>2. Min({n + 1}) = n + 1
      BY <1>1, MinOfOne
    <3>3. (n + 1) + 1 .. n + 1 = {}
      BY <1>1
    <3>4. Duration(new, {}) = 0
      BY SumOfNone DEF Duration
    <3>5. MotionAt(new, n + 1) = 0
      <4>1. Min(Moved(new, n + 1)) + 1 .. n + 1 = {}
        BY <3>1, <3>2, <3>3
      <4>2. QED
        BY <3>4, <4>1, TopsAreNat DEF MotionAt
    <3>6. QED
      BY <1>3, <2>1, <3>1, <3>5
  <2>2. CASE ~(motion /\ r.valid)
    BY <1>1, <1>3, <2>2
  <2>3. QED
    BY <2>1, <2>2
<1>4. CASE M # {}
  <2> DEFINE m == Min(M)
             S == m + 1 .. n
             x == n + 1
             t == Duration(old, S)
  <2>1. m \in 1 .. n /\ n \in 1 .. n
    <3>1. M \subseteq 1 .. n /\ M \in SUBSET Nat /\ n \in Nat
      BY <1>1
    <3> HIDE DEF M, n
    <3>2. m \in M
      BY <1>4, <3>1, MinIsLeast
    <3> HIDE DEF m
    <3>3. m \in 1 .. n
      BY <3>1, <3>2
    <3>4. QED
      BY <3>1, <3>3
  <2>2. Moved(new, n + 1) # {} /\ Min(Moved(new, n + 1)) = m
    <3>1. CASE motion /\ r.valid
      <4>1. Moved(new, n + 1) = M \cup {x}
        BY <1>1, <3>1
      <4>2. x \in Nat /\ \A y \in M : y <= x
        BY <1>1
      <4> HIDE DEF M, x, n
      <4>3. Min(M \cup {x}) = m
        BY <1>1, <1>4, <4>2, MinStays
      <4>4. QED
        BY <4>1, <4>3
    <3>2. CASE ~(motion /\ r.valid)
      BY <1>1, <1>4, <3>2
    <3>3. QED
      BY <3>1, <3>2
  <2>3. S \in SUBSET (2 .. n) /\ m + 1 .. n + 1 = S \cup {x}
    <3>1. n \in Nat
      BY <1>1
    <3> HIDE DEF m, n
    <3>2. QED
      BY <2>1, <3>1
  <2>4. t \in Nat /\ Duration(new, S \cup {x}) = t + Span(d)
    <3>1. n > 0
      BY <2>1
    <3>2. OfCalls(S, old)
      BY <2>3 DEF OfCalls
    <3> HIDE DEF S
    <3>3. QED
      BY <3>1, <3>2, DurationGrows, DurationNat
  <2>5. MotionAt(new, n + 1) = IF t + Span(d) < METRICS_TOP THEN t + Span(d) ELSE METRICS_TOP
    <3>1. Duration(new, Min(Moved(new, n + 1)) + 1 .. n + 1) = t + Span(d)
      BY <2>2, <2>3, <2>4
    <3> HIDE DEF t
    <3>2. QED
      BY <3>1 DEF MotionAt
  <2>6. MotionAt(old, n) = IF t < METRICS_TOP THEN t ELSE METRICS_TOP
    BY DEF MotionAt
  <2> HIDE DEF t, n, M
  <2>7. MotionAt(old, n) # Never
    BY <2>4, <2>6, <1>2, TopsAreNat
  <2>8. MotionAt(new, n + 1) = MetricsLater(MotionAt(old, n), d)
    BY <2>4, <2>5, <2>6, <1>2, TopsAreNat DEF MetricsLater, Span
  <2>9. QED
    BY <1>4, <2>2, <2>7, <2>8 DEF M, n
<1>5. QED
  BY <1>3, <1>4

\* A reading that was steady stays so in the log, and no earlier one becomes it.
LEMMA SteadyKept ==
    ASSUME NEW R, NEW old \in Calls(R), NEW new \in Calls(R), NEW d \in Nat, NEW r, NEW motion,
           Follows(new, old, d, r, motion), NEW k \in 1 .. Len(old)
    PROVE  SteadyAt(new, k) <=> SteadyAt(old, k)
<1>1. new[k].r = old[k].r /\ new[k].moving = old[k].moving
  BY DEF Follows
<1>2. ASSUME old[k].moving, old[k].r.valid PROVE MotionAt(new, k) = MotionAt(old, k)
  <2>1. k \in 1 .. k
    BY CallsLength
  <2>2. k \in Moved(old, k)
    BY <1>2, <2>1 DEF Moved
  <2>3. QED
    BY <2>2, MotionKept
<1>3. QED
  BY <1>1, <1>2 DEF SteadyAt

\* The steady intervals after a sample: its own when it is known and steady at both ends.
LEMMA SteadyGrows ==
    ASSUME NEW R, NEW old \in Calls(R), NEW new \in Calls(R), NEW d \in Nat, NEW r, NEW motion,
           Follows(new, old, d, r, motion)
    PROVE  LET joins == /\ Joins(old, d, r, METRICS_GAP)
                        /\ SteadyAt(old, Len(old)) /\ SteadyAt(new, Len(old) + 1)
           IN  /\ OfCalls(SteadyIntervals(old), old)
               /\ joins => SteadyIntervals(new) = SteadyIntervals(old) \cup {Len(old) + 1}
               /\ ~joins => SteadyIntervals(new) = SteadyIntervals(old)
<1> DEFINE n == Len(old)
           x == n + 1
           I == Intervals(old, METRICS_GAP)
           J == Intervals(new, METRICS_GAP)
           A == SteadyIntervals(old)
           B == SteadyIntervals(new)
           closes == Joins(old, d, r, METRICS_GAP)
<1>1. n \in Nat
  BY CallsLength
<1>2. OfCalls(I, old) /\ x \notin I /\ (closes => J = I \cup {x}) /\ (~closes => J = I)
  <2>1. METRICS_GAP \in Nat /\ METRICS_GAP < LASTED_TOP /\ Len(old) \in Nat
    BY <1>1, TopsAreNat
  <2>2. QED
    BY <2>1, IntervalsGrow
<1>3. I \subseteq 2 .. n
  BY <1>2 DEF OfCalls
<1>4. A = {k \in I : SteadyAt(old, k - 1) /\ SteadyAt(old, k)}
  BY DEF SteadyIntervals
<1>5. B = {k \in J : SteadyAt(new, k - 1) /\ SteadyAt(new, k)}
  BY DEF SteadyIntervals
<1>6. ASSUME NEW k \in I
      PROVE  /\ SteadyAt(new, k) <=> SteadyAt(old, k)
             /\ SteadyAt(new, k - 1) <=> SteadyAt(old, k - 1)
  <2>1. k \in 1 .. Len(old) /\ k - 1 \in 1 .. Len(old)
    <3> HIDE DEF I
    <3>1. QED
      BY <1>1, <1>3
  <2>2. QED
    BY <2>1, SteadyKept
<1>7. closes => x - 1 = n /\ (SteadyAt(new, x - 1) <=> SteadyAt(old, n))
  <2>1. SUFFICES ASSUME closes PROVE x - 1 = n /\ (SteadyAt(new, x - 1) <=> SteadyAt(old, n))
    OBVIOUS
  <2>2. n \in 1 .. Len(old) /\ x - 1 = n
    BY <1>1, <2>1 DEF Joins
  <2>3. SteadyAt(new, n) <=> SteadyAt(old, n)
    BY <2>2, SteadyKept
  <2>4. QED
    BY <2>2, <2>3
<1> HIDE DEF I, J, A, B, x
<1>8. A \subseteq I /\ B \subseteq I \cup {x}
  BY <1>2, <1>4, <1>5
<1>9. \A k \in I : k \in B <=> k \in A
  BY <1>2, <1>4, <1>5, <1>6
<1>10. x \in B <=> closes /\ SteadyAt(old, n) /\ SteadyAt(new, x)
  <2>1. CASE closes
    <3>1. x \in B <=> SteadyAt(new, x - 1) /\ SteadyAt(new, x)
      BY <1>2, <1>5, <2>1
    <3>2. QED
      BY <1>7, <2>1, <3>1
  <2>2. CASE ~closes
    BY <1>2, <1>5, <2>2
  <2>3. QED
    BY <2>1, <2>2
<1>11. (x \in B => B = A \cup {x}) /\ (x \notin B => B = A)
  BY <1>2, <1>8, <1>9, OneMore
<1>12. OfCalls(A, old)
  BY <1>2, <1>8 DEF OfCalls
<1>13. QED
  BY <1>10, <1>11, <1>12 DEF A, B, x

\* Which readings reached the speed depends on the record only by the body it drives.
LEMMA ReachedOfBody ==
    ASSUME NEW calls, NEW m, NEW m2, m2.body = m.body
    PROVE  Reached(calls, m2) = Reached(calls, m)
<1>1. \A q : Reaches(m2, q) <=> Reaches(m, q)
  BY DEF Reaches
<1>2. QED
  BY <1>1 DEF Reached

\* The new call closes an interval that has the speed.
ReachesNow(old, d, r, motion, m) == Joins(old, d, r, METRICS_GAP) /\ motion /\ Reaches(m, r)

\* The intervals that reached the speed after a sample: its own when it closes one with it.
LEMMA ReachedGrows ==
    ASSUME NEW old, NEW new, NEW d \in Nat, NEW r, NEW motion, Len(old) \in Nat,
           Follows(new, old, d, r, motion), NEW m
    PROVE  LET joins == ReachesNow(old, d, r, motion, m)
           IN  /\ OfCalls(Reached(old, m), old)
               /\ joins => Reached(new, m) = Reached(old, m) \cup {Len(old) + 1}
               /\ ~joins => \A k : k \in Reached(new, m) <=> k \in Reached(old, m)
<1> DEFINE n == Len(old)
           x == n + 1
           I == Intervals(old, METRICS_GAP)
           J == Intervals(new, METRICS_GAP)
           A == Reached(old, m)
           B == Reached(new, m)
           closes == Joins(old, d, r, METRICS_GAP)
<1>1. OfCalls(I, old) /\ x \notin I /\ (closes => J = I \cup {x}) /\ (~closes => J = I)
  <2>1. METRICS_GAP \in Nat /\ METRICS_GAP < LASTED_TOP
    BY TopsAreNat
  <2>2. QED
    BY <2>1, IntervalsGrow
<1>3. \A k \in I : new[k].r = old[k].r /\ new[k].moving = old[k].moving
  <2> TAKE k \in I
  <2>1. k \in 1 .. Len(old)
    BY <1>1 DEF OfCalls
  <2>2. QED
    BY <2>1 DEF Follows
<1>4. new[x].r = r /\ new[x].moving = motion
  BY DEF Follows
<1>5. A = {k \in I : old[k].moving /\ Reaches(m, old[k].r)}
  BY DEF Reached
<1>6. B = {k \in J : new[k].moving /\ Reaches(m, new[k].r)}
  BY DEF Reached
<1> HIDE DEF I, J, A, B, x
<1>8. A \subseteq I /\ B \subseteq I \cup {x}
  BY <1>1, <1>5, <1>6
<1>9. \A k \in I : k \in B <=> k \in A
  BY <1>1, <1>3, <1>5, <1>6
<1>10. x \in B <=> closes /\ motion /\ Reaches(m, r)
  <2>1. CASE closes
    BY <1>1, <1>4, <1>6, <2>1
  <2>2. CASE ~closes
    BY <1>1, <1>6, <2>2
  <2>3. QED
    BY <2>1, <2>2
<1>11. (x \in B => B = A \cup {x}) /\ (x \notin B => B = A)
  BY <1>1, <1>8, <1>9, OneMore
<1>12. OfCalls(A, old)
  BY <1>1, <1>8 DEF OfCalls
<1>13. QED
  BY <1>10, <1>11, <1>12 DEF A, B, x, ReachesNow

\* What an interval adds to the area is a number.
LEMMA AreaTerm ==
    ASSUME NEW calls \in Calls(Reading), NEW c \in Channels, NEW k \in 1 .. Len(calls), k - 1 \in 1 .. Len(calls)
    PROVE  (calls[k - 1].r.speed[c] + calls[k].r.speed[c]) * calls[k - 1].lasted \in Int
<1> DEFINE a == calls[k - 1].r.speed[c]
           b == calls[k].r.speed[c]
           t == calls[k - 1].lasted
<1>1. calls[k - 1].r \in Reading /\ calls[k].r \in Reading /\ t \in Int
  BY CallsLength
<1>2. a \in Int /\ b \in Int
  BY <1>1 DEF Reading
<1> HIDE DEF a, b, t
<1>3. (a + b) * t \in Int
  BY <1>1, <1>2
<1>4. QED
  BY <1>3 DEF a, b, t

\* The area of the earlier intervals stays what it was.
LEMMA AreaKept ==
    ASSUME NEW R, NEW old \in Calls(R), NEW new \in Calls(R), NEW d, NEW r, NEW motion,
           Follows(new, old, d, r, motion), NEW S, OfCalls(S, old), NEW c
    PROVE  Area(new, c, S) = Area(old, c, S)
<1>1. \A k \in S : /\ new[k - 1].lasted = old[k - 1].lasted
                   /\ new[k - 1].r = old[k - 1].r /\ new[k].r = old[k].r
  BY LastedKept
<1>2. [k \in S |-> (new[k - 1].r.speed[c] + new[k].r.speed[c]) * new[k - 1].lasted]
          = [k \in S |-> (old[k - 1].r.speed[c] + old[k].r.speed[c]) * old[k - 1].lasted]
  BY <1>1
<1>3. QED
  BY <1>2 DEF Area

\* One interval more adds its own.
LEMMA AreaGrows ==
    ASSUME NEW old \in Calls(Reading), NEW new \in Calls(Reading), NEW d \in Nat, NEW r \in Reading,
           NEW motion, Follows(new, old, d, r, motion), NEW S, OfCalls(S, old), Len(old) > 0,
           NEW c \in Channels
    PROVE  Area(new, c, S \cup {Len(old) + 1}) =
               Area(old, c, S) + (old[Len(old)].r.speed[c] + r.speed[c]) * Span(d)
<1> DEFINE n == Len(old)
           x == n + 1
           f == [k \in S |-> (old[k - 1].r.speed[c] + old[k].r.speed[c]) * old[k - 1].lasted]
           g == [k \in S \cup {x} |-> (new[k - 1].r.speed[c] + new[k].r.speed[c]) * new[k - 1].lasted]
<1>1. IsFiniteSet(S) /\ x \notin S /\ n \in Nat
  BY OfCallsFinite
<1>2. \A k \in S : f[k] \in Int /\ g[k] = f[k]
  <2> TAKE k \in S
  <2>1. /\ k \in 1 .. Len(old) /\ k - 1 \in 1 .. Len(old)
        /\ new[k - 1].lasted = old[k - 1].lasted
        /\ new[k - 1].r = old[k - 1].r /\ new[k].r = old[k].r
    BY LastedKept
  <2>2. (old[k - 1].r.speed[c] + old[k].r.speed[c]) * old[k - 1].lasted \in Int
    BY <2>1, AreaTerm
  <2>3. QED
    BY <2>1, <2>2
<1>3. x \in 1 .. Len(new) /\ x - 1 \in 1 .. Len(new) /\ x - 1 = n
  BY <1>1 DEF Follows
<1>4. g[x] = (old[n].r.speed[c] + r.speed[c]) * Span(d) /\ g[x] \in Int
  <2>1. n \in 1 .. n
    BY <1>1
  <2>2. new[n].lasted = Span(d) /\ new[n].r = old[n].r /\ new[x].r = r
    BY <2>1 DEF Follows
  <2>3. g[x] = (new[x - 1].r.speed[c] + new[x].r.speed[c]) * new[x - 1].lasted
    OBVIOUS
  <2>4. (new[x - 1].r.speed[c] + new[x].r.speed[c]) * new[x - 1].lasted \in Int
    <3> HIDE DEF x
    <3>1. QED
      BY <1>3, AreaTerm
  <2> HIDE DEF g, x
  <2>5. QED
    BY <1>3, <2>2, <2>3, <2>4
<1> HIDE DEF f, g, x
<1>5. SumFunctionOnSet(g, S \cup {x}) = SumFunctionOnSet(f, S) + g[x]
  <2>1. IsFiniteSet(S) /\ x \notin S
    BY <1>1
  <2>2. g[x] \in Int
    BY <1>4
  <2>3. QED
    BY <2>1, <1>2, <2>2, SumExtends, ZenonT(60)
<1>6. QED
  BY <1>4, <1>5 DEF Area, f, g, x

-----------------------------------------------------------------------------
(* The measurement of a trial and the log of its samples. *)

\* A stamp ages, and Never stays Never.
LEMMA LaterAge ==
    ASSUME NEW age \in MetricsAge, NEW d \in Nat
    PROVE  /\ MetricsLater(age, d) \in MetricsAge
           /\ MetricsLater(age, d) = Never <=> age = Never
BY TopsAreNat DEF MetricsAge, MetricsLater, Never

\* Time ages three stamps and leaves all else alone.
LEMMA OlderMetrics ==
    ASSUME NEW m \in MetricsType, NEW d \in Nat
    PROVE  LET o == MetricsOlder(m, d)
           IN  /\ o \in MetricsType
               /\ o.last = MetricsLater(m.last, d) /\ o.motion = MetricsLater(m.motion, d)
               /\ o.active = m.active /\ o.body = m.body /\ o.gaps = m.gaps
               /\ o.previous_valid = m.previous_valid /\ o.previous_steady = m.previous_steady
               /\ o.previous = m.previous /\ o.response = m.response
               /\ o.total = m.total /\ o.steady = m.steady
               /\ o.elapsed = m.elapsed /\ o.steady_s = m.steady_s
<1> DEFINE last == MetricsLater(m.last, d)
           knock == MetricsLater(m.knock, d)
           motion == MetricsLater(m.motion, d)
<1>1. last \in MetricsAge /\ knock \in MetricsAge /\ motion \in MetricsAge
  BY LaterAge DEF MetricsType
<1>2. MetricsOlder(m, d) = [m EXCEPT !.last = last, !.knock = knock, !.motion = motion]
  BY DEF MetricsOlder
<1> HIDE DEF last, knock, motion
<1>3. MetricsOlder(m, d) \in MetricsType
  BY <1>1, <1>2 DEF MetricsType
<1>4. /\ MetricsOlder(m, d).last = last /\ MetricsOlder(m, d).motion = motion
  BY <1>2 DEF MetricsType
<1>5. /\ MetricsOlder(m, d).active = m.active /\ MetricsOlder(m, d).body = m.body
      /\ MetricsOlder(m, d).gaps = m.gaps /\ MetricsOlder(m, d).previous_valid = m.previous_valid
      /\ MetricsOlder(m, d).previous_steady = m.previous_steady
      /\ MetricsOlder(m, d).previous = m.previous /\ MetricsOlder(m, d).response = m.response
      /\ MetricsOlder(m, d).total = m.total /\ MetricsOlder(m, d).steady = m.steady
      /\ MetricsOlder(m, d).elapsed = m.elapsed /\ MetricsOlder(m, d).steady_s = m.steady_s
  BY <1>2 DEF MetricsType
<1>6. QED
  BY <1>3, <1>4, <1>5 DEF last, motion

\* The reading of a known interval is summed.
LEMMA IntegrateFields ==
    ASSUME NEW m \in MetricsType, NEW r \in Reading, NEW moved \in BOOLEAN, m.last \in Nat
    PROVE  LET q == Integrate(m, r, moved)
               steady == Steady(m, r, moved) /\ m.previous_steady
           IN  /\ q \in MetricsType
               /\ q.elapsed = m.elapsed + m.last
               /\ \A c \in Channels : q.total[c] = m.total[c] + (m.previous[c] + r.speed[c]) * m.last
               /\ q.steady_s = IF steady THEN m.steady_s + m.last ELSE m.steady_s
               /\ \A c \in Channels : q.steady[c] = IF steady
                                                   THEN m.steady[c] + (m.previous[c] + r.speed[c]) * m.last
                                                   ELSE m.steady[c]
               /\ q.active = m.active /\ q.body = m.body /\ q.gaps = m.gaps /\ q.motion = m.motion
               /\ q.response = m.response /\ q.samples = m.samples
<1> DEFINE area == Trapezoids(m.previous, r.speed, m.last)
           steady == Steady(m, r, moved) /\ m.previous_steady
           stops == moved /\ r.request = [vx |-> 0, wz |-> 0]
           total == Plus(m.total, area)
           elapsed == m.elapsed + m.last
           more == IF steady THEN Plus(m.steady, area) ELSE m.steady
           longer == IF steady THEN m.steady_s + m.last ELSE m.steady_s
           stop_s == IF stops THEN m.stop_s + m.last ELSE m.stop_s
           stop_distance == IF stops THEN m.stop_distance + Magnitude(area["vx"]) ELSE m.stop_distance
           q == Integrate(m, r, moved)
<1>1. area \in [Channels -> Int] /\ \A c \in Channels : area[c] = (m.previous[c] + r.speed[c]) * m.last
  <2>1. \A c \in Channels : m.previous[c] \in Int /\ r.speed[c] \in Int /\ m.last \in Int
    BY DEF MetricsType, Reading
  <2>2. ASSUME NEW c \in Channels PROVE (m.previous[c] + r.speed[c]) * m.last \in Int
    <3> DEFINE a == m.previous[c]
               b == r.speed[c]
               t == m.last
    <3>1. a \in Int /\ b \in Int /\ t \in Int
      BY <2>1
    <3> HIDE DEF a, b, t
    <3>2. (a + b) * t \in Int
      BY <3>1
    <3>3. QED
      BY <3>2 DEF a, b, t
  <2>3. area = [c \in Channels |-> (m.previous[c] + r.speed[c]) * m.last]
    BY DEF Trapezoids
  <2> HIDE DEF area
  <2>4. QED
    BY <2>2, <2>3
<1> HIDE DEF area
<1>2. ASSUME NEW f \in [Channels -> Int]
      PROVE  Plus(f, area) \in [Channels -> Int] /\ \A c \in Channels : Plus(f, area)[c] = f[c] + area[c]
  <2>1. \A c \in Channels : f[c] + area[c] \in Int
    BY <1>1
  <2>2. QED
    BY <2>1 DEF Plus
<1>3. m.total \in [Channels -> Int] /\ m.steady \in [Channels -> Int]
      /\ m.elapsed \in Nat /\ m.steady_s \in Nat /\ m.stop_s \in Nat /\ m.stop_distance \in Nat
  BY DEF MetricsType
<1>4. Magnitude(area["vx"]) \in Nat
  <2>1. area["vx"] \in Int
    BY <1>1 DEF Channels
  <2>2. QED
    BY <2>1 DEF Magnitude
<1>5. /\ total \in [Channels -> Int] /\ more \in [Channels -> Int]
      /\ elapsed \in Nat /\ longer \in Nat /\ stop_s \in Nat /\ stop_distance \in Nat
  BY <1>2, <1>3, <1>4
<1>6. \A c \in Channels : /\ total[c] = m.total[c] + area[c]
                          /\ more[c] = IF steady THEN m.steady[c] + area[c] ELSE m.steady[c]
  BY <1>2, <1>3
<1>7. q = [m EXCEPT !.total = total, !.elapsed = elapsed, !.steady = more,
                    !.steady_s = longer, !.stop_s = stop_s, !.stop_distance = stop_distance]
  BY DEF Integrate, area
<1> HIDE DEF total, elapsed, more, longer, stop_s, stop_distance, q
<1>8. q \in MetricsType
  BY <1>5, <1>7 DEF MetricsType
<1>9. q.total = total /\ q.elapsed = elapsed /\ q.steady = more /\ q.steady_s = longer
  BY <1>7 DEF MetricsType
<1>10. /\ q.active = m.active /\ q.body = m.body /\ q.gaps = m.gaps /\ q.motion = m.motion
       /\ q.response = m.response /\ q.samples = m.samples
  BY <1>7 DEF MetricsType
<1>11. /\ \A c \in Channels : q.total[c] = m.total[c] + (m.previous[c] + r.speed[c]) * m.last
       /\ \A c \in Channels : q.steady[c] = IF steady
                                            THEN m.steady[c] + (m.previous[c] + r.speed[c]) * m.last
                                            ELSE m.steady[c]
  BY <1>1, <1>6, <1>9
<1>12. q.elapsed = m.elapsed + m.last /\ q.steady_s = IF steady THEN m.steady_s + m.last ELSE m.steady_s
  BY <1>9 DEF elapsed, longer
<1>13. QED
  BY <1>8, <1>10, <1>11, <1>12 DEF q

\* A knock is counted, and nothing else.
LEMMA KnockFields ==
    ASSUME NEW m \in MetricsType, NEW r
    PROVE  LET q == Knock(m, r)
           IN  /\ q \in MetricsType
               /\ q.elapsed = m.elapsed /\ q.total = m.total /\ q.steady = m.steady
               /\ q.steady_s = m.steady_s
               /\ q.active = m.active /\ q.body = m.body /\ q.gaps = m.gaps /\ q.motion = m.motion
               /\ q.response = m.response /\ q.samples = m.samples
<1>1. 0 \in MetricsAge
  BY TopsAreNat DEF MetricsAge
<1>2. Knock(m, r) \in MetricsType
  <2> DEFINE knocks == m.knocks + 1
  <2>1. knocks \in Nat
    BY DEF MetricsType
  <2>2. Knock(m, r) = [m EXCEPT !.knocks = knocks, !.knock = 0] \/ Knock(m, r) = m
    BY DEF Knock
  <2> HIDE DEF knocks
  <2>3. QED
    BY <1>1, <2>1, <2>2 DEF MetricsType
<1>3. QED
  BY <1>2 DEF Knock, MetricsType

\* The response is written once, with the time since the motion began.
LEMMA RespondFields ==
    ASSUME NEW m \in MetricsType, NEW r, NEW moved
    PROVE  LET q == Respond(m, r, moved)
           IN  /\ q \in MetricsType
               /\ q.elapsed = m.elapsed /\ q.total = m.total /\ q.steady = m.steady
               /\ q.steady_s = m.steady_s
               /\ q.active = m.active /\ q.body = m.body /\ q.gaps = m.gaps /\ q.motion = m.motion
               /\ q.samples = m.samples
               /\ q.response = IF moved /\ m.response = Never /\ m.motion # Never /\ Reaches(m, r)
                               THEN m.motion ELSE m.response
<1>1. Respond(m, r, moved) \in MetricsType
  BY DEF Respond, MetricsType
<1>2. QED
  BY <1>1 DEF Respond, MetricsType

\* All a valid reading does to a measurement in progress.
LEMMA ObserveFields ==
    ASSUME NEW m \in MetricsType, NEW r \in Reading, NEW moved \in BOOLEAN, m.active, r.valid,
           NEW motion, motion = IF m.motion = Never /\ moved THEN 0 ELSE m.motion,
           NEW steady, steady = Steady([m EXCEPT !.motion = motion], r, moved)
    PROVE  LET p == calibration_metrics_observe(m, r, moved)
           IN  /\ p \in MetricsType
               /\ p.active /\ p.body = m.body /\ p.motion = motion /\ p.last = 0
               /\ p.previous_valid /\ p.previous_steady = steady /\ p.previous = r.speed
               /\ Closes(m) =>
                      /\ p.gaps = m.gaps
                      /\ p.elapsed = m.elapsed + m.last
                      /\ \A c \in Channels :
                             p.total[c] = m.total[c] + (m.previous[c] + r.speed[c]) * m.last
                      /\ p.steady_s = IF steady /\ m.previous_steady THEN m.steady_s + m.last ELSE m.steady_s
                      /\ \A c \in Channels :
                             p.steady[c] = IF steady /\ m.previous_steady
                                           THEN m.steady[c] + (m.previous[c] + r.speed[c]) * m.last
                                           ELSE m.steady[c]
                      /\ p.response = IF moved /\ m.response = Never /\ motion # Never /\ Reaches(m, r)
                                      THEN motion ELSE m.response
               /\ ~Closes(m) =>
                      /\ p.gaps = IF m.last # Never THEN m.gaps + 1 ELSE m.gaps
                      /\ p.elapsed = m.elapsed /\ p.total = m.total
                      /\ p.steady_s = m.steady_s /\ p.steady = m.steady
                      /\ p.response = m.response
<1> DEFINE b == IF m.motion = Never /\ moved THEN [m EXCEPT !.motion = 0] ELSE m
           q == IF Closes(m) THEN Respond(Knock(Integrate(b, r, moved), r), r, moved)
                ELSE IF m.last # Never THEN [b EXCEPT !.gaps = @ + 1] ELSE b
           p == calibration_metrics_observe(m, r, moved)
<1>1. 0 \in MetricsAge /\ m.motion \in MetricsAge
  BY TopsAreNat DEF MetricsAge, MetricsType
<1>2. b = [m EXCEPT !.motion = motion] /\ motion \in MetricsAge
  BY <1>1 DEF MetricsType
<1> HIDE DEF b
<1>3. b \in MetricsType /\ b.motion = motion /\ steady = Steady(b, r, moved)
  BY <1>2 DEF MetricsType
<1>4. /\ b.active = m.active /\ b.body = m.body /\ b.gaps = m.gaps /\ b.last = m.last
      /\ b.previous = m.previous /\ b.previous_steady = m.previous_steady /\ b.response = m.response
      /\ b.total = m.total /\ b.steady = m.steady /\ b.elapsed = m.elapsed /\ b.steady_s = m.steady_s
      /\ b.samples = m.samples
  BY <1>2 DEF MetricsType
<1>5. \A k : Reaches(k, r) <=> IF k.body THEN Reaches([body |-> TRUE], r) ELSE Reaches([body |-> FALSE], r)
  BY DEF Reaches
<1>6. p = [q EXCEPT !.samples = @ + 1, !.last = 0, !.previous_valid = TRUE,
                    !.previous_steady = steady, !.previous = r.speed]
  BY <1>3 DEF calibration_metrics_observe, b
<1>7. steady \in BOOLEAN /\ r.speed \in [Channels -> Int]
  BY DEF Steady, Reading
<1>8. ASSUME q \in MetricsType
      PROVE  /\ p \in MetricsType /\ p.active = q.active /\ p.body = q.body /\ p.motion = q.motion
             /\ p.last = 0 /\ p.previous_valid /\ p.previous_steady = steady /\ p.previous = r.speed
             /\ p.gaps = q.gaps /\ p.elapsed = q.elapsed /\ p.total = q.total /\ p.steady = q.steady
             /\ p.steady_s = q.steady_s /\ p.response = q.response
  <2> DEFINE samples == q.samples + 1
             speed == r.speed
  <2>1. samples \in Nat /\ p = [q EXCEPT !.samples = samples, !.last = 0, !.previous_valid = TRUE,
                                         !.previous_steady = steady, !.previous = speed]
    BY <1>6, <1>8 DEF MetricsType
  <2> HIDE DEF samples, p, q, speed
  <2>2. speed \in [Channels -> Int]
    BY <1>7 DEF speed
  <2>3. p \in MetricsType
    BY <1>1, <1>7, <1>8, <2>1, <2>2 DEF MetricsType
  <2>4. /\ p.active = q.active /\ p.body = q.body /\ p.motion = q.motion
        /\ p.last = 0 /\ p.previous_valid /\ p.previous_steady = steady /\ p.previous = speed
        /\ p.gaps = q.gaps /\ p.elapsed = q.elapsed /\ p.total = q.total /\ p.steady = q.steady
        /\ p.steady_s = q.steady_s /\ p.response = q.response
    BY <1>8, <2>1 DEF MetricsType
  <2>5. QED
    BY <2>3, <2>4 DEF speed
<1>9. CASE Closes(m)
  <2> DEFINE i == Integrate(b, r, moved)
             k == Knock(i, r)
  <2>1. q = Respond(k, r, moved)
    BY <1>9
  <2>2. b.last \in Nat
    BY <1>4, <1>9, TopsAreNat DEF Closes, MetricsType, MetricsAge, Never
  <2>3. /\ i \in MetricsType
        /\ i.elapsed = b.elapsed + b.last
        /\ \A c \in Channels : i.total[c] = b.total[c] + (b.previous[c] + r.speed[c]) * b.last
        /\ i.steady_s = IF steady /\ b.previous_steady THEN b.steady_s + b.last ELSE b.steady_s
        /\ \A c \in Channels : i.steady[c] = IF steady /\ b.previous_steady
                                             THEN b.steady[c] + (b.previous[c] + r.speed[c]) * b.last
                                             ELSE b.steady[c]
        /\ i.active = b.active /\ i.body = b.body /\ i.gaps = b.gaps /\ i.motion = b.motion
        /\ i.response = b.response
    <3> DEFINE s == Steady(b, r, moved) /\ b.previous_steady
    <3>1. /\ i \in MetricsType
          /\ i.elapsed = b.elapsed + b.last
          /\ \A c \in Channels : i.total[c] = b.total[c] + (b.previous[c] + r.speed[c]) * b.last
          /\ i.steady_s = IF s THEN b.steady_s + b.last ELSE b.steady_s
          /\ \A c \in Channels : i.steady[c] = IF s
                                               THEN b.steady[c] + (b.previous[c] + r.speed[c]) * b.last
                                               ELSE b.steady[c]
          /\ i.active = b.active /\ i.body = b.body /\ i.gaps = b.gaps /\ i.motion = b.motion
          /\ i.response = b.response
      BY <1>3, <2>2, IntegrateFields
    <3>2. s <=> steady /\ b.previous_steady
      BY <1>3
    <3> HIDE DEF s, i
    <3>3. QED
      BY <3>1, <3>2
  <2> HIDE DEF i
  <2>4. /\ k \in MetricsType
        /\ k.elapsed = i.elapsed /\ k.total = i.total /\ k.steady = i.steady /\ k.steady_s = i.steady_s
        /\ k.active = i.active /\ k.body = i.body /\ k.gaps = i.gaps /\ k.motion = i.motion
        /\ k.response = i.response
    BY <2>3, KnockFields
  <2> HIDE DEF k, q
  <2>5. /\ q \in MetricsType
        /\ q.elapsed = k.elapsed /\ q.total = k.total /\ q.steady = k.steady /\ q.steady_s = k.steady_s
        /\ q.active = k.active /\ q.body = k.body /\ q.gaps = k.gaps /\ q.motion = k.motion
        /\ q.response = IF moved /\ k.response = Never /\ k.motion # Never /\ Reaches(k, r)
                        THEN k.motion ELSE k.response
    BY <2>1, <2>4, RespondFields
  <2>6. Reaches(k, r) <=> Reaches(m, r)
    BY <1>4, <2>3, <2>4 DEF Reaches
  <2> HIDE DEF p
  <2>7. /\ p \in MetricsType /\ p.active = q.active /\ p.body = q.body /\ p.motion = q.motion
        /\ p.last = 0 /\ p.previous_valid /\ p.previous_steady = steady /\ p.previous = r.speed
        /\ p.gaps = q.gaps /\ p.elapsed = q.elapsed /\ p.total = q.total /\ p.steady = q.steady
        /\ p.steady_s = q.steady_s /\ p.response = q.response
    BY <1>8, <2>5
  <2>8. /\ p.active /\ p.body = m.body /\ p.motion = motion /\ p.gaps = m.gaps
        /\ p.response = IF moved /\ m.response = Never /\ motion # Never /\ Reaches(m, r)
                        THEN motion ELSE m.response
    BY <1>3, <1>4, <2>3, <2>4, <2>5, <2>6, <2>7
  <2>9. /\ p.elapsed = m.elapsed + m.last
        /\ \A c \in Channels : p.total[c] = m.total[c] + (m.previous[c] + r.speed[c]) * m.last
        /\ p.steady_s = IF steady /\ m.previous_steady THEN m.steady_s + m.last ELSE m.steady_s
        /\ \A c \in Channels : p.steady[c] = IF steady /\ m.previous_steady
                                             THEN m.steady[c] + (m.previous[c] + r.speed[c]) * m.last
                                             ELSE m.steady[c]
    BY <1>4, <2>3, <2>4, <2>5, <2>7
  <2>10. QED
    BY <1>9, <2>7, <2>8, <2>9 DEF p
<1>10. CASE ~Closes(m)
  <2>1. q = IF m.last # Never THEN [b EXCEPT !.gaps = @ + 1] ELSE b
    BY <1>10
  <2> HIDE DEF q
  <2>2. /\ q \in MetricsType /\ q.gaps = IF m.last # Never THEN m.gaps + 1 ELSE m.gaps
        /\ q.active = m.active /\ q.body = m.body /\ q.motion = motion /\ q.response = m.response
        /\ q.total = m.total /\ q.steady = m.steady /\ q.elapsed = m.elapsed /\ q.steady_s = m.steady_s
    <3>1. CASE m.last # Never
      <4> DEFINE gaps == b.gaps + 1
      <4>1. q = [b EXCEPT !.gaps = gaps] /\ gaps \in Nat
        BY <1>3, <2>1, <3>1 DEF MetricsType
      <4> HIDE DEF gaps
      <4>2. q \in MetricsType
        BY <1>3, <4>1 DEF MetricsType
      <4>3. /\ q.gaps = gaps /\ q.active = b.active /\ q.body = b.body /\ q.motion = b.motion
            /\ q.response = b.response /\ q.total = b.total /\ q.steady = b.steady
            /\ q.elapsed = b.elapsed /\ q.steady_s = b.steady_s
        BY <1>3, <4>1 DEF MetricsType
      <4>4. QED
        BY <1>3, <1>4, <3>1, <4>2, <4>3 DEF gaps
    <3>2. CASE m.last = Never
      BY <1>3, <1>4, <2>1, <3>2
    <3>3. QED
      BY <3>1, <3>2
  <2> HIDE DEF p
  <2>3. /\ p \in MetricsType /\ p.active = q.active /\ p.body = q.body /\ p.motion = q.motion
        /\ p.last = 0 /\ p.previous_valid /\ p.previous_steady = steady /\ p.previous = r.speed
        /\ p.gaps = q.gaps /\ p.elapsed = q.elapsed /\ p.total = q.total /\ p.steady = q.steady
        /\ p.steady_s = q.steady_s /\ p.response = q.response
    BY <1>8, <2>2
  <2>4. QED
    BY <1>10, <2>2, <2>3 DEF p
<1>11. QED
  BY <1>9, <1>10

\* The half of EstimatesInv that is about the measurement.
MetricsInv ==
    /\ metrics \in MetricsType /\ readings \in Calls(Reading) /\ JustCalled(readings)
    /\ MetricsRemember
    /\ TotalsAreOfIntervals /\ SteadyIsSteady /\ GaplessIsComplete /\ ResponseIsFirst

\* What the record and the log say of the interval a new call would close.
LEMMA ClosesJoins ==
    ASSUME MetricsInv, metrics.active, NEW d \in Nat \ {0}, NEW r, r.valid
    PROVE  LET o == MetricsOlder(metrics, d)
               n == Len(readings)
           IN  /\ Closes(o) <=> Joins(readings, d, r, METRICS_GAP)
               /\ Closes(o) => /\ n > 0 /\ n \in 1 .. n /\ o.last = d /\ Span(d) = d
                               /\ o.previous = readings[n].r.speed
                               /\ o.previous_steady <=> SteadyAt(readings, n)
               /\ ~Closes(o) /\ n > 0 /\ readings[n].r.valid => Span(d) > METRICS_GAP
<1> DEFINE o == MetricsOlder(metrics, d)
           n == Len(readings)
<1>1. metrics \in MetricsType /\ n \in Nat
  BY CallsLength DEF MetricsInv
<1>2. /\ o.previous_valid = metrics.previous_valid /\ o.previous = metrics.previous
      /\ o.previous_steady = metrics.previous_steady /\ o.last = MetricsLater(metrics.last, d)
  BY <1>1, OlderMetrics
<1>3. /\ metrics.previous_valid <=> n > 0 /\ readings[n].r.valid
      /\ metrics.previous_valid =>
             /\ metrics.previous = readings[n].r.speed
             /\ metrics.previous_steady <=> SteadyAt(readings, n)
             /\ metrics.last = 0
  BY DEF MetricsInv, MetricsRemember
<1>4. /\ METRICS_TOP \in Nat /\ METRICS_GAP \in Nat /\ METRICS_GAP < METRICS_TOP
      /\ METRICS_TOP <= LASTED_TOP /\ LASTED_TOP \in Nat
  BY TopsAreNat
<1>5. MetricsLater(0, d) = IF d < METRICS_TOP THEN d ELSE METRICS_TOP
  BY <1>4 DEF MetricsLater, Never
<1> HIDE DEF o, n
<1>6. metrics.previous_valid => o.last = IF d < METRICS_TOP THEN d ELSE METRICS_TOP
  BY <1>2, <1>3, <1>5
<1>7. Closes(o) <=> metrics.previous_valid /\ d <= METRICS_GAP
  BY <1>2, <1>4, <1>6 DEF Closes
<1>8. Joins(readings, d, r, METRICS_GAP) <=> n > 0 /\ readings[n].r.valid /\ d <= METRICS_GAP
  BY DEF Joins, n
<1>9. Closes(o) <=> Joins(readings, d, r, METRICS_GAP)
  BY <1>3, <1>7, <1>8
<1>10. Closes(o) => n > 0 /\ n \in 1 .. n /\ o.last = d /\ Span(d) = d
  BY <1>1, <1>3, <1>4, <1>6, <1>7 DEF Span
<1>11. ~Closes(o) /\ n > 0 /\ readings[n].r.valid => Span(d) > METRICS_GAP
  BY <1>3, <1>4, <1>7 DEF Span
<1>12. Closes(o) => /\ o.previous = readings[n].r.speed
                    /\ o.previous_steady <=> SteadyAt(readings, n)
  BY <1>2, <1>3, <1>7
<1>13. QED
  BY <1>9, <1>10, <1>11, <1>12 DEF o, n

\* A sample of a measurement in progress.
SampleTaken(d, r) ==
    /\ metrics.active
    /\ metrics' = calibration_metrics_observe(MetricsOlder(metrics, d), r, moving)
    /\ readings' = Called(readings, d, r, moving)

\* The log after a sample follows the log before it.
LEMMA SampleFollows ==
    ASSUME MetricsInv, moving \in BOOLEAN, NEW d \in Nat \ {0}, NEW r \in Reading, SampleTaken(d, r)
    PROVE  /\ readings' \in Calls(Reading) /\ JustCalled(readings')
           /\ Follows(readings', readings, d, r, moving)
           /\ Len(readings) \in Nat /\ Len(readings') = Len(readings) + 1
<1>1. readings \in Calls(Reading) /\ JustCalled(readings) /\ d \in Nat
  BY DEF MetricsInv
<1>2. /\ readings' \in Calls(Reading) /\ JustCalled(readings')
      /\ Follows(readings', readings, d, r, moving)
  BY <1>1, CalledFollows DEF SampleTaken
<1>3. QED
  BY <1>1, <1>2, CallsLength DEF Follows

\* Since when the motion lasts is what the record says, after the sample too.
LEMMA SampleMotion ==
    ASSUME MetricsInv, moving \in BOOLEAN, NEW d \in Nat \ {0}, NEW r \in Reading, SampleTaken(d, r)
    PROVE  LET o == MetricsOlder(metrics, d)
               n == Len(readings)
               now == IF Moved(readings', n + 1) = {} THEN Never ELSE MotionAt(readings', n + 1)
           IN  /\ now = IF o.motion = Never /\ moving /\ r.valid THEN 0 ELSE o.motion
               /\ Moved(readings', n + 1) = {} <=> now = Never
<1> DEFINE o == MetricsOlder(metrics, d)
           n == Len(readings)
           before == IF Moved(readings, n) = {} THEN Never ELSE MotionAt(readings, n)
           now == IF Moved(readings', n + 1) = {} THEN Never ELSE MotionAt(readings', n + 1)
<1>1. /\ readings \in Calls(Reading) /\ readings' \in Calls(Reading)
      /\ Follows(readings', readings, d, r, moving) /\ d \in Nat
  BY SampleFollows DEF MetricsInv
<1>2. /\ now = IF before = Never THEN (IF moving /\ r.valid THEN 0 ELSE Never)
               ELSE MetricsLater(before, d)
      /\ before = Never <=> Moved(readings, n) = {}
  BY <1>1, MotionGrows
<1>3. metrics.motion = before /\ metrics \in MetricsType
  BY DEF MetricsInv, MetricsRemember, SampleTaken
<1>4. o.motion = MetricsLater(before, d) /\ before \in MetricsAge
  <2>1. o.motion = MetricsLater(metrics.motion, d)
    BY <1>1, <1>3, OlderMetrics
  <2>2. metrics.motion \in MetricsAge
    BY <1>3 DEF MetricsType
  <2> HIDE DEF before, o
  <2>3. QED
    BY <1>3, <2>1, <2>2
<1> HIDE DEF before, o
<1>5. o.motion = Never <=> before = Never
  BY <1>1, <1>4, LaterAge
<1>6. now = IF o.motion = Never /\ moving /\ r.valid THEN 0 ELSE o.motion
  <2> HIDE DEF now
  <2>1. QED
    BY <1>2, <1>4, <1>5
<1>7. now = Never => Moved(readings', n + 1) = {}
  <2>1. SUFFICES ASSUME now = Never, Moved(readings', n + 1) # {} PROVE FALSE
    OBVIOUS
  <2>2. n + 1 \in 1 .. Len(readings') /\ n \in Nat /\ n \in 0 .. n
    BY SampleFollows
  <2>3. o.motion = Never /\ ~(moving /\ r.valid) /\ Never # 0
    <3> HIDE DEF now
    <3>1. QED
      BY <1>6, <2>1 DEF Never
  <2>4. Moved(readings, n) = {}
    BY <1>2, <1>5, <2>3
  <2>5. ~(moving /\ r.valid) => Moved(readings', n + 1) = Moved(readings, n)
    BY <1>1, <2>2, MovedGrows
  <2>6. QED
    BY <2>1, <2>3, <2>4, <2>5
<1>8. QED
  BY <1>6, <1>7 DEF o

\* The known intervals after a sample.
LEMMA SampleIntervals ==
    ASSUME MetricsInv, moving \in BOOLEAN, NEW d \in Nat \ {0}, NEW r \in Reading, SampleTaken(d, r)
    PROVE  LET x == Len(readings) + 1
               I == Intervals(readings, METRICS_GAP)
               closes == Joins(readings, d, r, METRICS_GAP)
           IN  /\ OfCalls(I, readings)
               /\ closes => Intervals(readings', METRICS_GAP) = I \cup {x}
               /\ ~closes => Intervals(readings', METRICS_GAP) = I
<1>1. Follows(readings', readings, d, r, moving) /\ d \in Nat /\ Len(readings) \in Nat
  BY SampleFollows
<1>2. METRICS_GAP \in Nat /\ METRICS_GAP < LASTED_TOP
  BY TopsAreNat
<1>3. OfCalls(Intervals(readings, METRICS_GAP), readings)
  BY <1>1, <1>2, IntervalsGrow
<1>4. Joins(readings, d, r, METRICS_GAP) =>
          Intervals(readings', METRICS_GAP) = Intervals(readings, METRICS_GAP) \cup {Len(readings) + 1}
  BY <1>1, <1>2, IntervalsGrow
<1>5. ~Joins(readings, d, r, METRICS_GAP) =>
          Intervals(readings', METRICS_GAP) = Intervals(readings, METRICS_GAP)
  BY <1>1, <1>2, IntervalsGrow
<1>6. QED
  BY <1>3, <1>4, <1>5

\* The steady intervals after a sample.
LEMMA SampleSteady ==
    ASSUME MetricsInv, moving \in BOOLEAN, NEW d \in Nat \ {0}, NEW r \in Reading, SampleTaken(d, r)
    PROVE  LET x == Len(readings) + 1
               S == SteadyIntervals(readings)
               joins == /\ Joins(readings, d, r, METRICS_GAP)
                        /\ SteadyAt(readings, Len(readings)) /\ SteadyAt(readings', x)
           IN  /\ OfCalls(S, readings)
               /\ joins => SteadyIntervals(readings') = S \cup {x}
               /\ ~joins => SteadyIntervals(readings') = S
<1>1. /\ Follows(readings', readings, d, r, moving) /\ d \in Nat
      /\ readings \in Calls(Reading) /\ readings' \in Calls(Reading)
  BY SampleFollows DEF MetricsInv
<1>2. OfCalls(SteadyIntervals(readings), readings)
  BY <1>1, SteadyGrows
<1>3. Joins(readings, d, r, METRICS_GAP)
          /\ SteadyAt(readings, Len(readings)) /\ SteadyAt(readings', Len(readings) + 1) =>
          SteadyIntervals(readings') = SteadyIntervals(readings) \cup {Len(readings) + 1}
  BY <1>1, SteadyGrows
<1>4. ~(Joins(readings, d, r, METRICS_GAP)
          /\ SteadyAt(readings, Len(readings)) /\ SteadyAt(readings', Len(readings) + 1)) =>
          SteadyIntervals(readings') = SteadyIntervals(readings)
  BY <1>1, SteadyGrows
<1>5. QED
  BY <1>2, <1>3, <1>4

\* The intervals that reached the speed after a sample.
LEMMA SampleReached ==
    ASSUME MetricsInv, moving \in BOOLEAN, NEW d \in Nat \ {0}, NEW r \in Reading, SampleTaken(d, r),
           metrics'.body = metrics.body
    PROVE  LET x == Len(readings) + 1
               A == Reached(readings, metrics)
               joins == ReachesNow(readings, d, r, moving, metrics)
           IN  /\ OfCalls(A, readings)
               /\ joins => Reached(readings', metrics') = A \cup {x}
               /\ ~joins => Reached(readings', metrics') = A
<1>1. Follows(readings', readings, d, r, moving) /\ d \in Nat /\ Len(readings) \in Nat
  BY SampleFollows
<1>2. Reached(readings', metrics') = Reached(readings', metrics)
  BY ReachedOfBody
<1>3. OfCalls(Reached(readings, metrics), readings)
  BY <1>1, ReachedGrows
<1>4. ReachesNow(readings, d, r, moving, metrics) =>
          Reached(readings', metrics) = Reached(readings, metrics) \cup {Len(readings) + 1}
  BY <1>1, ReachedGrows
<1>5. ~ReachesNow(readings, d, r, moving, metrics) =>
          Reached(readings', metrics) = Reached(readings, metrics)
  <2>1. SUFFICES ASSUME ~ReachesNow(readings, d, r, moving, metrics)
        PROVE Reached(readings', metrics) = Reached(readings, metrics)
    OBVIOUS
  <2>2. QED
    <3>1. \A k : k \in Reached(readings', metrics) <=> k \in Reached(readings, metrics)
      BY <1>1, <2>1, ReachedGrows
    <3>2. QED
      BY <3>1 DEF Reached
<1>6. QED
  BY <1>2, <1>3, <1>4, <1>5

\* The first interval that reached the speed is one of the log's, and the motion had begun.
LEMMA ReachedMotion ==
    ASSUME NEW old \in Calls(Reading), NEW m, NEW A, A = Reached(old, m), A # {}
    PROVE  /\ Min(A) \in A /\ \A k \in A : Min(A) <= k
           /\ Min(A) \in 1 .. Len(old) /\ Moved(old, Min(A)) # {} /\ A \in SUBSET (1 .. Len(old))
<1>1. A \subseteq 2 .. Len(old) /\ \A k \in A : k \in Moved(old, k)
  BY DEF Reached, Intervals, Moved
<1>2. A \in SUBSET Nat
  BY <1>1
<1>3. Min(A) \in A /\ \A k \in A : Min(A) <= k
  BY <1>2, MinIsLeast
<1>4. Len(old) \in Nat
  BY CallsLength
<1>5. A \in SUBSET (1 .. Len(old))
  BY <1>1, <1>4
<1>6. QED
  BY <1>1, <1>3, <1>5

\* A reading that is not valid closes nothing: the sums stay, and the gap is counted.
LEMMA InvalidSample ==
    ASSUME MetricsInv, moving \in BOOLEAN, NEW d \in Nat \ {0}, NEW r \in Reading, SampleTaken(d, r),
           ~r.valid
    PROVE  MetricsInv'
<1> DEFINE o == MetricsOlder(metrics, d)
           n == Len(readings)
           I == Intervals(readings, METRICS_GAP)
           S == SteadyIntervals(readings)
           A == Reached(readings, metrics)
<1>1. /\ readings \in Calls(Reading) /\ readings' \in Calls(Reading) /\ JustCalled(readings')
      /\ Follows(readings', readings, d, r, moving) /\ d \in Nat
      /\ n \in Nat /\ Len(readings') = n + 1
  BY SampleFollows DEF MetricsInv
<1>2. /\ metrics \in MetricsType /\ o \in MetricsType /\ metrics' = Missed(o)
      /\ o.last = MetricsLater(metrics.last, d)
      /\ o.active = metrics.active /\ o.body = metrics.body /\ o.gaps = metrics.gaps
      /\ o.response = metrics.response /\ o.total = metrics.total /\ o.steady = metrics.steady
      /\ o.elapsed = metrics.elapsed /\ o.steady_s = metrics.steady_s
  <2>1. metrics \in MetricsType
    BY DEF MetricsInv
  <2>2. /\ o \in MetricsType
        /\ o.last = MetricsLater(metrics.last, d)
        /\ o.active = metrics.active /\ o.body = metrics.body /\ o.gaps = metrics.gaps
        /\ o.response = metrics.response /\ o.total = metrics.total /\ o.steady = metrics.steady
        /\ o.elapsed = metrics.elapsed /\ o.steady_s = metrics.steady_s
    BY <1>1, <2>1, OlderMetrics
  <2> HIDE DEF o
  <2>3. metrics' = Missed(o)
    BY <2>2 DEF SampleTaken, calibration_metrics_observe, o
  <2>4. QED
    BY <2>1, <2>2, <2>3
<1> HIDE DEF o
<1>3. /\ metrics' \in MetricsType /\ metrics'.gaps > 0 /\ ~metrics'.previous_valid
      /\ metrics'.last = o.last /\ metrics'.motion = o.motion
      /\ metrics'.active = metrics.active /\ metrics'.body = metrics.body
      /\ metrics'.response = metrics.response /\ metrics'.total = metrics.total
      /\ metrics'.steady = metrics.steady /\ metrics'.elapsed = metrics.elapsed
      /\ metrics'.steady_s = metrics.steady_s
  <2> DEFINE gaps == o.gaps + 1
  <2>1. gaps \in Nat /\ gaps > 0 /\ metrics' = [o EXCEPT !.gaps = gaps, !.previous_valid = FALSE]
    BY <1>2 DEF Missed, MetricsType
  <2> HIDE DEF gaps
  <2>2. metrics' \in MetricsType /\ metrics'.gaps = gaps /\ metrics'.previous_valid = FALSE
    BY <1>2, <2>1 DEF MetricsType
  <2>3. /\ metrics'.last = o.last /\ metrics'.motion = o.motion
        /\ metrics'.active = o.active /\ metrics'.body = o.body
        /\ metrics'.response = o.response /\ metrics'.total = o.total
        /\ metrics'.steady = o.steady /\ metrics'.elapsed = o.elapsed
        /\ metrics'.steady_s = o.steady_s
    BY <1>2, <2>1 DEF MetricsType
  <2>4. QED
    BY <1>2, <2>1, <2>2, <2>3
<1>4. readings'[n + 1].r = r /\ \A k \in 1 .. n : readings'[k].r = readings[k].r
  BY <1>1 DEF Follows
<1>5. ~Joins(readings, d, r, METRICS_GAP)
  BY DEF Joins
<1>6. Intervals(readings', METRICS_GAP) = I /\ OfCalls(I, readings)
  BY <1>5, SampleIntervals
<1>7. SteadyIntervals(readings') = S /\ OfCalls(S, readings)
  BY <1>5, SampleSteady
<1>8. Reached(readings', metrics') = A
  <2>1. ~ReachesNow(readings, d, r, moving, metrics)
    BY <1>5 DEF ReachesNow
  <2>2. QED
    BY <1>3, <2>1, SampleReached
<1> HIDE DEF I, S, A
<1>9. TotalsAreOfIntervals'
  <2>1. /\ metrics.elapsed = Duration(readings, I)
        /\ \A c \in Channels : metrics.total[c] = Area(readings, c, I)
    BY DEF MetricsInv, TotalsAreOfIntervals, I
  <2>2. Duration(readings', I) = Duration(readings, I)
    BY <1>1, <1>6, DurationKept
  <2>3. \A c \in Channels : Area(readings', c, I) = Area(readings, c, I)
    BY <1>1, <1>6, AreaKept
  <2>4. QED
    BY <1>3, <1>6, <2>1, <2>2, <2>3 DEF TotalsAreOfIntervals
<1>10. SteadyIsSteady'
  <2>1. /\ metrics.steady_s = Duration(readings, S)
        /\ \A c \in Channels : metrics.steady[c] = Area(readings, c, S)
    BY DEF MetricsInv, SteadyIsSteady, S
  <2>2. Duration(readings', S) = Duration(readings, S)
    BY <1>1, <1>7, DurationKept
  <2>3. \A c \in Channels : Area(readings', c, S) = Area(readings, c, S)
    BY <1>1, <1>7, AreaKept
  <2>4. QED
    BY <1>3, <1>7, <2>1, <2>2, <2>3 DEF SteadyIsSteady
<1>11. GaplessIsComplete'
  <2>1. n + 1 \in DOMAIN readings'
    <3>1. readings' \in Seq([r : Reading, moving : BOOLEAN, lasted : 0 .. LASTED_TOP])
      BY <1>1 DEF Calls
    <3>2. DOMAIN readings' = 1 .. Len(readings')
      BY <3>1
    <3>3. QED
      BY <1>1, <3>2
  <2>2. ~readings'[n + 1].r.valid
    BY <1>4
  <2>3. metrics'.gaps # 0
    BY <1>3 DEF MetricsType
  <2>4. QED
    BY <2>1, <2>2, <2>3 DEF GaplessIsComplete
<1>12. A # {} => MotionAt(readings', Min(A)) = MotionAt(readings, Min(A))
  <2>1. SUFFICES ASSUME A # {} PROVE MotionAt(readings', Min(A)) = MotionAt(readings, Min(A))
    OBVIOUS
  <2>2. Min(A) \in 1 .. Len(readings) /\ Moved(readings, Min(A)) # {}
    BY <1>1, <2>1, ReachedMotion DEF A
  <2>3. QED
    BY <1>1, <2>2, MotionKept
<1>13. metrics.response = Never <=> A = {}
  BY DEF MetricsInv, MetricsRemember, SampleTaken, A
<1>14. ResponseIsFirst'
  <2>1. CASE readings = <<>>
    <3>1. A = {}
      BY <2>1 DEF A, Reached, Intervals
    <3>2. QED
      BY <1>3, <1>8, <1>13, <3>1 DEF ResponseIsFirst
  <2>2. CASE readings # <<>>
    <3>1. metrics.response = IF A = {} THEN Never ELSE MotionAt(readings, Min(A))
      BY <2>2 DEF MetricsInv, ResponseIsFirst, A
    <3>2. QED
      BY <1>3, <1>8, <1>12, <3>1 DEF ResponseIsFirst
  <2>3. QED
    BY <2>1, <2>2
<1>15. MetricsRemember'
  <2>1. metrics'.last = Never <=> \A k \in 1 .. n + 1 : ~readings'[k].r.valid
    <3>1. metrics.last = Never <=> \A k \in 1 .. n : ~readings[k].r.valid
      BY DEF MetricsInv, MetricsRemember, SampleTaken
    <3>2. metrics'.last = Never <=> metrics.last = Never
      <4>1. metrics.last \in MetricsAge
        BY <1>2 DEF MetricsType
      <4>2. QED
        BY <1>1, <1>2, <1>3, <4>1, LaterAge
    <3>3. (\A k \in 1 .. n + 1 : ~readings'[k].r.valid) <=> \A k \in 1 .. n : ~readings[k].r.valid
      <4>1. 1 .. n + 1 = (1 .. n) \cup {n + 1}
        BY <1>1
      <4> HIDE DEF n
      <4>2. QED
        BY <1>4, <4>1
    <3>4. QED
      BY <3>1, <3>2, <3>3
  <2>2. metrics'.motion = IF Moved(readings', n + 1) = {} THEN Never ELSE MotionAt(readings', n + 1)
    <3>1. (IF Moved(readings', n + 1) = {} THEN Never ELSE MotionAt(readings', n + 1)) = o.motion
      BY SampleMotion DEF o
    <3>2. QED
      BY <1>3, <3>1
  <2>3. metrics'.response = Never <=> Reached(readings', metrics') = {}
    BY <1>3, <1>8, <1>13
  <2>4. ~readings'[n + 1].r.valid
    BY <1>4
  <2>5. QED
    BY <1>1, <1>3, <2>1, <2>2, <2>3, <2>4 DEF MetricsRemember
<1>16. QED
  BY <1>1, <1>3, <1>9, <1>10, <1>11, <1>14, <1>15 DEF MetricsInv

\* Whether a reading is steady: as the record says, so says the log.
LEMMA SampleSteadyAt ==
    ASSUME MetricsInv, moving \in BOOLEAN, NEW d \in Nat \ {0}, NEW r \in Reading, SampleTaken(d, r),
           r.valid, NEW m \in MetricsType,
           LET now == IF Moved(readings', Len(readings) + 1) = {} THEN Never
                      ELSE MotionAt(readings', Len(readings) + 1)
           IN  m.motion = now
    PROVE  Steady(m, r, moving) <=> SteadyAt(readings', Len(readings) + 1)
<1> DEFINE x == Len(readings) + 1
           t == MotionAt(readings', x)
<1>1. readings'[x].r = r /\ readings'[x].moving = moving /\ Len(readings') = x /\ x \in 1 .. x
  BY SampleFollows DEF Follows
<1>2. CASE moving
  <2>1. x \in Moved(readings', x)
    BY <1>1, <1>2 DEF Moved
  <2>2. m.motion = t
    BY <2>1
  <2>3. readings' \in Calls(Reading) /\ x \in 1 .. Len(readings')
    BY <1>1, SampleFollows
  <2>4. t # Never
    <3>1. m.motion \in MetricsAge
      BY DEF MetricsType
    <3>2. Moved(readings', x) # {}
      BY <2>1
    <3>3. LET now == IF Moved(readings', x) = {} THEN Never ELSE t
          IN  Moved(readings', x) = {} <=> now = Never
      BY SampleMotion
    <3>4. QED
      BY <3>2, <3>3
  <2> HIDE DEF t, x
  <2>5. QED
    BY <1>1, <1>2, <2>2, <2>4 DEF Steady, SteadyAt, t, x
<1>3. CASE ~moving
  BY <1>1, <1>3 DEF Steady, SteadyAt
<1>4. QED
  BY <1>2, <1>3

\* The record after a valid reading, in the log's words.
LEMMA ValidFields ==
    ASSUME MetricsInv, moving \in BOOLEAN, NEW d \in Nat \ {0}, NEW r \in Reading, SampleTaken(d, r),
           r.valid
    PROVE  LET o == MetricsOlder(metrics, d)
               x == Len(readings) + 1
               now == IF Moved(readings', x) = {} THEN Never ELSE MotionAt(readings', x)
               steady == SteadyAt(readings', x)
               p == metrics'
               both == steady /\ metrics.previous_steady
           IN  /\ p \in MetricsType
               /\ p.active /\ p.body = metrics.body /\ p.motion = now /\ p.last = 0
               /\ p.previous_valid /\ (p.previous_steady <=> steady) /\ p.previous = r.speed
               /\ Closes(o) =>
                      /\ p.gaps = metrics.gaps
                      /\ p.elapsed = metrics.elapsed + d
                      /\ \A c \in Channels :
                             p.total[c] = metrics.total[c] + (metrics.previous[c] + r.speed[c]) * d
                      /\ p.steady_s = IF both THEN metrics.steady_s + d ELSE metrics.steady_s
                      /\ \A c \in Channels :
                             p.steady[c] = IF both
                                           THEN metrics.steady[c] + (metrics.previous[c] + r.speed[c]) * d
                                           ELSE metrics.steady[c]
                      /\ p.response = IF moving /\ metrics.response = Never /\ now # Never
                                            /\ Reaches(metrics, r)
                                      THEN now ELSE metrics.response
               /\ ~Closes(o) =>
                      /\ p.gaps = IF o.last # Never THEN metrics.gaps + 1 ELSE metrics.gaps
                      /\ p.elapsed = metrics.elapsed /\ p.total = metrics.total
                      /\ p.steady_s = metrics.steady_s /\ p.steady = metrics.steady
                      /\ p.response = metrics.response
<1> DEFINE o == MetricsOlder(metrics, d)
           x == Len(readings) + 1
           now == IF Moved(readings', x) = {} THEN Never ELSE MotionAt(readings', x)
           motion == IF o.motion = Never /\ moving THEN 0 ELSE o.motion
           m == [o EXCEPT !.motion = motion]
           steady == Steady(m, r, moving)
<1>1. /\ o \in MetricsType
      /\ o.active = metrics.active /\ o.body = metrics.body /\ o.gaps = metrics.gaps
      /\ o.previous_valid = metrics.previous_valid /\ o.previous_steady = metrics.previous_steady
      /\ o.previous = metrics.previous /\ o.response = metrics.response
      /\ o.total = metrics.total /\ o.steady = metrics.steady
      /\ o.elapsed = metrics.elapsed /\ o.steady_s = metrics.steady_s
  <2>1. metrics \in MetricsType /\ d \in Nat
    BY DEF MetricsInv
  <2>2. QED
    BY <2>1, OlderMetrics
<1>2. motion = now
  <2>1. now = IF o.motion = Never /\ moving /\ r.valid THEN 0 ELSE o.motion
    BY SampleMotion
  <2> HIDE DEF now, o
  <2>2. QED
    BY <2>1
<1>3. Closes(o) => o.last = d
  BY ClosesJoins, SampleFollows DEF SampleTaken
<1>4. Reaches(o, r) <=> Reaches(metrics, r)
  <2> HIDE DEF o
  <2>1. QED
    BY <1>1 DEF Reaches
<1>5. o.active /\ metrics' = calibration_metrics_observe(o, r, moving)
  BY <1>1 DEF SampleTaken
<1> HIDE DEF o, now
<1>6. m \in MetricsType /\ m.motion = motion
  <2>1. motion \in MetricsAge
    BY <1>1, TopsAreNat DEF MetricsType, MetricsAge
  <2> HIDE DEF motion
  <2>2. QED
    BY <1>1, <2>1 DEF MetricsType
<1>7. steady <=> SteadyAt(readings', x)
  <2> HIDE DEF m, motion
  <2>1. m.motion = now
    BY <1>2, <1>6
  <2>2. QED
    BY <1>6, <2>1, SampleSteadyAt DEF now
<1> HIDE DEF motion
<1> DEFINE p == calibration_metrics_observe(o, r, moving)
           both == steady /\ o.previous_steady
<1>8. /\ p \in MetricsType
      /\ p.active /\ p.body = o.body /\ p.motion = motion /\ p.last = 0
      /\ p.previous_valid /\ p.previous_steady = steady /\ p.previous = r.speed
      /\ Closes(o) =>
             /\ p.gaps = o.gaps
             /\ p.elapsed = o.elapsed + o.last
             /\ \A c \in Channels : p.total[c] = o.total[c] + (o.previous[c] + r.speed[c]) * o.last
             /\ p.steady_s = IF both THEN o.steady_s + o.last ELSE o.steady_s
             /\ \A c \in Channels : p.steady[c] = IF both
                                        THEN o.steady[c] + (o.previous[c] + r.speed[c]) * o.last
                                        ELSE o.steady[c]
             /\ p.response = IF moving /\ o.response = Never /\ motion # Never /\ Reaches(o, r)
                             THEN motion ELSE o.response
      /\ ~Closes(o) =>
             /\ p.gaps = IF o.last # Never THEN o.gaps + 1 ELSE o.gaps
             /\ p.elapsed = o.elapsed /\ p.total = o.total
             /\ p.steady_s = o.steady_s /\ p.steady = o.steady
             /\ p.response = o.response
  BY <1>1, <1>5, ObserveFields DEF motion
<1> HIDE DEF p, steady, x
<1>9. metrics' = p
  BY <1>5 DEF p
<1>10. metrics.active
  BY DEF SampleTaken
<1>11. /\ p \in MetricsType
      /\ p.active /\ p.body = metrics.body /\ p.motion = now /\ p.last = 0
      /\ p.previous_valid /\ (p.previous_steady <=> SteadyAt(readings', x)) /\ p.previous = r.speed
  BY <1>1, <1>2, <1>7, <1>8
<1>12. both <=> SteadyAt(readings', x) /\ metrics.previous_steady
  BY <1>1, <1>7
<1>13. Closes(o) => /\ p.gaps = metrics.gaps /\ p.elapsed = metrics.elapsed + d
                    /\ \A c \in Channels :
                         p.total[c] = metrics.total[c] + (metrics.previous[c] + r.speed[c]) * d
  BY <1>1, <1>3, <1>8
<1>14. Closes(o) => /\ p.steady_s = IF both THEN metrics.steady_s + d ELSE metrics.steady_s
                    /\ \A c \in Channels :
                         p.steady[c] = IF both
                                       THEN metrics.steady[c] + (metrics.previous[c] + r.speed[c]) * d
                                       ELSE metrics.steady[c]
  <2> HIDE DEF both
  <2>1. QED
    BY <1>1, <1>3, <1>8
<1>15. Closes(o) => p.response = IF moving /\ metrics.response = Never /\ now # Never /\ Reaches(metrics, r)
                                 THEN now ELSE metrics.response
  BY <1>1, <1>2, <1>4, <1>8
<1>16. ~Closes(o) =>
             /\ p.gaps = IF o.last # Never THEN metrics.gaps + 1 ELSE metrics.gaps
             /\ p.elapsed = metrics.elapsed /\ p.total = metrics.total
             /\ p.steady_s = metrics.steady_s /\ p.steady = metrics.steady
             /\ p.response = metrics.response
  BY <1>1, <1>8
<1> HIDE DEF both
<1>17. QED
  BY <1>9, <1>11, <1>12, <1>13, <1>14, <1>15, <1>16 DEF o, x, now

\* What every step below uses of a valid sample that closes an interval.
LEMMA ClosingSample ==
    ASSUME MetricsInv, moving \in BOOLEAN, NEW d \in Nat \ {0}, NEW r \in Reading, SampleTaken(d, r),
           r.valid, Closes(MetricsOlder(metrics, d))
    PROVE  /\ Joins(readings, d, r, METRICS_GAP)
           /\ Len(readings) > 0 /\ Span(d) = d
           /\ metrics.previous = readings[Len(readings)].r.speed
           /\ metrics.previous_steady <=> SteadyAt(readings, Len(readings))
<1>1. metrics \in MetricsType /\ d \in Nat /\ metrics.active
  BY DEF MetricsInv, SampleTaken
<1> DEFINE o == MetricsOlder(metrics, d)
<1>2. o.previous = metrics.previous /\ o.previous_steady = metrics.previous_steady
  BY <1>1, OlderMetrics
<1>3. /\ Closes(o) <=> Joins(readings, d, r, METRICS_GAP)
      /\ Closes(o) => /\ Len(readings) > 0 /\ Span(d) = d
                      /\ o.previous = readings[Len(readings)].r.speed
                      /\ o.previous_steady <=> SteadyAt(readings, Len(readings))
  BY <1>1, ClosesJoins
<1>4. QED
  BY <1>2, <1>3

\* A sample that closes no interval in the record joins none in the log.
LEMMA OpenSample ==
    ASSUME MetricsInv, moving \in BOOLEAN, NEW d \in Nat \ {0}, NEW r \in Reading, SampleTaken(d, r),
           r.valid, ~Closes(MetricsOlder(metrics, d))
    PROVE  ~Joins(readings, d, r, METRICS_GAP)
<1>1. metrics.active
  BY DEF SampleTaken
<1>2. Closes(MetricsOlder(metrics, d)) <=> Joins(readings, d, r, METRICS_GAP)
  BY <1>1, ClosesJoins
<1>3. QED
  BY <1>2

\* A valid sample keeps the sums of the trial those of its intervals.
LEMMA ValidTotals ==
    ASSUME MetricsInv, moving \in BOOLEAN, NEW d \in Nat \ {0}, NEW r \in Reading, SampleTaken(d, r),
           r.valid
    PROVE  TotalsAreOfIntervals'
<1> DEFINE o == MetricsOlder(metrics, d)
           n == Len(readings)
           I == Intervals(readings, METRICS_GAP)
<1>1. /\ readings \in Calls(Reading) /\ readings' \in Calls(Reading)
      /\ Follows(readings', readings, d, r, moving) /\ d \in Nat
  BY SampleFollows DEF MetricsInv
<1>2. OfCalls(I, readings)
  BY SampleIntervals
<1>3. /\ metrics.elapsed = Duration(readings, I)
      /\ \A c \in Channels : metrics.total[c] = Area(readings, c, I)
  BY DEF MetricsInv, TotalsAreOfIntervals
<1> HIDE DEF I
<1>4. CASE Closes(o)
  <2>1. Len(readings) > 0 /\ Span(d) = d /\ metrics.previous = readings[Len(readings)].r.speed
    BY <1>4, ClosingSample
  <2>2. Intervals(readings', METRICS_GAP) = I \cup {Len(readings) + 1}
    <3>1. Joins(readings, d, r, METRICS_GAP)
      BY <1>4, ClosingSample
    <3>2. QED
      BY <3>1, SampleIntervals DEF I
  <2>3. /\ metrics'.elapsed = metrics.elapsed + d
        /\ \A c \in Channels :
             metrics'.total[c] = metrics.total[c] + (metrics.previous[c] + r.speed[c]) * d
    BY <1>4, ValidFields
  <2>4. metrics'.elapsed = Duration(readings', I \cup {Len(readings) + 1})
    BY <1>1, <1>2, <1>3, <2>1, <2>3, DurationGrows
  <2>5. ASSUME NEW c \in Channels
        PROVE  metrics'.total[c] = Area(readings', c, I \cup {Len(readings) + 1})
    <3>1. Area(readings', c, I \cup {Len(readings) + 1}) =
              Area(readings, c, I) + (readings[Len(readings)].r.speed[c] + r.speed[c]) * Span(d)
      BY <1>1, <1>2, <2>1, AreaGrows
    <3>2. QED
      BY <1>3, <2>1, <2>3, <3>1
  <2>6. QED
    BY <2>2, <2>4, <2>5 DEF TotalsAreOfIntervals
<1>5. CASE ~Closes(o)
  <2>1. Intervals(readings', METRICS_GAP) = I
    BY <1>5, OpenSample, SampleIntervals DEF I
  <2>2. metrics'.elapsed = metrics.elapsed /\ metrics'.total = metrics.total
    BY <1>5, ValidFields
  <2>3. Duration(readings', I) = Duration(readings, I)
    BY <1>1, <1>2, DurationKept
  <2>4. \A c \in Channels : Area(readings', c, I) = Area(readings, c, I)
    BY <1>1, <1>2, AreaKept
  <2>5. QED
    BY <1>3, <2>1, <2>2, <2>3, <2>4 DEF TotalsAreOfIntervals
<1>6. QED
  BY <1>4, <1>5

\* A valid sample keeps the steady sums those of the steady intervals.
LEMMA ValidSteady ==
    ASSUME MetricsInv, moving \in BOOLEAN, NEW d \in Nat \ {0}, NEW r \in Reading, SampleTaken(d, r),
           r.valid
    PROVE  SteadyIsSteady'
<1> DEFINE o == MetricsOlder(metrics, d)
           S == SteadyIntervals(readings)
           both == SteadyAt(readings', Len(readings) + 1) /\ metrics.previous_steady
<1>1. /\ readings \in Calls(Reading) /\ readings' \in Calls(Reading)
      /\ Follows(readings', readings, d, r, moving) /\ d \in Nat
  BY SampleFollows DEF MetricsInv
<1>2. OfCalls(S, readings)
  BY SampleSteady
<1>3. /\ metrics.steady_s = Duration(readings, S)
      /\ \A c \in Channels : metrics.steady[c] = Area(readings, c, S)
  BY DEF MetricsInv, SteadyIsSteady
<1>4. /\ Duration(readings', S) = Duration(readings, S)
      /\ \A c \in Channels : Area(readings', c, S) = Area(readings, c, S)
  BY <1>1, <1>2, DurationKept, AreaKept
<1>5. Closes(o) =>
         /\ metrics'.steady_s = IF both THEN metrics.steady_s + d ELSE metrics.steady_s
         /\ \A c \in Channels :
              metrics'.steady[c] = IF both
                            THEN metrics.steady[c] + (metrics.previous[c] + r.speed[c]) * d
                            ELSE metrics.steady[c]
  BY ValidFields
<1>6. ~Closes(o) => metrics'.steady_s = metrics.steady_s /\ metrics'.steady = metrics.steady
  BY ValidFields
<1>7. Closes(o) =>
           /\ Joins(readings, d, r, METRICS_GAP)
           /\ Len(readings) > 0 /\ Span(d) = d
           /\ metrics.previous = readings[Len(readings)].r.speed
           /\ metrics.previous_steady <=> SteadyAt(readings, Len(readings))
  BY ClosingSample
<1>8. ~Closes(o) => ~Joins(readings, d, r, METRICS_GAP)
  BY OpenSample
<1>9. Closes(o) /\ both => SteadyIntervals(readings') = S \cup {Len(readings) + 1}
  BY <1>7, SampleSteady
<1>10. ~(Closes(o) /\ both) => SteadyIntervals(readings') = S
  <2>1. SUFFICES ASSUME ~(Closes(o) /\ both) PROVE SteadyIntervals(readings') = S
    OBVIOUS
  <2>2. ~(/\ Joins(readings, d, r, METRICS_GAP)
          /\ SteadyAt(readings, Len(readings)) /\ SteadyAt(readings', Len(readings) + 1))
    BY <1>7, <1>8, <2>1
  <2>3. QED
    BY <2>2, SampleSteady
<1> HIDE DEF o, S, both
<1>11. CASE Closes(o) /\ both
  <2>1. metrics'.steady_s = Duration(readings', S \cup {Len(readings) + 1})
    BY <1>1, <1>2, <1>3, <1>5, <1>7, <1>11, DurationGrows
  <2>2. ASSUME NEW c \in Channels
        PROVE  metrics'.steady[c] = Area(readings', c, S \cup {Len(readings) + 1})
    <3>1. Area(readings', c, S \cup {Len(readings) + 1}) =
              Area(readings, c, S) + (readings[Len(readings)].r.speed[c] + r.speed[c]) * Span(d)
      BY <1>1, <1>2, <1>7, <1>11, AreaGrows
    <3>2. QED
      BY <1>3, <1>5, <1>7, <1>11, <3>1
  <2>3. QED
    BY <1>9, <1>11, <2>1, <2>2 DEF SteadyIsSteady
<1>12. CASE ~(Closes(o) /\ both)
  BY <1>3, <1>4, <1>5, <1>6, <1>10, <1>12 DEF SteadyIsSteady
<1>13. QED
  BY <1>11, <1>12

\* The response that is kept is the first reading's, and there is one just when one reached it.
ResponseOf(calls, m) ==
    LET A == Reached(calls, m)
    IN  /\ m.response = Never <=> A = {}
        /\ A # {} => m.response = MotionAt(calls, Min(A))

\* The invariant says as much of the log before the sample.
LEMMA ResponseBefore == MetricsInv /\ metrics.active => ResponseOf(readings, metrics)
<1> SUFFICES ASSUME MetricsInv, metrics.active PROVE ResponseOf(readings, metrics)
  OBVIOUS
<1> DEFINE A == Reached(readings, metrics)
<1>1. metrics.response = Never <=> A = {}
  BY DEF MetricsInv, MetricsRemember
<1>2. ASSUME A # {} PROVE metrics.response = MotionAt(readings, Min(A))
  <2>1. readings # <<>>
    BY <1>2 DEF Reached, Intervals
  <2>2. QED
    BY <1>2, <2>1 DEF MetricsInv, ResponseIsFirst
<1>3. QED
  BY <1>1, <1>2 DEF ResponseOf

\* A valid sample keeps the response the first one's.
LEMMA ValidResponse ==
    ASSUME MetricsInv, moving \in BOOLEAN, NEW d \in Nat \ {0}, NEW r \in Reading, SampleTaken(d, r),
           r.valid
    PROVE  ResponseOf(readings', metrics')
<1> DEFINE o == MetricsOlder(metrics, d)
           x == Len(readings) + 1
           A == Reached(readings, metrics)
           now == IF Moved(readings', x) = {} THEN Never ELSE MotionAt(readings', x)
           joins == ReachesNow(readings, d, r, moving, metrics)
<1>1. /\ readings \in Calls(Reading) /\ readings' \in Calls(Reading)
      /\ Follows(readings', readings, d, r, moving) /\ d \in Nat
      /\ Len(readings) \in Nat /\ Len(readings') = x
  BY SampleFollows DEF MetricsInv
<1>2. metrics'.body = metrics.body
  BY ValidFields
<1>3. /\ OfCalls(A, readings)
      /\ joins => Reached(readings', metrics') = A \cup {x}
      /\ ~joins => Reached(readings', metrics') = A
  BY <1>2, SampleReached
<1>4. metrics.active /\ ResponseOf(readings, metrics)
  BY ResponseBefore DEF SampleTaken
<1>5. ASSUME A # {}
      PROVE  /\ A \in SUBSET Nat /\ \A k \in A : k <= x
             /\ MotionAt(readings', Min(A)) = MotionAt(readings, Min(A))
  <2>1. Min(A) \in 1 .. Len(readings) /\ Moved(readings, Min(A)) # {} /\ A \in SUBSET (1 .. Len(readings))
    BY <1>1, <1>5, ReachedMotion
  <2>2. MotionAt(readings', Min(A)) = MotionAt(readings, Min(A))
    BY <1>1, <2>1, MotionKept
  <2>3. QED
    <3> HIDE DEF A
    <3>1. QED
      BY <1>1, <2>1, <2>2
<1>6. /\ Closes(o) => metrics'.response = IF moving /\ metrics.response = Never /\ now # Never
                                               /\ Reaches(metrics, r)
                                          THEN now ELSE metrics.response
      /\ ~Closes(o) => metrics'.response = metrics.response
  BY ValidFields
<1>7. Closes(o) <=> Joins(readings, d, r, METRICS_GAP)
  BY ClosingSample, OpenSample
<1>8. moving => Moved(readings', x) # {}
  <2>1. readings'[x].r = r /\ readings'[x].moving = moving /\ x \in 1 .. x
    BY <1>1 DEF Follows
  <2>2. QED
    BY <2>1 DEF Moved
<1>9. Moved(readings', x) = {} <=> now = Never
  BY SampleMotion
<1> HIDE DEF o, A, now
<1>10. CASE joins /\ A = {}
  <2>1. moving /\ Reaches(metrics, r) /\ Closes(o) /\ metrics.response = Never
    BY <1>4, <1>7, <1>10 DEF ReachesNow, ResponseOf, A
  <2>2. metrics'.response = now /\ now # Never
    BY <1>6, <1>8, <1>9, <2>1
  <2>3. Reached(readings', metrics') = {x}
    BY <1>3, <1>10
  <2>4. Min({x}) = x
    BY <1>1, MinOfOne
  <2>5. now = MotionAt(readings', x)
    BY <1>8, <2>1 DEF now
  <2> HIDE DEF x
  <2>6. QED
    BY <2>2, <2>3, <2>4, <2>5 DEF ResponseOf
<1>11. CASE joins /\ A # {}
  <2>1. metrics.response # Never /\ metrics.response = MotionAt(readings, Min(A))
    BY <1>4, <1>11 DEF ResponseOf, A
  <2>2. metrics'.response = metrics.response
    BY <1>6, <2>1
  <2>3. Min(A \cup {x}) = Min(A)
    BY <1>1, <1>5, <1>11, MinStays
  <2>4. Reached(readings', metrics') = A \cup {x}
    BY <1>3, <1>11
  <2>5. A \cup {x} # {}
    OBVIOUS
  <2>6. QED
    BY <1>5, <1>11, <2>1, <2>2, <2>3, <2>4, <2>5 DEF ResponseOf
<1>12. CASE ~joins
  <2>1. metrics'.response = metrics.response
    BY <1>6, <1>7, <1>12 DEF ReachesNow
  <2>2. Reached(readings', metrics') = A
    BY <1>3, <1>12
  <2>3. metrics.response = Never <=> A = {}
    BY <1>4 DEF ResponseOf, A
  <2>4. A # {} => metrics.response = MotionAt(readings', Min(A))
    BY <1>4, <1>5 DEF ResponseOf, A
  <2>5. QED
    BY <2>1, <2>2, <2>3, <2>4 DEF ResponseOf
<1>13. QED
  BY <1>10, <1>11, <1>12

\* A gap is counted unless the reading is the first or close to a valid one before it.
LEMMA ValidGapless ==
    ASSUME MetricsInv, moving \in BOOLEAN, NEW d \in Nat \ {0}, NEW r \in Reading, SampleTaken(d, r),
           r.valid
    PROVE  GaplessIsComplete'
<1> DEFINE o == MetricsOlder(metrics, d)
           n == Len(readings)
<1>1. /\ readings \in Calls(Reading) /\ readings' \in Calls(Reading)
      /\ Follows(readings', readings, d, r, moving) /\ d \in Nat
      /\ n \in Nat /\ Len(readings') = n + 1
  BY SampleFollows DEF MetricsInv
<1>2. DOMAIN readings = 1 .. n /\ DOMAIN readings' = 1 .. n + 1
  <2> DEFINE Entry == [r : Reading, moving : BOOLEAN, lasted : 0 .. LASTED_TOP]
  <2>1. readings \in Seq(Entry) /\ readings' \in Seq(Entry)
    BY <1>1 DEF Calls
  <2> HIDE DEF Entry
  <2>2. QED
    BY <1>1, <2>1
<1>3. /\ \A k \in 1 .. n : readings'[k].r = readings[k].r
      /\ \A k \in 1 .. n - 1 : readings'[k].lasted = readings[k].lasted
      /\ n > 0 => readings'[n].lasted = Span(d)
      /\ readings'[n + 1].r = r
  BY <1>1 DEF Follows
<1>4. metrics.gaps = 0 <=>
          \A k \in 1 .. n : readings[k].r.valid /\ (k < n => readings[k].lasted <= METRICS_GAP)
  BY <1>2 DEF MetricsInv, GaplessIsComplete
<1>5. /\ metrics.previous_valid <=> n > 0 /\ readings[n].r.valid
      /\ metrics.last = Never <=> \A k \in 1 .. n : ~readings[k].r.valid
  BY DEF MetricsInv, MetricsRemember, SampleTaken
<1>6. metrics \in MetricsType /\ (o.last = Never <=> metrics.last = Never)
  <2>1. metrics \in MetricsType /\ metrics.last \in MetricsAge
    BY DEF MetricsInv, MetricsType
  <2>2. o.last = MetricsLater(metrics.last, d)
    BY <1>1, <2>1, OlderMetrics
  <2>3. QED
    BY <1>1, <2>1, <2>2, LaterAge
<1>7. /\ Closes(o) => metrics'.gaps = metrics.gaps
      /\ ~Closes(o) => metrics'.gaps = IF o.last # Never THEN metrics.gaps + 1 ELSE metrics.gaps
  BY ValidFields
<1>8. /\ Closes(o) => n > 0 /\ Joins(readings, d, r, METRICS_GAP) /\ Span(d) = d
      /\ ~Closes(o) => ~Joins(readings, d, r, METRICS_GAP)
  BY ClosingSample, OpenSample
<1>9. ~Closes(o) /\ n > 0 /\ readings[n].r.valid => Span(d) > METRICS_GAP
  BY ClosesJoins DEF SampleTaken
<1> DEFINE all == \A k \in 1 .. n : readings[k].r.valid /\ (k < n => readings[k].lasted <= METRICS_GAP)
           all2 == \A k \in 1 .. n + 1 : readings'[k].r.valid /\ (k < n + 1 => readings'[k].lasted <= METRICS_GAP)
<1>10. all2 <=> all /\ (n > 0 => Span(d) <= METRICS_GAP)
  <2> HIDE DEF n, o
  <2>1. ASSUME all2 PROVE all /\ (n > 0 => Span(d) <= METRICS_GAP)
    <3>1. ASSUME NEW k \in 1 .. n PROVE readings[k].r.valid /\ (k < n => readings[k].lasted <= METRICS_GAP)
      <4>1. k \in 1 .. n + 1 /\ k < n + 1 /\ (k < n => k \in 1 .. n - 1)
        BY <1>1
      <4>2. QED
        BY <1>3, <2>1, <4>1
    <3>2. n > 0 => n \in 1 .. n + 1 /\ n < n + 1
      BY <1>1
    <3>3. QED
      BY <1>3, <2>1, <3>1, <3>2
  <2>2. ASSUME all, n > 0 => Span(d) <= METRICS_GAP,
               NEW k \in 1 .. n + 1
        PROVE  readings'[k].r.valid /\ (k < n + 1 => readings'[k].lasted <= METRICS_GAP)
    <3>1. CASE k = n + 1
      BY <1>1, <1>3, <3>1
    <3>2. CASE k = n
      <4>1. k \in 1 .. n /\ n > 0
        BY <1>1, <2>2, <3>2
      <4>2. QED
        BY <1>3, <2>2, <3>2, <4>1
    <3>3. CASE k # n /\ k # n + 1
      <4>1. k \in 1 .. n /\ k \in 1 .. n - 1 /\ k < n
        BY <1>1, <2>2, <3>3
      <4>2. QED
        BY <1>3, <2>2, <4>1
    <3>4. QED
      BY <3>1, <3>2, <3>3
  <2>3. QED
    BY <2>1, <2>2
<1>11. metrics.gaps \in Nat
  BY <1>6 DEF MetricsType
<1> HIDE DEF o, all2
<1>12. CASE Closes(o)
  <2>1. Span(d) <= METRICS_GAP
    BY <1>8, <1>12 DEF Joins
  <2>2. QED
    BY <1>1, <1>2, <1>4, <1>7, <1>10, <1>12, <2>1 DEF GaplessIsComplete, all2
<1>13. CASE ~Closes(o) /\ o.last # Never
  <2>1. metrics'.gaps # 0
    BY <1>7, <1>11, <1>13
  <2>2. n > 0
    BY <1>1, <1>5, <1>6, <1>13
  <2>3. ~all2
    <3>1. n \in 1 .. n
      BY <1>1, <2>2
    <3>2. readings[n].r.valid => Span(d) > METRICS_GAP
      BY <1>9, <1>13, <2>2
    <3>3. Span(d) \in Nat /\ METRICS_GAP \in Nat
      BY <1>1, TopsAreNat DEF Span
    <3>4. QED
      BY <1>10, <2>2, <3>1, <3>2, <3>3
  <2>4. QED
    BY <1>1, <1>2, <2>1, <2>3 DEF GaplessIsComplete, all2
<1>14. CASE ~Closes(o) /\ o.last = Never
  <2>1. metrics'.gaps = metrics.gaps
    BY <1>7, <1>14
  <2>2. \A k \in 1 .. n : ~readings[k].r.valid
    BY <1>5, <1>6, <1>14
  <2>3. CASE n = 0
    BY <1>1, <1>2, <1>4, <1>10, <2>1, <2>3 DEF GaplessIsComplete, all2
  <2>4. CASE n > 0
    <3>1. n \in 1 .. n /\ ~readings[n].r.valid
      BY <1>1, <2>2, <2>4
    <3>2. ~all /\ ~all2
      BY <1>10, <3>1
    <3>3. QED
      BY <1>1, <1>2, <1>4, <2>1, <3>2 DEF GaplessIsComplete, all2
  <2>5. QED
    BY <1>1, <2>3, <2>4
<1>15. QED
  BY <1>12, <1>13, <1>14

\* A valid sample keeps the measurement in step with its log.
LEMMA ValidSample ==
    ASSUME MetricsInv, moving \in BOOLEAN, NEW d \in Nat \ {0}, NEW r \in Reading, SampleTaken(d, r),
           r.valid
    PROVE  MetricsInv'
<1> DEFINE x == Len(readings) + 1
           now == IF Moved(readings', x) = {} THEN Never ELSE MotionAt(readings', x)
<1>1. /\ readings' \in Calls(Reading) /\ JustCalled(readings')
      /\ Follows(readings', readings, d, r, moving)
      /\ Len(readings) \in Nat /\ Len(readings') = x
  BY SampleFollows
<1>2. /\ metrics' \in MetricsType /\ metrics'.motion = now /\ metrics'.last = 0
      /\ metrics'.previous_valid /\ (metrics'.previous_steady <=> SteadyAt(readings', x))
      /\ metrics'.previous = r.speed
  BY ValidFields
<1>3. ResponseOf(readings', metrics')
  BY ValidResponse
<1>4. ResponseIsFirst'
  BY <1>3 DEF ResponseIsFirst, ResponseOf
<1>5. MetricsRemember'
  <2>1. readings'[x].r = r /\ x \in 1 .. x /\ x > 0
    BY <1>1 DEF Follows
  <2>2. metrics'.response = Never <=> Reached(readings', metrics') = {}
    BY <1>3 DEF ResponseOf
  <2>3. ~(metrics'.last = Never)
    BY <1>2 DEF Never
  <2>4. ~(\A k \in 1 .. x : ~readings'[k].r.valid)
    BY <2>1
  <2>5. metrics'.previous_valid <=> x > 0 /\ readings'[x].r.valid
    BY <1>2, <2>1
  <2>6. metrics'.previous = readings'[x].r.speed
    BY <1>2, <2>1
  <2> HIDE DEF x
  <2>7. QED
    BY <1>1, <1>2, <2>2, <2>3, <2>4, <2>5, <2>6 DEF MetricsRemember
<1>6. TotalsAreOfIntervals' /\ SteadyIsSteady' /\ GaplessIsComplete'
  BY ValidTotals, ValidSteady, ValidGapless
<1>7. QED
  BY <1>1, <1>2, <1>4, <1>5, <1>6 DEF MetricsInv

\* A sample outside a measurement changes neither its sums nor its log.
LEMMA InactiveSample ==
    ASSUME MetricsInv, NEW d \in Nat, NEW r, NEW moved, ~metrics.active,
           metrics' = calibration_metrics_observe(MetricsOlder(metrics, d), r, moved),
           readings' = readings
    PROVE  MetricsInv'
<1> DEFINE o == MetricsOlder(metrics, d)
<1>1. /\ o \in MetricsType
      /\ o.active = metrics.active /\ o.body = metrics.body /\ o.gaps = metrics.gaps
      /\ o.response = metrics.response
      /\ o.total = metrics.total /\ o.steady = metrics.steady
      /\ o.elapsed = metrics.elapsed /\ o.steady_s = metrics.steady_s
  BY OlderMetrics DEF MetricsInv
<1>2. metrics' = o
  <2> HIDE DEF o
  <2>1. QED
    BY <1>1 DEF calibration_metrics_observe, o
<1> HIDE DEF o
<1>3. MetricsRemember'
  BY <1>1, <1>2 DEF MetricsRemember
<1>4. TotalsAreOfIntervals' /\ SteadyIsSteady' /\ GaplessIsComplete'
  BY <1>1, <1>2 DEF MetricsInv, TotalsAreOfIntervals, SteadyIsSteady, GaplessIsComplete
<1>5. Reached(readings', metrics') = Reached(readings, metrics)
  BY <1>1, <1>2, ReachedOfBody
<1>6. ResponseIsFirst'
  BY <1>1, <1>2, <1>5 DEF MetricsInv, ResponseIsFirst
<1>7. QED
  BY <1>1, <1>2, <1>3, <1>4, <1>6 DEF MetricsInv

\* Over an empty log there is nothing to have been summed.
LEMMA EmptyLog ==
    /\ \A R : <<>> \in Calls(R)
    /\ JustCalled(<<>>)
    /\ Len(<<>>) = 0 /\ DOMAIN <<>> = {}
    /\ \A limit : Intervals(<<>>, limit) = {}
    /\ SteadyIntervals(<<>>) = {} /\ Duration(<<>>, {}) = 0
    /\ \A m : Reached(<<>>, m) = {}
    /\ \A c : Area(<<>>, c, {}) = 0
    /\ Moved(<<>>, 0) = {}
<1>1. \A R : <<>> \in Calls(R)
  BY DEF Calls
<1>2. Len(<<>>) = 0 /\ DOMAIN <<>> = {} /\ JustCalled(<<>>)
  BY DEF JustCalled
<1>3. \A limit : Intervals(<<>>, limit) = {}
  BY <1>2 DEF Intervals
<1>4. SteadyIntervals(<<>>) = {} /\ \A m : Reached(<<>>, m) = {}
  BY <1>3 DEF SteadyIntervals, Reached
<1>5. Duration(<<>>, {}) = 0 /\ \A c : Area(<<>>, c, {}) = 0
  BY SumOfNone DEF Duration, Area
<1>6. Moved(<<>>, 0) = {}
  BY DEF Moved
<1>7. QED
  BY <1>1, <1>2, <1>3, <1>4, <1>5, <1>6

\* The record as it is begun, or before there was one, sums an empty log.
LEMMA BegunMetrics ==
    ASSUME NEW body \in BOOLEAN, NEW m, m = calibration_metrics_begin(body) \/ m = NoMetrics
    PROVE  /\ m \in MetricsType
           /\ m.elapsed = 0 /\ m.steady_s = 0 /\ m.gaps = 0 /\ ~m.previous_valid
           /\ \A c \in Channels : m.total[c] = 0 /\ m.steady[c] = 0
           /\ m.active => m.last = Never /\ m.motion = Never /\ m.response = Never
<1>1. Zero \in [Channels -> Int] /\ \A c \in Channels : Zero[c] = 0
  BY DEF Zero
<1>2. Never \in MetricsAge /\ 0 \in MetricsAge
  BY TopsAreNat DEF MetricsAge
<1> HIDE DEF Zero
<1>3. \A b \in BOOLEAN : calibration_metrics_begin(b) \in MetricsType
  BY <1>1, <1>2 DEF calibration_metrics_begin, MetricsType
<1>4. NoMetrics \in MetricsType /\ ~NoMetrics.active
  BY <1>2, <1>3 DEF NoMetrics, MetricsType
<1>5. ASSUME NEW b \in BOOLEAN
      PROVE  LET q == calibration_metrics_begin(b)
             IN  /\ q.elapsed = 0 /\ q.steady_s = 0 /\ q.gaps = 0 /\ ~q.previous_valid
                 /\ q.total = Zero /\ q.steady = Zero
                 /\ q.last = Never /\ q.motion = Never /\ q.response = Never
  BY DEF calibration_metrics_begin
<1>6. /\ NoMetrics.elapsed = 0 /\ NoMetrics.steady_s = 0 /\ NoMetrics.gaps = 0
      /\ ~NoMetrics.previous_valid /\ NoMetrics.total = Zero /\ NoMetrics.steady = Zero
  <2> DEFINE q == calibration_metrics_begin(FALSE)
  <2>1. /\ q \in MetricsType /\ q.elapsed = 0 /\ q.steady_s = 0 /\ q.gaps = 0 /\ ~q.previous_valid
        /\ q.total = Zero /\ q.steady = Zero
    BY <1>3, <1>5
  <2> HIDE DEF q
  <2>2. NoMetrics = [q EXCEPT !.active = FALSE, !.response = 0]
    BY DEF NoMetrics, q
  <2>3. QED
    BY <2>1, <2>2 DEF MetricsType
<1>7. CASE m = calibration_metrics_begin(body)
  BY <1>1, <1>3, <1>5, <1>7
<1>8. CASE m = NoMetrics
  BY <1>1, <1>4, <1>6, <1>8
<1>9. QED
  BY <1>7, <1>8

\* The record before the first trial sums an empty log.
LEMMA FreshMetrics ==
    ASSUME readings = <<>>, NEW body \in BOOLEAN,
           metrics = calibration_metrics_begin(body) \/ metrics = NoMetrics
    PROVE  MetricsInv
<1>1. /\ metrics \in MetricsType
      /\ metrics.elapsed = 0 /\ metrics.steady_s = 0 /\ metrics.gaps = 0 /\ ~metrics.previous_valid
      /\ \A c \in Channels : metrics.total[c] = 0 /\ metrics.steady[c] = 0
      /\ metrics.active => metrics.last = Never /\ metrics.motion = Never /\ metrics.response = Never
  BY BegunMetrics
<1>2. readings \in Calls(Reading) /\ JustCalled(readings) /\ Len(readings) = 0
  BY EmptyLog
<1>3. TotalsAreOfIntervals /\ SteadyIsSteady
  BY <1>1, EmptyLog DEF TotalsAreOfIntervals, SteadyIsSteady
<1>4. GaplessIsComplete /\ ResponseIsFirst
  BY <1>1, EmptyLog DEF GaplessIsComplete, ResponseIsFirst
<1>5. MetricsRemember
  <2>1. \A k \in 1 .. 0 : ~readings[k].r.valid
    OBVIOUS
  <2>2. Moved(readings, 0) = {} /\ Reached(readings, metrics) = {}
    BY EmptyLog
  <2>3. QED
    BY <1>1, <1>2, <2>1, <2>2 DEF MetricsRemember
<1>6. QED
  BY <1>1, <1>2, <1>3, <1>4, <1>5 DEF MetricsInv

\* The end of a measurement leaves its record as it is.
LEMMA StoppedMetrics ==
    ASSUME MetricsInv, Stop
    PROVE  MetricsInv'
<1>1. CASE metrics.motion # Never
  <2>1. metrics' = [metrics EXCEPT !.active = FALSE] /\ readings' = readings
    BY <1>1 DEF Stop
  <2>2. metrics \in MetricsType
    BY DEF MetricsInv
  <2>3. metrics' \in MetricsType /\ ~metrics'.active
    BY <2>1, <2>2 DEF MetricsType
  <2>4. /\ metrics'.body = metrics.body /\ metrics'.gaps = metrics.gaps
        /\ metrics'.response = metrics.response
        /\ metrics'.total = metrics.total /\ metrics'.steady = metrics.steady
        /\ metrics'.elapsed = metrics.elapsed /\ metrics'.steady_s = metrics.steady_s
    BY <2>1, <2>2 DEF MetricsType
  <2>5. TotalsAreOfIntervals' /\ SteadyIsSteady' /\ GaplessIsComplete'
    BY <2>1, <2>4 DEF MetricsInv, TotalsAreOfIntervals, SteadyIsSteady, GaplessIsComplete
  <2>6. Reached(readings', metrics') = Reached(readings, metrics)
    BY <2>1, <2>4, ReachedOfBody
  <2>7. ResponseIsFirst'
    BY <2>1, <2>4, <2>6 DEF MetricsInv, ResponseIsFirst
  <2>8. MetricsRemember'
    BY <2>3 DEF MetricsRemember
  <2>9. QED
    BY <2>1, <2>3, <2>5, <2>7, <2>8 DEF MetricsInv
<1>2. CASE metrics.motion = Never
  <2>1. metrics' = metrics /\ readings' = readings
    BY <1>2 DEF Stop
  <2>2. QED
    BY <2>1 DEF MetricsInv, MetricsRemember, TotalsAreOfIntervals, SteadyIsSteady,
                GaplessIsComplete, ResponseIsFirst
<1>3. QED
  BY <1>1, <1>2

-----------------------------------------------------------------------------
(* The pose and the log of the odometry calls. *)

\* What the wheels report to the odometry.
Twist == [vx : Int, wz : Int, valid : BOOLEAN]

\* What an interval turns and travels are numbers.
LEMMA TurnedInt ==
    ASSUME NEW calls \in Calls(Twist), NEW k \in 1 .. Len(calls), k - 1 \in 1 .. Len(calls)
    PROVE  Turned(calls, k) \in Int /\ Travelled(calls, k) \in Int
<1> DEFINE a == calls[k - 1].r
           b == calls[k].r
           t == calls[k - 1].lasted
<1>1. a \in Twist /\ b \in Twist /\ t \in Int
  BY CallsLength
<1>2. a.wz \in Int /\ b.wz \in Int /\ a.vx \in Int /\ b.vx \in Int
  BY <1>1 DEF Twist
<1> HIDE DEF a, b, t
<1>3. (a.wz + b.wz) * t \in Int /\ (a.vx + b.vx) * t \in Int
  BY <1>1, <1>2
<1>4. QED
  BY <1>3 DEF Turned, Travelled, a, b, t

\* The turn and the way of the earlier intervals stay what they were.
LEMMA TurnedKept ==
    ASSUME NEW R, NEW old \in Calls(R), NEW new \in Calls(R), NEW d, NEW r, NEW motion,
           Follows(new, old, d, r, motion), NEW S, OfCalls(S, old), NEW k \in S
    PROVE  Turned(new, k) = Turned(old, k) /\ Travelled(new, k) = Travelled(old, k)
<1>1. /\ new[k - 1].lasted = old[k - 1].lasted
      /\ new[k - 1].r = old[k - 1].r /\ new[k].r = old[k].r
  BY LastedKept
<1>2. QED
  BY <1>1 DEF Turned, Travelled

\* The newest interval.
LEMMA TurnedNew ==
    ASSUME NEW old \in Calls(Twist), NEW new \in Calls(Twist), NEW d \in Nat, NEW r \in Twist, NEW motion,
           Follows(new, old, d, r, motion), Len(old) > 0
    PROVE  LET n == Len(old)
           IN  /\ Turned(new, n + 1) = (old[n].r.wz + r.wz) * Span(d)
               /\ Travelled(new, n + 1) = (old[n].r.vx + r.vx) * Span(d)
               /\ Turned(new, n + 1) \in Int /\ Travelled(new, n + 1) \in Int
<1> DEFINE n == Len(old)
           x == n + 1
<1>1. n \in Nat /\ n \in 1 .. n /\ Len(new) = x
  BY CallsLength DEF Follows
<1>2. x - 1 = n /\ x \in 1 .. Len(new) /\ x - 1 \in 1 .. Len(new)
  BY <1>1
<1>3. new[n].lasted = Span(d) /\ new[n].r = old[n].r /\ new[x].r = r
  BY <1>1 DEF Follows
<1>4. Turned(new, x) \in Int /\ Travelled(new, x) \in Int
  <2> HIDE DEF x, n
  <2>1. QED
    BY <1>2, TurnedInt
<1> HIDE DEF x, n
<1>5. QED
  BY <1>2, <1>3, <1>4 DEF Turned, Travelled, x, n

\* The turns sum to a number.
LEMMA TurnsInt ==
    ASSUME NEW calls \in Calls(Twist), NEW S, OfCalls(S, calls)
    PROVE  Turns(calls, S) \in Int
<1> DEFINE f == [k \in S |-> Turned(calls, k)]
<1>1. \A k \in S : f[k] \in Int
  <2> TAKE k \in S
  <2>1. k \in 1 .. Len(calls) /\ k - 1 \in 1 .. Len(calls)
    BY CallsLength DEF OfCalls
  <2>2. QED
    BY <2>1, TurnedInt
<1>2. IsFiniteSet(S)
  BY OfCallsFinite
<1> HIDE DEF f
<1>3. SumFunctionOnSet(f, S) \in Int
  BY <1>1, <1>2, SumAdds
<1>4. QED
  BY <1>3 DEF Turns, f

\* The turns of the earlier intervals stay what they were.
LEMMA TurnsKept ==
    ASSUME NEW R, NEW old \in Calls(R), NEW new \in Calls(R), NEW d, NEW r, NEW motion,
           Follows(new, old, d, r, motion), NEW S, OfCalls(S, old)
    PROVE  Turns(new, S) = Turns(old, S)
<1>1. [k \in S |-> Turned(new, k)] = [k \in S |-> Turned(old, k)]
  BY TurnedKept
<1>2. QED
  BY <1>1 DEF Turns

\* One interval more adds its own turn.
LEMMA TurnsGrow ==
    ASSUME NEW old \in Calls(Twist), NEW new \in Calls(Twist), NEW d \in Nat, NEW r \in Twist, NEW motion,
           Follows(new, old, d, r, motion), NEW S, OfCalls(S, old), Len(old) > 0
    PROVE  Turns(new, S \cup {Len(old) + 1}) = Turns(old, S) + Turned(new, Len(old) + 1)
<1> DEFINE x == Len(old) + 1
           f == [k \in S |-> Turned(old, k)]
           g == [k \in S \cup {x} |-> Turned(new, k)]
<1>1. IsFiniteSet(S) /\ x \notin S
  BY OfCallsFinite
<1>2. \A k \in S : f[k] \in Int /\ g[k] = f[k]
  <2> TAKE k \in S
  <2>1. k \in 1 .. Len(old) /\ k - 1 \in 1 .. Len(old)
    BY CallsLength DEF OfCalls
  <2>2. Turned(old, k) \in Int
    BY <2>1, TurnedInt
  <2>3. Turned(new, k) = Turned(old, k)
    BY TurnedKept
  <2>4. QED
    BY <2>2, <2>3
<1>3. g[x] = Turned(new, x) /\ g[x] \in Int
  <2>1. Turned(new, x) \in Int
    BY TurnedNew
  <2>2. QED
    BY <2>1
<1> HIDE DEF f, g, x
<1>4. SumFunctionOnSet(g, S \cup {x}) = SumFunctionOnSet(f, S) + g[x]
  BY <1>1, <1>2, <1>3, SumExtends, ZenonT(60)
<1>5. QED
  BY <1>3, <1>4 DEF Turns, f, g, x

\* The known intervals of the odometry.
Known(calls) == Intervals(calls, ODOM_MAX_DT)

\* The known intervals after an odometry call.
LEMMA KnownGrow ==
    ASSUME NEW R, NEW old \in Calls(R), NEW new, NEW d \in Nat, NEW r, NEW motion,
           Follows(new, old, d, r, motion)
    PROVE  /\ OfCalls(Known(old), old)
           /\ Joins(old, d, r, ODOM_MAX_DT) => Known(new) = Known(old) \cup {Len(old) + 1}
           /\ ~Joins(old, d, r, ODOM_MAX_DT) => Known(new) = Known(old)
<1>1. ODOM_MAX_DT \in Nat /\ ODOM_MAX_DT < LASTED_TOP /\ Len(old) \in Nat
  BY TopsAreNat, CallsLength
<1>2. OfCalls(Intervals(old, ODOM_MAX_DT), old)
  BY <1>1, IntervalsGrow
<1>3. Joins(old, d, r, ODOM_MAX_DT) =>
          Intervals(new, ODOM_MAX_DT) = Intervals(old, ODOM_MAX_DT) \cup {Len(old) + 1}
  BY <1>1, IntervalsGrow
<1>4. ~Joins(old, d, r, ODOM_MAX_DT) => Intervals(new, ODOM_MAX_DT) = Intervals(old, ODOM_MAX_DT)
  <2> DEFINE limit == ODOM_MAX_DT
  <2>1. limit \in Nat /\ limit < LASTED_TOP /\ Len(old) \in Nat
    BY <1>1
  <2> HIDE DEF limit
  <2>2. ~Joins(old, d, r, limit) => Intervals(new, limit) = Intervals(old, limit)
    BY <2>1, IntervalsGrow
  <2>3. QED
    BY <2>2 DEF limit
<1>5. QED
  BY <1>2, <1>3, <1>4 DEF Known

\* Those before the k-th call.
Before(calls, k) == {j \in Known(calls) : j < k}

\* The intervals before one stay those before it, and all are before the newest.
LEMMA BeforeKept ==
    ASSUME NEW R, NEW old \in Calls(R), NEW new, NEW d \in Nat, NEW r, NEW motion,
           Follows(new, old, d, r, motion)
    PROVE  /\ \A k \in Known(old) : Before(new, k) = Before(old, k) /\ OfCalls(Before(old, k), old)
           /\ Before(new, Len(old) + 1) = Known(old)
<1> DEFINE n == Len(old)
           K == Known(old)
           L == Known(new)
<1>1. n \in Nat /\ OfCalls(K, old) /\ (L = K \cup {n + 1} \/ L = K)
  BY KnownGrow, CallsLength
<1>2. \A k \in K : k \in Nat /\ k < n + 1
  BY <1>1 DEF OfCalls
<1> HIDE DEF K, L, n
<1>3. ASSUME NEW k \in K PROVE {j \in L : j < k} = {j \in K : j < k}
  BY <1>1, <1>2
<1>4. {j \in L : j < n + 1} = K
  BY <1>1, <1>2
<1>5. \A k : OfCalls({j \in K : j < k}, old)
  BY <1>1 DEF OfCalls
<1>6. QED
  BY <1>3, <1>4, <1>5 DEF Before, K, L, n

\* A heading in quarter units has an entry in the tables of sine and cosine.
LEMMA MidIsHeading ==
    ASSUME NEW a \in Int
    PROVE  a % (2 * TURN) \in 0 .. 2 * TURN - 1
<1>1. 2 * TURN \in Nat \ {0}
  BY OdometryAssumption
<1> DEFINE b == 2 * TURN
<1> HIDE DEF b
<1>2. a % b \in 0 .. b - 1
  BY <1>1, DivMod DEF b
<1>3. QED
  BY <1>2 DEF b

\* The heading of an interval, in these words.
LEMMA MidDef ==
    \A calls, k : MidHeading(calls, k) = (2 * Turns(calls, Before(calls, k)) + Turned(calls, k)) % (2 * TURN)
BY DEF MidHeading, Before, Known

\* The heading of an interval stays what it was.
LEMMA MidKept ==
    ASSUME NEW old \in Calls(Twist), NEW new \in Calls(Twist), NEW d \in Nat, NEW r \in Twist, NEW motion,
           Follows(new, old, d, r, motion), NEW k \in Known(old)
    PROVE  MidHeading(new, k) = MidHeading(old, k) /\ MidHeading(old, k) \in 0 .. 2 * TURN - 1
<1>1. OfCalls(Known(old), old)
  BY KnownGrow
<1>2. Before(new, k) = Before(old, k) /\ OfCalls(Before(old, k), old)
  BY BeforeKept
<1>3. Turned(new, k) = Turned(old, k)
  BY <1>1, TurnedKept
<1>4. Turns(new, Before(old, k)) = Turns(old, Before(old, k))
  BY <1>2, TurnsKept
<1>5. MidHeading(new, k) = MidHeading(old, k)
  BY <1>2, <1>3, <1>4, MidDef
<1>6. Turns(old, Before(old, k)) \in Int
  BY <1>2, TurnsInt
<1>7. Turned(old, k) \in Int
  <2>1. k \in 1 .. Len(old) /\ k - 1 \in 1 .. Len(old)
    BY <1>1, CallsLength DEF OfCalls
  <2>2. QED
    BY <2>1, TurnedInt
<1> DEFINE a == 2 * Turns(old, Before(old, k)) + Turned(old, k)
<1>8. a \in Int
  BY <1>6, <1>7
<1> HIDE DEF a
<1>9. a % (2 * TURN) \in 0 .. 2 * TURN - 1
  BY <1>8, MidIsHeading
<1>10. QED
  BY <1>5, <1>9, MidDef DEF a

\* The heading of the newest interval, from all the turns before it.
LEMMA MidNew ==
    ASSUME NEW old \in Calls(Twist), NEW new \in Calls(Twist), NEW d \in Nat, NEW r \in Twist, NEW motion,
           Follows(new, old, d, r, motion), Len(old) > 0
    PROVE  LET mid == MidHeading(new, Len(old) + 1)
           IN  /\ mid = (2 * Turns(old, Known(old)) + Turned(new, Len(old) + 1)) % (2 * TURN)
               /\ mid \in 0 .. 2 * TURN - 1
<1> DEFINE x == Len(old) + 1
           a == 2 * Turns(old, Known(old)) + Turned(new, x)
<1>1. OfCalls(Known(old), old) /\ Before(new, x) = Known(old)
  BY KnownGrow, BeforeKept
<1>2. Turns(new, Known(old)) = Turns(old, Known(old))
  BY <1>1, TurnsKept
<1>3. Turns(old, Known(old)) \in Int
  BY <1>1, TurnsInt
<1>4. Turned(new, x) \in Int
  BY TurnedNew
<1>5. a \in Int
  BY <1>3, <1>4
<1> HIDE DEF x
<1>6. MidHeading(new, x) = a % (2 * TURN)
  BY <1>1, <1>2, MidDef
<1> HIDE DEF a
<1>7. a % (2 * TURN) \in 0 .. 2 * TURN - 1
  BY <1>5, MidIsHeading
<1>8. QED
  BY <1>6, <1>7 DEF a, x

\* The step along an axis of one interval.
Step(calls, share, k) == Travelled(calls, k) * share[MidHeading(calls, k)]

\* The way, in these words.
LEMMA WayDef ==
    \A calls, share, S : Way(calls, share, S) = SumFunctionOnSet([k \in S |-> Step(calls, share, k)], S)
BY DEF Way, Step

\* The step of an earlier interval stays what it was.
LEMMA StepKept ==
    ASSUME NEW old \in Calls(Twist), NEW new \in Calls(Twist), NEW d \in Nat, NEW r \in Twist, NEW motion,
           Follows(new, old, d, r, motion), NEW share \in [0 .. 2 * TURN - 1 -> Int], NEW k \in Known(old)
    PROVE  Step(new, share, k) = Step(old, share, k) /\ Step(old, share, k) \in Int
<1>1. OfCalls(Known(old), old)
  BY KnownGrow
<1>2. MidHeading(new, k) = MidHeading(old, k) /\ MidHeading(old, k) \in 0 .. 2 * TURN - 1
  BY MidKept
<1>3. Travelled(new, k) = Travelled(old, k)
  BY <1>1, TurnedKept
<1>4. Travelled(old, k) \in Int
  <2>1. k \in 1 .. Len(old) /\ k - 1 \in 1 .. Len(old)
    BY <1>1, CallsLength DEF OfCalls
  <2>2. QED
    BY <2>1, TurnedInt
<1> DEFINE a == Travelled(old, k)
           b == share[MidHeading(old, k)]
<1>5. a \in Int /\ b \in Int
  BY <1>2, <1>4
<1>6. Step(new, share, k) = a * b /\ Step(old, share, k) = a * b
  BY <1>2, <1>3 DEF Step
<1> HIDE DEF a, b
<1>7. QED
  BY <1>5, <1>6

\* So does the way along an axis.
LEMMA WayKept ==
    ASSUME NEW old \in Calls(Twist), NEW new \in Calls(Twist), NEW d \in Nat, NEW r \in Twist, NEW motion,
           Follows(new, old, d, r, motion), NEW share \in [0 .. 2 * TURN - 1 -> Int]
    PROVE  Way(new, share, Known(old)) = Way(old, share, Known(old))
<1>1. [k \in Known(old) |-> Step(new, share, k)] = [k \in Known(old) |-> Step(old, share, k)]
  BY StepKept
<1>2. QED
  BY <1>1, WayDef

\* One interval more adds its own step.
LEMMA WayGrows ==
    ASSUME NEW old \in Calls(Twist), NEW new \in Calls(Twist), NEW d \in Nat, NEW r \in Twist, NEW motion,
           Follows(new, old, d, r, motion), NEW share \in [0 .. 2 * TURN - 1 -> Int], Len(old) > 0
    PROVE  Way(new, share, Known(old) \cup {Len(old) + 1})
               = Way(old, share, Known(old)) + Step(new, share, Len(old) + 1)
<1> DEFINE x == Len(old) + 1
           S == Known(old)
           f == [k \in S |-> Step(old, share, k)]
           g == [k \in S \cup {x} |-> Step(new, share, k)]
<1>1. IsFiniteSet(S) /\ x \notin S
  <2>1. OfCalls(S, old)
    BY KnownGrow
  <2>2. QED
    BY <2>1, OfCallsFinite
<1>2. \A k \in S : f[k] \in Int /\ g[k] = f[k]
  <2> TAKE k \in S
  <2>1. Step(new, share, k) = Step(old, share, k) /\ Step(old, share, k) \in Int
    BY StepKept
  <2>2. QED
    BY <2>1
<1>3. g[x] = Step(new, share, x) /\ g[x] \in Int
  <2> DEFINE a == Travelled(new, x)
             b == share[MidHeading(new, x)]
  <2>1. a \in Int /\ b \in Int
    <3>1. a \in Int
      BY TurnedNew
    <3>2. MidHeading(new, x) \in 0 .. 2 * TURN - 1
      BY MidNew
    <3>3. QED
      BY <3>1, <3>2
  <2>2. g[x] = Step(new, share, x) /\ Step(new, share, x) = a * b
    BY DEF Step
  <2> HIDE DEF a, b, g
  <2>3. QED
    BY <2>1, <2>2
<1> HIDE DEF f, g, x, S
<1>4. SumFunctionOnSet(g, S \cup {x}) = SumFunctionOnSet(f, S) + g[x]
  BY <1>1, <1>2, <1>3, SumExtends
<1>5. QED
  BY <1>3, <1>4, WayDef DEF f, g, x, S

\* Headings that agree up to whole turns give the same middle of the same turn, and agree
\* after it.
LEMMA SameHeading ==
    ASSUME NEW yaw \in Int, NEW total \in Int, NEW turn \in Int, (yaw - total) % TURN = 0
    PROVE  /\ (2 * yaw + turn) % (2 * TURN) = (2 * total + turn) % (2 * TURN)
           /\ (Wrap(yaw + turn) - (total + turn)) % TURN = 0
<1> DEFINE q == (yaw - total) \div TURN
           a == yaw + turn
           p == a \div TURN
<1>1. TURN \in Nat \ {0} /\ 2 * TURN \in Nat \ {0} /\ yaw - total \in Int /\ a \in Int
  BY OdometryAssumption
<1>2. q \in Int /\ yaw - total = TURN * q
  <2> DEFINE e == yaw - total
             g == TURN * q
  <2>1. e \in Int /\ e % TURN = 0
    BY <1>1
  <2> HIDE DEF e
  <2>2. q \in Int /\ e = TURN * q + (e % TURN)
    <3>1. e \div TURN \in Int /\ e = TURN * (e \div TURN) + (e % TURN)
      BY <1>1, <2>1, DivMod
    <3>2. QED
      BY <3>1 DEF e
  <2> HIDE DEF q
  <2>3. g \in Int
    BY <1>1, <2>2
  <2>4. e = g + (e % TURN)
    BY <2>2
  <2> HIDE DEF g
  <2>5. e = g
    BY <2>1, <2>3, <2>4
  <2>6. QED
    BY <2>2, <2>5 DEF e, g
<1>3. p \in Int /\ a % TURN \in 0 .. TURN - 1 /\ a = TURN * p + (a % TURN)
  <2> HIDE DEF a
  <2>1. QED
    BY <1>1, DivMod
<1>4. (2 * yaw + turn) % (2 * TURN) = (2 * total + turn) % (2 * TURN)
  <2> DEFINE b == 2 * TURN
             c == 2 * total + turn
  <2>1. b \in Nat \ {0} /\ c \in Int
    BY <1>1
  <2>2. 2 * yaw + turn = c + q * b
    <3> HIDE DEF q
    <3>1. QED
      BY <1>1, <1>2
  <2> HIDE DEF b, c, q
  <2>3. (c + q * b) % b = c % b
    BY <1>2, <2>1, ModShift
  <2>4. QED
    BY <2>2, <2>3 DEF b, c
<1>5. (Wrap(a) - (total + turn)) % TURN = 0
  <2> DEFINE s == IF 2 * (a % TURN) > TURN THEN q - p - 1 ELSE q - p
             w == Wrap(a)
             r == a % TURN
  <2>1. w = IF 2 * r > TURN THEN r - TURN ELSE r
    BY DEF Wrap
  <2>2. a - (total + turn) = TURN * q
    <3> HIDE DEF q
    <3>1. QED
      BY <1>2
  <2>3. s \in Int
    BY <1>2, <1>3
  <2>4. w - (total + turn) = 0 + s * TURN
    <3> HIDE DEF p, q, w, r, a
    <3>1. a = TURN * p + r /\ r \in Int /\ a \in Int
      BY <1>1, <1>3 DEF r
    <3>2. CASE 2 * r > TURN
      <4>1. s = q - p - 1 /\ w = r - TURN
        BY <2>1, <3>2 DEF r
      <4> HIDE DEF s
      <4>2. QED
        BY <1>1, <1>2, <1>3, <2>2, <3>1, <4>1
    <3>3. CASE ~(2 * r > TURN)
      <4>1. s = q - p /\ w = r
        BY <2>1, <3>3 DEF r
      <4> HIDE DEF s
      <4>2. QED
        BY <1>1, <1>2, <1>3, <2>2, <3>1, <4>1
    <3>4. QED
      BY <3>2, <3>3
  <2> HIDE DEF s, w, r
  <2>5. (0 + s * TURN) % TURN = 0 % TURN
    <3> DEFINE c == 0
    <3>1. c \in Int
      OBVIOUS
    <3> HIDE DEF c
    <3>2. (c + s * TURN) % TURN = c % TURN
      BY <1>1, <2>3, <3>1, ModShift
    <3>3. QED
      BY <3>2 DEF c
  <2>6. 0 % TURN = 0
    BY <1>1
  <2>7. QED
    BY <2>4, <2>5, <2>6 DEF w
<1>6. QED
  BY <1>4, <1>5

\* Time ages one stamp of the pose, to a limit.
LEMMA OlderPose ==
    ASSUME NEW o \in OdometryType, NEW d \in Nat
    PROVE  LET q == OdometryOlder(o, d)
           IN  /\ q \in OdometryType
               /\ q.age = IF o.age + d < ODOM_MAX_DT + 1 THEN o.age + d ELSE ODOM_MAX_DT + 1
               /\ q.x = o.x /\ q.y = o.y /\ q.yaw = o.yaw /\ q.vx = o.vx /\ q.wz = o.wz
               /\ q.valid = o.valid /\ q.tracking = o.tracking
<1> DEFINE age == IF o.age + d < ODOM_MAX_DT + 1 THEN o.age + d ELSE ODOM_MAX_DT + 1
<1>1. age \in 0 .. ODOM_MAX_DT + 1
  BY OdometryAssumption DEF OdometryType
<1>2. OdometryOlder(o, d) = [o EXCEPT !.age = age]
  BY DEF OdometryOlder
<1> HIDE DEF age
<1>3. QED
  BY <1>1, <1>2 DEF OdometryType, age

\* The half of EstimatesInv that is about the pose.
PoseInv ==
    /\ pose \in OdometryType /\ twists \in Calls(Twist) /\ JustCalled(twists)
    /\ PoseRemembers
    /\ PoseIsTheSum

\* An odometry call.
PoseMeasured(d, t) ==
    /\ pose' = odometry_update(OdometryOlder(pose, d), t.vx, t.wz, t.valid)
    /\ twists' = Called(twists, d, t, moving)

\* The call closes an interval that may be integrated.
Moves(o) == o.tracking /\ o.age \in 1 .. ODOM_MAX_DT

\* Its turn, its way and the heading in its middle.
About(o, wz) == (o.wz + wz) * o.age

Ahead(o, vx) == (o.vx + vx) * o.age

Mid(o, wz) == (2 * o.yaw + About(o, wz)) % (2 * TURN)

\* What a valid call writes.
LEMMA UpdateFields ==
    ASSUME NEW o \in OdometryType, NEW vx \in Int, NEW wz \in Int
    PROVE  LET q == odometry_update(o, vx, wz, TRUE)
           IN  /\ q.tracking /\ q.age = 0 /\ q.vx = vx /\ q.wz = wz
               /\ Moves(o) =>
                      /\ q.x = o.x + Ahead(o, vx) * COS[Mid(o, wz)]
                      /\ q.y = o.y + Ahead(o, vx) * SIN[Mid(o, wz)]
                      /\ q.yaw = Wrap(o.yaw + About(o, wz))
               /\ ~Moves(o) => q.x = o.x /\ q.y = o.y /\ q.yaw = o.yaw
<1> DEFINE a == Advance(o, vx, wz)
           u == o.x + Ahead(o, vx) * COS[Mid(o, wz)]
           v == o.y + Ahead(o, vx) * SIN[Mid(o, wz)]
           w == Wrap(o.yaw + About(o, wz))
           moved == IF Moves(o) THEN a ELSE o
           q == odometry_update(o, vx, wz, TRUE)
<1>1. a = [o EXCEPT !.x = u, !.y = v, !.yaw = w]
  BY DEF Advance, Ahead, About, Mid
<1>2. q = [moved EXCEPT !.vx = vx, !.wz = wz, !.age = 0, !.valid = TRUE, !.tracking = TRUE]
  BY DEF odometry_update, Moves
<1>3. a \in OdometryType
  BY AdvanceType
<1> HIDE DEF u, v, w, a, q
<1>4. a.x = u /\ a.y = v /\ a.yaw = w
  BY <1>1 DEF OdometryType
<1>5. moved \in OdometryType
  BY <1>3
<1>6. /\ Moves(o) => moved.x = u /\ moved.y = v /\ moved.yaw = w
      /\ ~Moves(o) => moved.x = o.x /\ moved.y = o.y /\ moved.yaw = o.yaw
  BY <1>4
<1> HIDE DEF moved
<1>7. /\ q.tracking /\ q.age = 0 /\ q.vx = vx /\ q.wz = wz
      /\ q.x = moved.x /\ q.y = moved.y /\ q.yaw = moved.yaw
  BY <1>2, <1>5 DEF OdometryType
<1>8. /\ Moves(o) => q.x = u /\ q.y = v /\ q.yaw = w
      /\ ~Moves(o) => q.x = o.x /\ q.y = o.y /\ q.yaw = o.yaw
  BY <1>6, <1>7
<1>9. QED
  BY <1>7, <1>8 DEF q, u, v, w

\* The log after an odometry call follows the log before it.
LEMMA PoseFollows ==
    ASSUME PoseInv, moving \in BOOLEAN, NEW d \in Nat \ {0}, NEW t \in Twist, PoseMeasured(d, t)
    PROVE  /\ twists \in Calls(Twist) /\ twists' \in Calls(Twist) /\ JustCalled(twists')
           /\ Follows(twists', twists, d, t, moving)
           /\ Len(twists) \in Nat /\ Len(twists') = Len(twists) + 1 /\ d \in Nat
<1>1. twists \in Calls(Twist) /\ JustCalled(twists) /\ d \in Nat
  BY DEF PoseInv
<1>2. /\ twists' \in Calls(Twist) /\ JustCalled(twists')
      /\ Follows(twists', twists, d, t, moving)
  BY <1>1, CalledFollows DEF PoseMeasured
<1>3. QED
  BY <1>1, <1>2, CallsLength DEF Follows

\* A call that is not valid closes nothing: the pose stays.
LEMMA InvalidTwist ==
    ASSUME PoseInv, moving \in BOOLEAN, NEW d \in Nat \ {0}, NEW t \in Twist, PoseMeasured(d, t), ~t.valid
    PROVE  PoseInv'
<1> DEFINE o == OdometryOlder(pose, d)
<1>1. pose \in OdometryType /\ d \in Nat
  BY DEF PoseInv
<1>2. o \in OdometryType /\ o.x = pose.x /\ o.y = pose.y /\ o.yaw = pose.yaw
  BY <1>1, OlderPose
<1> HIDE DEF o
<1>3. pose' = [o EXCEPT !.valid = FALSE, !.tracking = FALSE]
  BY DEF PoseMeasured, odometry_update, o
<1>4. /\ pose' \in OdometryType /\ pose'.x = pose.x /\ pose'.y = pose.y /\ pose'.yaw = pose.yaw
      /\ ~pose'.tracking
  BY <1>2, <1>3 DEF OdometryType
<1>5. /\ twists \in Calls(Twist) /\ twists' \in Calls(Twist) /\ JustCalled(twists')
      /\ Follows(twists', twists, d, t, moving)
      /\ Len(twists) \in Nat /\ Len(twists') = Len(twists) + 1
  BY PoseFollows
<1>6. ~twists'[Len(twists')].r.valid
  BY <1>5 DEF Follows
<1>7. PoseRemembers'
  BY <1>4, <1>6 DEF PoseRemembers
<1>8. OfCalls(Known(twists), twists) /\ Known(twists') = Known(twists)
  <2>1. ~Joins(twists, d, t, ODOM_MAX_DT)
    BY DEF Joins
  <2>2. QED
    BY <1>1, <1>5, <2>1, KnownGrow
<1>9. /\ Way(twists', COS, Known(twists)) = Way(twists, COS, Known(twists))
      /\ Way(twists', SIN, Known(twists)) = Way(twists, SIN, Known(twists))
  BY <1>1, <1>5, WayKept, OdometryAssumption
<1>10. Turns(twists', Known(twists)) = Turns(twists, Known(twists))
  BY <1>5, <1>8, TurnsKept
<1>11. /\ pose.x = Way(twists, COS, Known(twists)) /\ pose.y = Way(twists, SIN, Known(twists))
       /\ pose.yaw \in Headings /\ (pose.yaw - Turns(twists, Known(twists))) % TURN = 0
  BY DEF PoseInv, PoseIsTheSum, Known
<1>12. PoseIsTheSum'
  BY <1>4, <1>8, <1>9, <1>10, <1>11 DEF PoseIsTheSum, Known
<1>13. QED
  BY <1>4, <1>5, <1>7, <1>12 DEF PoseInv

\* A valid call moves the pose by its interval, when the interval is known.
LEMMA ValidTwist ==
    ASSUME PoseInv, moving \in BOOLEAN, NEW d \in Nat \ {0}, NEW t \in Twist, PoseMeasured(d, t), t.valid
    PROVE  PoseInv'
<1> DEFINE o == OdometryOlder(pose, d)
           n == Len(twists)
           x == n + 1
           K == Known(twists)
           moves == Moves(o)
           mid == Mid(o, t.wz)
<1>1. pose \in OdometryType /\ d \in Nat /\ t.vx \in Int /\ t.wz \in Int /\ t.valid = TRUE
  BY DEF PoseInv, Twist
<1>2. /\ o \in OdometryType /\ o.x = pose.x /\ o.y = pose.y /\ o.yaw = pose.yaw
      /\ o.vx = pose.vx /\ o.wz = pose.wz /\ o.tracking = pose.tracking
      /\ o.age = IF pose.age + d < ODOM_MAX_DT + 1 THEN pose.age + d ELSE ODOM_MAX_DT + 1
  BY <1>1, OlderPose
<1>3. /\ twists \in Calls(Twist) /\ twists' \in Calls(Twist) /\ JustCalled(twists')
      /\ Follows(twists', twists, d, t, moving)
      /\ n \in Nat /\ Len(twists') = x
  BY PoseFollows
<1>4. /\ pose.tracking <=> n > 0 /\ twists[n].r.valid
      /\ pose.tracking => pose.age = 0 /\ pose.vx = twists[n].r.vx /\ pose.wz = twists[n].r.wz
  BY DEF PoseInv, PoseRemembers
<1>5. /\ pose.x = Way(twists, COS, K) /\ pose.y = Way(twists, SIN, K)
      /\ pose.yaw \in Headings /\ (pose.yaw - Turns(twists, K)) % TURN = 0
  BY DEF PoseInv, PoseIsTheSum, Known
<1>6. pose' = odometry_update(o, t.vx, t.wz, TRUE)
  BY <1>1 DEF PoseMeasured
<1> HIDE DEF o
<1>7. pose' \in OdometryType
  BY <1>1, <1>2, <1>6, UpdateType
<1>8. /\ pose'.tracking /\ pose'.age = 0 /\ pose'.vx = t.vx /\ pose'.wz = t.wz
      /\ moves => /\ pose'.x = o.x + Ahead(o, t.vx) * COS[mid]
                  /\ pose'.y = o.y + Ahead(o, t.vx) * SIN[mid]
                  /\ pose'.yaw = Wrap(o.yaw + About(o, t.wz))
      /\ ~moves => pose'.x = o.x /\ pose'.y = o.y /\ pose'.yaw = o.yaw
  <2> DEFINE q == odometry_update(o, t.vx, t.wz, TRUE)
  <2>1. q.tracking /\ q.age = 0
    BY <1>1, <1>2, UpdateFields
  <2>2. q.vx = t.vx /\ q.wz = t.wz
    BY <1>1, <1>2, UpdateFields
  <2>3. moves => q.x = o.x + Ahead(o, t.vx) * COS[mid]
    BY <1>1, <1>2, UpdateFields
  <2>4. moves => q.y = o.y + Ahead(o, t.vx) * SIN[mid]
    BY <1>1, <1>2, UpdateFields
  <2>5. moves => q.yaw = Wrap(o.yaw + About(o, t.wz))
    BY <1>1, <1>2, UpdateFields
  <2>6. ~moves => q.x = o.x /\ q.y = o.y /\ q.yaw = o.yaw
    BY <1>1, <1>2, UpdateFields
  <2> HIDE DEF q
  <2>7. QED
    BY <1>6, <2>1, <2>2, <2>3, <2>4, <2>5, <2>6 DEF q
<1>9. PoseRemembers'
  <2>1. twists'[x].r = t /\ x > 0
    BY <1>3 DEF Follows
  <2> HIDE DEF x
  <2>2. QED
    BY <1>1, <1>3, <1>8, <2>1 DEF PoseRemembers
<1>10. moves <=> Joins(twists, d, t, ODOM_MAX_DT)
  <2>1. ODOM_MAX_DT \in Nat
    BY OdometryAssumption
  <2>2. pose.tracking => o.age = IF d < ODOM_MAX_DT + 1 THEN d ELSE ODOM_MAX_DT + 1
    BY <1>1, <1>2, <1>4
  <2>3. pose.tracking => (o.age \in 1 .. ODOM_MAX_DT <=> d <= ODOM_MAX_DT)
    BY <2>1, <2>2
  <2>4. QED
    BY <1>1, <1>2, <1>4, <2>3 DEF Joins, Moves
<1>11. moves => o.age = d /\ Span(d) = d /\ n > 0
  <2>1. SUFFICES ASSUME moves PROVE o.age = d /\ Span(d) = d /\ n > 0
    OBVIOUS
  <2>2. d <= ODOM_MAX_DT /\ n > 0 /\ pose.age = 0
    BY <1>2, <1>4, <1>10, <2>1 DEF Joins, Moves
  <2>3. QED
    BY <1>1, <1>2, <2>2, TopsAreNat DEF Span
<1>12. /\ Way(twists', COS, K) = Way(twists, COS, K)
       /\ Way(twists', SIN, K) = Way(twists, SIN, K)
  BY <1>1, <1>3, WayKept, OdometryAssumption
<1>13. OfCalls(K, twists) /\ Turns(twists, K) \in Int
  <2>1. OfCalls(K, twists)
    BY <1>1, <1>3, KnownGrow
  <2>2. QED
    BY <1>3, <2>1, TurnsInt
<1> HIDE DEF K, moves
<1>14. CASE ~moves
  <2>1. Known(twists') = K
    BY <1>1, <1>3, <1>10, <1>14, KnownGrow DEF K
  <2>2. Turns(twists', K) = Turns(twists, K)
    BY <1>3, <1>13, TurnsKept
  <2>3. pose'.x = pose.x /\ pose'.y = pose.y /\ pose'.yaw = pose.yaw
    BY <1>2, <1>8, <1>14
  <2>4. PoseIsTheSum'
    BY <1>5, <1>12, <2>1, <2>2, <2>3 DEF PoseIsTheSum, Known
  <2>5. QED
    BY <1>3, <1>7, <1>9, <2>4 DEF PoseInv
<1>15. CASE moves
  <2> DEFINE turn == Turned(twists', x)
             way == Travelled(twists', x)
             total == Turns(twists, K)
  <2>1. n > 0 /\ o.age = d /\ Span(d) = d /\ o.vx = twists[n].r.vx /\ o.wz = twists[n].r.wz
    BY <1>2, <1>4, <1>11, <1>15 DEF moves, Moves
  <2>2. /\ turn = About(o, t.wz) /\ way = Ahead(o, t.vx)
        /\ turn \in Int /\ way \in Int
    BY <1>1, <1>3, <2>1, TurnedNew DEF About, Ahead
  <2>3. Known(twists') = K \cup {x}
    BY <1>1, <1>3, <1>10, <1>15, KnownGrow DEF K
  <2>4. MidHeading(twists', x) = (2 * total + turn) % (2 * TURN)
    BY <1>1, <1>3, <2>1, MidNew DEF K
  <2>5. Turns(twists', K \cup {x}) = total + turn
    BY <1>1, <1>3, <1>13, <2>1, TurnsGrow
  <2>6. ASSUME NEW share \in [0 .. 2 * TURN - 1 -> Int]
        PROVE  Way(twists', share, K \cup {x}) = Way(twists, share, K) + way * share[MidHeading(twists', x)]
    BY <1>1, <1>3, <2>1, WayGrows DEF K, Step
  <2> HIDE DEF turn, way, total, x
  <2>7. /\ (2 * pose.yaw + turn) % (2 * TURN) = (2 * total + turn) % (2 * TURN)
        /\ (Wrap(pose.yaw + turn) - (total + turn)) % TURN = 0
    <3>1. pose.yaw \in Int /\ total \in Int
      BY <1>5, <1>13 DEF Headings, total
    <3>2. QED
      BY <1>5, <2>2, <3>1, SameHeading DEF total
  <2>8. mid = MidHeading(twists', x)
    BY <1>2, <2>2, <2>4, <2>7 DEF Mid
  <2>9. /\ pose'.x = pose.x + way * COS[mid] /\ pose'.y = pose.y + way * SIN[mid]
        /\ pose'.yaw = Wrap(pose.yaw + turn)
    <3> HIDE DEF mid
    <3>1. /\ pose'.x = o.x + Ahead(o, t.vx) * COS[mid]
          /\ pose'.y = o.y + Ahead(o, t.vx) * SIN[mid]
          /\ pose'.yaw = Wrap(o.yaw + About(o, t.wz))
      BY <1>8, <1>15 DEF mid
    <3>2. QED
      BY <1>2, <2>2, <3>1
  <2>10. /\ pose'.x = Way(twists', COS, K \cup {x}) /\ pose'.y = Way(twists', SIN, K \cup {x})
         /\ (pose'.yaw - Turns(twists', K \cup {x})) % TURN = 0
    BY <1>5, <2>5, <2>6, <2>7, <2>8, <2>9, OdometryAssumption
  <2>11. pose'.yaw \in Headings
    BY <1>7 DEF OdometryType
  <2>12. PoseIsTheSum'
    BY <2>3, <2>10, <2>11 DEF PoseIsTheSum, Known
  <2>13. QED
    BY <1>3, <1>7, <1>9, <2>12 DEF PoseInv
<1>16. QED
  BY <1>14, <1>15

\* A measurement is begun on an empty log.
LEMMA MeasuredAfresh ==
    ASSUME readings' = <<>>, NEW body \in BOOLEAN, metrics' = calibration_metrics_begin(body)
    PROVE  MetricsInv'
<1>1. /\ metrics' \in MetricsType
      /\ metrics'.elapsed = 0 /\ metrics'.steady_s = 0 /\ metrics'.gaps = 0 /\ ~metrics'.previous_valid
      /\ \A c \in Channels : metrics'.total[c] = 0 /\ metrics'.steady[c] = 0
      /\ metrics'.active => metrics'.last = Never /\ metrics'.motion = Never /\ metrics'.response = Never
  BY BegunMetrics
<1>2. readings' \in Calls(Reading) /\ JustCalled(readings') /\ Len(readings') = 0
  BY EmptyLog
<1>3. TotalsAreOfIntervals' /\ SteadyIsSteady'
  BY <1>1, EmptyLog DEF TotalsAreOfIntervals, SteadyIsSteady
<1>4. GaplessIsComplete' /\ ResponseIsFirst'
  BY <1>1, EmptyLog DEF GaplessIsComplete, ResponseIsFirst
<1>5. MetricsRemember'
  <2>1. \A k \in 1 .. 0 : ~readings'[k].r.valid
    OBVIOUS
  <2>2. Moved(readings', 0) = {} /\ Reached(readings', metrics') = {}
    BY EmptyLog
  <2>3. QED
    BY <1>1, <1>2, <2>1, <2>2 DEF MetricsRemember
<1>6. QED
  BY <1>1, <1>2, <1>3, <1>4, <1>5 DEF MetricsInv

\* No call has turned or moved the robot.
LEMMA NoWay ==
    /\ \A share : Way(<<>>, share, {}) = 0
    /\ Turns(<<>>, {}) = 0 /\ 0 \in Headings /\ (0 - 0) % TURN = 0
<1>1. \A share : Way(<<>>, share, {}) = 0
  BY SumOfNone DEF Way
<1>2. Turns(<<>>, {}) = 0
  BY SumOfNone DEF Turns
<1>3. 0 \in Headings /\ (0 - 0) % TURN = 0
  BY OdometryAssumption DEF Headings
<1>4. QED
  BY <1>1, <1>2, <1>3

\* A pose that is reset is at the origin and closes no interval.
LEMMA AtRest ==
    ASSUME NEW o \in OdometryType
    PROVE  LET q == odometry_reset_pose(o)
           IN  q.x = 0 /\ q.y = 0 /\ q.yaw = 0 /\ ~q.tracking
BY DEF odometry_reset_pose, OdometryType

\* The pose before the first call is the sum over an empty log.
LEMMA InitialPose == pose = NoOdometry /\ twists = <<>> => PoseInv
<1> SUFFICES ASSUME pose = NoOdometry, twists = <<>> PROVE PoseInv
  OBVIOUS
<1>1. pose \in OdometryType /\ pose.x = 0 /\ pose.y = 0 /\ pose.yaw = 0 /\ ~pose.tracking
  BY NoOdometryType DEF NoOdometry
<1>2. twists \in Calls(Twist) /\ JustCalled(twists) /\ Len(twists) = 0
  BY EmptyLog
<1>3. PoseRemembers
  BY <1>1, <1>2 DEF PoseRemembers
<1>4. PoseIsTheSum
  BY <1>1, EmptyLog, NoWay DEF PoseIsTheSum
<1>5. QED
  BY <1>1, <1>2, <1>3, <1>4 DEF PoseInv

\* A reset of the pose, or a new geometry, begins an empty log.
LEMMA PoseAfresh ==
    ASSUME PoseInv, twists' = <<>>, pose' = odometry_reset_pose(pose) \/ pose' = NoOdometry
    PROVE  PoseInv'
<1>1. pose' \in OdometryType /\ pose'.x = 0 /\ pose'.y = 0 /\ pose'.yaw = 0 /\ ~pose'.tracking
  <2>1. pose \in OdometryType
    BY DEF PoseInv
  <2>2. CASE pose' = odometry_reset_pose(pose)
    BY <2>1, <2>2, ResetPoseType, AtRest
  <2>3. CASE pose' = NoOdometry
    BY <2>3, NoOdometryType DEF NoOdometry
  <2>4. QED
    BY <2>2, <2>3
<1>2. twists' \in Calls(Twist) /\ JustCalled(twists') /\ Len(twists') = 0
  BY EmptyLog
<1>3. PoseRemembers'
  BY <1>1, <1>2 DEF PoseRemembers
<1>4. PoseIsTheSum'
  BY <1>1, EmptyLog, NoWay DEF PoseIsTheSum
<1>5. QED
  BY <1>1, <1>2, <1>3, <1>4 DEF PoseInv

\* The invariant in two halves, which share no variable.
LEMMA Halves ==
    EstimatesInv <=> subject \in {"odometry", "metrics"} /\ moving \in BOOLEAN /\ MetricsInv /\ PoseInv
BY DEF EstimatesInv, EstimatesTypeOK, MetricsInv, PoseInv, Twist

\* The same after a step.
LEMMA HalvesAfter ==
    EstimatesInv' <=>
        subject' \in {"odometry", "metrics"} /\ moving' \in BOOLEAN /\ MetricsInv' /\ PoseInv'
BY DEF EstimatesInv, EstimatesTypeOK, MetricsInv, PoseInv, Twist

\* A step of the odometry leaves the measurement in step with its log.
LEMMA MetricsKept ==
    ASSUME MetricsInv, metrics' = metrics, readings' = readings
    PROVE  MetricsInv'
BY DEF MetricsInv, MetricsRemember, TotalsAreOfIntervals, SteadyIsSteady, GaplessIsComplete, ResponseIsFirst

\* A step of the measurement leaves the pose in step with its log.
LEMMA PoseKept ==
    ASSUME PoseInv, pose' = pose, twists' = twists
    PROVE  PoseInv'
BY DEF PoseInv, PoseRemembers, PoseIsTheSum

\* Every step keeps both integrators in step with their logs.
LEMMA EstimatesStep == EstimatesInv /\ [EstimatesNext]_estimateVars => EstimatesInv'
<1> SUFFICES ASSUME EstimatesInv, [EstimatesNext]_estimateVars PROVE EstimatesInv'
  OBVIOUS
<1>1. subject \in {"odometry", "metrics"} /\ moving \in BOOLEAN /\ MetricsInv /\ PoseInv
  BY Halves
<1> USE DEF EstimatesNext
<1>2. CASE \E d \in DELAYS, r \in READINGS : Sample(d, r)
  <2>1. PICK d \in DELAYS, r \in READINGS : Sample(d, r)
    BY <1>2
  <2>2. d \in Nat \ {0} /\ d \in Nat /\ r \in Reading
    BY EstimatesAssumption
  <2>3. MetricsInv'
    <3>1. CASE metrics.active
      <4>1. SampleTaken(d, r)
        BY <2>1, <3>1 DEF Sample, SampleTaken
      <4>2. QED
        BY <1>1, <2>2, <4>1, InvalidSample, ValidSample
    <3>2. CASE ~metrics.active
      <4>1. metrics' = calibration_metrics_observe(MetricsOlder(metrics, d), r, moving) /\ readings' = readings
        BY <2>1, <3>2 DEF Sample
      <4>2. QED
        BY <1>1, <2>2, <3>2, <4>1, InactiveSample
    <3>3. QED
      BY <3>1, <3>2
  <2>4. PoseInv' /\ subject' = subject /\ moving' = moving
    BY <1>1, <2>1, PoseKept DEF Sample
  <2>5. QED
    BY <1>1, <2>3, <2>4, HalvesAfter
<1>3. CASE \E body \in BOOLEAN : Measure(body)
  BY <1>1, <1>3, MeasuredAfresh, PoseKept, HalvesAfter DEF Measure
<1>4. CASE Drive
  BY <1>1, <1>4, MetricsKept, PoseKept, HalvesAfter DEF Drive
<1>5. CASE Stop
  <2>1. MetricsInv'
    BY <1>1, <1>5, StoppedMetrics
  <2>2. PoseInv' /\ subject' = subject /\ moving' \in BOOLEAN
    BY <1>1, <1>5, PoseKept DEF Stop
  <2>3. QED
    BY <1>1, <2>1, <2>2, HalvesAfter
<1>6. CASE \E d \in DELAYS, t \in REPORTS : Measured(d, t)
  <2>1. PICK d \in DELAYS, t \in REPORTS : Measured(d, t)
    BY <1>6
  <2>2. d \in Nat \ {0} /\ t \in Twist
    BY EstimatesAssumption DEF Twist
  <2>3. PoseMeasured(d, t)
    BY <2>1 DEF Measured, PoseMeasured
  <2>4. PoseInv'
    BY <1>1, <2>2, <2>3, InvalidTwist, ValidTwist
  <2>5. MetricsInv' /\ subject' = subject /\ moving' = moving
    BY <1>1, <2>1, MetricsKept DEF Measured
  <2>6. QED
    BY <1>1, <2>4, <2>5, HalvesAfter
<1>7. CASE ResetPose
  BY <1>1, <1>7, MetricsKept, PoseAfresh, HalvesAfter DEF ResetPose
<1>8. CASE NewGeometry
  BY <1>1, <1>8, MetricsKept, PoseAfresh, HalvesAfter DEF NewGeometry
<1>9. CASE UNCHANGED estimateVars
  BY <1>1, <1>9, MetricsKept, PoseKept, HalvesAfter DEF estimateVars
<1>10. QED
  BY <1>2, <1>3, <1>4, <1>5, <1>6, <1>7, <1>8, <1>9

\* Both integrators know of their calls what their logs do: for any readings and reports,
\* any delays between calls and any number of them, the records of calibration_metrics.c
\* and odometry.c hold the sums and flags that the calls since the last reset give.
THEOREM IntegratorsKnowTheirLogs == EstimatesSpec => []EstimatesInv
<1>1. EstimatesInit => EstimatesInv
  <2> SUFFICES ASSUME EstimatesInit PROVE EstimatesInv
    OBVIOUS
  <2>1. MetricsInv
    <3>1. readings = <<>> /\ metrics = NoMetrics /\ TRUE \in BOOLEAN
      BY DEF EstimatesInit
    <3>2. QED
      BY <3>1, FreshMetrics
  <2>2. PoseInv
    BY InitialPose DEF EstimatesInit
  <2>3. QED
    BY <2>1, <2>2, Halves DEF EstimatesInit
<1>2. QED
  BY <1>1, EstimatesStep, PTL DEF EstimatesSpec

\* A trial's areas and its time are those of the intervals between valid readings no more
\* than 50 ms apart; no gap is bridged (calibration_metrics_observe).
THEOREM TotalsOfATrial == EstimatesSpec => []TotalsAreOfIntervals
<1>1. EstimatesInv => TotalsAreOfIntervals
  BY DEF EstimatesInv
<1>2. QED
  BY <1>1, IntegratorsKnowTheirLogs, PTL

\* The sums that give k_icr are over intervals that are steady at both ends, two seconds or
\* more into the motion: both sums and their time cover the same intervals.
THEOREM SteadySumsOfATrial == EstimatesSpec => []SteadyIsSteady
<1>1. EstimatesInv => SteadyIsSteady
  BY DEF EstimatesInv
<1>2. QED
  BY <1>1, IntegratorsKnowTheirLogs, PTL

\* A trial counts no gap just when all of its samples were valid and close, which is what
\* trials.py accepts it for.
THEOREM CompleteTrials == EstimatesSpec => []GaplessIsComplete
<1>1. EstimatesInv => GaplessIsComplete
  BY DEF EstimatesInv
<1>2. QED
  BY <1>1, IntegratorsKnowTheirLogs, PTL

\* The response time of a trial is that of its first reading at 90 % of the request.
THEOREM ResponseOfATrial == EstimatesSpec => []ResponseIsFirst
<1>1. EstimatesInv => ResponseIsFirst
  BY DEF EstimatesInv
<1>2. QED
  BY <1>1, IntegratorsKnowTheirLogs, PTL

\* The pose is the sum of the known intervals since its reset, each along the heading in its
\* middle, however often the heading wrapped round in between (odometry_update).
THEOREM PoseOfTheWay == EstimatesSpec => []PoseIsTheSum
<1>1. EstimatesInv => PoseIsTheSum
  BY DEF EstimatesInv
<1>2. QED
  BY <1>1, IntegratorsKnowTheirLogs, PTL

-----------------------------------------------------------------------------
(* The loop of the ROS firmware (Publication). *)

\* The firmware starts in the invariant.
LEMMA InitInv == Init => IInv
<1> SUFFICES ASSUME Init PROVE IInv
  OBVIOUS
<1>1. /\ 0 \in 0 .. ODOM_MAX_DT + 1 /\ 0 \in 0 .. SAMPLE_PERIOD /\ 0 \in 0 .. ODOM_PERIOD
      /\ 0 \in 0 .. IMU_PERIOD /\ 0 \in 0 .. MAX_LOOP /\ RETRY \in 0 .. RETRY
  BY PublicationAssumption, OdometryAssumption
<1>2. gyro \in GyroType /\ ~gyro.calibrated /\ odom \in OdometryType
  BY GyroAges, NoOdometryType DEF Init
<1>3. TypeOK
  BY <1>1, <1>2 DEF Init, TypeOK
<1>4. QED
  BY <1>3 DEF Init, IInv, OdometryUnsent, ImuUnsent

\* The callbacks keep the invariant: a reset voids the odometry sample, a recalibration the
\* rate.
LEMMA CallbackInv ==
    ASSUME IInv, on_odom_reset \/ on_gyro_calibrate \/ on_time_sync \/ SpinDone
    PROVE  IInv'
<1> USE DEF IInv
<1>1. /\ UNCHANGED <<world, sensor_ready, retry_in, latest_valid, latest_age, imu_sent,
                     odom_sent, timers, due, loop_age>>
      /\ sent' = "none" /\ pc' \in {"spin", "sample"}
  BY DEF on_odom_reset, on_gyro_calibrate, on_time_sync, SpinDone, imuVars, odomVars
<1>2. gyro' \in GyroType /\ recalibrated' \in BOOLEAN /\ (recalibrated' => ~gyro'.calibrated)
  <2>1. CASE on_gyro_calibrate
    BY <2>1, GyroAges DEF on_gyro_calibrate
  <2>2. CASE on_odom_reset \/ on_time_sync \/ SpinDone
    BY <2>2 DEF on_odom_reset, on_time_sync, SpinDone, imuVars, TypeOK
  <2>3. QED
    BY <2>1, <2>2
<1>3. odom' \in OdometryType
  <2>1. CASE on_odom_reset
    BY <2>1, ResetPoseType DEF on_odom_reset, TypeOK
  <2>2. CASE on_gyro_calibrate \/ on_time_sync \/ SpinDone
    BY <2>2 DEF on_gyro_calibrate, on_time_sync, SpinDone, odomVars, TypeOK
  <2>3. QED
    BY <2>1, <2>2
<1>4. sync_age' \in {NoSync} \cup 0 .. SYNC_TOP
  <2>1. 0 \in 0 .. SYNC_TOP
    BY PublicationAssumption, OdometryAssumption DEF SYNC_TOP
  <2>2. QED
    BY <2>1 DEF on_odom_reset, on_gyro_calibrate, on_time_sync, SpinDone, TypeOK
<1>5. TypeOK'
  BY <1>1, <1>2, <1>3, <1>4 DEF TypeOK, world, timers
<1>6. OdometryUnsent' /\ ImuUnsent'
  BY <1>1 DEF OdometryUnsent, ImuUnsent, SampleFirst, timers
<1>7. QED
  BY <1>2, <1>5, <1>6

\* A countdown that a whole turn separates from the next sample outlives this turn.
LEMMA TurnToSpare ==
    ASSUME NEW to_message \in Nat, NEW to_sample \in Nat \ {0}, NEW longest \in Nat,
           NEW turn \in Nat, to_message >= to_sample + longest
    PROVE  to_message + turn > longest
OBVIOUS

\* Sampling keeps the invariant: a fresh sample is unsent and of the calibration in force.
LEMMA SampleInv ==
    ASSUME IInv, NotSampled \/ \E sample \in Samples, read \in BOOLEAN : sample_imu(sample, read)
    PROVE  IInv'
<1> USE DEF IInv
<1>1. CASE NotSampled
  <2>1. /\ UNCHANGED <<world, sensor_ready, retry_in, gyro, imuVars, odomVars, sync_age,
                       timers, due, loop_age>>
        /\ pc' = "odometry" /\ sent' = "none" /\ sample_in > 0
    BY <1>1 DEF NotSampled
  <2>2. TypeOK'
    BY <2>1 DEF TypeOK, world, timers, imuVars, odomVars
  <2>3. imu_sent => imu_in + loop_age > MAX_LOOP
    <3>1. imu_sent => imu_in >= sample_in + MAX_LOOP
      BY <2>1 DEF ImuUnsent, SampleFirst, TypeOK
    <3>2. imu_in \in Nat /\ sample_in \in Nat \ {0} /\ MAX_LOOP \in Nat /\ loop_age \in Nat
      BY <2>1, PublicationAssumption DEF TypeOK
    <3>3. QED
      BY <3>1, <3>2, TurnToSpare
  <2>4. QED
    BY <2>1, <2>2, <2>3 DEF OdometryUnsent, ImuUnsent, SampleFirst, timers, imuVars, odomVars
<1>2. ASSUME NEW sample \in Samples, NEW read \in BOOLEAN, sample_imu(sample, read)
      PROVE  IInv'
  <2>1. /\ UNCHANGED <<world, sensor_ready, retry_in, odomVars, sync_age, odom_in, imu_in, due,
                       loop_age>>
        /\ pc' = "odometry" /\ sent' = "none" /\ imu_sent' = FALSE /\ recalibrated' = FALSE
        /\ latest_age' = 0 /\ sample_in' = SAMPLE_PERIOD
    BY <1>2 DEF sample_imu
  <2>2. gyro' \in GyroType
    <3>1. sample.rate \in Int /\ (read /\ sample.quiet) \in BOOLEAN
      BY PublicationAssumption DEF Samples
    <3>2. PICK stationary \in BOOLEAN :
              gyro' = gyro_yaw_observe(gyro, sample.rate, read, stationary)
      BY <1>2, <3>1 DEF sample_imu
    <3>3. QED
      BY <3>1, <3>2, ObserveType DEF TypeOK
  <2>3. latest_valid' \in BOOLEAN
    <3>1. latest_valid' = (read /\ gyro'.calibrated /\ gyro'.sample_valid)
      BY <1>2 DEF sample_imu, YawRateKnown
    <3>2. QED
      BY <3>1
  <2>4. SAMPLE_PERIOD \in 0 .. SAMPLE_PERIOD /\ 0 \in 0 .. ODOM_MAX_DT + 1
    BY PublicationAssumption, OdometryAssumption
  <2>5. TypeOK'
    BY <2>1, <2>2, <2>3, <2>4 DEF TypeOK, world, odomVars
  <2>6. QED
    BY <2>1, <2>5 DEF OdometryUnsent, ImuUnsent
<1>3. QED
  BY <1>1, <1>2

\* The odometry keeps the invariant: without its inputs the last sample is void.
LEMMA OdometryInv ==
    ASSUME IInv, update_odometry
    PROVE  IInv'
<1> USE DEF IInv
<1>1. /\ UNCHANGED <<world, sensor_ready, retry_in, gyro, imuVars, sync_age, timers, due, loop_age>>
      /\ pc = "odometry" /\ pc' = "timers" /\ sent' = "none"
      /\ odom_sent' = (odom_sent /\ ~front)
  BY DEF update_odometry
<1>2. odom' \in OdometryType /\ odom'.valid = front
  <2>1. PICK t \in TWISTS : odom' = odometry_update(odom, t.vx, t.wz, front)
    BY DEF update_odometry
  <2>2. t.vx \in Int /\ t.wz \in Int
    BY PublicationAssumption
  <2>3. odom \in OdometryType /\ front \in BOOLEAN
    BY DEF TypeOK
  <2>4. QED
    BY <2>1, <2>2, <2>3, UpdateType
<1>3. odom_sent' \in BOOLEAN
  BY <1>1
<1>4. TypeOK'
  BY <1>1, <1>2, <1>3 DEF TypeOK, world, timers, imuVars
<1>5. OdometryUnsent'
  BY <1>1, <1>2 DEF OdometryUnsent
<1>6. QED
  BY <1>1, <1>4, <1>5 DEF ImuUnsent, SampleFirst, timers, imuVars

\* What the timers find due is unsent: the IMU's countdown cannot have run out before
\* the sample's, which was looked at in this very turn.
LEMMA TimersInv ==
    ASSUME IInv, Timers
    PROVE  IInv'
<1> USE DEF IInv
<1>1. /\ UNCHANGED <<world, sensor_ready, retry_in, gyro, imuVars, odomVars, sync_age,
                     sample_in, loop_age>>
      /\ pc = "timers" /\ pc' = "publish" /\ sent' = "none"
      /\ due' \subseteq {"odom", "imu"}
      /\ "imu" \in due' => imu_in = 0 /\ imu_in' = IMU_PERIOD
      /\ imu_in' = IF imu_in = 0 THEN IMU_PERIOD ELSE imu_in
      /\ odom_in' = IF odom_in = 0 THEN ODOM_PERIOD ELSE odom_in
  BY DEF Timers
<1>2. imu_in' \in 0 .. IMU_PERIOD /\ odom_in' \in 0 .. ODOM_PERIOD
  BY <1>1, PublicationAssumption DEF TypeOK
<1>3. TypeOK'
  BY <1>1, <1>2 DEF TypeOK, world, imuVars, odomVars
<1>4. OdometryUnsent'
  BY <1>1 DEF OdometryUnsent, odomVars
<1>5. imu_sent => imu_in # 0
  BY <1>1, PublicationAssumption DEF ImuUnsent, TypeOK
<1>6. imu_sent => SampleFirst'
  BY <1>1, <1>5 DEF ImuUnsent, SampleFirst
<1>7. "imu" \in due' => SampleFirst'
  <2>1. IMU_PERIOD >= sample_in + MAX_LOOP
    BY PublicationAssumption DEF TypeOK
  <2>2. QED
    BY <1>1, <2>1 DEF SampleFirst
<1>8. ImuUnsent'
  BY <1>1, <1>5, <1>6, <1>7 DEF ImuUnsent, imuVars
<1>9. QED
  BY <1>1, <1>3, <1>4, <1>8 DEF imuVars

\* Publishing keeps the invariant: what was due is no longer.
LEMMA PublishInv ==
    ASSUME IInv, publish_odometry \/ publish_imu \/ Published
    PROVE  IInv'
<1> USE DEF IInv
<1>1. /\ UNCHANGED <<world, sensor_ready, retry_in, gyro, latest_valid, latest_age,
                     recalibrated, odom, sync_age, timers, loop_age>>
      /\ pc = "publish" /\ pc' \in {"publish", "retry"} /\ due' \subseteq due
      /\ sent' \in {"none", "odom", "imu"} /\ odom_sent' \in BOOLEAN /\ imu_sent' \in BOOLEAN
      /\ "odom" \in due' => odom_sent' = odom_sent
      /\ imu_sent' => imu_sent \/ "imu" \in due
      /\ "imu" \in due' => imu_sent' = imu_sent
  <2>0. odom_sent \in BOOLEAN /\ imu_sent \in BOOLEAN
    BY DEF TypeOK
  <2>1. CASE publish_odometry
    BY <2>0, <2>1 DEF publish_odometry, imuVars
  <2>2. CASE publish_imu
    BY <2>0, <2>2 DEF publish_imu, odomVars
  <2>3. CASE Published
    BY <2>0, <2>3 DEF Published, imuVars, odomVars
  <2>4. QED
    BY <2>1, <2>2, <2>3
<1>2. TypeOK'
  BY <1>1 DEF TypeOK, world, timers
<1>3. OdometryUnsent' /\ ImuUnsent'
  BY <1>1 DEF OdometryUnsent, ImuUnsent, SampleFirst, timers
<1>4. QED
  BY <1>1, <1>2, <1>3

\* The retry and the world keep it.
LEMMA RestInv ==
    ASSUME IInv, Change \/ \E ok \in BOOLEAN : imu_update(ok)
    PROVE  IInv'
<1> USE DEF IInv
<1>1. /\ UNCHANGED <<gyro, imuVars, odomVars, sync_age, timers, due>> /\ sent' = "none"
      /\ sensor' \in BOOLEAN /\ front' \in BOOLEAN /\ sensor_ready' \in BOOLEAN
      /\ retry_in' \in 0 .. RETRY
      /\ UNCHANGED <<pc, loop_age>> \/ (pc' = "spin" /\ loop_age' = 0)
  <2>1. RETRY \in 0 .. RETRY
    BY PublicationAssumption
  <2>2. QED
    BY <2>1 DEF Change, imu_update, world, TypeOK
<1>2. loop_age' \in 0 .. MAX_LOOP
  BY <1>1, PublicationAssumption DEF TypeOK
<1>3. TypeOK'
  BY <1>1, <1>2 DEF TypeOK, imuVars, odomVars, timers
<1>4. QED
  BY <1>1, <1>3 DEF OdometryUnsent, ImuUnsent, SampleFirst, imuVars, odomVars, timers

\* A tick keeps it: the countdowns run down together.
LEMMA TickInv ==
    ASSUME IInv, Tick
    PROVE  IInv'
<1> USE DEF IInv
<1>1. /\ UNCHANGED <<world, sensor_ready, latest_valid, imu_sent, recalibrated, odom_sent,
                     due, pc>>
      /\ sent' = "none" /\ loop_age < MAX_LOOP /\ loop_age' = loop_age + 1
  BY DEF Tick
<1>2. gyro' \in GyroType /\ gyro'.calibrated = gyro.calibrated
  BY GyroAges DEF Tick, TypeOK
<1>3. odom' \in OdometryType /\ odom'.valid = odom.valid
  BY OlderOdometryType DEF Tick, TypeOK
<1>4. latest_age' \in 0 .. ODOM_MAX_DT + 1
  BY OdometryAssumption DEF Tick, TypeOK, Older
<1>5. sync_age' \in {NoSync} \cup 0 .. SYNC_TOP
  BY PublicationAssumption, OdometryAssumption DEF Tick, TypeOK, Older, SYNC_TOP, NoSync
<1>6. /\ sample_in' \in 0 .. SAMPLE_PERIOD /\ odom_in' \in 0 .. ODOM_PERIOD
      /\ imu_in' \in 0 .. IMU_PERIOD /\ retry_in' \in 0 .. RETRY
      /\ loop_age' \in 0 .. MAX_LOOP
  BY <1>1, PublicationAssumption DEF Tick, TypeOK, Down
<1>7. TypeOK'
  BY <1>1, <1>2, <1>3, <1>4, <1>5, <1>6 DEF TypeOK, world
<1>8. OdometryUnsent'
  BY <1>1, <1>3 DEF OdometryUnsent
<1>9. SampleFirst => SampleFirst'
  BY PublicationAssumption DEF SampleFirst, Tick, TypeOK, Down
<1>10. imu_in + loop_age > MAX_LOOP => imu_in' + loop_age' > MAX_LOOP
  BY <1>1, PublicationAssumption DEF Tick, TypeOK, Down
<1>11. ImuUnsent'
  BY <1>1, <1>9, <1>10 DEF ImuUnsent
<1>12. QED
  BY <1>1, <1>2, <1>7, <1>8, <1>11

\* IInv is inductive.
LEMMA NextInv == IInv /\ [Next]_vars => IInv'
<1> SUFFICES ASSUME IInv, [Next]_vars PROVE IInv'
  OBVIOUS
<1>1. CASE on_odom_reset \/ on_gyro_calibrate \/ on_time_sync \/ SpinDone
  BY <1>1, CallbackInv
<1>2. CASE NotSampled \/ \E sample \in Samples, read \in BOOLEAN : sample_imu(sample, read)
  BY <1>2, SampleInv
<1>3. CASE update_odometry
  BY <1>3, OdometryInv
<1>4. CASE Timers
  BY <1>4, TimersInv
<1>5. CASE publish_odometry \/ publish_imu \/ Published
  BY <1>5, PublishInv
<1>6. CASE Change \/ \E ok \in BOOLEAN : imu_update(ok)
  BY <1>6, RestInv
<1>7. CASE Tick
  BY <1>7, TickInv
<1>8. CASE UNCHANGED vars
  BY <1>8 DEF vars, world, timers, imuVars, odomVars, IInv, TypeOK, OdometryUnsent, ImuUnsent,
              SampleFirst
<1>9. QED
  BY <1>1, <1>2, <1>3, <1>4, <1>5, <1>6, <1>7, <1>8 DEF Next

-----------------------------------------------------------------------------
(* What follows for its messages. *)

\* The invariant holds of every behaviour, with or without the loop's fairness.
THEOREM Invariance == Spec => []IInv
BY InitInv, NextInv, PTL DEF Spec

\* Every variable keeps its type; the heading stays in (-PI, PI] (odometry.c).
THEOREM TypeCorrect == Spec => []TypeOK
<1>1. IInv => TypeOK
  BY DEF IInv
<1>2. QED
  BY <1>1, Invariance, PTL

\* A step that publishes something is one of the two publishers.
LEMMA OnlyPublishersSend ==
    ASSUME Next, sent' # "none"
    PROVE  \/ publish_odometry /\ sent' = "odom"
           \/ publish_imu /\ sent' = "imu"
BY DEF Next, on_odom_reset, on_gyro_calibrate, on_time_sync, SpinDone, NotSampled, sample_imu,
       update_odometry, Timers, publish_odometry, publish_imu, Published, imu_update, Change, Tick

\* No sample is published twice (update_odometry, sample_imu and the due flags of ros_update).
THEOREM SentOnce == Spec => SamplesSentOnce
<1>1. ASSUME IInv, Next
      PROVE  (sent' = "imu" => ~imu_sent) /\ (sent' = "odom" => ~odom_sent)
  <2>1. sent' = "imu" => ~imu_sent
    BY <1>1, OnlyPublishersSend DEF publish_imu, IInv, ImuUnsent
  <2>2. sent' = "odom" => ~odom_sent
    BY <1>1, OnlyPublishersSend DEF publish_odometry, OdometryFit, IInv, OdometryUnsent
  <2>3. QED
    BY <2>1, <2>2
<1>2. IInv /\ [Next]_vars =>
          [/\ sent' = "imu" => ~imu_sent
           /\ sent' = "odom" => ~odom_sent]_vars
  BY <1>1
<1>3. QED
  BY <1>2, Invariance, PTL DEF Spec, SamplesSentOnce

\* No message carries a rate of a calibration that was discarded (publish_imu asks
\* wheels_yaw_rate again).
THEOREM RateOfThisCalibration == Spec => RateIsOfThisCalibration
<1>1. ASSUME IInv, Next, sent' = "imu"
      PROVE  ~recalibrated
  BY <1>1, OnlyPublishersSend DEF publish_imu, ImuFit, YawRateKnown, IInv
<1>2. IInv /\ [Next]_vars => [sent' = "imu" => ~recalibrated]_vars
  BY <1>1
<1>3. QED
  BY <1>2, Invariance, PTL DEF Spec, RateIsOfThisCalibration
=============================================================================
