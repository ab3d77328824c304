------------------------------ MODULE WalkProofs ------------------------------
(***************************************************************************)
(* What the walks and legs of WorldSession compute.  Posted and Follow run *)
(* a sequence by a recursive function; PostedRuns and FollowRuns turn each *)
(* into a trace of its steps, and SetInduction, from the well-foundedness  *)
(* of < on Nat, carries what every leg keeps over legs of any length.      *)
(***************************************************************************)
EXTENDS WorldSession, NaturalsInduction, WellFoundedInduction, TLAPS

LEMMA SetInduction ==
    ASSUME NEW T, 0 \in T, \A n \in Nat : n \in T => n + 1 \in T
    PROVE  Nat \subseteq T
  <1> DEFINE R == {p \in Nat \X Nat : p[1] < p[2]}
             U == {n \in Nat : n \notin T}
  <1>1. IsWellFoundedOn(R, Nat)
    <2>1. OpToRel(<, Nat) = R
      BY DEF OpToRel
    <2> QED BY <2>1, NatLessThanWellFounded
  <1>2. SUFFICES ASSUME U # {} PROVE FALSE
    OBVIOUS
  <1>3. PICK x \in U : \A y \in U : ~(<<y, x>> \in R)
    <2>1. U \subseteq Nat
      OBVIOUS
    <2> HIDE DEF R, U
    <2> QED BY <1>1, <1>2, <2>1, WFMin
  <1>4. x # 0 /\ x \in Nat
    OBVIOUS
  <1>5. x - 1 \in Nat /\ (x - 1) + 1 = x /\ x - 1 < x
    BY <1>4
  <1>6. x - 1 \notin U
    BY <1>3, <1>4, <1>5
  <1> QED
    BY <1>5, <1>6

-----------------------------------------------------------------------------
(* Events posted in turn. *)

\* g holds the outcomes of the events of a walk, one after another.
PostTrace(g, b, posts) ==
    /\ g[0] = [body |-> b, error |-> "none"]
    /\ \A i \in 1..Len(posts) : g[i] = Given(g[i - 1], posts[i])

LEMMA PostedRuns ==
    ASSUME NEW T, NEW b, NEW posts \in Seq(T)
    PROVE  \E g : PostTrace(g, b, posts) /\ g[Len(posts)] = Posted(b, posts)
  <1> DEFINE N == Len(posts)
             first == [body |-> b, error |-> "none"]
             Then(x, i) == Given(x, posts[i])
             Out(R, i) == {Given(r, posts[i]) : r \in R}
             Fix(s) == s = [i \in 0..N |-> IF i = 0 THEN {first} ELSE Out(s[i - 1], i)]
             Upto(n, g) == g[0] = first /\ \A i \in 1..n : g[i] = Then(g[i - 1], i)
  <1>0. N \in Nat
    OBVIOUS
  <1>a. \A x, i : Out({x}, i) = {Then(x, i)}
    OBVIOUS
  <1>b. \A g : Upto(N, g) => PostTrace(g, b, posts)
    BY DEF PostTrace, Then, N, first
  <1> HIDE DEF first, N, Then, Out
  <1>1. \E g : Upto(N, g)
    <2> DEFINE U == {n \in Nat : \E g : Upto(n, g)}
    <2>1. 0 \in U
      <3>1. Upto(0, [i \in {0} |-> first])
        OBVIOUS
      <3> QED BY <3>1
    <2>2. ASSUME NEW n \in Nat, n \in U PROVE n + 1 \in U
      <3>1. PICK g : Upto(n, g)
        BY <2>2
      <3> DEFINE f == [i \in 0..(n + 1) |-> IF i <= n THEN g[i] ELSE Then(g[n], n + 1)]
      <3>2. f[0] = first
        BY <3>1
      <3>3. ASSUME NEW i \in 1..(n + 1) PROVE f[i] = Then(f[i - 1], i)
        <4>1. CASE i <= n
          <5>1. f[i] = g[i] /\ f[i - 1] = g[i - 1] /\ i \in 1..n
            BY <4>1
          <5> QED BY <3>1, <5>1
        <4>2. CASE i = n + 1
          <5>1. f[i] = Then(g[n], n + 1) /\ f[i - 1] = g[n] /\ i - 1 = n
            BY <4>2
          <5> QED BY <4>2, <5>1
        <4> QED BY <4>1, <4>2
      <3>4. Upto(n + 1, f)
        BY <3>2, <3>3
      <3> HIDE DEF f, Upto
      <3> QED BY <3>4
    <2>3. Nat \subseteq U
      <3> HIDE DEF U
      <3> QED BY <2>1, <2>2, SetInduction
    <2> QED BY <1>0, <2>3
  <1>2. PICK g : Upto(N, g)
    BY <1>1
  <1>3. \E s : Fix(s)
    <2> DEFINE s == [i \in 0..N |-> {g[i]}]
               F == [i \in 0..N |-> IF i = 0 THEN {first} ELSE Out(s[i - 1], i)]
    <2>1. ASSUME NEW i \in 0..N PROVE s[i] = F[i]
      <3>1. CASE i = 0
        BY <1>0, <1>2, <3>1
      <3>2. CASE i # 0
        <4>1. i \in 1..N /\ i - 1 \in 0..N
          BY <1>0, <3>2
        <4>2. s[i] = {g[i]} /\ s[i - 1] = {g[i - 1]} /\ g[i] = Then(g[i - 1], i)
          BY <1>2, <4>1
        <4>3. F[i] = Out(s[i - 1], i)
          BY <3>2
        <4>4. Out({g[i - 1]}, i) = {Then(g[i - 1], i)}
          BY <1>a
        <4> HIDE DEF s, F
        <4> QED BY <4>2, <4>3, <4>4
      <3> QED BY <3>1, <3>2
    <2>2. s = F
      BY <2>1
    <2> QED BY <2>2
  <1>4. ASSUME NEW s, Fix(s) PROVE (CHOOSE r \in s[N] : TRUE) = g[N]
    <2> DEFINE U == {n \in Nat : n <= N => s[n] = {g[n]}}
    <2> DEFINE F == [i \in 0..N |-> IF i = 0 THEN {first} ELSE Out(s[i - 1], i)]
    <2>a. s = F
      BY <1>4
    <2>b. F[0] = {first} /\ \A i \in 1..N : F[i] = Out(s[i - 1], i)
      BY <1>0
    <2> HIDE DEF Fix, F
    <2>1. s[0] = {first} /\ \A i \in 1..N : s[i] = Out(s[i - 1], i)
      BY <2>a, <2>b
    <2>2. 0 \in U
      BY <1>2, <2>1
    <2>3. ASSUME NEW n \in Nat, n \in U PROVE n + 1 \in U
      <3>1. SUFFICES ASSUME n + 1 <= N PROVE s[n + 1] = {g[n + 1]}
        OBVIOUS
      <3>2. s[n] = {g[n]} /\ n + 1 \in 1..N /\ (n + 1) - 1 = n
        BY <1>0, <2>3, <3>1
      <3>3. s[n + 1] = Out({g[n]}, n + 1) /\ g[n + 1] = Then(g[n], n + 1)
        BY <1>2, <2>1, <3>2
      <3> QED BY <1>a, <3>3
    <2>4. Nat \subseteq U
      <3> HIDE DEF U
      <3> QED BY <2>2, <2>3, SetInduction
    <2>5. s[N] = {g[N]}
      BY <1>0, <2>4
    <2> QED BY <2>5
  <1> HIDE DEF Fix
  <1>5. Fix(CHOOSE s : Fix(s))
    BY <1>3
  <1>6. (CHOOSE r \in (CHOOSE s : Fix(s))[N] : TRUE) = g[N]
    BY <1>4, <1>5
  <1>7. Posted(b, posts) = g[N]
    BY <1>6 DEF Posted, Fix, Out, first, N, Then
  <1> QED BY <1>2, <1>7, <1>b DEF N

-----------------------------------------------------------------------------
(* Legs in turn. *)

\* A leg is walked unless one before it was refused.
Legged(w, leg) == IF w.error = "none" THEN Walked(w, leg) ELSE w

\* g holds the worlds that legs lead through.
LegTrace(g, w, legs) ==
    /\ g[0] = w
    /\ \A i \in 1..Len(legs) : g[i] = Legged(g[i - 1], legs[i])

LEMMA FollowRuns ==
    ASSUME NEW T, NEW w, NEW legs \in Seq(T)
    PROVE  \E g : LegTrace(g, w, legs) /\ g[Len(legs)] = Follow(w, legs)
  <1> DEFINE N == Len(legs)
             first == w
             Then(x, i) == IF x.error = "none" THEN Walked(x, legs[i]) ELSE x
             Out(R, i) == {IF r.error = "none" THEN Walked(r, legs[i]) ELSE r : r \in R}
             Fix(s) == s = [i \in 0..N |-> IF i = 0 THEN {first} ELSE Out(s[i - 1], i)]
             Upto(n, g) == g[0] = first /\ \A i \in 1..n : g[i] = Then(g[i - 1], i)
  <1>0. N \in Nat
    OBVIOUS
  <1>a. \A x, i : Out({x}, i) = {Then(x, i)}
    OBVIOUS
  <1>b. \A g : Upto(N, g) => LegTrace(g, w, legs)
    BY DEF LegTrace, Legged, Then, N, first
  <1> HIDE DEF first, N, Then, Out
  <1>1. \E g : Upto(N, g)
    <2> DEFINE U == {n \in Nat : \E g : Upto(n, g)}
    <2>1. 0 \in U
      <3>1. Upto(0, [i \in {0} |-> first])
        OBVIOUS
      <3> QED BY <3>1
    <2>2. ASSUME NEW n \in Nat, n \in U PROVE n + 1 \in U
      <3>1. PICK g : Upto(n, g)
        BY <2>2
      <3> DEFINE f == [i \in 0..(n + 1) |-> IF i <= n THEN g[i] ELSE Then(g[n], n + 1)]
      <3>2. f[0] = first
        BY <3>1
      <3>3. ASSUME NEW i \in 1..(n + 1) PROVE f[i] = Then(f[i - 1], i)
        <4>1. CASE i <= n
          <5>1. f[i] = g[i] /\ f[i - 1] = g[i - 1] /\ i \in 1..n
            BY <4>1
          <5> QED BY <3>1, <5>1
        <4>2. CASE i = n + 1
          <5>1. f[i] = Then(g[n], n + 1) /\ f[i - 1] = g[n] /\ i - 1 = n
            BY <4>2
          <5> QED BY <4>2, <5>1
        <4> QED BY <4>1, <4>2
      <3>4. Upto(n + 1, f)
        BY <3>2, <3>3
      <3> HIDE DEF f, Upto
      <3> QED BY <3>4
    <2>3. Nat \subseteq U
      <3> HIDE DEF U
      <3> QED BY <2>1, <2>2, SetInduction
    <2> QED BY <1>0, <2>3
  <1>2. PICK g : Upto(N, g)
    BY <1>1
  <1>3. \E s : Fix(s)
    <2> DEFINE s == [i \in 0..N |-> {g[i]}]
               F == [i \in 0..N |-> IF i = 0 THEN {first} ELSE Out(s[i - 1], i)]
    <2>1. ASSUME NEW i \in 0..N PROVE s[i] = F[i]
      <3>1. CASE i = 0
        BY <1>0, <1>2, <3>1
      <3>2. CASE i # 0
        <4>1. i \in 1..N /\ i - 1 \in 0..N
          BY <1>0, <3>2
        <4>2. s[i] = {g[i]} /\ s[i - 1] = {g[i - 1]} /\ g[i] = Then(g[i - 1], i)
          BY <1>2, <4>1
        <4>3. F[i] = Out(s[i - 1], i)
          BY <3>2
        <4>4. Out({g[i - 1]}, i) = {Then(g[i - 1], i)}
          BY <1>a
        <4> HIDE DEF s, F
        <4> QED BY <4>2, <4>3, <4>4
      <3> QED BY <3>1, <3>2
    <2>2. s = F
      BY <2>1
    <2> QED BY <2>2
  <1>4. ASSUME NEW s, Fix(s) PROVE (CHOOSE r \in s[N] : TRUE) = g[N]
    <2> DEFINE U == {n \in Nat : n <= N => s[n] = {g[n]}}
    <2> DEFINE F == [i \in 0..N |-> IF i = 0 THEN {first} ELSE Out(s[i - 1], i)]
    <2>a. s = F
      BY <1>4
    <2>b. F[0] = {first} /\ \A i \in 1..N : F[i] = Out(s[i - 1], i)
      BY <1>0
    <2> HIDE DEF Fix, F
    <2>1. s[0] = {first} /\ \A i \in 1..N : s[i] = Out(s[i - 1], i)
      BY <2>a, <2>b
    <2>2. 0 \in U
      BY <1>2, <2>1
    <2>3. ASSUME NEW n \in Nat, n \in U PROVE n + 1 \in U
      <3>1. SUFFICES ASSUME n + 1 <= N PROVE s[n + 1] = {g[n + 1]}
        OBVIOUS
      <3>2. s[n] = {g[n]} /\ n + 1 \in 1..N /\ (n + 1) - 1 = n
        BY <1>0, <2>3, <3>1
      <3>3. s[n + 1] = Out({g[n]}, n + 1) /\ g[n + 1] = Then(g[n], n + 1)
        BY <1>2, <2>1, <3>2
      <3> QED BY <1>a, <3>3
    <2>4. Nat \subseteq U
      <3> HIDE DEF U
      <3> QED BY <2>2, <2>3, SetInduction
    <2>5. s[N] = {g[N]}
      BY <1>0, <2>4
    <2> QED BY <2>5
  <1> HIDE DEF Fix
  <1>5. Fix(CHOOSE s : Fix(s))
    BY <1>3
  <1>6. (CHOOSE r \in (CHOOSE s : Fix(s))[N] : TRUE) = g[N]
    BY <1>4, <1>5
  <1>7. Follow(w, legs) = g[N]
    BY <1>6 DEF Follow, Fix, Out, first, N, Then
  <1> QED BY <1>2, <1>7, <1>b DEF N

-----------------------------------------------------------------------------
(* What a trace of events shows of a walk. *)

LEMMA Concat ==
    ASSUME NEW T, NEW a \in Seq(T), NEW b \in Seq(T)
    PROVE  /\ a \o b \in Seq(T)
           /\ Len(a) \in Nat /\ Len(b) \in Nat
           /\ Len(a \o b) = Len(a) + Len(b)
           /\ \A i \in 1..Len(a) : (a \o b)[i] = a[i]
           /\ \A i \in 1..Len(b) : (a \o b)[Len(a) + i] = b[i]
  OBVIOUS

\* What holds of a body and is kept by every event that is taken holds of the
\* body the walk leaves.
LEMMA PostedIn ==
    ASSUME NEW K, NEW T, NEW b \in K, NEW posts \in Seq(T),
           \A x \in K, e \in T : Admits(x, e) => Post(x, e) \in K
    PROVE  Posted(b, posts) \in [body : K, error : {"none", "Rejected"}]
  <1>1. PICK g : PostTrace(g, b, posts) /\ g[Len(posts)] = Posted(b, posts)
    BY PostedRuns
  <1> DEFINE R == [body : K, error : {"none", "Rejected"}]
             S == {n \in Nat : n <= Len(posts) => g[n] \in R}
  <1>2. Len(posts) \in Nat /\ \A i \in 1..Len(posts) : posts[i] \in T
    OBVIOUS
  <1>3. 0 \in S
    BY <1>1 DEF PostTrace
  <1>4. ASSUME NEW r \in R, NEW e \in T PROVE Given(r, e) \in R
    BY <1>4 DEF Given
  <1>5. ASSUME NEW n \in Nat, n \in S PROVE n + 1 \in S
    <2>1. SUFFICES ASSUME n + 1 <= Len(posts) PROVE g[n + 1] \in R
      OBVIOUS
    <2>2. n + 1 \in 1..Len(posts) /\ g[n] \in R /\ (n + 1) - 1 = n
      BY <1>2, <1>5, <2>1
    <2>3. g[n + 1] = Given(g[n], posts[n + 1])
      BY <1>1, <2>2 DEF PostTrace
    <2> HIDE DEF R
    <2> QED BY <1>2, <1>4, <2>2, <2>3
  <1>6. Nat \subseteq S
    <2> HIDE DEF S
    <2> QED BY <1>3, <1>5, SetInduction
  <1> QED BY <1>1, <1>2, <1>6

\* The outcome of the first events of a walk, and that of one more.
Fresh(b) == [body |-> b, error |-> "none"]

LEMMA PostedOne ==
    ASSUME NEW b, NEW e
    PROVE  Posted(b, <<e>>) = Given(Fresh(b), e)
  <1>1. <<e>> \in Seq({e}) /\ Len(<<e>>) = 1
    OBVIOUS
  <1>2. PICK g : PostTrace(g, b, <<e>>) /\ g[1] = Posted(b, <<e>>)
    BY <1>1, PostedRuns
  <1>3. g[1] = Given(g[0], <<e>>[1]) /\ g[0] = Fresh(b)
    BY <1>1, <1>2 DEF PostTrace, Fresh
  <1> QED BY <1>2, <1>3

LEMMA PostedTwo ==
    ASSUME NEW b, NEW e, NEW f
    PROVE  Posted(b, <<e, f>>) = Given(Given(Fresh(b), e), f)
  <1> DEFINE posts == <<e, f>>
  <1>1. posts \in Seq({e, f}) /\ Len(posts) = 2 /\ posts[1] = e /\ posts[2] = f
    OBVIOUS
  <1> HIDE DEF posts
  <1>2. PICK g : PostTrace(g, b, posts) /\ g[2] = Posted(b, posts)
    BY <1>1, PostedRuns
  <1>3. /\ g[0] = Fresh(b)
        /\ g[1] = Given(g[0], e)
        /\ g[2] = Given(g[1], f)
    BY <1>1, <1>2 DEF PostTrace, Fresh
  <1> QED BY <1>2, <1>3 DEF posts

LEMMA PostedFour ==
    ASSUME NEW b, NEW e1, NEW e2, NEW e3, NEW e4
    PROVE  Posted(b, <<e1, e2, e3, e4>>) = Given(Given(Given(Given(Fresh(b), e1), e2), e3), e4)
  <1> DEFINE posts == <<e1, e2, e3, e4>>
  <1>1. /\ posts \in Seq({e1, e2, e3, e4}) /\ Len(posts) = 4
        /\ posts[1] = e1 /\ posts[2] = e2 /\ posts[3] = e3 /\ posts[4] = e4
    OBVIOUS
  <1> HIDE DEF posts
  <1>2. PICK g : PostTrace(g, b, posts) /\ g[4] = Posted(b, posts)
    BY <1>1, PostedRuns
  <1>3. /\ g[0] = Fresh(b)
        /\ g[1] = Given(g[0], e1) /\ g[2] = Given(g[1], e2)
        /\ g[3] = Given(g[2], e3) /\ g[4] = Given(g[3], e4)
    BY <1>1, <1>2 DEF PostTrace, Fresh
  <1> QED BY <1>2, <1>3 DEF posts

LEMMA ArmPosts == Len(arm_and_enter) = 4 /\ arm_and_enter # <<"Disarm">>
  BY DEF arm_and_enter

LEMMA PostedSix ==
    ASSUME NEW b, NEW T, NEW posts \in Seq(T), Len(posts) = 6
    PROVE  Posted(b, posts) =
             Given(Given(Given(Given(Given(Given(Fresh(b), posts[1]), posts[2]), posts[3]),
               posts[4]), posts[5]), posts[6])
  <1>1. PICK g : PostTrace(g, b, posts) /\ g[6] = Posted(b, posts)
    BY PostedRuns
  <1>2. /\ g[0] = Fresh(b)
        /\ g[1] = Given(g[0], posts[1]) /\ g[2] = Given(g[1], posts[2])
        /\ g[3] = Given(g[2], posts[3]) /\ g[4] = Given(g[3], posts[4])
        /\ g[5] = Given(g[4], posts[5]) /\ g[6] = Given(g[5], posts[6])
    BY <1>1 DEF PostTrace, Fresh
  <1> QED BY <1>1, <1>2

-----------------------------------------------------------------------------
(* What a trace of legs shows of the worlds it leads through. *)

\* The legs lead from w to r.
Legs(w, legs, r) == \E g : LegTrace(g, w, legs) /\ g[Len(legs)] = r

LEMMA FollowLegs ==
    ASSUME NEW T, NEW w, NEW legs \in Seq(T)
    PROVE  Legs(w, legs, Follow(w, legs))
  BY FollowRuns DEF Legs

LEMMA LegsSplit ==
    ASSUME NEW T, NEW w, NEW r, NEW a \in Seq(T), NEW b \in Seq(T), Legs(w, a \o b, r)
    PROVE  \E m : Legs(w, a, m) /\ Legs(m, b, r)
  <1>1. PICK g : LegTrace(g, w, a \o b) /\ g[Len(a \o b)] = r
    BY DEF Legs
  <1>2. /\ Len(a) \in Nat /\ Len(b) \in Nat
        /\ Len(a \o b) = Len(a) + Len(b)
        /\ \A i \in 1..Len(a) : (a \o b)[i] = a[i]
        /\ \A i \in 1..Len(b) : (a \o b)[Len(a) + i] = b[i]
    BY Concat
  <1> DEFINE m == g[Len(a)]
             f == [i \in 0..Len(b) |-> g[Len(a) + i]]
  <1>3. LegTrace(g, w, a)
    BY <1>1, <1>2 DEF LegTrace
  <1>4. LegTrace(f, m, b)
    <2>1. f[0] = m
      BY <1>2
    <2>2. ASSUME NEW i \in 1..Len(b) PROVE f[i] = Legged(f[i - 1], b[i])
      <3>1. /\ f[i] = g[Len(a) + i] /\ f[i - 1] = g[Len(a) + i - 1]
            /\ Len(a) + i \in 1..Len(a \o b)
        BY <1>2
      <3>2. g[Len(a) + i] = Legged(g[Len(a) + i - 1], (a \o b)[Len(a) + i])
        BY <1>1, <3>1 DEF LegTrace
      <3> QED BY <1>2, <3>1, <3>2
    <2> HIDE DEF f, m
    <2> QED BY <2>1, <2>2 DEF LegTrace
  <1>5. f[Len(b)] = r
    BY <1>1, <1>2
  <1>6. Legs(w, a, m)
    BY <1>3 DEF Legs
  <1> HIDE DEF f
  <1>7. Legs(m, b, r)
    BY <1>4, <1>5 DEF Legs
  <1> QED BY <1>6, <1>7

LEMMA LegsNone ==
    ASSUME NEW w, NEW r, Legs(w, << >>, r)
    PROVE  r = w
  <1>1. PICK g : LegTrace(g, w, << >>) /\ g[0] = r
    BY DEF Legs
  <1> QED BY <1>1 DEF LegTrace

LEMMA LegsOne ==
    ASSUME NEW w, NEW r, NEW t, Legs(w, <<t>>, r)
    PROVE  r = Legged(w, t)
  <1>1. PICK g : LegTrace(g, w, <<t>>) /\ g[1] = r
    BY DEF Legs
  <1> QED BY <1>1 DEF LegTrace

\* What holds of a world and is kept by every leg holds of the last one.
LEMMA LegsIn ==
    ASSUME NEW W, NEW T, NEW w \in W, NEW legs \in Seq(T), NEW r, Legs(w, legs, r),
           \A x \in W, t \in T : x.error = "none" => Walked(x, t) \in W
    PROVE  r \in W
  <1>1. PICK g : LegTrace(g, w, legs) /\ g[Len(legs)] = r
    BY DEF Legs
  <1>2. Len(legs) \in Nat /\ \A i \in 1..Len(legs) : legs[i] \in T
    OBVIOUS
  <1> DEFINE S == {n \in Nat : n <= Len(legs) => g[n] \in W}
  <1>3. 0 \in S
    BY <1>1 DEF LegTrace
  <1>4. ASSUME NEW n \in Nat, n \in S PROVE n + 1 \in S
    <2>1. SUFFICES ASSUME n + 1 <= Len(legs) PROVE g[n + 1] \in W
      OBVIOUS
    <2>2. n + 1 \in 1..Len(legs) /\ g[n] \in W /\ (n + 1) - 1 = n
      BY <1>2, <1>4, <2>1
    <2>3. g[n + 1] = Legged(g[n], legs[n + 1])
      BY <1>1, <2>2 DEF LegTrace
    <2> QED BY <1>2, <2>2, <2>3 DEF Legged
  <1>5. Nat \subseteq S
    <2> HIDE DEF S
    <2> QED BY <1>3, <1>4, SetInduction
  <1> QED BY <1>1, <1>2, <1>5

-----------------------------------------------------------------------------
(* A fan of legs: at most one for each body.  When every walk of it is     *)
(* taken, each body comes out as its own walk leaves it.                   *)

\* A leg for the body id, if go has it, by its walk in walks.
Opt(go, walks, id) == IF id \in go THEN Leg(id, walks[id]) ELSE << >>

\* The world r is w after the walks of the bodies in done.
Fanned(C, w, walks, done, r) ==
    /\ r = [body |-> r.body, setpoint |-> r.setpoint, error |-> "none"]
    /\ r.body = [id \in C |-> IF id \in done THEN Attach(w.body[id], walks[id]).body
                                             ELSE w.body[id]]
    /\ r.setpoint = [id \in C |-> IF id \in done THEN walks[id].stages ELSE w.setpoint[id]]

LEMMA FanStep ==
    ASSUME NEW C, NEW w, NEW walks, NEW go, go \subseteq C, NEW done, NEW m, NEW r,
           Fanned(C, w, walks, done, m),
           NEW id, id \notin done, Legs(m, Opt(go, walks, id), r),
           id \in go => Attach(w.body[id], walks[id]).error = "none"
    PROVE  Fanned(C, w, walks, done \cup (go \cap {id}), r)
  <1>1. CASE id \notin go
    <2>1. r = m
      BY <1>1, LegsNone DEF Opt
    <2>2. done \cup (go \cap {id}) = done
      BY <1>1
    <2> QED BY <2>1, <2>2
  <1>2. CASE id \in go
    <2> DEFINE t == [id |-> id, walk |-> walks[id]]
               a == Attach(w.body[id], walks[id])
               D == done \cup (go \cap {id})
    <2>1. r = Legged(m, t)
      BY <1>2, LegsOne DEF Opt, Leg
    <2>2. m.error = "none" /\ m.body[id] = w.body[id]
      BY <1>2 DEF Fanned
    <2>3. r = [body |-> [m.body EXCEPT ![id] = a.body],
               setpoint |-> [m.setpoint EXCEPT ![id] = walks[id].stages],
               error |-> "none"]
      BY <1>2, <2>1, <2>2 DEF Legged, Walked
    <2> HIDE DEF a
    <2>4. r.body = [i \in C |-> IF i \in D THEN Attach(w.body[i], walks[i]).body
                                           ELSE w.body[i]]
      BY <1>2, <2>3 DEF Fanned, a
    <2>5. r.setpoint = [i \in C |-> IF i \in D THEN walks[i].stages ELSE w.setpoint[i]]
      BY <1>2, <2>3 DEF Fanned
    <2>6. r = [body |-> r.body, setpoint |-> r.setpoint, error |-> "none"]
      BY <2>3
    <2> QED BY <2>4, <2>5, <2>6 DEF Fanned
  <1> QED BY <1>1, <1>2

\* The legs of a fan, in the order of the slots.
LEMMA Fan ==
    ASSUME NEW C, NEW w, NEW walks, NEW go, go \subseteq C,
           go \subseteq {"drone", "rover", "skiff", "surveyor"},
           w.body = [id \in C |-> w.body[id]], w.setpoint = [id \in C |-> w.setpoint[id]],
           w = [body |-> w.body, setpoint |-> w.setpoint, error |-> "none"],
           \A id \in go : Attach(w.body[id], walks[id]).error = "none",
           NEW w1, Legs(w, Opt(go, walks, "drone"), w1),
           NEW w2, Legs(w1, Opt(go, walks, "rover"), w2),
           NEW w3, Legs(w2, Opt(go, walks, "skiff"), w3),
           NEW r, Legs(w3, Opt(go, walks, "surveyor"), r)
    PROVE  Fanned(C, w, walks, go, r)
  <1>1. Fanned(C, w, walks, {}, w)
    <2>1. w.body = [id \in C |-> IF id \in {} THEN Attach(w.body[id], walks[id]).body
                                              ELSE w.body[id]]
      OBVIOUS
    <2>2. w.setpoint = [id \in C |-> IF id \in {} THEN walks[id].stages ELSE w.setpoint[id]]
      OBVIOUS
    <2> QED BY <2>1, <2>2 DEF Fanned
  <1>2. Fanned(C, w, walks, {} \cup (go \cap {"drone"}), w1)
    BY <1>1, FanStep
  <1> DEFINE d1 == {} \cup (go \cap {"drone"})
             d2 == d1 \cup (go \cap {"rover"})
             d3 == d2 \cup (go \cap {"skiff"})
             d4 == d3 \cup (go \cap {"surveyor"})
  <1>a. "rover" \notin d1 /\ "skiff" \notin d2 /\ "surveyor" \notin d3 /\ d4 = go
    OBVIOUS
  <1> HIDE DEF d1, d2, d3, d4
  <1>3. Fanned(C, w, walks, d1, w1)
    BY <1>2 DEF d1
  <1>4. Fanned(C, w, walks, d2, w2)
    <2>1. Fanned(C, w, walks, d1 \cup (go \cap {"rover"}), w2)
      BY <1>3, <1>a, FanStep
    <2> QED BY <2>1 DEF d2
  <1>5. Fanned(C, w, walks, d3, w3)
    <2>1. Fanned(C, w, walks, d2 \cup (go \cap {"skiff"}), w3)
      BY <1>4, <1>a, FanStep
    <2> QED BY <2>1 DEF d3
  <1>6. Fanned(C, w, walks, d4, r)
    <2>1. Fanned(C, w, walks, d3 \cup (go \cap {"surveyor"}), r)
      BY <1>5, <1>a, FanStep
    <2> QED BY <2>1 DEF d4
  <1> QED BY <1>6, <1>a
-----------------------------------------------------------------------------
(* The states a walk leaves a kernel in.                                   *)

LEMMA Domains ==
    /\ Id = {"drone", "rover", "skiff", "surveyor"}
    /\ Domain("drone") = "aerial" /\ Domain("rover") = "ground"
    /\ Domain("skiff") = "marine" /\ Domain("surveyor") = "marine"
  <1>1. /\ Slots[1] = "drone" /\ Slots[2] = "rover"
        /\ Slots[3] = "skiff" /\ Slots[4] = "surveyor"
    BY DEF Slots
  <1>2. 1..4 = {1, 2, 3, 4}
    OBVIOUS
  <1> QED BY <1>1, <1>2 DEF Id, Domain

\* Who is armed on the ground is in offboard with motors on, as attach_offboard
\* leaves it: no walk ends between arming and that.
Flown ==
    {s \in Air!SafetyState :
       /\ Air!CheckInvariants(s)
       /\ s.phase \in Air!InFlight \cup {"Disconnected", "Ready", "Armed", "Failsafe", "Recovery"}
       /\ s.armed => s.phase \in Air!InFlight \cup {"Armed", "Failsafe"}
       /\ s.phase = "Armed" => s.offboard /\ s.actuators_enabled
       /\ s.phase = "Recovery" => s.failsafe}
Driven == {s \in Land!GroundState : s.phase = "Moving" => s.drive_enabled}
Sailed == {s \in Sea!MarineState : s.phase \in {"Underway", "StationKeep"} => s.thrust_enabled}

Sound(id) == CASE Domain(id) = "aerial" -> Flown
               [] Domain(id) = "ground" -> Driven
               [] Domain(id) = "marine" -> Sailed

Sane(id) == [id : {id}, safety : Sound(id), command : Setpoint]

\* The events of the walks, other than those of a takeoff, and those an
\* observer of the body may inject.
Calm(id) ==
    CASE Domain(id) = "aerial" ->
           {"HeartbeatFresh", "MissionCommand", "ReachedAltitude", "Land", "Touchdown",
            "Disarm", "Recover", "TriggerFailsafe", "Disconnect", "HeartbeatStale",
            "EstimatorInvalid", "ImuUnhealthy"}
      [] Domain(id) = "ground" -> Land!GroundEvent
      [] Domain(id) = "marine" -> Sea!MarineEvent

USE DEF Air!SafetyState, Air!Phase

LEMMA FlownStays ==
    ASSUME NEW s \in Flown, NEW e \in Calm("drone"), Air!Admits(s, e)
    PROVE  Air!After(s, e) \in Flown
  <1> USE DEF Flown, Air!CheckInvariants, Air!InFlight, Air!Admits
  <1>1. CASE e = "HeartbeatFresh"
    <2>1. Air!After(s, e) = [s EXCEPT !.offboard_heartbeat_fresh = TRUE]
      BY <1>1 DEF Air!After
    <2> QED
      BY <1>1, <2>1
  <1>2. CASE e = "MissionCommand"
    <2>1. Air!After(s, e) = s
      BY <1>2 DEF Air!After
    <2> QED
      BY <1>2, <2>1
  <1>3. CASE e = "ReachedAltitude"
    <2>1. Air!After(s, e) = [s EXCEPT !.phase = "Airborne"]
      BY <1>3 DEF Air!After
    <2> QED
      BY <1>3, <2>1 DEF Air!LegalIn
  <1>4. CASE e = "Land"
    <2>1. Air!After(s, e) = [s EXCEPT !.phase = "Landing"]
      BY <1>4 DEF Air!After
    <2> QED
      BY <1>4, <2>1 DEF Air!LegalIn
  <1>5. CASE e = "Touchdown"
    <2>1. Air!After(s, e) = [Air!Grounded(s, "Ready") EXCEPT !.failsafe = FALSE]
      BY <1>5 DEF Air!After
    <2> QED
      BY ZenonT(60), <1>5, <2>1 DEF Air!Grounded
  <1>6. CASE e = "Disarm"
    <2>1. Air!After(s, e) = Air!Grounded(s, IF s.failsafe THEN "Recovery" ELSE "Ready")
      BY <1>6 DEF Air!After
    <2> QED
      BY ZenonT(60), <1>6, <2>1 DEF Air!Grounded, Air!LegalIn
  <1>7. CASE e = "Recover"
    <2>1. Air!After(s, e) = [s EXCEPT !.failsafe = FALSE, !.phase = "Ready"]
      BY <1>7 DEF Air!After
    <2> QED
      BY ZenonT(60), <1>7, <2>1 DEF Air!LegalIn
  <1>8. CASE e = "TriggerFailsafe"
    <2>1. Air!After(s, e) = Air!EnterFailsafe(s)
      BY <1>8 DEF Air!After
    <2> QED
      BY ZenonT(60), <1>8, <2>1 DEF Air!EnterFailsafe
  <1>9. CASE e = "Disconnect"
    <2>1. Air!After(s, e) = [Air!Grounded(s, "Disconnected") EXCEPT !.failsafe = FALSE]
      BY <1>9 DEF Air!After
    <2> QED
      BY ZenonT(60), <1>9, <2>1 DEF Air!Grounded
  <1>10. CASE e = "HeartbeatStale"
    <2>1. Air!After(s, e) = Air!FailsafeIf(s.offboard, [s EXCEPT !.offboard_heartbeat_fresh = FALSE])
      BY <1>10 DEF Air!After
    <2> QED
      BY ZenonT(60), <1>10, <2>1 DEF Air!FailsafeIf, Air!EnterFailsafe
  <1>11. CASE e = "EstimatorInvalid"
    <2>1. Air!After(s, e) = [Air!FailsafeIf(s.armed, s) EXCEPT !.estimator_valid = FALSE]
      BY <1>11 DEF Air!After
    <2> QED
      BY ZenonT(60), <1>11, <2>1 DEF Air!FailsafeIf, Air!EnterFailsafe
  <1>12. CASE e = "ImuUnhealthy"
    <2>1. Air!After(s, e) = [Air!FailsafeIf(s.armed, s) EXCEPT !.imu_healthy = FALSE]
      BY <1>12 DEF Air!After
    <2> QED
      BY ZenonT(60), <1>12, <2>1 DEF Air!FailsafeIf, Air!EnterFailsafe
  <1>13. Domain("drone") = "aerial"
    BY Domains
  <1> HIDE DEF Flown, Air!Admits
  <1> QED
    BY ZenonT(60), <1>1, <1>2, <1>3, <1>4, <1>5, <1>6, <1>7, <1>8, <1>9, <1>10, <1>11, <1>12, <1>13 DEF Calm

LEMMA DrivenStays ==
    ASSUME NEW s \in Driven, NEW e \in Land!GroundEvent, Land!Admits(s, e)
    PROVE  Land!After(s, e) \in Driven
  BY DEF Driven, Land!GroundState, Land!GroundPhase, Land!ground_invariants, Land!Admits,
         Land!After, Land!GroundEvent, Land!stopped, Land!parked

LEMMA SailedStays ==
    ASSUME NEW s \in Sailed, NEW e \in Sea!MarineEvent, Sea!Admits(s, e)
    PROVE  Sea!After(s, e) \in Sailed
  BY DEF Sailed, Sea!MarineState, Sea!MarinePhase, Sea!marine_invariants, Sea!Admits,
         Sea!After, Sea!MarineEvent, Sea!docked, Sea!tripped

LEMMA SanePost ==
    ASSUME NEW id \in Id, NEW b \in Sane(id), NEW e \in Calm(id), Admits(b, e)
    PROVE  /\ Post(b, e) \in Sane(id)
           /\ Post(b, e).command \in {b.command, "none"}
           /\ Post(b, e).safety = After(b, e)
  <1>1. /\ b.id = id /\ b.safety \in Sound(id) /\ b.command \in Setpoint
        /\ b = [id |-> id, safety |-> b.safety, command |-> b.command]
    BY DEF Sane
  <1>2. After(b, e) \in Sound(id)
    <2>1. CASE id = "drone"
      <3>1. Air!Admits(b.safety, e) /\ b.safety \in Flown
        BY <1>1, <2>1, Domains DEF Admits, Sound
      <3>2. Air!After(b.safety, e) \in Flown
        BY <2>1, <3>1, FlownStays
      <3> QED BY <1>1, <2>1, <3>2, Domains DEF After, Sound
    <2>2. CASE id = "rover"
      <3>1. Land!Admits(b.safety, e) /\ b.safety \in Driven /\ e \in Land!GroundEvent
        BY <1>1, <2>2, Domains DEF Admits, Sound, Calm
      <3>2. Land!After(b.safety, e) \in Driven
        BY <2>2, <3>1, DrivenStays
      <3> QED BY <1>1, <2>2, <3>2, Domains DEF After, Sound
    <2>3. CASE id \in {"skiff", "surveyor"}
      <3>1. Sea!Admits(b.safety, e) /\ b.safety \in Sailed /\ e \in Sea!MarineEvent
        BY <1>1, <2>3, Domains DEF Admits, Sound, Calm
      <3>2. Sea!After(b.safety, e) \in Sailed
        BY <2>3, <3>1, SailedStays
      <3> QED BY <1>1, <2>3, <3>2, Domains DEF After, Sound
    <2> QED BY <2>1, <2>2, <2>3, Domains
  <1> DEFINE c == IF Cuts(b, e) THEN "none" ELSE b.command
  <1>3. Post(b, e) = [id |-> id, safety |-> After(b, e), command |-> c]
    <2> DEFINE n == After(b, e)
    <2>1. CASE Cuts(b, e)
      <3>1. Post(b, e) = [b EXCEPT !.safety = n, !.command = "none"] /\ c = "none"
        BY <2>1 DEF Post
      <3> HIDE DEF n, c
      <3>2. Post(b, e) = [id |-> id, safety |-> n, command |-> "none"]
        BY <1>1, <3>1
      <3> QED BY <3>1, <3>2 DEF n
    <2>2. CASE ~Cuts(b, e)
      <3>1. Post(b, e) = [b EXCEPT !.safety = n, !.command = b.command] /\ c = b.command
        BY <2>2 DEF Post
      <3> HIDE DEF n, c
      <3>2. Post(b, e) = [id |-> id, safety |-> n, command |-> b.command]
        BY <1>1, <3>1
      <3> QED BY <3>1, <3>2 DEF n
    <2> QED BY <2>1, <2>2
  <1>4. c \in Setpoint /\ c \in {b.command, "none"}
    BY <1>1 DEF Setpoint
  <1> HIDE DEF c
  <1>5. [id |-> id, safety |-> After(b, e), command |-> c] \in Sane(id)
    BY <1>2, <1>4 DEF Sane
  <1> QED BY <1>3, <1>4, <1>5

\* The phases a body may be typed in.
LEMMA SaneIs ==
    ASSUME NEW id \in Id, NEW b \in Sane(id)
    PROVE  /\ b.id = id /\ b.command \in Setpoint
           /\ b = [id |-> id, safety |-> b.safety, command |-> b.command]
           /\ id = "drone" => b.safety \in Flown
           /\ id = "rover" => b.safety \in Driven
           /\ id \in {"skiff", "surveyor"} => b.safety \in Sailed
  BY Domains DEF Sane, Sound
-----------------------------------------------------------------------------
(* What a walk leaves of the body it is taken with.                        *)

\* r is what the walk leaves of the body b, of slot id.
Left(id, b, walk, r) ==
    /\ r.body \in Sane(id)
    /\ r.error \in {"none", "Protocol", "Rejected"}
    /\ \/ r.body.command \in {b.command, "none"}
       \/ (r.body.command = "hold" /\ walk.stages = "hold" /\ r.error = "none")
    /\ Kind(b) \notin walk.from => r.body = b /\ r.error = "Protocol"

\* What Attach makes of the outcome of the events.
LEMMA LeftBySettling ==
    ASSUME NEW id \in Id, NEW b \in Sane(id), NEW walk,
           Posted(b, walk.posts) \in [body : {x \in Sane(id) : x.command \in {b.command, "none"}},
                                      error : {"none", "Rejected"}]
    PROVE  Left(id, b, walk, Attach(b, walk))
  <1> DEFINE r == Posted(b, walk.posts)
             a == Attach(b, walk)
  <1>1. CASE Kind(b) \notin walk.from
    <2>1. a = [body |-> b, error |-> "Protocol"]
      BY <1>1 DEF Attach
    <2> QED BY <2>1 DEF Left
  <1>2. CASE Kind(b) \in walk.from /\ walk.live /\ ~b.safety.offboard_heartbeat_fresh
    <2>1. a = [body |-> b, error |-> "Rejected"]
      BY <1>2 DEF Attach
    <2> QED BY <1>2, <2>1 DEF Left
  <1>3. CASE Kind(b) \in walk.from /\ ~(walk.live /\ ~b.safety.offboard_heartbeat_fresh)
    <2>1. a = IF r.error = "none" THEN [r EXCEPT !.body = Settled(r.body, walk)] ELSE r
      BY <1>3 DEF Attach
    <2>2. /\ r = [body |-> r.body, error |-> r.error] /\ r.error \in {"none", "Rejected"}
          /\ r.body \in Sane(id) /\ r.body.command \in {b.command, "none"}
      OBVIOUS
    <2> SUFFICES Left(id, b, walk, a)
      OBVIOUS
    <2> HIDE DEF r, a
    <2>3. CASE r.error = "none"
      <3> DEFINE x == r.body
                 s == Settled(x, walk)
      <3>1. x = [id |-> id, safety |-> x.safety, command |-> x.command]
        BY <2>2, SaneIs
      <3>2. \/ s \in {x, [x EXCEPT !.command = "none"]}
            \/ (walk.stages = "hold" /\ s = [x EXCEPT !.command = "hold"])
        BY DEF Settled
      <3>3. /\ [x EXCEPT !.command = "none"] \in Sane(id)
            /\ [x EXCEPT !.command = "none"].command = "none"
            /\ [x EXCEPT !.command = "hold"] \in Sane(id)
            /\ [x EXCEPT !.command = "hold"].command = "hold"
        BY <2>2 DEF Sane, Setpoint
      <3>4. a.body = s /\ a.error = "none"
        BY <2>1, <2>2, <2>3
      <3> HIDE DEF x, s
      <3>5. x \in Sane(id) /\ x.command \in {b.command, "none"}
        BY <2>2 DEF x
      <3> QED BY <1>3, <3>2, <3>3, <3>4, <3>5 DEF Left
    <2>4. CASE r.error # "none"
      <3>1. a = r
        BY <2>1, <2>4
      <3> QED BY <1>3, <2>2, <3>1 DEF Left
    <2> QED BY <2>3, <2>4
  <1> QED BY <1>1, <1>2, <1>3

LEMMA AttachCalm ==
    ASSUME NEW id \in Id, NEW b \in Sane(id), NEW walk, walk.posts \in Seq(Calm(id))
    PROVE  Left(id, b, walk, Attach(b, walk))
  <1> DEFINE K == {x \in Sane(id) : x.command \in {b.command, "none"}}
  <1>1. ASSUME NEW x \in K, NEW e \in Calm(id), Admits(x, e) PROVE Post(x, e) \in K
    <2>1. Post(x, e) \in Sane(id) /\ Post(x, e).command \in {x.command, "none"}
      BY <1>1, SanePost
    <2> QED BY <2>1
  <1>2. b \in K
    OBVIOUS
  <1> HIDE DEF K
  <1>3. Posted(b, walk.posts) \in [body : K, error : {"none", "Rejected"}]
    BY <1>1, <1>2, PostedIn
  <1> QED BY <1>3, LeftBySettling DEF K

\* An aerial body in state s that is commanded c, and an event it takes.
Flier(s, c) == [id |-> "drone", safety |-> s, command |-> c]

LEMMA GivenTaken ==
    ASSUME NEW b, NEW e, Admits(b, e)
    PROVE  Given(Fresh(b), e) = Fresh(Post(b, e))
  BY ZenonT(60) DEF Given, Fresh

LEMMA GivenAloft ==
    ASSUME NEW s, NEW c, NEW e, Air!Admits(s, e), ~Air!After(s, e).failsafe,
           e \notin {"Touchdown", "Recover", "Halt"}
    PROVE  Given(Fresh(Flier(s, c)), e) = Fresh(Flier(Air!After(s, e), c))
  <1> DEFINE b == Flier(s, c)
             n == Air!After(s, e)
  <1>1. b.id = "drone" /\ b.safety = s /\ b.command = c
    BY DEF Flier
  <1>2. Admits(b, e) /\ After(b, e) = n
    BY <1>1, Domains DEF Admits, After
  <1>3. ~Cuts(b, e)
    BY <1>1, <1>2, Domains DEF Cuts
  <1>4. Post(b, e) = [b EXCEPT !.safety = n, !.command = b.command]
    BY <1>2, <1>3 DEF Post
  <1>5. Post(b, e) = Flier(n, c)
    <2>1. b = [id |-> "drone", safety |-> s, command |-> c]
      BY DEF Flier
    <2> HIDE DEF n, b
    <2>2. Post(b, e) = [id |-> "drone", safety |-> n, command |-> c]
      BY <1>1, <1>4, <2>1
    <2> QED BY <2>2 DEF Flier
  <1>6. Given(Fresh(b), e) = Fresh(Post(b, e))
    BY <1>2, GivenTaken
  <1> HIDE DEF n, b
  <1>7. Given(Fresh(b), e) = Fresh(Flier(n, c))
    BY <1>5, <1>6
  <1> QED BY <1>7 DEF n, b

LEMMA GivenRefused ==
    ASSUME NEW r, r.error # "none", NEW e
    PROVE  Given(r, e) = r
  BY ZenonT(60) DEF Given

LEMMA GivenRejected ==
    ASSUME NEW r, r.error = "none", NEW e, ~Admits(r.body, e)
    PROVE  Given(r, e) = [r EXCEPT !.error = "Rejected"]
  BY DEF Given

\* The outcome of arming, and of taking off once armed.
Armed4(r) == Given(Given(Given(Given(r, "Arm"), "HeartbeatFresh"), "EnterOffboard"), "EnableActuators")
Climbed(r) == Given(Given(r, "Takeoff"), "EnableActuators")

\* Armed on the ground, with a heartbeat.
Armable(s) == s \in Flown /\ s.phase = "Armed" /\ s.offboard_heartbeat_fresh

\* A drone that Arm does not refuse is armed to the end; no other is touched.
LEMMA ArmGiven ==
    ASSUME NEW b \in Sane("drone"), b.safety.phase = "Ready"
    PROVE  \/ Armed4(Fresh(b)) = [body |-> b, error |-> "Rejected"]
           \/ \E x : Armable(x) /\ Armed4(Fresh(b)) = Fresh(Flier(x, b.command))
  <1> DEFINE s == b.safety
             c == b.command
  <1>0. "drone" \in Id
    BY Domains
  <1>1. b = Flier(s, c) /\ s \in Flown /\ c \in Setpoint
    BY <1>0, SaneIs DEF Flier
  <1> HIDE DEF s, c
  <1>2. CASE ~Air!Admits(s, "Arm")
    <2>1. ~Admits(b, "Arm")
      BY <1>1, <1>2, Domains DEF Admits, Flier
    <2>2. Fresh(b).error = "none" /\ Fresh(b).body = b
      BY DEF Fresh
    <2>3. Given(Fresh(b), "Arm") = [Fresh(b) EXCEPT !.error = "Rejected"]
      BY <2>1, <2>2, GivenRejected
    <2> DEFINE r == [body |-> b, error |-> "Rejected"]
    <2>4. Given(Fresh(b), "Arm") = r
      BY <2>3 DEF Fresh
    <2>5. \A e : Given(r, e) = r
      BY GivenRefused
    <2>6. Armed4(Fresh(b)) = r
      <3> HIDE DEF r
      <3>1. /\ Given(r, "HeartbeatFresh") = r /\ Given(r, "EnterOffboard") = r
            /\ Given(r, "EnableActuators") = r
        BY <2>5
      <3> QED BY <2>4, <3>1 DEF Armed4
    <2> QED BY <2>6
  <1>3. CASE Air!Admits(s, "Arm")
    <2> DEFINE s1 == [s EXCEPT !.armed = TRUE, !.phase = "Armed"]
               s2 == [s1 EXCEPT !.offboard_heartbeat_fresh = TRUE]
               s3 == [s2 EXCEPT !.offboard = TRUE]
               s4 == [s3 EXCEPT !.actuators_enabled = TRUE]
    <2> USE DEF Air!LegalIn, Air!InFlight, Air!NeedsSensors, Air!NeedsArmed, Air!Latched
    <2>0. /\ s \in Air!SafetyState /\ Air!CheckInvariants(s)
          /\ ~s.failsafe /\ s.imu_healthy /\ s.estimator_valid
      BY <1>1, <1>3 DEF Flown, Air!Admits, Air!CheckInvariants, s
    <2>1. Air!After(s, "Arm") = s1 /\ s1 \in Air!SafetyState /\ ~s1.failsafe
          /\ s1.armed /\ s1.phase = "Armed" /\ s1.imu_healthy /\ s1.estimator_valid
      BY <2>0 DEF Air!After
    <2> HIDE DEF s1
    <2>2. /\ Air!Admits(s1, "HeartbeatFresh") /\ Air!After(s1, "HeartbeatFresh") = s2
          /\ s2 \in Air!SafetyState /\ ~s2.failsafe /\ s2.armed /\ s2.phase = "Armed"
          /\ s2.offboard_heartbeat_fresh /\ s2.imu_healthy /\ s2.estimator_valid
      <3>1. Air!Admits(s1, "HeartbeatFresh")
        BY <2>1 DEF Air!Admits
      <3>2. Air!After(s1, "HeartbeatFresh") = s2
        BY DEF Air!After
      <3>3. s2 \in Air!SafetyState /\ ~s2.failsafe /\ s2.armed /\ s2.phase = "Armed"
            /\ s2.offboard_heartbeat_fresh /\ s2.imu_healthy /\ s2.estimator_valid
        BY <2>1
      <3> QED BY <3>1, <3>2, <3>3
    <2> HIDE DEF s2
    <2>3. /\ Air!Admits(s2, "EnterOffboard") /\ Air!After(s2, "EnterOffboard") = s3
          /\ s3 \in Air!SafetyState /\ ~s3.failsafe /\ s3.armed /\ s3.phase = "Armed"
          /\ s3.offboard_heartbeat_fresh /\ s3.imu_healthy /\ s3.estimator_valid /\ s3.offboard
      <3>1. Air!Admits(s2, "EnterOffboard")
        BY <2>2 DEF Air!Admits
      <3>2. Air!After(s2, "EnterOffboard") = s3
        BY DEF Air!After
      <3>3. s3 \in Air!SafetyState /\ ~s3.failsafe /\ s3.armed /\ s3.phase = "Armed"
            /\ s3.offboard_heartbeat_fresh /\ s3.imu_healthy /\ s3.estimator_valid /\ s3.offboard
        BY <2>2
      <3> QED BY <3>1, <3>2, <3>3
    <2> HIDE DEF s3
    <2>4. /\ Air!Admits(s3, "EnableActuators") /\ Air!After(s3, "EnableActuators") = s4
          /\ s4 \in Air!SafetyState /\ ~s4.failsafe /\ s4.armed /\ s4.phase = "Armed"
          /\ s4.offboard_heartbeat_fresh /\ s4.imu_healthy /\ s4.estimator_valid /\ s4.offboard
          /\ s4.actuators_enabled
      <3>1. Air!Admits(s3, "EnableActuators")
        BY <2>3 DEF Air!Admits
      <3>2. Air!After(s3, "EnableActuators") = s4
        BY DEF Air!After
      <3>3. s4 \in Air!SafetyState /\ ~s4.failsafe /\ s4.armed /\ s4.phase = "Armed"
            /\ s4.offboard_heartbeat_fresh /\ s4.imu_healthy /\ s4.estimator_valid /\ s4.offboard
            /\ s4.actuators_enabled
        BY <2>3
      <3> QED BY <3>1, <3>2, <3>3
    <2> HIDE DEF s4
    <2>5. Armable(s4)
      BY <2>4 DEF Armable, Flown, Air!CheckInvariants
    <2>6. Armed4(Fresh(b)) = Fresh(Flier(s4, c))
      <3>1. Given(Fresh(Flier(s, c)), "Arm") = Fresh(Flier(s1, c))
        BY <1>3, <2>1, GivenAloft
      <3>2. Given(Fresh(Flier(s1, c)), "HeartbeatFresh") = Fresh(Flier(s2, c))
        BY <2>2, GivenAloft
      <3>3. Given(Fresh(Flier(s2, c)), "EnterOffboard") = Fresh(Flier(s3, c))
        BY <2>3, GivenAloft
      <3>4. Given(Fresh(Flier(s3, c)), "EnableActuators") = Fresh(Flier(s4, c))
        BY <2>4, GivenAloft
      <3> QED BY <1>1, <3>1, <3>2, <3>3, <3>4 DEF Armed4
    <2> QED BY <2>5, <2>6 DEF c
  <1> QED BY <1>2, <1>3

\* Who is armed takes off.
LEMMA ClimbGiven ==
    ASSUME NEW x \in Flown, x.phase = "Armed", NEW c
    PROVE  \E y \in Flown : /\ y.phase = "Takeoff" /\ y.armed /\ ~y.failsafe
                            /\ Climbed(Fresh(Flier(x, c))) = Fresh(Flier(y, c))
  <1> DEFINE s5 == [x EXCEPT !.actuators_enabled = TRUE, !.phase = "Takeoff"]
             s6 == [s5 EXCEPT !.actuators_enabled = TRUE]
  <1> USE DEF Air!LegalIn, Air!InFlight, Air!NeedsSensors, Air!NeedsArmed, Air!Latched
  <1>0. /\ x \in Air!SafetyState /\ ~x.failsafe /\ x.armed
        /\ x.imu_healthy /\ x.estimator_valid
    BY DEF Flown, Air!CheckInvariants
  <1>1. /\ Air!Admits(x, "Takeoff") /\ Air!After(x, "Takeoff") = s5
        /\ s5 \in Air!SafetyState /\ ~s5.failsafe /\ s5.armed /\ s5.phase = "Takeoff"
        /\ s5.actuators_enabled /\ s5.imu_healthy /\ s5.estimator_valid
    <2>1. Air!Admits(x, "Takeoff")
      BY <1>0 DEF Air!Admits
    <2>2. Air!After(x, "Takeoff") = s5
      BY DEF Air!After
    <2>3. s5 \in Air!SafetyState /\ ~s5.failsafe /\ s5.armed /\ s5.phase = "Takeoff"
          /\ s5.actuators_enabled /\ s5.imu_healthy /\ s5.estimator_valid
      BY <1>0
    <2> QED BY <2>1, <2>2, <2>3
  <1> HIDE DEF s5
  <1>2. /\ Air!Admits(s5, "EnableActuators") /\ Air!After(s5, "EnableActuators") = s6
        /\ s6 \in Air!SafetyState /\ ~s6.failsafe /\ s6.armed /\ s6.phase = "Takeoff"
        /\ s6.actuators_enabled /\ s6.imu_healthy /\ s6.estimator_valid
    <2>1. Air!Admits(s5, "EnableActuators")
      BY <1>1 DEF Air!Admits
    <2>2. Air!After(s5, "EnableActuators") = s6
      BY DEF Air!After
    <2>3. s6 \in Air!SafetyState /\ ~s6.failsafe /\ s6.armed /\ s6.phase = "Takeoff"
          /\ s6.actuators_enabled /\ s6.imu_healthy /\ s6.estimator_valid
      BY <1>1
    <2> QED BY <2>1, <2>2, <2>3
  <1> HIDE DEF s6
  <1>3. s6 \in Flown
    BY <1>2 DEF Flown, Air!CheckInvariants
  <1>4. Given(Fresh(Flier(x, c)), "Takeoff") = Fresh(Flier(s5, c))
    BY <1>1, GivenAloft
  <1>5. Given(Fresh(Flier(s5, c)), "EnableActuators") = Fresh(Flier(s6, c))
    BY <1>2, GivenAloft
  <1> QED BY <1>2, <1>3, <1>4, <1>5 DEF Climbed

\* The drone that a state and a command make.
LEMMA AloftIs ==
    ASSUME NEW x \in Flown, NEW c \in Setpoint
    PROVE  /\ Flier(x, c) \in Sane("drone") /\ Flier(x, c).command = c
           /\ Flier(x, c).safety = x /\ Flier(x, c).id = "drone"
  BY Domains DEF Flier, Sane, Sound

\* The events of a takeoff from the ground: armed, and taken off.
LEMMA TakeoffRuns ==
    ASSUME NEW b
    PROVE  Posted(b, attach_takeoff.posts) = Climbed(Armed4(Fresh(b)))
  <1> DEFINE posts == attach_takeoff.posts
             V == {"Arm", "HeartbeatFresh", "EnterOffboard", "EnableActuators", "Takeoff"}
  <1>1. /\ posts \in Seq(V) /\ Len(posts) = 6
        /\ posts[1] = "Arm" /\ posts[2] = "HeartbeatFresh" /\ posts[3] = "EnterOffboard"
        /\ posts[4] = "EnableActuators" /\ posts[5] = "Takeoff" /\ posts[6] = "EnableActuators"
    <2> DEFINE first == <<"Arm", "HeartbeatFresh", "EnterOffboard", "EnableActuators">>
               rest == <<"Takeoff", "EnableActuators">>
    <2>1. posts = first \o rest
      BY DEF attach_takeoff, arm_and_enter, Walk
    <2>2. /\ first \in Seq(V) /\ Len(first) = 4 /\ rest \in Seq(V) /\ Len(rest) = 2
          /\ first[1] = "Arm" /\ first[2] = "HeartbeatFresh" /\ first[3] = "EnterOffboard"
          /\ first[4] = "EnableActuators" /\ rest[1] = "Takeoff" /\ rest[2] = "EnableActuators"
      OBVIOUS
    <2> HIDE DEF posts, first, rest, V
    <2>3. /\ first \o rest \in Seq(V) /\ Len(first \o rest) = 6
          /\ \A i \in 1..Len(first) : (first \o rest)[i] = first[i]
          /\ \A i \in 1..Len(rest) : (first \o rest)[Len(first) + i] = rest[i]
      <3>1. first \in Seq(V) /\ rest \in Seq(V) /\ Len(first) + Len(rest) = 6
        BY <2>2
      <3> QED BY <3>1, Concat
    <2>4. /\ (first \o rest)[1] = first[1] /\ (first \o rest)[2] = first[2]
          /\ (first \o rest)[3] = first[3] /\ (first \o rest)[4] = first[4]
          /\ (first \o rest)[4 + 1] = rest[1] /\ (first \o rest)[4 + 2] = rest[2]
      BY <2>2, <2>3
    <2> QED BY <2>1, <2>2, <2>3, <2>4
  <1> HIDE DEF posts, V
  <1>2. Posted(b, posts) = Climbed(Armed4(Fresh(b)))
    <2>1. Posted(b, posts) =
             Given(Given(Given(Given(Given(Given(Fresh(b), posts[1]), posts[2]), posts[3]),
               posts[4]), posts[5]), posts[6])
      BY <1>1, PostedSix
    <2> QED BY <1>1, <2>1 DEF Climbed, Armed4
  <1> QED BY <1>2 DEF posts

\* A ready drone whose sensors are well takes off; no other body is armed.
LEMMA TakeoffPosted ==
    ASSUME NEW b \in Sane("drone"), b.safety.phase = "Ready"
    PROVE  Posted(b, attach_takeoff.posts)
             \in [body : {x \in Sane("drone") : x.command \in {b.command, "none"}},
                  error : {"none", "Rejected"}]
  <1> DEFINE posts == attach_takeoff.posts
  <1> HIDE DEF posts
  <1>2. Posted(b, posts) = Climbed(Armed4(Fresh(b)))
    BY TakeoffRuns DEF posts
  <1>3. "drone" \in Id /\ b.command \in Setpoint
    BY Domains, SaneIs
  <1>4. CASE Armed4(Fresh(b)) = [body |-> b, error |-> "Rejected"]
    <2> DEFINE r == [body |-> b, error |-> "Rejected"]
    <2>1. \A e : Given(r, e) = r
      BY GivenRefused
    <2>2. r \in [body : {x \in Sane("drone") : x.command \in {b.command, "none"}},
                 error : {"none", "Rejected"}]
      OBVIOUS
    <2>3. Armed4(Fresh(b)) = r
      BY <1>4
    <2> HIDE DEF r
    <2>4. Given(r, "Takeoff") = r /\ Given(r, "EnableActuators") = r
      BY <2>1
    <2>5. Climbed(r) = r
      BY <2>4 DEF Climbed
    <2> QED BY <1>2, <2>2, <2>3, <2>5 DEF posts
  <1>5. CASE \E x : Armable(x) /\ Armed4(Fresh(b)) = Fresh(Flier(x, b.command))
    <2>1. PICK x : Armable(x) /\ Armed4(Fresh(b)) = Fresh(Flier(x, b.command))
      BY <1>5
    <2>2. PICK y \in Flown : Climbed(Fresh(Flier(x, b.command))) = Fresh(Flier(y, b.command))
      BY <2>1, ClimbGiven DEF Armable
    <2>3. Posted(b, posts) = Fresh(Flier(y, b.command))
      BY <1>2, <2>1, <2>2
    <2>4. Flier(y, b.command) \in Sane("drone") /\ Flier(y, b.command).command = b.command
      BY <1>3, AloftIs
    <2> QED BY <2>3, <2>4 DEF Fresh, posts
  <1> QED BY <1>4, <1>5, ArmGiven

LEMMA AttachTakeoff ==
    ASSUME NEW b \in Sane("drone")
    PROVE  Left("drone", b, attach_takeoff, Attach(b, attach_takeoff))
  <1>0. "drone" \in Id /\ b.id = "drone" /\ b.safety \in Flown
    BY Domains, SaneIs
  <1>1. attach_takeoff.from = {"PreflightReady"} /\ ~attach_takeoff.live
    BY DEF attach_takeoff, Walk
  <1>2. CASE Kind(b) = "PreflightReady"
    <2>1. b.safety.phase = "Ready"
      BY <1>0, <1>2, Domains DEF Kind, Air!aerial_kind, Flown, Air!InFlight
    <2> QED BY <1>0, <2>1, TakeoffPosted, LeftBySettling
  <1>3. CASE Kind(b) # "PreflightReady"
    <2>1. Attach(b, attach_takeoff) = [body |-> b, error |-> "Protocol"]
      BY <1>1, <1>3 DEF Attach
    <2> QED BY <2>1 DEF Left
  <1> QED BY <1>2, <1>3

\* Legs that fan out, in either grouping the callers write.
LEMMA FanFollow ==
    ASSUME NEW C, C \subseteq Id, NEW w, NEW walks, NEW go, go \subseteq C,
           w.body = [id \in C |-> w.body[id]], w.setpoint = [id \in C |-> w.setpoint[id]],
           w = [body |-> w.body, setpoint |-> w.setpoint, error |-> "none"],
           \A id \in go : Attach(w.body[id], walks[id]).error = "none",
           NEW a, a = Opt(go, walks, "drone"), NEW b, b = Opt(go, walks, "rover"),
           NEW c, c = Opt(go, walks, "skiff"), NEW d, d = Opt(go, walks, "surveyor")
    PROVE  /\ Fanned(C, w, walks, go, Follow(w, a \o b \o c \o d))
           /\ Fanned(C, w, walks, go, Follow(w, a \o b \o (c \o d)))
  <1> DEFINE T == {[id |-> id, walk |-> walks[id]] : id \in Id}
  <1>1. Opt(go, walks, "drone") \in Seq(T) /\ Opt(go, walks, "rover") \in Seq(T)
        /\ Opt(go, walks, "skiff") \in Seq(T) /\ Opt(go, walks, "surveyor") \in Seq(T)
    <2>1. ASSUME NEW id \in Id PROVE Opt(go, walks, id) \in Seq(T)
      <3>1. [id |-> id, walk |-> walks[id]] \in T
        OBVIOUS
      <3> HIDE DEF T
      <3> QED BY <3>1 DEF Opt, Leg
    <2> HIDE DEF T
    <2> QED BY <2>1, Domains
  <1> HIDE DEF T
  <1>2. a \in Seq(T) /\ b \in Seq(T) /\ c \in Seq(T) /\ d \in Seq(T)
    BY <1>1
  <1>3. a \o b \in Seq(T) /\ a \o b \o c \in Seq(T) /\ c \o d \in Seq(T)
        /\ a \o b \o c \o d \in Seq(T) /\ a \o b \o (c \o d) \in Seq(T)
    BY <1>2, Concat
  <1>4. go \subseteq {"drone", "rover", "skiff", "surveyor"}
    BY Domains
  <1>5. ASSUME NEW r, Legs(w, a \o b \o c \o d, r)
        PROVE  Fanned(C, w, walks, go, r)
    <2>1. PICK w3 : Legs(w, a \o b \o c, w3) /\ Legs(w3, d, r)
      BY <1>2, <1>3, <1>5, LegsSplit
    <2>2. PICK w2 : Legs(w, a \o b, w2) /\ Legs(w2, c, w3)
      BY <1>2, <1>3, <2>1, LegsSplit
    <2>3. PICK w1 : Legs(w, a, w1) /\ Legs(w1, b, w2)
      BY <1>2, <2>2, LegsSplit
    <2> QED BY <1>4, <2>1, <2>2, <2>3, Fan
  <1>6. ASSUME NEW r, Legs(w, a \o b \o (c \o d), r)
        PROVE  Fanned(C, w, walks, go, r)
    <2>1. PICK w2 : Legs(w, a \o b, w2) /\ Legs(w2, c \o d, r)
      BY <1>2, <1>3, <1>6, LegsSplit
    <2>2. PICK w3 : Legs(w2, c, w3) /\ Legs(w3, d, r)
      BY <1>2, <2>1, LegsSplit
    <2>3. PICK w1 : Legs(w, a, w1) /\ Legs(w1, b, w2)
      BY <1>2, <2>1, LegsSplit
    <2> QED BY <1>4, <2>1, <2>2, <2>3, Fan
  <1> QED BY <1>3, <1>5, <1>6, FollowLegs

-----------------------------------------------------------------------------
(* The walks by the bodies they are for.                                   *)

\* The walks that a body which has failed safe, recovers or is disconnected is
\* refused by.
OrdinaryOf(id) ==
    CASE Domain(id) = "aerial" -> {attach_takeoff, attach_airborne, attach_land, attach_hold}
      [] Domain(id) = "ground" -> {attach_drive, attach_park}
      [] Domain(id) = "marine" -> {attach_undock, attach_station, attach_resume, attach_dock}

DownKinds == {"Failsafe", "Recovery", "Disconnected", "EStopped"}

LEMMA OrdinaryIs ==
    ASSUME NEW id \in Id, NEW walk \in OrdinaryOf(id)
    PROVE  /\ walk.stages \in {"none", "zero", "hold"}
           /\ walk.from \cap DownKinds = {}
           /\ \A b \in Sane(id) : Left(id, b, walk, Attach(b, walk))
  <1>1. CASE id = "drone"
    <2>0. Calm(id) = {"HeartbeatFresh", "MissionCommand", "ReachedAltitude", "Land",
                      "Touchdown", "Disarm", "Recover", "TriggerFailsafe", "Disconnect",
                      "HeartbeatStale", "EstimatorInvalid", "ImuUnhealthy"}
      BY <1>1, Domains DEF Calm
    <2>1. CASE walk = attach_takeoff
      <3>1. walk.stages = "zero" /\ walk.from = {"PreflightReady"}
        BY <2>1 DEF attach_takeoff, Walk
      <3> QED BY <1>1, <2>1, <3>1, AttachTakeoff DEF DownKinds
    <2>2. CASE walk = attach_airborne
      <3>1. walk.stages = "none" /\ walk.from = {"Takeoff"} /\ walk.posts = <<"ReachedAltitude">>
        BY <2>2 DEF attach_airborne, Walk
      <3>2. walk.posts \in Seq(Calm(id))
        BY <2>0, <3>1
      <3> QED BY <3>1, <3>2, AttachCalm DEF DownKinds
    <2>3. CASE walk = attach_land
      <3>1. walk.stages = "none" /\ walk.from = {"Takeoff", "Airborne"} /\ walk.posts = <<"Land">>
        BY <2>3 DEF attach_land, Walk
      <3>2. walk.posts \in Seq(Calm(id))
        BY <2>0, <3>1
      <3> QED BY <3>1, <3>2, AttachCalm DEF DownKinds
    <2>4. CASE walk = attach_hold
      <3>1. walk.stages = "hold" /\ walk.from = {"Offboard", "Takeoff", "Airborne", "Landing"}
            /\ walk.posts = <<"HeartbeatFresh", "MissionCommand">>
        BY <2>4 DEF attach_hold, Walk, OffboardControl
      <3>2. walk.posts \in Seq(Calm(id))
        BY <2>0, <3>1
      <3> QED BY <3>1, <3>2, AttachCalm DEF DownKinds
    <2> QED BY <1>1, <2>1, <2>2, <2>3, <2>4, Domains DEF OrdinaryOf
  <1>2. CASE id = "rover"
    <2>0. Calm(id) = {"Release", "Halt", "EStop", "ClearEstop", "DriveCommand"}
      BY <1>2, Domains DEF Calm, Land!GroundEvent
    <2>1. CASE walk = attach_drive
      <3>1. walk.stages = "none" /\ walk.from = {"Parked"} /\ walk.posts = <<"Release">>
        BY <2>1 DEF attach_drive, Walk
      <3>2. walk.posts \in Seq(Calm(id))
        BY <2>0, <3>1
      <3> QED BY <3>1, <3>2, AttachCalm DEF DownKinds
    <2>2. CASE walk = attach_park
      <3>1. walk.stages = "none" /\ walk.from = {"Moving"} /\ walk.posts = <<"Halt">>
        BY <2>2 DEF attach_park, Walk
      <3>2. walk.posts \in Seq(Calm(id))
        BY <2>0, <3>1
      <3> QED BY <3>1, <3>2, AttachCalm DEF DownKinds
    <2> QED BY <1>2, <2>1, <2>2, Domains DEF OrdinaryOf
  <1>3. CASE id \in {"skiff", "surveyor"}
    <2>0. Calm(id) = {"Undock", "Dock", "Station", "Resume", "ThrustCommand", "Failsafe",
                      "Recover"}
      BY <1>3, Domains DEF Calm, Sea!MarineEvent
    <2>1. CASE walk = attach_undock
      <3>1. walk.stages = "none" /\ walk.from = {"Docked"} /\ walk.posts = <<"Undock">>
        BY <2>1 DEF attach_undock, Walk
      <3>2. walk.posts \in Seq(Calm(id))
        BY <2>0, <3>1
      <3> QED BY <3>1, <3>2, AttachCalm DEF DownKinds
    <2>2. CASE walk = attach_station
      <3>1. walk.stages = "none" /\ walk.from = {"Underway"} /\ walk.posts = <<"Station">>
        BY <2>2 DEF attach_station, Walk
      <3>2. walk.posts \in Seq(Calm(id))
        BY <2>0, <3>1
      <3> QED BY <3>1, <3>2, AttachCalm DEF DownKinds
    <2>3. CASE walk = attach_resume
      <3>1. walk.stages = "none" /\ walk.from = {"StationKeep"} /\ walk.posts = <<"Resume">>
        BY <2>3 DEF attach_resume, Walk
      <3>2. walk.posts \in Seq(Calm(id))
        BY <2>0, <3>1
      <3> QED BY <3>1, <3>2, AttachCalm DEF DownKinds
    <2>4. CASE walk = attach_dock
      <3>1. walk.stages = "none" /\ walk.from = {"Underway", "StationKeep"}
            /\ walk.posts = <<"Dock">>
        BY <2>4 DEF attach_dock, Walk
      <3>2. walk.posts \in Seq(Calm(id))
        BY <2>0, <3>1
      <3> QED BY <3>1, <3>2, AttachCalm DEF DownKinds
    <2> QED BY <1>3, <2>1, <2>2, <2>3, <2>4, Domains DEF OrdinaryOf
  <1> QED BY <1>1, <1>2, <1>3, Domains

\* Commanded nothing, and in no state that an ordinary walk starts from.
Down(b) ==
    /\ b.command = "none"
    /\ CASE Domain(b.id) = "aerial" -> b.safety.phase \in {"Failsafe", "Recovery", "Disconnected"}
         [] Domain(b.id) = "ground" -> b.safety.estop
         [] Domain(b.id) = "marine" -> b.safety.failsafe

LEMMA DownIs ==
    ASSUME NEW id \in Id, NEW b \in Sane(id), Down(b)
    PROVE  Kind(b) \in DownKinds /\ ~actuators_granted(b)
  <1>0. b.id = id
    BY SaneIs
  <1>1. CASE id = "drone"
    <2>1. b.safety \in Flown /\ b.safety.phase \in {"Failsafe", "Recovery", "Disconnected"}
      BY ZenonT(60), <1>0, <1>1, SaneIs, Domains DEF Down
    <2>2. Air!aerial_kind(b.safety) \in DownKinds
          /\ ~(b.safety.actuators_enabled /\ b.safety.armed /\ ~b.safety.failsafe)
      BY <2>1 DEF Flown, Air!CheckInvariants, Air!InFlight, Air!aerial_kind, DownKinds
    <2> QED BY <1>0, <1>1, <2>2, Domains DEF Kind, actuators_granted
  <1>2. CASE id = "rover"
    <2>1. b.safety.estop
      BY <1>0, <1>2, Domains DEF Down
    <2>2. Land!ground_kind(b.safety) = "EStopped"
      BY <2>1 DEF Land!ground_kind
    <2> QED BY <1>0, <1>2, <2>1, <2>2, Domains DEF Kind, actuators_granted, DownKinds
  <1>3. CASE id \in {"skiff", "surveyor"}
    <2>1. b.safety.failsafe
      BY <1>0, <1>3, Domains DEF Down
    <2>2. Sea!marine_kind(b.safety) = "Failsafe"
      BY <2>1 DEF Sea!marine_kind
    <2> QED BY <1>0, <1>3, <2>1, <2>2, Domains DEF Kind, actuators_granted, DownKinds
  <1> QED BY <1>1, <1>2, <1>3, Domains

-----------------------------------------------------------------------------
(* Walks that nothing refuses.                                             *)

LEMMA AttachTaken ==
    ASSUME NEW b, NEW x, NEW walk, Kind(b) \in walk.from, ~walk.live,
           Posted(b, walk.posts) = Fresh(x)
    PROVE  Attach(b, walk) = Fresh(Settled(x, walk))
  <1> DEFINE r == Posted(b, walk.posts)
  <1>1. Attach(b, walk) = IF r.error = "none" THEN [r EXCEPT !.body = Settled(r.body, walk)]
                                              ELSE r
    BY DEF Attach
  <1>2. r = [body |-> x, error |-> "none"]
    BY DEF Fresh
  <1> HIDE DEF r
  <1> QED BY <1>1, <1>2 DEF Fresh

\* Failed safe or stopped, and commanded nothing: as a failsafe event leaves a
\* body.
Felled(b) ==
    /\ b.command = "none"
    /\ CASE Domain(b.id) = "aerial" -> b.safety.phase = "Failsafe"
         [] Domain(b.id) = "ground" -> b.safety.estop
         [] Domain(b.id) = "marine" -> b.safety.failsafe

LEMMA FelledIs ==
    ASSUME NEW id \in Id, NEW b \in Sane(id), Felled(b)
    PROVE  Down(b) /\ Tripped(b)
  <1>0. b.id = id
    BY SaneIs
  <1>1. CASE id = "drone"
    <2>1. b.safety \in Flown
      BY <1>1, SaneIs
    <2>2. b.safety.failsafe
      BY ZenonT(60), <1>0, <1>1, <2>1, Domains DEF Felled, Flown, Air!CheckInvariants
    <2> QED BY <1>0, <1>1, <2>2, Domains DEF Felled, Down, Tripped
  <1>2. CASE id = "rover"
    BY <1>0, <1>2, Domains DEF Felled, Down, Tripped
  <1>3. CASE id \in {"skiff", "surveyor"}
    BY <1>0, <1>3, Domains DEF Felled, Down, Tripped
  <1> QED BY <1>1, <1>2, <1>3, Domains

\* The event that fails a body safe is taken in every state.
LEMMA FellTaken ==
    ASSUME NEW id \in Id, NEW b \in Sane(id), NEW e,
           e = CASE Domain(id) = "aerial" -> "TriggerFailsafe" [] Domain(id) = "ground" -> "EStop"
                 [] Domain(id) = "marine" -> "Failsafe"
    PROVE  Admits(b, e) /\ Post(b, e) \in Sane(id) /\ Felled(Post(b, e))
  <1>0. b.id = id
    BY SaneIs
  <1> DEFINE n == After(b, e)
  <1>1. Admits(b, e) /\ e \in Calm(id) /\ Cuts(b, e)
        /\ CASE Domain(id) = "aerial" -> n.phase = "Failsafe"
             [] Domain(id) = "ground" -> n.estop
             [] Domain(id) = "marine" -> n.failsafe
    <2>1. CASE id = "drone"
      <3>1. e = "TriggerFailsafe" /\ b.safety \in Air!SafetyState
        BY <2>1, SaneIs, Domains DEF Flown
      <3>2. Air!Admits(b.safety, e)
        BY <3>1 DEF Air!Admits, Air!LegalIn, Air!Latched, Air!NeedsArmed, Air!NeedsSensors
      <3>3. Air!After(b.safety, e).failsafe /\ Air!After(b.safety, e).phase = "Failsafe"
        BY <3>1 DEF Air!After, Air!EnterFailsafe
      <3>4. Admits(b, e) /\ n = Air!After(b.safety, e)
        BY <1>0, <2>1, <3>2, Domains DEF Admits, After
      <3>5. e \in Calm(id)
        BY <2>1, <3>1, Domains DEF Calm
      <3>6. Cuts(b, e)
        BY <1>0, <2>1, <3>3, <3>4, Domains DEF Cuts
      <3> QED BY <2>1, <3>3, <3>4, <3>5, <3>6, Domains
    <2>2. CASE id = "rover"
      <3>1. e = "EStop"
        BY <2>2, Domains
      <3>2. Land!Admits(b.safety, e) /\ Land!After(b.safety, e) = Land!stopped
        BY <3>1 DEF Land!Admits, Land!After
      <3>3. Admits(b, e) /\ n = Land!stopped
        BY <1>0, <2>2, <3>2, Domains DEF Admits, After
      <3>4. e \in Calm(id)
        BY <2>2, <3>1, Domains DEF Calm, Land!GroundEvent
      <3>5. Cuts(b, e) /\ n.estop
        BY <1>0, <2>2, <3>3, Domains DEF Cuts, Land!stopped
      <3> QED BY <2>2, <3>3, <3>4, <3>5, Domains
    <2>3. CASE id \in {"skiff", "surveyor"}
      <3>1. e = "Failsafe"
        BY <2>3, Domains
      <3>2. Sea!Admits(b.safety, e) /\ Sea!After(b.safety, e) = Sea!tripped
        BY <3>1 DEF Sea!Admits, Sea!After
      <3>3. Admits(b, e) /\ n = Sea!tripped
        BY <1>0, <2>3, <3>2, Domains DEF Admits, After
      <3>4. e \in Calm(id)
        BY <2>3, <3>1, Domains DEF Calm, Sea!MarineEvent
      <3>5. Cuts(b, e) /\ n.failsafe
        BY <1>0, <2>3, <3>3, Domains DEF Cuts, Sea!tripped
      <3> QED BY <2>3, <3>3, <3>4, <3>5, Domains
    <2> QED BY <2>1, <2>2, <2>3, Domains
  <1>2. Post(b, e) \in Sane(id) /\ Post(b, e).safety = n
    BY <1>1, SanePost
  <1>3. Post(b, e).command = "none"
    <2>1. Post(b, e) = [b EXCEPT !.safety = n, !.command = "none"]
      BY <1>1 DEF Post
    <2>2. b = [id |-> id, safety |-> b.safety, command |-> b.command]
      BY SaneIs
    <2> HIDE DEF n
    <2> QED BY <2>1, <2>2
  <1>4. Post(b, e).id = id
    BY <1>2, SaneIs
  <1> HIDE DEF n
  <1> QED BY <1>1, <1>2, <1>3, <1>4, Domains DEF Felled

\* The walk that takes a body back from a failsafe.
RecoverWalk(b) ==
    CASE Domain(b.id) = "aerial" -> attach_recover_ready(b)
      [] Domain(b.id) = "ground" -> attach_reset
      [] Domain(b.id) = "marine" -> attach_recover

LEMMA RecoverCalm ==
    ASSUME NEW id \in Id, NEW b \in Sane(id)
    PROVE  RecoverWalk(b).stages = "none" /\ RecoverWalk(b).posts \in Seq(Calm(id))
  <1>0. b.id = id
    BY SaneIs
  <1> DEFINE k == RecoverWalk(b)
  <1>1. CASE id = "drone"
    <2>1. k = attach_recover_ready(b)
      BY <1>0, <1>1, Domains DEF RecoverWalk
    <2>2. k.stages = "none" /\ k.posts \in {<<"Disarm", "Recover">>, <<"Recover">>}
      BY <2>1 DEF attach_recover_ready, Walk
    <2>3. "Disarm" \in Calm(id) /\ "Recover" \in Calm(id)
      BY <1>1, Domains DEF Calm
    <2>4. <<"Disarm", "Recover">> \in Seq(Calm(id)) /\ <<"Recover">> \in Seq(Calm(id))
      BY <2>3
    <2>5. k.posts \in Seq(Calm(id))
      <3> HIDE DEF k
      <3> QED BY <2>2, <2>4
    <2>6. k.stages = "none"
      BY <2>2
    <2> QED BY <2>5, <2>6
  <1>2. CASE id = "rover"
    <2>1. k.stages = "none" /\ k.posts = <<"ClearEstop">>
      BY <1>0, <1>2, Domains DEF RecoverWalk, attach_reset, Walk
    <2>2. "ClearEstop" \in Calm(id)
      BY <1>2, Domains DEF Calm, Land!GroundEvent
    <2> QED BY <2>1, <2>2
  <1>3. CASE id \in {"skiff", "surveyor"}
    <2>1. k.stages = "none" /\ k.posts = <<"Recover">>
      BY <1>0, <1>3, Domains DEF RecoverWalk, attach_recover, Walk
    <2>2. "Recover" \in Calm(id)
      BY <1>3, Domains DEF Calm, Sea!MarineEvent
    <2> QED BY <2>1, <2>2
  <1> QED BY <1>1, <1>2, <1>3, Domains

\* Recovery is taken by every body that a failsafe event left as it is.
LEMMA RecoverTaken ==
    ASSUME NEW id \in Id, NEW b \in Sane(id), Felled(b)
    PROVE  Attach(b, RecoverWalk(b)).error = "none"
  <1>0. b.id = id /\ b.safety \in Sound(id)
    BY SaneIs DEF Sane
  <1> DEFINE k == RecoverWalk(b)
             s == b.safety
  <1> SUFFICES \E x : /\ Posted(b, k.posts) = Fresh(x) /\ Kind(b) \in k.from /\ ~k.live
    <2>1. PICK x : Posted(b, k.posts) = Fresh(x) /\ Kind(b) \in k.from /\ ~k.live
      OBVIOUS
    <2> HIDE DEF k
    <2>2. Attach(b, k) = Fresh(Settled(x, k))
      BY <2>1, AttachTaken
    <2> QED BY <2>2 DEF Fresh, k
  <1>1. CASE id = "drone"
    <2>1. s \in Flown /\ s.phase = "Failsafe"
      BY <1>0, <1>1, Domains DEF Sound, Felled
    <2>2. s.failsafe
      BY <2>1 DEF Flown, Air!CheckInvariants
    <2>3. Kind(b) = "Failsafe"
      BY <1>0, <1>1, <2>1, <2>2, Domains DEF Kind, Air!aerial_kind
    <2>4. k = attach_recover_ready(b)
      BY <1>0, <1>1, Domains DEF RecoverWalk
    <2>5. k.from = {"Failsafe", "Recovery"} /\ ~k.live /\ k.posts = <<"Disarm", "Recover">>
      BY <2>3, <2>4 DEF attach_recover_ready, Walk
    <2> DEFINE x == Post(b, "Disarm")
    <2>6. Air!Admits(s, "Disarm")
      BY <2>1 DEF Flown, Air!Admits, Air!LegalIn, Air!Latched, Air!NeedsArmed, Air!NeedsSensors
    <2>7. Admits(b, "Disarm") /\ After(b, "Disarm") = Air!After(s, "Disarm")
      BY <1>0, <1>1, <2>6, Domains DEF Admits, After
    <2>8. "Disarm" \in Calm(id)
      BY <1>1, Domains DEF Calm
    <2>9. x \in Sane(id) /\ x.safety = Air!After(s, "Disarm")
      BY <2>7, <2>8, SanePost
    <2>10. Air!After(s, "Disarm") = Air!Grounded(s, "Recovery")
      BY <2>2 DEF Air!After
    <2>11. x.safety.phase = "Recovery" /\ ~x.safety.armed
      BY ZenonT(60), <2>1, <2>9, <2>10 DEF Air!Grounded, Flown
    <2>12. x.id = "drone"
      BY <1>1, <2>9, SaneIs
    <2>13. Air!Admits(x.safety, "Recover")
      BY <2>11 DEF Air!Admits, Air!LegalIn, Air!Latched, Air!NeedsArmed, Air!NeedsSensors
    <2>14. Admits(x, "Recover")
      BY <2>12, <2>13, Domains DEF Admits
    <2>15. Given(Fresh(b), "Disarm") = Fresh(x)
      BY <2>7, GivenTaken
    <2> HIDE DEF x
    <2>16. Given(Fresh(x), "Recover") = Fresh(Post(x, "Recover"))
      BY <2>14, GivenTaken
    <2>17. Posted(b, <<"Disarm", "Recover">>) = Fresh(Post(x, "Recover"))
      BY <2>15, <2>16, PostedTwo
    <2> HIDE DEF k
    <2> QED BY <2>3, <2>5, <2>17
  <1>2. CASE id = "rover"
    <2>1. s \in Driven /\ s.estop
      BY <1>0, <1>2, Domains DEF Sound, Felled
    <2>2. s.phase = "EStop"
      BY <2>1 DEF Driven, Land!GroundState, Land!GroundPhase, Land!ground_invariants
    <2>3. Kind(b) = "EStopped"
      BY <1>0, <1>2, <2>1, Domains DEF Kind, Land!ground_kind
    <2>4. k.from = {"EStopped"} /\ ~k.live /\ k.posts = <<"ClearEstop">>
      BY <1>0, <1>2, Domains DEF RecoverWalk, attach_reset, Walk
    <2>5. Admits(b, "ClearEstop")
      BY <1>0, <1>2, <2>2, Domains DEF Admits, Land!Admits
    <2>6. Posted(b, <<"ClearEstop">>) = Fresh(Post(b, "ClearEstop"))
      BY <2>5, GivenTaken, PostedOne
    <2> HIDE DEF k
    <2> QED BY <2>3, <2>4, <2>6
  <1>3. CASE id \in {"skiff", "surveyor"}
    <2>1. s \in Sailed /\ s.failsafe
      BY <1>0, <1>3, Domains DEF Sound, Felled
    <2>2. s.phase = "Failsafe"
      BY <2>1 DEF Sailed, Sea!MarineState, Sea!MarinePhase, Sea!marine_invariants
    <2>3. Kind(b) = "Failsafe"
      BY <1>0, <1>3, <2>1, Domains DEF Kind, Sea!marine_kind
    <2>4. k.from = {"Failsafe"} /\ ~k.live /\ k.posts = <<"Recover">>
      BY <1>0, <1>3, Domains DEF RecoverWalk, attach_recover, Walk
    <2>5. Admits(b, "Recover")
      BY <1>0, <1>3, <2>2, Domains DEF Admits, Sea!Admits
    <2>6. Posted(b, <<"Recover">>) = Fresh(Post(b, "Recover"))
      BY <2>5, GivenTaken, PostedOne
    <2> HIDE DEF k
    <2> QED BY <2>3, <2>4, <2>6
  <1> QED BY <1>1, <1>2, <1>3, Domains

\* attach_offboard leaves a drone live and staged at zero, or as it was.
LEMMA AttachOffboard ==
    ASSUME NEW b \in Sane("drone")
    PROVE  LET r == Attach(b, attach_offboard) IN
           /\ Left("drone", b, attach_offboard, r)
           /\ r.error = "none" => actuators_granted(r.body)
           /\ r.error # "none" => r.body = b
  <1> DEFINE r == Attach(b, attach_offboard)
  <1>0. "drone" \in Id /\ b.id = "drone" /\ b.safety \in Flown /\ b.command \in Setpoint
    BY Domains, SaneIs
  <1>1. /\ attach_offboard.from = {"PreflightReady"} /\ ~attach_offboard.live
        /\ attach_offboard.stages = "zero" /\ attach_offboard.posts = arm_and_enter
    BY DEF attach_offboard, Walk
  <1>2. CASE Kind(b) = "PreflightReady"
    <2>1. b.safety.phase = "Ready"
      BY <1>0, <1>2, Domains DEF Kind, Air!aerial_kind, Flown, Air!InFlight
    <2>2. Posted(b, arm_and_enter) = Armed4(Fresh(b))
      BY PostedFour DEF Armed4, arm_and_enter
    <2>3. Settled(b, attach_offboard) = b /\ \A x : Settled(x, attach_offboard) = x
      BY <1>1, ArmPosts DEF Settled
    <2>4. CASE Armed4(Fresh(b)) = [body |-> b, error |-> "Rejected"]
      <3>1. r = [body |-> b, error |-> "Rejected"]
        BY <1>1, <1>2, <2>2, <2>4 DEF Attach
      <3> QED BY <1>0, <1>1, <1>2, <3>1 DEF Left
    <2>5. CASE \E x : Armable(x) /\ Armed4(Fresh(b)) = Fresh(Flier(x, b.command))
      <3>1. PICK x : Armable(x) /\ Armed4(Fresh(b)) = Fresh(Flier(x, b.command))
        BY <2>5
      <3> DEFINE y == Flier(x, b.command)
      <3>2. y \in Sane("drone") /\ y.command = b.command /\ y.safety = x /\ y.id = "drone"
        BY <1>0, <3>1, AloftIs DEF Armable
      <3>3. Posted(b, attach_offboard.posts) = Fresh(y)
        BY <1>1, <2>2, <3>1
      <3> HIDE DEF y
      <3>4. r = Fresh(y)
        BY <1>1, <1>2, <2>3, <3>3, AttachTaken
      <3>5. x.armed /\ x.actuators_enabled /\ ~x.failsafe
        BY <3>1 DEF Armable, Flown, Air!CheckInvariants
      <3>6. actuators_granted(y)
        BY <3>2, <3>5, Domains DEF actuators_granted
      <3>7. r.body = y /\ r.error = "none"
        BY <3>4 DEF Fresh
      <3> QED BY <1>0, <1>1, <1>2, <3>2, <3>6, <3>7 DEF Left
    <2> QED BY <2>1, <2>4, <2>5, ArmGiven
  <1>3. CASE Kind(b) # "PreflightReady"
    <2>1. r = [body |-> b, error |-> "Protocol"]
      BY <1>1, <1>3 DEF Attach
    <2> QED BY <1>1, <2>1 DEF Left
  <1> QED BY <1>2, <1>3

\* attach_start_takeoff is for a drone that is live already.
LEMMA AttachStart ==
    ASSUME NEW b \in Sane("drone")
    PROVE  LET r == Attach(b, attach_start_takeoff) IN
           /\ Left("drone", b, attach_start_takeoff, r)
           /\ r.body # b => actuators_granted(b) /\ actuators_granted(r.body)
  <1> DEFINE r == Attach(b, attach_start_takeoff)
  <1>0. "drone" \in Id /\ b.id = "drone" /\ b.safety \in Flown /\ b.command \in Setpoint
        /\ b = Flier(b.safety, b.command)
    BY Domains, SaneIs DEF Flier
  <1>1. /\ attach_start_takeoff.from = {"Offboard"} /\ attach_start_takeoff.live
        /\ attach_start_takeoff.stages = "none"
        /\ attach_start_takeoff.posts = <<"Takeoff", "EnableActuators">>
    BY DEF attach_start_takeoff, Walk
  <1>2. CASE Kind(b) \notin attach_start_takeoff.from
    <2>1. r = [body |-> b, error |-> "Protocol"]
      BY <1>2 DEF Attach
    <2> QED BY <1>2, <2>1 DEF Left
  <1>3. CASE Kind(b) \in attach_start_takeoff.from /\ ~b.safety.offboard_heartbeat_fresh
    <2>1. r = [body |-> b, error |-> "Rejected"]
      BY <1>1, <1>3 DEF Attach
    <2> QED BY <1>3, <2>1 DEF Left
  <1>4. CASE Kind(b) \in attach_start_takeoff.from /\ b.safety.offboard_heartbeat_fresh
    <2>1. b.safety.phase = "Armed" /\ ~b.safety.failsafe
      BY <1>0, <1>1, <1>4, Domains DEF Kind, Air!aerial_kind, Flown, Air!InFlight
    <2>2. PICK y \in Flown : /\ y.phase = "Takeoff" /\ y.armed /\ ~y.failsafe
                             /\ Climbed(Fresh(b)) = Fresh(Flier(y, b.command))
      BY <1>0, <2>1, ClimbGiven
    <2> DEFINE z == Flier(y, b.command)
    <2>3. z \in Sane("drone") /\ z.command = b.command /\ z.safety = y /\ z.id = "drone"
      BY <1>0, AloftIs
    <2>4. Posted(b, attach_start_takeoff.posts) = Fresh(z)
      BY <1>1, <2>2, PostedTwo DEF Climbed
    <2> HIDE DEF z
    <2>5. Settled(z, attach_start_takeoff) = z
      BY <1>1 DEF Settled
    <2>6. r = LET p == Posted(b, attach_start_takeoff.posts) IN
              IF p.error = "none" THEN [p EXCEPT !.body = Settled(@, attach_start_takeoff)] ELSE p
      BY <1>4 DEF Attach
    <2>7. r = Fresh(z)
      BY <2>4, <2>5, <2>6 DEF Fresh
    <2>8. b.safety.armed /\ b.safety.actuators_enabled
      BY <1>0, <2>1 DEF Flown, Air!CheckInvariants
    <2>9. y.actuators_enabled
      BY <2>2 DEF Flown, Air!CheckInvariants, Air!InFlight
    <2>10. actuators_granted(b) /\ actuators_granted(z)
      BY <1>0, <2>1, <2>2, <2>3, <2>8, <2>9, Domains DEF actuators_granted
    <2>11. r.body = z /\ r.error = "none"
      BY <2>7 DEF Fresh
    <2> QED BY <1>4, <2>3, <2>10, <2>11 DEF Left
  <1> QED BY <1>2, <1>3, <1>4

\* The kinds a velocity is commanded in.
Drivable == OffboardControl \cup {"Moving", "Underway", "StationKeep"}

\* A command is taken by every body of such a kind, whatever it stages.
LEMMA CommandTaken ==
    ASSUME NEW id \in Id, NEW b \in Sane(id), Kind(b) \in Drivable, NEW v
    PROVE  LET walk == [Command(b) EXCEPT !.stages = v] IN
           /\ Attach(b, walk).error = "none"
           /\ Left(id, b, walk, Attach(b, walk))
           /\ walk.stages = v
  <1>0. b.id = id /\ b.safety \in Sound(id)
    BY SaneIs DEF Sane
  <1> DEFINE k == [Command(b) EXCEPT !.stages = v]
             s == b.safety
             posts == CASE Domain(b.id) = "aerial" -> <<"HeartbeatFresh", "MissionCommand">>
                        [] Domain(b.id) = "ground" -> <<"DriveCommand">>
                        [] Domain(b.id) = "marine" -> <<"ThrustCommand">>
  <1>1. k.from = {Kind(b)} /\ ~k.live /\ k.posts = posts /\ k.stages = v
    <2>1. Command(b) = [from |-> {Kind(b)}, live |-> FALSE, posts |-> posts,
                        stages |-> "velocity"]
      BY DEF Command, Walk
    <2> HIDE DEF posts
    <2> QED BY <2>1
  <1>2. posts \in Seq(Calm(id)) /\ \E x : Posted(b, posts) = Fresh(x)
    <2>1. CASE id = "drone"
      <3>0. posts = <<"HeartbeatFresh", "MissionCommand">>
        BY <1>0, <2>1, Domains
      <3>1. "HeartbeatFresh" \in Calm(id) /\ "MissionCommand" \in Calm(id)
        BY <2>1, Domains DEF Calm
      <3>2. s \in Flown
        BY <2>1, SaneIs
      <3>3. Kind(b) = Air!aerial_kind(s) /\ Kind(b) \in Drivable
        BY <1>0, <2>1, Domains DEF Kind
      <3>4. s.armed /\ ~s.failsafe /\ s.actuators_enabled
        BY <3>2, <3>3 DEF Flown, Air!CheckInvariants, Air!InFlight, Air!aerial_kind,
                          Drivable, OffboardControl
      <3> DEFINE x == Post(b, "HeartbeatFresh")
      <3>5. Air!Admits(s, "HeartbeatFresh")
        BY <3>2, <3>4 DEF Flown, Air!Admits, Air!LegalIn, Air!Latched, Air!NeedsArmed,
                          Air!NeedsSensors
      <3>6. Admits(b, "HeartbeatFresh")
            /\ After(b, "HeartbeatFresh") = Air!After(s, "HeartbeatFresh")
        BY <1>0, <2>1, <3>5, Domains DEF Admits, After
      <3>7. x \in Sane(id) /\ x.safety = Air!After(s, "HeartbeatFresh")
        BY <3>1, <3>6, SanePost
      <3>8. x.safety = [s EXCEPT !.offboard_heartbeat_fresh = TRUE]
        BY <3>7 DEF Air!After
      <3>9. x.safety.armed /\ ~x.safety.failsafe /\ x.safety.actuators_enabled
            /\ x.safety.offboard_heartbeat_fresh /\ x.safety.phase \in Air!Phase
        BY <3>2, <3>4, <3>8 DEF Flown
      <3>10. x.id = "drone"
        BY <2>1, <3>7, SaneIs
      <3>11. Given(Fresh(b), "HeartbeatFresh") = Fresh(x)
        BY <3>6, GivenTaken
      <3> HIDE DEF x
      <3>12. Air!Admits(x.safety, "MissionCommand")
        BY <3>9 DEF Air!Admits, Air!LegalIn, Air!Latched, Air!NeedsArmed, Air!NeedsSensors
      <3>13. Admits(x, "MissionCommand")
        BY <3>10, <3>12, Domains DEF Admits
      <3>14. Given(Fresh(x), "MissionCommand") = Fresh(Post(x, "MissionCommand"))
        BY <3>13, GivenTaken
      <3>15. Posted(b, <<"HeartbeatFresh", "MissionCommand">>)
               = Fresh(Post(x, "MissionCommand"))
        BY <3>11, <3>14, PostedTwo
      <3> HIDE DEF posts
      <3> QED BY <3>0, <3>1, <3>15
    <2>2. CASE id = "rover"
      <3>0. posts = <<"DriveCommand">> /\ "DriveCommand" \in Calm(id)
        BY <1>0, <2>2, Domains DEF Calm, Land!GroundEvent
      <3>1. Kind(b) = Land!ground_kind(s) /\ s \in Driven
        BY <1>0, <2>2, SaneIs, Domains DEF Kind
      <3>2. ~s.estop /\ s.phase = "Moving" /\ s.drive_enabled
        BY <3>1 DEF Driven, Land!GroundState, Land!GroundPhase, Land!ground_invariants,
                    Land!ground_kind, Drivable, OffboardControl
      <3>3. Admits(b, "DriveCommand")
        BY <1>0, <2>2, <3>2, Domains DEF Admits, Land!Admits
      <3>4. Posted(b, posts) = Fresh(Post(b, "DriveCommand"))
        BY <3>0, <3>3, GivenTaken, PostedOne
      <3> HIDE DEF posts
      <3> QED BY <3>0, <3>4
    <2>3. CASE id \in {"skiff", "surveyor"}
      <3>0. posts = <<"ThrustCommand">> /\ "ThrustCommand" \in Calm(id)
        BY <1>0, <2>3, Domains DEF Calm, Sea!MarineEvent
      <3>1. Kind(b) = Sea!marine_kind(s) /\ s \in Sailed
        BY <1>0, <2>3, SaneIs, Domains DEF Kind
      <3>2. ~s.failsafe /\ s.thrust_enabled
        BY <3>1 DEF Sailed, Sea!MarineState, Sea!MarinePhase, Sea!marine_invariants,
                    Sea!marine_kind, Drivable, OffboardControl
      <3>3. Admits(b, "ThrustCommand")
        BY <1>0, <2>3, <3>2, Domains DEF Admits, Sea!Admits
      <3>4. Posted(b, posts) = Fresh(Post(b, "ThrustCommand"))
        BY <3>0, <3>3, GivenTaken, PostedOne
      <3> HIDE DEF posts
      <3> QED BY <3>0, <3>4
    <2> QED BY <2>1, <2>2, <2>3, Domains
  <1> HIDE DEF k, posts
  <1>3. PICK x : Posted(b, k.posts) = Fresh(x)
    BY <1>1, <1>2
  <1>4. Attach(b, k) = Fresh(Settled(x, k))
    BY <1>1, <1>3, AttachTaken
  <1>5. Left(id, b, k, Attach(b, k))
    BY <1>1, <1>2, AttachCalm
  <1> QED BY <1>1, <1>4, <1>5 DEF Fresh, k

LEMMA TouchdownLeft ==
    ASSUME NEW b \in Sane("drone")
    PROVE  /\ Left("drone", b, attach_touchdown, Attach(b, attach_touchdown))
           /\ attach_touchdown.stages = "none"
  <1>1. attach_touchdown.stages = "none" /\ attach_touchdown.posts = <<"Touchdown">>
    BY DEF attach_touchdown, Walk
  <1>2. "Touchdown" \in Calm("drone") /\ "drone" \in Id
    BY Domains DEF Calm
  <1>3. attach_touchdown.posts \in Seq(Calm("drone"))
    BY <1>1, <1>2
  <1> QED BY <1>1, <1>2, <1>3, AttachCalm

-----------------------------------------------------------------------------
(* Worlds of sane bodies, and what a leg makes of one.                     *)

Worlds(C) ==
    {w \in [body : [C -> UNION {Sane(id) : id \in Id}], setpoint : [C -> Setpoint],
            error : {"none", "Protocol", "Rejected"}] :
        \A id \in C : w.body[id] \in Sane(id)}

LEMMA WorldsAre ==
    ASSUME NEW C, NEW w \in Worlds(C)
    PROVE  /\ w.body = [id \in C |-> w.body[id]] /\ w.setpoint = [id \in C |-> w.setpoint[id]]
           /\ w = [body |-> w.body, setpoint |-> w.setpoint, error |-> w.error]
           /\ DOMAIN w.body = C
           /\ \A id \in C : w.body[id] \in Sane(id) /\ w.setpoint[id] \in Setpoint
           /\ w.error \in {"none", "Protocol", "Rejected"}
  BY DEF Worlds

LEMMA WorldsMade ==
    ASSUME NEW C, C \subseteq Id, NEW w, NEW b, NEW s, NEW e \in {"none", "Protocol", "Rejected"},
           w = [body |-> b, setpoint |-> s, error |-> e],
           b = [id \in C |-> b[id]], s = [id \in C |-> s[id]],
           \A id \in C : b[id] \in Sane(id) /\ s[id] \in Setpoint
    PROVE  w \in Worlds(C)
  <1>1. b \in [C -> UNION {Sane(id) : id \in Id}] /\ s \in [C -> Setpoint]
    <2>1. \A id \in C : b[id] \in UNION {Sane(i) : i \in Id}
      OBVIOUS
    <2> QED BY <2>1
  <1> QED BY <1>1 DEF Worlds

LEMMA WalkedIs ==
    ASSUME NEW C, C \subseteq Id, NEW w \in Worlds(C), NEW id \in C, NEW walk,
           walk.stages \in Setpoint,
           Left(id, w.body[id], walk, Attach(w.body[id], walk))
    PROVE  LET a == Attach(w.body[id], walk)
               x == Walked(w, [id |-> id, walk |-> walk]) IN
           /\ x \in Worlds(C) /\ x.error = a.error
           /\ \A i \in C : x.body[i] = IF i = id THEN a.body ELSE w.body[i]
           /\ \A i \in C : x.setpoint[i] = IF i = id /\ a.error = "none" THEN walk.stages
                                                                        ELSE w.setpoint[i]
  <1> DEFINE a == Attach(w.body[id], walk)
             x == Walked(w, [id |-> id, walk |-> walk])
             p == [w.body EXCEPT ![id] = a.body]
             q == IF a.error = "none" THEN [w.setpoint EXCEPT ![id] = walk.stages]
                                      ELSE w.setpoint
  <1>1. x = [body |-> p, setpoint |-> q, error |-> a.error]
    BY DEF Walked
  <1>2. a.body \in Sane(id) /\ a.error \in {"none", "Protocol", "Rejected"}
    BY DEF Left
  <1> HIDE DEF a, x
  <1>3. /\ p = [i \in C |-> p[i]] /\ q = [i \in C |-> q[i]]
        /\ \A i \in C : p[i] = IF i = id THEN a.body ELSE w.body[i]
        /\ \A i \in C : q[i] = IF i = id /\ a.error = "none" THEN walk.stages ELSE w.setpoint[i]
    <2>1. w.body = [i \in C |-> w.body[i]] /\ w.setpoint = [i \in C |-> w.setpoint[i]]
      BY WorldsAre
    <2>2. p = [i \in C |-> p[i]] /\ \A i \in C : p[i] = IF i = id THEN a.body ELSE w.body[i]
      BY <2>1
    <2>3. CASE a.error = "none"
      BY <2>1, <2>2, <2>3
    <2>4. CASE a.error # "none"
      BY <2>1, <2>2, <2>4
    <2> QED BY <2>3, <2>4
  <1> HIDE DEF p, q
  <1>4. ASSUME NEW i \in C PROVE p[i] \in Sane(i) /\ q[i] \in Setpoint
    <2>1. w.body[i] \in Sane(i) /\ w.setpoint[i] \in Setpoint
      BY WorldsAre
    <2>2. p[i] \in Sane(i)
      BY <1>2, <1>3, <2>1
    <2>3. q[i] \in Setpoint
      BY <1>3, <2>1
    <2> QED BY <2>2, <2>3
  <1>5. x \in Worlds(C)
    BY <1>1, <1>2, <1>3, <1>4, WorldsMade
  <1>6. x.body = p /\ x.setpoint = q /\ x.error = a.error
    BY <1>1
  <1>7. /\ x \in Worlds(C) /\ x.error = a.error
        /\ \A i \in C : x.body[i] = IF i = id THEN a.body ELSE w.body[i]
        /\ \A i \in C : x.setpoint[i] = IF i = id /\ a.error = "none" THEN walk.stages
                                                                     ELSE w.setpoint[i]
    BY <1>3, <1>5, <1>6
  <1> QED BY <1>7 DEF a, x

\* What an event injected into the drone leaves of it.
LEMMA InjectLeft ==
    ASSUME NEW b \in Sane("drone"), NEW e
    PROVE  LET x == inject_revoke(b, e).body IN
           /\ x \in Sane("drone") /\ x.command \in {b.command, "none"}
           /\ Down(b) => Down(x)
  <1> DEFINE x == inject_revoke(b, e).body
  <1>0. "drone" \in Id
    BY Domains
  <1>1. CASE ~Air!event_revokes_authority(e)
    <2>1. inject_revoke(b, e) = [body |-> b, error |-> "Rejected"]
      BY <1>1 DEF inject_revoke
    <2> QED BY <2>1
  <1>2. CASE Air!event_revokes_authority(e)
    <2>0. e \in {"TriggerFailsafe", "Disarm", "Disconnect", "HeartbeatStale",
                 "EstimatorInvalid", "ImuUnhealthy"}
      BY <1>2 DEF Air!event_revokes_authority
    <2>1. inject_revoke(b, e) = Given(Fresh(b), e)
      BY <1>2, PostedOne DEF inject_revoke
    <2>2. CASE ~Admits(b, e)
      <3>1. inject_revoke(b, e).body = b
        BY <2>1, <2>2 DEF Given, Fresh
      <3> QED BY <3>1
    <2>3. CASE Admits(b, e)
      <3>1. x = Post(b, e)
        <4>1. inject_revoke(b, e) = Fresh(Post(b, e))
          BY <2>1, <2>3, GivenTaken
        <4> QED BY <4>1 DEF Fresh
      <3>2. e \in Calm("drone")
        BY <2>0, Domains DEF Calm
      <3>3. /\ x \in Sane("drone") /\ x.command \in {b.command, "none"}
            /\ x.safety = After(b, e)
        BY <1>0, <2>3, <3>1, <3>2, SanePost
      <3>4. /\ b.id = "drone" /\ x.id = "drone" /\ b.safety \in Flown
            /\ b.command \in Setpoint
        BY <1>0, <3>3, SaneIs
      <3>5. ASSUME Down(b) PROVE Down(x)
        <4> DEFINE s == b.safety
                   n == Air!After(s, e)
        <4>1. /\ s.phase \in {"Failsafe", "Recovery", "Disconnected"}
              /\ b.command = "none"
              /\ (s.phase \in {"Failsafe", "Recovery"} => s.failsafe)
          BY <3>4, <3>5, Domains DEF Down, Flown, Air!CheckInvariants
        <4>2. Air!Admits(s, e) /\ x.safety = n
          BY <2>3, <3>3, <3>4, Domains DEF Admits, After
        <4>3. s \in Air!SafetyState
          BY <3>4 DEF Flown
        <4> HIDE DEF x, s
        <4>4. n.phase \in {"Failsafe", "Recovery", "Disconnected"}
          <5>0. /\ s.phase \in {"Failsafe", "Recovery", "Disconnected"}
                /\ s.armed \in BOOLEAN /\ s.offboard \in BOOLEAN
            BY <4>1, <4>3 DEF Air!SafetyState
          <5> DEFINE Resting == {"Failsafe", "Recovery", "Disconnected"}
          <5>1. CASE e = "TriggerFailsafe"
            <6>1. n = Air!EnterFailsafe(s)
              BY <5>1 DEF n, Air!After
            <6>2. Air!EnterFailsafe(s).phase = "Failsafe"
              BY <4>3 DEF Air!EnterFailsafe, Air!SafetyState
            <6> QED BY <6>1, <6>2
          <5>2. CASE e = "Disarm"
            <6>1. s.phase # "Disconnected"
              BY <4>2, <5>2 DEF Air!Admits, Air!LegalIn
            <6>2. n = Air!Grounded(s, "Recovery")
              BY <4>1, <5>0, <5>2, <6>1 DEF n, Air!After
            <6>3. Air!Grounded(s, "Recovery").phase = "Recovery"
              BY <4>3 DEF Air!Grounded, Air!SafetyState
            <6> QED BY <6>2, <6>3
          <5>3. CASE e = "Disconnect"
            <6> DEFINE g == Air!Grounded(s, "Disconnected")
            <6>1. n = [g EXCEPT !.failsafe = FALSE]
              BY <5>3 DEF n, Air!After
            <6>2. g.phase = "Disconnected"
              BY <4>3 DEF Air!Grounded, Air!SafetyState
            <6> HIDE DEF g, n
            <6> QED BY <6>1, <6>2
          <5>4. CASE e = "HeartbeatStale"
            <6> DEFINE g == [s EXCEPT !.offboard_heartbeat_fresh = FALSE]
            <6>1. n = Air!FailsafeIf(s.offboard, g)
              BY <5>4 DEF n, Air!After
            <6>2. g.phase = s.phase /\ g \in Air!SafetyState
              BY <4>3 DEF Air!SafetyState
            <6>3. Air!EnterFailsafe(g).phase = "Failsafe"
              BY <6>2 DEF Air!EnterFailsafe, Air!SafetyState
            <6> HIDE DEF g, n
            <6> QED BY <5>0, <6>1, <6>2, <6>3 DEF Air!FailsafeIf
          <5>5. CASE e \in {"EstimatorInvalid", "ImuUnhealthy"}
            <6> DEFINE g == Air!FailsafeIf(s.armed, s)
            <6>1. \/ n = [g EXCEPT !.estimator_valid = FALSE]
                  \/ n = [g EXCEPT !.imu_healthy = FALSE]
              BY <5>5 DEF n, Air!After
            <6>2. /\ Air!EnterFailsafe(s).phase = "Failsafe"
                  /\ Air!EnterFailsafe(s) \in Air!SafetyState
              BY <4>3, <5>0 DEF Air!EnterFailsafe, Air!SafetyState, Air!Phase
            <6>3. g.phase \in Resting /\ g \in Air!SafetyState
              BY <4>3, <5>0, <6>2 DEF Air!FailsafeIf
            <6> HIDE DEF g, n
            <6>4. n.phase = g.phase
              BY <6>1, <6>3 DEF Air!SafetyState
            <6> QED BY <6>3, <6>4
          <5> QED BY <2>0, <5>1, <5>2, <5>3, <5>4, <5>5
        <4>5. x.command = "none"
          BY <3>3, <4>1
        <4> HIDE DEF n
        <4> QED BY <3>4, <4>2, <4>4, <4>5, Domains DEF Down
      <3> QED BY <3>3, <3>5
    <2> QED BY <2>2, <2>3
  <1> QED BY <1>1, <1>2

-----------------------------------------------------------------------------
(* What a walk does to the authority of its body.                          *)

LivePhase == {"Armed", "Takeoff", "Airborne", "Landing", "Moving", "Underway", "StationKeep"}

\* The propulsion of a sane body is live in these phases, and typed so.
LEMMA LiveIs ==
    ASSUME NEW id \in Id, NEW b \in Sane(id)
    PROVE  /\ actuators_granted(b) <=> b.safety.phase \in LivePhase
           /\ actuators_granted(b) <=> Kind(b) \in Drivable
  <1>0. b.id = id
    BY SaneIs
  <1>1. CASE id = "drone"
    <2> DEFINE s == b.safety
    <2>1. s \in Flown
      BY <1>1, SaneIs
    <2>2. (s.actuators_enabled /\ s.armed /\ ~s.failsafe) <=> s.phase \in LivePhase
      BY <2>1 DEF Flown, Air!CheckInvariants, Air!InFlight, LivePhase
    <2>3. s.phase \in LivePhase <=> Air!aerial_kind(s) \in Drivable
      BY <2>1 DEF Flown, Air!CheckInvariants, Air!InFlight, Air!aerial_kind, LivePhase,
                  Drivable, OffboardControl
    <2> QED BY <1>0, <1>1, <2>2, <2>3, Domains DEF Kind, actuators_granted
  <1>2. CASE id = "rover"
    <2> DEFINE s == b.safety
    <2>1. s \in Driven
      BY <1>2, SaneIs
    <2>2. /\ (s.drive_enabled /\ ~s.estop) <=> s.phase \in LivePhase
          /\ s.phase \in LivePhase <=> Land!ground_kind(s) \in Drivable
      BY <2>1 DEF Driven, Land!GroundState, Land!GroundPhase, Land!ground_invariants,
                  Land!ground_kind, LivePhase, Drivable, OffboardControl
    <2> QED BY <1>0, <1>2, <2>2, Domains DEF Kind, actuators_granted
  <1>3. CASE id \in {"skiff", "surveyor"}
    <2> DEFINE s == b.safety
    <2>1. s \in Sailed
      BY <1>3, SaneIs
    <2>2. /\ (s.thrust_enabled /\ ~s.failsafe) <=> s.phase \in LivePhase
          /\ s.phase \in LivePhase <=> Sea!marine_kind(s) \in Drivable
      BY <2>1 DEF Sailed, Sea!MarineState, Sea!MarinePhase, Sea!marine_invariants,
                  Sea!marine_kind, LivePhase, Drivable, OffboardControl
    <2> QED BY <1>0, <1>3, <2>2, Domains DEF Kind, actuators_granted
  <1> QED BY <1>1, <1>2, <1>3, Domains

Steady == {"HeartbeatFresh", "MissionCommand", "ReachedAltitude", "Land", "DriveCommand",
           "ThrustCommand", "Station", "Resume"}
Ending == {"Touchdown", "Disarm", "Recover", "TriggerFailsafe", "Halt", "EStop", "ClearEstop",
           "Dock", "Failsafe"}

LEMMA FlownPhase ==
    ASSUME NEW s \in Flown, NEW e \in Calm("drone"), Air!Admits(s, e)
    PROVE  /\ e \in Steady =>
                (Air!After(s, e).phase \in LivePhase <=> s.phase \in LivePhase)
           /\ e \in Ending => Air!After(s, e).phase \notin LivePhase
           /\ Air!After(s, e).phase \in LivePhase => s.phase \in LivePhase
           /\ e = "TriggerFailsafe" => Air!After(s, e).failsafe
  <1> USE DEF Steady, Ending, LivePhase
  <1>0. s \in Air!SafetyState /\ s.failsafe \in BOOLEAN
    BY DEF Flown
  <1>1. CASE e = "HeartbeatFresh"
    <2>1. Air!After(s, e) = [s EXCEPT !.offboard_heartbeat_fresh = TRUE]
      BY <1>1 DEF Air!After
    <2>2. Air!After(s, e).phase = s.phase
      BY <1>0, <2>1
    <2> QED BY <1>1, <2>2
  <1>2. CASE e = "MissionCommand"
    <2>1. Air!After(s, e) = s
      BY <1>2 DEF Air!After
    <2> QED BY <1>2, <2>1
  <1>3. CASE e = "ReachedAltitude"
    <2>1. Air!After(s, e) = [s EXCEPT !.phase = "Airborne"] /\ s.phase = "Takeoff"
      BY <1>3 DEF Air!After, Air!Admits, Air!LegalIn
    <2>2. Air!After(s, e).phase = "Airborne"
      BY <1>0, <2>1
    <2> QED BY <1>3, <2>1, <2>2
  <1>4. CASE e = "Land"
    <2>1. Air!After(s, e) = [s EXCEPT !.phase = "Landing"] /\ s.phase \in {"Airborne", "Takeoff"}
      BY <1>4 DEF Air!After, Air!Admits, Air!LegalIn
    <2>2. Air!After(s, e).phase = "Landing"
      BY <1>0, <2>1
    <2> QED BY <1>4, <2>1, <2>2
  <1>5. CASE e = "Touchdown"
    <2>1. Air!After(s, e) = [Air!Grounded(s, "Ready") EXCEPT !.failsafe = FALSE]
      BY <1>5 DEF Air!After
    <2>2. Air!After(s, e).phase = "Ready"
      BY <1>0, <2>1 DEF Air!Grounded
    <2> QED BY <1>5, <2>2
  <1>6. CASE e = "Disarm"
    <2>1. Air!After(s, e) = Air!Grounded(s, IF s.failsafe THEN "Recovery" ELSE "Ready")
      BY <1>6 DEF Air!After
    <2>2. Air!After(s, e).phase \in {"Recovery", "Ready"}
      BY <1>0, <2>1 DEF Air!Grounded
    <2> QED BY <1>6, <2>2
  <1>7. CASE e = "Recover"
    <2>1. Air!After(s, e) = [s EXCEPT !.failsafe = FALSE, !.phase = "Ready"]
      BY <1>7 DEF Air!After
    <2>2. Air!After(s, e).phase = "Ready"
      BY <1>0, <2>1
    <2> QED BY <1>7, <2>2
  <1>8. CASE e = "TriggerFailsafe"
    <2>1. Air!After(s, e) = Air!EnterFailsafe(s)
      BY <1>8 DEF Air!After
    <2>2. Air!After(s, e).phase = "Failsafe" /\ Air!After(s, e).failsafe
      BY <1>0, <2>1 DEF Air!EnterFailsafe
    <2> QED BY <1>8, <2>2
  <1>9. CASE e = "Disconnect"
    <2>1. Air!After(s, e) = [Air!Grounded(s, "Disconnected") EXCEPT !.failsafe = FALSE]
      BY <1>9 DEF Air!After
    <2>2. Air!After(s, e).phase = "Disconnected"
      BY <1>0, <2>1 DEF Air!Grounded
    <2> QED BY <1>9, <2>2
  <1>10. CASE e \in {"HeartbeatStale", "EstimatorInvalid", "ImuUnhealthy"}
    <2> DEFINE g == [s EXCEPT !.offboard_heartbeat_fresh = FALSE]
               n == Air!After(s, e)
    <2>1. /\ g.phase = s.phase /\ Air!EnterFailsafe(g).phase = "Failsafe"
          /\ Air!EnterFailsafe(s).phase = "Failsafe"
      BY <1>0 DEF Air!EnterFailsafe
    <2>2. \/ n = Air!FailsafeIf(s.offboard, g)
          \/ n = [Air!FailsafeIf(s.armed, s) EXCEPT !.estimator_valid = FALSE]
          \/ n = [Air!FailsafeIf(s.armed, s) EXCEPT !.imu_healthy = FALSE]
      BY <1>10 DEF Air!After
    <2>3. /\ Air!FailsafeIf(s.offboard, g) \in {g, Air!EnterFailsafe(g)}
          /\ Air!FailsafeIf(s.armed, s) \in {s, Air!EnterFailsafe(s)}
      BY DEF Air!FailsafeIf
    <2>4. Air!FailsafeIf(s.armed, s).phase \in {s.phase, "Failsafe"}
      BY <2>1, <2>3
    <2> DEFINE h == Air!FailsafeIf(s.armed, s)
    <2>5. /\ [h EXCEPT !.estimator_valid = FALSE].phase = h.phase
          /\ [h EXCEPT !.imu_healthy = FALSE].phase = h.phase
      <3>1. Air!EnterFailsafe(s) \in Air!SafetyState
        BY <1>0 DEF Air!EnterFailsafe
      <3>2. h \in Air!SafetyState
        BY <1>0, <2>3, <3>1
      <3> HIDE DEF h
      <3> QED BY <3>2
    <2> HIDE DEF g, n, h
    <2>6. n.phase \in {s.phase, "Failsafe"}
      BY <2>1, <2>2, <2>3, <2>4, <2>5 DEF h
    <2>7. n.phase \in LivePhase => s.phase \in LivePhase
      BY <2>6
    <2> QED BY <1>10, <2>7 DEF n
  <1>11. e \in {"HeartbeatFresh", "MissionCommand", "ReachedAltitude", "Land", "Touchdown",
                "Disarm", "Recover", "TriggerFailsafe", "Disconnect", "HeartbeatStale",
                "EstimatorInvalid", "ImuUnhealthy"}
    BY Domains DEF Calm
  <1> HIDE DEF Steady, Ending, LivePhase
  <1> QED BY <1>1, <1>2, <1>3, <1>4, <1>5, <1>6, <1>7, <1>8, <1>9, <1>10, <1>11

\* What an event a body takes does to its authority.
LEMMA PostLive ==
    ASSUME NEW id \in Id, NEW b \in Sane(id), NEW e \in Calm(id), Admits(b, e)
    PROVE  /\ e \in Steady => (actuators_granted(Post(b, e)) <=> actuators_granted(b))
           /\ e \in Ending => /\ ~actuators_granted(Post(b, e))
                              /\ e # "Disarm" => Post(b, e).command = "none"
           /\ e \notin {"Release", "Undock"} =>
                (actuators_granted(Post(b, e)) => actuators_granted(b))
           /\ e \in {"Release", "Undock"} => actuators_granted(Post(b, e))
  <1> DEFINE n == After(b, e)
             p == b.safety.phase
  <1>0. b.id = id /\ Post(b, e) \in Sane(id) /\ Post(b, e).safety = n
    BY SaneIs, SanePost
  <1>1. /\ actuators_granted(Post(b, e)) <=> n.phase \in LivePhase
        /\ actuators_granted(b) <=> p \in LivePhase
    BY <1>0, LiveIs
  <1>2. Cuts(b, e) => Post(b, e).command = "none"
    <2>1. SUFFICES ASSUME Cuts(b, e) PROVE Post(b, e).command = "none"
      OBVIOUS
    <2>2. Post(b, e) = [b EXCEPT !.safety = n, !.command = "none"]
      BY <2>1 DEF Post
    <2>3. b = [id |-> id, safety |-> b.safety, command |-> b.command]
      BY SaneIs
    <2> HIDE DEF n
    <2> QED BY <2>2, <2>3
  <1>3. /\ e \in Steady => (n.phase \in LivePhase <=> p \in LivePhase)
        /\ e \in Ending => n.phase \notin LivePhase /\ (e # "Disarm" => Cuts(b, e))
        /\ e \notin {"Release", "Undock"} => (n.phase \in LivePhase => p \in LivePhase)
        /\ e \in {"Release", "Undock"} => n.phase \in LivePhase
    <2>1. CASE id = "drone"
      <3>1. b.safety \in Flown /\ n = Air!After(b.safety, e) /\ Air!Admits(b.safety, e)
        BY <1>0, <2>1, SaneIs, Domains DEF After, Admits
      <3>2. /\ e \in Steady => (n.phase \in LivePhase <=> p \in LivePhase)
            /\ e \in Ending => n.phase \notin LivePhase
            /\ n.phase \in LivePhase => p \in LivePhase
            /\ e = "TriggerFailsafe" => n.failsafe
        BY <2>1, <3>1, FlownPhase
      <3>3. e \in {"HeartbeatFresh", "MissionCommand", "ReachedAltitude", "Land", "Touchdown",
                   "Disarm", "Recover", "TriggerFailsafe", "Disconnect", "HeartbeatStale",
                   "EstimatorInvalid", "ImuUnhealthy"}
        BY <2>1, Domains DEF Calm
      <3>4. e \in Ending /\ e # "Disarm" => Cuts(b, e)
        BY <1>0, <2>1, <3>2, <3>3, Domains DEF Cuts, Ending
      <3> HIDE DEF n, p
      <3> QED BY <3>2, <3>3, <3>4
    <2>2. CASE id = "rover"
      <3> DEFINE s == b.safety
      <3>1. s \in Driven /\ n = Land!After(s, e) /\ Land!Admits(s, e) /\ e \in Land!GroundEvent
        BY <1>0, <2>2, SaneIs, Domains DEF After, Admits, Calm
      <3>2. /\ e = "Release" => n = [s EXCEPT !.phase = "Moving", !.drive_enabled = TRUE]
            /\ e = "Halt" => n = [s EXCEPT !.phase = "Parked", !.drive_enabled = FALSE]
            /\ e = "EStop" => n = Land!stopped
            /\ e = "ClearEstop" => n = Land!parked
            /\ e = "DriveCommand" => n = s
        BY <3>1 DEF Land!After
      <3>3. e \in {"Release", "Halt", "EStop", "ClearEstop", "DriveCommand"}
        BY <3>1 DEF Land!GroundEvent
      <3>4. /\ e = "Release" => n.phase = "Moving"
            /\ e = "Halt" => n.phase = "Parked" /\ ~n.drive_enabled
            /\ e = "EStop" => n.phase = "EStop" /\ ~n.drive_enabled
            /\ e = "ClearEstop" => n.phase = "Parked" /\ ~n.drive_enabled
            /\ e = "DriveCommand" => n.phase = p
        <4>1. s \in [phase : Land!GroundPhase, drive_enabled : BOOLEAN, estop : BOOLEAN]
          BY <3>1 DEF Driven, Land!GroundState
        <4> HIDE DEF n, s
        <4>2. /\ e = "Release" => n.phase = "Moving"
              /\ e = "Halt" => n.phase = "Parked" /\ ~n.drive_enabled
          BY <3>2, <4>1
        <4>3. /\ e = "EStop" => n.phase = "EStop" /\ ~n.drive_enabled
              /\ e = "ClearEstop" => n.phase = "Parked" /\ ~n.drive_enabled
          BY <3>2 DEF Land!stopped, Land!parked
        <4> QED BY <3>2, <4>2, <4>3 DEF s
      <3>5. ~n.drive_enabled => Cuts(b, e)
        BY <1>0, <2>2, Domains DEF Cuts
      <3> HIDE DEF n, p
      <3> QED BY <3>3, <3>4, <3>5 DEF Steady, Ending, LivePhase
    <2>3. CASE id \in {"skiff", "surveyor"}
      <3> DEFINE s == b.safety
      <3>1. s \in Sailed /\ n = Sea!After(s, e) /\ Sea!Admits(s, e) /\ e \in Sea!MarineEvent
        BY <1>0, <2>3, SaneIs, Domains DEF After, Admits, Calm
      <3>2. /\ e = "Undock" => n = [s EXCEPT !.phase = "Underway", !.thrust_enabled = TRUE]
            /\ e = "Station" => n = [s EXCEPT !.phase = "StationKeep", !.thrust_enabled = TRUE]
            /\ e = "Resume" => n = [s EXCEPT !.phase = "Underway", !.thrust_enabled = TRUE]
            /\ e = "Dock" => n = Sea!docked
            /\ e = "Recover" => n = Sea!docked
            /\ e = "Failsafe" => n = Sea!tripped
            /\ e = "ThrustCommand" => n = s
        BY <3>1 DEF Sea!After
      <3>3. e \in {"Undock", "Dock", "Station", "Resume", "ThrustCommand", "Failsafe", "Recover"}
        BY <3>1 DEF Sea!MarineEvent
      <3>4. /\ e = "Undock" => n.phase = "Underway"
            /\ e = "Station" => n.phase = "StationKeep" /\ p = "Underway"
            /\ e = "Resume" => n.phase = "Underway" /\ p = "StationKeep"
            /\ e \in {"Dock", "Recover"} => n.phase = "Docked" /\ ~n.thrust_enabled
            /\ e = "Failsafe" => n.phase = "Failsafe" /\ ~n.thrust_enabled
            /\ e = "ThrustCommand" => n.phase = p
        <4>1. /\ s \in [phase : Sea!MarinePhase, thrust_enabled : BOOLEAN, failsafe : BOOLEAN]
              /\ e = "Station" => s.phase = "Underway"
              /\ e = "Resume" => s.phase = "StationKeep"
          BY <3>1 DEF Sailed, Sea!MarineState, Sea!Admits
        <4> HIDE DEF n, s
        <4>2. /\ e = "Undock" => n.phase = "Underway"
              /\ e = "Station" => n.phase = "StationKeep"
              /\ e = "Resume" => n.phase = "Underway"
          BY <3>2, <4>1
        <4>3. /\ e \in {"Dock", "Recover"} => n.phase = "Docked" /\ ~n.thrust_enabled
              /\ e = "Failsafe" => n.phase = "Failsafe" /\ ~n.thrust_enabled
          BY <3>2 DEF Sea!docked, Sea!tripped
        <4> QED BY <3>2, <4>1, <4>2, <4>3 DEF s
      <3>5. ~n.thrust_enabled => Cuts(b, e)
        BY <1>0, <2>3, Domains DEF Cuts
      <3> HIDE DEF n, p
      <3> QED BY <3>3, <3>4, <3>5 DEF Steady, Ending, LivePhase
    <2> QED BY <2>1, <2>2, <2>3, Domains
  <1> HIDE DEF n, p
  <1> QED BY <1>0, <1>1, <1>2, <1>3

\* What authority a body has is its kernel's to say.
LEMMA SameAuthority ==
    ASSUME NEW x, NEW y, x.id = y.id, x.safety = y.safety
    PROVE  actuators_granted(x) <=> actuators_granted(y)
  BY ZenonT(60) DEF actuators_granted

LEMMA SettledIs ==
    ASSUME NEW id \in Id, NEW x \in Sane(id), NEW walk
    PROVE  LET y == Settled(x, walk) IN
           /\ actuators_granted(y) <=> actuators_granted(x)
           /\ walk.stages # "hold" /\ walk.posts = <<"Disarm">> => y.command = "none"
           /\ walk.stages # "hold" /\ walk.posts # <<"Disarm">> => y = x
  <1> DEFINE y == Settled(x, walk)
  <1>1. x = [id |-> id, safety |-> x.safety, command |-> x.command]
    BY SaneIs
  <1>2. y \in {x, [x EXCEPT !.command = "none"], [x EXCEPT !.command = "hold"]}
    BY DEF Settled
  <1>3. /\ walk.stages # "hold" /\ walk.posts = <<"Disarm">> => y = [x EXCEPT !.command = "none"]
        /\ walk.stages # "hold" /\ walk.posts # <<"Disarm">> => y = x
    BY DEF Settled
  <1> HIDE DEF y
  <1>4. y.id = x.id /\ y.safety = x.safety
    BY <1>1, <1>2
  <1>5. [x EXCEPT !.command = "none"].command = "none"
    BY <1>1
  <1> QED BY <1>3, <1>4, <1>5, SameAuthority DEF y

\* A walk that is refused before its first event leaves its body.
LEMMA AttachIs ==
    ASSUME NEW b, NEW walk
    PROVE  LET r == Attach(b, walk)
               p == Posted(b, walk.posts) IN
           \/ r.body = b /\ r.error # "none"
           \/ /\ Kind(b) \in walk.from
              /\ r = IF p.error = "none" THEN [p EXCEPT !.body = Settled(p.body, walk)] ELSE p
  <1>1. CASE Kind(b) \notin walk.from
    BY <1>1 DEF Attach
  <1>2. CASE Kind(b) \in walk.from /\ walk.live /\ ~b.safety.offboard_heartbeat_fresh
    BY <1>2 DEF Attach
  <1>3. CASE Kind(b) \in walk.from /\ ~(walk.live /\ ~b.safety.offboard_heartbeat_fresh)
    BY <1>3 DEF Attach
  <1> QED BY <1>1, <1>2, <1>3

\* A walk of no event but steady ones leaves a body the authority it has.
LEMMA SteadyWalk ==
    ASSUME NEW id \in Id, NEW b \in Sane(id), NEW walk, walk.posts \in Seq(Calm(id) \cap Steady)
    PROVE  LET r == Attach(b, walk) IN
           /\ Left(id, b, walk, r)
           /\ actuators_granted(r.body) <=> actuators_granted(b)
  <1> DEFINE r == Attach(b, walk)
             p == Posted(b, walk.posts)
             K == {x \in Sane(id) : actuators_granted(x) <=> actuators_granted(b)}
  <1>1. walk.posts \in Seq(Calm(id))
    OBVIOUS
  <1>2. Left(id, b, walk, r)
    BY <1>1, AttachCalm
  <1>3. ASSUME NEW x \in K, NEW e \in Calm(id) \cap Steady, Admits(x, e) PROVE Post(x, e) \in K
    <2>1. x \in Sane(id) /\ e \in Calm(id) /\ e \in Steady
      OBVIOUS
    <2>2. Post(x, e) \in Sane(id) /\ (actuators_granted(Post(x, e)) <=> actuators_granted(x))
      BY <1>3, <2>1, SanePost, PostLive
    <2> QED BY <2>2
  <1>4. b \in K
    OBVIOUS
  <1>5. p \in [body : K, error : {"none", "Rejected"}]
    <2> HIDE DEF K
    <2> QED BY <1>3, <1>4, PostedIn
  <1>6. \/ r.body = b
        \/ r = IF p.error = "none" THEN [p EXCEPT !.body = Settled(p.body, walk)] ELSE p
    BY AttachIs
  <1>7. p.body \in Sane(id) /\ p = [body |-> p.body, error |-> p.error]
        /\ (actuators_granted(p.body) <=> actuators_granted(b))
    BY <1>5
  <1> HIDE DEF p, K, r
  <1>8. actuators_granted(Settled(p.body, walk)) <=> actuators_granted(b)
    BY <1>7, SettledIs
  <1>9. r.body \in {b, p.body, Settled(p.body, walk)}
    BY <1>6, <1>7
  <1>10. actuators_granted(r.body) <=> actuators_granted(b)
    BY <1>7, <1>8, <1>9
  <1> QED BY <1>2, <1>10 DEF r

\* A walk of one event is refused and leaves its body, or the event is taken.
LEMMA SingleWalk ==
    ASSUME NEW id \in Id, NEW b \in Sane(id), NEW walk, NEW e, walk.posts = <<e>>
    PROVE  LET r == Attach(b, walk) IN
           \/ r.body = b /\ r.error # "none"
           \/ /\ r.error = "none" /\ Admits(b, e) /\ Kind(b) \in walk.from
              /\ r.body = Settled(Post(b, e), walk)
  <1> DEFINE r == Attach(b, walk)
             p == Posted(b, walk.posts)
  <1>1. p = Given(Fresh(b), e)
    BY PostedOne
  <1>2. \/ r.body = b /\ r.error # "none"
        \/ /\ Kind(b) \in walk.from
           /\ r = IF p.error = "none" THEN [p EXCEPT !.body = Settled(p.body, walk)] ELSE p
    BY AttachIs
  <1>3. CASE Admits(b, e)
    <2>1. p = [body |-> Post(b, e), error |-> "none"]
      BY <1>1, <1>3, GivenTaken DEF Fresh
    <2> HIDE DEF p, r
    <2> QED BY <1>2, <1>3, <2>1 DEF r
  <1>4. CASE ~Admits(b, e)
    <2>1. Fresh(b).error = "none" /\ Fresh(b).body = b
      BY DEF Fresh
    <2>2. p = [Fresh(b) EXCEPT !.error = "Rejected"]
      BY <1>1, <1>4, <2>1, GivenRejected
    <2>3. p.body = b /\ p.error = "Rejected"
      <3> HIDE DEF p
      <3> QED BY <2>2 DEF Fresh
    <2> HIDE DEF p, r
    <2> QED BY <1>2, <2>3 DEF r
  <1> QED BY <1>3, <1>4

\* What an ending walk is: it leaves its body, or takes its authority and its
\* command.
EndsBy(b, r) ==
    /\ r.error = "none" => ~actuators_granted(r.body) /\ r.body.command = "none"
    /\ r.error # "none" => r.body = b

LEMMA EndingWalk ==
    ASSUME NEW id \in Id, NEW b \in Sane(id), NEW walk, NEW e \in Calm(id), e \in Ending,
           walk.posts = <<e>>, walk.stages = "none"
    PROVE  Left(id, b, walk, Attach(b, walk)) /\ EndsBy(b, Attach(b, walk))
  <1> DEFINE r == Attach(b, walk)
  <1>1. walk.posts \in Seq(Calm(id))
    OBVIOUS
  <1>2. Left(id, b, walk, r)
    BY <1>1, AttachCalm
  <1>3. \/ r.body = b /\ r.error # "none"
        \/ r.error = "none" /\ Admits(b, e) /\ r.body = Settled(Post(b, e), walk)
    BY SingleWalk
  <1> HIDE DEF r
  <1>4. CASE r.body = b /\ r.error # "none"
    BY <1>2, <1>4 DEF EndsBy, r
  <1>5. CASE r.error = "none" /\ Admits(b, e) /\ r.body = Settled(Post(b, e), walk)
    <2> DEFINE x == Post(b, e)
    <2>1. x \in Sane(id) /\ ~actuators_granted(x) /\ (e # "Disarm" => x.command = "none")
      BY <1>5, SanePost, PostLive
    <2> HIDE DEF x
    <2>2. /\ actuators_granted(Settled(x, walk)) <=> actuators_granted(x)
          /\ walk.posts = <<"Disarm">> => Settled(x, walk).command = "none"
          /\ walk.posts # <<"Disarm">> => Settled(x, walk) = x
      BY <2>1, SettledIs
    <2>3. walk.posts = <<"Disarm">> <=> e = "Disarm"
      OBVIOUS
    <2>4. ~actuators_granted(r.body) /\ r.body.command = "none"
      BY <1>5, <2>1, <2>2, <2>3 DEF x
    <2> QED BY <1>2, <1>5, <2>4 DEF EndsBy, r
  <1> QED BY <1>3, <1>4, <1>5

\* A walk that no live body can take does not end the authority of any; and if
\* its events are ending ones it does not grant any.
LEMMA AsleepWalk ==
    ASSUME NEW id \in Id, NEW b \in Sane(id), NEW walk, walk.from \cap Drivable = {},
           walk.posts \in Seq(Calm(id) \cap Ending)
    PROVE  LET r == Attach(b, walk) IN
           /\ Left(id, b, walk, r)
           /\ actuators_granted(r.body) <=> actuators_granted(b)
  <1> DEFINE r == Attach(b, walk)
             p == Posted(b, walk.posts)
             K == {x \in Sane(id) : ~actuators_granted(x)}
  <1>1. walk.posts \in Seq(Calm(id))
    OBVIOUS
  <1>2. Left(id, b, walk, r)
    BY <1>1, AttachCalm
  <1>3. CASE Kind(b) \notin walk.from
    <2>1. r.body = b
      BY <1>2, <1>3 DEF Left
    <2> QED BY <1>2, <2>1
  <1>4. CASE Kind(b) \in walk.from
    <2>1. b \in K
      BY <1>4, LiveIs
    <2>2. ASSUME NEW x \in K, NEW e \in Calm(id) \cap Ending, Admits(x, e) PROVE Post(x, e) \in K
      <3>1. x \in Sane(id) /\ e \in Calm(id) /\ e \in Ending
        OBVIOUS
      <3>2. Post(x, e) \in Sane(id) /\ ~actuators_granted(Post(x, e))
        BY <2>2, <3>1, SanePost, PostLive
      <3> QED BY <3>2
    <2>3. p \in [body : K, error : {"none", "Rejected"}]
      <3> HIDE DEF K
      <3> QED BY <2>1, <2>2, PostedIn
    <2>4. \/ r.body = b
          \/ r = IF p.error = "none" THEN [p EXCEPT !.body = Settled(p.body, walk)] ELSE p
      BY AttachIs
    <2>5. p.body \in Sane(id) /\ p = [body |-> p.body, error |-> p.error]
          /\ ~actuators_granted(p.body)
      BY <2>3
    <2>6. ~actuators_granted(b)
      BY <2>1
    <2> HIDE DEF p, K, r
    <2>7. ~actuators_granted(Settled(p.body, walk))
      BY <2>5, SettledIs
    <2>8. r.body \in {b, p.body, Settled(p.body, walk)}
      BY <2>4, <2>5
    <2>9. ~actuators_granted(r.body)
      BY <2>5, <2>6, <2>7, <2>8
    <2> QED BY <1>2, <2>6, <2>9 DEF r
  <1> QED BY <1>3, <1>4

LEMMA UndockWalk ==
    ASSUME NEW id \in {"skiff", "surveyor"}, NEW b \in Sane(id)
    PROVE  LET r == Attach(b, attach_undock) IN
           /\ Left(id, b, attach_undock, r)
           /\ r.error = "none" => actuators_granted(r.body)
           /\ r.error # "none" => r.body = b
  <1> DEFINE r == Attach(b, attach_undock)
  <1>0. id \in Id /\ "Undock" \in Calm(id)
    BY Domains DEF Calm, Sea!MarineEvent
  <1>1. attach_undock.posts = <<"Undock">> /\ attach_undock.stages = "none"
    BY DEF attach_undock, Walk
  <1>2. attach_undock.posts \in Seq(Calm(id))
    BY <1>0, <1>1
  <1>3. Left(id, b, attach_undock, r)
    BY <1>0, <1>2, AttachCalm
  <1>4. \/ r.body = b /\ r.error # "none"
        \/ r.error = "none" /\ Admits(b, "Undock") /\ r.body = Settled(Post(b, "Undock"), attach_undock)
    BY <1>0, <1>1, SingleWalk
  <1>5. ASSUME Admits(b, "Undock")
        PROVE  actuators_granted(Settled(Post(b, "Undock"), attach_undock))
    <2>1. Post(b, "Undock") \in Sane(id) /\ actuators_granted(Post(b, "Undock"))
      BY <1>0, <1>5, SanePost, PostLive
    <2> QED BY <1>0, <2>1, SettledIs
  <1> HIDE DEF r
  <1> QED BY <1>3, <1>4, <1>5 DEF r

\* The kinds of a live body.
LEMMA LiveKinds ==
    ASSUME NEW id \in Id, NEW b \in Sane(id), actuators_granted(b)
    PROVE  /\ id = "drone" => Kind(b) \in OffboardControl
           /\ id = "rover" => Kind(b) = "Moving" /\ b.safety.phase = "Moving"
           /\ id \in {"skiff", "surveyor"} => Kind(b) \in {"Underway", "StationKeep"}
  <1>0. b.id = id
    BY SaneIs
  <1>1. CASE id = "drone"
    <2>1. b.safety \in Flown /\ b.safety.armed /\ ~b.safety.failsafe
      BY <1>0, <1>1, SaneIs, Domains DEF actuators_granted
    <2>2. Air!aerial_kind(b.safety) \in {"Offboard", "Takeoff", "Airborne", "Landing"}
      BY <2>1 DEF Flown, Air!CheckInvariants, Air!InFlight, Air!aerial_kind
    <2> QED BY <1>0, <1>1, <2>2, Domains DEF Kind, OffboardControl
  <1>2. CASE id = "rover"
    <2>1. b.safety \in Driven /\ b.safety.drive_enabled /\ ~b.safety.estop
      BY <1>0, <1>2, SaneIs, Domains DEF actuators_granted
    <2>2. Land!ground_kind(b.safety) = "Moving" /\ b.safety.phase = "Moving"
      BY <2>1 DEF Driven, Land!GroundState, Land!GroundPhase, Land!ground_invariants,
                  Land!ground_kind
    <2> QED BY <1>0, <1>2, <2>2, Domains DEF Kind
  <1>3. CASE id \in {"skiff", "surveyor"}
    <2>1. b.safety \in Sailed /\ b.safety.thrust_enabled /\ ~b.safety.failsafe
      BY <1>0, <1>3, SaneIs, Domains DEF actuators_granted
    <2>2. Sea!marine_kind(b.safety) \in {"Underway", "StationKeep"}
      BY <2>1 DEF Sailed, Sea!MarineState, Sea!MarinePhase, Sea!marine_invariants,
                  Sea!marine_kind
    <2> QED BY <1>0, <1>3, <2>2, Domains DEF Kind
  <1> QED BY <1>1, <1>2, <1>3, Domains

\* The walks that stop a body.  Each takes the authority of every live body.
StopOf(id) ==
    CASE Domain(id) = "aerial" -> {attach_failsafe}
      [] Domain(id) = "ground" -> {attach_park, attach_estop}
      [] Domain(id) = "marine" -> {attach_dock, attach_marine_failsafe}

LEMMA StopWalk ==
    ASSUME NEW id \in Id, NEW b \in Sane(id), NEW walk \in StopOf(id)
    PROVE  LET r == Attach(b, walk) IN
           /\ Left(id, b, walk, r) /\ EndsBy(b, r) /\ walk.stages = "none"
           /\ ~actuators_granted(r.body)
           /\ actuators_granted(b) => r.error = "none"
  <1>0. b.id = id
    BY SaneIs
  <1>1. \E e \in Calm(id) :
          /\ e \in Ending /\ walk.posts = <<e>> /\ walk.stages = "none" /\ ~walk.live
          /\ actuators_granted(b) => Kind(b) \in walk.from /\ Admits(b, e)
    <2>1. CASE id = "drone"
      <3>1. walk = attach_failsafe
        BY <2>1, Domains DEF StopOf
      <3>2. /\ walk.posts = <<"TriggerFailsafe">> /\ walk.stages = "none" /\ ~walk.live
            /\ OffboardControl \subseteq walk.from
        BY <3>1 DEF attach_failsafe, Walk, CanTripFailsafe
      <3>3. "TriggerFailsafe" \in Calm(id) /\ "TriggerFailsafe" \in Ending
        BY <2>1, Domains DEF Calm, Ending
      <3>4. Admits(b, "TriggerFailsafe")
        BY <2>1, FellTaken, Domains
      <3>5. actuators_granted(b) => Kind(b) \in walk.from
        BY <2>1, <3>2, LiveKinds
      <3> QED BY <3>2, <3>3, <3>4, <3>5
    <2>2. CASE id = "rover"
      <3>0. /\ "Halt" \in Calm(id) /\ "Halt" \in Ending
            /\ "EStop" \in Calm(id) /\ "EStop" \in Ending
        BY <2>2, Domains DEF Calm, Ending, Land!GroundEvent
      <3>1. CASE walk = attach_park
        <4>1. /\ walk.posts = <<"Halt">> /\ walk.stages = "none" /\ ~walk.live
              /\ "Moving" \in walk.from
          BY <3>1 DEF attach_park, Walk
        <4>2. b.safety.phase = "Moving" => Admits(b, "Halt")
          BY <1>0, <2>2, Domains DEF Admits, Land!Admits
        <4>3. actuators_granted(b) => Kind(b) \in walk.from /\ Admits(b, "Halt")
          BY <2>2, <4>1, <4>2, LiveKinds
        <4> QED BY <3>0, <4>1, <4>3
      <3>2. CASE walk = attach_estop
        <4>1. /\ walk.posts = <<"EStop">> /\ walk.stages = "none" /\ ~walk.live
              /\ "Moving" \in walk.from
          BY <3>2 DEF attach_estop, Walk
        <4>2. Admits(b, "EStop")
          BY <2>2, FellTaken, Domains
        <4>3. actuators_granted(b) => Kind(b) \in walk.from
          BY <2>2, <4>1, LiveKinds
        <4> QED BY <3>0, <4>1, <4>2, <4>3
      <3> QED BY <2>2, <3>1, <3>2, Domains DEF StopOf
    <2>3. CASE id \in {"skiff", "surveyor"}
      <3>0. /\ "Dock" \in Calm(id) /\ "Dock" \in Ending
            /\ "Failsafe" \in Calm(id) /\ "Failsafe" \in Ending
        BY <2>3, Domains DEF Calm, Ending, Sea!MarineEvent
      <3>1. CASE walk = attach_dock
        <4>1. /\ walk.posts = <<"Dock">> /\ walk.stages = "none" /\ ~walk.live
              /\ {"Underway", "StationKeep"} \subseteq walk.from
          BY <3>1 DEF attach_dock, Walk
        <4>2. Admits(b, "Dock")
          BY <1>0, <2>3, Domains DEF Admits, Sea!Admits
        <4>3. actuators_granted(b) => Kind(b) \in walk.from
          BY <2>3, <4>1, LiveKinds
        <4> QED BY <3>0, <4>1, <4>2, <4>3
      <3>2. CASE walk = attach_marine_failsafe
        <4>1. /\ walk.posts = <<"Failsafe">> /\ walk.stages = "none" /\ ~walk.live
              /\ {"Underway", "StationKeep"} \subseteq walk.from
          BY <3>2 DEF attach_marine_failsafe, Walk
        <4>2. Admits(b, "Failsafe")
          BY <2>3, FellTaken, Domains
        <4>3. actuators_granted(b) => Kind(b) \in walk.from
          BY <2>3, <4>1, LiveKinds
        <4> QED BY <3>0, <4>1, <4>2, <4>3
      <3> QED BY <2>3, <3>1, <3>2, Domains DEF StopOf
    <2> QED BY <2>1, <2>2, <2>3, Domains
  <1>2. PICK e \in Calm(id) :
          /\ e \in Ending /\ walk.posts = <<e>> /\ walk.stages = "none" /\ ~walk.live
          /\ actuators_granted(b) => Kind(b) \in walk.from /\ Admits(b, e)
    BY <1>1
  <1> DEFINE r == Attach(b, walk)
  <1>3. Left(id, b, walk, r) /\ EndsBy(b, r)
    BY <1>2, EndingWalk
  <1>4. ASSUME actuators_granted(b) PROVE r.error = "none"
    <2>1. Posted(b, walk.posts) = Fresh(Post(b, e))
      BY <1>2, <1>4, PostedOne, GivenTaken
    <2>2. r = Fresh(Settled(Post(b, e), walk))
      BY <1>2, <1>4, <2>1, AttachTaken
    <2> QED BY <2>2 DEF Fresh
  <1>5. ~actuators_granted(r.body)
    <2>1. CASE r.error = "none"
      BY <1>3, <2>1 DEF EndsBy
    <2>2. CASE r.error # "none"
      BY <1>3, <1>4, <2>2 DEF EndsBy
    <2> QED BY <2>1, <2>2
  <1> HIDE DEF r
  <1> QED BY <1>2, <1>3, <1>4, <1>5 DEF r

\* The walk leaves its body no command or staged velocity it had not, and takes
\* its authority only together with its command.
Mild(id, b, walk, r) ==
    /\ Left(id, b, walk, r) /\ walk.stages \in {"none", "zero", "hold"}
    /\ actuators_granted(b) /\ ~actuators_granted(r.body) =>
         r.error = "none" /\ r.body.command = "none"

\* The walks of a body that grant it nothing, and those that do.
TameOf(id) ==
    CASE Domain(id) = "aerial" ->
           {attach_start_takeoff, attach_airborne, attach_land, attach_touchdown,
            attach_failsafe, attach_disarm, attach_hold}
           \cup {attach_recover_ready(b) : b \in Sane("drone")}
      [] Domain(id) = "ground" -> {attach_park, attach_estop, attach_reset}
      [] Domain(id) = "marine" -> {attach_station, attach_resume, attach_dock,
                                   attach_marine_failsafe, attach_recover}
GrantOf(id) ==
    CASE Domain(id) = "aerial" -> {attach_offboard, attach_takeoff}
      [] Domain(id) = "ground" -> {attach_drive}
      [] Domain(id) = "marine" -> {attach_undock}

LEMMA MildSteady ==
    ASSUME NEW id \in Id, NEW b \in Sane(id), NEW walk, walk.posts \in Seq(Calm(id) \cap Steady),
           walk.stages \in {"none", "zero", "hold"}
    PROVE  LET r == Attach(b, walk) IN
           Mild(id, b, walk, r) /\ (actuators_granted(r.body) <=> actuators_granted(b))
  <1> DEFINE r == Attach(b, walk)
  <1>1. Left(id, b, walk, r) /\ (actuators_granted(r.body) <=> actuators_granted(b))
    BY SteadyWalk
  <1> HIDE DEF r
  <1> QED BY <1>1 DEF Mild, r

LEMMA MildEnding ==
    ASSUME NEW id \in Id, NEW b \in Sane(id), NEW walk, NEW e \in Calm(id), e \in Ending,
           walk.posts = <<e>>, walk.stages = "none"
    PROVE  LET r == Attach(b, walk) IN
           Mild(id, b, walk, r) /\ (actuators_granted(r.body) => actuators_granted(b))
  <1> DEFINE r == Attach(b, walk)
  <1>1. Left(id, b, walk, r) /\ EndsBy(b, r)
    BY EndingWalk
  <1> HIDE DEF r
  <1>2. r.error = "none" \/ r.body = b
    BY <1>1 DEF EndsBy
  <1> QED BY <1>1, <1>2 DEF Mild, EndsBy, r

LEMMA MildAsleep ==
    ASSUME NEW id \in Id, NEW b \in Sane(id), NEW walk, walk.from \cap Drivable = {},
           walk.posts \in Seq(Calm(id) \cap Ending), walk.stages = "none"
    PROVE  LET r == Attach(b, walk) IN
           Mild(id, b, walk, r) /\ (actuators_granted(r.body) <=> actuators_granted(b))
  <1> DEFINE r == Attach(b, walk)
  <1>1. Left(id, b, walk, r) /\ (actuators_granted(r.body) <=> actuators_granted(b))
    BY AsleepWalk
  <1> HIDE DEF r
  <1> QED BY <1>1 DEF Mild, r

LEMMA TameWalk ==
    ASSUME NEW id \in Id, NEW b \in Sane(id), NEW walk \in TameOf(id)
    PROVE  LET r == Attach(b, walk) IN
           Mild(id, b, walk, r) /\ (actuators_granted(r.body) => actuators_granted(b))
  <1>1. CASE id = "drone"
    <2>0. /\ {"HeartbeatFresh", "Land", "MissionCommand", "ReachedAltitude"} \subseteq Calm(id) \cap Steady
          /\ {"Disarm", "Recover", "Touchdown", "TriggerFailsafe"} \subseteq Calm(id) \cap Ending
      BY <1>1, Domains DEF Steady, Ending, Calm
    <2>1. CASE walk = attach_airborne
      <3>1. walk.posts = <<"ReachedAltitude">> /\ walk.stages = "none"
        BY <2>1 DEF attach_airborne, Walk
      <3>2. walk.posts \in Seq(Calm(id) \cap Steady)
        BY <2>0, <3>1
      <3> QED BY <3>1, <3>2, MildSteady
    <2>2. CASE walk = attach_land
      <3>1. walk.posts = <<"Land">> /\ walk.stages = "none"
        BY <2>2 DEF attach_land, Walk
      <3>2. walk.posts \in Seq(Calm(id) \cap Steady)
        BY <2>0, <3>1
      <3> QED BY <3>1, <3>2, MildSteady
    <2>3. CASE walk = attach_hold
      <3>1. walk.posts = <<"HeartbeatFresh", "MissionCommand">> /\ walk.stages = "hold"
        BY <2>3 DEF attach_hold, Walk
      <3>2. walk.posts \in Seq(Calm(id) \cap Steady)
        BY <2>0, <3>1
      <3> QED BY <3>1, <3>2, MildSteady
    <2>4. CASE walk = attach_touchdown
      <3>1. walk.posts = <<"Touchdown">> /\ walk.stages = "none"
        BY <2>4 DEF attach_touchdown, Walk
      <3> QED BY <2>0, <3>1, MildEnding
    <2>5. CASE walk = attach_failsafe
      <3>1. walk.posts = <<"TriggerFailsafe">> /\ walk.stages = "none"
        BY <2>5 DEF attach_failsafe, Walk
      <3> QED BY <2>0, <3>1, MildEnding
    <2>6. CASE walk = attach_disarm
      <3>1. walk.posts = <<"Disarm">> /\ walk.stages = "none"
        BY <2>6 DEF attach_disarm, Walk
      <3> QED BY <2>0, <3>1, MildEnding
    <2>7. CASE walk = attach_start_takeoff
      <3> DEFINE r == Attach(b, walk)
      <3>1. walk.stages = "none"
        BY <2>7 DEF attach_start_takeoff, Walk
      <3>2. /\ Left(id, b, walk, r)
            /\ r.body # b => actuators_granted(b) /\ actuators_granted(r.body)
        BY <1>1, <2>7, AttachStart
      <3> HIDE DEF r
      <3> QED BY <3>1, <3>2 DEF Mild, r
    <2>8. CASE walk \in {attach_recover_ready(c) : c \in Sane("drone")}
      <3>1. /\ walk.posts \in {<<"Disarm", "Recover">>, <<"Recover">>} /\ walk.stages = "none"
            /\ walk.from = {"Failsafe", "Recovery"}
        BY <2>8 DEF attach_recover_ready, Walk
      <3>2. walk.posts \in Seq(Calm(id) \cap Ending)
        <4> DEFINE E == Calm(id) \cap Ending
        <4>1. "Disarm" \in E /\ "Recover" \in E
          BY <2>0
        <4> HIDE DEF E
        <4>2. <<"Disarm", "Recover">> \in Seq(E) /\ <<"Recover">> \in Seq(E)
          BY <4>1
        <4> QED BY <3>1, <4>2 DEF E
      <3>3. walk.from \cap Drivable = {}
        BY <3>1 DEF Drivable, OffboardControl
      <3> QED BY <3>1, <3>2, <3>3, MildAsleep
    <2> QED BY <1>1, <2>1, <2>2, <2>3, <2>4, <2>5, <2>6, <2>7, <2>8, Domains DEF TameOf
  <1>2. CASE id = "rover"
    <2>0. {"ClearEstop", "EStop", "Halt"} \subseteq Calm(id) \cap Ending
      BY <1>2, Domains DEF Steady, Ending, Calm, Land!GroundEvent
    <2>1. CASE walk = attach_park
      <3>1. walk.posts = <<"Halt">> /\ walk.stages = "none"
        BY <2>1 DEF attach_park, Walk
      <3> QED BY <2>0, <3>1, MildEnding
    <2>2. CASE walk = attach_estop
      <3>1. walk.posts = <<"EStop">> /\ walk.stages = "none"
        BY <2>2 DEF attach_estop, Walk
      <3> QED BY <2>0, <3>1, MildEnding
    <2>3. CASE walk = attach_reset
      <3>1. walk.posts = <<"ClearEstop">> /\ walk.stages = "none"
        BY <2>3 DEF attach_reset, Walk
      <3> QED BY <2>0, <3>1, MildEnding
    <2> QED BY <1>2, <2>1, <2>2, <2>3, Domains DEF TameOf
  <1>3. CASE id \in {"skiff", "surveyor"}
    <2>0. /\ {"Resume", "Station"} \subseteq Calm(id) \cap Steady
          /\ {"Dock", "Failsafe", "Recover"} \subseteq Calm(id) \cap Ending
      BY <1>3, Domains DEF Steady, Ending, Calm, Sea!MarineEvent
    <2>1. CASE walk = attach_station
      <3>1. walk.posts = <<"Station">> /\ walk.stages = "none"
        BY <2>1 DEF attach_station, Walk
      <3>2. walk.posts \in Seq(Calm(id) \cap Steady)
        BY <2>0, <3>1
      <3> QED BY <3>1, <3>2, MildSteady
    <2>2. CASE walk = attach_resume
      <3>1. walk.posts = <<"Resume">> /\ walk.stages = "none"
        BY <2>2 DEF attach_resume, Walk
      <3>2. walk.posts \in Seq(Calm(id) \cap Steady)
        BY <2>0, <3>1
      <3> QED BY <3>1, <3>2, MildSteady
    <2>3. CASE walk = attach_dock
      <3>1. walk.posts = <<"Dock">> /\ walk.stages = "none"
        BY <2>3 DEF attach_dock, Walk
      <3> QED BY <2>0, <3>1, MildEnding
    <2>4. CASE walk = attach_marine_failsafe
      <3>1. walk.posts = <<"Failsafe">> /\ walk.stages = "none"
        BY <2>4 DEF attach_marine_failsafe, Walk
      <3> QED BY <2>0, <3>1, MildEnding
    <2>5. CASE walk = attach_recover
      <3>1. walk.posts = <<"Recover">> /\ walk.stages = "none"
        BY <2>5 DEF attach_recover, Walk
      <3> QED BY <2>0, <3>1, MildEnding
    <2> QED BY <1>3, <2>1, <2>2, <2>3, <2>4, <2>5, Domains DEF TameOf
  <1> QED BY <1>1, <1>2, <1>3, Domains

\* Of the walks over the hulls, these leave each the authority it has.
LEMMA HullKept ==
    ASSUME NEW id \in {"skiff", "surveyor"}, NEW b \in Sane(id),
           NEW walk \in {attach_station, attach_resume, attach_recover}
    PROVE  LET r == Attach(b, walk) IN
           Left(id, b, walk, r) /\ (actuators_granted(r.body) <=> actuators_granted(b))
  <1>0. id \in Id
    BY Domains
  <1>1. /\ {"Station", "Resume"} \subseteq Calm(id) \cap Steady
        /\ "Recover" \in Calm(id) \cap Ending
    BY Domains DEF Calm, Sea!MarineEvent, Steady, Ending
  <1>2. CASE walk = attach_recover
    <2>1. walk.posts = <<"Recover">> /\ walk.from = {"Failsafe"}
      BY <1>2 DEF attach_recover, Walk
    <2>2. walk.posts \in Seq(Calm(id) \cap Ending)
      BY <1>1, <2>1
    <2>3. walk.from \cap Drivable = {}
      BY <2>1 DEF Drivable, OffboardControl
    <2> QED BY <1>0, <2>2, <2>3, AsleepWalk
  <1>3. CASE walk \in {attach_station, attach_resume}
    <2>1. walk.posts \in {<<"Station">>, <<"Resume">>}
      BY <1>3 DEF attach_station, attach_resume, Walk
    <2>2. walk.posts \in Seq(Calm(id) \cap Steady)
      <3> DEFINE E == Calm(id) \cap Steady
      <3>1. "Station" \in E /\ "Resume" \in E
        BY <1>1
      <3> HIDE DEF E
      <3>2. <<"Station">> \in Seq(E) /\ <<"Resume">> \in Seq(E)
        BY <3>1
      <3> QED BY <2>1, <3>2 DEF E
    <2> QED BY <1>0, <2>2, SteadyWalk
  <1> QED BY <1>2, <1>3

LEMMA GrantWalk ==
    ASSUME NEW id \in Id, NEW b \in Sane(id), NEW walk \in GrantOf(id)
    PROVE  Mild(id, b, walk, Attach(b, walk))
  <1> DEFINE r == Attach(b, walk)
  <1>1. /\ Left(id, b, walk, r) /\ walk.stages \in {"none", "zero"}
        /\ walk.from \in {{"PreflightReady"}, {"Parked"}, {"Docked"}}
    <2>1. CASE id = "drone"
      <3>1. walk.stages = "zero" /\ walk.from = {"PreflightReady"}
        BY <2>1, Domains DEF GrantOf, attach_offboard, attach_takeoff, Walk
      <3>2. Left(id, b, walk, r)
        BY <2>1, AttachTakeoff, AttachOffboard, Domains DEF GrantOf
      <3> QED BY <3>1, <3>2
    <2>2. CASE id = "rover"
      <3>1. walk.stages = "none" /\ walk.from = {"Parked"} /\ walk.posts = <<"Release">>
        BY <2>2, Domains DEF GrantOf, attach_drive, Walk
      <3>2. "Release" \in Calm(id)
        BY <2>2, Domains DEF Calm, Land!GroundEvent
      <3>3. walk.posts \in Seq(Calm(id))
        BY <3>1, <3>2
      <3> QED BY <3>1, <3>3, AttachCalm
    <2>3. CASE id \in {"skiff", "surveyor"}
      <3>1. walk.stages = "none" /\ walk.from = {"Docked"} /\ walk = attach_undock
        BY <2>3, Domains DEF GrantOf, attach_undock, Walk
      <3> QED BY <2>3, <3>1, UndockWalk
    <2> QED BY <2>1, <2>2, <2>3, Domains
  <1>2. ASSUME actuators_granted(b) PROVE r.body = b
    <2>1. Kind(b) \in Drivable
      BY <1>2, LiveIs
    <2>2. Kind(b) \notin walk.from
      BY <1>1, <2>1 DEF Drivable, OffboardControl
    <2> QED BY <1>1, <2>2 DEF Left
  <1> HIDE DEF r
  <1> QED BY <1>1, <1>2 DEF Mild, r

-----------------------------------------------------------------------------
(* What legs do to the authority and the velocities of a world.            *)

\* A velocity is staged for a body, or is its command.
Velocity(w, id) == w.body[id].command = "velocity" \/ w.setpoint[id] = "velocity"

\* From w to x no body was given a velocity, and none kept one that lost its
\* authority.
Eased(C, w, x) ==
    /\ x \in Worlds(C)
    /\ \A id \in C : Velocity(x, id) =>
         Velocity(w, id) /\ (actuators_granted(w.body[id]) => actuators_granted(x.body[id]))

LEMMA EasedTwice ==
    ASSUME NEW C, NEW w, NEW x, NEW y, Eased(C, w, x), Eased(C, x, y)
    PROVE  Eased(C, w, y)
  BY DEF Eased

LEMMA EasedLeg ==
    ASSUME NEW C, C \subseteq Id, NEW w \in Worlds(C), NEW id \in C, NEW walk,
           Mild(id, w.body[id], walk, Attach(w.body[id], walk))
    PROVE  LET a == Attach(w.body[id], walk)
               x == Walked(w, [id |-> id, walk |-> walk]) IN
           /\ Eased(C, w, x) /\ x \in Worlds(C) /\ x.error = a.error
           /\ \A i \in C : x.body[i] = IF i = id THEN a.body ELSE w.body[i]
  <1> DEFINE b == w.body[id]
             a == Attach(b, walk)
             x == Walked(w, [id |-> id, walk |-> walk])
  <1>1. Left(id, b, walk, a) /\ walk.stages \in {"none", "zero", "hold"}
        /\ (actuators_granted(b) /\ ~actuators_granted(a.body) =>
              a.error = "none" /\ a.body.command = "none")
    BY DEF Mild
  <1>2. walk.stages \in Setpoint
    BY <1>1 DEF Setpoint
  <1>3. /\ x \in Worlds(C) /\ x.error = a.error
        /\ \A i \in C : x.body[i] = IF i = id THEN a.body ELSE w.body[i]
        /\ \A i \in C : x.setpoint[i] = IF i = id /\ a.error = "none" THEN walk.stages
                                                                     ELSE w.setpoint[i]
    BY <1>1, <1>2, WalkedIs
  <1> HIDE DEF a, x
  <1>4. a.body.command \in {b.command, "none", "hold"}
    BY <1>1 DEF Left
  <1>5. ASSUME NEW i \in C, Velocity(x, i)
        PROVE  Velocity(w, i) /\ (actuators_granted(w.body[i]) => actuators_granted(x.body[i]))
    <2>1. CASE i # id
      BY <1>3, <1>5, <2>1 DEF Velocity
    <2>2. CASE i = id
      <3>1. x.body[id] = a.body /\ x.setpoint[id] = IF a.error = "none" THEN walk.stages
                                                                       ELSE w.setpoint[id]
        BY <1>3
      <3> HIDE DEF b
      <3>2. a.body.command = "velocity" => b.command = "velocity"
        BY <1>4
      <3>3. x.setpoint[id] = "velocity" => a.error # "none" /\ w.setpoint[id] = "velocity"
        BY <1>1, <3>1
      <3>4. Velocity(w, id)
        BY <1>5, <2>2, <3>1, <3>2, <3>3 DEF Velocity, b
      <3>5. a.error = "none" /\ a.body.command = "none" => ~Velocity(x, id)
        BY <3>1, <3>3 DEF Velocity
      <3>6. actuators_granted(b) => actuators_granted(a.body)
        BY <1>1, <1>5, <2>2, <3>5
      <3> QED BY <2>2, <3>1, <3>4, <3>6 DEF b
    <2> QED BY <2>1, <2>2
  <1>6. Eased(C, w, x)
    BY <1>3, <1>5 DEF Eased
  <1> QED BY <1>3, <1>6 DEF a, x

\* Legs of the bodies in D, by walks that grant nothing, and by any that are
\* not commands.
TameLegs(D) == UNION {{[id |-> i, walk |-> k] : k \in TameOf(i)} : i \in D}
MildLegs(D) == UNION {{[id |-> i, walk |-> k] : k \in TameOf(i) \cup GrantOf(i)} : i \in D}

LEMMA MildOne ==
    ASSUME NEW C, C \subseteq Id, NEW w \in Worlds(C), NEW id \in C,
           NEW walk \in TameOf(id) \cup GrantOf(id)
    PROVE  /\ Mild(id, w.body[id], walk, Attach(w.body[id], walk))
           /\ walk \in TameOf(id) => (actuators_granted(Attach(w.body[id], walk).body)
                                       => actuators_granted(w.body[id]))
  <1>1. id \in Id /\ w.body[id] \in Sane(id)
    BY WorldsAre
  <1> DEFINE b == w.body[id]
  <1> HIDE DEF b
  <1>2. b \in Sane(id)
    BY <1>1 DEF b
  <1>3. CASE walk \in TameOf(id)
    <2>1. Mild(id, b, walk, Attach(b, walk))
          /\ (actuators_granted(Attach(b, walk).body) => actuators_granted(b))
      BY <1>1, <1>2, <1>3, TameWalk
    <2> QED BY <2>1 DEF b
  <1>4. CASE walk \in GrantOf(id) /\ walk \notin TameOf(id)
    <2>1. Mild(id, b, walk, Attach(b, walk))
      BY <1>1, <1>2, <1>4, GrantWalk
    <2> QED BY <1>4, <2>1 DEF b
  <1> QED BY <1>3, <1>4

LEMMA EasedLegs ==
    ASSUME NEW C, C \subseteq Id, NEW D, D \subseteq C, NEW w \in Worlds(C),
           NEW legs \in Seq(MildLegs(D)), NEW r, Legs(w, legs, r)
    PROVE  Eased(C, w, r) /\ \A i \in C \ D : r.body[i] = w.body[i]
  <1> DEFINE W == {x \in Worlds(C) : Eased(C, w, x) /\ \A i \in C \ D : x.body[i] = w.body[i]}
  <1>1. w \in W
    BY DEF Eased
  <1>2. ASSUME NEW x \in W, NEW t \in MildLegs(D), x.error = "none" PROVE Walked(x, t) \in W
    <2>1. PICK i \in D : t \in {[id |-> i, walk |-> k] : k \in TameOf(i) \cup GrantOf(i)}
      BY DEF MildLegs
    <2>2. PICK k \in TameOf(i) \cup GrantOf(i) : t = [id |-> i, walk |-> k]
      BY <2>1
    <2>3. x \in Worlds(C) /\ Eased(C, w, x) /\ (\A j \in C \ D : x.body[j] = w.body[j]) /\ i \in C
      BY <1>2
    <2> DEFINE y == Walked(x, [id |-> i, walk |-> k])
    <2>4. Mild(i, x.body[i], k, Attach(x.body[i], k))
      BY <2>3, MildOne
    <2>5. /\ Eased(C, x, y) /\ y \in Worlds(C)
          /\ \A j \in C : y.body[j] = IF j = i THEN Attach(x.body[i], k).body ELSE x.body[j]
      BY <2>3, <2>4, EasedLeg
    <2> HIDE DEF y
    <2>6. Eased(C, w, y)
      BY <2>3, <2>5, EasedTwice
    <2>7. \A j \in C \ D : y.body[j] = w.body[j]
      BY <2>3, <2>5
    <2>8. y \in W
      BY <2>5, <2>6, <2>7
    <2> QED BY <2>2, <2>8 DEF y
  <1> HIDE DEF W
  <1>3. r \in W
    BY <1>1, <1>2, LegsIn
  <1> QED BY <1>3 DEF W

LEMMA TamedLegs ==
    ASSUME NEW C, C \subseteq Id, NEW D, D \subseteq C, NEW w \in Worlds(C),
           NEW legs \in Seq(TameLegs(D)), NEW r, Legs(w, legs, r)
    PROVE  \A i \in C : actuators_granted(r.body[i]) => actuators_granted(w.body[i])
  <1> DEFINE W == {x \in Worlds(C) : \A i \in C : actuators_granted(x.body[i])
                                                   => actuators_granted(w.body[i])}
  <1>1. w \in W
    OBVIOUS
  <1>2. ASSUME NEW x \in W, NEW t \in TameLegs(D), x.error = "none" PROVE Walked(x, t) \in W
    <2>1. PICK i \in D : t \in {[id |-> i, walk |-> k] : k \in TameOf(i)}
      BY DEF TameLegs
    <2>2. PICK k \in TameOf(i) : t = [id |-> i, walk |-> k]
      BY <2>1
    <2>3. /\ x \in Worlds(C) /\ i \in C
          /\ \A j \in C : actuators_granted(x.body[j]) => actuators_granted(w.body[j])
      BY <1>2
    <2> DEFINE y == Walked(x, [id |-> i, walk |-> k])
    <2>4. Mild(i, x.body[i], k, Attach(x.body[i], k))
          /\ (actuators_granted(Attach(x.body[i], k).body) => actuators_granted(x.body[i]))
      BY <2>3, MildOne
    <2>5. /\ y \in Worlds(C)
          /\ \A j \in C : y.body[j] = IF j = i THEN Attach(x.body[i], k).body ELSE x.body[j]
      BY <2>3, <2>4, EasedLeg
    <2> HIDE DEF y
    <2>6. ASSUME NEW j \in C, actuators_granted(y.body[j]) PROVE actuators_granted(w.body[j])
      <3>1. CASE j = i
        BY <2>3, <2>4, <2>5, <2>6, <3>1
      <3>2. CASE j # i
        BY <2>3, <2>5, <2>6, <3>2
      <3> QED BY <3>1, <3>2
    <2>7. y \in W
      BY <2>5, <2>6
    <2> QED BY <2>2, <2>7 DEF y
  <1> HIDE DEF W
  <1>3. r \in W
    BY <1>1, <1>2, LegsIn
  <1> QED BY <1>3 DEF W

\* A leg for the body id, if there is one; one for each hull, in their order.
LegIn(C, id, walk) == IF id \in C THEN Leg(id, walk) ELSE << >>
Hulls(C, walk) == LegIn(C, "skiff", walk) \o LegIn(C, "surveyor", walk)

\* The second hull is not live without the first.
Abreast(C, w) ==
    {"skiff", "surveyor"} \subseteq C /\ actuators_granted(w.body["surveyor"])
      => actuators_granted(w.body["skiff"])

\* A walk over one body.
LEMMA FollowOne ==
    ASSUME NEW w, w.error = "none", NEW id, NEW walk
    PROVE  Follow(w, Leg(id, walk)) = Walked(w, [id |-> id, walk |-> walk])
  <1> DEFINE t == [id |-> id, walk |-> walk]
             legs == <<t>>
  <1>1. legs \in Seq({t}) /\ Leg(id, walk) = legs
    BY DEF Leg
  <1> HIDE DEF legs
  <1>2. Legs(w, legs, Follow(w, legs))
    BY <1>1, FollowLegs
  <1>3. Follow(w, legs) = Legged(w, t)
    BY <1>2, LegsOne DEF legs
  <1> QED BY <1>1, <1>3 DEF Legged

LEMMA OverIn ==
    ASSUME NEW C, NEW id, NEW walk, NEW T, id \in C => [id |-> id, walk |-> walk] \in T
    PROVE  LegIn(C, id, walk) \in Seq(T)
  <1>1. CASE id \in C
    <2> DEFINE t == [id |-> id, walk |-> walk]
    <2>1. t \in T /\ LegIn(C, id, walk) = <<t>>
      BY <1>1 DEF LegIn, Leg
    <2> HIDE DEF t
    <2> QED BY <2>1
  <1>2. CASE id \notin C
    <2>1. LegIn(C, id, walk) = << >>
      BY <1>2 DEF LegIn
    <2> QED BY <2>1
  <1> QED BY <1>1, <1>2

LEMMA OverLegs ==
    ASSUME NEW C, NEW id, NEW walk, NEW w, NEW r, Legs(w, LegIn(C, id, walk), r)
    PROVE  r = IF id \in C THEN Legged(w, [id |-> id, walk |-> walk]) ELSE w
  <1>1. CASE id \in C
    <2>1. Legs(w, <<[id |-> id, walk |-> walk]>>, r)
      BY <1>1 DEF LegIn, Leg
    <2> QED BY <1>1, <2>1, LegsOne
  <1>2. CASE id \notin C
    <2>1. Legs(w, << >>, r)
      BY <1>2 DEF LegIn
    <2> QED BY <1>2, <2>1, LegsNone
  <1> QED BY <1>1, <1>2

LEMMA HullsSplit ==
    ASSUME NEW C, NEW walk, NEW w, NEW r, Legs(w, Hulls(C, walk), r)
    PROVE  \E m : /\ m = IF "skiff" \in C THEN Legged(w, [id |-> "skiff", walk |-> walk]) ELSE w
                  /\ r = IF "surveyor" \in C THEN Legged(m, [id |-> "surveyor", walk |-> walk])
                                             ELSE m
  <1> DEFINE T == {[id |-> i, walk |-> walk] : i \in {"skiff", "surveyor"}}
  <1>1. [id |-> "skiff", walk |-> walk] \in T /\ [id |-> "surveyor", walk |-> walk] \in T
    OBVIOUS
  <1> HIDE DEF T
  <1>2. LegIn(C, "skiff", walk) \in Seq(T) /\ LegIn(C, "surveyor", walk) \in Seq(T)
    BY <1>1, OverIn
  <1>3. PICK m : Legs(w, LegIn(C, "skiff", walk), m) /\ Legs(m, LegIn(C, "surveyor", walk), r)
    BY <1>2, LegsSplit DEF Hulls
  <1> QED BY <1>3, OverLegs

LEMMA HullWalks ==
    /\ \A id \in {"skiff", "surveyor"} :
         TameOf(id) \cup GrantOf(id) =
           {attach_undock, attach_station, attach_resume, attach_dock, attach_marine_failsafe,
            attach_recover}
    /\ \A id \in {"skiff", "surveyor"} : StopOf(id) = {attach_dock, attach_marine_failsafe}
    /\ \A id \in {"skiff", "surveyor"} : id \in Id
  BY Domains DEF TameOf, GrantOf, StopOf

\* A hull's walk, taken or not, and the next hull's once it is: the hulls stay
\* abreast.
LEMMA HullsAbreast ==
    ASSUME NEW C, C \subseteq Id, NEW w \in Worlds(C), Abreast(C, w),
           NEW walk \in {attach_undock, attach_station, attach_resume, attach_dock,
                         attach_marine_failsafe, attach_recover},
           NEW r, Legs(w, Hulls(C, walk), r)
    PROVE  Abreast(C, r)
  <1>1. SUFFICES ASSUME {"skiff", "surveyor"} \subseteq C
                 PROVE  actuators_granted(r.body["surveyor"]) => actuators_granted(r.body["skiff"])
    BY DEF Abreast
  <1>2. PICK m : /\ m = Legged(w, [id |-> "skiff", walk |-> walk])
                 /\ r = Legged(m, [id |-> "surveyor", walk |-> walk])
    BY <1>1, HullsSplit
  <1> DEFINE b == w.body["skiff"]
             c == w.body["surveyor"]
             a == Attach(b, walk)
             d == Attach(c, walk)
  <1>3. actuators_granted(c) => actuators_granted(b)
    BY <1>1 DEF Abreast
  <1>4. b \in Sane("skiff") /\ c \in Sane("surveyor")
    BY <1>1, WorldsAre
  <1>5. CASE w.error # "none"
    <2>1. r = w
      BY <1>2, <1>5 DEF Legged
    <2> QED BY <1>3, <2>1
  <1>6. CASE w.error = "none"
    <2>1. /\ Mild("skiff", b, walk, a)
          /\ walk \in TameOf("skiff") \cup GrantOf("skiff")
          /\ walk \in TameOf("surveyor") \cup GrantOf("surveyor")
      <3>1. /\ walk \in TameOf("skiff") \cup GrantOf("skiff")
            /\ walk \in TameOf("surveyor") \cup GrantOf("surveyor")
        BY HullWalks
      <3> QED BY <1>1, <3>1, MildOne
    <2>2. m = Walked(w, [id |-> "skiff", walk |-> walk])
      BY <1>2, <1>6 DEF Legged
    <2>3. /\ m \in Worlds(C) /\ m.error = a.error
          /\ m.body["skiff"] = a.body /\ m.body["surveyor"] = c
      BY <1>1, <2>1, <2>2, EasedLeg
    <2>4. Mild("surveyor", c, walk, d)
      BY <1>1, <2>1, MildOne
    <2> HIDE DEF a, b, c, d
    <2>5. CASE a.error = "none"
      <3>1. r = Walked(m, [id |-> "surveyor", walk |-> walk])
        BY <1>2, <2>3, <2>5 DEF Legged
      <3>2. Mild("surveyor", m.body["surveyor"], walk, Attach(m.body["surveyor"], walk))
        BY <2>3, <2>4 DEF d
      <3>3. \A i \in C : r.body[i] = IF i = "surveyor" THEN Attach(m.body["surveyor"], walk).body
                                                        ELSE m.body[i]
        BY <1>1, <2>3, <3>1, <3>2, EasedLeg
      <3>4. r.body["skiff"] = a.body /\ r.body["surveyor"] = d.body
        BY <1>1, <2>3, <3>3 DEF d
      <3>5. actuators_granted(d.body) => actuators_granted(a.body)
        <4>1. CASE walk = attach_undock
          BY <1>4, <2>5, <4>1, UndockWalk DEF a
        <4>2. CASE walk \in {attach_dock, attach_marine_failsafe}
          <5>1. walk \in StopOf("surveyor") /\ "surveyor" \in Id
            BY <4>2, HullWalks
          <5>2. ~actuators_granted(d.body)
            BY <1>4, <5>1, StopWalk DEF d
          <5> QED BY <5>2
        <4>3. CASE walk \in {attach_station, attach_resume, attach_recover}
          <5>1. (actuators_granted(d.body) <=> actuators_granted(c))
                /\ (actuators_granted(a.body) <=> actuators_granted(b))
            BY <1>4, <4>3, HullKept DEF a, d
          <5> QED BY <1>3, <5>1
        <4> QED BY <4>1, <4>2, <4>3
      <3> QED BY <3>4, <3>5
    <2>6. CASE a.error # "none"
      <3>1. r = m
        BY <1>2, <2>3, <2>6 DEF Legged
      <3>2. actuators_granted(b) => actuators_granted(a.body)
        BY <2>1, <2>6 DEF Mild
      <3> QED BY <1>3, <2>3, <3>1, <3>2
    <2> QED BY <2>5, <2>6
  <1> QED BY <1>5, <1>6

\* Hulls that are abreast are stopped by a walk over them, the one the walk
\* breaks off at included.
LEMMA HullsStop ==
    ASSUME NEW C, C \subseteq Id, NEW w \in Worlds(C), w.error = "none", Abreast(C, w),
           NEW walk \in {attach_dock, attach_marine_failsafe},
           NEW r, Legs(w, Hulls(C, walk), r)
    PROVE  \A id \in C \cap {"skiff", "surveyor"} : ~actuators_granted(r.body[id])
  <1>1. PICK m : /\ m = IF "skiff" \in C THEN Legged(w, [id |-> "skiff", walk |-> walk]) ELSE w
                 /\ r = IF "surveyor" \in C THEN Legged(m, [id |-> "surveyor", walk |-> walk])
                                            ELSE m
    BY HullsSplit
  <1>2. ASSUME NEW id \in C \cap {"skiff", "surveyor"}, NEW x \in Worlds(C)
        PROVE  /\ ~actuators_granted(Attach(x.body[id], walk).body)
               /\ actuators_granted(x.body[id]) => Attach(x.body[id], walk).error = "none"
               /\ Mild(id, x.body[id], walk, Attach(x.body[id], walk))
    <2>1. walk \in StopOf(id) /\ id \in Id /\ walk \in TameOf(id) \cup GrantOf(id) /\ id \in C
      BY HullWalks
    <2>2. x.body[id] \in Sane(id)
      BY WorldsAre
    <2>3. Mild(id, x.body[id], walk, Attach(x.body[id], walk))
      BY <2>1, MildOne
    <2>4. /\ ~actuators_granted(Attach(x.body[id], walk).body)
          /\ actuators_granted(x.body[id]) => Attach(x.body[id], walk).error = "none"
      <3> DEFINE b == x.body[id]
      <3>1. b \in Sane(id)
        BY <2>2
      <3> HIDE DEF b
      <3>2. /\ ~actuators_granted(Attach(b, walk).body)
            /\ actuators_granted(b) => Attach(b, walk).error = "none"
        BY <2>1, <3>1, StopWalk
      <3> QED BY <3>2 DEF b
    <2> QED BY <2>3, <2>4
  <1> DEFINE t(id) == [id |-> id, walk |-> walk]
  <1>3. ASSUME NEW id \in C \cap {"skiff", "surveyor"}, NEW x \in Worlds(C), x.error = "none"
        PROVE  /\ Legged(x, t(id)) \in Worlds(C)
               /\ ~actuators_granted(Legged(x, t(id)).body[id])
               /\ \A i \in C : i # id => Legged(x, t(id)).body[i] = x.body[i]
               /\ actuators_granted(x.body[id]) => Legged(x, t(id)).error = "none"
    <2> DEFINE y == Walked(x, t(id))
               a == Attach(x.body[id], walk)
    <2>1. Legged(x, t(id)) = y
      BY <1>3 DEF Legged
    <2>2. /\ y \in Worlds(C) /\ y.error = a.error
          /\ \A i \in C : y.body[i] = IF i = id THEN a.body ELSE x.body[i]
      BY <1>2, EasedLeg
    <2>3. ~actuators_granted(a.body) /\ (actuators_granted(x.body[id]) => a.error = "none")
      BY <1>2
    <2> HIDE DEF y, a, t
    <2> QED BY <2>1, <2>2, <2>3
  <1> HIDE DEF t
  <1>4. CASE "skiff" \in C
    <2>1. m = Legged(w, t("skiff"))
      BY <1>1, <1>4 DEF t
    <2>2. /\ m \in Worlds(C) /\ ~actuators_granted(m.body["skiff"])
          /\ \A i \in C : i # "skiff" => m.body[i] = w.body[i]
          /\ actuators_granted(w.body["skiff"]) => m.error = "none"
      BY <1>3, <1>4, <2>1
    <2>3. CASE "surveyor" \in C
      <3>1. r = Legged(m, t("surveyor"))
        BY <1>1, <2>3 DEF t
      <3>2. CASE m.error = "none"
        <4>1. /\ ~actuators_granted(r.body["surveyor"])
              /\ r.body["skiff"] = m.body["skiff"]
          BY <1>3, <1>4, <2>2, <2>3, <3>1, <3>2
        <4> QED BY <2>2, <4>1
      <3>3. CASE m.error # "none"
        <4>1. r = m
          BY <3>1, <3>3 DEF Legged
        <4>2. ~actuators_granted(w.body["skiff"])
          BY <2>2, <3>3
        <4>3. ~actuators_granted(w.body["surveyor"])
          BY <1>4, <2>3, <4>2 DEF Abreast
        <4> QED BY <2>2, <2>3, <4>1, <4>3
      <3> QED BY <3>2, <3>3
    <2>4. CASE "surveyor" \notin C
      BY <1>1, <2>2, <2>4
    <2> QED BY <2>3, <2>4
  <1>5. CASE "skiff" \notin C
    <2>1. m = w
      BY <1>1, <1>5
    <2>2. CASE "surveyor" \in C
      <3>1. r = Legged(w, t("surveyor"))
        BY <1>1, <2>1, <2>2 DEF t
      <3> QED BY <1>3, <1>5, <2>2, <3>1
    <2>3. CASE "surveyor" \notin C
      BY <1>5, <2>3
    <2> QED BY <2>2, <2>3
  <1> QED BY <1>4, <1>5

\* A leg of steady events, which may stage anything.
LEMMA SteadyLeg ==
    ASSUME NEW C, C \subseteq Id, NEW w \in Worlds(C), NEW id \in C, NEW walk,
           walk.stages \in Setpoint, walk.posts \in Seq(Calm(id) \cap Steady)
    PROVE  LET x == Walked(w, [id |-> id, walk |-> walk]) IN
           /\ x \in Worlds(C)
           /\ \A i \in C : /\ actuators_granted(x.body[i]) <=> actuators_granted(w.body[i])
                           /\ x.body[i].command = "velocity" => w.body[i].command = "velocity"
           /\ \A i \in C : x.setpoint[i] = IF i = id /\ x.error = "none" THEN walk.stages
                                                                         ELSE w.setpoint[i]
  <1> DEFINE b == w.body[id]
             a == Attach(b, walk)
             x == Walked(w, [id |-> id, walk |-> walk])
  <1>1. b \in Sane(id) /\ id \in Id
    BY WorldsAre
  <1> HIDE DEF b
  <1>2. Left(id, b, walk, a) /\ (actuators_granted(a.body) <=> actuators_granted(b))
    BY <1>1, SteadyWalk
  <1>3. /\ x \in Worlds(C) /\ x.error = a.error
        /\ \A i \in C : x.body[i] = IF i = id THEN a.body ELSE w.body[i]
        /\ \A i \in C : x.setpoint[i] = IF i = id /\ a.error = "none" THEN walk.stages
                                                                     ELSE w.setpoint[i]
    BY <1>2, WalkedIs DEF b
  <1> HIDE DEF x, a
  <1>4. a.body.command = "velocity" => b.command = "velocity"
    BY <1>2 DEF Left
  <1>5. ASSUME NEW i \in C
        PROVE  /\ actuators_granted(x.body[i]) <=> actuators_granted(w.body[i])
               /\ x.body[i].command = "velocity" => w.body[i].command = "velocity"
    <2>1. CASE i = id
      BY <1>2, <1>3, <1>4, <2>1 DEF b
    <2>2. CASE i # id
      BY <1>3, <2>2
    <2> QED BY <2>1, <2>2
  <1> QED BY <1>3, <1>5 DEF x

\* An injected event grants nothing.
LEMMA InjectTame ==
    ASSUME NEW b \in Sane("drone"), NEW e
    PROVE  actuators_granted(inject_revoke(b, e).body) => actuators_granted(b)
  <1>0. "drone" \in Id
    BY Domains
  <1>1. CASE ~Air!event_revokes_authority(e)
    <2>1. inject_revoke(b, e) = [body |-> b, error |-> "Rejected"]
      BY <1>1 DEF inject_revoke
    <2> QED BY <2>1
  <1>2. CASE Air!event_revokes_authority(e)
    <2>1. e \in {"TriggerFailsafe", "Disarm", "Disconnect", "HeartbeatStale",
                 "EstimatorInvalid", "ImuUnhealthy"}
      BY <1>2 DEF Air!event_revokes_authority
    <2>2. inject_revoke(b, e) = Given(Fresh(b), e)
      BY <1>2, PostedOne DEF inject_revoke
    <2>3. CASE ~Admits(b, e)
      <3>1. Fresh(b).error = "none" /\ Fresh(b).body = b
        BY DEF Fresh
      <3>2. inject_revoke(b, e) = [Fresh(b) EXCEPT !.error = "Rejected"]
        BY <2>2, <2>3, <3>1, GivenRejected
      <3> DEFINE q == inject_revoke(b, e)
      <3>3. q = [[body |-> b, error |-> "none"] EXCEPT !.error = "Rejected"]
        BY <3>2 DEF Fresh
      <3> HIDE DEF q
      <3>4. q.body = b
        BY <3>3
      <3> QED BY <3>4 DEF q
    <2>4. CASE Admits(b, e)
      <3>1. inject_revoke(b, e).body = Post(b, e)
        <4>1. inject_revoke(b, e) = Fresh(Post(b, e))
          BY <2>2, <2>4, GivenTaken
        <4> QED BY <4>1 DEF Fresh
      <3>2. e \in Calm("drone") /\ e \notin {"Release", "Undock"}
        BY <2>1, Domains DEF Calm
      <3> QED BY <1>0, <2>4, <3>1, <3>2, PostLive
    <2> QED BY <2>3, <2>4
  <1> QED BY <1>1, <1>2
=============================================================================
