------------------------ MODULE ContextAssemblyProofs ------------------------
(***************************************************************************)
(* Theorems about assembleModelContext for every input: any candidates     *)
(* with ids of their own, any known evidence, any budget. Its loops are    *)
(* recursive functions; a loop is reasoned about by its recursion equation *)
(* and by induction over the rounds, with a set in the place of what is    *)
(* to hold of a round.                                                     *)
(***************************************************************************)
EXTENDS ContextAssembly, SequenceTheorems, FiniteSetTheorems,
        WellFoundedInduction, TLAPS

LEMMA Least ==
    ASSUME NEW T \in SUBSET Nat, T # {}
    PROVE  \E x \in T : \A y \in T : x <= y
<1>1. PICK x \in T : \A y \in T : ~ (<<y, x>> \in OpToRel(<, Nat))
  BY NatLessThanWellFounded, WFMin
<1>2. ASSUME NEW y \in T PROVE x <= y
  <2>1. ~ (<<y, x>> \in OpToRel(<, Nat))
    BY <1>1
  <2>2. y \in Nat /\ x \in Nat
    OBVIOUS
  <2>3. ~ (y < x)
    BY <2>1, <2>2 DEF OpToRel
  <2> QED
    BY <2>2, <2>3
<1> QED
  BY <1>2

(* Induction over the rounds 0 .. N of a loop.                             *)
LEMMA Rounds ==
    ASSUME NEW N \in Nat, NEW P, 0 \in P,
           \A n \in 0..N : n < N /\ n \in P => n + 1 \in P
    PROVE  \A n \in 0..N : n \in P
<1> SUFFICES ASSUME (0..N) \ P # {} PROVE FALSE
  OBVIOUS
<1>1. PICK x \in (0..N) \ P : \A y \in (0..N) \ P : x <= y
  <2>1. (0..N) \ P \in SUBSET Nat
    OBVIOUS
  <2> QED
    BY <2>1, Least
<1>2. x # 0 /\ x - 1 \in 0..N /\ x - 1 < N /\ ~ (x <= x - 1)
  OBVIOUS
<1>3. x - 1 \in P
  BY <1>1, <1>2
<1>4. (x - 1) + 1 = x
  OBVIOUS
<1> QED
  BY <1>2, <1>3, <1>4

(* A loop that begins with b and goes from state to state by step.         *)
Runs(f, N, b, step) ==
    f[0] = b /\ \A n \in 1..N : f[n] = step[<<n, f[n - 1]>>]

LEMMA LoopExists ==
    ASSUME NEW N \in Nat, NEW S, NEW b \in S, NEW step \in [(1..N) \X S -> S]
    PROVE  \E f \in [0..N -> S] : Runs(f, N, b, step)
<1> DEFINE P == {k \in 0..N : \E f \in [0..k -> S] : Runs(f, k, b, step)}
<1>1. 0 \in P
  <2> DEFINE f == [n \in 0..0 |-> b]
  <2>1. f \in [0..0 -> S] /\ Runs(f, 0, b, step)
    BY DEF Runs
  <2>2. 0 \in 0..N
    OBVIOUS
  <2> HIDE DEF f
  <2> QED
    BY <2>1, <2>2
<1>2. ASSUME NEW k \in 0..N, k < N, k \in P PROVE k + 1 \in P
  <2>1. PICK f \in [0..k -> S] : Runs(f, k, b, step)
    BY <1>2
  <2>2. k + 1 \in 1..N /\ k + 1 \in 0..N /\ k \in 0..k /\ 0 \in 0..k
    BY <1>2
  <2> DEFINE last == step[<<k + 1, f[k]>>]
             g == [n \in 0..(k + 1) |-> IF n = k + 1 THEN last ELSE f[n]]
  <2>3. last \in S
    BY <2>2
  <2>4. g \in [0..(k + 1) -> S]
    BY <2>3
  <2>5. g[0] = b
    BY <2>1, <2>2 DEF Runs
  <2>6. ASSUME NEW n \in 1..(k + 1) PROVE g[n] = step[<<n, g[n - 1]>>]
    <3>1. CASE n = k + 1
      BY <3>1, <2>2
    <3>2. CASE n # k + 1
      <4>1. n \in 1..k /\ n - 1 \in 0..k /\ n - 1 # k + 1
        BY <3>2
      <4> QED
        BY <3>2, <4>1, <2>1 DEF Runs
    <3> QED
      BY <3>1, <3>2
  <2> HIDE DEF g
  <2>7. Runs(g, k + 1, b, step)
    BY <2>5, <2>6 DEF Runs
  <2> QED
    BY <2>2, <2>4, <2>7
<1> HIDE DEF P
<1>3. N \in P
  <2>1. \A n \in 0..N : n < N /\ n \in P => n + 1 \in P
    BY <1>2
  <2>2. \A n \in 0..N : n \in P
    BY <1>1, <2>1, Rounds
  <2> QED
    BY <2>2
<1> QED
  BY <1>3 DEF P

(* What a loop starts with and keeps, it has after every round.            *)
LEMMA LoopTyped ==
    ASSUME NEW N \in Nat, NEW S, NEW f, f = [n \in 0..N |-> f[n]], f[0] \in S,
           \A n \in 1..N : f[n - 1] \in S => f[n] \in S
    PROVE  f \in [0..N -> S]
<1> DEFINE P == {n \in 0..N : f[n] \in S}
<1>1. 0 \in P
  OBVIOUS
<1>2. \A n \in 0..N : n < N /\ n \in P => n + 1 \in P
  <2> SUFFICES ASSUME NEW n \in 0..N, n < N, n \in P PROVE n + 1 \in P
    OBVIOUS
  <2>1. n + 1 \in 1..N /\ n + 1 \in 0..N /\ (n + 1) - 1 = n
    OBVIOUS
  <2>2. f[n] \in S
    OBVIOUS
  <2> QED
    BY <2>1, <2>2
<1> HIDE DEF P
<1>3. \A n \in 0..N : n \in P
  BY <1>1, <1>2, Rounds
<1>4. \A n \in 0..N : f[n] \in S
  BY <1>3 DEF P
<1> QED
  BY <1>4

-----------------------------------------------------------------------------
(* The elements of a sequence that are in a set.                           *)
Filters(only, s, S) ==
    /\ Only(s, S) = only[Len(s)]
    /\ only[0] = <<>>
    /\ \A n \in 1..Len(s) :
          only[n] = IF s[n] \in S THEN Append(only[n - 1], s[n]) ELSE only[n - 1]

LEMMA OnlyLoop ==
    ASSUME NEW T, NEW s \in Seq(T), NEW S
    PROVE  \E only \in [0..Len(s) -> Seq(T)] : Filters(only, s, S)
<1> DEFINE N == Len(s)
           Then(n, t) == IF s[n] \in S THEN Append(t, s[n]) ELSE t
           step == [x \in (1..N) \X Seq(T) |-> Then(x[1], x[2])]
<1>1. N \in Nat /\ \A n \in 1..N : s[n] \in T
  OBVIOUS
<1>2. \A n \in 1..N, t \in Seq(T) : Then(n, t) \in Seq(T)
  BY <1>1
<1>3. step \in [(1..N) \X Seq(T) -> Seq(T)]
  BY <1>2
<1>4. \A n \in 1..N, t \in Seq(T) : step[<<n, t>>] = Then(n, t)
  OBVIOUS
<1>5. <<>> \in Seq(T)
  OBVIOUS
<1>6. \E f : f = [n \in 0..N |-> IF n = 0 THEN <<>> ELSE Then(n, f[n - 1])]
  <2> HIDE DEF N, step, Then
  <2>1. PICK f \in [0..N -> Seq(T)] : Runs(f, N, <<>>, step)
    BY <1>1, <1>3, <1>5, LoopExists
  <2>2. \A n \in 1..N : f[n - 1] \in Seq(T)
    BY <1>1
  <2>3. f[0] = <<>> /\ \A n \in 1..N : f[n] = Then(n, f[n - 1])
    BY <1>4, <2>1, <2>2 DEF Runs
  <2>4. f = [n \in 0..N |-> IF n = 0 THEN <<>> ELSE Then(n, f[n - 1])]
    BY <1>1, <2>3
  <2> QED
    BY <2>4
<1>7. PICK only : /\ only = [n \in 0..N |-> IF n = 0 THEN <<>> ELSE Then(n, only[n - 1])]
                  /\ Only(s, S) = only[N]
  BY <1>6 DEF Only
<1>8. only[0] = <<>> /\ \A n \in 1..N : only[n] = Then(n, only[n - 1])
  <2> HIDE DEF Then
  <2> QED
    BY <1>1, <1>7
<1>9. only \in [0..N -> Seq(T)]
  <2> HIDE DEF Then
  <2>1. only = [n \in 0..N |-> only[n]]
    <3>1. \E g : only = [n \in 0..N |-> g[n]]
      BY <1>7, Zenon
    <3> QED
      BY <3>1
  <2>2. \A n \in 1..N : only[n - 1] \in Seq(T) => only[n] \in Seq(T)
    <3> SUFFICES ASSUME NEW n \in 1..N, only[n - 1] \in Seq(T) PROVE only[n] \in Seq(T)
      OBVIOUS
    <3>1. only[n] = Then(n, only[n - 1])
      BY <1>8, Zenon
    <3>2. Then(n, only[n - 1]) \in Seq(T)
      BY <1>2, Zenon
    <3> QED
      BY <3>1, <3>2, Zenon
  <2> QED
    BY <1>1, <1>5, <1>8, <2>1, <2>2, LoopTyped
<1> QED
  BY <1>7, <1>8, <1>9 DEF Filters

(* No element twice: the sequence lists the keys of a map.                 *)
Distinct(s) == \A i, j \in DOMAIN s : s[i] = s[j] => i = j

LEMMA NamedAppend ==
    ASSUME NEW T, NEW s \in Seq(T), NEW x \in T
    PROVE  /\ Named(Append(s, x)) = Named(s) \cup {x}
           /\ Distinct(s) /\ x \notin Named(s) => Distinct(Append(s, x))
<1>1. /\ Append(s, x) \in Seq(T)
      /\ Len(Append(s, x)) = Len(s) + 1
      /\ \A i \in 1..Len(s) : Append(s, x)[i] = s[i]
      /\ Append(s, x)[Len(s) + 1] = x
  BY AppendProperties
<1>2. /\ Len(s) \in Nat
      /\ DOMAIN s = 1..Len(s) /\ DOMAIN Append(s, x) = 1..(Len(s) + 1)
  BY <1>1
<1>3. \A i \in 1..(Len(s) + 1) : i \in 1..Len(s) \/ i = Len(s) + 1
  BY <1>2
<1>4. 1..Len(s) \subseteq 1..(Len(s) + 1) /\ Len(s) + 1 \in 1..(Len(s) + 1)
  BY <1>2
<1> DEFINE t == Append(s, x)
           m == Len(s)
<1> HIDE DEF t, m
<1>5. Named(t) = Named(s) \cup {x}
  BY <1>1, <1>2, <1>3, <1>4 DEF Named, t, m
<1>6. ASSUME Distinct(s), x \notin Named(s) PROVE Distinct(t)
  <2> SUFFICES ASSUME NEW i \in DOMAIN t, NEW j \in DOMAIN t, t[i] = t[j]
               PROVE  i = j
    BY DEF Distinct
  <2>1. i \in 1..m \/ i = m + 1
    BY <1>2, <1>3 DEF t, m
  <2>2. j \in 1..m \/ j = m + 1
    BY <1>2, <1>3 DEF t, m
  <2>3. \A k \in 1..m : t[k] = s[k] /\ s[k] # x
    BY <1>1, <1>2, <1>6 DEF t, m, Named
  <2>4. t[m + 1] = x
    BY <1>1 DEF t, m
  <2>5. i \in 1..m /\ j \in 1..m => i = j
    BY <1>2, <1>6, <2>3 DEF Distinct, m
  <2> QED
    BY <2>1, <2>2, <2>3, <2>4, <2>5
<1> QED
  BY <1>5, <1>6 DEF t

LEMMA OnlySet ==
    ASSUME NEW T, NEW s \in Seq(T), NEW S
    PROVE  /\ Only(s, S) \in Seq(T)
           /\ Named(Only(s, S)) = Named(s) \cap S
           /\ Distinct(s) => Distinct(Only(s, S))
<1>0. PICK only \in [0..Len(s) -> Seq(T)] : Filters(only, s, S)
  BY OnlyLoop
<1>1. /\ Only(s, S) = only[Len(s)]
      /\ only[0] = <<>>
      /\ \A n \in 1..Len(s) :
            only[n] = IF s[n] \in S THEN Append(only[n - 1], s[n])
                      ELSE only[n - 1]
  BY <1>0 DEF Filters
<1> DEFINE N == Len(s)
           First(n) == {s[i] : i \in 1..n}
           P == {n \in 0..N : /\ Named(only[n]) = First(n) \cap S
                              /\ Distinct(s) => Distinct(only[n])}
<1>2. N \in Nat /\ DOMAIN s = 1..N /\ \A n \in 1..N : s[n] \in T
  OBVIOUS
<1>3. 0 \in P
  <2>1. Named(<<>>) = {} /\ Distinct(<<>>)
    BY DEF Named, Distinct
  <2>2. First(0) = {} /\ 0 \in 0..N
    BY <1>2
  <2> QED
    BY <1>1, <2>1, <2>2
<1>4. ASSUME NEW n \in 0..N, n < N, n \in P PROVE n + 1 \in P
  <2>1. n + 1 \in 1..N /\ n + 1 \in 0..N /\ (n + 1) - 1 = n
    BY <1>2, <1>4
  <2>2. First(n + 1) = First(n) \cup {s[n + 1]}
    <3>1. \A i : i \in 1..(n + 1) <=> i \in 1..n \/ i = n + 1
      BY <1>2
    <3> QED
      BY <3>1
  <2>3. only[n] \in Seq(T) /\ s[n + 1] \in T
    BY <1>1, <1>2, <2>1
  <2>4. Named(only[n]) = First(n) \cap S /\ (Distinct(s) => Distinct(only[n]))
    BY <1>4
  <2>5. Distinct(s) => s[n + 1] \notin First(n)
    <3> SUFFICES ASSUME Distinct(s), NEW i \in 1..n, s[n + 1] = s[i] PROVE FALSE
      OBVIOUS
    <3>1. i \in 1..N /\ i # n + 1
      BY <1>2, <1>4
    <3> QED
      BY <1>2, <2>1, <3>1 DEF Distinct
  <2> HIDE DEF First
  <2>6. CASE s[n + 1] \in S
    <3>1. only[n + 1] = Append(only[n], s[n + 1])
      BY <1>1, <2>1, <2>6
    <3>2. /\ Named(only[n + 1]) = Named(only[n]) \cup {s[n + 1]}
          /\ Distinct(only[n]) /\ s[n + 1] \notin Named(only[n]) => Distinct(only[n + 1])
      BY <2>3, <3>1, NamedAppend
    <3> QED
      BY <2>1, <2>2, <2>4, <2>5, <2>6, <3>2
  <2>7. CASE s[n + 1] \notin S
    <3>1. only[n + 1] = only[n]
      BY <1>1, <2>1, <2>7
    <3> QED
      BY <2>1, <2>2, <2>4, <2>7, <3>1
  <2> QED
    BY <2>6, <2>7
<1> HIDE DEF P
<1>5. N \in P
  <2>1. \A n \in 0..N : n < N /\ n \in P => n + 1 \in P
    BY <1>4
  <2>2. \A n \in 0..N : n \in P
    BY <1>2, <1>3, <2>1, Rounds
  <2> QED
    BY <1>2, <2>2
<1>6. First(N) = Named(s)
  BY <1>2 DEF Named
<1> QED
  BY <1>1, <1>2, <1>5, <1>6 DEF P

(* A sequence without repetitions is as long as the set of its elements.   *)
LEMMA DistinctLength ==
    ASSUME NEW T, NEW s \in Seq(T), Distinct(s)
    PROVE  IsFiniteSet(Named(s)) /\ Cardinality(Named(s)) = Len(s)
<1>1. Len(s) \in Nat /\ DOMAIN s = 1..Len(s)
  OBVIOUS
<1>2. s \in Surjection(1..Len(s), Named(s)) /\ s \in Injection(1..Len(s), Named(s))
  BY <1>1 DEF Surjection, Injection, IsInjective, Named, Distinct
<1>3. IsFiniteSet(1..Len(s)) /\ Cardinality(1..Len(s)) = Len(s)
  BY <1>1, FS_Interval
<1> QED
  BY <1>2, <1>3, FS_Surjection

-----------------------------------------------------------------------------
(* The loop over the candidates.                                           *)
Candidate(I) == [id : I, tokens : Nat, required : BOOLEAN]
Choices(I) == [included : SUBSET I, tokens : Nat, omitted : Seq(I),
               overflowed : SUBSET I]

DistinctIds(candidates) ==
    \A i, j \in DOMAIN candidates : candidates[i].id = candidates[j].id => i = j

(* What the context would cost with one more candidate.                    *)
Trial(chosen, c) == chosen.tokens + c.tokens + OmissionTokens * Len(chosen.omitted)

(* After and before a candidate that is taken, and one that is left out.   *)
Taken(after, before, c, budget) ==
    /\ Trial(before, c) <= budget \/ c.required
    /\ after.included = before.included \cup {c.id}
    /\ after.tokens = before.tokens + c.tokens
    /\ after.omitted = before.omitted
    /\ Trial(before, c) > budget => after.overflowed = before.overflowed \cup {c.id}
    /\ Trial(before, c) <= budget => after.overflowed = before.overflowed

LeftOut(after, before, c, budget) ==
    /\ Trial(before, c) > budget
    /\ ~c.required
    /\ after.included = before.included
    /\ after.tokens = before.tokens
    /\ after.omitted = Append(before.omitted, c.id)
    /\ after.overflowed = before.overflowed

LEMMA TrialIsInt ==
    ASSUME NEW I, NEW chosen \in Choices(I), NEW c \in Candidate(I)
    PROVE  /\ Trial(chosen, c) \in Nat
           /\ Trial(chosen, c) >= chosen.tokens + c.tokens
           /\ chosen.omitted = <<>> => Trial(chosen, c) = chosen.tokens + c.tokens
<1>1. chosen.tokens \in Nat /\ c.tokens \in Nat /\ Len(chosen.omitted) \in Nat
  BY DEF Choices, Candidate
<1>2. OmissionTokens * Len(chosen.omitted) \in Nat
  BY <1>1, AssemblyAssumption
<1>3. chosen.omitted = <<>> => OmissionTokens * Len(chosen.omitted) = 0
  BY AssemblyAssumption
<1> QED
  BY <1>1, <1>2, <1>3 DEF Trial

LEMMA AdmitIs ==
    ASSUME NEW I, NEW chosen \in Choices(I), NEW c \in Candidate(I), NEW budget \in Int
    PROVE  /\ Admit(chosen, c, budget) \in Choices(I)
           /\ \/ Taken(Admit(chosen, c, budget), chosen, c, budget)
              \/ LeftOut(Admit(chosen, c, budget), chosen, c, budget)
<1>1. c.id \in I /\ c.tokens \in Nat /\ chosen.tokens \in Nat
  BY DEF Choices, Candidate
<1>2. Append(chosen.omitted, c.id) \in Seq(I) /\ chosen.tokens + c.tokens \in Nat
  BY <1>1 DEF Choices
<1>3. Trial(chosen, c) \in Nat
  BY TrialIsInt
<1>4. CASE Trial(chosen, c) <= budget \/ c.required
  <2> DEFINE over == IF Trial(chosen, c) > budget THEN chosen.overflowed \cup {c.id}
                     ELSE chosen.overflowed
  <2>1. Admit(chosen, c, budget) =
          [chosen EXCEPT !.included = chosen.included \cup {c.id},
                         !.tokens = chosen.tokens + c.tokens,
                         !.overflowed = over]
    BY <1>4 DEF Admit, Trial
  <2>2. over \in SUBSET I
    BY <1>1 DEF Choices
  <2> HIDE DEF over
  <2>3. Admit(chosen, c, budget) \in Choices(I)
    BY <1>1, <1>2, <2>1, <2>2 DEF Choices
  <2>4. /\ Admit(chosen, c, budget).included = chosen.included \cup {c.id}
        /\ Admit(chosen, c, budget).tokens = chosen.tokens + c.tokens
        /\ Admit(chosen, c, budget).omitted = chosen.omitted
        /\ Admit(chosen, c, budget).overflowed = over
    BY <2>1 DEF Choices
  <2>5. Taken(Admit(chosen, c, budget), chosen, c, budget)
    BY <1>3, <1>4, <2>4 DEF Taken, over
  <2> QED
    BY <2>3, <2>5
<1>5. CASE ~(Trial(chosen, c) <= budget \/ c.required)
  <2>1. Admit(chosen, c, budget) =
          [chosen EXCEPT !.omitted = Append(chosen.omitted, c.id)]
    BY <1>5 DEF Admit, Trial
  <2>2. Admit(chosen, c, budget) \in Choices(I)
    BY <1>2, <2>1 DEF Choices
  <2>3. /\ Admit(chosen, c, budget).included = chosen.included
        /\ Admit(chosen, c, budget).tokens = chosen.tokens
        /\ Admit(chosen, c, budget).omitted = Append(chosen.omitted, c.id)
        /\ Admit(chosen, c, budget).overflowed = chosen.overflowed
    BY <2>1 DEF Choices
  <2>4. LeftOut(Admit(chosen, c, budget), chosen, c, budget)
    BY <1>3, <1>5, <2>3 DEF LeftOut
  <2> QED
    BY <2>2, <2>4
<1> QED
  BY <1>4, <1>5

Passes(chosen, start, candidates, required, budget) ==
    /\ Pass(start, candidates, required, budget) = chosen[Len(candidates)]
    /\ chosen[0] = start
    /\ \A n \in 1..Len(candidates) :
          chosen[n] = IF candidates[n].required = required
                      THEN Admit(chosen[n - 1], candidates[n], budget)
                      ELSE chosen[n - 1]

LEMMA PassLoop ==
    ASSUME NEW I, NEW candidates \in Seq(Candidate(I)), NEW start \in Choices(I),
           NEW required, NEW budget \in Int
    PROVE  \E chosen \in [0..Len(candidates) -> Choices(I)] :
              Passes(chosen, start, candidates, required, budget)
<1> DEFINE N == Len(candidates)
           Then(n, t) == IF candidates[n].required = required
                         THEN Admit(t, candidates[n], budget) ELSE t
           step == [x \in (1..N) \X Choices(I) |-> Then(x[1], x[2])]
<1>1. N \in Nat /\ \A n \in 1..N : candidates[n] \in Candidate(I)
  OBVIOUS
<1>2. \A n \in 1..N, t \in Choices(I) : Then(n, t) \in Choices(I)
  BY <1>1, AdmitIs
<1>3. step \in [(1..N) \X Choices(I) -> Choices(I)]
  <2> HIDE DEF Then
  <2> QED
    BY <1>2
<1>4. \A n \in 1..N, t \in Choices(I) : step[<<n, t>>] = Then(n, t)
  <2> HIDE DEF Then
  <2> QED
    OBVIOUS
<1>5. \E f : f = [n \in 0..N |-> IF n = 0 THEN start ELSE Then(n, f[n - 1])]
  <2> HIDE DEF N, step, Then
  <2>1. PICK f \in [0..N -> Choices(I)] : Runs(f, N, start, step)
    BY <1>1, <1>3, LoopExists
  <2>2. \A n \in 1..N : f[n - 1] \in Choices(I)
    BY <1>1
  <2>3. f[0] = start /\ \A n \in 1..N : f[n] = Then(n, f[n - 1])
    BY <1>4, <2>1, <2>2 DEF Runs
  <2>4. f = [n \in 0..N |-> IF n = 0 THEN start ELSE Then(n, f[n - 1])]
    BY <1>1, <2>3
  <2> QED
    BY <2>4
<1>6. PICK chosen :
        /\ chosen = [n \in 0..N |-> IF n = 0 THEN start ELSE Then(n, chosen[n - 1])]
        /\ Pass(start, candidates, required, budget) = chosen[N]
  BY <1>5 DEF Pass
<1>7. chosen[0] = start /\ \A n \in 1..N : chosen[n] = Then(n, chosen[n - 1])
  <2> HIDE DEF Then
  <2> QED
    BY <1>1, <1>6
<1>8. chosen \in [0..N -> Choices(I)]
  <2> HIDE DEF Then
  <2>1. chosen = [n \in 0..N |-> chosen[n]]
    <3>1. \E g : chosen = [n \in 0..N |-> g[n]]
      BY <1>6, Zenon
    <3> QED
      BY <3>1
  <2>2. \A n \in 1..N : chosen[n - 1] \in Choices(I) => chosen[n] \in Choices(I)
    <3> SUFFICES ASSUME NEW n \in 1..N, chosen[n - 1] \in Choices(I)
                 PROVE  chosen[n] \in Choices(I)
      OBVIOUS
    <3>1. chosen[n] = Then(n, chosen[n - 1])
      BY <1>7, Zenon
    <3>2. Then(n, chosen[n - 1]) \in Choices(I)
      BY <1>2, Zenon
    <3> QED
      BY <3>1, <3>2, Zenon
  <2> QED
    BY <1>1, <1>7, <2>1, <2>2, LoopTyped
<1> QED
  BY <1>6, <1>7, <1>8 DEF Passes

(* The ids of the first n candidates that are, or are not, required.       *)
Round(candidates, required, n) ==
    {candidates[i].id : i \in {j \in 1..n : candidates[j].required = required}}

Apart(chosen) == chosen.included \cap Named(chosen.omitted) = {}

(* The candidates of the loop are not among what it starts with.           *)
Fresh(start, candidates, required) ==
    /\ Apart(start)
    /\ DistinctIds(candidates)
    /\ (start.included \cup Named(start.omitted))
         \cap Round(candidates, required, Len(candidates)) = {}

(* What n rounds of the loop have made of what it started from.            *)
Progress(after, start, candidates, required, budget, n) ==
    /\ after.included \cup Named(after.omitted)
         = (start.included \cup Named(start.omitted)) \cup Round(candidates, required, n)
    /\ start.included \subseteq after.included
    /\ start.tokens <= after.tokens
    /\ start.overflowed \subseteq after.overflowed
    /\ start.tokens <= budget /\ after.overflowed = {} => after.tokens <= budget
    /\ required => after.omitted = start.omitted
    /\ required /\ start.omitted = <<>> /\ after.tokens <= budget
         => after.overflowed = start.overflowed
    /\ Round(candidates, required, n) = {} => after = start
    /\ Fresh(start, candidates, required) => Apart(after)

LEMMA RoundGrows ==
    ASSUME NEW candidates, NEW required, NEW n \in Nat
    PROVE  Round(candidates, required, n + 1) =
             Round(candidates, required, n)
               \cup (IF candidates[n + 1].required = required
                     THEN {candidates[n + 1].id} ELSE {})
<1>1. \A i : i \in 1..(n + 1) <=> i \in 1..n \/ i = n + 1
  OBVIOUS
<1> QED
  BY <1>1 DEF Round

LEMMA PassProgress ==
    ASSUME NEW I, NEW candidates \in Seq(Candidate(I)), NEW start \in Choices(I),
           NEW required \in BOOLEAN, NEW budget \in Int
    PROVE  /\ Pass(start, candidates, required, budget) \in Choices(I)
           /\ Progress(Pass(start, candidates, required, budget), start, candidates,
                       required, budget, Len(candidates))
<1>1. PICK chosen \in [0..Len(candidates) -> Choices(I)] :
         Passes(chosen, start, candidates, required, budget)
  BY PassLoop
<1> DEFINE N == Len(candidates)
           So(n) == Progress(chosen[n], start, candidates, required, budget, n)
           P == {n \in 0..N : So(n)}
<1>2. N \in Nat /\ \A n \in 1..N : candidates[n] \in Candidate(I)
  OBVIOUS
<1>3. 0 \in P
  <2>1. chosen[0] = start /\ 0 \in 0..N
    BY <1>1, <1>2 DEF Passes
  <2>2. Round(candidates, required, 0) = {}
    BY DEF Round
  <2>3. start.tokens \in Nat
    BY DEF Choices
  <2>4. So(0)
    BY <2>1, <2>2, <2>3 DEF Progress, Fresh
  <2> QED
    BY <2>1, <2>4
<1>4. ASSUME NEW n \in 0..N, n < N, n \in P PROVE n + 1 \in P
  <2>1. n + 1 \in 1..N /\ n + 1 \in 0..N /\ (n + 1) - 1 = n /\ n \in Nat
    BY <1>2, <1>4
  <2> DEFINE before == chosen[n]
             after == chosen[n + 1]
             c == candidates[n + 1]
  <2>2. before \in Choices(I) /\ after \in Choices(I) /\ c \in Candidate(I)
    BY <1>2, <2>1
  <2>3. So(n)
    BY <1>4
  <2>4. Round(candidates, required, n + 1) =
          Round(candidates, required, n)
            \cup (IF c.required = required THEN {c.id} ELSE {})
    BY <2>1, RoundGrows
  <2>5. after = IF c.required = required THEN Admit(before, c, budget) ELSE before
    BY <1>1, <2>1 DEF Passes
  <2> HIDE DEF before, after, c
  <2>6. /\ before.tokens \in Nat /\ after.tokens \in Nat /\ c.tokens \in Nat
        /\ start.tokens \in Nat /\ c.id \in I /\ before.omitted \in Seq(I)
        /\ c.required \in BOOLEAN
    BY <2>2 DEF Choices, Candidate
  <2>7. /\ Trial(before, c) \in Nat /\ Trial(before, c) >= before.tokens + c.tokens
        /\ before.omitted = <<>> => Trial(before, c) = before.tokens + c.tokens
    BY <2>2, TrialIsInt
  <2>8. CASE c.required # required
    <3>1. after = before /\ Round(candidates, required, n + 1) = Round(candidates, required, n)
      BY <2>4, <2>5, <2>8
    <3>2. So(n + 1)
      BY <2>3, <3>1 DEF Progress, before, after
    <3> QED
      BY <2>1, <3>2
  <2>9. CASE c.required = required
    <3>1. Taken(after, before, c, budget) \/ LeftOut(after, before, c, budget)
      BY <2>2, <2>5, <2>9, AdmitIs
    <3>2. Round(candidates, required, n + 1) = Round(candidates, required, n) \cup {c.id}
      BY <2>4, <2>9
    <3>0. ASSUME Fresh(start, candidates, required)
          PROVE  c.id \notin before.included /\ c.id \notin Named(before.omitted)
      <4>1. c.id \notin Round(candidates, required, n)
        <5> SUFFICES ASSUME NEW i \in 1..n, candidates[i].id = c.id PROVE FALSE
          BY DEF Round
        <5>1. i \in DOMAIN candidates /\ n + 1 \in DOMAIN candidates /\ i # n + 1
          BY <1>2, <1>4
        <5> QED
          BY <3>0, <5>1 DEF Fresh, DistinctIds, c
      <4>2. c.id \in Round(candidates, required, N)
        BY <2>1, <2>9 DEF Round, c
      <4> QED
        BY <2>3, <3>0, <4>1, <4>2 DEF Progress, Fresh, before
    <3>3. CASE Taken(after, before, c, budget)
      <4>1. after.included \cup Named(after.omitted)
              = (start.included \cup Named(start.omitted))
                  \cup Round(candidates, required, n + 1)
        BY <2>3, <3>2, <3>3 DEF Progress, Taken, before
      <4>2. start.tokens <= after.tokens
        BY <2>3, <2>6, <3>3 DEF Progress, Taken, before
      <4>3. /\ start.included \subseteq after.included
            /\ start.overflowed \subseteq after.overflowed
        BY <2>3, <2>6, <2>7, <3>3 DEF Progress, Taken, before
      <4>4. ASSUME start.tokens <= budget, after.overflowed = {}
            PROVE  after.tokens <= budget
        <5>1. Trial(before, c) <= budget
          BY <2>7, <3>3, <4>4 DEF Taken
        <5> QED
          BY <2>6, <2>7, <3>3, <5>1 DEF Taken
      <4>5. required => after.omitted = start.omitted
        BY <2>3, <3>3 DEF Progress, Taken, before
      <4>6. ASSUME required, start.omitted = <<>>, after.tokens <= budget
            PROVE  after.overflowed = start.overflowed
        <5>1. before.omitted = <<>>
          BY <2>3, <4>6 DEF Progress, before
        <5>2. Trial(before, c) <= budget /\ before.tokens <= budget
          BY <2>6, <2>7, <3>3, <4>6, <5>1 DEF Taken
        <5> QED
          BY <2>3, <3>3, <4>6, <5>2 DEF Progress, Taken, before
      <4>7. Fresh(start, candidates, required) => Apart(after)
        BY <2>3, <3>0, <3>3 DEF Progress, Taken, Apart, before
      <4>8. So(n + 1)
        BY <3>2, <4>1, <4>2, <4>3, <4>4, <4>5, <4>6, <4>7 DEF Progress, after
      <4> QED
        BY <2>1, <4>8
    <3>4. CASE LeftOut(after, before, c, budget)
      <4>1. Named(after.omitted) = Named(before.omitted) \cup {c.id}
        BY <2>6, <3>4, NamedAppend DEF LeftOut
      <4>2. ~required
        BY <2>9, <3>4 DEF LeftOut
      <4>3. Fresh(start, candidates, required) => Apart(after)
        BY <2>3, <3>0, <3>4, <4>1 DEF Progress, LeftOut, Apart, before
      <4>4. So(n + 1)
        BY <2>3, <2>6, <3>2, <3>4, <4>1, <4>2, <4>3
           DEF Progress, LeftOut, before, after
      <4> QED
        BY <2>1, <4>4
    <3> QED
      BY <3>1, <3>3, <3>4
  <2> QED
    BY <2>8, <2>9
<1> HIDE DEF P, So
<1>5. N \in P
  <2>1. \A n \in 0..N : n < N /\ n \in P => n + 1 \in P
    BY <1>4
  <2>2. \A n \in 0..N : n \in P
    BY <1>2, <1>3, <2>1, Rounds
  <2> QED
    BY <1>2, <2>2
<1>6. So(N)
  BY <1>5 DEF P
<1>7. Pass(start, candidates, required, budget) = chosen[N] /\ chosen[N] \in Choices(I)
  BY <1>1, <1>2 DEF Passes
<1> QED
  BY <1>6, <1>7 DEF So

(* The sum over the required candidates.                                   *)
Sums(sum, candidates, base) ==
    /\ Demand(candidates, base) = sum[Len(candidates)]
    /\ sum[0] = base
    /\ \A n \in 1..Len(candidates) :
          sum[n] = IF candidates[n].required THEN sum[n - 1] + candidates[n].tokens
                   ELSE sum[n - 1]

LEMMA DemandLoop ==
    ASSUME NEW I, NEW candidates \in Seq(Candidate(I)), NEW base \in Nat
    PROVE  \E sum \in [0..Len(candidates) -> Nat] : Sums(sum, candidates, base)
<1> DEFINE N == Len(candidates)
           Then(n, t) == IF candidates[n].required THEN t + candidates[n].tokens ELSE t
           step == [x \in (1..N) \X Nat |-> Then(x[1], x[2])]
<1>1. N \in Nat /\ \A n \in 1..N : candidates[n] \in Candidate(I)
  OBVIOUS
<1>2. \A n \in 1..N, t \in Nat : Then(n, t) \in Nat
  BY <1>1 DEF Candidate
<1>3. step \in [(1..N) \X Nat -> Nat]
  <2> HIDE DEF Then
  <2> QED
    BY <1>2
<1>4. \A n \in 1..N, t \in Nat : step[<<n, t>>] = Then(n, t)
  <2> HIDE DEF Then
  <2> QED
    OBVIOUS
<1>5. \E f : f = [n \in 0..N |-> IF n = 0 THEN base ELSE Then(n, f[n - 1])]
  <2> HIDE DEF N, step, Then
  <2>1. PICK f \in [0..N -> Nat] : Runs(f, N, base, step)
    BY <1>1, <1>3, LoopExists
  <2>2. \A n \in 1..N : f[n - 1] \in Nat
    BY <1>1
  <2>3. f[0] = base /\ \A n \in 1..N : f[n] = Then(n, f[n - 1])
    BY <1>4, <2>1, <2>2 DEF Runs
  <2>4. f = [n \in 0..N |-> IF n = 0 THEN base ELSE Then(n, f[n - 1])]
    BY <1>1, <2>3
  <2> QED
    BY <2>4
<1>6. PICK sum : /\ sum = [n \in 0..N |-> IF n = 0 THEN base ELSE Then(n, sum[n - 1])]
                 /\ Demand(candidates, base) = sum[N]
  BY <1>5 DEF Demand
<1>7. sum[0] = base /\ \A n \in 1..N : sum[n] = Then(n, sum[n - 1])
  <2> HIDE DEF Then
  <2> QED
    BY <1>1, <1>6
<1>8. sum \in [0..N -> Nat]
  <2> HIDE DEF Then
  <2>1. sum = [n \in 0..N |-> sum[n]]
    <3>1. \E g : sum = [n \in 0..N |-> g[n]]
      BY <1>6, Zenon
    <3> QED
      BY <3>1
  <2>2. \A n \in 1..N : sum[n - 1] \in Nat => sum[n] \in Nat
    <3> SUFFICES ASSUME NEW n \in 1..N, sum[n - 1] \in Nat PROVE sum[n] \in Nat
      OBVIOUS
    <3>1. sum[n] = Then(n, sum[n - 1])
      BY <1>7, Zenon
    <3>2. Then(n, sum[n - 1]) \in Nat
      BY <1>2, Zenon
    <3> QED
      BY <3>1, <3>2, Zenon
  <2> QED
    BY <1>1, <1>7, <2>1, <2>2, LoopTyped
<1> QED
  BY <1>6, <1>7, <1>8 DEF Sums

(* The required candidates are all taken, whatever they cost.              *)
LEMMA RequiredCost ==
    ASSUME NEW I, NEW candidates \in Seq(Candidate(I)), NEW start \in Choices(I),
           NEW budget \in Int
    PROVE  Pass(start, candidates, TRUE, budget).tokens = Demand(candidates, start.tokens)
<1>1. PICK chosen \in [0..Len(candidates) -> Choices(I)] :
         Passes(chosen, start, candidates, TRUE, budget)
  BY PassLoop
<1>2. start.tokens \in Nat
  BY DEF Choices
<1>3. PICK sum \in [0..Len(candidates) -> Nat] : Sums(sum, candidates, start.tokens)
  BY <1>2, DemandLoop
<1> DEFINE N == Len(candidates)
           P == {n \in 0..N : chosen[n].tokens = sum[n]}
<1>4. N \in Nat /\ \A n \in 1..N : candidates[n] \in Candidate(I)
  OBVIOUS
<1>5. 0 \in P
  BY <1>1, <1>3, <1>4 DEF Passes, Sums
<1>6. ASSUME NEW n \in 0..N, n < N, n \in P PROVE n + 1 \in P
  <2>1. n + 1 \in 1..N /\ n + 1 \in 0..N /\ (n + 1) - 1 = n
    BY <1>4, <1>6
  <2>2. chosen[n] \in Choices(I) /\ candidates[n + 1] \in Candidate(I)
    BY <1>4, <2>1
  <2>3. candidates[n + 1].required \in BOOLEAN
    BY <2>2 DEF Candidate
  <2>4. CASE candidates[n + 1].required
    <3>1. chosen[n + 1] = Admit(chosen[n], candidates[n + 1], budget)
      BY <1>1, <2>1, <2>3, <2>4 DEF Passes
    <3>2. \/ Taken(chosen[n + 1], chosen[n], candidates[n + 1], budget)
          \/ LeftOut(chosen[n + 1], chosen[n], candidates[n + 1], budget)
      BY <2>2, <3>1, AdmitIs
    <3>3. chosen[n + 1].tokens = chosen[n].tokens + candidates[n + 1].tokens
      BY <2>4, <3>2 DEF Taken, LeftOut
    <3>4. sum[n + 1] = sum[n] + candidates[n + 1].tokens
      BY <1>3, <2>1, <2>4 DEF Sums
    <3> QED
      BY <1>6, <2>1, <3>3, <3>4
  <2>5. CASE ~candidates[n + 1].required
    <3>1. chosen[n + 1] = chosen[n]
      BY <1>1, <2>1, <2>3, <2>5 DEF Passes
    <3>2. sum[n + 1] = sum[n]
      BY <1>3, <2>1, <2>5 DEF Sums
    <3> QED
      BY <1>6, <2>1, <3>1, <3>2
  <2> QED
    BY <2>4, <2>5
<1> HIDE DEF P
<1>7. N \in P
  <2>1. \A n \in 0..N : n < N /\ n \in P => n + 1 \in P
    BY <1>6
  <2>2. \A n \in 0..N : n \in P
    BY <1>4, <1>5, <2>1, Rounds
  <2> QED
    BY <1>4, <2>2
<1> QED
  BY <1>1, <1>3, <1>7 DEF P, Passes, Sums

(* Required candidates of one token each.                                  *)
LEMMA DemandOfOnes ==
    ASSUME NEW I, NEW candidates \in Seq(Candidate(I)), NEW base \in Nat,
           \A i \in DOMAIN candidates : candidates[i].required /\ candidates[i].tokens = 1
    PROVE  Demand(candidates, base) = base + Len(candidates)
<1>1. PICK sum \in [0..Len(candidates) -> Nat] : Sums(sum, candidates, base)
  BY DemandLoop
<1> DEFINE N == Len(candidates)
           P == {n \in 0..N : sum[n] = base + n}
<1>2. N \in Nat /\ DOMAIN candidates = 1..N
  OBVIOUS
<1>3. 0 \in P
  BY <1>1, <1>2 DEF Sums
<1>4. ASSUME NEW n \in 0..N, n < N, n \in P PROVE n + 1 \in P
  <2>1. n + 1 \in 1..N /\ n + 1 \in 0..N /\ (n + 1) - 1 = n
    BY <1>2, <1>4
  <2>2. sum[n + 1] = sum[n] + 1
    BY <1>1, <1>2, <2>1 DEF Sums
  <2> QED
    BY <1>4, <2>1, <2>2
<1> HIDE DEF P
<1>5. N \in P
  <2>1. \A n \in 0..N : n < N /\ n \in P => n + 1 \in P
    BY <1>4
  <2>2. \A n \in 0..N : n \in P
    BY <1>2, <1>3, <2>1, Rounds
  <2> QED
    BY <1>2, <2>2
<1> QED
  BY <1>1, <1>5 DEF P, Sums

-----------------------------------------------------------------------------
(* What is chosen of the candidates, and what it costs.                    *)
AllRequired(candidates) == \A i \in DOMAIN candidates : candidates[i].required

SoundChoice(I, chosen, candidates, base, budget) ==
    /\ chosen \in Choices(I)
    /\ chosen.included \cup Named(chosen.omitted) = Ids(candidates)
    /\ Apart(chosen)
    /\ \A i \in DOMAIN candidates :
          candidates[i].required => candidates[i].id \in chosen.included
    /\ Demand(candidates, base) <= chosen.tokens
    /\ base <= budget /\ chosen.overflowed = {} => chosen.tokens <= budget
    /\ AllRequired(candidates) =>
          /\ chosen.omitted = <<>>
          /\ chosen.tokens = Demand(candidates, base)
          /\ chosen.tokens <= budget => chosen.overflowed = {}

LEMMA ChooseIs ==
    ASSUME NEW I, NEW candidates \in Seq(Candidate(I)), DistinctIds(candidates),
           NEW base \in Nat, NEW budget \in Int
    PROVE  SoundChoice(I, Choose(candidates, base, budget), candidates, base, budget)
<1> DEFINE N == Len(candidates)
           start == Nothing(base)
           first == Pass(start, candidates, TRUE, budget)
           chosen == Pass(first, candidates, FALSE, budget)
<1>1. N \in Nat /\ DOMAIN candidates = 1..N
      /\ \A n \in 1..N : candidates[n].required \in BOOLEAN /\ candidates[n].id \in I
  <2>1. N \in Nat /\ DOMAIN candidates = 1..N
    OBVIOUS
  <2>2. \A n \in 1..N : candidates[n] \in Candidate(I)
    BY <2>1
  <2> QED
    BY <2>1, <2>2 DEF Candidate
<1>2. /\ start \in Choices(I)
      /\ start.included = {} /\ start.tokens = base /\ start.omitted = <<>>
      /\ start.overflowed = {} /\ Named(start.omitted) = {}
  BY DEF Nothing, Choices, Named
<1>3. /\ first \in Choices(I)
      /\ Progress(first, start, candidates, TRUE, budget, N)
  BY <1>2, PassProgress
<1>4. /\ chosen \in Choices(I)
      /\ Progress(chosen, first, candidates, FALSE, budget, N)
  BY <1>3, PassProgress
<1>5. first.tokens = Demand(candidates, base)
  <2>1. first.tokens = Demand(candidates, start.tokens)
    BY <1>2, RequiredCost, Zenon
  <2> HIDE DEF start, first
  <2> QED
    BY <1>2, <2>1
<1>6. Choose(candidates, base, budget) = chosen
  BY DEF Choose
<1>7. \A n \in 1..N : candidates[n].required = TRUE \/ candidates[n].required = FALSE
  BY <1>1
<1>8. Round(candidates, TRUE, N) \cup Round(candidates, FALSE, N) = Ids(candidates)
  BY <1>1, <1>7 DEF Round, Ids
<1> HIDE DEF start, first, chosen
<1>9. first.omitted = <<>> /\ first.included = Round(candidates, TRUE, N)
      /\ Named(first.omitted) = {}
  BY <1>2, <1>3 DEF Progress
<1>10. chosen.included \cup Named(chosen.omitted) = Ids(candidates)
  BY <1>4, <1>8, <1>9 DEF Progress
<1>11. Apart(chosen)
  <2>1. Round(candidates, TRUE, N) \cap Round(candidates, FALSE, N) = {}
    BY <1>1 DEF Round, DistinctIds
  <2>2. Fresh(first, candidates, FALSE)
    BY <1>9, <2>1 DEF Fresh, Apart
  <2> QED
    BY <1>4, <2>2 DEF Progress
<1>12. ASSUME NEW i \in DOMAIN candidates, candidates[i].required
       PROVE  candidates[i].id \in chosen.included
  <2>1. candidates[i].id \in Round(candidates, TRUE, N)
    BY <1>1, <1>12 DEF Round
  <2> QED
    BY <1>4, <1>9, <2>1 DEF Progress
<1>13. Demand(candidates, base) <= chosen.tokens
  BY <1>4, <1>5 DEF Progress
<1>14. ASSUME base <= budget, chosen.overflowed = {}
       PROVE  chosen.tokens <= budget
  <2>1. first.overflowed = {}
    BY <1>4, <1>14 DEF Progress
  <2>2. first.tokens <= budget
    BY <1>2, <1>3, <1>14, <2>1 DEF Progress
  <2> QED
    BY <1>4, <1>14, <2>2 DEF Progress
<1>15. ASSUME AllRequired(candidates)
       PROVE  /\ chosen.omitted = <<>>
              /\ chosen.tokens = Demand(candidates, base)
              /\ chosen.tokens <= budget => chosen.overflowed = {}
  <2>1. Round(candidates, FALSE, N) = {}
    BY <1>1, <1>15 DEF Round, AllRequired
  <2>2. chosen = first
    BY <1>4, <2>1 DEF Progress
  <2>3. first.tokens <= budget => first.overflowed = {}
    BY <1>2, <1>3 DEF Progress
  <2> QED
    BY <1>5, <1>9, <2>2, <2>3
<1> QED
  BY <1>4, <1>6, <1>10, <1>11, <1>12, <1>13, <1>14, <1>15 DEF SoundChoice

(* Known evidence that was not loaded.                                     *)
LEMMA DescriptorsAre ==
    ASSUME NEW I, NEW known \in Seq(I), NEW candidates
    PROVE  /\ DescriptorOverflow(known) \in Nat
           /\ Descriptors(known, candidates) \in Seq(I)
           /\ Named(Descriptors(known, candidates)) \subseteq Named(known) \ Ids(candidates)
           /\ DescriptorOverflow(known) = 0 =>
                /\ Named(Descriptors(known, candidates)) = Named(known) \ Ids(candidates)
                /\ Distinct(known) => Distinct(Descriptors(known, candidates))
<1> DEFINE first == IF Len(known) > MaxDescriptors THEN MaxDescriptors ELSE Len(known)
           s == SubSeq(known, 1, first)
           S == Named(known) \ Ids(candidates)
<1>1. Len(known) \in Nat /\ MaxDescriptors \in Nat /\ DOMAIN known = 1..Len(known)
  BY AssemblyAssumption
<1>2. DescriptorOverflow(known) \in Nat
  BY <1>1 DEF DescriptorOverflow
<1>3. first \in Nat /\ first <= Len(known)
  BY <1>1
<1> HIDE DEF first
<1>4. s \in Seq(I) /\ Len(s) = first /\ \A i \in 1..first : s[i] = known[i]
  <2>1. \A i \in 1..first : known[i] \in I
    BY <1>1, <1>3
  <2> QED
    BY <1>3, <2>1, SubSeqProperties
<1> HIDE DEF s, S
<1>5. /\ Only(s, S) \in Seq(I)
      /\ Named(Only(s, S)) = Named(s) \cap S
      /\ Distinct(s) => Distinct(Only(s, S))
  BY <1>4, OnlySet
<1>6. Descriptors(known, candidates) = Only(s, S)
  BY DEF Descriptors, s, first, S
<1>7. ASSUME DescriptorOverflow(known) = 0 PROVE s = known
  <2>1. ~(Len(known) > MaxDescriptors)
    <3> SUFFICES ASSUME Len(known) > MaxDescriptors PROVE FALSE
      OBVIOUS
    <3>1. DescriptorOverflow(known) = Len(known) - MaxDescriptors
      BY DEF DescriptorOverflow
    <3> QED
      BY <1>1, <1>7, <3>1
  <2>2. first = Len(known)
    BY <2>1 DEF first
  <2> QED
    BY <2>2, SubSeqFull DEF s
<1> QED
  BY <1>2, <1>5, <1>6, <1>7 DEF S

-----------------------------------------------------------------------------
(* How many omission records fit.                                          *)
LEMMA LongestPrefixIs ==
    ASSUME NEW n \in Nat, NEW tokens \in Nat, NEW budget \in Int
    PROVE  LET k == LongestPrefix(n, tokens, budget)
           IN  /\ k \in 0..n
               /\ k = 0 \/ tokens + k * OmissionTokens <= budget
               /\ \A m \in (k + 1)..n : tokens + m * OmissionTokens > budget
<1> DEFINE Fit(k) == k = 0 \/ tokens + k * OmissionTokens <= budget
           T == {m \in 0..n : Fit(n - m)}
<1>1. T \in SUBSET Nat /\ n \in T
  OBVIOUS
<1>2. PICK m \in T : \A j \in T : m <= j
  BY <1>1, Least
<1>3. m \in 0..n /\ Fit(n - m) /\ n - m \in 0..n
  OBVIOUS
<1>4. ASSUME NEW j \in ((n - m) + 1)..n PROVE tokens + j * OmissionTokens > budget
  <2>1. n - j \in 0..n /\ n - j < m /\ j # 0 /\ n - (n - j) = j /\ j \in Nat
    BY <1>3
  <2>2. n - j \notin T
    BY <1>2, <1>3, <2>1
  <2>3. ~Fit(j)
    BY <2>1, <2>2
  <2>4. tokens + j * OmissionTokens \in Nat
    BY <2>1, AssemblyAssumption
  <2> QED
    BY <2>3, <2>4
<1>5. \E k \in 0..n : /\ k = 0 \/ tokens + k * OmissionTokens <= budget
                      /\ \A j \in (k + 1)..n : tokens + j * OmissionTokens > budget
  BY <1>3, <1>4
<1> QED
  BY <1>5 DEF LongestPrefix

-----------------------------------------------------------------------------
(* What assembleModelContext returns: of the pending records the first k.  *)
Returns(a, chosen, pending, over, budget, k) ==
    /\ a.included = chosen.included
    /\ a.overflowed = chosen.overflowed
    /\ a.omitted = SubSeq(pending, 1, k)
    /\ a.truncated \in BOOLEAN
    /\ a.unreported \in Nat
    /\ a.unreported = over + Len(pending) - k
    /\ a.truncated <=> a.unreported > 0
    /\ a.tokens \in Nat /\ a.tokens >= chosen.tokens
    /\ ~a.truncated => /\ a.tokens = chosen.tokens + k * OmissionTokens
                       /\ k = 0 \/ a.tokens <= budget
    /\ a.truncated => over > 0 \/ chosen.tokens + Len(pending) * OmissionTokens > budget

LEMMA AssembleIs ==
    ASSUME NEW I, NEW candidates \in Seq(Candidate(I)), DistinctIds(candidates),
           NEW known \in Seq(I), NEW base \in Nat, NEW budget \in Int
    PROVE  LET a == Assemble(candidates, known, base, budget)
               chosen == Choose(candidates, base, budget)
               pending == chosen.omitted \o Descriptors(known, candidates)
           IN  /\ pending \in Seq(I)
               /\ \E k \in 0..Len(pending) :
                     Returns(a, chosen, pending, DescriptorOverflow(known), budget, k)
<1> DEFINE chosen == Choose(candidates, base, budget)
           pending == chosen.omitted \o Descriptors(known, candidates)
           p == Len(pending)
           over == DescriptorOverflow(known)
           reported == LongestPrefix(p, chosen.tokens, budget)
           truncated == over + p > reported
           fewer == LongestPrefix(reported, chosen.tokens + ResidualTokens, budget)
           kept == IF truncated THEN fewer ELSE reported
           cost == chosen.tokens + kept * OmissionTokens
                     + (IF truncated THEN ResidualTokens ELSE 0)
           a == Assemble(candidates, known, base, budget)
<1>1. a = [included |-> chosen.included, omitted |-> SubSeq(pending, 1, kept),
           overflowed |-> chosen.overflowed, truncated |-> truncated,
           unreported |-> over + p - kept, tokens |-> cost]
  BY DEF Assemble
<1>2. chosen.omitted \in Seq(I) /\ chosen.tokens \in Nat
  <2>1. SoundChoice(I, chosen, candidates, base, budget)
    BY ChooseIs, Zenon
  <2> HIDE DEF chosen
  <2> QED
    BY <2>1 DEF SoundChoice, Choices
<1>3. Descriptors(known, candidates) \in Seq(I) /\ over \in Nat
  BY DescriptorsAre
<1> HIDE DEF chosen, over
<1>4. pending \in Seq(I) /\ p \in Nat
  <2>1. pending \in Seq(I)
    BY <1>2, <1>3, ConcatProperties
  <2> QED
    BY <2>1
<1> HIDE DEF pending, p
<1>5. /\ reported \in 0..p
      /\ reported = 0 \/ chosen.tokens + reported * OmissionTokens <= budget
      /\ \A m \in (reported + 1)..p : chosen.tokens + m * OmissionTokens > budget
  BY <1>2, <1>4, LongestPrefixIs
<1> HIDE DEF reported
<1>6. fewer \in 0..reported
  <2>1. reported \in Nat /\ chosen.tokens + ResidualTokens \in Nat
    BY <1>2, <1>4, <1>5, AssemblyAssumption
  <2> QED
    BY <2>1, LongestPrefixIs
<1> HIDE DEF fewer
<1>7. kept \in 0..p /\ kept <= reported /\ kept * OmissionTokens \in Nat
  <2>1. kept \in Nat /\ kept <= reported /\ reported \in Nat /\ reported <= p
    BY <1>4, <1>5, <1>6
  <2> HIDE DEF kept
  <2> QED
    BY <1>4, <2>1, AssemblyAssumption
<1>8. over + p - kept \in Nat /\ (truncated <=> over + p - kept > 0)
  <2>1. reported \in Nat /\ reported <= p /\ kept \in Nat
    BY <1>4, <1>5, <1>7
  <2>2. ~truncated => kept = reported
    OBVIOUS
  <2> QED
    BY <1>3, <1>4, <1>7, <2>1, <2>2
<1>9. ASSUME ~truncated
      PROVE  /\ cost = chosen.tokens + kept * OmissionTokens
             /\ kept = 0 \/ cost <= budget
  <2>1. kept = reported
    BY <1>9
  <2>2. cost = chosen.tokens + kept * OmissionTokens
    <3>1. cost = chosen.tokens + kept * OmissionTokens + 0
      BY <1>9
    <3> HIDE DEF kept, cost
    <3> QED
      BY <1>2, <1>7, <3>1
  <2> HIDE DEF kept, cost
  <2> QED
    BY <1>5, <2>1, <2>2
<1>10. ASSUME truncated
       PROVE  over > 0 \/ chosen.tokens + p * OmissionTokens > budget
  <2>1. CASE reported = p
    BY <1>3, <1>4, <1>10, <2>1
  <2>2. CASE reported # p
    <3>1. p \in (reported + 1)..p
      BY <1>4, <1>5, <2>2
    <3> QED
      BY <1>5, <3>1
  <2> QED
    BY <2>1, <2>2
<1>11. cost \in Nat /\ cost >= chosen.tokens
  <2> DEFINE rest == IF truncated THEN ResidualTokens ELSE 0
  <2>1. rest \in Nat
    BY AssemblyAssumption
  <2>2. cost = chosen.tokens + kept * OmissionTokens + rest
    OBVIOUS
  <2> HIDE DEF rest, kept, cost
  <2> QED
    BY <1>2, <1>7, <2>1, <2>2
<1>12. truncated \in BOOLEAN
  OBVIOUS
<1> HIDE DEF truncated, kept, cost, a
<1>13. /\ a.included = chosen.included /\ a.omitted = SubSeq(pending, 1, kept)
       /\ a.overflowed = chosen.overflowed /\ a.truncated = truncated
       /\ a.unreported = over + p - kept /\ a.tokens = cost
  BY <1>1
<1>14. Returns(a, chosen, pending, over, budget, kept)
  BY <1>8, <1>9, <1>10, <1>11, <1>12, <1>13 DEF Returns, p
<1> QED
  BY <1>4, <1>7, <1>14 DEF a, chosen, pending, p, over

(* The sequence of all pending records, or of the first of them.           *)
LEMMA FirstOfPending ==
    ASSUME NEW T, NEW s \in Seq(T), NEW k \in 0..Len(s)
    PROVE  /\ Named(SubSeq(s, 1, k)) \subseteq Named(s)
           /\ Len(SubSeq(s, 1, k)) = k
           /\ SubSeq(s, 1, Len(s)) = s
<1>1. Len(s) \in Nat /\ DOMAIN s = 1..Len(s)
  OBVIOUS
<1>2. k \in Nat /\ \A i \in 1..k : s[i] \in T /\ i \in DOMAIN s
  BY <1>1
<1>3. /\ SubSeq(s, 1, k) \in Seq(T) /\ Len(SubSeq(s, 1, k)) = k
      /\ \A i \in 1..k : SubSeq(s, 1, k)[i] = s[i]
  BY <1>2, SubSeqProperties
<1>4. DOMAIN SubSeq(s, 1, k) = 1..k
  BY <1>3
<1>5. Named(SubSeq(s, 1, k)) \subseteq Named(s)
  BY <1>2, <1>3, <1>4 DEF Named
<1> QED
  BY <1>3, <1>5, SubSeqFull

LEMMA NamedConcat ==
    ASSUME NEW T, NEW s \in Seq(T), NEW t \in Seq(T)
    PROVE  Named(s \o t) = Named(s) \cup Named(t)
<1>1. /\ s \o t \in Seq(T) /\ Len(s \o t) = Len(s) + Len(t)
      /\ \A i \in 1..(Len(s) + Len(t)) :
            (s \o t)[i] = IF i <= Len(s) THEN s[i] ELSE t[i - Len(s)]
  BY ConcatProperties
<1> DEFINE u == s \o t
           m == Len(s)
           n == Len(t)
<1>2. /\ m \in Nat /\ n \in Nat
      /\ DOMAIN s = 1..m /\ DOMAIN t = 1..n
  OBVIOUS
<1>3. DOMAIN u = 1..(m + n)
  BY <1>1
<1>4. \A i \in 1..(m + n) : u[i] = IF i <= m THEN s[i] ELSE t[i - m]
  BY <1>1
<1> HIDE DEF u, m, n
<1>5. ASSUME NEW i \in 1..(m + n) PROVE u[i] \in Named(s) \cup Named(t)
  <2>1. CASE i <= m
    <3>1. i \in DOMAIN s /\ u[i] = s[i]
      BY <1>2, <1>4, <2>1
    <3> QED
      BY <3>1 DEF Named
  <2>2. CASE ~(i <= m)
    <3>1. i - m \in DOMAIN t /\ u[i] = t[i - m]
      BY <1>2, <1>4, <2>2
    <3> QED
      BY <3>1 DEF Named
  <2> QED
    BY <2>1, <2>2
<1>6. ASSUME NEW i \in DOMAIN s PROVE s[i] \in Named(u)
  <2>1. i \in 1..(m + n) /\ i <= m
    BY <1>2
  <2> QED
    BY <1>3, <1>4, <2>1 DEF Named
<1>7. ASSUME NEW i \in DOMAIN t PROVE t[i] \in Named(u)
  <2>1. m + i \in 1..(m + n) /\ ~(m + i <= m) /\ (m + i) - m = i
    BY <1>2
  <2>2. u[m + i] = t[i]
    BY <1>4, <2>1
  <2> QED
    BY <1>3, <2>1, <2>2 DEF Named
<1>8. Named(u) = Named(s) \cup Named(t)
  BY <1>3, <1>5, <1>6, <1>7 DEF Named
<1> QED
  BY <1>8 DEF u

-----------------------------------------------------------------------------
(* The records of omitted evidence are true: each is of an item there is   *)
(* and none of one that was included, whether or not they were cut short;  *)
(* and the context is said to be truncated exactly if some are missing.    *)
THEOREM OmissionsAreTrue ==
    ASSUME NEW I, NEW candidates \in Seq(Candidate(I)), DistinctIds(candidates),
           NEW known \in Seq(I), NEW base \in Nat, NEW budget \in Int
    PROVE  LET a == Assemble(candidates, known, base, budget)
           IN  /\ Named(a.omitted) \subseteq (Ids(candidates) \cup Named(known)) \ a.included
               /\ a.truncated <=> a.unreported > 0
<1> DEFINE a == Assemble(candidates, known, base, budget)
           chosen == Choose(candidates, base, budget)
           descriptors == Descriptors(known, candidates)
           pending == chosen.omitted \o descriptors
<1>1. /\ pending \in Seq(I)
      /\ \E k \in 0..Len(pending) :
            Returns(a, chosen, pending, DescriptorOverflow(known), budget, k)
  BY AssembleIs
<1>2. /\ chosen.omitted \in Seq(I)
      /\ chosen.included \cup Named(chosen.omitted) = Ids(candidates)
      /\ chosen.included \cap Named(chosen.omitted) = {}
  <2>1. SoundChoice(I, chosen, candidates, base, budget)
    BY ChooseIs, Zenon
  <2> HIDE DEF chosen
  <2> QED
    BY <2>1 DEF SoundChoice, Choices, Apart
<1>3. /\ descriptors \in Seq(I)
      /\ Named(descriptors) \subseteq Named(known) \ Ids(candidates)
  BY DescriptorsAre
<1> HIDE DEF a, chosen, descriptors
<1>4. Named(pending) = Named(chosen.omitted) \cup Named(descriptors)
  BY <1>2, <1>3, NamedConcat
<1> HIDE DEF pending
<1>5. PICK k \in 0..Len(pending) :
         Returns(a, chosen, pending, DescriptorOverflow(known), budget, k)
  BY <1>1
<1>6. Named(a.omitted) \subseteq Named(pending)
  BY <1>1, <1>5, FirstOfPending DEF Returns
<1>7. Named(a.omitted) \subseteq (Ids(candidates) \cup Named(known)) \ a.included
  BY <1>2, <1>3, <1>4, <1>5, <1>6 DEF Returns
<1> QED
  BY <1>5, <1>7 DEF a, Returns

(* Nothing disappears: a context that passes for usable names every item   *)
(* there is, as included or as omitted, whatever had to give way.          *)
THEOREM NothingDisappears ==
    ASSUME NEW I, NEW candidates \in Seq(Candidate(I)), DistinctIds(candidates),
           NEW known \in Seq(I), NEW base \in Nat, NEW budget \in Int
    PROVE  LET a == Assemble(candidates, known, base, budget)
           IN  Clean(a, budget) => NamesEverything(candidates, known, a)
<1> DEFINE a == Assemble(candidates, known, base, budget)
           chosen == Choose(candidates, base, budget)
           descriptors == Descriptors(known, candidates)
           pending == chosen.omitted \o descriptors
           over == DescriptorOverflow(known)
<1> SUFFICES ASSUME Clean(a, budget) PROVE NamesEverything(candidates, known, a)
  OBVIOUS
<1>1. /\ pending \in Seq(I)
      /\ \E k \in 0..Len(pending) : Returns(a, chosen, pending, over, budget, k)
  BY AssembleIs
<1>2. /\ chosen.omitted \in Seq(I)
      /\ chosen.included \cup Named(chosen.omitted) = Ids(candidates)
      /\ chosen.included \cap Named(chosen.omitted) = {}
  <2>1. SoundChoice(I, chosen, candidates, base, budget)
    BY ChooseIs, Zenon
  <2> HIDE DEF chosen
  <2> QED
    BY <2>1 DEF SoundChoice, Choices, Apart
<1>3. /\ descriptors \in Seq(I) /\ over \in Nat
      /\ over = 0 => Named(descriptors) = Named(known) \ Ids(candidates)
  BY DescriptorsAre
<1>4. ~a.truncated
  BY DEF Clean
<1> HIDE DEF a, chosen, descriptors, over
<1>5. Named(pending) = Named(chosen.omitted) \cup Named(descriptors)
  BY <1>2, <1>3, NamedConcat
<1> HIDE DEF pending
<1>6. PICK k \in 0..Len(pending) : Returns(a, chosen, pending, over, budget, k)
  BY <1>1
<1>7. a.unreported = 0
  BY <1>4, <1>6 DEF Returns
<1>8. over = 0 /\ k = Len(pending)
  <2>1. Len(pending) \in Nat
    BY <1>1
  <2> QED
    BY <1>3, <1>6, <1>7, <2>1 DEF Returns
<1>9. a.omitted = pending
  BY <1>1, <1>6, <1>8, FirstOfPending DEF Returns
<1> QED
  BY <1>2, <1>3, <1>5, <1>6, <1>8, <1>9 DEF NamesEverything, Returns

(* Required candidates are never left out, and where they alone exceed the *)
(* budget the context does not pass for a usable one.                      *)
THEOREM RequiredAreKept ==
    ASSUME NEW I, NEW candidates \in Seq(Candidate(I)), DistinctIds(candidates),
           NEW known \in Seq(I), NEW base \in Nat, NEW budget \in Int
    PROVE  RequiredStay(candidates, base, budget,
                        Assemble(candidates, known, base, budget))
<1> DEFINE a == Assemble(candidates, known, base, budget)
           chosen == Choose(candidates, base, budget)
           pending == chosen.omitted \o Descriptors(known, candidates)
<1>1. PICK k \in 0..Len(pending) :
         Returns(a, chosen, pending, DescriptorOverflow(known), budget, k)
  BY AssembleIs
<1>2. /\ \A i \in DOMAIN candidates :
            candidates[i].required => candidates[i].id \in chosen.included
      /\ Demand(candidates, base) <= chosen.tokens
      /\ chosen.tokens \in Nat
  <2>1. SoundChoice(I, chosen, candidates, base, budget)
    BY ChooseIs, Zenon
  <2> HIDE DEF chosen
  <2> QED
    BY <2>1 DEF SoundChoice, Choices
<1>3. Demand(candidates, base) \in Nat
  <2>1. PICK sum \in [0..Len(candidates) -> Nat] : Sums(sum, candidates, base)
    BY DemandLoop
  <2>2. Len(candidates) \in 0..Len(candidates)
    OBVIOUS
  <2> QED
    BY <2>1, <2>2 DEF Sums
<1> HIDE DEF a, chosen, pending
<1>4. ASSUME Demand(candidates, base) > budget PROVE ~(a.tokens <= budget)
  BY <1>1, <1>2, <1>3, <1>4 DEF Returns
<1>5. RequiredStay(candidates, base, budget, a)
  BY <1>1, <1>2, <1>4 DEF RequiredStay, Clean, Returns
<1> QED
  BY <1>5 DEF a

(* The flags are enough: if the static context fits the budget, no         *)
(* required candidate overflowed it and nothing was truncated, the whole   *)
(* context fits.                                                           *)
THEOREM FlagsAreEnough ==
    ASSUME NEW I, NEW candidates \in Seq(Candidate(I)), DistinctIds(candidates),
           NEW known \in Seq(I), NEW base \in Nat, NEW budget \in Int, base <= budget
    PROVE  LET a == Assemble(candidates, known, base, budget)
           IN  a.overflowed = {} /\ ~a.truncated => Clean(a, budget)
<1> DEFINE a == Assemble(candidates, known, base, budget)
           chosen == Choose(candidates, base, budget)
           pending == chosen.omitted \o Descriptors(known, candidates)
<1> SUFFICES ASSUME a.overflowed = {}, ~a.truncated PROVE a.tokens <= budget
  BY DEF Clean
<1>1. PICK k \in 0..Len(pending) :
         Returns(a, chosen, pending, DescriptorOverflow(known), budget, k)
  BY AssembleIs
<1>2. /\ chosen.overflowed = {} => chosen.tokens <= budget
      /\ chosen.tokens \in Nat
  <2>1. SoundChoice(I, chosen, candidates, base, budget)
    BY ChooseIs, Zenon
  <2> HIDE DEF chosen
  <2> QED
    BY <2>1 DEF SoundChoice, Choices
<1> HIDE DEF a, chosen, pending
<1>3. /\ a.overflowed = chosen.overflowed
      /\ a.tokens = chosen.tokens + k * OmissionTokens
      /\ k = 0 \/ a.tokens <= budget
  BY <1>1 DEF Returns
<1>4. CASE k = 0
  <2>1. k * OmissionTokens = 0
    BY <1>4, AssemblyAssumption
  <2> QED
    BY <1>2, <1>3, <2>1
<1> QED
  BY <1>3, <1>4

(* The context is usable exactly if what is loaded and what is known fits, *)
(* at a token each, and then that is what it costs.                        *)
UsableIfItFits(candidates, known, base, budget) ==
    LET a == Assemble(candidates, known, base, budget)
        total == base + Len(candidates) + Cardinality(Named(known) \ Ids(candidates))
    IN  /\ total <= budget => /\ a.overflowed = {} /\ ~a.truncated
                              /\ a.tokens = total
                              /\ a.included = Ids(candidates)
        /\ total > budget => a.truncated \/ a.tokens > budget

(* Where all candidates are required, of one token each, and an omission   *)
(* costs one as well, the parts of assembleModelContext add up to that.    *)
THEOREM CostOfRequired ==
    ASSUME NEW I, NEW candidates \in Seq(Candidate(I)), DistinctIds(candidates),
           NEW known \in Seq(I), Distinct(known), DescriptorOverflow(known) = 0,
           NEW base \in Nat, NEW budget \in Int, OmissionTokens = 1,
           \A i \in DOMAIN candidates : candidates[i].required /\ candidates[i].tokens = 1
    PROVE  UsableIfItFits(candidates, known, base, budget)
<1> DEFINE a == Assemble(candidates, known, base, budget)
           chosen == Choose(candidates, base, budget)
           descriptors == Descriptors(known, candidates)
           pending == chosen.omitted \o descriptors
           p == Len(pending)
           L == Len(candidates)
           D == Cardinality(Named(known) \ Ids(candidates))
<1>1. PICK k \in 0..p :
         Returns(a, chosen, pending, DescriptorOverflow(known), budget, k)
  BY AssembleIs
<1>2. /\ chosen.omitted = <<>>
      /\ chosen.tokens = base + L
      /\ chosen.tokens <= budget => chosen.overflowed = {}
      /\ chosen.included \cup Named(chosen.omitted) = Ids(candidates)
  <2>1. Demand(candidates, base) = base + L
    BY DemandOfOnes
  <2>2. AllRequired(candidates)
    BY DEF AllRequired
  <2>3. SoundChoice(I, chosen, candidates, base, budget)
    BY ChooseIs, Zenon
  <2> HIDE DEF chosen
  <2> QED
    BY <2>1, <2>2, <2>3 DEF SoundChoice, Choices
<1>3. descriptors \in Seq(I) /\ p = Len(descriptors)
  <2>1. descriptors \in Seq(I)
    BY DescriptorsAre
  <2> HIDE DEF chosen, descriptors
  <2>2. pending = descriptors
    BY <1>2, <2>1, ConcatEmptySeq
  <2> QED
    BY <2>1, <2>2
<1>4. p = D /\ D \in Nat
  <2>1. Distinct(descriptors) /\ Named(descriptors) = Named(known) \ Ids(candidates)
    BY DescriptorsAre
  <2>2. Len(descriptors) = D
    BY <1>3, <2>1, DistinctLength
  <2>3. Len(descriptors) \in Nat
    BY <1>3
  <2> QED
    BY <1>3, <2>2, <2>3
<1>5. L \in Nat /\ Named(<<>>) = {}
  BY DEF Named
<1> HIDE DEF a, chosen, descriptors, pending, p, L, D
<1>6. /\ a.included = chosen.included /\ a.overflowed = chosen.overflowed
      /\ a.tokens \in Nat
      /\ a.unreported = p - k /\ (a.truncated <=> a.unreported > 0)
      /\ ~a.truncated => a.tokens = chosen.tokens + k
      /\ a.truncated => chosen.tokens + p > budget
  <2>1. k * OmissionTokens = k /\ 0 + p - k = p - k
    BY <1>4
  <2>2. p * OmissionTokens = p
    BY <1>4
  <2> QED
    BY <1>1, <2>1, <2>2 DEF Returns, p
<1>7. k = p \/ a.truncated
  BY <1>4, <1>6
<1>8. ASSUME base + L + D <= budget
      PROVE  /\ a.overflowed = {} /\ ~a.truncated
             /\ a.tokens = base + L + D /\ a.included = Ids(candidates)
  <2>1. chosen.tokens <= budget /\ ~(chosen.tokens + p > budget)
    BY <1>2, <1>4, <1>5, <1>8
  <2>2. ~a.truncated /\ k = p
    BY <1>6, <1>7, <2>1
  <2> QED
    BY <1>2, <1>4, <1>5, <1>6, <2>1, <2>2
<1>9. ASSUME base + L + D > budget PROVE a.truncated \/ a.tokens > budget
  BY <1>2, <1>4, <1>5, <1>6, <1>7, <1>9
<1> QED
  BY <1>8, <1>9 DEF a, L, D, UsableIfItFits
=============================================================================
