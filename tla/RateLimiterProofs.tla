------------------------- MODULE RateLimiterProofs -------------------------
(***************************************************************************)
(* Proofs, for any keys, limits, window length, callers and restarts, that *)
(* the fixed-window limiter keeps its bounds and implements Quota.         *)
(***************************************************************************)
EXTENDS RateLimiter, FiniteSetTheorems, TLAPS

USE RateLimiterAssumption DEF RateLimiterAssumption

LimiterIInv == LimiterTypeOK /\ WindowsInv

\* The sets of calls that the invariant counts are finite.
LEMMA FiniteCalls ==
  ASSUME NEW S \in SUBSET Calls
  PROVE  IsFiniteSet(S) /\ Cardinality(S) \in Nat
  BY FS_Subset, FS_CardinalityType

\* Fewer elements in a subset.
LEMMA SmallerSet ==
  ASSUME NEW S \in SUBSET Calls, NEW T \in SUBSET S
  PROVE  Cardinality(T) <= Cardinality(S)
  BY FiniteCalls, FS_Subset

\* One more element.
LEMMA OneMoreCall ==
  ASSUME NEW S \in SUBSET Calls, NEW c \in Calls, c \notin S
  PROVE  Cardinality(S \cup {c}) = Cardinality(S) + 1
  BY FiniteCalls, FS_AddElement

\* Quota counts as this module does.
LEMMA SameCount == \A S : Promise!Cardinality(S) = Cardinality(S)
  BY DEF Promise!Cardinality, Cardinality

\* The bounds of one key are natural numbers.
LEMMA BoundsAreNatural ==
  ASSUME LimiterTypeOK, NEW k \in Keys
  PROVE  /\ Limit[k] \in Nat /\ Limit[k] > 0 /\ restarts \in Nat
         /\ (1 + restarts) * Limit[k] \in Nat
         /\ (2 + restarts) * Limit[k] = Limit[k] + (1 + restarts) * Limit[k]
         /\ Limit[k] <= (1 + restarts) * Limit[k]
<1>1. Limit[k] \in Nat /\ Limit[k] > 0 /\ restarts \in Nat
  BY DEF LimiterTypeOK
<1>2. \A m, n \in Nat : /\ (1 + m) * n \in Nat
                        /\ (2 + m) * n = n + (1 + m) * n
                        /\ n <= (1 + m) * n
  OBVIOUS
<1> QED
  BY <1>1, <1>2

\* The empty map satisfies the invariant.
LEMMA LimiterInitIInv == LimiterInit => LimiterIInv
<1> SUFFICES ASSUME LimiterInit PROVE LimiterIInv
  OBVIOUS
<1>1. LimiterTypeOK
  BY DEF LimiterInit, LimiterTypeOK
<1>2. WindowsInv
  <2> SUFFICES ASSUME NEW k \in Keys
               PROVE  /\ ~InForce(k) /\ Cardinality(Recent(k)) <= (1 + restarts) * Limit[k]
                      /\ \A c \in Calls : answer[k][c] = "none" => weight[k][c] = -1
    BY DEF WindowsInv
  <2>1. Recent(k) = {}
    BY DEF LimiterInit, Recent
  <2>2. Cardinality(Recent(k)) = 0
    BY <2>1, FS_EmptySet
  <2>3. ~InForce(k)
    BY DEF LimiterInit, InForce
  <2> QED
    BY <1>1, <2>2, <2>3, BoundsAreNatural DEF LimiterInit
<1> QED
  BY <1>1, <1>2 DEF LimiterIInv

\* What Allow does to the sets of calls of its own key.
LEMMA AdmittedCall ==
  ASSUME LimiterIInv, NEW c \in Calls, NEW k \in Keys,
         answer[k][c] = "none",
         weight' = [weight EXCEPT ![k][c] = Window]
  PROVE  /\ Recent(k)' = Recent(k) \cup {c} /\ c \notin Recent(k)
         /\ Cardinality(Recent(k)') = Cardinality(Recent(k)) + 1
<1>1. weight[k][c] = -1
  BY DEF LimiterIInv, WindowsInv
<1>2. weight'[k] = [weight[k] EXCEPT ![c] = Window]
  BY DEF LimiterIInv, LimiterTypeOK
<1>3. Recent(k)' = Recent(k) \cup {c} /\ c \notin Recent(k)
  BY <1>1, <1>2 DEF LimiterIInv, LimiterTypeOK, Recent
<1> QED
  BY <1>3, OneMoreCall DEF Recent

\* Allow preserves the invariant, and is a step of Quota.
LEMMA AllowStep ==
  ASSUME LimiterIInv, NEW c \in Calls, NEW k \in Keys,
         NEW said \in {"admitted", "refused"}, Allow(c, k, said)
  PROVE  LimiterIInv' /\ (Promise!Admit(c, k) \/ Promise!Refuse(c, k))
<1> USE DEF entries
<1>0. LimiterTypeOK /\ WindowsInv
  BY DEF LimiterIInv
<1>t. LimiterTypeOK'
  <2>1. /\ answer' = [answer EXCEPT ![k][c] = said]
        /\ weight' = weight \/ weight' = [weight EXCEPT ![k][c] = Window]
        /\ held' \in {held, held \cup {k}}
        /\ resetIn' \in {resetIn, [resetIn EXCEPT ![k] = Window]}
        /\ count' \in {count, [count EXCEPT ![k] = 1], [count EXCEPT ![k] = @ + 1]}
        /\ restarts' = restarts
    BY DEF Allow, Open
  <2>2. weight' \in [Keys -> [Calls -> -1..Window]]
    <3>1. weight \in [Keys -> [Calls -> -1..Window]] /\ Window \in -1..Window
      BY <1>0 DEF LimiterTypeOK
    <3>2. [weight[k] EXCEPT ![c] = Window] \in [Calls -> -1..Window]
      BY <3>1
    <3> QED
      BY <2>1, <3>1, <3>2
  <2>3. answer' \in [Keys -> [Calls -> {"none", "admitted", "refused"}]]
    BY <1>0, <2>1 DEF LimiterTypeOK
  <2>4. count' \in [Keys -> Nat] /\ resetIn' \in [Keys -> -1..Window] /\ held' \subseteq Keys
    BY <1>0, <2>1 DEF LimiterTypeOK
  <2> QED
    BY <1>0, <2>1, <2>2, <2>3, <2>4 DEF LimiterTypeOK
<1>b. /\ Limit[k] \in Nat /\ Limit[k] > 0 /\ restarts \in Nat
      /\ (1 + restarts) * Limit[k] \in Nat
      /\ (2 + restarts) * Limit[k] = Limit[k] + (1 + restarts) * Limit[k]
  BY <1>0, BoundsAreNatural
<1>n. Promise!Cardinality(Promise!Weighing(k)) = Cardinality(Recent(k))
  BY SameCount DEF Promise!Weighing, Recent
<1>o. ASSUME NEW j \in Keys, j # k
      PROVE  /\ InForce(j)' = InForce(j) /\ count'[j] = count[j] /\ resetIn'[j] = resetIn[j]
             /\ weight'[j] = weight[j] /\ answer'[j] = answer[j] /\ restarts' = restarts
  BY <1>o, <1>0 DEF Allow, Open, InForce, LimiterTypeOK
<1>w. ASSUME /\ InForce(k)' =>
                   /\ Cardinality(Later(k)') <= count'[k]
                   /\ count'[k] <= Cardinality(Counted(k)')
                   /\ count'[k] <= Limit[k]
                   /\ Cardinality(Recent(k)') <= count'[k] + (1 + restarts) * Limit[k]
             /\ ~InForce(k)' => Cardinality(Recent(k)') <= (1 + restarts) * Limit[k]
             /\ \A d \in Calls : answer'[k][d] = "none" => weight'[k][d] = -1
      PROVE  WindowsInv'
  <2> SUFFICES ASSUME NEW j \in Keys
               PROVE  /\ InForce(j)' =>
                            /\ Cardinality(Later(j)') <= count'[j]
                            /\ count'[j] <= Cardinality(Counted(j)')
                            /\ count'[j] <= Limit[j]
                            /\ Cardinality(Recent(j)') <= count'[j] + (1 + restarts') * Limit[j]
                      /\ ~InForce(j)' => Cardinality(Recent(j)') <= (1 + restarts') * Limit[j]
                      /\ \A d \in Calls : answer'[j][d] = "none" => weight'[j][d] = -1
    BY DEF WindowsInv
  <2>1. CASE j = k
    BY <1>w, <2>1 DEF Allow
  <2>2. CASE j # k
    <3>1. Later(j)' = Later(j) /\ Counted(j)' = Counted(j) /\ Recent(j)' = Recent(j)
      BY <1>o, <2>2 DEF Later, Counted, Recent
    <3> QED
      BY <1>0, <1>o, <2>2, <3>1 DEF WindowsInv
  <2> QED
    BY <2>1, <2>2
<1>1. CASE said = "admitted" /\ ~InForce(k)
  <2>1. /\ InForce(k)' /\ count'[k] = 1 /\ resetIn'[k] = Window
        /\ weight' = [weight EXCEPT ![k][c] = Window] /\ answer[k][c] = "none"
    BY <1>0, <1>1 DEF Allow, Open, InForce, LimiterTypeOK
  <2>2. /\ Cardinality(Recent(k)') = Cardinality(Recent(k)) + 1
    BY <2>1, AdmittedCall
  <2>3. Cardinality(Recent(k)) <= (1 + restarts) * Limit[k] /\ Cardinality(Recent(k)) \in Nat
    BY <1>0, <1>1, FiniteCalls DEF WindowsInv, Recent
  <2>4. Later(k)' = {} /\ Cardinality(Later(k)') = 0
    <3>1. \A d \in Calls : ~(weight'[k][d] > resetIn'[k])
      BY <1>t, <2>1 DEF LimiterTypeOK
    <3>2. Later(k)' = {}
      BY <3>1 DEF Later
    <3> QED
      BY <3>2, FS_EmptySet
  <2>5. {c} \subseteq Counted(k)'
    BY <1>0, <2>1 DEF Counted, LimiterTypeOK
  <2>6. 1 <= Cardinality(Counted(k)')
    <3>1. Counted(k)' \in SUBSET Calls
      BY DEF Counted
    <3>2. Cardinality({c}) <= Cardinality(Counted(k)')
      BY <2>5, <3>1, SmallerSet
    <3> QED
      BY <3>2, FS_Singleton
  <2>7. \A d \in Calls : answer'[k][d] = "none" => weight'[k][d] = -1
    BY <1>0, <1>1 DEF Allow, WindowsInv, LimiterTypeOK
  <2>8. WindowsInv'
    BY <1>w, <1>b, <2>1, <2>2, <2>3, <2>4, <2>6, <2>7
  <2>9. Promise!Admit(c, k)
    <3>1. Cardinality(Recent(k)) < (2 + restarts) * Limit[k]
      BY <1>b, <2>3
    <3> QED
      BY <1>1, <1>n, <2>1, <3>1 DEF Promise!Admit, Promise!Answer, Allow
  <2> QED
    BY <1>t, <2>8, <2>9 DEF LimiterIInv
<1>2. CASE said = "admitted" /\ InForce(k)
  <2>1. /\ InForce(k)' /\ count'[k] = count[k] + 1 /\ count[k] < Limit[k]
        /\ resetIn'[k] = resetIn[k]
        /\ weight' = [weight EXCEPT ![k][c] = Window] /\ answer[k][c] = "none"
    BY <1>0, <1>2 DEF Allow, InForce, LimiterTypeOK
  <2>2. /\ Cardinality(Recent(k)') = Cardinality(Recent(k)) + 1
    BY <2>1, AdmittedCall
  <2>3. /\ Cardinality(Recent(k)) <= count[k] + (1 + restarts) * Limit[k]
        /\ Cardinality(Later(k)) <= count[k] /\ count[k] <= Cardinality(Counted(k))
        /\ Cardinality(Recent(k)) \in Nat /\ Cardinality(Later(k)) \in Nat
        /\ Cardinality(Counted(k)) \in Nat /\ count[k] \in Nat
    BY <1>0, <1>2, FiniteCalls DEF WindowsInv, Recent, Later, Counted, LimiterTypeOK
  <2>4. weight'[k] = [weight[k] EXCEPT ![c] = Window] /\ weight[k][c] = -1 /\ resetIn[k] >= 0
    BY <1>0, <1>2, <2>1 DEF LimiterTypeOK, WindowsInv, InForce
  <2>5. Counted(k)' = Counted(k) \cup {c} /\ c \notin Counted(k)
    BY <1>0, <2>1, <2>4 DEF Counted, LimiterTypeOK
  <2>6. Cardinality(Counted(k)') = Cardinality(Counted(k)) + 1
    BY <2>5, OneMoreCall DEF Counted
  <2>7. Later(k)' \subseteq Later(k) \cup {c} /\ c \notin Later(k)
    BY <1>0, <2>1, <2>4 DEF Later, LimiterTypeOK
  <2>8. Cardinality(Later(k) \cup {c}) = Cardinality(Later(k)) + 1
    BY <2>7, OneMoreCall DEF Later
  <2>9. Cardinality(Later(k)') <= Cardinality(Later(k)) + 1
    <3>1. Cardinality(Later(k)') <= Cardinality(Later(k) \cup {c})
      BY <2>7, SmallerSet DEF Later
    <3> QED
      BY <2>8, <3>1
  <2>10. Cardinality(Later(k)') \in Nat
    BY FiniteCalls DEF Later
  <2>11. \A d \in Calls : answer'[k][d] = "none" => weight'[k][d] = -1
    BY <1>0, <1>2 DEF Allow, WindowsInv, LimiterTypeOK
  <2>12. WindowsInv'
    BY <1>w, <1>b, <2>1, <2>2, <2>3, <2>6, <2>9, <2>10, <2>11
  <2>13. Promise!Admit(c, k)
    <3>1. Cardinality(Recent(k)) < (2 + restarts) * Limit[k]
      BY <1>b, <2>1, <2>3
    <3> QED
      BY <1>2, <1>n, <2>1, <3>1 DEF Promise!Admit, Promise!Answer, Allow
  <2> QED
    BY <1>t, <2>12, <2>13 DEF LimiterIInv
<1>3. CASE said = "refused"
  <2>1. /\ InForce(k) /\ count[k] >= Limit[k] /\ UNCHANGED <<entries, weight, restarts>>
        /\ answer' = [answer EXCEPT ![k][c] = "refused"] /\ answer[k][c] = "none"
    BY <1>3 DEF Allow
  <2>2. /\ Later(k)' = Later(k) /\ Counted(k)' = Counted(k) /\ Recent(k)' = Recent(k)
        /\ InForce(k)' = InForce(k)
    BY <2>1 DEF Later, Counted, Recent, InForce
  <2>3. \A d \in Calls : answer'[k][d] = "none" => weight'[k][d] = -1
    BY <1>0, <2>1 DEF WindowsInv, LimiterTypeOK
  <2>4. WindowsInv'
    BY <1>0, <1>w, <2>1, <2>2, <2>3 DEF WindowsInv
  <2>5. Counted(k) \subseteq Recent(k)
    BY <1>0, <2>1 DEF Counted, Recent, InForce, LimiterTypeOK
  <2>6. /\ Cardinality(Counted(k)) <= Cardinality(Recent(k))
        /\ count[k] <= Cardinality(Counted(k)) /\ count[k] \in Nat
        /\ Cardinality(Counted(k)) \in Nat /\ Cardinality(Recent(k)) \in Nat
    BY <1>0, <2>1, <2>5, SmallerSet, FiniteCalls DEF Recent, Counted, WindowsInv, LimiterTypeOK
  <2>7. Promise!Refuse(c, k)
    <3>1. Cardinality(Recent(k)) >= Limit[k]
      BY <1>b, <2>1, <2>6
    <3> QED
      BY <1>n, <2>1, <3>1 DEF Promise!Refuse, Promise!Answer
  <2> QED
    BY <1>t, <2>4, <2>7 DEF LimiterIInv
<1> QED
  BY <1>1, <1>2, <1>3

\* The reaper preserves the invariant, and no caller notices it.
LEMMA ReapStep ==
  ASSUME LimiterIInv, ReapEntries
  PROVE  LimiterIInv' /\ UNCHANGED Promise!vars
<1> USE DEF LimiterIInv, ReapEntries
<1>1. LimiterTypeOK'
  BY DEF LimiterTypeOK
<1>2. \A k \in Keys : /\ InForce(k)' = InForce(k) /\ Later(k)' = Later(k)
                      /\ Counted(k)' = Counted(k) /\ Recent(k)' = Recent(k)
  BY DEF InForce, Later, Counted, Recent
<1>3. WindowsInv'
  BY <1>2 DEF WindowsInv
<1> QED
  BY <1>1, <1>3 DEF Promise!vars

\* So does the passing of time: when a window ends, the calls still within
\* reach are those admitted after its first tick, which it counted.
LEMMA TickStep ==
  ASSUME LimiterIInv, Tick
  PROVE  LimiterIInv' /\ Promise!Pass
<1>0. LimiterTypeOK /\ WindowsInv
  BY DEF LimiterIInv
<1>1. LimiterTypeOK'
  <2>1. \A n \in -1..Window : (IF n >= 0 THEN n - 1 ELSE -1) \in -1..Window
    OBVIOUS
  <2>2. \A k \in Keys, c \in Calls : weight[k][c] \in -1..Window /\ resetIn[k] \in -1..Window
    BY <1>0 DEF LimiterTypeOK
  <2>3. weight' \in [Keys -> [Calls -> -1..Window]] /\ resetIn' \in [Keys -> -1..Window]
    BY <2>1, <2>2, <1>0 DEF Tick, LimiterTypeOK
  <2> QED
    BY <1>0, <2>3 DEF Tick, LimiterTypeOK
<1>2. WindowsInv'
  <2> SUFFICES ASSUME NEW k \in Keys
               PROVE  /\ InForce(k)' =>
                            /\ Cardinality(Later(k)') <= count'[k]
                            /\ count'[k] <= Cardinality(Counted(k)')
                            /\ count'[k] <= Limit[k]
                            /\ Cardinality(Recent(k)') <= count'[k] + (1 + restarts') * Limit[k]
                      /\ ~InForce(k)' => Cardinality(Recent(k)') <= (1 + restarts') * Limit[k]
                      /\ \A c \in Calls : answer'[k][c] = "none" => weight'[k][c] = -1
    BY DEF WindowsInv
  <2>1. /\ resetIn[k] \in -1..Window /\ count[k] \in Nat
        /\ resetIn'[k] = IF resetIn[k] >= 0 THEN resetIn[k] - 1 ELSE -1
        /\ \A c \in Calls : /\ weight[k][c] \in -1..Window
                            /\ weight'[k][c] = IF weight[k][c] >= 0 THEN weight[k][c] - 1 ELSE -1
        /\ held' = held /\ count' = count /\ answer' = answer /\ restarts' = restarts
    BY <1>0 DEF Tick, LimiterTypeOK
  <2>2. \A c \in Calls : answer'[k][c] = "none" => weight'[k][c] = -1
    BY <1>0, <2>1 DEF WindowsInv
  <2>3. Recent(k)' \subseteq Recent(k) /\ Recent(k) \subseteq Calls
    BY <2>1 DEF Recent
  <2>4. /\ Cardinality(Recent(k)') <= Cardinality(Recent(k))
        /\ Cardinality(Recent(k)') \in Nat /\ Cardinality(Recent(k)) \in Nat
    BY <2>3, SmallerSet, FiniteCalls
  <2>5. /\ Limit[k] \in Nat /\ restarts \in Nat /\ (1 + restarts) * Limit[k] \in Nat
        /\ Limit[k] <= (1 + restarts) * Limit[k]
    BY <1>0, BoundsAreNatural
  <2>6. CASE ~InForce(k)
    <3>1. ~InForce(k)'
      BY <2>1, <2>6 DEF InForce
    <3>2. Cardinality(Recent(k)) <= (1 + restarts) * Limit[k]
      BY <1>0, <2>6 DEF WindowsInv
    <3> QED
      BY <2>1, <2>2, <2>4, <2>5, <3>1, <3>2
  <2>7. CASE InForce(k) /\ resetIn[k] = 0
    <3>1. ~InForce(k)' /\ Recent(k)' = Later(k)
      BY <2>1, <2>7 DEF InForce, Recent, Later
    <3>2. Cardinality(Later(k)) <= count[k] /\ count[k] <= Limit[k]
      BY <1>0, <2>7 DEF WindowsInv
    <3>3. Cardinality(Recent(k)') <= count[k]
      BY <3>1, <3>2
    <3> QED
      BY <2>1, <2>2, <2>4, <2>5, <3>1, <3>2, <3>3
  <2>8. CASE InForce(k) /\ resetIn[k] # 0
    <3>1. InForce(k)' /\ Counted(k)' = Counted(k) /\ Later(k)' = Later(k)
      BY <2>1, <2>8 DEF InForce, Counted, Later
    <3>2. /\ Cardinality(Later(k)) <= count[k] /\ count[k] <= Cardinality(Counted(k))
          /\ count[k] <= Limit[k]
          /\ Cardinality(Recent(k)) <= count[k] + (1 + restarts) * Limit[k]
      BY <1>0, <2>8 DEF WindowsInv
    <3>3. Cardinality(Recent(k)') <= count[k] + (1 + restarts) * Limit[k]
      BY <2>1, <2>4, <2>5, <3>2
    <3> QED
      BY <2>1, <2>2, <3>1, <3>2, <3>3
  <2> QED
    BY <2>6, <2>7, <2>8
<1>3. Promise!Pass
  BY DEF Tick, Promise!Pass
<1> QED
  BY <1>1, <1>2, <1>3 DEF LimiterIInv

\* A restart forgets the entries and pays for it with one more limit.
LEMMA RestartStep ==
  ASSUME LimiterIInv, LimiterRestart
  PROVE  LimiterIInv' /\ Promise!Restart
<1>0. LimiterTypeOK /\ WindowsInv
  BY DEF LimiterIInv
<1>1. LimiterTypeOK'
  BY <1>0 DEF LimiterRestart, Forgotten, LimiterTypeOK
<1>2. WindowsInv'
  <2> SUFFICES ASSUME NEW k \in Keys
               PROVE  /\ ~InForce(k)' /\ Cardinality(Recent(k)') <= (1 + restarts') * Limit[k]
                      /\ \A c \in Calls : answer'[k][c] = "none" => weight'[k][c] = -1
    BY DEF WindowsInv
  <2>1. ~InForce(k)' /\ Recent(k)' = Recent(k) /\ restarts' = restarts + 1
    BY DEF LimiterRestart, Forgotten, InForce, Recent
  <2>2. /\ Limit[k] \in Nat /\ restarts \in Nat /\ (1 + restarts) * Limit[k] \in Nat
        /\ (2 + restarts) * Limit[k] = Limit[k] + (1 + restarts) * Limit[k]
    BY <1>0, BoundsAreNatural
  <2>3. Cardinality(Recent(k)) \in Nat /\ count[k] \in Nat
    BY <1>0, FiniteCalls DEF Recent, LimiterTypeOK
  <2>4. Cardinality(Recent(k)) <= Limit[k] + (1 + restarts) * Limit[k]
    BY <1>0, <2>2, <2>3 DEF WindowsInv
  <2>5. 1 + restarts' = 2 + restarts
    BY <2>1, <2>2
  <2>6. Cardinality(Recent(k)') <= (1 + restarts') * Limit[k]
    BY <2>1, <2>2, <2>4, <2>5
  <2> QED
    BY <1>0, <2>1, <2>6 DEF LimiterRestart, WindowsInv
<1>3. Promise!Restart
  BY DEF LimiterRestart, Promise!Restart
<1> QED
  BY <1>1, <1>2, <1>3 DEF LimiterIInv

\* Every step of the limiter preserves the invariant and is a step of Quota.
LEMMA LimiterStep ==
  ASSUME LimiterIInv, [LimiterNext]_limiterVars
  PROVE  LimiterIInv' /\ [Promise!Next]_(Promise!vars)
<1>1. ASSUME NEW c \in Calls, NEW k \in Keys, NEW said \in {"admitted", "refused"},
             Allow(c, k, said)
      PROVE  LimiterIInv' /\ Promise!Next
  BY <1>1, AllowStep DEF Promise!Next
<1>2. CASE ReapEntries
  BY <1>2, ReapStep
<1>3. CASE Tick
  BY <1>3, TickStep DEF Promise!Next
<1>4. CASE LimiterRestart
  BY <1>4, RestartStep DEF Promise!Next
<1>5. CASE UNCHANGED limiterVars
  BY <1>5 DEF limiterVars, entries, LimiterIInv, LimiterTypeOK, WindowsInv, InForce,
              Later, Counted, Recent, Promise!vars
<1> QED
  BY <1>1, <1>2, <1>3, <1>4, <1>5 DEF LimiterNext

\* The inductive invariant of the limiter, for every number of callers.
THEOREM LimiterInvariant == LimiterSpec => []LimiterIInv
<1>1. LimiterInit => LimiterIInv
  BY LimiterInitIInv
<1>2. LimiterIInv /\ [LimiterNext]_limiterVars => LimiterIInv'
  BY LimiterStep
<1> QED
  BY <1>1, <1>2, PTL DEF LimiterSpec

\* Allow never admits more than twice the limit of a key, and one limit for
\* each restart, within a window length.
THEOREM AdmissionsCorrect == LimiterSpec => []AdmissionsBounded
<1>1. LimiterIInv => AdmissionsBounded
  <2> SUFFICES ASSUME LimiterIInv, NEW k \in Keys
               PROVE  Cardinality(Recent(k)) <= (2 + restarts) * Limit[k]
    BY DEF AdmissionsBounded
  <2>1. LimiterTypeOK /\ WindowsInv
    BY DEF LimiterIInv
  <2>2. /\ Limit[k] \in Nat /\ restarts \in Nat /\ (1 + restarts) * Limit[k] \in Nat
        /\ (2 + restarts) * Limit[k] = Limit[k] + (1 + restarts) * Limit[k]
    BY <2>1, BoundsAreNatural
  <2>3. Cardinality(Recent(k)) \in Nat /\ count[k] \in Nat
    BY <2>1, FiniteCalls DEF Recent, LimiterTypeOK
  <2>4. Cardinality(Recent(k)) <= Limit[k] + (1 + restarts) * Limit[k]
    BY <2>1, <2>2, <2>3 DEF WindowsInv
  <2> QED
    BY <2>2, <2>4
<1> QED
  BY <1>1, LimiterInvariant, PTL

\* The limiter implements Quota.
THEOREM LimiterImplementsQuota == LimiterSpec => ImplementsQuota
<1>1. LimiterInit => Promise!Init
  BY DEF LimiterInit, Promise!Init
<1>2. LimiterIInv /\ [LimiterNext]_limiterVars => [Promise!Next]_(Promise!vars)
  BY LimiterStep
<1> QED
  BY <1>1, <1>2, LimiterInvariant, PTL DEF LimiterSpec, ImplementsQuota, Promise!Spec
=============================================================================
