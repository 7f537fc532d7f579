------------------------ MODULE SharedDetectorProofs ------------------------
(***************************************************************************)
(* Proofs about module SharedDetector, for any number of sessions and      *)
(* every value of the tables.                                              *)
(***************************************************************************)
EXTENDS SharedDetector, FiniteSetTheorems, TLAPS

\* What a session loaded from the hangover is not above the table either, and what
\* it loaded from the count is one.
LoadedInRange ==
  \A s \in Sessions :
    /\ pc[s] \in {"flag", "load", "store"} => loaded[s] <= OverHang2
    /\ pc[s] = "add" => loaded[s] \in Nat

TypeInv == TypeOK /\ LoadedInRange

\* The types are kept, and the hangover in its table, in every interleaving.
LEMMA TypeInductive == Spec => []TypeInv
<1> USE SharedDetectorAssumption DEF SharedDetectorAssumption
<1>1. Init => TypeInv
  <2> SUFFICES ASSUME Init PROVE TypeInv
    OBVIOUS
  <2>1. Unknown \in [hang : Int, speech : Int]
    BY DEF Unknown
  <2>2. entry \in [Sessions -> [hang : Int, speech : Int]]
    BY <2>1, entry = [s \in Sessions |-> Unknown] DEF Init
  <2>3. OverHang2 >= 0 /\ 0 \in 0..MaxSpeech
    OBVIOUS
  <2>4. /\ over_hang = 0 /\ num_of_speech = 0 /\ vad = 1
        /\ spoken = 0 /\ prolonged = 0
        /\ pc \in [Sessions -> {"idle"}]
        /\ loaded \in [Sessions -> Int] /\ vadflag \in [Sessions -> Int]
        /\ verdict \in [Sessions -> Int] /\ speech \in [Sessions -> BOOLEAN]
    BY DEF Init
  <2>5. quiet \in BOOLEAN
    BY quiet = FALSE DEF Init
  <2> QED
    BY <2>2, <2>3, <2>4, <2>5 DEF TypeInv, TypeOK, LoadedInRange, Pcs
<1>2. ASSUME TypeInv, [Next]_vars
      PROVE  TypeInv'
  <2> USE <1>2 DEF TypeInv, TypeOK, LoadedInRange, Pcs, At, shared, history
  <2>1. ASSUME NEW s \in Sessions, NEW is_speech \in BOOLEAN, Call(s, is_speech)
        PROVE  TypeInv'
    BY <2>1 DEF Call, Unknown
  <2>2. ASSUME NEW s \in Sessions, TestHang(s)
        PROVE  TypeInv'
    BY <2>2 DEF TestHang
  <2>3. ASSUME NEW s \in Sessions, FlagHang(s)
        PROVE  TypeInv'
    BY <2>3 DEF FlagHang
  <2>4. ASSUME NEW s \in Sessions, LoadHang(s)
        PROVE  TypeInv'
    BY <2>4 DEF LoadHang
  <2>5. ASSUME NEW s \in Sessions, StoreHang(s)
        PROVE  TypeInv'
    BY <2>5 DEF StoreHang, Stores
  <2>6. ASSUME NEW s \in Sessions, ZeroSpeech(s)
        PROVE  TypeInv'
    BY <2>6 DEF ZeroSpeech
  <2>7. ASSUME NEW s \in Sessions, LoadSpeech(s)
        PROVE  TypeInv'
    BY <2>7 DEF LoadSpeech
  <2>8. ASSUME NEW s \in Sessions, StoreSpeech(s)
        PROVE  TypeInv'
    BY <2>8 DEF StoreSpeech
  <2>9. ASSUME NEW s \in Sessions, TestSpeech(s)
        PROVE  TypeInv'
    BY <2>9 DEF TestSpeech
  <2>10. ASSUME NEW s \in Sessions, CapSpeech(s)
         PROVE  TypeInv'
    BY <2>10 DEF CapSpeech
  <2>11. ASSUME NEW s \in Sessions, SetHang(s)
         PROVE  TypeInv'
    BY <2>11 DEF SetHang
  <2>12. ASSUME NEW s \in Sessions, KeepDecision(s)
         PROVE  TypeInv'
    BY <2>12 DEF KeepDecision
  <2>13. ASSUME NEW s \in Sessions, Return(s)
         PROVE  TypeInv'
    BY <2>13 DEF Return
  <2>14. CASE FallSilent
    BY <2>14 DEF FallSilent
  <2>15. CASE UNCHANGED vars
    BY <2>15 DEF vars
  <2> QED
    BY <2>1, <2>2, <2>3, <2>4, <2>5, <2>6, <2>7, <2>8, <2>9, <2>10, <2>11, <2>12, <2>13,
       <2>14, <2>15
    DEF Next, Process
<1> QED
  BY <1>1, <1>2, PTL DEF Spec

\* The types are kept, and the hangover never leaves its table upwards.
THEOREM TypeCorrect == Spec => []TypeOK
<1>1. TypeInv => TypeOK
  BY DEF TypeInv
<1> QED
  BY <1>1, TypeInductive, PTL
-----------------------------------------------------------------------------
\* How far the call of a session has come that no other overlaps: what its steps
\* so far have made of the counters it found.
Silent(s) ==
  LET hang == entry[s].hang
  IN  ~ speech[s] /\
      \/ pc[s] = "smooth" /\ over_hang = hang /\ vadflag[s] = 0
      \/ pc[s] = "flag" /\ hang > 0 /\ over_hang = hang /\ loaded[s] = hang
      \/ /\ pc[s] \in {"load", "store"}
         /\ hang > 0 /\ over_hang = hang /\ loaded[s] = hang /\ vadflag[s] = 2 + hang
      \/ /\ pc[s] \in {"zero", "keep", "return"}
         /\ pc[s] # "zero" => num_of_speech = 0
         /\ pc[s] = "return" => vad = vadflag[s]
         /\ \/ hang > 0 /\ over_hang = hang - 1 /\ vadflag[s] = 2 + hang
            \/ hang <= 0 /\ over_hang = hang /\ vadflag[s] = 0

Speaks(s) ==
  LET n == entry[s].speech + 1
      many == n > MaxSpeechFrames
  IN  speech[s] /\ vadflag[s] = 1 /\
      \/ pc[s] = "count" /\ num_of_speech + 1 = n
      \/ pc[s] = "add" /\ loaded[s] + 1 = n
      \/ pc[s] = "test" /\ loaded[s] + 1 = n /\ num_of_speech = n
      \/ pc[s] = "cap" /\ many
      \/ pc[s] = "long" /\ many /\ num_of_speech = MaxSpeechFrames
      \/ pc[s] = "short" /\ ~ many /\ num_of_speech = n
      \/ /\ pc[s] \in {"keep", "return"}
         /\ pc[s] = "return" => vad = 1
         /\ over_hang = IF many THEN OverHang2 ELSE OverHang1
         /\ num_of_speech = IF many THEN MaxSpeechFrames ELSE n

Undisturbed(s) ==
  pc[s] # "idle" /\ entry[s] # Unknown =>
    /\ \A u \in Sessions \ {s} : pc[u] = "idle"
    /\ Silent(s) \/ Speaks(s)

CallInv == \A s \in Sessions : Undisturbed(s)

\* A step of a call leaves the others where they are.
LEMMA OthersStay ==
  ASSUME TypeInv, NEW s \in Sessions, Process(s)
  PROVE  /\ pc[s] # "idle"
         /\ \A u \in Sessions \ {s} : pc'[u] = pc[u]
         /\ entry' = entry /\ speech' = speech
<1> USE DEF TypeInv, TypeOK, At, history
<1>1. CASE TestHang(s) \/ FlagHang(s) \/ LoadHang(s) \/ StoreHang(s) \/ ZeroSpeech(s)
  BY <1>1 DEF TestHang, FlagHang, LoadHang, StoreHang, Stores, ZeroSpeech
<1>2. CASE LoadSpeech(s) \/ StoreSpeech(s) \/ TestSpeech(s) \/ CapSpeech(s) \/ SetHang(s)
  BY <1>2 DEF LoadSpeech, StoreSpeech, TestSpeech, CapSpeech, SetHang
<1>3. CASE KeepDecision(s) \/ Return(s)
  BY <1>3 DEF KeepDecision, Return
<1> QED
  BY <1>1, <1>2, <1>3 DEF Process

\* It advances its own call as it should, if no other overlaps it.
LEMMA CallAdvances ==
  ASSUME TypeInv, NEW s \in Sessions, Process(s), Silent(s) \/ Speaks(s)
  PROVE  pc'[s] = "idle" \/ Silent(s)' \/ Speaks(s)'
<1> USE DEF TypeInv, TypeOK, Pcs, At, shared, history, Silent, Speaks
<1> USE SharedDetectorAssumption DEF SharedDetectorAssumption
<1>1. CASE TestHang(s)
  BY <1>1 DEF TestHang
<1>2. CASE FlagHang(s)
  BY <1>2 DEF FlagHang
<1>3. CASE LoadHang(s)
  BY <1>3 DEF LoadHang
<1>4. CASE StoreHang(s)
  BY <1>4 DEF StoreHang, Stores
<1>5. CASE ZeroSpeech(s)
  BY <1>5 DEF ZeroSpeech
<1>6. CASE LoadSpeech(s)
  BY <1>6 DEF LoadSpeech
<1>7. CASE StoreSpeech(s)
  BY <1>7 DEF StoreSpeech
<1>8. CASE TestSpeech(s)
  BY <1>8 DEF TestSpeech
<1>9. CASE CapSpeech(s)
  BY <1>9 DEF CapSpeech
<1>10. CASE SetHang(s)
  BY <1>10 DEF SetHang
<1>11. CASE KeepDecision(s)
  BY <1>11 DEF KeepDecision
<1>12. CASE Return(s)
  BY <1>12 DEF Return
<1> QED
  BY <1>1, <1>2, <1>3, <1>4, <1>5, <1>6, <1>7, <1>8, <1>9, <1>10, <1>11, <1>12 DEF Process

\* CallInv is inductive on the types.
LEMMA CallInductive == Spec => []CallInv
<1>1. Init => CallInv
  BY DEF Init, CallInv, Undisturbed
<1>2. ASSUME TypeInv, CallInv, [Next]_vars
      PROVE  CallInv'
  <2>1. ASSUME NEW s \in Sessions, Process(s), NEW t \in Sessions
        PROVE  Undisturbed(t)'
    <3>1. CASE t = s
      BY <1>2, <2>1, <3>1, OthersStay, CallAdvances DEF CallInv, Undisturbed
    <3>2. CASE t # s
      BY <1>2, <2>1, <3>2, OthersStay DEF CallInv, Undisturbed
    <3> QED
      BY <3>1, <3>2
  <2>2. ASSUME NEW s \in Sessions, NEW is_speech \in BOOLEAN, Call(s, is_speech),
               NEW t \in Sessions
        PROVE  Undisturbed(t)'
    <3> USE <1>2, <2>2 DEF TypeInv, TypeOK, Call, At
    <3>1. CASE t # s
      BY <3>1 DEF Undisturbed
    <3>2. CASE t = s /\ \E u \in Sessions : pc[u] # "idle"
      BY <3>2 DEF Undisturbed
    <3>3. CASE t = s /\ \A u \in Sessions : pc[u] = "idle"
      BY <3>3 DEF Undisturbed, Silent, Speaks, shared
    <3> QED
      BY <3>1, <3>2, <3>3
  <2>3. CASE FallSilent
    BY <1>2, <2>3 DEF FallSilent, CallInv, Undisturbed, Silent, Speaks, shared
  <2>4. CASE UNCHANGED vars
    BY <1>2, <2>4 DEF vars, CallInv, Undisturbed, Silent, Speaks, shared, history
  <2> QED
    BY <1>2, <2>1, <2>2, <2>3, <2>4 DEF Next, CallInv
<1> QED
  BY <1>1, <1>2, TypeInductive, PTL DEF Spec

\* A call that no other overlaps does what the detector does for one caller, even
\* if others overlapped one another before it.
THEOREM UndisturbedCallsAreAtomic == Spec => []UndisturbedIsAtomic
<1>1. TypeInv /\ CallInv => UndisturbedIsAtomic
  BY DEF TypeInv, TypeOK, CallInv, Undisturbed, Silent, Speaks, UndisturbedIsAtomic
<1> QED
  BY <1>1, TypeInductive, CallInductive, PTL
-----------------------------------------------------------------------------
(***************************************************************************)
(* The end of the hangover                                                 *)
(***************************************************************************)
Above(x, y) == IF x > y THEN x ELSE y
Below(x, y) == IF x > y THEN y ELSE x

\* What one session, or two, may still make of a hangover of n, twice.
Square(n) == n * (n + 5)
Level(x, y) == Square(Above(x, y)) + 2 * Below(x, y) + 6

Levels == {n \in Int : n >= -1}

\* It goes up in steps.
LEMMA SquareNext ==
  ASSUME NEW n \in Int
  PROVE  Square(n) \in Int /\ Square(n + 1) = Square(n) + 2 * n + 6
<1>1. (n + 1) * ((n + 1) + 5) = n * (n + 5) + 2 * n + 6
  OBVIOUS
<1> QED
  BY <1>1 DEF Square

\* It grows.
LEMMA SquareGrows ==
  ASSUME NEW m \in Levels, NEW n \in Levels, m <= n
  PROVE  Square(m) <= Square(n)
<1>1. m \in Int /\ n \in Int /\ n - m >= 0 /\ n + m + 5 >= 0
  BY DEF Levels
<1>2. (n - m) * (n + m + 5) >= 0
  BY <1>1
<1>3. n * (n + 5) - m * (m + 5) = (n - m) * (n + m + 5)
  BY <1>1
<1>4. n * (n + 5) \in Int /\ m * (m + 5) \in Int
  BY <1>1
<1> QED
  BY <1>2, <1>3, <1>4 DEF Square

\* Less hangover, less to come.
LEMMA LevelGrows ==
  ASSUME NEW x \in Levels, NEW y \in Levels, NEW v \in Levels, NEW w \in Levels,
         v <= x, w <= y
  PROVE  Level(v, w) <= Level(x, y)
<1>1. /\ Above(v, w) \in Levels /\ Above(x, y) \in Levels /\ Above(v, w) <= Above(x, y)
      /\ Below(v, w) \in Int /\ Below(x, y) \in Int /\ Below(v, w) <= Below(x, y)
  BY DEF Above, Below, Levels
<1>2. Square(Above(v, w)) <= Square(Above(x, y))
  BY <1>1, SquareGrows
<1>3. Square(Above(v, w)) \in Int /\ Square(Above(x, y)) \in Int
  BY <1>1, SquareNext DEF Levels
<1> QED
  BY <1>1, <1>2, <1>3 DEF Level

\* It is a number, and alike in both sessions.
LEMMA LevelType ==
  ASSUME NEW x \in Levels, NEW y \in Levels
  PROVE  Level(x, y) \in Int /\ Level(x, y) = Level(y, x)
<1>1. /\ Above(x, y) \in Int /\ Above(x, y) = Above(y, x)
      /\ Below(x, y) \in Int /\ Below(x, y) = Below(y, x)
  BY DEF Above, Below, Levels
<1>2. Square(Above(x, y)) \in Int
  BY <1>1, SquareNext
<1> QED
  BY <1>1, <1>2 DEF Level

\* Both sessions have what one finds.
LEMMA LevelSame ==
  ASSUME NEW n \in Nat
  PROVE  Level(n - 1, n - 1) = Square(n)
<1>1. n - 1 \in Int /\ (n - 1) + 1 = n
  OBVIOUS
<1>2. Square(n) = Square(n - 1) + 2 * (n - 1) + 6
  BY <1>1, SquareNext
<1> QED
  BY <1>2 DEF Level, Above, Below

\* A store pays for the decision of its call while the other session holds a
\* hangover too.
LEMMA LevelStored ==
  ASSUME NEW p \in Nat, NEW q \in Levels, NEW r \in Levels, r <= Above(q, p - 1)
  PROVE  Level(p - 1, r) + 2 <= Level(p, q)
<1>1. /\ p \in Levels /\ p - 1 \in Levels /\ (p - 1) + 1 = p /\ q \in Int /\ q >= -1
      /\ r \in Int
  BY DEF Levels
<1>2. Square(p) = Square(p - 1) + 2 * (p - 1) + 6 /\ Square(p - 1) \in Int
      /\ Square(p) \in Int /\ Square(q) \in Int
  BY <1>1, SquareNext
<1>3. CASE q >= p
  <2>1. Above(q, p - 1) = q /\ q \in Levels
    BY <1>1, <1>3 DEF Above
  <2>2. Level(p - 1, r) <= Level(p - 1, q)
    BY <1>1, <2>1, LevelGrows
  <2>3. Level(p - 1, q) = Square(q) + 2 * (p - 1) + 6 /\ Level(p, q) = Square(q) + 2 * p + 6
    BY <1>1, <1>3 DEF Level, Above, Below
  <2>4. Level(p - 1, r) \in Int
    BY <1>1, LevelType
  <2> QED
    BY <1>2, <2>2, <2>3, <2>4
<1>4. CASE q < p
  <2>1. Above(q, p - 1) = p - 1
    BY <1>1, <1>4 DEF Above
  <2>2. Level(p - 1, r) <= Level(p - 1, p - 1)
    BY <1>1, <2>1, LevelGrows
  <2>3. Level(p - 1, p - 1) = Square(p)
    BY LevelSame
  <2>4. Level(p, q) = Square(p) + 2 * q + 6
    BY <1>1, <1>4 DEF Level, Above, Below
  <2>5. Level(p - 1, r) \in Int
    BY <1>1, LevelType
  <2> QED
    BY <1>1, <1>2, <2>2, <2>3, <2>4, <2>5
<1> QED
  BY <1>1, <1>3, <1>4

\* It pays for what else may come of it if the other finds what is stored.
LEMMA LevelStoredAlone ==
  ASSUME NEW p \in Nat, NEW q \in Levels
  PROVE  Level(p - 1, p - 1) + 2 * Below(p, q) + 6 <= Level(p, q)
<1>1. /\ p \in Levels /\ q \in Int /\ q >= -1 /\ Above(p, q) \in Levels /\ p <= Above(p, q)
      /\ Below(p, q) \in Int
  BY DEF Levels, Above, Below
<1>2. Square(p) <= Square(Above(p, q)) /\ Square(p) \in Int /\ Square(Above(p, q)) \in Int
  BY <1>1, SquareGrows, SquareNext DEF Levels
<1>3. Level(p - 1, p - 1) = Square(p)
  BY LevelSame
<1> QED
  BY <1>1, <1>2, <1>3 DEF Level

\* It is not negative.
LEMMA LevelPositive ==
  ASSUME NEW x \in Levels, NEW y \in Levels
  PROVE  Level(x, y) >= 0
<1>1. -1 \in Levels /\ 0 \in Nat /\ -1 <= x /\ -1 <= y
  BY DEF Levels
<1>2. Level(-1, -1) <= Level(x, y)
  BY <1>1, LevelGrows
<1>3. Level(-1, -1) = 0
  BY DEF Level, Square, Above, Below
<1> QED
  BY <1>2, <1>3, LevelType

\* The hangover that a session at a step of its call may bring back, or find.
KeptOf(here, found, hang) ==
  IF here = "store" THEN Above(found, 1) - 1
  ELSE IF here \in {"flag", "load"} THEN Above(Above(found, hang), 1) - 1
  ELSE Above(hang, 0) - 1

Kept(s) == KeptOf(pc[s], loaded[s], over_hang)

\* It has found a hangover, and will store one.
Holds(s) == pc[s] \in {"flag", "load", "store"}

\* It will decide for active, after it has stored.
Lends(s) == pc[s] \in {"zero", "keep"} /\ vadflag[s] > 0

\* What it returns is active.
Due(s) == Lends(s) \/ (pc[s] = "return" /\ (vadflag[s] > 0 \/ vad > 0))

\* It may come to return what the other decides, without a hangover of its own.
Borrows(s) ==
  /\ ~ Holds(s)
  /\ \/ over_hang <= 0
     \/ pc[s] \in {"zero", "keep"} /\ vadflag[s] <= 0
     \/ pc[s] = "return" /\ vadflag[s] <= 0 /\ vad <= 0

Borrowed(a, b) == (Lends(a) /\ Borrows(b)) \/ (Lends(b) /\ Borrows(a))

One(b) == IF b THEN 1 ELSE 0

\* The frames that were prolonged, and that are bound to be.
Owed(a, b) == prolonged + One(Due(a)) + One(Due(b)) + One(Borrowed(a, b))

Spent(a, b) == 2 * Owed(a, b) + Level(Kept(a), Kept(b))

QuietPcs == {"idle", "smooth", "flag", "load", "store", "zero", "keep", "return"}

\* Since nobody speaks, what is spent does not grow.
QuietInv ==
  /\ \A s \in Sessions : pc[s] = "smooth" => vadflag[s] = 0
  /\ ~ quiet => prolonged = 0
  /\ Sessions = {} => prolonged = 0
  /\ quiet => \A s \in Sessions : pc[s] \in QuietPcs
  /\ quiet => \A a, b \in Sessions : Sessions = {a, b} => Spent(a, b) <= Square(OverHang2)

\* What is kept is a level.
LEMMA KeptLevels ==
  ASSUME NEW here, NEW found \in Int, NEW hang \in Int
  PROVE  KeptOf(here, found, hang) \in Levels
BY DEF KeptOf, Above, Levels

\* What the two sessions of a state have in it.
LEMMA SpentType ==
  ASSUME TypeInv, NEW a \in Sessions, NEW b \in Sessions
  PROVE  /\ Kept(a) \in Levels /\ Kept(b) \in Levels
         /\ Owed(a, b) \in Int /\ Level(Kept(a), Kept(b)) \in Int
         /\ prolonged <= Owed(a, b)
         /\ Spent(a, b) = Spent(b, a)
<1>1. over_hang \in Int /\ loaded[a] \in Int /\ loaded[b] \in Int /\ prolonged \in Int
  BY DEF TypeInv, TypeOK
<1>2. Kept(a) \in Levels /\ Kept(b) \in Levels
  BY <1>1, KeptLevels DEF Kept
<1>3. Level(Kept(a), Kept(b)) \in Int /\ Level(Kept(a), Kept(b)) = Level(Kept(b), Kept(a))
  BY <1>2, LevelType
<1>4. Borrowed(a, b) <=> Borrowed(b, a)
  BY DEF Borrowed
<1>5. One(Borrowed(a, b)) = One(Borrowed(b, a))
  BY <1>4 DEF One
<1>6. One(Due(a)) \in Nat /\ One(Due(b)) \in Nat /\ One(Borrowed(a, b)) \in Nat
  BY DEF One
<1>7. Owed(a, b) = Owed(b, a) /\ Owed(a, b) \in Int /\ prolonged <= Owed(a, b)
  BY <1>1, <1>5, <1>6 DEF Owed
<1> QED
  BY <1>2, <1>3, <1>7 DEF Spent

\* The two are alike in it, in a state that follows.
LEMMA SpentSame ==
  ASSUME TypeInv', NEW a \in Sessions, NEW b \in Sessions
  PROVE  Spent(a, b)' = Spent(b, a)'
<1>1. over_hang' \in Int /\ loaded'[a] \in Int /\ loaded'[b] \in Int /\ prolonged' \in Int
  BY DEF TypeInv, TypeOK
<1>2. Kept(a)' \in Levels /\ Kept(b)' \in Levels
  BY <1>1, KeptLevels DEF Kept
<1>3. Level(Kept(a)', Kept(b)') = Level(Kept(b)', Kept(a)')
  BY <1>2, LevelType
<1>4. Borrowed(a, b)' <=> Borrowed(b, a)'
  BY DEF Borrowed
<1>5. One(Borrowed(a, b)') = One(Borrowed(b, a)') /\ One(Due(a)') \in Int /\ One(Due(b)') \in Int
  BY <1>4 DEF One
<1>6. /\ Owed(a, b)' = prolonged' + One(Due(a)') + One(Due(b)') + One(Borrowed(a, b)')
      /\ Owed(b, a)' = prolonged' + One(Due(b)') + One(Due(a)') + One(Borrowed(b, a)')
  BY DEF Owed, One
<1>7. Owed(a, b)' = Owed(b, a)'
  BY <1>1, <1>5, <1>6
<1> QED
  BY <1>3, <1>7 DEF Spent

\* A step of session s, seen from it and from another.
Alone(s, t) ==
  t # s => pc'[t] = pc[t] /\ loaded'[t] = loaded[t] /\ vadflag'[t] = vadflag[t]

\* A session writes its own only.
LEMMA StepsAlone ==
  ASSUME TypeInv, NEW s \in Sessions, Process(s) \/ Call(s, FALSE), NEW t \in Sessions
  PROVE  Alone(s, t)
<1> USE DEF TypeInv, TypeOK, At, Alone
<1>1. CASE TestHang(s) \/ FlagHang(s) \/ LoadHang(s) \/ StoreHang(s) \/ ZeroSpeech(s)
  BY <1>1 DEF TestHang, FlagHang, LoadHang, StoreHang, Stores, ZeroSpeech
<1>2. CASE LoadSpeech(s) \/ StoreSpeech(s) \/ TestSpeech(s) \/ CapSpeech(s) \/ SetHang(s)
  BY <1>2 DEF LoadSpeech, StoreSpeech, TestSpeech, CapSpeech, SetHang
<1>3. CASE KeepDecision(s) \/ Return(s) \/ Call(s, FALSE)
  BY <1>3 DEF KeepDecision, Return, Call
<1> QED
  BY <1>1, <1>2, <1>3 DEF Process

\* Nothing is spent if neither grows.
LEMMA NotSpent ==
  ASSUME TypeInv, TypeInv', NEW s \in Sessions, NEW t \in Sessions,
         Kept(s)' <= Kept(s), Kept(t)' <= Kept(t), Owed(s, t)' <= Owed(s, t)
  PROVE  Spent(s, t)' <= Spent(s, t)
<1>1. /\ over_hang' \in Int /\ loaded'[s] \in Int /\ loaded'[t] \in Int /\ prolonged' \in Int
  BY DEF TypeInv, TypeOK
<1>2. Kept(s)' \in Levels /\ Kept(t)' \in Levels
  BY <1>1, KeptLevels DEF Kept
<1>3. /\ Kept(s) \in Levels /\ Kept(t) \in Levels
      /\ Owed(s, t) \in Int /\ Level(Kept(s), Kept(t)) \in Int
  BY SpentType
<1>4. /\ Level(Kept(s)', Kept(t)') <= Level(Kept(s), Kept(t))
      /\ Level(Kept(s)', Kept(t)') \in Int
  BY <1>2, <1>3, LevelGrows, LevelType
<1>5. Owed(s, t)' \in Int
  BY <1>1 DEF Owed, One
<1>6. Spent(s, t)' = 2 * Owed(s, t)' + Level(Kept(s)', Kept(t)')
  BY DEF Spent
<1> QED
  BY <1>3, <1>4, <1>5, <1>6 DEF Spent

\* A call begins.
LEMMA BeginQuiet ==
  ASSUME TypeInv, TypeInv', NEW s \in Sessions, NEW t \in Sessions, Call(s, FALSE)
  PROVE  Spent(s, t)' <= Spent(s, t)
<1>1. /\ pc[s] = "idle" /\ pc'[s] = "smooth" /\ vad' = vad /\ over_hang' = over_hang
      /\ loaded' = loaded /\ prolonged' = prolonged
  BY DEF Call, At, shared, TypeInv, TypeOK
<1>2. Alone(s, t)
  BY StepsAlone
<1>3. Kept(s)' = Kept(s) /\ Kept(t)' = Kept(t)
  BY <1>1, <1>2 DEF Kept, KeptOf, Alone
<1>4. /\ (Due(s)' <=> Due(s)) /\ (Due(t)' <=> Due(t))
      /\ (Borrowed(s, t)' <=> Borrowed(s, t))
  BY <1>1, <1>2 DEF Due, Borrowed, Lends, Borrows, Holds, Alone
<1>5. Owed(s, t)' = Owed(s, t)
  BY <1>1, <1>4 DEF Owed, One
<1>6. Kept(s) \in Int /\ Kept(t) \in Int /\ Owed(s, t) \in Int
  BY SpentType DEF Levels
<1> QED
  BY <1>3, <1>5, <1>6, NotSpent

\* Nothing more is owed if no session owes more.
LEMMA NotOwed ==
  ASSUME TypeInv, NEW s \in Sessions, NEW t \in Sessions, prolonged' = prolonged,
         Due(s)' => Due(s), Due(t)' => Due(t), Borrowed(s, t)' => Borrowed(s, t)
  PROVE  Owed(s, t)' <= Owed(s, t)
<1>1. /\ One(Due(s)') <= One(Due(s)) /\ One(Due(t)') <= One(Due(t))
      /\ One(Borrowed(s, t)') <= One(Borrowed(s, t))
  BY DEF One
<1>2. prolonged \in Int
  BY DEF TypeInv, TypeOK
<1>3. Owed(s, t)' = prolonged' + One(Due(s)') + One(Due(t)') + One(Borrowed(s, t)')
  BY DEF Owed, One
<1>4. \A b \in {Due(s), Due(t), Borrowed(s, t), Due(s)', Due(t)', Borrowed(s, t)'} : One(b) \in Int
  BY DEF One
<1> QED
  BY <1>1, <1>2, <1>3, <1>4 DEF Owed

\* It tests the hangover, and holds it if there is one.
LEMMA TestQuiet ==
  ASSUME TypeInv, TypeInv', NEW s \in Sessions, NEW t \in Sessions, TestHang(s),
         vadflag[s] = 0
  PROVE  Spent(s, t)' <= Spent(s, t)
<1>1. /\ pc[s] = "smooth" /\ vad' = vad /\ over_hang' = over_hang /\ over_hang \in Int
      /\ vadflag' = vadflag /\ prolonged' = prolonged /\ loaded'[s] = over_hang
      /\ pc'[s] = IF over_hang > 0 THEN "flag" ELSE "zero"
  BY DEF TestHang, At, shared, history, TypeInv, TypeOK
<1>2. Alone(s, t)
  BY StepsAlone DEF Process
<1>3. Kept(s)' = Kept(s) /\ Kept(t)' = Kept(t)
  BY <1>1, <1>2 DEF Kept, KeptOf, Alone, Above
<1>4. /\ (Due(s)' <=> Due(s)) /\ (Due(t)' <=> Due(t))
      /\ (Borrowed(s, t)' => Borrowed(s, t))
  BY <1>1, <1>2 DEF Due, Borrowed, Lends, Borrows, Holds, Alone
<1>5. Owed(s, t)' <= Owed(s, t)
  BY <1>1, <1>4, NotOwed
<1>6. Kept(s) \in Int /\ Kept(t) \in Int
  BY SpentType DEF Levels
<1> QED
  BY <1>3, <1>5, <1>6, NotSpent

\* It makes its decision, or loads what it will store.
LEMMA LoadQuiet ==
  ASSUME TypeInv, TypeInv', NEW s \in Sessions, NEW t \in Sessions, FlagHang(s) \/ LoadHang(s)
  PROVE  Spent(s, t)' <= Spent(s, t)
<1>1. /\ pc[s] \in {"flag", "load"} /\ pc'[s] \in {"load", "store"}
      /\ pc[s] = "load" => pc'[s] = "store"
      /\ vad' = vad /\ over_hang' = over_hang /\ over_hang \in Int /\ loaded[s] \in Int
      /\ loaded'[s] \in {loaded[s], over_hang} /\ prolonged' = prolonged
  BY DEF FlagHang, LoadHang, At, shared, history, TypeInv, TypeOK
<1>2. Alone(s, t)
  BY StepsAlone DEF Process
<1>3. Kept(s)' <= Kept(s)
  BY <1>1 DEF Kept, KeptOf, Above
<1>4. t # s => Kept(t)' = Kept(t)
  BY <1>1, <1>2 DEF Kept, KeptOf, Alone
<1>5. /\ ~ Due(s) /\ ~ Due(s)' /\ (Due(t)' <=> Due(t))
      /\ ~ Borrowed(s, t) /\ ~ Borrowed(s, t)'
  BY <1>1, <1>2 DEF Due, Borrowed, Lends, Borrows, Holds, Alone
<1>6. Owed(s, t)' = Owed(s, t)
  BY <1>1, <1>5 DEF Owed, One
<1>7. Kept(s) \in Int /\ Kept(t) \in Int /\ Owed(s, t) \in Int
  BY SpentType DEF Levels
<1> QED
  BY <1>3, <1>4, <1>6, <1>7, NotSpent

\* It clears the count of speech.
LEMMA ZeroQuiet ==
  ASSUME TypeInv, TypeInv', NEW s \in Sessions, NEW t \in Sessions, ZeroSpeech(s)
  PROVE  Spent(s, t)' <= Spent(s, t)
<1>1. /\ pc[s] = "zero" /\ pc'[s] = "keep" /\ vad' = vad /\ over_hang' = over_hang
      /\ loaded' = loaded /\ vadflag' = vadflag /\ prolonged' = prolonged
  BY DEF ZeroSpeech, At, history, TypeInv, TypeOK
<1>2. Alone(s, t)
  BY StepsAlone DEF Process
<1>3. Kept(s)' = Kept(s) /\ Kept(t)' = Kept(t)
  BY <1>1, <1>2 DEF Kept, KeptOf, Alone
<1>4. /\ (Due(s)' <=> Due(s)) /\ (Due(t)' <=> Due(t))
      /\ (Borrowed(s, t)' <=> Borrowed(s, t))
  BY <1>1, <1>2 DEF Due, Borrowed, Lends, Borrows, Holds, Alone
<1>5. Owed(s, t)' = Owed(s, t)
  BY <1>1, <1>4 DEF Owed, One
<1>6. Kept(s) \in Int /\ Kept(t) \in Int /\ Owed(s, t) \in Int
  BY SpentType DEF Levels
<1> QED
  BY <1>3, <1>5, <1>6, NotSpent

\* It keeps its decision, which the other may return.
LEMMA KeepQuiet ==
  ASSUME TypeInv, TypeInv', NEW s \in Sessions, NEW t \in Sessions, KeepDecision(s)
  PROVE  Spent(s, t)' <= Spent(s, t)
<1>1. /\ pc[s] = "keep" /\ pc'[s] = "return" /\ vad' = vadflag[s] /\ over_hang' = over_hang
      /\ loaded' = loaded /\ vadflag' = vadflag /\ prolonged' = prolonged
      /\ vad \in Int /\ vadflag[s] \in Int /\ vadflag[t] \in Int /\ over_hang \in Int
      /\ prolonged \in Int
  BY DEF KeepDecision, At, history, TypeInv, TypeOK
<1>2. Alone(s, t)
  BY StepsAlone DEF Process
<1>3. Kept(s)' = Kept(s) /\ Kept(t)' = Kept(t)
  BY <1>1, <1>2 DEF Kept, KeptOf, Alone
<1>4. ASSUME vadflag[s] > 0
      PROVE  Owed(s, t)' <= Owed(s, t)
  <2>1. Due(s) /\ Due(s)'
    BY <1>1, <1>4 DEF Due, Lends
  <2>2. CASE t # s /\ pc[t] = "return" /\ vadflag[t] <= 0 /\ vad <= 0
    <3>1. ~ Due(t) /\ Borrowed(s, t) /\ ~ Borrowed(s, t)'
      BY <1>1, <1>2, <1>4, <2>2 DEF Due, Lends, Borrows, Borrowed, Holds, Alone
    <3>2. /\ One(Due(s)') = 1 /\ One(Due(s)) = 1 /\ One(Due(t)) = 0 /\ One(Due(t)') \in {0, 1}
          /\ One(Borrowed(s, t)) = 1 /\ One(Borrowed(s, t)') = 0
      BY <2>1, <3>1 DEF One
    <3>3. Owed(s, t)' = prolonged' + One(Due(s)') + One(Due(t)') + One(Borrowed(s, t)')
      BY DEF Owed, One
    <3> QED
      BY <1>1, <3>2, <3>3 DEF Owed
  <2>3. CASE ~ (t # s /\ pc[t] = "return" /\ vadflag[t] <= 0 /\ vad <= 0)
    <3>1. (Due(t)' => Due(t)) /\ (Borrowed(s, t)' => Borrowed(s, t))
      BY <1>1, <1>2, <1>4, <2>3 DEF Due, Lends, Borrows, Borrowed, Holds, Alone
    <3> QED
      BY <1>1, <2>1, <3>1, NotOwed
  <2> QED
    BY <2>2, <2>3
<1>5. ASSUME ~ (vadflag[s] > 0)
      PROVE  Owed(s, t)' <= Owed(s, t)
  <2>1. /\ ~ Due(s) /\ ~ Due(s)' /\ (Due(t)' => Due(t))
        /\ (Borrowed(s, t)' => Borrowed(s, t))
    BY <1>1, <1>2, <1>5 DEF Due, Lends, Borrows, Borrowed, Holds, Alone
  <2> QED
    BY <1>1, <2>1, NotOwed
<1>6. Kept(s) \in Int /\ Kept(t) \in Int
  BY SpentType DEF Levels
<1> QED
  BY <1>3, <1>4, <1>5, <1>6, NotSpent

\* It stores the hangover that is left.
LEMMA StoreQuiet ==
  ASSUME TypeInv, TypeInv', NEW s \in Sessions, NEW t \in Sessions, StoreHang(s)
  PROVE  Spent(s, t)' <= Spent(s, t)
<1> DEFINE p == Kept(s)
           q == Kept(t)
<1>1. /\ pc[s] = "store" /\ pc'[s] = "zero" /\ over_hang' = loaded[s] - 1
      /\ loaded[s] \in Int /\ loaded[t] \in Int /\ over_hang \in Int
      /\ loaded' = loaded /\ vadflag' = vadflag /\ vad' = vad /\ prolonged' = prolonged
      /\ prolonged \in Int
  BY DEF StoreHang, Stores, At, history, TypeInv, TypeOK
<1>2. Alone(s, t)
  BY StepsAlone DEF Process
<1>3. p \in Nat /\ q \in Levels /\ p - 1 \in Levels
  <2>1. q \in Levels
    BY SpentType
  <2>2. p \in Nat
    BY <1>1 DEF Kept, KeptOf, Above
  <2> QED
    BY <2>1, <2>2 DEF Levels
<1>4. Kept(s)' = p - 1
  BY <1>1 DEF Kept, KeptOf, Above
<1>5. Spent(s, t)' = 2 * Owed(s, t)' + Level(Kept(s)', Kept(t)')
  BY DEF Spent
<1>6. Owed(s, t)' = prolonged' + One(Due(s)') + One(Due(t)') + One(Borrowed(s, t)')
  BY DEF Owed, One
<1>7. ~ Due(s) /\ ~ Borrowed(s, t)
  BY <1>1, <1>2 DEF Due, Lends, Borrows, Borrowed, Holds, Alone
<1>8. /\ One(Due(s)) = 0 /\ One(Borrowed(s, t)) = 0 /\ One(Due(t)) \in {0, 1}
      /\ One(Due(s)') \in {0, 1} /\ One(Due(t)') \in {0, 1} /\ One(Borrowed(s, t)') \in {0, 1}
  BY <1>7 DEF One
<1>9. Level(p, q) \in Int /\ Level(p - 1, p - 1) \in Int
  BY <1>3, LevelType, SpentType
<1>10. Level(p - 1, p - 1) + 2 * Below(p, q) + 6 <= Level(p, q)
  BY <1>3, LevelStoredAlone
<1>11. Spent(s, t) = 2 * Owed(s, t) + Level(p, q)
  BY DEF Spent
<1>12. Owed(s, t) = prolonged + One(Due(t))
  BY <1>1, <1>8 DEF Owed
<1>13. CASE t = s
  <2>1. Kept(t)' = p - 1 /\ q = p
    BY <1>4, <1>13
  <2>2. Below(p, q) >= 0 /\ Below(p, q) \in Int
    BY <1>3, <2>1 DEF Below
  <2>3. Spent(s, t)' = 2 * Owed(s, t)' + Level(p - 1, p - 1)
    BY <1>4, <1>5, <2>1
  <2>4. Owed(s, t)' <= Owed(s, t) + 3 /\ Owed(s, t)' \in Int /\ Owed(s, t) \in Int
    BY <1>1, <1>6, <1>8, <1>12
  <2> HIDE DEF p, q
  <2> QED
    BY <1>9, <1>10, <1>11, <2>2, <2>3, <2>4
<1>14. CASE t # s /\ Holds(t)
  <2>1. Kept(t)' \in Levels /\ Kept(t)' <= Above(q, p - 1)
    BY <1>1, <1>2, <1>14 DEF Alone, Holds, Kept, KeptOf, Above, Levels
  <2>2. Level(p - 1, Kept(t)') + 2 <= Level(p, q)
    BY <1>3, <2>1, LevelStored
  <2>3. Level(p - 1, Kept(t)') \in Int
    BY <1>3, <2>1, LevelType
  <2>4. ~ Borrowed(s, t)' /\ ~ Due(t) /\ ~ Due(t)'
    BY <1>1, <1>2, <1>14 DEF Alone, Holds, Due, Lends, Borrows, Borrowed
  <2>5. Owed(s, t)' <= Owed(s, t) + 1 /\ Owed(s, t)' \in Int /\ Owed(s, t) \in Int
    BY <1>1, <1>6, <1>8, <1>12, <2>4 DEF One
  <2> HIDE DEF p, q
  <2> QED
    BY <1>4, <1>5, <1>9, <1>11, <2>2, <2>3, <2>5
<1>15. CASE t # s /\ ~ Holds(t)
  <2>1. Kept(t)' = p - 1
    BY <1>1, <1>2, <1>15 DEF Alone, Holds, Kept, KeptOf, Above
  <2>2. Below(p, q) >= -1 /\ Below(p, q) \in Int
    BY <1>3 DEF Below, Levels
  <2>3. Spent(s, t)' = 2 * Owed(s, t)' + Level(p - 1, p - 1)
    BY <1>4, <1>5, <2>1
  <2>4. Due(t)' <=> Due(t)
    BY <1>1, <1>2, <1>15 DEF Alone, Due, Lends
  <2>5. One(Due(t)') = One(Due(t))
    BY <2>4 DEF One
  <2>6. Owed(s, t)' <= Owed(s, t) + 2 /\ Owed(s, t)' \in Int /\ Owed(s, t) \in Int
    BY <1>1, <1>6, <1>8, <1>12, <2>5
  <2> HIDE DEF p, q
  <2> QED
    BY <1>9, <1>10, <1>11, <2>2, <2>3, <2>6
<1> QED
  BY <1>13, <1>14, <1>15

\* It returns: a frame is prolonged only if one is due.
LEMMA ReturnQuiet ==
  ASSUME TypeInv, TypeInv', NEW s \in Sessions, NEW t \in Sessions, Return(s)
  PROVE  Spent(s, t)' <= Spent(s, t)
<1>1. /\ pc[s] = "return" /\ pc'[s] = "idle" /\ vad' = vad /\ over_hang' = over_hang
      /\ loaded' = loaded /\ vadflag' = vadflag /\ prolonged \in Int
      /\ prolonged' = prolonged \/ (prolonged' = prolonged + 1 /\ Due(s))
  <2>1. PICK decision \in {vadflag[s], vad} :
          prolonged' = IF quiet /\ ~ speech[s] /\ decision > 0 THEN prolonged + 1 ELSE prolonged
    BY DEF Return
  <2>2. pc[s] = "return" /\ pc'[s] = "idle"
    BY DEF Return, At, TypeInv, TypeOK
  <2>3. decision > 0 => Due(s)
    BY <2>1, <2>2 DEF Due
  <2>4. vad' = vad /\ over_hang' = over_hang /\ loaded' = loaded /\ vadflag' = vadflag
        /\ prolonged \in Int
    BY DEF Return, shared, TypeInv, TypeOK
  <2> QED
    BY <2>1, <2>2, <2>3, <2>4
<1>2. Alone(s, t)
  BY StepsAlone DEF Process
<1>3. Kept(s)' = Kept(s) /\ Kept(t)' = Kept(t)
  BY <1>1, <1>2 DEF Kept, KeptOf, Alone
<1>4. /\ ~ Due(s)' /\ (Due(t)' => Due(t)) /\ (Borrowed(s, t)' => Borrowed(s, t))
  BY <1>1, <1>2 DEF Due, Borrowed, Lends, Borrows, Holds, Alone
<1>5. Owed(s, t)' <= Owed(s, t)
  <2>1. /\ One(Due(s)') = 0 /\ One(Due(t)') <= One(Due(t))
        /\ One(Borrowed(s, t)') <= One(Borrowed(s, t))
        /\ prolonged' <= prolonged + One(Due(s)) /\ prolonged' \in Int
    BY <1>1, <1>4 DEF One
  <2>2. Owed(s, t)' = prolonged' + One(Due(s)') + One(Due(t)') + One(Borrowed(s, t)')
    BY DEF Owed, One
  <2>3. \A b \in {Due(s), Due(t), Borrowed(s, t), Due(t)', Borrowed(s, t)'} : One(b) \in Int
    BY DEF One
  <2> QED
    BY <1>1, <2>1, <2>2, <2>3 DEF Owed
<1>6. Kept(s) \in Int /\ Kept(t) \in Int
  BY SpentType DEF Levels
<1> QED
  BY <1>3, <1>5, <1>6, NotSpent

\* What one step of a call spends, whoever the other session is.
LEMMA QuietStep ==
  ASSUME TypeInv, TypeInv', QuietInv, quiet, NEW s \in Sessions, Process(s) \/ Call(s, FALSE)
  PROVE  /\ pc'[s] \in QuietPcs
         /\ pc'[s] = "smooth" => vadflag'[s] = 0
         /\ quiet' = quiet
         /\ \A t \in Sessions : Spent(s, t)' <= Spent(s, t)
<1> USE DEF QuietPcs, At
<1>1. pc[s] \in QuietPcs /\ (pc[s] = "smooth" => vadflag[s] = 0) /\ pc \in [Sessions -> Pcs]
      /\ vadflag \in [Sessions -> Int]
  BY DEF QuietInv, TypeInv, TypeOK
<1>2. CASE Call(s, FALSE)
  BY <1>1, <1>2, BeginQuiet DEF Call
<1>3. CASE TestHang(s)
  BY <1>1, <1>3, TestQuiet DEF TestHang, history
<1>4. CASE FlagHang(s) \/ LoadHang(s)
  BY <1>1, <1>4, LoadQuiet DEF FlagHang, LoadHang, history
<1>5. CASE StoreHang(s)
  BY <1>1, <1>5, StoreQuiet DEF StoreHang, Stores, history
<1>6. CASE ZeroSpeech(s)
  BY <1>1, <1>6, ZeroQuiet DEF ZeroSpeech, history
<1>7. CASE KeepDecision(s)
  BY <1>1, <1>7, KeepQuiet DEF KeepDecision, history
<1>8. CASE Return(s)
  BY <1>1, <1>8, ReturnQuiet DEF Return
<1>9. ~ (LoadSpeech(s) \/ StoreSpeech(s) \/ TestSpeech(s) \/ CapSpeech(s) \/ SetHang(s))
  BY <1>1 DEF LoadSpeech, StoreSpeech, TestSpeech, CapSpeech, SetHang
<1> QED
  BY <1>2, <1>3, <1>4, <1>5, <1>6, <1>7, <1>8, <1>9 DEF Process

\* Before, no frame counts.
LEMMA LoudStep ==
  ASSUME TypeInv, QuietInv, ~ quiet, NEW s \in Sessions,
         Process(s) \/ \E is_speech \in BOOLEAN : Call(s, is_speech)
  PROVE  /\ prolonged' = prolonged /\ quiet' = quiet
         /\ \A t \in Sessions : pc'[t] = "smooth" => vadflag'[t] = 0
<1> USE DEF TypeInv, TypeOK, At, history, QuietInv
<1>1. CASE TestHang(s) \/ FlagHang(s) \/ LoadHang(s) \/ StoreHang(s) \/ ZeroSpeech(s)
  BY <1>1 DEF TestHang, FlagHang, LoadHang, StoreHang, Stores, ZeroSpeech
<1>2. CASE LoadSpeech(s) \/ StoreSpeech(s) \/ TestSpeech(s) \/ CapSpeech(s) \/ SetHang(s)
  BY <1>2 DEF LoadSpeech, StoreSpeech, TestSpeech, CapSpeech, SetHang
<1>3. CASE KeepDecision(s) \/ Return(s)
  BY <1>3 DEF KeepDecision, Return
<1>4. ASSUME NEW is_speech \in BOOLEAN, Call(s, is_speech)
      PROVE  /\ prolonged' = prolonged /\ quiet' = quiet
             /\ \A t \in Sessions : pc'[t] = "smooth" => vadflag'[t] = 0
  BY <1>4 DEF Call
<1> QED
  BY <1>1, <1>2, <1>3, <1>4 DEF Process

\* When they fall silent, there is at most the greater hangover of the table.
LEMMA SilenceBegins ==
  ASSUME TypeInv, QuietInv, FallSilent
  PROVE  QuietInv'
<1>1. /\ ~ quiet /\ quiet' = TRUE /\ prolonged' = 0 /\ over_hang' = over_hang
      /\ \A s \in Sessions : pc'[s] = "idle"
      /\ over_hang \in Int /\ over_hang <= OverHang2 /\ OverHang2 \in Nat
  BY SharedDetectorAssumption DEF FallSilent, QuietInv, shared, TypeInv, TypeOK,
     SharedDetectorAssumption
<1>2. ASSUME NEW a \in Sessions, NEW b \in Sessions
      PROVE  Spent(a, b)' <= Square(OverHang2)
  <2> DEFINE n == Above(over_hang, 0)
  <2>1. n \in Nat /\ n \in Levels /\ OverHang2 \in Levels /\ n <= OverHang2
    BY <1>1 DEF Above, Levels
  <2>2. Kept(a)' = n - 1 /\ Kept(b)' = n - 1
    BY <1>1 DEF Kept, KeptOf, Above
  <2>3. ~ Due(a)' /\ ~ Due(b)' /\ ~ Borrowed(a, b)'
    BY <1>1 DEF Due, Borrowed, Lends
  <2>4. Owed(a, b)' = 0
    BY <1>1, <2>3 DEF Owed, One
  <2>5. Spent(a, b)' = 2 * Owed(a, b)' + Level(Kept(a)', Kept(b)')
    BY DEF Spent
  <2> HIDE DEF n
  <2>6. Level(n - 1, n - 1) = Square(n) /\ Square(n) <= Square(OverHang2) /\ Square(n) \in Int
    BY <2>1, LevelSame, SquareGrows, SquareNext
  <2> QED
    BY <2>2, <2>4, <2>5, <2>6
<1> QED
  BY <1>1, <1>2 DEF QuietInv, QuietPcs

\* QuietInv is inductive on the types.
LEMMA QuietInductive == Spec => []QuietInv
<1>1. Init => QuietInv
  BY DEF Init, QuietInv
<1>2. ASSUME TypeInv, TypeInv', QuietInv, [Next]_vars
      PROVE  QuietInv'
  <2>1. ASSUME NEW s \in Sessions, Process(s) \/ \E is_speech \in BOOLEAN : Call(s, is_speech),
               quiet
        PROVE  QuietInv'
    <3>1. Process(s) \/ Call(s, FALSE)
      BY <2>1 DEF Call
    <3>2. /\ pc'[s] \in QuietPcs /\ (pc'[s] = "smooth" => vadflag'[s] = 0)
          /\ quiet' = quiet
          /\ \A t \in Sessions : Spent(s, t)' <= Spent(s, t)
      BY <1>2, <2>1, <3>1, QuietStep
    <3>3. \A t \in Sessions : t # s => pc'[t] = pc[t] /\ vadflag'[t] = vadflag[t]
      BY <1>2, <3>1, StepsAlone DEF Alone
    <3>4. ASSUME NEW a \in Sessions, NEW b \in Sessions, Sessions = {a, b}
          PROVE  Spent(a, b)' <= Square(OverHang2)
      <4>1. Spent(a, b) <= Square(OverHang2) /\ Spent(b, a) <= Square(OverHang2)
        BY <1>2, <2>1, <3>4 DEF QuietInv
      <4>2. Spent(a, b) \in Int /\ Spent(b, a) \in Int /\ Spent(a, b)' \in Int
        <5>1. \A x, y \in Sessions : Spent(x, y) \in Int
          BY <1>2, SpentType DEF Spent
        <5>2. prolonged' \in Int /\ over_hang' \in Int /\ loaded'[a] \in Int /\ loaded'[b] \in Int
          BY <1>2 DEF TypeInv, TypeOK
        <5>3. Kept(a)' \in Levels /\ Kept(b)' \in Levels
          BY <5>2, KeptLevels DEF Kept
        <5>4. Level(Kept(a)', Kept(b)') \in Int
          BY <5>3, LevelType
        <5>5. Owed(a, b)' \in Int
          BY <5>2 DEF Owed, One
        <5>6. Spent(a, b)' = 2 * Owed(a, b)' + Level(Kept(a)', Kept(b)')
          BY DEF Spent
        <5> QED
          BY <5>1, <5>4, <5>5, <5>6
      <4>3. Square(OverHang2) \in Int
        BY SharedDetectorAssumption, SquareNext DEF SharedDetectorAssumption
      <4>4. CASE s = a
        <5>1. Spent(a, b)' <= Spent(a, b)
          BY <3>2, <4>4
        <5> QED
          BY <4>1, <4>2, <4>3, <5>1
      <4>5. CASE s = b
        <5>1. Spent(b, a)' <= Spent(b, a)
          BY <3>2, <4>5
        <5>2. Spent(b, a)' = Spent(a, b)'
          BY <1>2, SpentSame
        <5> QED
          BY <4>1, <4>2, <4>3, <5>1, <5>2
      <4> QED
        BY <3>4, <4>4, <4>5
    <3> QED
      BY <1>2, <2>1, <3>2, <3>3, <3>4 DEF QuietInv
  <2>2. ASSUME NEW s \in Sessions, Process(s) \/ \E is_speech \in BOOLEAN : Call(s, is_speech),
               ~ quiet
        PROVE  QuietInv'
    <3>1. /\ prolonged' = prolonged /\ quiet' = quiet
          /\ \A t \in Sessions : pc'[t] = "smooth" => vadflag'[t] = 0
      BY <1>2, <2>2, LoudStep
    <3> QED
      BY <1>2, <2>2, <3>1 DEF QuietInv
  <2>3. CASE FallSilent
    BY <1>2, <2>3, SilenceBegins
  <2>4. CASE UNCHANGED vars
    BY <1>2, <2>4 DEF vars, shared, history, QuietInv, Spent, Owed, Kept, Due, Borrowed, Lends,
       Borrows, Holds
  <2> QED
    BY <1>2, <2>1, <2>2, <2>3, <2>4 DEF Next
<1> QED
  BY <1>1, <1>2, TypeInductive, PTL DEF Spec

\* One session is two that are the same.
LEMMA AtMostTwo ==
  ASSUME NEW S, IsFiniteSet(S), Cardinality(S) <= 2, S # {}
  PROVE  \E a, b \in S : S = {a, b}
<1>1. PICK a \in S : TRUE
  OBVIOUS
<1>2. IsFiniteSet(S \ {a}) /\ Cardinality(S \ {a}) = Cardinality(S) - 1
  BY FS_RemoveElement
<1>3. CASE S \ {a} = {}
  BY <1>3
<1>4. CASE S \ {a} # {}
  <2>1. PICK b \in S \ {a} : TRUE
    BY <1>4
  <2>2. /\ IsFiniteSet((S \ {a}) \ {b})
        /\ Cardinality((S \ {a}) \ {b}) = Cardinality(S \ {a}) - 1
    BY <1>2, FS_RemoveElement
  <2>3. Cardinality((S \ {a}) \ {b}) \in Nat /\ Cardinality(S) \in Nat
    BY <2>2, FS_CardinalityType
  <2>4. (S \ {a}) \ {b} = {}
    BY <1>2, <2>2, <2>3, FS_EmptySet
  <2> QED
    BY <2>4
<1> QED
  BY <1>3, <1>4

\* However the calls of two sessions interleave, and whatever the builds load twice,
\* the hangover that speech set ends, after as many frames as the bound says.
THEOREM TheHangoverEnds == Spec => []HangoverEnds
<1>1. ASSUME TypeInv, QuietInv
      PROVE  HangoverEnds
  <2> SUFFICES ASSUME Cardinality(Sessions) <= 2
               PROVE  2 * prolonged <= OverHang2 * (OverHang2 + 5)
    BY DEF HangoverEnds
  <2>1. OverHang2 \in Nat /\ IsFiniteSet(Sessions) /\ prolonged \in Nat
    BY <1>1, SharedDetectorAssumption DEF SharedDetectorAssumption, TypeInv, TypeOK
  <2>2. 0 <= Square(OverHang2) /\ Square(OverHang2) \in Int
    <3>1. Square(0) = 0 /\ 0 \in Levels /\ OverHang2 \in Levels
      BY <2>1 DEF Square, Levels
    <3> QED
      BY <2>1, <3>1, SquareGrows, SquareNext
  <2>3. CASE prolonged = 0
    BY <2>2, <2>3 DEF Square
  <2>4. CASE prolonged # 0
    <3>1. quiet /\ Sessions # {}
      BY <1>1, <2>4 DEF QuietInv
    <3>2. PICK a, b \in Sessions : Sessions = {a, b}
      BY <2>1, <3>1, AtMostTwo
    <3>3. Spent(a, b) <= Square(OverHang2)
      BY <1>1, <3>1, <3>2 DEF QuietInv
    <3>4. /\ Kept(a) \in Levels /\ Kept(b) \in Levels
          /\ Owed(a, b) \in Int /\ Level(Kept(a), Kept(b)) \in Int
          /\ prolonged <= Owed(a, b)
      BY <1>1, SpentType
    <3>5. Level(Kept(a), Kept(b)) >= 0
      BY <3>4, LevelPositive
    <3> QED
      BY <2>1, <2>2, <3>3, <3>4, <3>5 DEF Spent, Square
  <2> QED
    BY <2>3, <2>4
<1> QED
  BY <1>1, TypeInductive, QuietInductive, PTL
=============================================================================
