------------------------- MODULE SharedLedgerProofs -------------------------
(***************************************************************************)
(* Proofs about the shared ledger file.  A replay is a fold over the file, *)
(* so the first part shows what a fold does with one more line; the second *)
(* that every step writes a line which fits its process's account, tears   *)
(* one as its process dies, loads the file, or leaves file and accounts    *)
(* alone (Kinds); the third, from these four cases, that memory and file   *)
(* agree and that sequential processes can always read the file; the       *)
(* fourth that replay and the findings charge each hold once; the fifth    *)
(* that a complete reconcile brings the account to the bill.               *)
(***************************************************************************)
EXTENDS SharedLedger, FoldLemmas, SequenceTheorems

(* A set that holds the empty sequence and with each sequence its           *)
(* extensions by an element of S holds every sequence over S.               *)
LEMMA SequenceInduction ==
  ASSUME NEW S, NEW T, <<>> \in T, \A s \in Seq(S), e \in S : s \in T => Append(s, e) \in T
  PROVE  Seq(S) \subseteq T
<1> DEFINE K == {n \in Nat : \A s \in Seq(S) : Len(s) = n => s \in T}
<1>1. 0 \in K
  BY EmptySeq
<1>2. ASSUME NEW n \in Nat, n \in K PROVE n + 1 \in K
  <2>1. ASSUME NEW s \in Seq(S), Len(s) = n + 1 PROVE s \in T
    <3>1. s # <<>>
      BY <2>1
    <3>2. PICK t \in Seq(S), e \in S : s = Append(t, e)
      BY <3>1, SequenceEmptyOrAppend
    <3>3. Len(t) = n
      BY <2>1, <3>2
    <3> QED
      BY <1>2, <3>2, <3>3
  <2> QED
    BY <2>1
<1>3. Nat \subseteq K
  <2> HIDE DEF K
  <2> QED
    BY <1>1, <1>2, NumberInduction
<1> QED
  BY <1>3

(* A set of positions that is not empty has a last one.                     *)
LEMMA Latest ==
  ASSUME NEW n \in Nat, NEW s \in SUBSET (1..n), s # {}
  PROVE  Max(s) \in s /\ \A i \in s : i <= Max(s)
<1> DEFINE above == {m \in Nat : \A i \in s : i <= m}
<1>1. n \in above
  OBVIOUS
<1>2. PICK m \in above : \A k \in above : m <= k
  BY <1>1, Smallest
<1>3. m \in s
  <2> SUFFICES ASSUME m \notin s PROVE FALSE
    OBVIOUS
  <2>1. PICK i \in s : TRUE
    OBVIOUS
  <2>2. i \in Nat /\ i <= m /\ i # m /\ i >= 1
    BY <1>2
  <2>3. m - 1 \in Nat
    BY <2>2
  <2>4. ASSUME NEW j \in s PROVE j <= m - 1
    <3>1. j \in Nat /\ j <= m /\ j # m
      BY <1>2
    <3> QED
      BY <3>1
  <2>5. m - 1 \in above
    BY <2>3, <2>4
  <2> QED
    BY <1>2, <2>5
<1>4. \E x \in s : \A y \in s : x >= y
  BY <1>2, <1>3
<1>5. Max(s) \in s /\ \A y \in s : Max(s) >= y
  BY <1>4 DEF Max
<1> QED
  BY <1>5

-----------------------------------------------------------------------------
(* The folds of replay, of ledger_by_pod and of the findings, by what they  *)
(* do with a line.                                                          *)
FoldStep(fold, t, e) ==
  CASE fold = "replay" -> ReplayedEntry(t, e)
    [] fold = "count" -> Counted(t, e)
    [] fold = "publish" -> PublishedEntry(t, e)

(* What a fold is by definition: a function on sets of positions that takes *)
(* the last position out first.                                             *)
FoldRound(fold, base, lines, g, s) ==
  IF s = {} THEN base ELSE FoldStep(fold, g[s \ {Max(s)}], lines[Max(s)])

(* The one that the fold chooses.                                           *)
RoundsOf(fold, base, lines) ==
  CHOOSE g : g = [s \in SUBSET DOMAIN lines |-> FoldRound(fold, base, lines, g, s)]

(* There is such a function, built up by the size of the sets.              *)
LEMMA RoundsExist ==
  ASSUME NEW L, NEW lines \in Seq(L), NEW fold, NEW base
  PROVE  RoundsOf(fold, base, lines)
           = [s \in SUBSET DOMAIN lines |->
                FoldRound(fold, base, lines, RoundsOf(fold, base, lines), s)]
<1> DEFINE P == DOMAIN lines
           D(n) == {s \in SUBSET P : Cardinality(s) <= n}
           R(g, s) == FoldRound(fold, base, lines, g, s)
           T == {n \in Nat : \E g : g = [s \in D(n) |-> R(g, s)]}
<1>0. P = 1..Len(lines) /\ Len(lines) \in Nat /\ IsFiniteSet(P)
  BY FS_Interval
<1>1. \A s \in SUBSET P : /\ IsFiniteSet(s) /\ Cardinality(s) \in Nat
                          /\ Cardinality(s) = 0 <=> s = {}
                          /\ Cardinality(s) <= Cardinality(P)
  BY <1>0, FS_Subset, FS_CardinalityType, FS_EmptySet
<1>2. ASSUME NEW s \in SUBSET P, s # {}
      PROVE  s \ {Max(s)} \in SUBSET P /\ Cardinality(s \ {Max(s)}) = Cardinality(s) - 1
  <2>1. Max(s) \in s
    BY <1>0, <1>2, Latest
  <2> QED
    BY <1>1, <2>1, FS_RemoveElement
<1>3. 0 \in T
  <2>1. \A s \in D(0) : s = {}
    BY <1>1
  <2>2. [s \in D(0) |-> base] = [s \in D(0) |-> R([t \in D(0) |-> base], s)]
    BY <2>1 DEF FoldRound
  <2> HIDE DEF D, R
  <2> QED
    BY <2>2
<1>4. ASSUME NEW n \in Nat, n \in T PROVE n + 1 \in T
  <2>1. PICK g : g = [s \in D(n) |-> R(g, s)]
    BY <1>4
  <2> DEFINE h == [s \in D(n + 1) |-> R(g, s)]
  <2>2. ASSUME NEW s \in D(n + 1) PROVE R(g, s) = R(h, s)
    <3>1. s # {} => s \ {Max(s)} \in D(n) /\ s \ {Max(s)} \in D(n + 1)
      BY <1>1, <1>2
    <3>2. ASSUME NEW t \in D(n), t \in D(n + 1) PROVE g[t] = h[t]
      <4>1. g[t] = R(g, t)
        <5> HIDE DEF D, R
        <5> QED
          BY <2>1
      <4> QED
        BY <3>2, <4>1
    <3> HIDE DEF h
    <3> QED
      BY <3>1, <3>2 DEF FoldRound
  <2>3. h = [s \in D(n + 1) |-> R(h, s)]
    <3> HIDE DEF R, D
    <3> QED
      BY <2>2
  <2>4. n + 1 \in Nat
    OBVIOUS
  <2> HIDE DEF D, R, h
  <2> QED
    BY <2>3, <2>4
<1>5. Nat \subseteq T
  <2> HIDE DEF T
  <2> QED
    BY <1>3, <1>4, NumberInduction
<1>6. Cardinality(P) \in T /\ D(Cardinality(P)) = SUBSET P
  BY <1>1, <1>5
<1>7. \E g : g = [s \in SUBSET P |-> R(g, s)]
  <2> HIDE DEF R, P
  <2> QED
    BY <1>6
<1> HIDE DEF R
<1> QED
  BY <1>7 DEF RoundsOf, R

(* The function g follows the rounds on the positions P.                    *)
Follows(fold, base, lines, P, g) ==
  \A s \in SUBSET P : g[s] = FoldRound(fold, base, lines, g, s)

(* Two such functions agree where their lines do.                           *)
LEMMA RoundsAgree ==
  ASSUME NEW L, NEW lines \in Seq(L), NEW more, NEW fold, NEW base, NEW g, NEW h,
         \A i \in DOMAIN lines : more[i] = lines[i],
         Follows(fold, base, lines, DOMAIN lines, g),
         Follows(fold, base, more, DOMAIN lines, h)
  PROVE  g[DOMAIN lines] = h[DOMAIN lines]
<1> DEFINE P == DOMAIN lines
           T == {s \in SUBSET P : g[s] = h[s]}
<1>1. P = 1..Len(lines) /\ Len(lines) \in Nat /\ IsFiniteSet(P)
  BY FS_Interval
<1>2. ASSUME NEW s \in SUBSET P, \A t \in SUBSET s : t # s => t \in T PROVE s \in T
  <2>1. CASE s = {}
    BY <2>1 DEF FoldRound, Follows
  <2>2. CASE s # {}
    <3>1. Max(s) \in s
      BY <1>1, <2>2, Latest
    <3>2. s \ {Max(s)} \in T
      BY <1>2, <3>1
    <3>3. g[s \ {Max(s)}] = h[s \ {Max(s)}] /\ more[Max(s)] = lines[Max(s)]
      BY <3>1, <3>2
    <3>4. g[s] = FoldRound(fold, base, lines, g, s) /\ h[s] = FoldRound(fold, base, more, h, s)
      BY DEF Follows
    <3>5. g[s] = h[s]
      BY <2>2, <3>3, <3>4 DEF FoldRound
    <3> QED
      BY <3>5
  <2> QED
    BY <2>1, <2>2
<1>3. SUBSET P \subseteq T
  <2>1. IsFiniteSet(P)
    BY <1>1
  <2>2. \A s \in SUBSET P : (\A t \in SUBSET s : t # s => t \in T) => s \in T
    BY <1>2
  <2> HIDE DEF T, P
  <2> QED
    BY <2>1, <2>2, SubsetInduction, Zenon
<1>4. P \in T
  BY <1>3
<1> QED
  BY <1>4

(* A line more is a round more.                                             *)
LEMMA RoundsMore ==
  ASSUME NEW L, NEW lines \in Seq(L), NEW more \in Seq(L), Len(more) = Len(lines) + 1,
         \A i \in DOMAIN lines : more[i] = lines[i],
         NEW fold, NEW base, NEW F, NEW G,
         Follows(fold, base, lines, DOMAIN lines, F),
         Follows(fold, base, more, DOMAIN more, G)
  PROVE  G[DOMAIN more] = FoldStep(fold, F[DOMAIN lines], more[Len(more)])
<1> DEFINE n == Len(lines)
<1>1. n \in Nat /\ Len(more) = n + 1 /\ DOMAIN lines = 1..n /\ DOMAIN more = 1..(n + 1)
  OBVIOUS
<1>2. F[DOMAIN lines] = G[DOMAIN lines]
  <2>1. Follows(fold, base, more, DOMAIN lines, G)
    BY <1>1 DEF Follows
  <2> QED
    BY <2>1, RoundsAgree
<1>3. DOMAIN more # {} /\ Max(DOMAIN more) = n + 1 /\ DOMAIN more \ {n + 1} = DOMAIN lines
  <2>1. n + 1 \in DOMAIN more /\ n + 1 \in Nat
    BY <1>1
  <2>2. Max(DOMAIN more) \in DOMAIN more /\ \A i \in DOMAIN more : i <= Max(DOMAIN more)
    BY <1>1, <2>1, Latest
  <2>3. Max(DOMAIN more) = n + 1
    BY <1>1, <2>1, <2>2
  <2> QED
    BY <1>1, <2>1, <2>3
<1>4. G[DOMAIN more] = FoldRound(fold, base, more, G, DOMAIN more)
  BY DEF Follows
<1> QED
  BY <1>1, <1>2, <1>3, <1>4 DEF FoldRound

-----------------------------------------------------------------------------
(* Replay's fold in these terms.                                            *)
Blank == [a |-> NewAccount, provisional |-> [l \in Label |-> None], failed |-> FALSE]
ReplayRounds(lines) ==
  CHOOSE g : g = [s \in SUBSET DOMAIN lines |->
    IF s = {} THEN Blank ELSE ReplayedEntry(g[s \ {Max(s)}], lines[Max(s)])]

(* Replay is the round of all positions.                                    *)
LEMMA ReplayUnfolds == \A lines : Replayed(lines) = ReplayRounds(lines)[DOMAIN lines]
  BY DEF Replayed, FoldLeft, MapThenFoldSet, ReplayRounds, Blank

(* Its function follows the rounds.                                         *)
LEMMA ReplayRecursion ==
  ASSUME NEW L, NEW lines \in Seq(L)
  PROVE  Follows("replay", Blank, lines, DOMAIN lines, ReplayRounds(lines))
<1> DEFINE F == ReplayRounds(lines)
           G(g) == [s \in SUBSET DOMAIN lines |->
                      IF s = {} THEN Blank ELSE ReplayedEntry(g[s \ {Max(s)}], lines[Max(s)])]
<1> DEFINE g == RoundsOf("replay", Blank, lines)
<1>1. g = [s \in SUBSET DOMAIN lines |-> FoldRound("replay", Blank, lines, g, s)]
  BY RoundsExist
<1> HIDE DEF g
<1>2. g = G(g)
  BY <1>1 DEF FoldRound, FoldStep
<1>3. F = G(F)
  <2>1. F = CHOOSE k : k = G(k)
    BY DEF ReplayRounds
  <2> HIDE DEF F, G
  <2> QED
    BY <1>2, <2>1
<1> HIDE DEF F
<1>4. \A s \in SUBSET DOMAIN lines :
          F[s] = IF s = {} THEN Blank ELSE ReplayedEntry(F[s \ {Max(s)}], lines[Max(s)])
  BY <1>3
<1>5. \A s \in SUBSET DOMAIN lines : F[s] = FoldRound("replay", Blank, lines, F, s)
  BY <1>4 DEF FoldRound, FoldStep
<1> QED
  BY <1>5 DEF F, Follows

(* An empty ledger replays as a new account.                                *)
LEMMA ReplayedNothing == Replayed(<<>>) = Blank
<1>1. <<>> \in Seq(Int) /\ DOMAIN <<>> = {}
  OBVIOUS
<1>2. ReplayRounds(<<>>)[{}] = FoldRound("replay", Blank, <<>>, ReplayRounds(<<>>), {})
  BY <1>1, ReplayRecursion DEF Follows
<1> QED
  BY <1>1, <1>2, ReplayUnfolds DEF FoldRound

(* So replay ends with the round of the last line.                          *)
LEMMA ReplayedMore ==
  ASSUME NEW L, NEW lines \in Seq(L), NEW e \in L
  PROVE  Replayed(Append(lines, e)) = ReplayedEntry(Replayed(lines), e)
<1> DEFINE more == Append(lines, e)
<1>1. more \in Seq(L)
  BY AppendProperties
<1>2. /\ Follows("replay", Blank, lines, DOMAIN lines, ReplayRounds(lines))
      /\ Follows("replay", Blank, more, DOMAIN more, ReplayRounds(more))
  BY <1>1, ReplayRecursion
<1>3. /\ Len(more) = Len(lines) + 1 /\ more[Len(more)] = e
      /\ \A i \in DOMAIN lines : more[i] = lines[i]
  BY AppendProperties
<1> HIDE DEF more
<1>4. ReplayRounds(more)[DOMAIN more]
        = FoldStep("replay", ReplayRounds(lines)[DOMAIN lines], more[Len(more)])
  BY <1>1, <1>2, <1>3, RoundsMore
<1> QED
  BY <1>3, <1>4, ReplayUnfolds DEF FoldStep, more

-----------------------------------------------------------------------------
(* ledger_by_pod's fold, the same way.                                      *)
Untracked == [podOf |-> [l \in Label |-> NoPod], settled |-> [p \in Pod |-> 0], pods |-> {}]
CountRounds(lines) ==
  CHOOSE g : g = [s \in SUBSET DOMAIN lines |->
    IF s = {} THEN Untracked ELSE Counted(g[s \ {Max(s)}], lines[Max(s)])]

(* Tracking is the round of all positions.                                  *)
LEMMA CountUnfolds == \A lines : Tracked(lines) = CountRounds(lines)[DOMAIN lines]
  BY DEF Tracked, FoldLeft, MapThenFoldSet, CountRounds, Untracked

(* Its function follows the rounds.                                         *)
LEMMA CountRecursion ==
  ASSUME NEW L, NEW lines \in Seq(L)
  PROVE  Follows("count", Untracked, lines, DOMAIN lines, CountRounds(lines))
<1> DEFINE F == CountRounds(lines)
           G(g) == [s \in SUBSET DOMAIN lines |->
                      IF s = {} THEN Untracked ELSE Counted(g[s \ {Max(s)}], lines[Max(s)])]
<1> DEFINE g == RoundsOf("count", Untracked, lines)
<1>1. g = [s \in SUBSET DOMAIN lines |-> FoldRound("count", Untracked, lines, g, s)]
  BY RoundsExist
<1> HIDE DEF g
<1>2. g = G(g)
  BY <1>1 DEF FoldRound, FoldStep
<1>3. F = G(F)
  <2>1. F = CHOOSE k : k = G(k)
    BY DEF CountRounds
  <2> HIDE DEF F, G
  <2> QED
    BY <1>2, <2>1
<1> HIDE DEF F
<1>4. \A s \in SUBSET DOMAIN lines :
        F[s] = IF s = {} THEN Untracked ELSE Counted(F[s \ {Max(s)}], lines[Max(s)])
  BY <1>3
<1>5. \A s \in SUBSET DOMAIN lines : F[s] = FoldRound("count", Untracked, lines, F, s)
  BY <1>4 DEF FoldRound, FoldStep
<1> QED
  BY <1>5 DEF F, Follows

-----------------------------------------------------------------------------
(* Types *)

(* The lines the steps write.                                               *)
Entry ==
  {e \in LineType :
     /\ e.op \in {"hold", "annotate", "settle", "release"} => e.label \in Label
     /\ e.op = "hold" => e.amount \in Nat
     /\ e.op \in {"annotate", "spend", "correct"} => e.pod \in Pod
     /\ e.replayed => e.op = "settle"}

FileInv ==
  /\ file \in Seq(Entry)
  /\ \A line \in todo : line \in Entry /\ line.op \in {"spend", "correct"} /\ line.ended

NothingHeld(a) == \A l \in Label : ~a.holds[l].open
OnlyHolds(a, w) == \A l \in Label : a.holds[l].open <=> l = w

(* What a process holds at each of its steps: an owner at work its own hold *)
(* and no other, without a pod before it rents one; nothing when it is      *)
(* ready.  Only the reconcile corrects.                                     *)
AtMode(w, m, a) ==
  /\ m = "down" => a = NewAccount
  /\ m \in {"held", "rented", "ended"} => w \in Owner /\ OnlyHolds(a, w)
  /\ m = "held" => a.holds[w].pod = NoPod
  /\ m \in {"ready", "correct"} => NothingHeld(a)
  /\ m = "correct" => w = Recon

OwnerInv == \A w \in Process : AtMode(w, mode[w], account[w])

LedgerInv == TypeOK /\ FileInv /\ OwnerInv

ReplayState == [a : Account, provisional : [Label -> Int \cup {None}], failed : BOOLEAN]
CountState == [podOf : [Label -> Pod \cup {NoPod}], settled : [Pod -> Int], pods : SUBSET Pod]

(* A charge leaves an account.                                              *)
LEMMA ChargeType ==
  ASSUME NEW a \in Account, NEW n \in Int PROVE Charge(a, n) \in Account
  BY DEF Charge, Account

(* So does opening, naming or closing a hold.                              *)
LEMMA SetHoldType ==
  ASSUME NEW a \in Account, NEW l, NEW n \in Nat, NEW p \in Pod \cup {NoPod}
  PROVE  SetHold(a, l, HeldAt(n, p)) \in Account /\ SetHold(a, l, NoHold) \in Account
  BY DEF SetHold, HeldAt, NoHold, Account

(* A round of replay's loop keeps the types.                                *)
LEMMA ReplayedEntryType ==
  ASSUME NEW r \in ReplayState, NEW e \in Entry PROVE ReplayedEntry(r, e) \in ReplayState
<1> DEFINE l == e.label
<1>1. /\ r.a \in Account /\ e.amount \in Int /\ e.pod \in Pod \cup {NoPod}
      /\ r.provisional \in [Label -> Int \cup {None}]
      /\ e.op \in {"hold", "annotate", "settle", "release"} => l \in Label
  BY DEF ReplayState, Entry, LineType
<1>2. ASSUME NEW a \in Account, NEW q \in Int \cup {None}
      PROVE  /\ [r EXCEPT !.a = a] \in ReplayState
             /\ [r EXCEPT !.a = a, !.provisional[l] = q] \in ReplayState
             /\ [r EXCEPT !.failed = TRUE] \in ReplayState
  BY DEF ReplayState
<1>3. CASE e.op = "hold"
  <2>1. Holding(r.a, l, e.amount) \in Account
    BY <1>1, <1>3, SetHoldType DEF Holding, Entry
  <2> QED
    BY <1>2, <1>3, <2>1 DEF ReplayedEntry
<1>4. CASE e.op = "annotate" /\ r.a.holds[l].open
  <2>1. r.a.holds[l].estimate \in Nat
    BY <1>1, <1>4 DEF Account
  <2>2. Naming(r.a, l, e.pod) \in Account
    BY <1>1, <2>1, SetHoldType DEF Naming
  <2> QED
    BY <1>2, <1>4, <2>2 DEF ReplayedEntry
<1>5. CASE e.op = "settle" /\ r.a.holds[l].open
  <2>1. Settling(r.a, l, e.amount) \in Account
    BY <1>1, SetHoldType, ChargeType DEF Settling
  <2>2. (IF e.replayed THEN e.amount ELSE r.provisional[l]) \in Int \cup {None}
    BY <1>1, <1>5
  <2> QED
    BY <1>2, <1>5, <2>1, <2>2 DEF ReplayedEntry
<1>6. CASE e.op = "settle" /\ ~r.a.holds[l].open /\ r.provisional[l] # None
  <2>1. e.amount - r.provisional[l] \in Int
    BY <1>1, <1>6
  <2>2. Charge(r.a, e.amount - r.provisional[l]) \in Account
    BY <1>1, <2>1, ChargeType
  <2> QED
    BY <1>2, <1>6, <2>2 DEF ReplayedEntry
<1>7. CASE e.op = "release" /\ r.a.holds[l].open
  <2>1. Releasing(r.a, l) \in Account
    BY <1>1, SetHoldType DEF Releasing
  <2> QED
    BY <1>2, <1>7, <2>1 DEF ReplayedEntry
<1>8. CASE e.op \in {"spend", "correct"}
  <2>1. Charge(r.a, e.amount) \in Account
    BY <1>1, ChargeType
  <2> QED
    BY <1>2, <1>8, <2>1 DEF ReplayedEntry
<1>9. CASE ReplayedEntry(r, e) = [r EXCEPT !.failed = TRUE]
  BY <1>1, <1>2, <1>9
<1> QED
  BY <1>3, <1>4, <1>5, <1>6, <1>7, <1>8, <1>9 DEF ReplayedEntry

(* A replay starts with an account.                                         *)
LEMMA BlankType == NewAccount \in Account /\ Blank \in ReplayState /\ ~Blank.failed
  BY AmountAssumption DEF NewAccount, Account, NoHold, Blank, ReplayState

(* A replay ends with an account, whatever lines it reads.                  *)
LEMMA ReplayedType == \A lines \in Seq(Entry) : Replayed(lines) \in ReplayState
<1> DEFINE T == {lines \in Seq(Entry) : Replayed(lines) \in ReplayState}
<1>1. <<>> \in T
  BY ReplayedNothing, BlankType
<1>2. ASSUME NEW s \in Seq(Entry), NEW e \in Entry, s \in T PROVE Append(s, e) \in T
  <2>1. Replayed(Append(s, e)) \in ReplayState
    BY <1>2, ReplayedMore, ReplayedEntryType
  <2> QED
    BY <2>1, AppendProperties
<1>3. Seq(Entry) \subseteq T
  <2> HIDE DEF T
  <2> QED
    BY <1>1, <1>2, SequenceInduction
<1> QED
  BY <1>3

(* A round of tracking keeps the types.                                     *)
LEMMA CountedType ==
  ASSUME NEW t \in CountState, NEW e \in Entry PROVE Counted(t, e) \in CountState
<1>1. /\ t.podOf \in [Label -> Pod \cup {NoPod}] /\ t.settled \in [Pod -> Int]
      /\ t.pods \in SUBSET Pod /\ e.amount \in Int /\ e.pod \in Pod \cup {NoPod}
  BY DEF CountState, Entry, LineType
<1>2. ASSUME NEW p \in Pod PROVE t.settled[p] + e.amount \in Int
  BY <1>1
<1>3. CASE e.op = "annotate"
  BY <1>1, <1>3 DEF Counted, CountState
<1>4. CASE e.op = "settle" /\ t.podOf[e.label] # NoPod
  <2> DEFINE p == t.podOf[e.label]
  <2>1. p \in Pod
    BY <1>1, <1>4 DEF Entry
  <2>2. Counted(t, e) = [t EXCEPT !.settled[p] = @ + e.amount, !.pods = @ \cup {p},
                                  !.podOf[e.label] = NoPod]
    BY <1>4 DEF Counted
  <2> DEFINE settled == [t.settled EXCEPT ![p] = t.settled[p] + e.amount]
             podOf == [t.podOf EXCEPT ![e.label] = NoPod]
             named == t.pods \cup {p}
  <2>3. t.settled[p] + e.amount \in Int
    BY <1>2, <2>1
  <2>4. settled \in [Pod -> Int] /\ podOf \in [Label -> Pod \cup {NoPod}] /\ named \in SUBSET Pod
    <3> HIDE DEF p
    <3> QED
      BY <1>1, <2>1, <2>3
  <2>5. Counted(t, e) = [podOf |-> podOf, settled |-> settled, pods |-> named]
    <3> HIDE DEF p
    <3> QED
      BY <2>2 DEF CountState
  <2> HIDE DEF p, settled, podOf, named
  <2> QED
    BY <2>4, <2>5 DEF CountState
<1>5. CASE e.op \in {"spend", "correct"}
  <2>1. e.pod \in Pod
    BY <1>5 DEF Entry
  <2>2. Counted(t, e) = [t EXCEPT !.settled[e.pod] = @ + e.amount, !.pods = @ \cup {e.pod}]
    BY <1>5 DEF Counted
  <2>3. t.settled[e.pod] + e.amount \in Int
    BY <1>2, <2>1
  <2> QED
    BY <1>1, <2>1, <2>2, <2>3 DEF CountState
<1> QED
  BY <1>3, <1>4, <1>5 DEF Counted

(* What is tracked is an amount for each pod.                               *)
LEMMA TrackedType == \A lines \in Seq(Entry) : Tracked(lines) \in CountState
<1> SUFFICES ASSUME NEW lines \in Seq(Entry) PROVE Tracked(lines) \in CountState
  OBVIOUS
<1> DEFINE F == CountRounds(lines)
           P == DOMAIN lines
           T == {s \in SUBSET P : F[s] \in CountState}
<1>1. P = 1..Len(lines) /\ Len(lines) \in Nat /\ IsFiniteSet(P) /\ \A i \in P : lines[i] \in Entry
  BY FS_Interval
<1>2. Follows("count", Untracked, lines, P, F)
  BY CountRecursion
<1>3. Untracked \in CountState
  BY DEF Untracked, CountState
<1> HIDE DEF F, P
<1>4. ASSUME NEW s \in SUBSET P, \A t \in SUBSET s : t # s => t \in T PROVE s \in T
  <2>1. F[s] = FoldRound("count", Untracked, lines, F, s)
    BY <1>2 DEF Follows
  <2>2. CASE s = {}
    BY <1>3, <2>1, <2>2 DEF FoldRound
  <2>3. CASE s # {}
    <3>1. Max(s) \in s
      BY <1>1, <2>3, Latest
    <3>2. s \ {Max(s)} \in T /\ lines[Max(s)] \in Entry
      BY <1>1, <1>4, <3>1
    <3>3. F[s] = Counted(F[s \ {Max(s)}], lines[Max(s)])
      BY <2>1, <2>3 DEF FoldRound, FoldStep
    <3>4. F[s] \in CountState
      BY <3>2, <3>3, CountedType
    <3> QED
      BY <3>4
  <2> QED
    BY <2>2, <2>3
<1>5. SUBSET P \subseteq T
  <2>1. IsFiniteSet(P)
    BY <1>1
  <2>2. \A s \in SUBSET P : (\A t \in SUBSET s : t # s => t \in T) => s \in T
    BY <1>4
  <2> HIDE DEF T
  <2> QED
    BY <2>1, <2>2, SubsetInduction, Zenon
<1>6. F[P] \in CountState
  BY <1>5
<1> QED
  BY <1>6, CountUnfolds DEF F, P

-----------------------------------------------------------------------------
(* The end of the file.                                                     *)
Intact(lines) == \A i \in DOMAIN lines : lines[i].op # "broken"

(* A sequence without its last line.                                        *)
LEMMA FrontOfAppend ==
  ASSUME NEW S, NEW lines \in Seq(S), NEW e \in S
  PROVE  /\ Front(Append(lines, e)) = lines /\ Last(Append(lines, e)) = e
         /\ Append(lines, e) # <<>> /\ Len(Append(lines, e)) = Len(lines) + 1
<1>1. /\ Append(lines, e) \in Seq(S) /\ Append(lines, e) # <<>>
      /\ Len(Append(lines, e)) = Len(lines) + 1 /\ Append(lines, e)[Len(lines) + 1] = e
      /\ \A i \in 1..Len(lines) : Append(lines, e)[i] = lines[i]
  BY AppendProperties
<1>2. Len(lines) \in Nat /\ (Len(lines) + 1) - 1 = Len(lines)
  OBVIOUS
<1>3. Last(Append(lines, e)) = e
  BY <1>1 DEF Last
<1>4. Front(Append(lines, e)) = SubSeq(Append(lines, e), 1, Len(lines))
  BY <1>1, <1>2 DEF Front
<1>5. SubSeq(Append(lines, e), 1, Len(lines)) = lines
  BY <1>1, <1>2
<1> QED
  BY <1>1, <1>3, <1>4, <1>5

(* A sequence is what precedes its last line, and that line.                *)
LEMMA FrontAndLast ==
  ASSUME NEW S, NEW lines \in Seq(S), lines # <<>>
  PROVE  /\ Front(lines) \in Seq(S) /\ Last(lines) \in S
         /\ lines = Append(Front(lines), Last(lines)) /\ Len(Front(lines)) = Len(lines) - 1
         /\ \A i \in DOMAIN Front(lines) : Front(lines)[i] = lines[i]
<1>1. PICK t \in Seq(S), e \in S : lines = Append(t, e)
  BY SequenceEmptyOrAppend
<1>2. Front(lines) = t /\ Last(lines) = e /\ Len(lines) = Len(t) + 1
  BY <1>1, FrontOfAppend
<1>3. \A i \in 1..Len(t) : Append(t, e)[i] = t[i]
  BY <1>1, AppendProperties
<1> QED
  BY <1>1, <1>2, <1>3

(* A file without a broken line is read as it is.                           *)
LEMMA IntactReads ==
  ASSUME NEW lines \in Seq(Entry), Intact(lines)
  PROVE  Readable(lines) /\ ReadAll(lines) = lines
<1>1. DOMAIN lines = 1..Len(lines) /\ Len(lines) \in Nat
  OBVIOUS
<1>2. lines # <<>> => Last(lines).op # "broken"
  BY <1>1 DEF Last, Intact
<1> QED
  BY <1>1, <1>2 DEF Intact, Readable, ReadAll

(* A start reads an appended line unless it is broken, and nothing if a     *)
(* line before it is.                                                       *)
LEMMA AppendReads ==
  ASSUME NEW lines \in Seq(Entry), NEW e \in Entry
  PROVE  /\ Readable(Append(lines, e)) <=> Intact(lines)
         /\ ReadAll(Append(lines, e)) = IF e.op = "broken" THEN lines ELSE Append(lines, e)
         /\ Intact(Append(lines, e)) <=> Intact(lines) /\ e.op # "broken"
<1>1. /\ Front(Append(lines, e)) = lines /\ Last(Append(lines, e)) = e
      /\ Append(lines, e) # <<>> /\ Len(Append(lines, e)) = Len(lines) + 1
  BY FrontOfAppend
<1>2. /\ \A i \in 1..Len(lines) : Append(lines, e)[i] = lines[i]
      /\ Append(lines, e)[Len(lines) + 1] = e
      /\ Len(lines) \in Nat /\ DOMAIN lines = 1..Len(lines)
      /\ DOMAIN Append(lines, e) = 1..(Len(lines) + 1)
  BY <1>1, AppendProperties
<1>3. Readable(Append(lines, e)) <=> Intact(lines)
  BY <1>1, <1>2 DEF Readable, Intact
<1>4. Intact(Append(lines, e)) <=> Intact(lines) /\ e.op # "broken"
  <2>1. \A i \in 1..(Len(lines) + 1) : i \in 1..Len(lines) \/ i = Len(lines) + 1
    BY <1>2
  <2>2. 1..Len(lines) \subseteq 1..(Len(lines) + 1) /\ Len(lines) + 1 \in 1..(Len(lines) + 1)
    BY <1>2
  <2> QED
    BY <1>2, <2>1, <2>2 DEF Intact
<1> QED
  BY <1>1, <1>3, <1>4 DEF ReadAll

(* What a start reads are lines.                                            *)
LEMMA ReadAllType == \A lines \in Seq(Entry) : ReadAll(lines) \in Seq(Entry)
  BY FrontAndLast DEF ReadAll

(* A torn or a glued line is a line.                                        *)
LEMMA BrokenType ==
  ASSUME NEW line \in Entry
  PROVE  /\ [BrokenLine EXCEPT !.ended = line.ended] \in Entry
         /\ [BrokenLine EXCEPT !.ended = line.ended].op = "broken"
         /\ [BrokenLine EXCEPT !.ended = line.ended].ended = line.ended
         /\ [BrokenLine EXCEPT !.ended = FALSE] \in Entry
         /\ [line EXCEPT !.ended = FALSE] \in Entry
<1>1. line.ended \in BOOLEAN
  BY DEF Entry, LineType
<1>2. ASSUME NEW b \in BOOLEAN
      PROVE  /\ [BrokenLine EXCEPT !.ended = b] \in Entry
             /\ [BrokenLine EXCEPT !.ended = b].op = "broken"
             /\ [BrokenLine EXCEPT !.ended = b].ended = b
  <2>1. BrokenLine = [op |-> "broken", label |-> Recon, amount |-> 0, pod |-> NoPod,
                      replayed |-> FALSE, ended |-> TRUE]
    BY DEF BrokenLine, Line
  <2>2. BrokenLine \in LineType /\ BrokenLine.op = "broken" /\ ~BrokenLine.replayed
    BY <2>1 DEF LineType, Process
  <2>3. /\ [BrokenLine EXCEPT !.ended = b] \in LineType
        /\ [BrokenLine EXCEPT !.ended = b].op = "broken"
        /\ [BrokenLine EXCEPT !.ended = b].ended = b
        /\ ~[BrokenLine EXCEPT !.ended = b].replayed
    <3> HIDE DEF BrokenLine
    <3> QED
      BY <2>2 DEF LineType
  <2> HIDE DEF BrokenLine
  <2> QED
    BY <2>3 DEF Entry
<1>3. [line EXCEPT !.ended = FALSE] \in Entry
  BY DEF Entry, LineType
<1> QED
  BY <1>1, <1>2, <1>3

(* An append of a line gives lines again, of which only the last may lack   *)
(* its newline.                                                             *)
LEMMA AppendedType ==
  ASSUME LedgerInv, NEW line \in Entry
  PROVE  /\ Appended(line) \in Seq(Entry)
         /\ \A i \in 1..(Len(Appended(line)) - 1) : Appended(line)[i].ended
<1>1. file \in Seq(Entry) /\ \A i \in 1..(Len(file) - 1) : file[i].ended
  BY DEF LedgerInv, FileInv, TypeOK
<1>2. CASE LastEnded
  <2>1. Appended(line) = Append(file, line)
    BY <1>2 DEF Appended
  <2>2. \A i \in 1..Len(file) : file[i].ended
    <3>1. Len(file) \in Nat /\ (file # <<>> => file[Len(file)].ended)
      BY <1>1, <1>2 DEF LastEnded, Last
    <3> QED
      BY <1>1, <3>1
  <2> QED
    BY <1>1, <2>1, <2>2, AppendProperties
<1>3. CASE ~LastEnded
  <2> DEFINE glued == [BrokenLine EXCEPT !.ended = line.ended]
  <2>1. Appended(line) = Append(Front(file), glued) /\ file # <<>>
    BY <1>3 DEF Appended, LastEnded
  <2>2. glued \in Entry
    BY BrokenType
  <2>3. /\ Front(file) \in Seq(Entry) /\ Len(Front(file)) = Len(file) - 1
        /\ \A i \in DOMAIN Front(file) : Front(file)[i] = file[i]
    BY <1>1, <2>1, FrontAndLast
  <2>4. \A i \in 1..Len(Front(file)) : Front(file)[i].ended
    BY <1>1, <2>3
  <2> HIDE DEF glued
  <2> QED
    BY <2>1, <2>2, <2>3, <2>4, AppendProperties
<1> QED
  BY <1>2, <1>3

-----------------------------------------------------------------------------
(* What a line does to the account of the process that writes it, and when  *)
(* replay does the same.                                                    *)
Effect(a, e) ==
  CASE e.op = "hold" -> Holding(a, e.label, e.amount)
    [] e.op = "annotate" -> Naming(a, e.label, e.pod)
    [] e.op = "settle" -> Settling(a, e.label, e.amount)
    [] e.op = "release" -> Releasing(a, e.label)
    [] OTHER -> Charge(a, e.amount)

Fits(a, e) ==
  /\ e.op # "broken"
  /\ e.op = "hold" => ~a.holds[e.label].open
  /\ e.op \in {"annotate", "settle", "release"} => a.holds[e.label].open
  /\ e.op = "release" => a.holds[e.label].pod = NoPod

LEMMA ReplayFits ==
  ASSUME NEW r \in ReplayState, NEW e \in Entry, Fits(r.a, e)
  PROVE  ReplayedEntry(r, e).a = Effect(r.a, e) /\ ReplayedEntry(r, e).failed = r.failed
<1> USE DEF ReplayState
<1>1. CASE e.op = "hold"
  BY <1>1 DEF ReplayedEntry, Effect
<1>2. CASE e.op = "annotate"
  BY <1>2 DEF ReplayedEntry, Effect, Fits
<1>3. CASE e.op = "settle"
  BY <1>3 DEF ReplayedEntry, Effect, Fits
<1>4. CASE e.op = "release"
  BY <1>4 DEF ReplayedEntry, Effect, Fits
<1>5. CASE e.op \in {"spend", "correct"}
  BY <1>5 DEF ReplayedEntry, Effect
<1> QED
  BY <1>1, <1>2, <1>3, <1>4, <1>5 DEF Entry, LineType, Fits

(* Nothing after it makes a replay that failed right again.                 *)
LEMMA FailureStays ==
  ASSUME NEW r \in ReplayState, NEW e \in Entry, r.failed PROVE ReplayedEntry(r, e).failed
  BY DEF ReplayedEntry, ReplayState

(* The effect of a line is an account.                                      *)
LEMMA EffectType ==
  ASSUME NEW a \in Account, NEW e \in Entry PROVE Effect(a, e) \in Account
<1>1. e.amount \in Int /\ e.pod \in Pod \cup {NoPod}
  BY DEF Entry, LineType
<1>2. CASE e.op = "hold"
  BY <1>1, <1>2, SetHoldType DEF Effect, Holding, Entry
<1>3. CASE e.op = "annotate"
  <2>1. e.label \in Label
    BY <1>3 DEF Entry
  <2>2. a.holds[e.label].estimate \in Nat
    BY <2>1 DEF Account
  <2> QED
    BY <1>1, <1>3, <2>2, SetHoldType DEF Effect, Naming
<1>4. CASE e.op = "settle"
  BY <1>1, <1>4, SetHoldType, ChargeType DEF Effect, Settling
<1>5. CASE e.op = "release"
  BY <1>1, <1>5, SetHoldType DEF Effect, Releasing
<1>6. CASE e.op \notin {"hold", "annotate", "settle", "release"}
  BY <1>1, <1>6, ChargeType DEF Effect
<1> QED
  BY <1>2, <1>3, <1>4, <1>5, <1>6

(* The lines of an owner, and what each does to its account.  A hold fits   *)
(* an account in which it is not open.                                      *)
LEMMA HoldFits ==
  ASSUME NEW a, NEW l \in Label, NEW n \in Nat
  PROVE  /\ HoldLine(l, n) \in Entry /\ HoldLine(l, n).ended
         /\ Fits(a, HoldLine(l, n)) <=> a.holds[l].open = FALSE
         /\ Effect(a, HoldLine(l, n)) = Holding(a, l, n)
  BY DEF HoldLine, Line, Entry, LineType, Process, Label, Fits, Effect

(* An annotate fits an account in which its hold is open.                   *)
LEMMA AnnotateFits ==
  ASSUME NEW a, NEW l \in Label, NEW p \in Pod
  PROVE  /\ AnnotateLine(l, p) \in Entry /\ AnnotateLine(l, p).ended
         /\ Fits(a, AnnotateLine(l, p)) <=> a.holds[l].open = TRUE
         /\ Effect(a, AnnotateLine(l, p)) = Naming(a, l, p)
  BY DEF AnnotateLine, Line, Entry, LineType, Process, Label, Fits, Effect

(* An owner's settle fits an account in which its hold is open.             *)
LEMMA SettleFits ==
  ASSUME NEW a, NEW l \in Label, NEW n \in Int
  PROVE  /\ SettleLine(l, n) \in Entry /\ SettleLine(l, n).ended
         /\ Fits(a, SettleLine(l, n)) <=> a.holds[l].open = TRUE
         /\ Effect(a, SettleLine(l, n)) = Settling(a, l, n)
  BY DEF SettleLine, Line, Entry, LineType, Process, Label, Fits, Effect

(* A replay's settle fits an account in which its hold is open.             *)
LEMMA ReplayedFits ==
  ASSUME NEW a, NEW l \in Label, NEW n \in Int
  PROVE  /\ ReplayedLine(l, n) \in Entry /\ ReplayedLine(l, n).ended
         /\ Fits(a, ReplayedLine(l, n)) <=> a.holds[l].open = TRUE
         /\ Effect(a, ReplayedLine(l, n)) = Settling(a, l, n)
  BY DEF ReplayedLine, Line, Entry, LineType, Process, Label, Fits, Effect

(* A release fits an account in which its hold is open and names no pod.    *)
LEMMA ReleaseFits ==
  ASSUME NEW a, NEW l \in Label
  PROVE  /\ ReleaseLine(l) \in Entry /\ ReleaseLine(l).ended
         /\ Fits(a, ReleaseLine(l)) <=> a.holds[l].open = TRUE /\ a.holds[l].pod = NoPod
         /\ Effect(a, ReleaseLine(l)) = Releasing(a, l)
  BY DEF ReleaseLine, Line, Entry, LineType, Process, Label, Fits, Effect

(* The lines of the reconcile.                                              *)
LEMMA ReconcileLines ==
  ASSUME NEW p \in Pod, NEW n \in Int
  PROVE  /\ SpendLine(p, n) \in Entry /\ SpendLine(p, n).op = "spend" /\ SpendLine(p, n).ended
         /\ CorrectLine(p, n) \in Entry /\ CorrectLine(p, n).op = "correct"
         /\ CorrectLine(p, n).ended
  BY DEF SpendLine, CorrectLine, Line, Entry, LineType, Process

(* A correction fits every account.                                         *)
LEMMA CorrectionFits ==
  ASSUME NEW a, NEW e \in Entry, e.op \in {"spend", "correct"}
  PROVE  Fits(a, e) /\ Effect(a, e) = Charge(a, e.amount)
  BY DEF Fits, Effect

-----------------------------------------------------------------------------
(* What a step is for the file and the accounts: a line written whole, a    *)
(* line torn as its process dies, a start, or nothing.                      *)
Writes(w, line) ==
  /\ w \in Alive /\ line \in Entry /\ line.ended /\ Fits(account[w], line)
  /\ Write(w, line)
  /\ account' = [account EXCEPT ![w] = Effect(@, line)]
  /\ \A v \in Process : mode'[v] = "down" <=> mode[v] = "down"

Tears(w, line) ==
  /\ w \in Alive /\ line \in Entry /\ ~line.ended
  /\ line.op = "broken" \/ Fits(account[w], line)
  /\ Write(w, line)
  /\ mode' = [mode EXCEPT ![w] = "down"] /\ account' = [account EXCEPT ![w] = NewAccount]

Loads(w) ==
  /\ w \in Process /\ mode[w] = "down" /\ UNCHANGED <<file, overlap>>
  /\ \/ /\ OnDisk.works
        /\ \E m \in {"ready", "replay"} : mode' = [mode EXCEPT ![w] = m]
        /\ account' = [account EXCEPT ![w] = OnDisk.a]
        /\ foreign' = [foreign EXCEPT ![w] = FALSE]
     \/ UNCHANGED <<mode, account, foreign>>

Rests ==
  /\ UNCHANGED <<file, overlap>>
  /\ \A v \in Process : mode'[v] # "down" =>
       mode[v] # "down" /\ account'[v] = account[v] /\ foreign'[v] = foreign[v]
  /\ account' = account \/ \E w \in Process : account' = [account EXCEPT ![w] = NewAccount]

Kinds ==
  \/ \E w \in Process : Loads(w) \/ \E line \in Entry : Writes(w, line) \/ Tears(w, line)
  \/ Rests

(* What a replay settles a hold at is an amount.                            *)
LEMMA ReplayCostsType ==
  ASSUME LedgerInv, NEW w \in Process, NEW l \in OpenIn(w)
  PROVE  /\ l \in Label /\ account[w].holds[l].open /\ account[w].holds[l].estimate \in Nat
         /\ ReplayCosts(w, l) \subseteq Nat
<1>1. account[w] \in Account /\ bill \in [Pod -> Nat]
  BY DEF LedgerInv, TypeOK
<1>2. l \in Label /\ account[w].holds[l].open
  BY DEF OpenIn, OpenOf
<1>3. account[w].holds[l].estimate \in Nat /\ account[w].holds[l].pod \in Pod \cup {NoPod}
  BY <1>1, <1>2 DEF Account
<1> QED
  BY <1>1, <1>2, <1>3 DEF ReplayCosts

LEMMA PodCostsType ==
  ASSUME LedgerInv, NEW w \in Owner, target[w] \in Pod, NEW actual \in PodCosts(w)
  PROVE  actual \in Int
BY DEF PodCosts

(* A line that a crash may tear would have fitted.                          *)
LEMMA NextLinesFit ==
  ASSUME LedgerInv, NEW w \in Process, mode[w] # "down", NEW line \in NextLines(w)
  PROVE  line \in Entry /\ Fits(account[w], line)
<1>1. CASE mode[w] = "replay"
  <2>1. PICK l \in OpenIn(w) : line = ReplayedLine(l, account[w].holds[l].estimate)
    BY <1>1 DEF NextLines
  <2>2. l \in Label /\ account[w].holds[l].open = TRUE /\ account[w].holds[l].estimate \in Int
    BY ReplayCostsType DEF Account, LedgerInv, TypeOK
  <2>3. /\ ReplayedLine(l, account[w].holds[l].estimate) \in Entry
        /\ Fits(account[w], ReplayedLine(l, account[w].holds[l].estimate))
    BY <2>2, ReplayedFits, Zenon
  <2> QED
    BY <2>1, <2>3
<1>2. CASE mode[w] = "ready"
  <2>1. w \in Label /\ line = HoldLine(w, Estimate) /\ account[w].holds[w].open = FALSE
    BY <1>2 DEF NextLines, Label, Account, LedgerInv, TypeOK, OwnerInv, AtMode, NothingHeld
  <2> QED
    BY <2>1, AmountAssumption, HoldFits
<1>3. CASE mode[w] \in {"rented", "ended"}
  <2>1. w \in Label /\ account[w].holds[w].open = TRUE
    BY <1>3 DEF Process, Label, Account, LedgerInv, TypeOK, FileInv, OwnerInv, AtMode, OnlyHolds
  <2>2. target[w] \in Pod
    BY <1>3, <2>1 DEF Label, LedgerInv, TypeOK
  <2>3. line = AnnotateLine(w, target[w]) \/ \E actual \in PodCosts(w) : line = SettleLine(w, actual)
    BY <1>3 DEF NextLines
  <2>4. AnnotateLine(w, target[w]) \in Entry /\ Fits(account[w], AnnotateLine(w, target[w]))
    BY <2>1, <2>2, AmountAssumption, AnnotateFits
  <2>5. ASSUME NEW actual \in PodCosts(w)
        PROVE  SettleLine(w, actual) \in Entry /\ Fits(account[w], SettleLine(w, actual))
    <3>1. actual \in Int
      BY <2>1, <2>2, PodCostsType DEF Label
    <3> QED
      BY <2>1, <3>1, SettleFits, Zenon
  <2> QED
    BY <2>3, <2>4, <2>5
<1>5. CASE mode[w] = "held"
  <2>1. w \in Label /\ account[w].holds[w].open = TRUE /\ account[w].holds[w].pod = NoPod
    BY <1>5 DEF Process, Label, Account, Named, LedgerInv, TypeOK, FileInv, OwnerInv, AtMode, OnlyHolds
  <2>2. line \in {ReleaseLine(w), SettleLine(w, WaitCost)}
    BY <1>5 DEF NextLines
  <2>3. ReleaseLine(w) \in Entry /\ Fits(account[w], ReleaseLine(w))
    BY <2>1, ReleaseFits, Zenon
  <2>4. WaitCost \in Int
    BY AmountAssumption
  <2>5. SettleLine(w, WaitCost) \in Entry /\ Fits(account[w], SettleLine(w, WaitCost))
    BY <2>1, <2>4, SettleFits, Zenon
  <2> QED
    BY <2>2, <2>3, <2>5
<1>4. CASE mode[w] = "correct"
  <2>1. line \in todo
    BY <1>4 DEF NextLines
  <2> QED
    BY <2>1, CorrectionFits DEF LedgerInv, FileInv
<1> QED
  BY <1>1, <1>2, <1>3, <1>4, <1>5 DEF NextLines

(* How the lemmas below recognise a whole line.                             *)
LEMMA Written ==
  ASSUME LedgerInv, NEW w \in Process, NEW line \in Entry, NEW m, m # "down",
         mode[w] # "down", mode' = [mode EXCEPT ![w] = m],
         line.ended, Fits(account[w], line), Write(w, line),
         account' = [account EXCEPT ![w] = Effect(account[w], line)]
  PROVE  Kinds
<1>1. mode \in [Process -> {"down", "replay", "ready", "held", "rented", "ended", "correct"}]
  BY DEF LedgerInv, TypeOK
<1>2. \A v \in Process : mode'[v] = "down" <=> mode[v] = "down"
  BY <1>1
<1>3. Writes(w, line)
  BY <1>2 DEF Writes, Alive
<1> QED
  BY <1>3 DEF Kinds

(* Every step is of one of these kinds.                                     *)
LEMMA StepKinds == ASSUME LedgerInv, [Next]_vars PROVE Kinds
<1>1. ASSUME NEW w \in Process, Start(w) PROVE Kinds
  <2>1. Loads(w)
    BY <1>1 DEF Start, Loads
  <2> QED
    BY <2>1 DEF Kinds
<1>2. ASSUME NEW w \in Process, ReplaySettles(w) PROVE Kinds
  <2>1. PICK l \in OpenIn(w) : \E actual \in ReplayCosts(w, l) :
          /\ Write(w, ReplayedLine(l, actual))
          /\ account' = [account EXCEPT ![w] = Settling(@, l, actual)]
          /\ mode' = [mode EXCEPT ![w] = IF OpenIn(w) = {l} THEN "ready" ELSE "replay"]
    BY <1>2 DEF ReplaySettles
  <2>a. PICK actual \in ReplayCosts(w, l) :
          /\ Write(w, ReplayedLine(l, actual))
          /\ account' = [account EXCEPT ![w] = Settling(@, l, actual)]
          /\ mode' = [mode EXCEPT ![w] = IF OpenIn(w) = {l} THEN "ready" ELSE "replay"]
    BY <2>1
  <2>2. l \in Label /\ actual \in Int /\ account[w].holds[l].open = TRUE
    BY ReplayCostsType DEF Account, LedgerInv, TypeOK
  <2> DEFINE line == ReplayedLine(l, actual)
  <2>3. /\ line \in Entry /\ line.ended /\ Fits(account[w], line)
        /\ Effect(account[w], line) = Settling(account[w], l, actual)
    BY <2>2, ReplayedFits, Zenon
  <2>4. /\ Write(w, line) /\ account' = [account EXCEPT ![w] = Effect(account[w], line)]
        /\ mode[w] # "down"
    BY <1>2, <2>a, <2>3 DEF ReplaySettles
  <2> HIDE DEF line
  <2> QED
    BY <2>a, <2>3, <2>4, Written
<1>3. ASSUME NEW w \in Process, Crash(w) PROVE Kinds
  BY <1>3 DEF Crash, Dies, Kinds, Rests, LedgerInv, TypeOK
<1>4. ASSUME NEW w \in Process, CrashAppending(w) PROVE Kinds
  <2>0. PICK line \in NextLines(w) :
          \E left \in {BrokenLine, line} : Write(w, [left EXCEPT !.ended = FALSE])
    BY <1>4 DEF CrashAppending
  <2>1. PICK left \in {BrokenLine, line} : Write(w, [left EXCEPT !.ended = FALSE])
    BY <2>0
  <2>2. mode[w] # "down"
    BY <2>1 DEF NextLines
  <2>3. line \in Entry /\ Fits(account[w], line)
    BY <2>1, <2>2, NextLinesFit
  <2> DEFINE torn == [left EXCEPT !.ended = FALSE]
  <2>4. torn \in Entry
    BY <2>1, <2>3, BrokenType
  <2>5. ~torn.ended /\ (torn.op = "broken" \/ Fits(account[w], torn))
    <3>1. CASE left = BrokenLine
      <4>1. BrokenLine.ended = TRUE /\ BrokenLine.op = "broken"
        BY DEF BrokenLine, Line
      <4> QED
        BY <3>1, <4>1 DEF BrokenLine, Line
    <3>2. CASE left = line
      BY <2>3, <3>2 DEF Entry, LineType, Fits
    <3> QED
      BY <2>1, <3>1, <3>2
  <2> HIDE DEF torn
  <2>6. Write(w, torn)
    BY <2>1 DEF torn
  <2>7. Tears(w, torn)
    BY <1>4, <2>2, <2>4, <2>5, <2>6 DEF Tears, Alive, CrashAppending, Dies
  <2> QED
    BY <2>4, <2>7 DEF Kinds
<1>5. ASSUME NEW w \in Owner, Holds(w) PROVE Kinds
  <2> DEFINE line == HoldLine(w, Estimate)
  <2>1. /\ w \in Process /\ w \in Label /\ Estimate \in Nat
        /\ account[w].holds[w].open = FALSE
    BY <1>5, AmountAssumption DEF Process, Label, Holds, Account,
         LedgerInv, TypeOK, FileInv, OwnerInv, AtMode, NothingHeld
  <2>2. /\ line \in Entry /\ line.ended /\ Fits(account[w], line)
        /\ Effect(account[w], line) = Holding(account[w], w, Estimate)
    BY <2>1, HoldFits, Zenon
  <2>3. /\ Write(w, line) /\ account' = [account EXCEPT ![w] = Effect(account[w], line)]
        /\ mode[w] # "down" /\ \E m : m # "down" /\ mode' = [mode EXCEPT ![w] = m]
    BY <1>5, <2>1, <2>2 DEF Holds
  <2> HIDE DEF line
  <2> QED
    BY <2>1, <2>2, <2>3, Written
<1>6. ASSUME NEW w \in Owner, RentsNothing(w) PROVE Kinds
  <2>1. /\ w \in Process /\ w \in Label /\ WaitCost \in Int
        /\ account[w].holds[w].open = TRUE /\ account[w].holds[w].pod = NoPod
    BY <1>6, AmountAssumption DEF Process, Label, RentsNothing, Account, Named,
         LedgerInv, TypeOK, FileInv, OwnerInv, AtMode, OnlyHolds
  <2>2. CASE Write(w, ReleaseLine(w)) /\ account' = [account EXCEPT ![w] = Releasing(@, w)]
    <3> DEFINE line == ReleaseLine(w)
    <3>1. /\ line \in Entry /\ line.ended /\ Fits(account[w], line)
          /\ Effect(account[w], line) = Releasing(account[w], w)
      BY <2>1, ReleaseFits, Zenon
    <3>2. /\ Write(w, line) /\ account' = [account EXCEPT ![w] = Effect(account[w], line)]
          /\ mode[w] # "down" /\ \E m : m # "down" /\ mode' = [mode EXCEPT ![w] = m]
      BY <1>6, <2>2, <3>1 DEF RentsNothing
    <3> HIDE DEF line
    <3> QED
      BY <2>1, <3>1, <3>2, Written
  <2>3. CASE /\ Write(w, SettleLine(w, WaitCost))
             /\ account' = [account EXCEPT ![w] = Settling(@, w, WaitCost)]
    <3> DEFINE line == SettleLine(w, WaitCost)
    <3>1. /\ line \in Entry /\ line.ended /\ Fits(account[w], line)
          /\ Effect(account[w], line) = Settling(account[w], w, WaitCost)
      BY <2>1, SettleFits, Zenon
    <3>2. /\ Write(w, line) /\ account' = [account EXCEPT ![w] = Effect(account[w], line)]
          /\ mode[w] # "down" /\ \E m : m # "down" /\ mode' = [mode EXCEPT ![w] = m]
      BY <1>6, <2>3, <3>1 DEF RentsNothing
    <3> HIDE DEF line
    <3> QED
      BY <2>1, <3>1, <3>2, Written
  <2> QED
    BY <1>6, <2>2, <2>3 DEF RentsNothing
<1>7. ASSUME NEW w \in Owner, Annotates(w) PROVE Kinds
  <2> DEFINE line == AnnotateLine(w, target[w])
  <2>1. /\ w \in Process /\ w \in Label /\ account[w].holds[w].open = TRUE
        /\ target[w] \in Pod
    BY <1>7, AmountAssumption DEF Process, Label, Annotates, Account,
         LedgerInv, TypeOK, FileInv, OwnerInv, AtMode, OnlyHolds
  <2>2. /\ line \in Entry /\ line.ended /\ Fits(account[w], line)
        /\ Effect(account[w], line) = Naming(account[w], w, target[w])
    BY <2>1, AnnotateFits, Zenon
  <2>3. /\ Write(w, line) /\ account' = [account EXCEPT ![w] = Effect(account[w], line)]
        /\ mode[w] # "down" /\ mode' = mode
    BY <1>7, <2>1, <2>2 DEF Annotates
  <2>4. mode' = [mode EXCEPT ![w] = mode[w]]
    BY <2>1, <2>3 DEF LedgerInv, TypeOK
  <2> HIDE DEF line
  <2> QED
    BY <2>1, <2>2, <2>3, <2>4, Written
<1>8. ASSUME NEW w \in Owner, Ends(w) PROVE Kinds
  BY <1>8 DEF Ends, Kinds, Rests, Process, LedgerInv, TypeOK
<1>9. ASSUME NEW w \in Owner, Settles(w) PROVE Kinds
  <2>0. PICK actual \in PodCosts(w) :
          /\ Write(w, SettleLine(w, actual))
          /\ account' = [account EXCEPT ![w] = Settling(@, w, actual)]
    BY <1>9 DEF Settles
  <2> DEFINE line == SettleLine(w, actual)
  <2>1. w \in Process /\ w \in Label /\ account[w].holds[w].open = TRUE /\ actual \in Int
    <3>1. target[w] \in Pod
      BY <1>9 DEF Settles, LedgerInv, TypeOK
    <3> QED
      BY <1>9, <3>1, PodCostsType DEF Process, Label, Settles, Account,
         LedgerInv, TypeOK, FileInv, OwnerInv, AtMode, OnlyHolds
  <2>2. /\ line \in Entry /\ line.ended /\ Fits(account[w], line)
        /\ Effect(account[w], line) = Settling(account[w], w, actual)
    BY <2>1, SettleFits, Zenon
  <2>3. /\ Write(w, line) /\ account' = [account EXCEPT ![w] = Effect(account[w], line)]
        /\ mode[w] # "down" /\ \E m : m # "down" /\ mode' = [mode EXCEPT ![w] = m]
    BY <1>9, <2>0, <2>1, <2>2 DEF Settles
  <2> HIDE DEF line
  <2> QED
    BY <2>1, <2>2, <2>3, Written
<1>10. ASSUME NEW w \in Owner, NEW p \in Pod, Rents(w, p) PROVE Kinds
  BY <1>10 DEF Rents, Kinds, Rests, Process, LedgerInv, TypeOK
<1>11. CASE ReadsBill
  BY <1>11 DEF ReadsBill, Dies, Kinds, Rests, LedgerInv, TypeOK
<1>12. CASE Reconciles
  BY <1>12 DEF Reconciles, Dies, Kinds, Rests, LedgerInv, TypeOK
<1>13. ASSUME NEW line \in todo, Corrects(line) PROVE Kinds
  <2>1. Recon \in Process /\ line \in Entry /\ line.op \in {"spend", "correct"} /\ line.ended
    BY DEF Process, LedgerInv, FileInv
  <2>2. /\ Fits(account[Recon], line)
        /\ Effect(account[Recon], line) = Charge(account[Recon], line.amount)
    BY <2>1, CorrectionFits
  <2>3. CASE line.op = "correct" \/ CanAfford(account[Recon], line.amount)
    <3>1. Writes(Recon, line)
      BY <1>13, <2>1, <2>2, <2>3 DEF Corrects, Writes, Alive, LedgerInv, TypeOK
    <3> QED
      BY <2>1, <3>1 DEF Kinds
  <2>4. CASE ~(line.op = "correct" \/ CanAfford(account[Recon], line.amount))
    BY <1>13, <2>1, <2>4 DEF Corrects, Dies, Kinds, Rests, LedgerInv, TypeOK
  <2> QED
    BY <2>3, <2>4
<1>14. CASE Tick
  BY <1>14 DEF Tick, Kinds, Rests
<1>15. CASE UNCHANGED vars
  BY <1>15 DEF vars, Kinds, Rests
<1> QED
  BY <1>1, <1>2, <1>3, <1>4, <1>5, <1>6, <1>7, <1>8, <1>9, <1>10, <1>11, <1>12, <1>13, <1>14,
     <1>15
  DEF Next

-----------------------------------------------------------------------------
(* The next start against the accounts in memory.                           *)
SyncedInv ==
  /\ SequentialReplays
  /\ ~overlap /\ Intact(file) /\ LastEnded => \A w \in Alive : account[w] = Replayed(file).a

(* What replays with a line more replays without it.                        *)
LEMMA ReadableReplays ==
  ASSUME NEW lines \in Seq(Entry), NEW e \in Entry, ~Replayed(Append(lines, e)).failed
  PROVE  ~Replayed(lines).failed
  BY ReplayedType, ReplayedMore, FailureStays

(* An append that a start can read leaves a replay that works whenever it   *)
(* fits the account that the lines before it leave.                         *)
LEMMA AppendWorks ==
  ASSUME NEW lines \in Seq(Entry), NEW e \in Entry, ~Replayed(lines).failed,
         e.op = "broken" \/ Fits(Replayed(lines).a, e)
  PROVE  /\ ~Replayed(ReadAll(Append(lines, e))).failed
         /\ e.op # "broken" => Replayed(Append(lines, e)).a = Effect(Replayed(lines).a, e)
<1>1. Replayed(lines) \in ReplayState
  BY ReplayedType
<1>2. CASE e.op = "broken"
  BY <1>2, AppendReads
<1>3. CASE e.op # "broken"
  <2>1. ReadAll(Append(lines, e)) = Append(lines, e)
    BY <1>3, AppendReads
  <2>2. Replayed(Append(lines, e)) = ReplayedEntry(Replayed(lines), e)
    BY ReplayedMore
  <2>3. /\ ReplayedEntry(Replayed(lines), e).a = Effect(Replayed(lines).a, e)
        /\ ReplayedEntry(Replayed(lines), e).failed = Replayed(lines).failed
    BY <1>1, <1>3, ReplayFits
  <2> QED
    BY <2>1, <2>2, <2>3
<1> QED
  BY <1>2, <1>3

(* A glued line makes the file end as it did before the torn one.           *)
LEMMA GluedReads ==
  ASSUME LedgerInv, ~LastEnded, NEW line \in Entry
  PROVE  /\ file # <<>> /\ Front(file) \in Seq(Entry) /\ ~Intact(Appended(line))
         /\ Appended(line) # <<>> /\ Last(Appended(line)).op = "broken"
         /\ Last(Appended(line)).ended = line.ended
         /\ ReadAll(Appended(line)) = Front(file)
         /\ Readable(Appended(line)) <=> Intact(Front(file))
         /\ Readable(file) <=> Intact(Front(file))
         /\ ReadAll(file) = file \/ ReadAll(file) = Front(file)
<1> DEFINE glued == [BrokenLine EXCEPT !.ended = line.ended]
<1>1. file \in Seq(Entry) /\ file # <<>> /\ Appended(line) = Append(Front(file), glued)
  BY DEF LedgerInv, FileInv, LastEnded, Appended
<1>2. glued \in Entry /\ glued.op = "broken" /\ glued.ended = line.ended
  BY BrokenType
<1>3. /\ Front(file) \in Seq(Entry) /\ Last(file) \in Entry
      /\ file = Append(Front(file), Last(file))
  BY <1>1, FrontAndLast
<1>4. Readable(file) <=> Intact(Front(file))
  <2>1. Readable(Append(Front(file), Last(file))) <=> Intact(Front(file))
    BY <1>3, AppendReads
  <2> QED
    BY <1>3, <2>1
<1> HIDE DEF glued
<1>5. /\ ~Intact(Append(Front(file), glued)) /\ ReadAll(Append(Front(file), glued)) = Front(file)
      /\ Readable(Append(Front(file), glued)) <=> Intact(Front(file))
  BY <1>2, <1>3, AppendReads
<1>6. Append(Front(file), glued) # <<>> /\ Last(Append(Front(file), glued)) = glued
  BY <1>2, <1>3, FrontOfAppend
<1>7. ReadAll(file) = file \/ ReadAll(file) = Front(file)
  BY DEF ReadAll
<1> QED
  BY <1>1, <1>2, <1>3, <1>4, <1>5, <1>6, <1>7

(* Whatever is appended while nothing else runs, a start can read the file. *)
LEMMA SequentialWrite ==
  ASSUME LedgerInv, SyncedInv, NEW w \in Process, NEW line \in Entry, w \in Alive,
         line.op = "broken" \/ Fits(account[w], line), Write(w, line), ~overlap'
  PROVE  /\ SequentialReplays'
         /\ Intact(file') => /\ Replayed(file').a = Effect(account[w], line)
                             /\ Alive = {w}
<1>1. ~overlap /\ Alive = {w} /\ file' = Appended(line)
  BY DEF Write
<1>2. file \in Seq(Entry)
  BY DEF LedgerInv, FileInv
<1>3. CASE LastEnded
  <2>1. file' = Append(file, line)
    BY <1>1, <1>3 DEF Appended
  <2>2. Readable(file') <=> Intact(file)
    BY <1>2, <2>1, AppendReads
  <2> SUFFICES ASSUME Intact(file)
               PROVE  /\ ~Replayed(ReadAll(file')).failed
                      /\ Intact(file') => Replayed(file').a = Effect(account[w], line)
    <3>1. Intact(file') => Intact(file)
      BY <1>2, <2>1, AppendReads
    <3> QED
      BY <1>1, <2>2, <3>1 DEF SequentialReplays, OnDisk
  <2>3. Readable(file) /\ ReadAll(file) = file
    BY <1>2, IntactReads
  <2>4. ~Replayed(file).failed /\ account[w] = Replayed(file).a
    BY <1>1, <1>3, <2>3 DEF SyncedInv, SequentialReplays, OnDisk
  <2>5. Intact(file') => line.op # "broken"
    BY <1>2, <2>1, AppendReads
  <2> QED
    BY <1>2, <2>1, <2>4, <2>5, AppendWorks
<1>4. CASE ~LastEnded
  <2>1. /\ ~Intact(file') /\ ReadAll(file') = Front(file) /\ file # <<>>
        /\ Readable(file') <=> Readable(file)
        /\ ReadAll(file) = file \/ ReadAll(file) = Front(file)
    BY <1>1, <1>4, GluedReads
  <2>2. Readable(file) => ~Replayed(Front(file)).failed
    <3> SUFFICES ASSUME Readable(file) PROVE ~Replayed(Front(file)).failed
      OBVIOUS
    <3>1. ~Replayed(ReadAll(file)).failed
      BY <1>1 DEF SyncedInv, SequentialReplays, OnDisk
    <3>2. CASE ReadAll(file) = file
      <4>1. /\ Front(file) \in Seq(Entry) /\ Last(file) \in Entry
            /\ file = Append(Front(file), Last(file))
        BY <1>2, <2>1, FrontAndLast
      <4>2. ~Replayed(Append(Front(file), Last(file))).failed
        BY <3>1, <3>2, <4>1
      <4> QED
        BY <4>1, <4>2, ReadableReplays
    <3> QED
      BY <2>1, <3>1, <3>2
  <2> QED
    BY <2>1, <2>2 DEF SequentialReplays, OnDisk
<1> QED
  BY <1>3, <1>4

(* Each kind of step keeps memory and file together.                        *)
LEMMA SyncedNext == ASSUME LedgerInv, SyncedInv, [Next]_vars PROVE SyncedInv'
<1>0. file \in Seq(Entry) /\ account \in [Process -> Account]
  BY DEF LedgerInv, FileInv, TypeOK
<1>1. ASSUME NEW w \in Process, Loads(w) PROVE SyncedInv'
  <2>1. SequentialReplays'
    BY <1>1 DEF Loads, SyncedInv, SequentialReplays, OnDisk
  <2>2. ASSUME ~overlap', Intact(file'), LastEnded', NEW v \in Alive'
        PROVE  account'[v] = Replayed(file').a
    <3>1. ~overlap /\ Intact(file) /\ LastEnded /\ file' = file /\ v \in Process
      BY <1>1, <2>2 DEF Loads, LastEnded, Alive
    <3>2. OnDisk.a = Replayed(file).a
      BY <1>0, <3>1, IntactReads DEF OnDisk
    <3>3. CASE UNCHANGED <<mode, account, foreign>>
      BY <2>2, <3>1, <3>3 DEF SyncedInv, Alive
    <3>4. CASE /\ \E m \in {"ready", "replay"} : mode' = [mode EXCEPT ![w] = m]
               /\ account' = [account EXCEPT ![w] = OnDisk.a]
      <4>1. v = w => account'[v] = OnDisk.a
        BY <1>0, <1>1, <3>4 DEF Loads
      <4>2. v # w => v \in Alive /\ account'[v] = account[v]
        BY <1>0, <2>2, <3>1, <3>4 DEF Alive, LedgerInv, TypeOK
      <4> QED
        BY <3>1, <3>2, <4>1, <4>2 DEF SyncedInv
    <3> QED
      BY <1>1, <3>3, <3>4 DEF Loads
  <2> QED
    BY <2>1, <2>2 DEF SyncedInv
<1>2. ASSUME NEW w \in Process, NEW line \in Entry, Writes(w, line) PROVE SyncedInv'
  <2> SUFFICES ASSUME ~overlap' PROVE SyncedInv'
    BY DEF SyncedInv, SequentialReplays
  <2>1. /\ SequentialReplays'
        /\ Intact(file') => Replayed(file').a = Effect(account[w], line) /\ Alive = {w}
    BY <1>2, SequentialWrite DEF Writes
  <2>2. account'[w] = Effect(account[w], line) /\ Alive' = Alive
    BY <1>0, <1>2 DEF Writes, Alive
  <2> QED
    BY <2>1, <2>2 DEF SyncedInv
<1>3. ASSUME NEW w \in Process, NEW line \in Entry, Tears(w, line) PROVE SyncedInv'
  <2> SUFFICES ASSUME ~overlap' PROVE SyncedInv'
    BY DEF SyncedInv, SequentialReplays
  <2>1. SequentialReplays'
    BY <1>3, SequentialWrite DEF Tears
  <2>2. Alive = {w}
    BY <1>3 DEF Tears, Write
  <2>3. Alive' = {}
    BY <1>3, <2>2 DEF Tears, Alive, LedgerInv, TypeOK
  <2> QED
    BY <2>1, <2>3 DEF SyncedInv
<1>4. CASE Rests
  <2>1. SequentialReplays'
    BY <1>4 DEF Rests, SyncedInv, SequentialReplays, OnDisk
  <2>2. ASSUME ~overlap', Intact(file'), LastEnded', NEW v \in Alive'
        PROVE  account'[v] = Replayed(file').a
    <3>1. ~overlap /\ Intact(file) /\ LastEnded /\ file' = file
      BY <1>4, <2>2 DEF Rests, LastEnded
    <3>2. v \in Alive /\ account'[v] = account[v]
      BY <1>4, <2>2 DEF Rests, Alive
    <3> QED
      BY <3>1, <3>2 DEF SyncedInv
  <2> QED
    BY <2>1, <2>2 DEF SyncedInv
<1> QED
  BY <1>1, <1>2, <1>3, <1>4, StepKinds DEF Kinds

(* As long as no returned append is lost, only the last line can be broken, *)
(* and then it lacks its newline.                                           *)
LEMMA LostNothing ==
  ASSUME LedgerInv, NothingLost, LastEnded PROVE Intact(file)
<1>1. file \in Seq(Entry) /\ \A i \in 1..(Len(file) - 1) : file[i].ended
  BY DEF LedgerInv, FileInv, TypeOK
<1>2. ASSUME NEW i \in DOMAIN file PROVE file[i].op # "broken"
  <2>1. i \in 1..Len(file) /\ Len(file) \in Nat /\ file # <<>>
    BY <1>1, <1>2
  <2>2. CASE i \in 1..(Len(file) - 1)
    BY <1>1, <1>2, <2>2 DEF NothingLost
  <2>3. CASE i = Len(file)
    BY <1>2, <2>1, <2>3 DEF NothingLost, LastEnded, Last
  <2> QED
    BY <2>1, <2>2, <2>3
<1> QED
  BY <1>2 DEF Intact

(* Each kind of step keeps a sole writer's account.                         *)
LEMMA AgreesNext == ASSUME LedgerInv, SoleWriterAgrees, [Next]_vars PROVE SoleWriterAgrees'
<1>0. /\ file \in Seq(Entry) /\ account \in [Process -> Account]
      /\ foreign \in [Process -> BOOLEAN]
  BY DEF LedgerInv, FileInv, TypeOK
<1> SUFFICES ASSUME NothingLost', NEW v \in Alive', ~foreign'[v]
             PROVE  OnDisk'.works /\ OnDisk'.a = account'[v]
  BY DEF SoleWriterAgrees, AgreesWithDisk
<1>a. v \in Process /\ mode'[v] # "down"
  BY DEF Alive
<1>1. ASSUME NEW w \in Process, Loads(w) PROVE OnDisk'.works /\ OnDisk'.a = account'[v]
  <2>1. OnDisk' = OnDisk /\ NothingLost
    BY <1>1 DEF Loads, OnDisk, NothingLost
  <2>2. CASE UNCHANGED <<mode, account, foreign>>
    BY <2>1, <2>2 DEF SoleWriterAgrees, AgreesWithDisk, Alive
  <2>3. CASE /\ OnDisk.works
             /\ \E m \in {"ready", "replay"} : mode' = [mode EXCEPT ![w] = m]
             /\ account' = [account EXCEPT ![w] = OnDisk.a]
             /\ foreign' = [foreign EXCEPT ![w] = FALSE]
    <3>1. CASE v = w
      BY <1>0, <1>a, <2>1, <2>3, <3>1
    <3>2. CASE v # w
      <4>1. v \in Alive /\ ~foreign[v] /\ account'[v] = account[v]
        BY <1>0, <1>a, <2>3, <3>2 DEF Alive, LedgerInv, TypeOK
      <4> QED
        BY <2>1, <4>1 DEF SoleWriterAgrees, AgreesWithDisk
    <3> QED
      BY <3>1, <3>2
  <2> QED
    BY <1>1, <2>2, <2>3 DEF Loads
<1>2. ASSUME NEW w \in Process, NEW line \in Entry, Writes(w, line)
      PROVE  OnDisk'.works /\ OnDisk'.a = account'[v]
  <2>1. v = w /\ ~foreign[w] /\ w \in Alive
    BY <1>2, <1>a DEF Writes, Write
  <2>2. LastEnded
    <3> SUFFICES ASSUME ~LastEnded PROVE FALSE
      OBVIOUS
    <3>1. /\ Appended(line) # <<>> /\ Last(Appended(line)).op = "broken"
          /\ Last(Appended(line)).ended /\ Appended(line) \in Seq(Entry)
      BY <1>2, GluedReads, AppendedType DEF Writes
    <3>2. Len(file') \in DOMAIN file' /\ file'[Len(file')].op = "broken" /\ file'[Len(file')].ended
      BY <1>2, <3>1 DEF Writes, Write, Last
    <3> QED
      BY <3>2 DEF NothingLost
  <2>3. file' = Append(file, line)
    BY <1>2, <2>2 DEF Writes, Write, Appended
  <2>4. NothingLost
    <3>1. \A i \in DOMAIN file : i \in DOMAIN file' /\ file'[i] = file[i]
      BY <1>0, <2>3, AppendProperties
    <3> QED
      BY <3>1 DEF NothingLost
  <2>5. Intact(file) /\ Readable(file) /\ ReadAll(file) = file
    BY <1>0, <2>2, <2>4, LostNothing, IntactReads
  <2>6. ~Replayed(file).failed /\ Replayed(file).a = account[w]
    BY <2>1, <2>4, <2>5 DEF SoleWriterAgrees, AgreesWithDisk, OnDisk
  <2>7. /\ ~Replayed(ReadAll(file')).failed /\ line.op # "broken"
        /\ Replayed(file').a = Effect(account[w], line)
    BY <1>0, <1>2, <2>3, <2>6, AppendWorks DEF Writes, Fits
  <2>8. Readable(file') /\ ReadAll(file') = file'
    BY <1>0, <2>3, <2>5, <2>7, AppendReads
  <2>9. account'[v] = Effect(account[w], line)
    BY <1>0, <1>2, <2>1 DEF Writes
  <2> QED
    BY <2>7, <2>8, <2>9 DEF OnDisk
<1>3. ASSUME NEW w \in Process, NEW line \in Entry, Tears(w, line) PROVE FALSE
  BY <1>3, <1>a DEF Tears, Write, LedgerInv, TypeOK
<1>4. CASE Rests
  <2>1. OnDisk' = OnDisk /\ NothingLost
    BY <1>4 DEF Rests, OnDisk, NothingLost
  <2>2. v \in Alive /\ ~foreign[v] /\ account'[v] = account[v]
    BY <1>4, <1>a DEF Rests, Alive
  <2> QED
    BY <2>1, <2>2 DEF SoleWriterAgrees, AgreesWithDisk
<1> QED
  BY <1>1, <1>2, <1>3, <1>4, StepKinds DEF Kinds

-----------------------------------------------------------------------------
(* What is written and what is held in memory keeps its type.               *)
LEMMA FileNext ==
  ASSUME LedgerInv, [Next]_vars
  PROVE  /\ file' \in Seq(Entry) /\ file' \in Seq(LineType)
         /\ \A i \in 1..(Len(file') - 1) : file'[i].ended
         /\ account' \in [Process -> Account]
<1>1. /\ file \in Seq(Entry) /\ account \in [Process -> Account]
      /\ \A i \in 1..(Len(file) - 1) : file[i].ended
  BY DEF LedgerInv, FileInv, TypeOK
<1>2. Entry \subseteq LineType
  BY DEF Entry
<1> SUFFICES /\ file' \in Seq(Entry) /\ \A i \in 1..(Len(file') - 1) : file'[i].ended
             /\ account' \in [Process -> Account]
  BY <1>2, SeqMonotonic
<1>3. NewAccount \in Account /\ OnDisk.a \in Account
  <2>1. Replayed(ReadAll(file)) \in ReplayState
    BY <1>1, ReadAllType, ReplayedType
  <2> QED
    BY <2>1, BlankType DEF OnDisk, ReplayState
<1>4. ASSUME NEW w \in Process, NEW line \in Entry, file' = Appended(line)
      PROVE  file' \in Seq(Entry) /\ \A i \in 1..(Len(file') - 1) : file'[i].ended
  BY <1>4, AppendedType
<1>5. ASSUME NEW w \in Process, Loads(w) PROVE file' = file /\ account' \in [Process -> Account]
  BY <1>1, <1>3, <1>5 DEF Loads
<1>6. ASSUME NEW w \in Process, NEW line \in Entry, Writes(w, line)
      PROVE  file' = Appended(line) /\ account' \in [Process -> Account]
  BY <1>1, <1>6, EffectType DEF Writes, Write
<1>7. ASSUME NEW w \in Process, NEW line \in Entry, Tears(w, line)
      PROVE  file' = Appended(line) /\ account' \in [Process -> Account]
  BY <1>1, <1>3, <1>7 DEF Tears, Write
<1>8. Rests => file' = file /\ account' \in [Process -> Account]
  BY <1>1, <1>3 DEF Rests
<1>9. CASE \E w \in Process, line \in Entry : Writes(w, line) \/ Tears(w, line)
  BY <1>4, <1>6, <1>7, <1>9
<1>10. CASE file' = file /\ account' \in [Process -> Account]
  BY <1>1, <1>10
<1> QED
  BY <1>5, <1>8, <1>9, <1>10, StepKinds DEF Kinds

(* What a reconcile has still to append are corrections of known pods.      *)
LEMMA TodoNext ==
  ASSUME LedgerInv, [Next]_vars
  PROVE  /\ \A line \in todo' : /\ line \in Entry /\ line \in LineType /\ line.ended
                                /\ line.op \in {"spend", "correct"}
         /\ todo' # {} => mode'[Recon] = "correct"
<1>1. /\ \A line \in todo : /\ line \in Entry /\ line.op \in {"spend", "correct"} /\ line.ended
      /\ todo # {} => mode[Recon] = "correct"
      /\ bill \in [Pod -> Nat] /\ file \in Seq(Entry) /\ Entry \subseteq LineType
      /\ Recon \in Process /\ Recon \notin Owner
      /\ mode \in [Process -> {"down", "replay", "ready", "held", "rented", "ended", "correct"}]
  BY ProcessAssumption DEF LedgerInv, FileInv, TypeOK, Entry, Process
<1>2. CASE ReadsBill
  <2>1. ASSUME NEW posted \in SUBSET Rented,
               todo' = {SpendLine(p, bill[p]) :
                          p \in {q \in posted \ Tracked(ReadAll(file)).pods : bill[q] > 0}}
                       \cup {CorrectLine(p, bill[p] - Tracked(ReadAll(file)).settled[p]) :
                          p \in {q \in posted \cap Tracked(ReadAll(file)).pods :
                                   bill[q] # Tracked(ReadAll(file)).settled[q]}}
        PROVE  \A line \in todo' : line \in Entry /\ line.op \in {"spend", "correct"} /\ line.ended
    <3> DEFINE tracked == Tracked(ReadAll(file))
    <3>1. tracked.settled \in [Pod -> Int]
      BY <1>1, ReadAllType, TrackedType DEF CountState
    <3> HIDE DEF tracked
    <3>2. posted \subseteq Pod
      BY DEF Rented
    <3>3. ASSUME NEW p \in posted
          PROVE  p \in Pod /\ bill[p] \in Int /\ bill[p] - tracked.settled[p] \in Int
      BY <1>1, <3>1, <3>2
    <3>4. ASSUME NEW p \in posted
          PROVE  /\ SpendLine(p, bill[p]) \in Entry /\ SpendLine(p, bill[p]).op = "spend"
                 /\ SpendLine(p, bill[p]).ended
                 /\ CorrectLine(p, bill[p] - tracked.settled[p]) \in Entry
                 /\ CorrectLine(p, bill[p] - tracked.settled[p]).op = "correct"
                 /\ CorrectLine(p, bill[p] - tracked.settled[p]).ended
      BY <3>3, ReconcileLines
    <3>5. \A line \in todo' : \E p \in posted :
            line = SpendLine(p, bill[p]) \/ line = CorrectLine(p, bill[p] - tracked.settled[p])
      BY <2>1 DEF tracked
    <3> QED
      BY <3>4, <3>5
  <2>2. ASSUME NEW posted \in SUBSET Rented, Dies(Recon) PROVE todo' = {}
    BY <2>2 DEF Dies
  <2>3. mode'[Recon] = "correct" \/ todo' = {}
    BY <1>1, <1>2 DEF ReadsBill, Dies
  <2>4. \A line \in todo' : line \in Entry /\ line.op \in {"spend", "correct"} /\ line.ended
    BY <1>2, <2>1, <2>2 DEF ReadsBill
  <2> QED
    BY <1>1, <2>3, <2>4
<1>3. ASSUME ~ReadsBill PROVE todo' \subseteq todo /\ (todo' # {} => mode'[Recon] = "correct")
  <2>1. ASSUME NEW w \in Process, Start(w) \/ ReplaySettles(w)
        PROVE  todo' \subseteq todo /\ (todo' # {} => mode'[Recon] = "correct")
    BY <1>1, <2>1 DEF Start, ReplaySettles
  <2>2. ASSUME NEW w \in Process, Crash(w) \/ CrashAppending(w)
        PROVE  todo' \subseteq todo /\ (todo' # {} => mode'[Recon] = "correct")
    BY <1>1, <2>2 DEF Crash, CrashAppending, Dies
  <2>3. ASSUME NEW w \in Owner, Holds(w) \/ RentsNothing(w) \/ Annotates(w) \/ Ends(w) \/ Settles(w)
        PROVE  todo' \subseteq todo /\ (todo' # {} => mode'[Recon] = "correct")
    BY <1>1, <2>3 DEF Holds, RentsNothing, Annotates, Ends, Settles
  <2>4. ASSUME NEW w \in Owner, NEW p \in Pod, Rents(w, p)
        PROVE  todo' \subseteq todo /\ (todo' # {} => mode'[Recon] = "correct")
    BY <1>1, <2>4 DEF Rents
  <2>5. CASE Reconciles
    BY <1>1, <2>5 DEF Reconciles, Dies
  <2>6. ASSUME NEW line \in todo, Corrects(line)
        PROVE  todo' \subseteq todo /\ (todo' # {} => mode'[Recon] = "correct")
    BY <1>1, <2>6 DEF Corrects, Dies
  <2>7. CASE Tick \/ UNCHANGED vars
    BY <1>1, <2>7 DEF Tick, vars
  <2> QED
    BY <1>3, <2>1, <2>2, <2>3, <2>4, <2>5, <2>6, <2>7 DEF Next
<1> QED
  BY <1>1, <1>2, <1>3

Modes == {"down", "replay", "ready", "held", "rented", "ended", "correct"}

(* Where the processes are, and what they know there.                       *)
ModeInv ==
  /\ mode \in [Process -> Modes] /\ target \in [Owner -> Pod \cup {NoPod}]
  /\ \A w \in Owner : target[w] # NoPod <=> mode[w] \in {"rented", "ended"}
  /\ OwnerInv

(* What the methods leave of the holds.                                     *)
LEMMA HoldsLeft ==
  ASSUME NEW a \in Account, NEW w \in Label, NEW p \in Pod \cup {NoPod}, NEW n \in Int
  PROVE  /\ NothingHeld(a) /\ n \in Nat =>
              OnlyHolds(Holding(a, w, n), w) /\ Holding(a, w, n).holds[w].pod = NoPod
         /\ OnlyHolds(a, w) => /\ OnlyHolds(Naming(a, w, p), w)
                               /\ NothingHeld(Settling(a, w, n)) /\ NothingHeld(Releasing(a, w))
         /\ OpenOf(a) = {w} => NothingHeld(Settling(a, w, n))
         /\ NothingHeld(a) => NothingHeld(Charge(a, n))
         /\ OpenOf(a) = {} => NothingHeld(a)
<1> USE DEF Account, SetHold, HeldAt, NoHold, Charge
<1>1. NothingHeld(a) /\ n \in Nat =>
        OnlyHolds(Holding(a, w, n), w) /\ Holding(a, w, n).holds[w].pod = NoPod
  BY DEF NothingHeld, OnlyHolds, Holding
<1>2. OnlyHolds(a, w) => OnlyHolds(Naming(a, w, p), w)
  BY DEF OnlyHolds, Naming
<1>3. OnlyHolds(a, w) \/ OpenOf(a) = {w} => NothingHeld(Settling(a, w, n))
  BY DEF OnlyHolds, NothingHeld, Settling, OpenOf
<1>4. OnlyHolds(a, w) => NothingHeld(Releasing(a, w))
  BY DEF OnlyHolds, NothingHeld, Releasing
<1>5. NothingHeld(a) => NothingHeld(Charge(a, n))
  BY DEF NothingHeld
<1>6. OpenOf(a) = {} => NothingHeld(a)
  BY DEF NothingHeld, OpenOf
<1> QED
  BY <1>1, <1>2, <1>3, <1>4, <1>5, <1>6

(* Each step keeps processes and accounts in line.                          *)
LEMMA ModeNext == ASSUME LedgerInv, [Next]_vars PROVE ModeInv'
<1>1. /\ ModeInv /\ account \in [Process -> Account] /\ account' \in [Process -> Account]
      /\ bill \in [Pod -> Nat]
  BY FileNext DEF LedgerInv, TypeOK, ModeInv, Modes
<1>2. /\ Process = Owner \cup {Recon} /\ Recon \notin Owner /\ NoPod \notin Pod /\ Label = Owner
      /\ WaitCost \in Int /\ Estimate \in Int /\ Estimate \in Nat
  BY ProcessAssumption, AmountAssumption DEF Process, Label
<1>a. \A w \in Process : AtMode(w, "down", NewAccount)
  BY DEF AtMode
<1> USE DEF ModeInv, OwnerInv, Modes
<1>3. ASSUME NEW w \in Process, Start(w) PROVE ModeInv'
  <2>1. mode[w] = "down" /\ target' = target
    BY <1>3 DEF Start
  <2>2. CASE UNCHANGED <<mode, account>>
    BY <1>1, <1>2, <2>1, <2>2
  <2>3. CASE /\ mode' = [mode EXCEPT ![w] = IF OpenOf(OnDisk.a) = {} THEN "ready" ELSE "replay"]
             /\ account' = [account EXCEPT ![w] = OnDisk.a]
    <3>1. AtMode(w, mode'[w], account'[w])
      BY <1>1, <2>3 DEF AtMode, NothingHeld, OpenOf
    <3> QED
      BY <1>1, <1>2, <2>1, <2>3, <3>1
  <2> QED
    BY <1>3, <2>2, <2>3 DEF Start
<1>4. ASSUME NEW w \in Process, ReplaySettles(w) PROVE ModeInv'
  <2>1. mode[w] = "replay" /\ target' = target
    BY <1>4 DEF ReplaySettles, podVars
  <2>2. PICK l \in OpenIn(w) : \E actual \in ReplayCosts(w, l) :
          /\ account' = [account EXCEPT ![w] = Settling(@, l, actual)]
          /\ mode' = [mode EXCEPT ![w] = IF OpenIn(w) = {l} THEN "ready" ELSE "replay"]
    BY <1>4 DEF ReplaySettles
  <2>3. PICK actual \in ReplayCosts(w, l) :
          account' = [account EXCEPT ![w] = Settling(account[w], l, actual)]
    BY <2>2
  <2>4. l \in Label /\ actual \in Int /\ account[w] \in Account
    BY <1>1, ReplayCostsType
  <2>5. OpenIn(w) = {l} => NothingHeld(account'[w])
    BY <1>1, <2>3, <2>4, HoldsLeft DEF OpenIn
  <2>6. AtMode(w, mode'[w], account'[w])
    BY <1>1, <2>2, <2>5 DEF AtMode
  <2> QED
    BY <1>1, <1>2, <2>1, <2>2, <2>6
<1>5. ASSUME NEW w \in Process, Crash(w) \/ CrashAppending(w) PROVE ModeInv'
  BY <1>1, <1>2, <1>a, <1>5 DEF Crash, CrashAppending, Dies
<1>6. ASSUME NEW w \in Owner, Holds(w) PROVE ModeInv'
  <2>1. /\ mode[w] = "ready" /\ mode' = [mode EXCEPT ![w] = "held"] /\ target' = target
        /\ account' = [account EXCEPT ![w] = Holding(account[w], w, Estimate)]
    BY <1>6 DEF Holds, podVars
  <2>2. NothingHeld(account[w]) /\ account[w] \in Account
    BY <1>1, <1>2, <2>1 DEF AtMode
  <2>3. /\ OnlyHolds(Holding(account[w], w, Estimate), w)
        /\ Holding(account[w], w, Estimate).holds[w].pod = NoPod
    BY <1>2, <2>2, HoldsLeft
  <2>4. AtMode(w, "held", Holding(account[w], w, Estimate))
    BY <2>3 DEF AtMode
  <2> QED
    BY <1>1, <1>2, <2>1, <2>4
<1>7. ASSUME NEW w \in Owner, RentsNothing(w) PROVE ModeInv'
  <2>1. mode[w] = "held" /\ mode' = [mode EXCEPT ![w] = "ready"] /\ target' = target
    BY <1>7 DEF RentsNothing, podVars
  <2>2. OnlyHolds(account[w], w) /\ account[w] \in Account
    BY <1>1, <1>2, <2>1 DEF AtMode
  <2>3. NothingHeld(Releasing(account[w], w)) /\ NothingHeld(Settling(account[w], w, WaitCost))
    BY <1>2, <2>2, HoldsLeft
  <2>4. \E a : account' = [account EXCEPT ![w] = a] /\ NothingHeld(a)
    BY <1>7, <2>3 DEF RentsNothing
  <2>5. \A a : NothingHeld(a) => AtMode(w, "ready", a)
    BY DEF AtMode
  <2> QED
    BY <1>1, <1>2, <2>1, <2>4, <2>5
<1>8. ASSUME NEW w \in Owner, Annotates(w) PROVE ModeInv'
  <2>1. /\ mode[w] \in {"rented", "ended"} /\ mode' = mode /\ target' = target
        /\ account' = [account EXCEPT ![w] = Naming(account[w], w, target[w])]
    BY <1>8 DEF Annotates, podVars
  <2>2. OnlyHolds(account[w], w) /\ account[w] \in Account
    BY <1>1, <1>2, <2>1 DEF AtMode
  <2>3. OnlyHolds(Naming(account[w], w, target[w]), w)
    BY <1>1, <1>2, <2>2, HoldsLeft
  <2>4. AtMode(w, mode[w], Naming(account[w], w, target[w]))
    BY <2>1, <2>3 DEF AtMode
  <2> QED
    BY <1>1, <1>2, <2>1, <2>4
<1>9. ASSUME NEW w \in Owner, Ends(w) PROVE ModeInv'
  <2>1. /\ mode[w] = "rented" /\ mode' = [mode EXCEPT ![w] = "ended"]
        /\ target' = target /\ account' = account
    BY <1>9 DEF Ends
  <2>2. AtMode(w, "ended", account[w])
    BY <1>1, <1>2, <2>1 DEF AtMode
  <2> QED
    BY <1>1, <1>2, <2>1, <2>2
<1>10. ASSUME NEW w \in Owner, Settles(w) PROVE ModeInv'
  <2>0. PICK actual \in PodCosts(w) : account' = [account EXCEPT ![w] = Settling(account[w], w, actual)]
    BY <1>10 DEF Settles
  <2>1. /\ mode[w] = "ended" /\ mode' = [mode EXCEPT ![w] = "ready"]
        /\ target' = [target EXCEPT ![w] = NoPod]
        /\ account' = [account EXCEPT ![w] = Settling(account[w], w, actual)]
    BY <1>10, <2>0 DEF Settles
  <2>2. OnlyHolds(account[w], w) /\ account[w] \in Account
    BY <1>1, <1>2, <2>1 DEF AtMode
  <2>3. target[w] \in Pod
    BY <1>1, <2>1
  <2>6. actual \in Int
    BY <2>3, PodCostsType
  <2>4. NothingHeld(Settling(account[w], w, actual))
    BY <1>2, <2>2, <2>6, HoldsLeft
  <2>5. AtMode(w, "ready", Settling(account[w], w, actual))
    BY <2>4 DEF AtMode
  <2> QED
    BY <1>1, <1>2, <2>1, <2>5
<1>11. ASSUME NEW w \in Owner, NEW p \in Pod, Rents(w, p) PROVE ModeInv'
  <2>1. /\ mode[w] = "held" /\ mode' = [mode EXCEPT ![w] = "rented"]
        /\ target' = [target EXCEPT ![w] = p] /\ account' = account
    BY <1>11 DEF Rents
  <2>2. AtMode(w, "rented", account[w])
    BY <1>1, <1>2, <2>1 DEF AtMode
  <2> QED
    BY <1>1, <1>2, <2>1, <2>2
<1>12. CASE ReadsBill
  <2>1. mode[Recon] = "ready"
    BY <1>12 DEF ReadsBill
  <2>2. \/ mode' = [mode EXCEPT ![Recon] = "correct"] /\ UNCHANGED <<account, target>>
        \/ Dies(Recon)
    BY <1>12 DEF ReadsBill
  <2>3. AtMode(Recon, "correct", account[Recon])
    BY <1>1, <1>2, <2>1 DEF AtMode
  <2> QED
    BY <1>1, <1>2, <1>a, <2>1, <2>2, <2>3 DEF Dies
<1>13. CASE Reconciles
  BY <1>1, <1>2, <1>a, <1>13 DEF Reconciles, Dies
<1>14. ASSUME NEW line \in todo, Corrects(line) PROVE ModeInv'
  <2>1. mode[Recon] = "correct"
    BY <1>14 DEF Corrects
  <2>2. CASE Dies(Recon)
    BY <1>1, <1>2, <1>a, <2>2 DEF Dies
  <2>3. CASE /\ UNCHANGED <<mode, target>>
             /\ account' = [account EXCEPT ![Recon] = Charge(account[Recon], line.amount)]
    <3>1. NothingHeld(account[Recon]) /\ account[Recon] \in Account
      BY <1>1, <1>2, <2>1 DEF AtMode
    <3>2. NothingHeld(Charge(account[Recon], line.amount))
      BY <3>1 DEF NothingHeld, Charge, Account
    <3>3. AtMode(Recon, mode[Recon], Charge(account[Recon], line.amount))
      BY <2>1, <3>2 DEF AtMode
    <3> QED
      BY <1>1, <1>2, <2>3, <3>3
  <2> QED
    BY <1>14, <2>2, <2>3 DEF Corrects
<1>15. CASE Tick \/ UNCHANGED vars
  BY <1>1, <1>15 DEF Tick, vars, podVars
<1>16. [Next]_vars
  OBVIOUS
<1> QED
  BY <1>3, <1>4, <1>5, <1>6, <1>7, <1>8, <1>9, <1>10, <1>11, <1>12, <1>13, <1>14, <1>15, <1>16
  DEF Next

(* Pods, clocks, histories and bounds.                                      *)
CountInv ==
  /\ pods \in [Pod -> {"fresh", "billing", "gone"}] /\ bill \in [Pod -> Nat]
  /\ overlap \in BOOLEAN /\ foreign \in [Process -> BOOLEAN]
  /\ reconciled \in {"no", "begun", "yes"}
  /\ ticks \in Nat /\ starts \in Nat /\ holds \in Nat /\ tears \in Nat

(* Each step keeps their types.                                             *)
LEMMA CountNext == ASSUME LedgerInv, [Next]_vars PROVE CountInv'
<1>1. CountInv
  BY DEF LedgerInv, TypeOK, CountInv
<1>2. ASSUME NEW w, NEW line, Write(w, line)
      PROVE  /\ overlap' \in BOOLEAN /\ foreign' \in [Process -> BOOLEAN]
             /\ reconciled' \in {"no", "begun", "yes"}
  BY <1>1, <1>2 DEF CountInv, Write
<1> USE DEF CountInv, podVars, boundVars
<1>3. ASSUME NEW w \in Process, Start(w) PROVE CountInv'
  <2>1. \E swept \in SUBSET Billing :
          pods' = [p \in Pod |-> IF p \in swept THEN "gone" ELSE pods[p]]
    BY <1>3 DEF Start
  <2>2. pods' \in [Pod -> {"fresh", "billing", "gone"}]
    BY <1>1, <2>1
  <2>3. foreign' \in [Process -> BOOLEAN]
    BY <1>1, <1>3 DEF Start
  <2> QED
    BY <1>1, <1>3, <2>2, <2>3 DEF Start
<1>4. ASSUME NEW w \in Process, ReplaySettles(w) PROVE CountInv'
  BY <1>1, <1>2, <1>4 DEF ReplaySettles
<1>5. ASSUME NEW w \in Process, Crash(w) PROVE CountInv'
  BY <1>1, <1>5 DEF Crash
<1>6. ASSUME NEW w \in Process, CrashAppending(w) PROVE CountInv'
  <2>1. \E line : Write(w, line)
    BY <1>6 DEF CrashAppending
  <2> QED
    BY <1>1, <1>2, <1>6, <2>1 DEF CrashAppending
<1>7. ASSUME NEW w \in Owner, Holds(w) \/ RentsNothing(w) \/ Annotates(w) \/ Settles(w)
      PROVE  CountInv'
  <2>1. \E line : Write(w, line)
    BY <1>7 DEF Holds, RentsNothing, Annotates, Settles
  <2> QED
    BY <1>1, <1>2, <1>7, <2>1 DEF Holds, RentsNothing, Annotates, Settles
<1>8. ASSUME NEW w \in Owner, Ends(w) PROVE CountInv'
  BY <1>1, <1>8 DEF Ends
<1>9. ASSUME NEW w \in Owner, NEW p \in Pod, Rents(w, p) PROVE CountInv'
  BY <1>1, <1>9 DEF Rents
<1>10. CASE ReadsBill \/ Reconciles
  BY <1>1, <1>10 DEF ReadsBill, Reconciles
<1>11. ASSUME NEW line \in todo, Corrects(line) PROVE CountInv'
  BY <1>1, <1>2, <1>11 DEF Corrects
<1>12. CASE Tick \/ UNCHANGED vars
  BY <1>1, <1>12 DEF Tick, vars
<1> QED
  BY <1>3, <1>4, <1>5, <1>6, <1>7, <1>8, <1>9, <1>10, <1>11, <1>12 DEF Next

(* The types are inductive.                                                 *)
LEMMA LedgerNext == ASSUME LedgerInv, [Next]_vars PROVE LedgerInv'
<1>1. FileInv' /\ file' \in Seq(LineType) /\ todo' \in SUBSET LineType
  BY FileNext, TodoNext DEF FileInv
<1>2. TypeOK'
  BY <1>1, FileNext, TodoNext, ModeNext, CountNext
  DEF TypeOK, ModeInv, OwnerInv, AtMode, Modes, CountInv
<1> QED
  BY <1>1, <1>2, ModeNext DEF LedgerInv, ModeInv

(* It all holds of the empty ledger.                                        *)
LEMMA LedgerInit == Init => LedgerInv /\ SyncedInv /\ SoleWriterAgrees
<1> SUFFICES ASSUME Init PROVE LedgerInv /\ SyncedInv /\ SoleWriterAgrees
  OBVIOUS
<1>1. file = <<>> /\ todo = {} /\ Alive = {}
  BY DEF Init, Alive
<1>2. file \in Seq(Entry) /\ file \in Seq(LineType) /\ Len(file) = 0
  BY <1>1, EmptySeq
<1>3. FileInv /\ \A i \in 1..(Len(file) - 1) : file[i].ended
  BY <1>1, <1>2 DEF FileInv
<1>4. ModeInv /\ account \in [Process -> Account]
  BY BlankType, ProcessAssumption DEF Init, ModeInv, OwnerInv, AtMode, Modes, Process
<1>5. CountInv
  BY DEF Init, CountInv
<1>6. LedgerInv
  BY <1>1, <1>2, <1>3, <1>4, <1>5 DEF LedgerInv, TypeOK, ModeInv, OwnerInv, AtMode, Modes, CountInv
<1>7. OnDisk.works
  <2>1. ReadAll(file) = <<>> /\ Readable(file)
    BY <1>1, <1>2 DEF ReadAll, Readable
  <2> QED
    BY <2>1, ReplayedNothing, BlankType DEF OnDisk
<1> QED
  BY <1>1, <1>6, <1>7 DEF SyncedInv, SequentialReplays, SoleWriterAgrees, AgreesWithDisk

-----------------------------------------------------------------------------
(* The inductive invariant of the shared ledger, for every value of the     *)
(* constants.                                                               *)
THEOREM LedgerInductive == Spec => [](LedgerInv /\ SyncedInv /\ SoleWriterAgrees)
<1>1. LedgerInv /\ SyncedInv /\ SoleWriterAgrees /\ [Next]_vars
        => (LedgerInv /\ SyncedInv /\ SoleWriterAgrees)'
  BY LedgerNext, SyncedNext, AgreesNext
<1> QED
  BY <1>1, LedgerInit, PTL DEF Spec

(* Every line, account, hold and clock keeps its type in the file and in    *)
(* the memory of each process.                                              *)
THEOREM LedgerTypes == Spec => []TypeOK
<1>1. LedgerInv => TypeOK
  BY DEF LedgerInv
<1> QED
  BY <1>1, LedgerInductive, PTL

(* A process that nobody has written past holds in memory what the file     *)
(* says (BudgetTracker and replay), after any crashes and torn lines, as    *)
(* long as no returned append was glued to one.                             *)
THEOREM SoleWriterReplays == Spec => []SoleWriterAgrees
  BY LedgerInductive, PTL

(* Processes that never write beside one another leave a ledger that the    *)
(* next start replays without an error (read_all and replay), wherever they *)
(* crashed.                                                                 *)
THEOREM SequentialLedgerReplays == Spec => []SequentialReplays
<1>1. SyncedInv => SequentialReplays
  BY DEF SyncedInv
<1> QED
  BY <1>1, LedgerInductive, PTL

-----------------------------------------------------------------------------
(* What the findings count, by what they do with a line.                    *)
Unpublished == [total |-> 0, provisional |-> [l \in Label |-> None]]
PublishRounds(lines) ==
  CHOOSE g : g = [s \in SUBSET DOMAIN lines |->
    IF s = {} THEN Unpublished ELSE PublishedEntry(g[s \ {Max(s)}], lines[Max(s)])]

(* ledger_spent's loop over all lines.                                      *)
Published(lines) == PublishRounds(lines)[DOMAIN lines]

(* The published total is where the loop ends.                              *)
LEMMA PublishUnfolds == \A lines : LedgerSpent(lines) = Published(lines).total
  BY DEF LedgerSpent, FoldLeft, MapThenFoldSet, Published, PublishRounds, Unpublished

(* Its function follows the rounds.                                         *)
LEMMA PublishRecursion ==
  ASSUME NEW L, NEW lines \in Seq(L)
  PROVE  Follows("publish", Unpublished, lines, DOMAIN lines, PublishRounds(lines))
<1> DEFINE F == PublishRounds(lines)
           G(g) == [s \in SUBSET DOMAIN lines |->
                      IF s = {} THEN Unpublished
                      ELSE PublishedEntry(g[s \ {Max(s)}], lines[Max(s)])]
<1> DEFINE g == RoundsOf("publish", Unpublished, lines)
<1>1. g = [s \in SUBSET DOMAIN lines |-> FoldRound("publish", Unpublished, lines, g, s)]
  BY RoundsExist
<1> HIDE DEF g
<1>2. g = G(g)
  BY <1>1 DEF FoldRound, FoldStep
<1>3. F = G(F)
  <2>1. F = CHOOSE k : k = G(k)
    BY DEF PublishRounds
  <2> HIDE DEF F, G
  <2> QED
    BY <1>2, <2>1
<1> HIDE DEF F
<1>4. \A s \in SUBSET DOMAIN lines :
        F[s] = IF s = {} THEN Unpublished ELSE PublishedEntry(F[s \ {Max(s)}], lines[Max(s)])
  BY <1>3
<1>5. \A s \in SUBSET DOMAIN lines : F[s] = FoldRound("publish", Unpublished, lines, F, s)
  BY <1>4 DEF FoldRound, FoldStep
<1> QED
  BY <1>5 DEF F, Follows

(* Of an empty ledger nothing is published.                                 *)
LEMMA PublishedNothing == Published(<<>>) = Unpublished
<1>1. <<>> \in Seq(Int) /\ DOMAIN <<>> = {}
  OBVIOUS
<1>2. PublishRounds(<<>>)[{}] = FoldRound("publish", Unpublished, <<>>, PublishRounds(<<>>), {})
  BY <1>1, PublishRecursion DEF Follows
<1> QED
  BY <1>1, <1>2 DEF FoldRound, Published

(* So the loop ends with the round of the last line.                          *)
LEMMA PublishedMore ==
  ASSUME NEW L, NEW lines \in Seq(L), NEW e \in L
  PROVE  Published(Append(lines, e)) = PublishedEntry(Published(lines), e)
<1> DEFINE more == Append(lines, e)
<1>1. more \in Seq(L)
  BY AppendProperties
<1>2. /\ Follows("publish", Unpublished, lines, DOMAIN lines, PublishRounds(lines))
      /\ Follows("publish", Unpublished, more, DOMAIN more, PublishRounds(more))
  BY <1>1, PublishRecursion
<1>3. /\ Len(more) = Len(lines) + 1 /\ more[Len(more)] = e
      /\ \A i \in DOMAIN lines : more[i] = lines[i]
  BY AppendProperties
<1> HIDE DEF more
<1>4. PublishRounds(more)[DOMAIN more]
        = FoldStep("publish", PublishRounds(lines)[DOMAIN lines], more[Len(more)])
  BY <1>1, <1>2, <1>3, RoundsMore
<1> QED
  BY <1>3, <1>4 DEF FoldStep, Published, more

-----------------------------------------------------------------------------
(* What closes a hold, and the entries that closed a label's last hold.     *)
Closes(e) == e.op \in {"settle", "release"}

HeldAfter(lines, i) ==
  \E k \in DOMAIN lines : k > i /\ lines[k].op = "hold" /\ lines[k].label = lines[i].label

Closings(lines, l) ==
  {i \in DOMAIN lines : lines[i].label = l /\ Closes(lines[i]) /\ ~HeldAfter(lines, i)}

(* A hold is closed by its owner at most once.                              *)
Orderly(lines) ==
  \A i, j \in DOMAIN lines :
    /\ i < j /\ lines[i].label = lines[j].label
    /\ Closes(lines[i]) /\ Closes(lines[j]) /\ ~lines[i].replayed /\ ~lines[j].replayed
    => Since(lines, i, j) # {}

(* A ledger that EachHoldChargedOnce speaks of.                             *)
Good(lines) == ~Replayed(lines).failed /\ Orderly(lines) /\ ~LateReplay(lines)

(* The positions of a longer ledger.                                        *)
Longer(lines, e, more, n) ==
  /\ n \in Nat /\ DOMAIN lines = 1..n /\ DOMAIN more = 1..n \cup {n + 1} /\ Len(more) = n + 1
  /\ more[n + 1] = e /\ \A i \in 1..n : more[i] = lines[i]

(* A ledger with one more line is longer by it.                             *)
LEMMA OneLonger ==
  ASSUME NEW lines \in Seq(Entry), NEW e \in Entry
  PROVE  /\ Longer(lines, e, Append(lines, e), Len(lines)) /\ Append(lines, e) \in Seq(Entry)
         /\ \A i \in DOMAIN lines : lines[i] \in Entry
<1>1. /\ Append(lines, e) \in Seq(Entry) /\ Len(Append(lines, e)) = Len(lines) + 1
      /\ Append(lines, e)[Len(lines) + 1] = e
      /\ \A i \in 1..Len(lines) : Append(lines, e)[i] = lines[i]
  BY AppendProperties
<1>2. Len(lines) \in Nat /\ DOMAIN lines = 1..Len(lines)
  OBVIOUS
<1>3. DOMAIN Append(lines, e) = 1..(Len(lines) + 1)
  BY <1>1
<1>4. 1..(Len(lines) + 1) = 1..Len(lines) \cup {Len(lines) + 1}
  BY <1>2
<1> QED
  BY <1>1, <1>2, <1>3, <1>4 DEF Longer

(* Holds after a position, in a longer ledger.                              *)
LEMMA HeldAfterMore ==
  ASSUME NEW lines, NEW e, NEW more, NEW n, Longer(lines, e, more, n)
  PROVE  /\ ~HeldAfter(more, n + 1)
         /\ \A i \in 1..n : HeldAfter(more, i) <=>
              HeldAfter(lines, i) \/ (e.op = "hold" /\ e.label = lines[i].label)
<1>1. ~HeldAfter(more, n + 1)
  BY DEF Longer, HeldAfter
<1>2. ASSUME NEW i \in 1..n
      PROVE  HeldAfter(more, i) <=>
               HeldAfter(lines, i) \/ (e.op = "hold" /\ e.label = lines[i].label)
  <2>1. ASSUME HeldAfter(more, i)
        PROVE  HeldAfter(lines, i) \/ (e.op = "hold" /\ e.label = lines[i].label)
    BY <2>1 DEF Longer, HeldAfter
  <2>2. ASSUME HeldAfter(lines, i) PROVE HeldAfter(more, i)
    BY <2>2 DEF Longer, HeldAfter
  <2>3. ASSUME e.op = "hold", e.label = lines[i].label PROVE HeldAfter(more, i)
    <3>1. n + 1 \in DOMAIN more /\ n + 1 > i /\ more[n + 1] = e /\ more[i] = lines[i]
      BY DEF Longer
    <3> QED
      BY <2>3, <3>1 DEF HeldAfter
  <2> QED
    BY <2>1, <2>2, <2>3
<1> QED
  BY <1>1, <1>2

(* The closings of a label, in a longer ledger: a hold ends them, a closing *)
(* entry is one more.                                                       *)
LEMMA ClosingsMore ==
  ASSUME NEW lines, NEW e, NEW more, NEW n, Longer(lines, e, more, n), NEW l
  PROVE  Closings(more, l) =
           IF e.label # l \/ e.op \notin {"hold", "settle", "release"} THEN Closings(lines, l)
           ELSE IF e.op = "hold" THEN {} ELSE Closings(lines, l) \cup {n + 1}
<1>1. /\ ~HeldAfter(more, n + 1)
      /\ \A i \in 1..n : HeldAfter(more, i) <=>
           HeldAfter(lines, i) \/ (e.op = "hold" /\ e.label = lines[i].label)
  BY HeldAfterMore
<1>2. /\ DOMAIN lines = 1..n /\ DOMAIN more = 1..n \cup {n + 1} /\ n + 1 \notin 1..n
      /\ more[n + 1] = e /\ \A i \in 1..n : more[i] = lines[i]
  BY DEF Longer
<1>3. n + 1 \in Closings(more, l) <=> e.label = l /\ Closes(e)
  BY <1>1, <1>2 DEF Closings
<1>4. ASSUME NEW i \in 1..n
      PROVE  i \in Closings(more, l) <=>
               i \in Closings(lines, l) /\ ~(e.op = "hold" /\ e.label = l)
  BY <1>1, <1>2 DEF Closings
<1>5. Closings(more, l) \subseteq 1..n \cup {n + 1} /\ Closings(lines, l) \subseteq 1..n
  BY <1>2 DEF Closings
<1> DEFINE A == Closings(more, l)
           B == Closings(lines, l)
<1>6. /\ \A i \in 1..n : i \in A <=> i \in B /\ ~(e.op = "hold" /\ e.label = l)
      /\ n + 1 \in A <=> e.label = l /\ Closes(e)
      /\ A \subseteq 1..n \cup {n + 1} /\ B \subseteq 1..n
  BY <1>3, <1>4, <1>5
<1> HIDE DEF A, B
<1>7. CASE e.label # l \/ e.op \notin {"hold", "settle", "release"}
  <2>1. A = B
    BY <1>2, <1>6, <1>7 DEF Closes
  <2> QED
    BY <1>7, <2>1 DEF A, B
<1>8. CASE e.label = l /\ e.op = "hold"
  <2>1. A = {}
    BY <1>6, <1>8 DEF Closes
  <2> QED
    BY <1>8, <2>1 DEF A
<1>9. CASE e.label = l /\ e.op \in {"settle", "release"}
  <2>1. A = B \cup {n + 1}
    BY <1>6, <1>9 DEF Closes
  <2> QED
    BY <1>9, <2>1 DEF A, B
<1> QED
  BY <1>7, <1>8, <1>9

(* The holds between two positions, in a longer ledger.                     *)
LEMMA SinceMore ==
  ASSUME NEW lines, NEW e, NEW more, NEW n, Longer(lines, e, more, n), NEW i \in 1..n
  PROVE  /\ Since(more, i, n + 1) = {} <=> ~HeldAfter(lines, i)
         /\ \A j \in 1..n : Since(more, i, j) = Since(lines, i, j)
<1>1. /\ n \in Nat /\ DOMAIN lines = 1..n /\ \A k \in 1..n : more[k] = lines[k]
      /\ (n + 1) - 1 = n
  BY DEF Longer
<1>2. ASSUME NEW j \in 1..n PROVE Since(more, i, j) = Since(lines, i, j)
  <2>1. \A k \in (i + 1)..(j - 1) : k \in 1..n
    BY <1>1
  <2> QED
    BY <1>1, <2>1 DEF Since
<1>3. \A k \in 1..n : k > i <=> k \in (i + 1)..((n + 1) - 1)
  BY <1>1
<1>4. \A k \in (i + 1)..((n + 1) - 1) : k \in 1..n
  BY <1>1
<1>5. Since(more, i, n + 1) = {} <=> ~HeldAfter(lines, i)
  BY <1>1, <1>3, <1>4 DEF Since, HeldAfter
<1> QED
  BY <1>2, <1>5

(* The settles after a position, in a longer ledger.                        *)
LEMMA SettledAgainMore ==
  ASSUME NEW lines, NEW e, NEW more, NEW n, Longer(lines, e, more, n), Len(lines) = n
  PROVE  /\ SettledAgainAt(more, n + 1) = {}
         /\ \A i \in 1..n : SettledAgainAt(more, i) = {} <=>
              /\ SettledAgainAt(lines, i) = {}
              /\ ~(e.op = "settle" /\ e.label = lines[i].label /\ ~HeldAfter(lines, i))
<1>1. /\ n \in Nat /\ Len(more) = n + 1 /\ more[n + 1] = e
      /\ \A k \in 1..n : more[k] = lines[k]
  BY DEF Longer
<1>2. SettledAgainAt(more, n + 1) = {}
  BY <1>1 DEF SettledAgainAt
<1>3. ASSUME NEW i \in 1..n
      PROVE  SettledAgainAt(more, i) = {} <=>
               /\ SettledAgainAt(lines, i) = {}
               /\ ~(e.op = "settle" /\ e.label = lines[i].label /\ ~HeldAfter(lines, i))
  <2>1. /\ Since(more, i, n + 1) = {} <=> ~HeldAfter(lines, i)
        /\ \A j \in 1..n : Since(more, i, j) = Since(lines, i, j)
    BY SinceMore
  <2>2. n + 1 \in SettledAgainAt(more, i) <=>
          e.op = "settle" /\ e.label = lines[i].label /\ ~HeldAfter(lines, i)
    <3>1. n + 1 \in (i + 1)..Len(more)
      BY <1>1
    <3> QED
      BY <1>1, <2>1, <3>1 DEF SettledAgainAt
  <2>3. ASSUME NEW j \in 1..n PROVE j \in SettledAgainAt(more, i) <=> j \in SettledAgainAt(lines, i)
    <3>1. j \in (i + 1)..Len(more) <=> j \in (i + 1)..Len(lines)
      BY <1>1
    <3> QED
      BY <1>1, <2>1, <3>1 DEF SettledAgainAt
  <2>4. /\ \A j \in SettledAgainAt(more, i) : j \in 1..n \/ j = n + 1
        /\ \A j \in SettledAgainAt(lines, i) : j \in 1..n
    <3>1. \A j \in (i + 1)..Len(more) : j \in 1..n \/ j = n + 1
      BY <1>1
    <3>2. \A j \in (i + 1)..Len(lines) : j \in 1..n
      BY <1>1
    <3> QED
      BY <3>1, <3>2 DEF SettledAgainAt
  <2> QED
    BY <2>2, <2>3, <2>4
<1> QED
  BY <1>2, <1>3

-----------------------------------------------------------------------------
(* A good ledger was good before its last line, which found the hold        *)
(* unclosed or, when it is the owner's, closed by a replay at most.         *)
LEMMA GoodBefore ==
  ASSUME NEW lines \in Seq(Entry), NEW e \in Entry, Good(Append(lines, e))
  PROVE  /\ Good(lines)
         /\ e.replayed => Closings(lines, e.label) = {}
         /\ Closes(e) /\ ~e.replayed => \A i \in Closings(lines, e.label) : lines[i].replayed
<1> DEFINE more == Append(lines, e)
           n == Len(lines)
<1>1. Longer(lines, e, more, n)
  BY OneLonger
<1>2. /\ n \in Nat /\ DOMAIN lines = 1..n /\ DOMAIN more = 1..n \cup {n + 1}
      /\ more[n + 1] = e /\ \A i \in 1..n : more[i] = lines[i]
  BY <1>1 DEF Longer
<1>3. ~Replayed(lines).failed
  BY ReadableReplays DEF Good
<1> HIDE DEF more, n
<1>4. \A i \in 1..n : /\ Since(more, i, n + 1) = {} <=> ~HeldAfter(lines, i)
                      /\ \A j \in 1..n : Since(more, i, j) = Since(lines, i, j)
  BY <1>1, SinceMore
<1>5. Orderly(more) /\ ~LateReplay(more)
  BY DEF Good, more
<1>6. Orderly(lines) /\ ~LateReplay(lines)
  BY <1>2, <1>4, <1>5 DEF Orderly, LateReplay
<1>7. ASSUME e.replayed PROVE Closings(lines, e.label) = {}
  <2> SUFFICES ASSUME NEW i \in Closings(lines, e.label) PROVE FALSE
    OBVIOUS
  <2>1. /\ i \in 1..n /\ lines[i].label = e.label /\ lines[i].op \in {"settle", "release"}
        /\ ~HeldAfter(lines, i)
    BY <1>2 DEF Closings, Closes
  <2>2. i < n + 1 /\ more[i] = lines[i] /\ Since(more, i, n + 1) = {}
    BY <1>2, <1>4, <2>1
  <2> QED
    BY <1>2, <1>5, <1>7, <2>1, <2>2 DEF LateReplay
<1>8. ASSUME Closes(e), ~e.replayed, NEW i \in Closings(lines, e.label) PROVE lines[i].replayed
  <2>1. /\ i \in 1..n /\ lines[i].label = e.label /\ Closes(lines[i]) /\ ~HeldAfter(lines, i)
    BY <1>2 DEF Closings
  <2>2. i < n + 1 /\ more[i] = lines[i] /\ Since(more, i, n + 1) = {}
    BY <1>2, <1>4, <2>1
  <2> QED
    BY <1>2, <1>5, <1>8, <2>1, <2>2 DEF Orderly
<1> QED
  BY <1>3, <1>6, <1>7, <1>8 DEF Good

(* No two closings of a hold are both a replay's.                           *)
LEMMA OneReplay ==
  ASSUME NEW lines \in Seq(Entry), ~LateReplay(lines), NEW l,
         \A i \in Closings(lines, l) : lines[i].replayed, NEW i \in Closings(lines, l)
  PROVE  Closings(lines, l) = {i}
<1>1. \A j \in Closings(lines, l) :
        /\ j \in DOMAIN lines /\ j \in Nat /\ lines[j].label = l
        /\ lines[j].op \in {"settle", "release"} /\ ~HeldAfter(lines, j) /\ lines[j].replayed
  BY DEF Closings, Closes
<1>2. ASSUME NEW j \in Closings(lines, l), NEW k \in Closings(lines, l), j < k PROVE FALSE
  <2>1. Since(lines, j, k) = {}
    <3>1. \A m \in (j + 1)..(k - 1) : m \in DOMAIN lines /\ m > j
      BY <1>1
    <3> QED
      BY <1>1, <3>1 DEF Since, HeldAfter
  <2> QED
    BY <1>1, <1>2, <2>1 DEF LateReplay
<1>3. ASSUME NEW j \in Closings(lines, l) PROVE j = i
  BY <1>1, <1>2
<1> QED
  BY <1>3

-----------------------------------------------------------------------------
(* LastSettles as a sum over the lines.                                     *)
Counts(lines) ==
  [i \in DOMAIN lines |->
    IF \/ lines[i].op \in {"spend", "correct"}
       \/ lines[i].op = "settle" /\ SettledAgainAt(lines, i) = {}
    THEN lines[i].amount ELSE 0]

(* Of which each term is an amount.                                         *)
LEMMA CountsType ==
  ASSUME NEW lines \in Seq(Entry)
  PROVE  /\ Counts(lines) \in [DOMAIN lines -> Int] /\ IsFiniteSet(DOMAIN lines)
         /\ LastSettles(lines) = SumFunction(Counts(lines)) /\ LastSettles(lines) \in Int
<1>1. /\ DOMAIN lines = 1..Len(lines) /\ Len(lines) \in Nat
      /\ \A i \in DOMAIN lines : lines[i] \in Entry
  OBVIOUS
<1>2. IsFiniteSet(DOMAIN lines)
  BY <1>1, FS_Interval
<1>3. Counts(lines) \in [DOMAIN lines -> Int]
  BY <1>1 DEF Counts, Entry, LineType
<1>4. LastSettles(lines) = SumFunction(Counts(lines))
  BY DEF LastSettles, Counts
<1> QED
  BY <1>2, <1>3, <1>4, SumType

(* A line that takes no earlier term away adds its own.                     *)
LEMMA LineAdds ==
  ASSUME NEW lines \in Seq(Entry), NEW e \in Entry,
         e.op = "settle" => Closings(lines, e.label) = {}
  PROVE  LastSettles(Append(lines, e)) =
           LastSettles(lines) + (IF e.op \in {"settle", "spend", "correct"} THEN e.amount ELSE 0)
<1> DEFINE more == Append(lines, e)
           n == Len(lines)
<1>1. Longer(lines, e, more, n) /\ more \in Seq(Entry)
  BY OneLonger
<1>2. /\ n \in Nat /\ DOMAIN lines = 1..n /\ DOMAIN more = 1..n \cup {n + 1} /\ n + 1 \notin 1..n
      /\ more[n + 1] = e /\ \A i \in 1..n : more[i] = lines[i]
  BY <1>1 DEF Longer
<1>3. /\ SettledAgainAt(more, n + 1) = {}
      /\ \A i \in 1..n : SettledAgainAt(more, i) = {} <=>
           /\ SettledAgainAt(lines, i) = {}
           /\ ~(e.op = "settle" /\ e.label = lines[i].label /\ ~HeldAfter(lines, i))
  BY <1>1, SettledAgainMore
<1>4. /\ Counts(lines) \in [1..n -> Int] /\ IsFiniteSet(1..n)
      /\ LastSettles(lines) = SumFunction(Counts(lines))
      /\ Counts(more) \in [1..n \cup {n + 1} -> Int]
      /\ LastSettles(more) = SumFunction(Counts(more))
  BY <1>1, <1>2, CountsType
<1> HIDE DEF more, n
<1>5. ASSUME NEW i \in 1..n PROVE Counts(more)[i] = Counts(lines)[i]
  <2>1. lines[i].op = "settle" =>
          (SettledAgainAt(more, i) = {} <=> SettledAgainAt(lines, i) = {})
    BY <1>2, <1>3 DEF Closings, Closes
  <2> QED
    BY <1>2, <2>1 DEF Counts
<1>6. Counts(more)[n + 1] = IF e.op \in {"settle", "spend", "correct"} THEN e.amount ELSE 0
  BY <1>2, <1>3 DEF Counts
<1>7. SumFunction(Counts(more)) = SumFunction(Counts(lines)) + Counts(more)[n + 1]
  <2> DEFINE f == Counts(more)
             g == Counts(lines)
             S == 1..n
             x == n + 1
  <2>1. /\ f \in [S \cup {x} -> Int] /\ g \in [S -> Int] /\ IsFiniteSet(S) /\ x \notin S
        /\ \A i \in S : f[i] = g[i]
    BY <1>2, <1>4, <1>5
  <2> HIDE DEF f, g, S, x
  <2>2. SumFunction(f) = SumFunction(g) + f[x]
    BY <2>1, SumGrows
  <2> QED
    BY <2>2 DEF f, g, x
<1> QED
  BY <1>4, <1>6, <1>7 DEF more

(* The owner's settle takes the term of the replay's settle before it.      *)
LEMMA LineReplaces ==
  ASSUME NEW lines \in Seq(Entry), NEW e \in Entry, e.op = "settle",
         NEW k \in DOMAIN lines, Closings(lines, e.label) = {k}, lines[k].op = "settle"
  PROVE  LastSettles(Append(lines, e)) = LastSettles(lines) - lines[k].amount + e.amount
<1> DEFINE more == Append(lines, e)
           n == Len(lines)
<1>1. Longer(lines, e, more, n) /\ more \in Seq(Entry)
  BY OneLonger
<1>2. /\ n \in Nat /\ DOMAIN lines = 1..n /\ DOMAIN more = 1..n \cup {n + 1} /\ n + 1 \notin 1..n
      /\ more[n + 1] = e /\ \A i \in 1..n : more[i] = lines[i]
  BY <1>1 DEF Longer
<1>3. /\ SettledAgainAt(more, n + 1) = {}
      /\ \A i \in 1..n : SettledAgainAt(more, i) = {} <=>
           /\ SettledAgainAt(lines, i) = {}
           /\ ~(e.op = "settle" /\ e.label = lines[i].label /\ ~HeldAfter(lines, i))
  BY <1>1, SettledAgainMore
<1>4. /\ Counts(lines) \in [1..n -> Int] /\ IsFiniteSet(1..n)
      /\ LastSettles(lines) = SumFunction(Counts(lines))
      /\ Counts(more) \in [1..n \cup {n + 1} -> Int]
      /\ LastSettles(more) = SumFunction(Counts(more))
      /\ LastSettles(lines) \in Int
  BY <1>1, <1>2, CountsType
<1>5. k \in 1..n /\ lines[k].label = e.label /\ ~HeldAfter(lines, k)
  BY <1>2 DEF Closings
<1>6. SettledAgainAt(lines, k) = {}
  <2> SUFFICES ASSUME NEW j \in SettledAgainAt(lines, k) PROVE FALSE
    OBVIOUS
  <2>1. /\ j \in 1..n /\ j > k /\ lines[j].op = "settle" /\ lines[j].label = lines[k].label
    BY <1>2, <1>5 DEF SettledAgainAt
  <2>2. ~HeldAfter(lines, j)
    BY <1>2, <1>5, <2>1 DEF HeldAfter
  <2>3. j \in Closings(lines, e.label)
    BY <1>2, <1>5, <2>1, <2>2 DEF Closings, Closes
  <2> QED
    BY <2>1, <2>3
<1>7. Counts(lines)[k] = lines[k].amount /\ e.amount \in Int /\ lines[k].amount \in Int
  BY <1>2, <1>4, <1>5, <1>6 DEF Counts, Entry, LineType
<1> HIDE DEF more, n
<1>8. Counts(more)[k] = 0
  <2>1. SettledAgainAt(more, k) # {}
    BY <1>3, <1>5
  <2> QED
    BY <1>2, <1>5, <2>1 DEF Counts
<1>9. ASSUME NEW i \in (1..n) \ {k} PROVE Counts(more)[i] = Counts(lines)[i]
  <2>1. lines[i].op = "settle" =>
          (SettledAgainAt(more, i) = {} <=> SettledAgainAt(lines, i) = {})
    BY <1>2, <1>3 DEF Closings, Closes
  <2> QED
    BY <1>2, <2>1 DEF Counts
<1>10. Counts(more)[n + 1] = e.amount
  BY <1>2, <1>3 DEF Counts
<1>11. SumFunction(Counts(more)) =
         SumFunction(Counts(lines)) - Counts(lines)[k] + Counts(more)[n + 1]
  <2> DEFINE f == Counts(more)
             g == Counts(lines)
             S == 1..n
             x == n + 1
  <2>1. Replaces(f, g, S, x, k)
    BY <1>2, <1>4, <1>5, <1>8, <1>9 DEF Replaces
  <2> HIDE DEF f, g, S, x
  <2>2. SumFunction(f) = SumFunction(g) - g[k] + f[x]
    BY <2>1, SumReplaces
  <2> QED
    BY <2>2 DEF f, g, x
<1> QED
  BY <1>4, <1>7, <1>10, <1>11 DEF more

-----------------------------------------------------------------------------
(* What a round does to what is known of the entry's label, by its kind.    *)
Unchanged(r, q, m) ==
  q.a.holds[m].open = r.a.holds[m].open /\ q.provisional[m] = r.provisional[m]

Round(r, e, q) ==
  LET l == e.label
  IN /\ e.op \in {"annotate", "spend", "correct"} => \A m \in Label : Unchanged(r, q, m)
     /\ \A m \in Label \ {l} : Unchanged(r, q, m)
     /\ e.op \in {"hold", "annotate", "release"} => q.a.spent = r.a.spent
     /\ e.op \in {"spend", "correct"} => q.a.spent = r.a.spent + e.amount
     /\ e.op = "hold" => q.a.holds[l].open
     /\ e.op \in {"settle", "release"} => ~q.a.holds[l].open
     /\ e.op = "release" => r.a.holds[l].open
     /\ e.op = "settle" =>
          IF r.a.holds[l].open
          THEN q.a.spent = r.a.spent + e.amount /\ (e.replayed => q.provisional[l] = e.amount)
          ELSE r.provisional[l] # None /\ q.a.spent = r.a.spent + (e.amount - r.provisional[l])

(* An entry that replay does not refuse is applied so.                      *)
LEMMA ReplayRound ==
  ASSUME NEW r \in ReplayState, NEW e \in Entry, ~ReplayedEntry(r, e).failed
  PROVE  Round(r, e, ReplayedEntry(r, e)) /\ e.op # "broken"
<1> DEFINE l == e.label
           q == ReplayedEntry(r, e)
<1>1. /\ r.a \in Account /\ r.provisional \in [Label -> Int \cup {None}]
      /\ e.op \in {"hold", "annotate", "settle", "release"} => l \in Label
      /\ e.op \in {"hold", "annotate", "settle", "release", "spend", "correct", "broken"}
  BY DEF ReplayState, Entry, LineType
<1>2. r = [a |-> r.a, provisional |-> r.provisional, failed |-> r.failed]
  BY DEF ReplayState
<1>3. /\ r.a.holds \in [Label -> [open : BOOLEAN, estimate : Nat, pod : Pod \cup {NoPod}]]
      /\ r.a = [spent |-> r.a.spent, holds |-> r.a.holds]
  BY <1>1 DEF Account
<1>4. CASE e.op = "hold"
  <2>1. q = [r EXCEPT !.a = Holding(@, l, e.amount)]
    BY <1>4 DEF ReplayedEntry
  <2> HIDE DEF q
  <2> QED
    BY <1>1, <1>2, <1>3, <1>4, <2>1 DEF Round, Unchanged, Holding, SetHold, HeldAt, q
<1>5. CASE e.op = "annotate"
  <2>1. q = [r EXCEPT !.a = Naming(@, l, e.pod)] /\ r.a.holds[l].open
    BY <1>1, <1>2, <1>5 DEF ReplayedEntry
  <2> DEFINE hold == HeldAt(r.a.holds[l].estimate, e.pod)
  <2>2. /\ q.a.holds = [r.a.holds EXCEPT ![l] = hold] /\ q.a.spent = r.a.spent
        /\ q.provisional = r.provisional
    BY <1>2, <1>3, <2>1 DEF Naming, SetHold
  <2>3. hold.open = TRUE
    BY DEF HeldAt
  <2> HIDE DEF q, hold
  <2>a. r.a.holds[l].open = TRUE
    BY <1>1, <1>3, <1>5, <2>1
  <2>4. \A m \in Label : q.a.holds[m].open = r.a.holds[m].open
    BY <1>3, <2>2, <2>3, <2>a
  <2>5. \A m \in Label : Unchanged(r, q, m)
    BY <2>2, <2>4 DEF Unchanged
  <2> QED
    BY <1>5, <2>2, <2>5 DEF Round, q
<1>6. CASE e.op = "settle" /\ r.a.holds[l].open
  <2>1. q = [r EXCEPT !.a = Settling(@, l, e.amount),
                      !.provisional[l] = IF e.replayed THEN e.amount ELSE @]
    BY <1>1, <1>6 DEF ReplayedEntry
  <2> DEFINE kept == IF e.replayed THEN e.amount ELSE r.provisional[l]
  <2>2. /\ q.a.holds = [r.a.holds EXCEPT ![l] = NoHold] /\ q.a.spent = r.a.spent + e.amount
        /\ q.provisional = [r.provisional EXCEPT ![l] = kept]
    <3>1. q.a = Settling(r.a, l, e.amount) /\ q.provisional = [r.provisional EXCEPT ![l] = kept]
      BY <1>2, <2>1
    <3>2. Settling(r.a, l, e.amount)
            = [spent |-> r.a.spent + e.amount, holds |-> [r.a.holds EXCEPT ![l] = NoHold]]
      <4> DEFINE b == SetHold(r.a, l, NoHold)
      <4>1. b = [spent |-> r.a.spent, holds |-> [r.a.holds EXCEPT ![l] = NoHold]]
        BY <1>3 DEF SetHold
      <4> HIDE DEF b
      <4>2. Charge(b, e.amount)
              = [spent |-> r.a.spent + e.amount, holds |-> [r.a.holds EXCEPT ![l] = NoHold]]
        BY <4>1 DEF Charge
      <4> QED
        BY <4>2 DEF b, Settling
    <3> QED
      BY <3>1, <3>2
  <2>3. NoHold.open = FALSE
    BY DEF NoHold
  <2> HIDE DEF q
  <2>4. ~q.a.holds[l].open /\ (e.replayed => q.provisional[l] = e.amount)
    BY <1>1, <1>3, <1>6, <2>2, <2>3
  <2>5. \A m \in Label \ {l} : Unchanged(r, q, m)
    BY <1>1, <1>3, <2>2 DEF Unchanged
  <2> QED
    BY <1>6, <2>2, <2>4, <2>5 DEF Round, q
<1>7. CASE e.op = "settle" /\ ~r.a.holds[l].open
  <2>1. /\ q = [r EXCEPT !.a = Charge(@, e.amount - r.provisional[l]), !.provisional[l] = None]
        /\ r.provisional[l] # None
    BY <1>1, <1>2, <1>7 DEF ReplayedEntry
  <2> HIDE DEF q
  <2> QED
    BY <1>1, <1>2, <1>3, <1>7, <2>1 DEF Round, Unchanged, Charge, q
<1>8. CASE e.op = "release"
  <2>1. q = [r EXCEPT !.a = Releasing(@, l)] /\ r.a.holds[l].open
    BY <1>1, <1>2, <1>8 DEF ReplayedEntry
  <2> HIDE DEF q
  <2> QED
    BY <1>1, <1>2, <1>3, <1>8, <2>1 DEF Round, Unchanged, Releasing, SetHold, NoHold, q
<1>9. CASE e.op \in {"spend", "correct"}
  <2>1. q = [r EXCEPT !.a = Charge(@, e.amount)]
    BY <1>9 DEF ReplayedEntry
  <2> HIDE DEF q
  <2> QED
    BY <1>1, <1>2, <1>3, <1>9, <2>1 DEF Round, Unchanged, Charge, q
<1>10. CASE e.op = "broken"
  BY <1>2, <1>10 DEF ReplayedEntry
<1> QED
  BY <1>1, <1>4, <1>5, <1>6, <1>7, <1>8, <1>9, <1>10

(* The same for the findings' loop.                                         *)
PublishState == [total : Int, provisional : [Label -> Int \cup {None}]]

Tally(t, e, u) ==
  LET l == e.label
  IN /\ \A m \in Label : m # l \/ e.op \notin {"hold", "settle"} =>
          u.provisional[m] = t.provisional[m]
     /\ e.op \in {"hold", "annotate", "release"} => u.total = t.total
     /\ e.op \in {"spend", "correct"} => u.total = t.total + e.amount
     /\ e.op = "hold" => u.provisional[l] = None
     /\ e.op = "settle" =>
          /\ u.provisional[l] = IF e.replayed THEN e.amount ELSE None
          /\ u.total = t.total + e.amount -
               (IF e.replayed \/ t.provisional[l] = None THEN 0 ELSE t.provisional[l])

(* What an entry does to the published total and its provisional settles.   *)
LEMMA PublishRound ==
  ASSUME NEW t \in PublishState, NEW e \in Entry
  PROVE  Tally(t, e, PublishedEntry(t, e)) /\ PublishedEntry(t, e) \in PublishState
<1> DEFINE l == e.label
           u == PublishedEntry(t, e)
<1>1. /\ t.total \in Int /\ t.provisional \in [Label -> Int \cup {None}] /\ e.amount \in Int
      /\ t = [total |-> t.total, provisional |-> t.provisional] /\ None \notin Int
      /\ e.op \in {"hold", "annotate", "settle", "release"} => l \in Label
      /\ e.op \in {"hold", "annotate", "settle", "release", "spend", "correct", "broken"}
  BY AmountAssumption DEF PublishState, Entry, LineType
<1>2. CASE e.op = "hold"
  <2>1. u = [t EXCEPT !.total = @ + 0, !.provisional[l] = None]
    BY <1>2 DEF PublishedEntry
  <2> HIDE DEF u
  <2>2. u = [total |-> t.total + 0, provisional |-> [t.provisional EXCEPT ![l] = None]]
    BY <1>1, <2>1
  <2>3. u = [total |-> t.total, provisional |-> [t.provisional EXCEPT ![l] = None]]
    <3>1. t.total + 0 = t.total
      BY <1>1
    <3> QED
      BY <2>2, <3>1
  <2>4. u \in PublishState /\ u.provisional[l] = None /\ u.total = t.total
    BY <1>1, <1>2, <2>3 DEF PublishState
  <2>5. \A m \in Label : m # l => u.provisional[m] = t.provisional[m]
    BY <1>1, <2>3
  <2> QED
    BY <1>1, <1>2, <2>4, <2>5 DEF Tally, u
<1>3. CASE e.op = "settle" /\ e.replayed
  <2>1. u = [t EXCEPT !.total = @ + e.amount, !.provisional[l] = e.amount]
    BY <1>3 DEF PublishedEntry
  <2> HIDE DEF u
  <2>3. u = [total |-> t.total + e.amount, provisional |-> [t.provisional EXCEPT ![l] = e.amount]]
    BY <1>1, <2>1
  <2>4. u \in PublishState /\ u.provisional[l] = e.amount /\ u.total = t.total + e.amount
    BY <1>1, <1>3, <2>3 DEF PublishState
  <2>5. \A m \in Label : m # l => u.provisional[m] = t.provisional[m]
    BY <1>1, <2>3
  <2> QED
    BY <1>1, <1>3, <2>4, <2>5 DEF Tally, u
<1>4. CASE e.op = "settle" /\ ~e.replayed /\ t.provisional[l] # None
  <2>1. u = [t EXCEPT !.total = @ + (e.amount - t.provisional[l]), !.provisional[l] = None]
    BY <1>4 DEF PublishedEntry
  <2>2. t.provisional[l] \in Int
    BY <1>1, <1>4
  <2> HIDE DEF u
  <2>3. u = [total |-> t.total + (e.amount - t.provisional[l]),
             provisional |-> [t.provisional EXCEPT ![l] = None]]
    BY <1>1, <2>2, <2>1
  <2>4. /\ u \in PublishState /\ u.provisional[l] = None
        /\ u.total = t.total + (e.amount - t.provisional[l])
    BY <1>1, <1>4, <2>2, <2>3 DEF PublishState
  <2>5. \A m \in Label : m # l => u.provisional[m] = t.provisional[m]
    BY <1>1, <2>3
  <2> QED
    BY <1>1, <1>4, <2>2, <2>4, <2>5 DEF Tally, u
<1>5. CASE e.op = "settle" /\ ~e.replayed /\ t.provisional[l] = None
  <2>1. u = [t EXCEPT !.total = @ + e.amount]
    BY <1>5 DEF PublishedEntry
  <2> HIDE DEF u
  <2> QED
    BY <1>1, <1>5, <2>1 DEF Tally, PublishState, u
<1>6. CASE e.op \in {"spend", "correct"}
  <2>1. u = [t EXCEPT !.total = @ + e.amount]
    BY <1>6 DEF PublishedEntry
  <2> HIDE DEF u
  <2> QED
    BY <1>1, <1>6, <2>1 DEF Tally, PublishState, u
<1>7. CASE e.op \in {"annotate", "release", "broken"}
  <2>1. u = t
    BY <1>7 DEF PublishedEntry
  <2> HIDE DEF u
  <2> QED
    BY <1>1, <1>7, <2>1 DEF Tally, PublishState, u
<1> QED
  BY <1>1, <1>2, <1>3, <1>4, <1>5, <1>6, <1>7

-----------------------------------------------------------------------------
(* What replay and the findings know of a label whose closings are C: an    *)
(* open hold has none; of a hold closed by a replay only both keep what the  *)
(* replay charged; without a closing, or after another one, neither has      *)
(* anything to take back.                                                    *)
Status(lines, C, r, t, l) ==
  /\ r.a.holds[l].open => C = {}
  /\ ~r.a.holds[l].open /\ C = {} => r.provisional[l] = None
  /\ \A i \in C : C = {i} /\ lines[i].replayed =>
       r.provisional[l] = lines[i].amount /\ t.provisional[l] = lines[i].amount
  /\ (\A i \in C : C = {i} => ~lines[i].replayed) => t.provisional[l] = None

Charged(lines) ==
  /\ Replayed(lines) \in ReplayState /\ Published(lines) \in PublishState
  /\ Replayed(lines).a.spent = LastSettles(lines)
  /\ Published(lines).total = LastSettles(lines)
  /\ \A l \in Label : Status(lines, Closings(lines, l), Replayed(lines), Published(lines), l)

(* An empty ledger has nothing to charge.                                   *)
LEMMA ChargedNothing == Charged(<<>>)
<1>1. <<>> \in Seq(Entry) /\ DOMAIN <<>> = {}
  OBVIOUS
<1>2. Replayed(<<>>) = Blank /\ Published(<<>>) = Unpublished
  BY ReplayedNothing, PublishedNothing
<1>3. /\ Blank \in ReplayState /\ Unpublished \in PublishState
      /\ Blank.a.spent = 0 /\ Unpublished.total = 0
      /\ \A l \in Label : Blank.provisional[l] = None /\ Unpublished.provisional[l] = None
  BY BlankType DEF Blank, NewAccount, Unpublished, PublishState
<1>4. LastSettles(<<>>) = 0
  <2>1. /\ Counts(<<>>) \in [{} -> Int] /\ IsFiniteSet({})
        /\ LastSettles(<<>>) = SumFunction(Counts(<<>>))
    BY <1>1, CountsType
  <2> QED
    BY <2>1, SumZero
<1>5. \A l \in Label : Closings(<<>>, l) = {}
  BY <1>1 DEF Closings
<1> HIDE DEF Blank, Unpublished
<1>6. \A l \in Label : ~Blank.a.holds[l].open
  BY DEF Blank, NewAccount, NoHold
<1> QED
  BY <1>2, <1>3, <1>4, <1>5, <1>6 DEF Charged, Status

(* A line appended to a good ledger changes the status of its label alone.  *)
LEMMA StatusMore ==
  ASSUME NEW lines \in Seq(Entry), NEW e \in Entry, NEW r, NEW q, NEW t, NEW u, NEW l \in Label,
         Round(r, e, q), Tally(t, e, u), e.op # "broken",
         e.replayed => Closings(lines, e.label) = {},
         Closes(e) /\ ~e.replayed => \A i \in Closings(lines, e.label) : lines[i].replayed,
         \A i \in Closings(lines, e.label) :
           (\A j \in Closings(lines, e.label) : lines[j].replayed)
             => Closings(lines, e.label) = {i},
         Status(lines, Closings(lines, l), r, t, l)
  PROVE  Status(Append(lines, e), Closings(Append(lines, e), l), q, u, l)
<1> DEFINE more == Append(lines, e)
           n == Len(lines)
           C == Closings(lines, l)
           D == Closings(more, l)
<1>1. Longer(lines, e, more, n)
  BY OneLonger
<1>2. /\ n \in Nat /\ DOMAIN lines = 1..n /\ more[n + 1] = e /\ n + 1 \notin 1..n
      /\ \A i \in 1..n : more[i] = lines[i]
  BY <1>1 DEF Longer
<1>3. D = IF e.label # l \/ e.op \notin {"hold", "settle", "release"} THEN C
          ELSE IF e.op = "hold" THEN {} ELSE C \cup {n + 1}
  BY <1>1, ClosingsMore
<1>4. C \subseteq 1..n
  BY <1>2 DEF Closings
<1>5. /\ e.op \in {"hold", "annotate", "settle", "release", "spend", "correct"}
      /\ e.replayed => e.op = "settle"
  BY DEF Entry, LineType
<1> HIDE DEF more, n
<1>6. CASE e.label # l \/ e.op \in {"annotate", "spend", "correct"}
  <2>1. D = C /\ \A i \in C : more[i] = lines[i]
    BY <1>2, <1>3, <1>4, <1>6
  <2>2. Unchanged(r, q, l)
    BY <1>6 DEF Round
  <2>3. u.provisional[l] = t.provisional[l]
    BY <1>6 DEF Tally
  <2> HIDE DEF C, D
  <2>4. Status(more, D, q, u, l)
    BY <2>1, <2>2, <2>3 DEF Status, Unchanged, C
  <2> QED
    BY <2>4 DEF D, more
<1>7. CASE e.label = l /\ e.op = "hold"
  <2>1. D = {}
    BY <1>3, <1>7
  <2>2. q.a.holds[l].open /\ u.provisional[l] = None
    BY <1>7 DEF Round, Tally
  <2> HIDE DEF D
  <2>3. Status(more, D, q, u, l)
    BY <2>1, <2>2 DEF Status
  <2> QED
    BY <2>3 DEF D, more
<1>8. CASE e.label = l /\ e.op \in {"settle", "release"}
  <2>1. D = C \cup {n + 1} /\ ~q.a.holds[l].open
    BY <1>3, <1>8 DEF Round
  <2>2. CASE e.replayed
    <3>1. C = {} /\ e.op = "settle"
      BY <1>5, <1>8, <2>2
    <3>2. r.a.holds[l].open
      BY <1>8, <3>1 DEF Status, Round
    <3>3. q.provisional[l] = e.amount /\ u.provisional[l] = e.amount
      BY <1>8, <2>2, <3>1, <3>2 DEF Round, Tally
    <3>4. D = {n + 1}
      BY <2>1, <3>1
    <3> HIDE DEF C, D
    <3>5. Status(more, D, q, u, l)
      BY <1>2, <2>1, <2>2, <3>3, <3>4 DEF Status
    <3> QED
      BY <3>5 DEF D, more
  <2>3. CASE ~e.replayed
    <3>1. u.provisional[l] = None
      <4>1. CASE e.op = "settle"
        BY <1>8, <2>3, <4>1 DEF Tally
      <4>2. CASE e.op = "release"
        <5>1. u.provisional[l] = t.provisional[l] /\ r.a.holds[l].open
          BY <1>8, <4>2 DEF Tally, Round
        <5>2. C = {}
          BY <5>1 DEF Status
        <5> QED
          BY <5>1, <5>2 DEF Status
      <4> QED
        BY <1>8, <4>1, <4>2
    <3>2. \A i \in D : D = {i} => i = n + 1
      BY <2>1
    <3> HIDE DEF C, D
    <3>3. Status(more, D, q, u, l)
      BY <1>2, <2>1, <2>3, <3>1, <3>2 DEF Status
    <3> QED
      BY <3>3 DEF D, more
  <2> QED
    BY <2>2, <2>3
<1> QED
  BY <1>5, <1>6, <1>7, <1>8

(* A line appended to a good ledger is charged as it should be.             *)
LEMMA ChargedMore ==
  ASSUME NEW lines \in Seq(Entry), NEW e \in Entry, Good(Append(lines, e)), Charged(lines)
  PROVE  Charged(Append(lines, e))
<1> DEFINE more == Append(lines, e)
           l == e.label
           C == Closings(lines, l)
           r == Replayed(lines)
           q == Replayed(more)
           t == Published(lines)
           u == Published(more)
<1>1. /\ Good(lines)
      /\ e.replayed => C = {}
      /\ Closes(e) /\ ~e.replayed => \A i \in C : lines[i].replayed
  BY GoodBefore
<1>2. q = ReplayedEntry(r, e) /\ u = PublishedEntry(t, e)
  BY ReplayedMore, PublishedMore
<1>3. r \in ReplayState /\ t \in PublishState /\ ~q.failed
  BY DEF Charged, Good
<1> HIDE DEF q, u
<1>4. Round(r, e, q) /\ e.op # "broken"
  BY <1>2, <1>3, ReplayRound
<1>5. Tally(t, e, u) /\ u \in PublishState
  BY <1>2, <1>3, PublishRound
<1>6. q \in ReplayState
  BY <1>2, <1>3, ReplayedEntryType
<1>7. \A i \in C : (\A j \in C : lines[j].replayed) => C = {i}
  BY <1>1, OneReplay DEF Good
<1>8. \A k \in Label : Status(more, Closings(more, k), q, u, k)
  <2> HIDE DEF r, t, C
  <2> TAKE k \in Label
  <2>1. Status(lines, Closings(lines, k), r, t, k)
    BY DEF Charged, r, t
  <2> QED
    BY <1>1, <1>4, <1>5, <1>7, <2>1, StatusMore DEF C
<1>9. q.a.spent = LastSettles(more) /\ u.total = LastSettles(more)
  <2>1. /\ r.a.spent = LastSettles(lines) /\ t.total = LastSettles(lines)
        /\ LastSettles(lines) \in Int /\ e.amount \in Int
        /\ e.op \in {"hold", "annotate", "settle", "release", "spend", "correct"}
        /\ e.op = "settle" => l \in Label
    BY <1>4, CountsType DEF Charged, Entry, LineType
  <2>2. CASE e.op # "settle"
    <3>1. LastSettles(more) =
            LastSettles(lines) + (IF e.op \in {"settle", "spend", "correct"} THEN e.amount ELSE 0)
      BY <2>2, LineAdds
    <3> HIDE DEF more, r, t
    <3>2. CASE e.op \in {"hold", "annotate", "release"}
      BY <1>4, <1>5, <2>1, <3>1, <3>2 DEF Round, Tally
    <3>3. CASE e.op \in {"spend", "correct"}
      BY <1>4, <1>5, <2>1, <3>1, <3>3 DEF Round, Tally
    <3> QED
      BY <2>1, <2>2, <3>2, <3>3
  <2>3. CASE e.op = "settle"
    <3>0. Status(lines, C, r, t, l)
      BY <2>1, <2>3 DEF Charged
    <3>1. CASE C = {}
      <4>1. LastSettles(more) = LastSettles(lines) + e.amount
        <5>1. LastSettles(more) =
                LastSettles(lines)
                  + (IF e.op \in {"settle", "spend", "correct"} THEN e.amount ELSE 0)
          BY <3>1, LineAdds
        <5> QED
          BY <2>3, <5>1
      <4> HIDE DEF more, r, t, C
      <4>2. q.a.spent = r.a.spent + e.amount
        BY <1>4, <2>3, <3>0, <3>1 DEF Status, Round
      <4>3. t.provisional[l] = None
        BY <3>0, <3>1 DEF Status
      <4>4. u.total = t.total + e.amount - 0
        BY <1>5, <2>3, <4>3 DEF Tally
      <4> QED
        BY <2>1, <4>1, <4>2, <4>4
    <3>2. CASE C # {}
      <4>1. ~e.replayed /\ \A i \in C : lines[i].replayed
        BY <1>1, <2>3, <3>2 DEF Closes
      <4>2. PICK k \in C : C = {k}
        BY <1>7, <3>2, <4>1
      <4>3. k \in DOMAIN lines /\ lines[k] \in Entry /\ lines[k].replayed /\ lines[k].op = "settle"
        BY <4>1, OneLonger DEF Closings, Entry
      <4>4. LastSettles(more) = LastSettles(lines) - lines[k].amount + e.amount
        BY <2>3, <4>2, <4>3, LineReplaces
      <4>5. lines[k].amount \in Int /\ None \notin Int
        BY <4>3, AmountAssumption DEF Entry, LineType
      <4> HIDE DEF more, r, t, C
      <4>6. /\ ~r.a.holds[l].open /\ r.provisional[l] = lines[k].amount
            /\ t.provisional[l] = lines[k].amount
        BY <3>0, <3>2, <4>2, <4>3 DEF Status
      <4>7. q.a.spent = r.a.spent + (e.amount - lines[k].amount)
        BY <1>4, <2>3, <4>6 DEF Round
      <4>8. u.total = t.total + e.amount - lines[k].amount
        BY <1>5, <2>3, <4>1, <4>5, <4>6 DEF Tally
      <4> QED
        BY <2>1, <4>4, <4>5, <4>7, <4>8
    <3> QED
      BY <3>1, <3>2
  <2> QED
    BY <2>2, <2>3
<1> QED
  BY <1>5, <1>6, <1>8, <1>9 DEF Charged, q, u, more

(* So every good ledger is charged as it should be.                         *)
LEMMA GoodIsCharged == \A lines \in Seq(Entry) : Good(lines) => Charged(lines)
<1> DEFINE T == {lines \in Seq(Entry) : Good(lines) => Charged(lines)}
<1>1. <<>> \in T
  BY ChargedNothing
<1>2. ASSUME NEW lines \in Seq(Entry), NEW e \in Entry, lines \in T PROVE Append(lines, e) \in T
  BY <1>2, GoodBefore, ChargedMore, OneLonger
<1>3. Seq(Entry) \subseteq T
  <2> HIDE DEF T
  <2> QED
    BY <1>1, <1>2, SequenceInduction
<1> QED
  BY <1>3

-----------------------------------------------------------------------------
(* A step for the owners' holds: a line, of which one that closes a hold is *)
(* a replay's or ends its owner's work, and only a hold begins any; or none. *)
Busy == {"held", "rented", "ended"}

Appends(line) ==
  /\ line \in Entry /\ file' = Appended(line)
  /\ Closes(line) /\ ~line.replayed => mode[line.label] \in Busy /\ mode'[line.label] \notin Busy
  /\ \A v \in Owner : mode'[v] \in Busy =>
       mode[v] \in Busy \/ (line.op = "hold" /\ line.label = v)

Keeps == file' = file /\ \A v \in Owner : mode'[v] \in Busy => mode[v] \in Busy

(* A crash tears the line of a closing only while its owner is at work.     *)
LEMMA TornClosing ==
  ASSUME LedgerInv, NEW w \in Process, mode[w] # "down", NEW line \in NextLines(w),
         NEW left \in {BrokenLine, line}
  PROVE  LET torn == [left EXCEPT !.ended = FALSE]
         IN /\ torn \in Entry
            /\ Closes(torn) /\ ~torn.replayed => torn.label = w /\ mode[w] \in Busy
<1> DEFINE torn == [left EXCEPT !.ended = FALSE]
<1>1. line \in Entry
  BY NextLinesFit
<1>2. torn \in Entry
  BY <1>1, BrokenType
<1>3. CASE left = BrokenLine
  <2>1. torn.op = "broken"
    BY <1>3 DEF BrokenLine, Line
  <2> QED
    BY <1>2, <2>1 DEF Closes
<1>4. CASE left = line
  <2>1. torn.op = line.op /\ torn.replayed = line.replayed /\ torn.label = line.label
    BY <1>1, <1>4 DEF Entry, LineType
  <2>2. Closes(line) /\ ~line.replayed => line.label = w /\ mode[w] \in Busy
    <3>1. CASE mode[w] = "replay"
      BY <3>1 DEF NextLines, ReplayedLine, Line
    <3>2. CASE mode[w] = "ready"
      BY <3>2 DEF NextLines, HoldLine, Line, Closes
    <3>3. CASE mode[w] \in {"rented", "ended"}
      BY <3>3 DEF NextLines, AnnotateLine, SettleLine, Line, Busy
    <3>4. CASE mode[w] = "correct"
      <4>1. line.op \in {"spend", "correct"}
        BY <3>4 DEF NextLines, LedgerInv, FileInv
      <4> QED
        BY <4>1 DEF Closes
    <3>5. CASE mode[w] = "held"
      BY <3>5 DEF NextLines, ReleaseLine, SettleLine, Line, Busy
    <3>6. CASE mode[w] \notin {"replay", "ready", "held", "rented", "ended", "correct"}
      BY <3>6 DEF NextLines
    <3> QED
      BY <3>1, <3>2, <3>3, <3>4, <3>5, <3>6
  <2> QED
    BY <1>2, <2>1, <2>2 DEF Closes
<1> QED
  BY <1>3, <1>4

(* Every step appends one line, under the label its process holds, or keeps *)
(* the file and begins no hold.                                             *)
LEMMA OwnSteps ==
  ASSUME LedgerInv, [Next]_vars PROVE Keeps \/ \E line \in Entry : Appends(line)
<1> USE DEF Busy
<1>0. /\ mode \in [Process -> Modes] /\ Owner \subseteq Process /\ Recon \in Process
      /\ Recon \notin Owner /\ Label = Owner
      /\ mode[Recon] \notin Busy
  BY ProcessAssumption DEF LedgerInv, TypeOK, OwnerInv, AtMode, Process, Label, Modes
<1>1. ASSUME NEW w \in Process, Start(w) \/ Crash(w) PROVE Keeps
  BY <1>0, <1>1 DEF Start, Crash, Dies, Keeps
<1>2. ASSUME NEW w \in Process, ReplaySettles(w) PROVE \E line \in Entry : Appends(line)
  <2>1. PICK l \in OpenIn(w) : \E actual \in ReplayCosts(w, l) :
          Write(w, ReplayedLine(l, actual))
    BY <1>2 DEF ReplaySettles
  <2>2. PICK actual \in ReplayCosts(w, l) : Write(w, ReplayedLine(l, actual))
    BY <2>1
  <2>3. l \in Label /\ actual \in Int
    BY ReplayCostsType
  <2> DEFINE line == ReplayedLine(l, actual)
  <2>4. line \in Entry /\ line.replayed
    BY <2>3, ReplayedFits DEF ReplayedLine, Line
  <2>5. file' = Appended(line)
    BY <2>2 DEF Write
  <2>6. \A v \in Owner : mode'[v] \in Busy => mode[v] \in Busy
    BY <1>0, <1>2 DEF ReplaySettles
  <2> HIDE DEF line
  <2> QED
    BY <2>4, <2>5, <2>6 DEF Appends
<1>3. ASSUME NEW w \in Process, CrashAppending(w) PROVE \E line \in Entry : Appends(line)
  <2>1. PICK line \in NextLines(w) :
          \E left \in {BrokenLine, line} : Write(w, [left EXCEPT !.ended = FALSE])
    BY <1>3 DEF CrashAppending
  <2>2. PICK left \in {BrokenLine, line} : Write(w, [left EXCEPT !.ended = FALSE])
    BY <2>1
  <2>3. mode[w] # "down"
    BY <2>1 DEF NextLines
  <2> DEFINE torn == [left EXCEPT !.ended = FALSE]
  <2>4. torn \in Entry /\ (Closes(torn) /\ ~torn.replayed => torn.label = w /\ mode[w] \in Busy)
    BY <2>3, TornClosing
  <2>5. file' = Appended(torn)
    BY <2>2 DEF Write
  <2>6. mode' = [mode EXCEPT ![w] = "down"]
    BY <1>3 DEF CrashAppending, Dies
  <2> HIDE DEF torn
  <2>7. mode'[w] \notin Busy /\ \A v \in Owner : mode'[v] \in Busy => mode[v] \in Busy
    BY <1>0, <2>6
  <2> QED
    BY <2>4, <2>5, <2>7 DEF Appends
<1>4. ASSUME NEW w \in Owner, Holds(w) PROVE \E line \in Entry : Appends(line)
  <2> DEFINE line == HoldLine(w, Estimate)
  <2>1. line \in Entry /\ line.op = "hold" /\ line.label = w
    BY <1>0, AmountAssumption, HoldFits DEF HoldLine, Line
  <2>2. file' = Appended(line) /\ \A v \in Owner : v # w => mode'[v] = mode[v]
    BY <1>0, <1>4 DEF Holds, Write
  <2> HIDE DEF line
  <2> QED
    BY <2>1, <2>2 DEF Appends, Closes
<1>5. ASSUME NEW w \in Owner, RentsNothing(w) \/ Settles(w)
      PROVE  \E line \in Entry : Appends(line)
  <2>0. w \in Label /\ WaitCost \in Int
    BY <1>0, AmountAssumption
  <2>1. \E line \in Entry : line.label = w /\ Write(w, line)
    <3>1. CASE RentsNothing(w)
      <4>1. /\ ReleaseLine(w) \in Entry /\ ReleaseLine(w).label = w
            /\ SettleLine(w, WaitCost) \in Entry /\ SettleLine(w, WaitCost).label = w
        BY <2>0, SettleFits, ReleaseFits DEF ReleaseLine, SettleLine, Line
      <4> QED
        BY <3>1, <4>1 DEF RentsNothing
    <3>2. CASE Settles(w)
      <4>1. target[w] \in Pod
        BY <3>2 DEF Settles, LedgerInv, TypeOK
      <4>2. PICK actual \in PodCosts(w) : Write(w, SettleLine(w, actual))
        BY <3>2 DEF Settles
      <4>3. actual \in Int
        BY <4>1, PodCostsType
      <4>4. SettleLine(w, actual) \in Entry /\ SettleLine(w, actual).label = w
        BY <2>0, <4>3, SettleFits DEF SettleLine, Line
      <4> QED
        BY <4>2, <4>4
    <3> QED
      BY <1>5, <3>1, <3>2
  <2>2. PICK line \in Entry : line.label = w /\ Write(w, line)
    BY <2>1
  <2>3. /\ file' = Appended(line) /\ mode[w] \in Busy /\ mode'[w] \notin Busy
        /\ \A v \in Owner : mode'[v] \in Busy => mode[v] \in Busy
    BY <1>0, <1>5, <2>2 DEF RentsNothing, Settles, Write
  <2> QED
    BY <2>2, <2>3 DEF Appends
<1>6. ASSUME NEW w \in Owner, Annotates(w) PROVE \E line \in Entry : Appends(line)
  <2> DEFINE line == AnnotateLine(w, target[w])
  <2>1. target[w] \in Pod
    BY <1>6 DEF Annotates, LedgerInv, TypeOK
  <2>2. line \in Entry /\ line.op = "annotate"
    BY <1>0, <2>1, AnnotateFits DEF AnnotateLine, Line
  <2>3. file' = Appended(line) /\ mode' = mode
    BY <1>6 DEF Annotates, Write
  <2> HIDE DEF line
  <2> QED
    BY <2>2, <2>3 DEF Appends, Closes
<1>7. ASSUME NEW w \in Owner, Ends(w) PROVE Keeps
  BY <1>0, <1>7 DEF Ends, Keeps
<1>8. ASSUME NEW w \in Owner, NEW p \in Pod, Rents(w, p) PROVE Keeps
  BY <1>0, <1>8 DEF Rents, Keeps
<1>9. CASE ReadsBill \/ Reconciles
  BY <1>0, <1>9 DEF ReadsBill, Reconciles, Dies, Keeps
<1>10. ASSUME NEW line \in todo, Corrects(line) PROVE Keeps \/ \E e \in Entry : Appends(e)
  <2>1. line \in Entry /\ ~Closes(line)
    BY DEF LedgerInv, FileInv, Closes
  <2>2. CASE line.op = "correct" \/ CanAfford(account[Recon], line.amount)
    BY <1>10, <2>1, <2>2 DEF Corrects, Write, Appends
  <2>3. CASE ~(line.op = "correct" \/ CanAfford(account[Recon], line.amount))
    BY <1>0, <1>10, <2>3 DEF Corrects, Dies, Keeps
  <2> QED
    BY <2>2, <2>3
<1>11. CASE Tick \/ UNCHANGED vars
  BY <1>11 DEF Tick, vars, Keeps
<1> QED
  BY <1>1, <1>2, <1>3, <1>4, <1>5, <1>6, <1>7, <1>8, <1>9, <1>10, <1>11 DEF Next

-----------------------------------------------------------------------------
(* Every file that a start can read is orderly, and since a working owner's *)
(* hold only replays closed it.                                             *)
OrderInv ==
  /\ Readable(file) => Orderly(ReadAll(file))
  /\ Intact(file) => \A w \in Owner : mode[w] \in Busy =>
       \A i \in Closings(file, w) : file[i].replayed

(* What is orderly is so without its last line, and stays so with a line    *)
(* that closes no hold its owner closed.                                    *)
LEMMA OrderlyMore ==
  ASSUME NEW lines \in Seq(Entry), NEW e \in Entry
  PROVE  Orderly(Append(lines, e)) <=>
           /\ Orderly(lines)
           /\ Closes(e) /\ ~e.replayed => \A i \in Closings(lines, e.label) : lines[i].replayed
<1> DEFINE more == Append(lines, e)
           n == Len(lines)
<1>1. Longer(lines, e, more, n)
  BY OneLonger
<1>2. /\ n \in Nat /\ DOMAIN lines = 1..n /\ DOMAIN more = 1..n \cup {n + 1}
      /\ more[n + 1] = e /\ \A i \in 1..n : more[i] = lines[i]
  BY <1>1 DEF Longer
<1> HIDE DEF more, n
<1>3. \A i \in 1..n : /\ Since(more, i, n + 1) = {} <=> ~HeldAfter(lines, i)
                      /\ \A j \in 1..n : Since(more, i, j) = Since(lines, i, j)
  BY <1>1, SinceMore
<1>4. ASSUME Orderly(more)
      PROVE  /\ Orderly(lines)
             /\ Closes(e) /\ ~e.replayed => \A i \in Closings(lines, e.label) : lines[i].replayed
  <2>1. Orderly(lines)
    BY <1>2, <1>3, <1>4 DEF Orderly
  <2>2. ASSUME Closes(e), ~e.replayed, NEW i \in Closings(lines, e.label) PROVE lines[i].replayed
    <3>1. i \in 1..n /\ lines[i].label = e.label /\ Closes(lines[i]) /\ ~HeldAfter(lines, i)
      BY <1>2 DEF Closings
    <3>2. i < n + 1 /\ more[i] = lines[i] /\ Since(more, i, n + 1) = {}
      BY <1>2, <1>3, <3>1
    <3> QED
      BY <1>2, <1>4, <2>2, <3>1, <3>2 DEF Orderly
  <2> QED
    BY <2>1, <2>2
<1>5. ASSUME Orderly(lines),
             Closes(e) /\ ~e.replayed => \A i \in Closings(lines, e.label) : lines[i].replayed
      PROVE  Orderly(more)
  <2> SUFFICES ASSUME NEW i \in DOMAIN more, NEW j \in DOMAIN more, i < j,
                      more[i].label = more[j].label, Closes(more[i]), Closes(more[j]),
                      ~more[i].replayed, ~more[j].replayed
               PROVE  Since(more, i, j) # {}
    BY DEF Orderly
  <2>1. i \in 1..n
    BY <1>2
  <2>2. CASE j \in 1..n
    BY <1>2, <1>3, <1>5, <2>1, <2>2 DEF Orderly
  <2>3. CASE j = n + 1
    <3>1. i \notin Closings(lines, e.label)
      BY <1>2, <1>5, <2>1, <2>3
    <3>2. HeldAfter(lines, i)
      BY <1>2, <2>1, <2>3, <3>1 DEF Closings
    <3> QED
      BY <1>3, <2>1, <2>3, <3>2
  <2> QED
    BY <1>2, <2>2, <2>3
<1> QED
  BY <1>4, <1>5 DEF more

(* Every step keeps each label's holds and closings in order.               *)
LEMMA OrderNext == ASSUME LedgerInv, OrderInv, [Next]_vars PROVE OrderInv'
<1>1. file \in Seq(Entry)
  BY DEF LedgerInv, FileInv
<1>2. CASE Keeps
  BY <1>2 DEF Keeps, OrderInv
<1>3. ASSUME NEW e \in Entry, Appends(e), LastEnded PROVE OrderInv'
  <2>1. file' = Append(file, e)
    BY <1>3 DEF Appends, Appended
  <2>2. /\ Readable(file') <=> Intact(file)
        /\ ReadAll(file') = IF e.op = "broken" THEN file ELSE file'
        /\ Intact(file') <=> Intact(file) /\ e.op # "broken"
    BY <1>1, <2>1, AppendReads
  <2>3. Intact(file) => /\ Orderly(file)
                        /\ Closes(e) /\ ~e.replayed =>
                             \A i \in Closings(file, e.label) : file[i].replayed
    <3>1. Intact(file) => Orderly(file)
      BY <1>1, IntactReads DEF OrderInv
    <3>2. ASSUME Closes(e), ~e.replayed PROVE e.label \in Owner /\ mode[e.label] \in Busy
      BY <1>3, <3>2 DEF Appends, Entry, Closes, Label
    <3> QED
      BY <3>1, <3>2 DEF OrderInv
  <2>4. Readable(file') => Orderly(ReadAll(file'))
    BY <1>1, <2>1, <2>2, <2>3, OrderlyMore
  <2>5. ASSUME Intact(file'), NEW w \in Owner, mode'[w] \in Busy, NEW i \in Closings(file', w)
        PROVE  file'[i].replayed
    <3> DEFINE n == Len(file)
    <3>1. Longer(file, e, file', n)
      BY <1>1, <2>1, OneLonger
    <3>2. Closings(file', w) =
            IF e.label # w \/ e.op \notin {"hold", "settle", "release"} THEN Closings(file, w)
            ELSE IF e.op = "hold" THEN {} ELSE Closings(file, w) \cup {n + 1}
      BY <3>1, ClosingsMore
    <3>3. /\ DOMAIN file = 1..n /\ file'[n + 1] = e /\ \A k \in 1..n : file'[k] = file[k]
      BY <3>1 DEF Longer
    <3> HIDE DEF n
    <3>4. ~(e.op = "hold" /\ e.label = w)
      BY <2>5, <3>2
    <3>5. mode[w] \in Busy
      BY <1>3, <2>5, <3>4 DEF Appends
    <3>6. ASSUME i \in Closings(file, w) PROVE file'[i].replayed
      BY <2>2, <2>5, <3>3, <3>5, <3>6 DEF OrderInv, Closings
    <3>7. ASSUME i = n + 1, e.label = w, e.op \in {"settle", "release"} PROVE file'[i].replayed
      BY <1>3, <2>5, <3>3, <3>7 DEF Appends, Closes
    <3> QED
      BY <2>5, <3>2, <3>4, <3>6, <3>7
  <2> QED
    BY <2>4, <2>5 DEF OrderInv
<1>4. ASSUME NEW e \in Entry, Appends(e), ~LastEnded PROVE OrderInv'
  <2> DEFINE front == Front(file)
             last == Last(file)
             glued == [BrokenLine EXCEPT !.ended = e.ended]
  <2>1. file # <<>> /\ file' = Append(front, glued)
    BY <1>4 DEF Appends, Appended, LastEnded
  <2>2. front \in Seq(Entry) /\ last \in Entry /\ file = Append(front, last)
    BY <1>1, <2>1, FrontAndLast
  <2>3. glued \in Entry /\ glued.op = "broken"
    BY BrokenType
  <2> HIDE DEF front, last, glued
  <2>4. (Readable(file') <=> Intact(front)) /\ ReadAll(file') = front /\ ~Intact(file')
    BY <2>1, <2>2, <2>3, AppendReads
  <2>5. /\ Readable(file) <=> Intact(front)
        /\ ReadAll(file) = IF last.op = "broken" THEN front ELSE file
    BY <2>2, AppendReads
  <2>6. Intact(front) => Orderly(front)
    BY <2>2, <2>5, OrderlyMore DEF OrderInv
  <2> QED
    BY <2>4, <2>6 DEF OrderInv
<1> QED
  BY <1>2, <1>3, <1>4, OwnSteps

(* The invariant holds of the empty file.                                   *)
LEMMA OrderInit == Init => OrderInv
  BY DEF Init, OrderInv, ReadAll, Orderly, Closings

-----------------------------------------------------------------------------
(* In an orderly ledger the replay's account, the published total and the   *)
(* last settle of each hold are one amount.                                 *)
LEMMA OrderedIsCharged == LedgerInv /\ OrderInv => EachHoldChargedOnce
<1> SUFFICES ASSUME LedgerInv, OrderInv, OnDisk.works, ~LateReplay(ReadAll(file))
             PROVE  /\ OnDisk.a.spent = LastSettles(ReadAll(file))
                    /\ LedgerSpent(ReadAll(file)) = OnDisk.a.spent
  BY DEF EachHoldChargedOnce
<1> DEFINE lines == ReadAll(file)
<1>1. lines \in Seq(Entry)
  BY ReadAllType DEF LedgerInv, FileInv
<1>2. Readable(file) /\ ~Replayed(lines).failed /\ OnDisk.a = Replayed(lines).a
  BY DEF OnDisk
<1>3. Good(lines)
  BY <1>2 DEF OrderInv, Good
<1> HIDE DEF lines
<1>4. Charged(lines)
  BY <1>1, <1>3, GoodIsCharged
<1> QED
  BY <1>2, <1>4, PublishUnfolds DEF Charged, lines

(* Unless a replay came too late, a readable ledger charges each hold once, *)
(* and the findings publish what the tracker holds, in every state.         *)
THEOREM HoldsChargedOnce == Spec => []EachHoldChargedOnce
<1>1. Init => OrderInv
  BY OrderInit
<1>2. LedgerInv /\ OrderInv /\ [Next]_vars => OrderInv'
  BY OrderNext
<1>3. Spec => []LedgerInv
  BY LedgerInductive, PTL
<1> QED
  BY <1>1, <1>2, <1>3, OrderedIsCharged, PTL DEF Spec

-----------------------------------------------------------------------------
(* Tracking an empty ledger finds no pod.                                   *)
LEMMA TrackedNothing == Tracked(<<>>) = Untracked
<1>1. <<>> \in Seq(Int) /\ DOMAIN <<>> = {}
  OBVIOUS
<1>2. CountRounds(<<>>)[{}] = FoldRound("count", Untracked, <<>>, CountRounds(<<>>), {})
  BY <1>1, CountRecursion DEF Follows
<1> QED
  BY <1>1, <1>2, CountUnfolds DEF FoldRound

(* Tracking ends with the round of the last line.                           *)
LEMMA TrackedMore ==
  ASSUME NEW L, NEW lines \in Seq(L), NEW e \in L
  PROVE  Tracked(Append(lines, e)) = Counted(Tracked(lines), e)
<1> DEFINE more == Append(lines, e)
<1>1. more \in Seq(L)
  BY AppendProperties
<1>2. /\ Follows("count", Untracked, lines, DOMAIN lines, CountRounds(lines))
      /\ Follows("count", Untracked, more, DOMAIN more, CountRounds(more))
  BY <1>1, CountRecursion
<1>3. /\ Len(more) = Len(lines) + 1 /\ more[Len(more)] = e
      /\ \A i \in DOMAIN lines : more[i] = lines[i]
  BY AppendProperties
<1> HIDE DEF more
<1>4. CountRounds(more)[DOMAIN more]
        = FoldStep("count", CountRounds(lines)[DOMAIN lines], more[Len(more)])
  BY <1>1, <1>2, <1>3, RoundsMore
<1> QED
  BY <1>3, <1>4, CountUnfolds DEF FoldStep, more

(* What a round of tracking does: it settles an amount for a pod, names a   *)
(* pod, or does nothing.                                                    *)
Adds(t, u, p, amount) ==
  /\ p \in Pod /\ u.settled = [t.settled EXCEPT ![p] = t.settled[p] + amount]
  /\ u.pods = t.pods \cup {p}

CountRound(t, e, u) ==
  /\ e.op = "annotate" => /\ u.podOf = [t.podOf EXCEPT ![e.label] = e.pod]
                          /\ u.settled = t.settled /\ u.pods = t.pods
  /\ e.op = "settle" =>
       IF t.podOf[e.label] = NoPod THEN u = t
       ELSE /\ Adds(t, u, t.podOf[e.label], e.amount)
            /\ u.podOf = [t.podOf EXCEPT ![e.label] = NoPod]
  /\ e.op \in {"spend", "correct"} => Adds(t, u, e.pod, e.amount) /\ u.podOf = t.podOf
  /\ e.op \in {"hold", "release", "broken"} => u = t

(* A round of tracking does so.                                             *)
LEMMA CountedRound ==
  ASSUME NEW t \in CountState, NEW e \in Entry PROVE CountRound(t, e, Counted(t, e))
<1>1. /\ t.podOf \in [Label -> Pod \cup {NoPod}] /\ t.settled \in [Pod -> Int]
      /\ t = [podOf |-> t.podOf, settled |-> t.settled, pods |-> t.pods]
  BY DEF CountState
<1>2. CASE e.op = "annotate"
  BY <1>1, <1>2 DEF Counted, CountRound
<1>3. CASE e.op = "settle"
  <2>1. e.label \in Label
    BY <1>3 DEF Entry
  <2>2. CASE t.podOf[e.label] = NoPod
    BY <1>3, <2>2 DEF Counted, CountRound
  <2>3. CASE t.podOf[e.label] # NoPod
    <3> DEFINE p == t.podOf[e.label]
    <3>1. p \in Pod
      BY <1>1, <2>1, <2>3
    <3>2. Counted(t, e) = [t EXCEPT !.settled[p] = @ + e.amount, !.pods = @ \cup {p},
                                    !.podOf[e.label] = NoPod]
      BY <1>3, <2>3 DEF Counted
    <3>3. Adds(t, Counted(t, e), p, e.amount)
      <4> HIDE DEF p
      <4> QED
        BY <1>1, <3>1, <3>2 DEF Adds
    <3>4. Counted(t, e).podOf = [t.podOf EXCEPT ![e.label] = NoPod]
      <4> HIDE DEF p
      <4> QED
        BY <1>1, <3>2
    <3> QED
      BY <1>3, <2>3, <3>3, <3>4 DEF CountRound
  <2> QED
    BY <2>2, <2>3
<1>4. CASE e.op \in {"spend", "correct"}
  <2>1. e.pod \in Pod
    BY <1>4 DEF Entry
  <2>2. Counted(t, e) = [t EXCEPT !.settled[e.pod] = @ + e.amount, !.pods = @ \cup {e.pod}]
    BY <1>4 DEF Counted
  <2> QED
    BY <1>1, <1>4, <2>1, <2>2 DEF CountRound, Adds
<1>5. CASE e.op \in {"hold", "release", "broken"}
  BY <1>5 DEF Counted, CountRound
<1> QED
  BY <1>2, <1>3, <1>4, <1>5 DEF CountRound

(* Lines that cite only the pods of R.                                      *)
Citing(R) == {e \in Entry : e.op \in {"annotate", "spend", "correct"} => e.pod \in R}

(* No other pod is tracked then.                                            *)
LEMMA CitedPods ==
  ASSUME NEW R \in SUBSET Pod, NEW lines \in Seq(Citing(R)) PROVE Tracked(lines).pods \subseteq R
<1> DEFINE Within(t) == t.pods \subseteq R /\ \A l \in Label : t.podOf[l] \in R \cup {NoPod}
           T == {some \in Seq(Citing(R)) : Within(Tracked(some))}
<1>1. <<>> \in T
  BY TrackedNothing DEF Untracked
<1>2. ASSUME NEW some \in Seq(Citing(R)), NEW e \in Citing(R), some \in T
      PROVE  Append(some, e) \in T
  <2> DEFINE t == Tracked(some)
             u == Tracked(Append(some, e))
  <2>1. some \in Seq(Entry) /\ e \in Entry /\ Append(some, e) \in Seq(Citing(R))
    BY AppendProperties DEF Citing
  <2>2. t \in CountState /\ CountRound(t, e, u)
    BY <2>1, TrackedType, TrackedMore, CountedRound
  <2>3. Within(t)
    BY <1>2
  <2> HIDE DEF t, u
  <2>4. e.label \in Label \/ e.op \in {"spend", "correct", "broken"}
    BY <2>1 DEF Entry, LineType
  <2>5. t.podOf \in [Label -> Pod \cup {NoPod}]
    BY <2>2 DEF CountState
  <2>6. Within(u)
    <3>1. CASE e.op = "annotate"
      BY <2>2, <2>3, <2>4, <2>5, <3>1 DEF CountRound, Citing
    <3>2. CASE e.op = "settle"
      BY <2>2, <2>3, <2>4, <2>5, <3>2 DEF CountRound, Adds
    <3>3. CASE e.op \in {"spend", "correct"}
      BY <2>2, <2>3, <2>4, <2>5, <3>3 DEF CountRound, Adds, Citing
    <3>4. CASE e.op \in {"hold", "release", "broken"}
      BY <2>2, <2>3, <3>4 DEF CountRound
    <3> QED
      BY <2>1, <3>1, <3>2, <3>3, <3>4 DEF Entry, LineType
  <2> QED
    BY <2>1, <2>6 DEF u
<1>3. Seq(Citing(R)) \subseteq T
  <2> HIDE DEF T
  <2> QED
    BY <1>1, <1>2, SequenceInduction
<1> QED
  BY <1>3

-----------------------------------------------------------------------------
(* Holds with no pod to their name.                                         *)
Fresh(lines, l) ==
  \E i \in DOMAIN lines :
    /\ lines[i].op = "hold" /\ lines[i].label = l
    /\ \A k \in DOMAIN lines : k >= i => ~(lines[k].op = "annotate" /\ lines[k].label = l)

Unnamed(lines) ==
  \E i, j \in DOMAIN lines :
    /\ lines[i].op = "hold" /\ lines[j].op = "settle" /\ lines[j].label = lines[i].label /\ i < j
    /\ \A k \in i..j : ~(lines[k].op = "annotate" /\ lines[k].label = lines[i].label)

(* What becomes of them as the ledger grows.                                *)
LEMMA FreshMore ==
  ASSUME NEW lines \in Seq(Entry), NEW e \in Entry, NEW l
  PROVE  /\ Fresh(lines, l) /\ ~(e.op = "annotate" /\ e.label = l) => Fresh(Append(lines, e), l)
         /\ e.op = "hold" /\ e.label = l => Fresh(Append(lines, e), l)
<1> DEFINE more == Append(lines, e)
           n == Len(lines)
<1>1. Longer(lines, e, more, n)
  BY OneLonger
<1>2. /\ n \in Nat /\ DOMAIN lines = 1..n /\ DOMAIN more = 1..n \cup {n + 1}
      /\ more[n + 1] = e /\ \A i \in 1..n : more[i] = lines[i]
  BY <1>1 DEF Longer
<1> HIDE DEF more, n
<1>3. ASSUME Fresh(lines, l), ~(e.op = "annotate" /\ e.label = l) PROVE Fresh(more, l)
  BY <1>2, <1>3 DEF Fresh
<1>4. ASSUME e.op = "hold", e.label = l PROVE Fresh(more, l)
  <2>1. \A k \in DOMAIN more : k >= n + 1 => k = n + 1
    BY <1>2
  <2> QED
    BY <1>2, <1>4, <2>1 DEF Fresh
<1> QED
  BY <1>3, <1>4 DEF more

(* Settling such a hold leaves one settled without a pod for good.          *)
LEMMA UnnamedMore ==
  ASSUME NEW lines \in Seq(Entry), NEW e \in Entry
  PROVE  /\ Unnamed(lines) => Unnamed(Append(lines, e))
         /\ e.op = "settle" /\ Fresh(lines, e.label) => Unnamed(Append(lines, e))
<1> DEFINE more == Append(lines, e)
           n == Len(lines)
<1>1. Longer(lines, e, more, n)
  BY OneLonger
<1>2. /\ n \in Nat /\ DOMAIN lines = 1..n /\ DOMAIN more = 1..n \cup {n + 1}
      /\ more[n + 1] = e /\ \A i \in 1..n : more[i] = lines[i]
  BY <1>1 DEF Longer
<1> HIDE DEF more, n
<1>3. ASSUME Unnamed(lines) PROVE Unnamed(more)
  <2>1. PICK i, j \in DOMAIN lines :
          /\ lines[i].op = "hold" /\ lines[j].op = "settle" /\ lines[j].label = lines[i].label
          /\ i < j
          /\ \A k \in i..j : ~(lines[k].op = "annotate" /\ lines[k].label = lines[i].label)
    BY <1>3 DEF Unnamed
  <2>2. i..j \subseteq 1..n
    BY <1>2
  <2>3. /\ more[i].op = "hold" /\ more[j].op = "settle" /\ more[j].label = more[i].label
        /\ \A k \in i..j : ~(more[k].op = "annotate" /\ more[k].label = more[i].label)
    BY <1>2, <2>1, <2>2
  <2> QED
    BY <1>2, <2>1, <2>3 DEF Unnamed
<1>4. ASSUME e.op = "settle", Fresh(lines, e.label) PROVE Unnamed(more)
  <2>1. PICK i \in DOMAIN lines :
          /\ lines[i].op = "hold" /\ lines[i].label = e.label
          /\ \A k \in DOMAIN lines :
               k >= i => ~(lines[k].op = "annotate" /\ lines[k].label = e.label)
    BY <1>4 DEF Fresh
  <2>2. \A k \in i..(n + 1) : (k \in DOMAIN lines /\ k >= i) \/ k = n + 1
    BY <1>2
  <2>3. /\ more[i].op = "hold" /\ more[n + 1].op = "settle" /\ more[n + 1].label = more[i].label
        /\ i < n + 1 /\ i \in DOMAIN more /\ n + 1 \in DOMAIN more
        /\ \A k \in i..(n + 1) : ~(more[k].op = "annotate" /\ more[k].label = more[i].label)
    BY <1>2, <1>4, <2>1, <2>2
  <2> QED
    BY <2>3 DEF Unnamed
<1> QED
  BY <1>3, <1>4 DEF more

-----------------------------------------------------------------------------
(* How the account that replay leaves and what ledger_by_pod tracks go      *)
(* together: the pod of every open hold is the one tracked under its label, *)
(* one without a pod was never named, and unless some hold was settled so   *)
(* the account is the sum over the pods.                                    *)
Match(a, t, fresh, unnamed) ==
  /\ \A l \in Label : t.podOf[l] = IF a.holds[l].open THEN a.holds[l].pod ELSE NoPod
  /\ \A l \in Label : a.holds[l].open /\ a.holds[l].pod = NoPod => l \in fresh
  /\ unnamed \/ a.spent = SumFunction(t.settled)
  /\ \A p \in Pod : p \notin t.pods => t.settled[p] = 0

(* An amount settled for a pod is one more in their sum.                    *)
LEMMA AddsUp ==
  ASSUME NEW t \in CountState, NEW u, NEW p, NEW amount \in Int, Adds(t, u, p, amount)
  PROVE  /\ SumFunction(u.settled) = SumFunction(t.settled) + amount
         /\ (\A q \in Pod : q \notin t.pods => t.settled[q] = 0)
              => \A q \in Pod : q \notin u.pods => u.settled[q] = 0
<1>1. /\ p \in Pod /\ t.settled \in [Pod -> Int] /\ t.settled[p] \in Int
      /\ t.settled[p] + amount \in Int
      /\ u.settled = [t.settled EXCEPT ![p] = t.settled[p] + amount] /\ u.pods = t.pods \cup {p}
  BY DEF Adds, CountState
<1>2. SumFunction([t.settled EXCEPT ![p] = t.settled[p] + amount])
        = SumFunction(t.settled) - t.settled[p] + (t.settled[p] + amount)
  BY <1>1, PodAssumption, SumExcept
<1>3. SumFunction(t.settled) \in Int
  BY <1>1, PodAssumption, SumType
<1> QED
  BY <1>1, <1>2, <1>3

(* A line that fits the account keeps the two together.                     *)
LEMMA MatchMore ==
  ASSUME NEW a \in Account, NEW t \in CountState, NEW e \in Entry, NEW u, Fits(a, e),
         CountRound(t, e, u), NEW fresh, NEW unnamed \in BOOLEAN, Match(a, t, fresh, unnamed),
         NEW later, NEW still \in BOOLEAN,
         \A l \in fresh : ~(e.op = "annotate" /\ e.label = l) => l \in later,
         e.op = "hold" => e.label \in later,
         unnamed => still, e.op = "settle" /\ e.label \in fresh => still
  PROVE  Match(Effect(a, e), u, later, still)
<1> DEFINE l == e.label
           b == Effect(a, e)
<1>1. /\ a.spent \in Int /\ e.amount \in Int /\ NoPod \notin Pod
      /\ a.holds \in [Label -> [open : BOOLEAN, estimate : Nat, pod : Pod \cup {NoPod}]]
      /\ t.podOf \in [Label -> Pod \cup {NoPod}]
  BY ProcessAssumption DEF Account, CountState, Entry, LineType
<1>2. /\ \A m \in Label : t.podOf[m] = IF a.holds[m].open THEN a.holds[m].pod ELSE NoPod
      /\ \A m \in Label : a.holds[m].open /\ a.holds[m].pod = NoPod => m \in fresh
      /\ unnamed \/ a.spent = SumFunction(t.settled)
      /\ \A p \in Pod : p \notin t.pods => t.settled[p] = 0
  BY DEF Match
<1>3. CASE e.op = "hold"
  <2>1. l \in Label /\ ~a.holds[l].open /\ u = t /\ l \in later
    BY <1>3 DEF Entry, Fits, CountRound
  <2>2. /\ b.spent = a.spent /\ b.holds[l].open /\ b.holds[l].pod = NoPod
        /\ \A m \in Label : m # l => b.holds[m] = a.holds[m]
    BY <1>1, <1>3, <2>1 DEF Effect, Holding, SetHold, HeldAt, Account
  <2> HIDE DEF b, l
  <2>3. \A m \in Label : t.podOf[m] = IF b.holds[m].open THEN b.holds[m].pod ELSE NoPod
    BY <1>2, <2>1, <2>2
  <2>4. \A m \in Label : b.holds[m].open /\ b.holds[m].pod = NoPod => m \in later
    BY <1>2, <1>3, <2>1, <2>2
  <2> QED
    BY <1>2, <2>1, <2>2, <2>3, <2>4 DEF Match, b
<1>4. CASE e.op = "annotate"
  <2>1. /\ l \in Label /\ a.holds[l].open /\ e.pod \in Pod
        /\ u.podOf = [t.podOf EXCEPT ![l] = e.pod] /\ u.settled = t.settled /\ u.pods = t.pods
    BY <1>4 DEF Entry, Fits, CountRound
  <2>2. /\ b.spent = a.spent /\ b.holds[l].open /\ b.holds[l].pod = e.pod
        /\ \A m \in Label : m # l => b.holds[m] = a.holds[m]
    BY <1>1, <1>4, <2>1 DEF Effect, Naming, SetHold, HeldAt, Account
  <2>3. \A m \in fresh : m # l => m \in later
    BY <1>4
  <2> HIDE DEF b, l
  <2>4. \A m \in Label : u.podOf[m] = IF b.holds[m].open THEN b.holds[m].pod ELSE NoPod
    BY <1>1, <1>2, <2>1, <2>2
  <2>5. \A m \in Label : b.holds[m].open /\ b.holds[m].pod = NoPod => m \in later
    BY <1>1, <1>2, <2>1, <2>2, <2>3
  <2> QED
    BY <1>2, <2>1, <2>2, <2>4, <2>5 DEF Match, b
<1>5. CASE e.op = "settle"
  <2>1. l \in Label /\ a.holds[l].open
    BY <1>5 DEF Entry, Fits
  <2>2. /\ b.spent = a.spent + e.amount /\ ~b.holds[l].open
        /\ \A m \in Label : m # l => b.holds[m] = a.holds[m]
    BY <1>1, <1>5, <2>1 DEF Effect, Settling, SetHold, Charge, NoHold, Account
  <2>3. \A m \in fresh : m \in later
    BY <1>5
  <2>4. CASE t.podOf[l] = NoPod
    <3>1. u = t /\ still
      BY <1>2, <1>5, <2>1, <2>4 DEF CountRound
    <3> HIDE DEF b, l
    <3>2. \A m \in Label : u.podOf[m] = IF b.holds[m].open THEN b.holds[m].pod ELSE NoPod
      BY <1>2, <2>2, <2>4, <3>1
    <3>3. \A m \in Label : b.holds[m].open /\ b.holds[m].pod = NoPod => m \in later
      BY <1>2, <2>2, <2>3
    <3> QED
      BY <1>2, <3>1, <3>2, <3>3 DEF Match, b
  <2>5. CASE t.podOf[l] # NoPod
    <3>1. Adds(t, u, t.podOf[l], e.amount) /\ u.podOf = [t.podOf EXCEPT ![l] = NoPod]
      BY <1>5, <2>5 DEF CountRound
    <3>2. /\ SumFunction(u.settled) = SumFunction(t.settled) + e.amount
          /\ \A q \in Pod : q \notin u.pods => u.settled[q] = 0
      BY <1>1, <1>2, <3>1, AddsUp
    <3> HIDE DEF b, l
    <3>3. \A m \in Label : u.podOf[m] = IF b.holds[m].open THEN b.holds[m].pod ELSE NoPod
      BY <1>1, <1>2, <2>2, <3>1
    <3>4. \A m \in Label : b.holds[m].open /\ b.holds[m].pod = NoPod => m \in later
      BY <1>2, <2>2, <2>3
    <3>5. still \/ b.spent = SumFunction(u.settled)
      BY <1>2, <2>2, <3>2
    <3> QED
      BY <3>2, <3>3, <3>4, <3>5 DEF Match, b
  <2> QED
    BY <2>4, <2>5
<1>6. CASE e.op = "release"
  <2>1. l \in Label /\ a.holds[l].open /\ a.holds[l].pod = NoPod /\ u = t
    BY <1>6 DEF Entry, Fits, CountRound
  <2>2. /\ b.spent = a.spent /\ ~b.holds[l].open
        /\ \A m \in Label : m # l => b.holds[m] = a.holds[m]
    BY <1>1, <1>6, <2>1 DEF Effect, Releasing, SetHold, NoHold, Account
  <2>3. \A m \in fresh : m \in later
    BY <1>6
  <2> HIDE DEF b, l
  <2>4. \A m \in Label : t.podOf[m] = IF b.holds[m].open THEN b.holds[m].pod ELSE NoPod
    BY <1>2, <2>1, <2>2
  <2>5. \A m \in Label : b.holds[m].open /\ b.holds[m].pod = NoPod => m \in later
    BY <1>2, <2>2, <2>3
  <2> QED
    BY <1>2, <2>1, <2>2, <2>4, <2>5 DEF Match, b
<1>7. CASE e.op \in {"spend", "correct"}
  <2>1. Adds(t, u, e.pod, e.amount) /\ u.podOf = t.podOf
    BY <1>7 DEF CountRound
  <2>2. b.spent = a.spent + e.amount /\ b.holds = a.holds
    BY <1>1, <1>7 DEF Effect, Charge, Account
  <2>3. \A m \in fresh : m \in later
    BY <1>7
  <2>4. /\ SumFunction(u.settled) = SumFunction(t.settled) + e.amount
        /\ \A q \in Pod : q \notin u.pods => u.settled[q] = 0
    BY <1>1, <1>2, <2>1, AddsUp
  <2> HIDE DEF b, l
  <2>5. still \/ b.spent = SumFunction(u.settled)
    BY <1>2, <2>2, <2>4
  <2> QED
    BY <1>2, <2>1, <2>2, <2>3, <2>4, <2>5 DEF Match, b
<1> QED
  BY <1>3, <1>4, <1>5, <1>6, <1>7 DEF Entry, LineType, Fits

(* A ledger that replays, where the account and the pods go together.       *)
Tidy(lines) ==
  /\ ~Replayed(lines).failed
  /\ Match(Replayed(lines).a, Tracked(lines), {l \in Label : Fresh(lines, l)}, Unnamed(lines))

(* The empty one does.                                                      *)
LEMMA TidyNothing == Tidy(<<>>)
<1>1. Replayed(<<>>) = Blank /\ Tracked(<<>>) = Untracked
  BY ReplayedNothing, TrackedNothing
<1>2. Untracked.settled \in [Pod -> Int] /\ \A p \in Pod : Untracked.settled[p] = 0
  BY DEF Untracked
<1>3. SumFunction(Untracked.settled) = 0
  BY <1>2, PodAssumption, SumZero
<1>4. /\ ~Blank.failed /\ Blank.a.spent = 0 /\ \A l \in Label : ~Blank.a.holds[l].open
      /\ \A l \in Label : Untracked.podOf[l] = NoPod
  BY DEF Blank, NewAccount, NoHold, Untracked
<1> QED
  BY <1>1, <1>2, <1>3, <1>4 DEF Tidy, Match

(* So does one with a line more that fits its account.                      *)
LEMMA TidyMore ==
  ASSUME NEW lines \in Seq(Entry), NEW e \in Entry, Tidy(lines), Fits(Replayed(lines).a, e)
  PROVE  Tidy(Append(lines, e))
<1> DEFINE r == Replayed(lines)
           t == Tracked(lines)
           u == Tracked(Append(lines, e))
           fresh == {l \in Label : Fresh(lines, l)}
           later == {l \in Label : Fresh(Append(lines, e), l)}
<1>1. /\ r \in ReplayState /\ r.a \in Account /\ t \in CountState /\ CountRound(t, e, u)
      /\ Replayed(Append(lines, e)).a = Effect(r.a, e)
      /\ Replayed(Append(lines, e)).failed = r.failed
  BY ReplayedType, ReplayedMore, ReplayFits, TrackedType, TrackedMore, CountedRound
  DEF ReplayState
<1>2. Match(r.a, t, fresh, Unnamed(lines)) /\ ~r.failed /\ Fits(r.a, e)
  BY DEF Tidy
<1>3. /\ \A l \in fresh : ~(e.op = "annotate" /\ e.label = l) => l \in later
      /\ e.op = "hold" => e.label \in later
  BY FreshMore DEF Entry
<1>4. /\ Unnamed(lines) => Unnamed(Append(lines, e))
      /\ e.op = "settle" /\ e.label \in fresh => Unnamed(Append(lines, e))
  BY UnnamedMore
<1>5. Unnamed(lines) \in BOOLEAN /\ Unnamed(Append(lines, e)) \in BOOLEAN
  BY DEF Unnamed
<1> HIDE DEF r, t, u, fresh, later
<1>6. Match(Effect(r.a, e), u, later, Unnamed(Append(lines, e)))
  BY <1>1, <1>2, <1>3, <1>4, <1>5, MatchMore
<1> QED
  BY <1>1, <1>2, <1>6 DEF Tidy, u, later, r

-----------------------------------------------------------------------------
(* Processes that do not write beside one another have not been written     *)
(* past.                                                                    *)
AloneInv == ~overlap => \A w \in Alive : ~foreign[w]

(* Each kind of step keeps it so.                                           *)
LEMMA AloneNext == ASSUME LedgerInv, AloneInv, [Next]_vars PROVE AloneInv'
<1>0. foreign \in [Process -> BOOLEAN] /\ mode \in [Process -> Modes]
  BY DEF LedgerInv, TypeOK, Modes
<1> SUFFICES ASSUME ~overlap', NEW v \in Process, mode'[v] # "down" PROVE ~foreign'[v]
  BY DEF AloneInv, Alive
<1>1. ASSUME NEW w \in Process, Loads(w) PROVE ~foreign'[v]
  <2>1. \/ mode' = mode /\ foreign' = foreign
        \/ /\ \E m : mode' = [mode EXCEPT ![w] = m]
           /\ foreign' = [foreign EXCEPT ![w] = FALSE]
    BY <1>1 DEF Loads
  <2> QED
    BY <1>0, <1>1, <2>1 DEF AloneInv, Alive, Loads
<1>2. ASSUME NEW w \in Process, NEW line \in Entry, Writes(w, line) PROVE ~foreign'[v]
  BY <1>0, <1>2 DEF AloneInv, Alive, Writes, Write
<1>3. ASSUME NEW w \in Process, NEW line \in Entry, Tears(w, line) PROVE ~foreign'[v]
  BY <1>0, <1>3 DEF AloneInv, Alive, Tears, Write
<1>4. CASE Rests
  BY <1>4 DEF AloneInv, Alive, Rests
<1> QED
  BY <1>1, <1>2, <1>3, <1>4, StepKinds DEF Kinds

(* What they hold in memory is what the file says.                          *)
LEMMA Together ==
  ASSUME AloneInv, SoleWriterAgrees, ~overlap, NothingLost, NEW w \in Process, mode[w] # "down"
  PROVE  /\ Readable(file) /\ ~Replayed(ReadAll(file)).failed
         /\ OnDisk.a = account[w] /\ Replayed(ReadAll(file)).a = account[w]
  BY DEF AloneInv, SoleWriterAgrees, AgreesWithDisk, Alive, OnDisk

(* An append that loses nothing lands on a line of its own, or is torn      *)
(* behind a torn one.                                                       *)
LEMMA WriteLoses ==
  ASSUME LedgerInv, NEW w \in Process, NEW line \in Entry, Write(w, line), NothingLost'
  PROVE  /\ NothingLost /\ (line.ended => LastEnded)
         /\ LastEnded => /\ ReadAll(file) = file /\ file' = Append(file, line)
                         /\ ReadAll(file') = IF line.op = "broken" THEN file ELSE file'
                         /\ Front(file') = file /\ (line.ended => LastEnded')
         /\ ~LastEnded => /\ ReadAll(file') = Front(file) /\ Front(file') = Front(file)
                          /\ Front(file) \in Seq(Entry)
<1>1. file \in Seq(Entry) /\ file' = Appended(line)
  BY DEF LedgerInv, FileInv, Write
<1>2. CASE LastEnded
  <2>1. file' = Append(file, line)
    BY <1>1, <1>2 DEF Appended
  <2>2. NothingLost
    <3>1. \A i \in DOMAIN file : i \in DOMAIN file' /\ file'[i] = file[i]
      BY <1>1, <2>1, AppendProperties
    <3> QED
      BY <3>1 DEF NothingLost
  <2>3. ReadAll(file) = file
    BY <1>1, <1>2, <2>2, LostNothing, IntactReads
  <2>4. /\ ReadAll(file') = IF line.op = "broken" THEN file ELSE file'
        /\ Front(file') = file /\ Last(file') = line
    BY <1>1, <2>1, AppendReads, FrontOfAppend
  <2> QED
    BY <1>2, <2>1, <2>2, <2>3, <2>4 DEF LastEnded
<1>3. CASE ~LastEnded
  <2> DEFINE glued == [BrokenLine EXCEPT !.ended = line.ended]
  <2>1. file # <<>> /\ file' = Append(Front(file), glued) /\ ~Last(file).ended
    BY <1>1, <1>3 DEF LastEnded, Appended
  <2>2. glued \in Entry /\ glued.op = "broken" /\ glued.ended = line.ended
    BY BrokenType
  <2>3. /\ Front(file) \in Seq(Entry) /\ Len(Front(file)) = Len(file) - 1
        /\ \A i \in DOMAIN Front(file) : Front(file)[i] = file[i]
    BY <1>1, <2>1, FrontAndLast
  <2> HIDE DEF glued
  <2>4. /\ Front(file') = Front(file) /\ ReadAll(file') = Front(file)
        /\ Len(file') = Len(Front(file)) + 1 /\ file'[Len(file')] = glued
        /\ \A i \in 1..Len(Front(file)) : file'[i] = Front(file)[i]
    BY <2>1, <2>2, <2>3, AppendReads, FrontOfAppend, AppendProperties
  <2>5. Len(file) \in Nat /\ DOMAIN file = 1..Len(file) /\ DOMAIN file' = 1..Len(file')
        /\ Len(Front(file)) \in Nat /\ DOMAIN Front(file) = 1..Len(Front(file))
    <3>1. file' \in Seq(Entry)
      BY <2>1, <2>2, <2>3, AppendProperties
    <3> QED
      BY <1>1, <2>3, <3>1
  <2>6. ~line.ended
    BY <2>2, <2>4, <2>5 DEF NothingLost
  <2>7. NothingLost
    <3> SUFFICES ASSUME NEW i \in DOMAIN file, file[i].op = "broken" PROVE ~file[i].ended
      BY DEF NothingLost
    <3>1. CASE i = Len(file)
      BY <2>1, <3>1 DEF Last
    <3>2. CASE i # Len(file)
      <4>1. i \in 1..Len(Front(file)) /\ i \in DOMAIN file' /\ file'[i] = file[i]
        BY <2>3, <2>4, <2>5, <3>2
      <4> QED
        BY <4>1 DEF NothingLost
    <3> QED
      BY <3>1, <3>2
  <2> QED
    BY <1>3, <2>3, <2>4, <2>6, <2>7
<1> QED
  BY <1>2, <1>3

(* While nothing overlaps and nothing is lost the ledger is tidy, also with *)
(* a torn last line taken off.                                              *)
TidyInv ==
  ~overlap /\ NothingLost => Tidy(ReadAll(file)) /\ (~LastEnded => Tidy(Front(file)))

(* Each kind of step keeps it tidy.                                         *)
LEMMA TidyNext ==
  ASSUME LedgerInv, SoleWriterAgrees, AloneInv, TidyInv, [Next]_vars PROVE TidyInv'
<1> SUFFICES ASSUME ~overlap', NothingLost'
             PROVE  Tidy(ReadAll(file')) /\ (~LastEnded' => Tidy(Front(file')))
  BY DEF TidyInv
<1>1. CASE file' = file /\ overlap' = overlap
  BY <1>1 DEF TidyInv, NothingLost, LastEnded
<1>2. ASSUME NEW w \in Process, NEW line \in Entry, Write(w, line), w \in Alive,
             line.op = "broken" \/ Fits(account[w], line)
      PROVE  Tidy(ReadAll(file')) /\ (~LastEnded' => Tidy(Front(file')))
  <2>1. ~overlap /\ mode[w] # "down" /\ file \in Seq(Entry)
    BY <1>2 DEF Write, Alive, LedgerInv, FileInv
  <2>2. NothingLost
    BY <1>2, WriteLoses
  <2>3. Replayed(ReadAll(file)).a = account[w]
    BY <2>1, <2>2, Together
  <2>4. CASE LastEnded
    <3>1. /\ ReadAll(file) = file /\ file' = Append(file, line) /\ Front(file') = file
          /\ ReadAll(file') = IF line.op = "broken" THEN file ELSE file'
      BY <1>2, <2>4, WriteLoses
    <3>2. Tidy(file)
      BY <2>1, <2>2, <3>1 DEF TidyInv
    <3>3. line.op # "broken" => Tidy(file')
      BY <1>2, <2>1, <2>3, <3>1, <3>2, TidyMore
    <3> QED
      BY <3>1, <3>2, <3>3
  <2>5. CASE ~LastEnded
    <3>1. ReadAll(file') = Front(file) /\ Front(file') = Front(file)
      BY <1>2, <2>5, WriteLoses
    <3> QED
      BY <2>1, <2>2, <2>5, <3>1 DEF TidyInv
  <2> QED
    BY <2>4, <2>5
<1>3. ASSUME NEW w \in Process, NEW line \in Entry, Writes(w, line) \/ Tears(w, line)
      PROVE  Tidy(ReadAll(file')) /\ (~LastEnded' => Tidy(Front(file')))
  BY <1>2, <1>3 DEF Writes, Tears
<1> QED
  BY <1>1, <1>3, StepKinds DEF Kinds, Loads, Rests

-----------------------------------------------------------------------------
(* The pods that the ledger, the owners and a reconcile name were rented,   *)
(* and so was any pod with a bill.                                          *)
PodInv ==
  /\ file \in Seq(Citing(Rented))
  /\ \A w \in Owner : target[w] \in Rented \cup {NoPod}
  /\ \A line \in todo : line.pod \in Rented
  /\ \A p \in Pod : bill[p] > 0 => p \in Rented

(* A line that cites rented pods, torn or whole, leaves such a file.        *)
LEMMA AppendedCites ==
  ASSUME LedgerInv, NEW R, file \in Seq(Citing(R)), NEW line \in Citing(R)
  PROVE  Appended(line) \in Seq(Citing(R))
<1>1. [BrokenLine EXCEPT !.ended = line.ended] \in Citing(R)
  BY BrokenType DEF Citing
<1>2. LastEnded => Appended(line) = Append(file, line)
  BY DEF Appended
<1>3. ~LastEnded =>
        /\ Appended(line) = Append(Front(file), [BrokenLine EXCEPT !.ended = line.ended])
        /\ Front(file) \in Seq(Citing(R))
  BY FrontAndLast DEF Appended, LastEnded
<1>4. \A some \in Seq(Citing(R)), e \in Citing(R) : Append(some, e) \in Seq(Citing(R))
  BY AppendProperties
<1> QED
  BY <1>1, <1>2, <1>3, <1>4

(* Torn, a line cites what it cited.                                        *)
LEMMA TornCites ==
  ASSUME NEW R, NEW line \in Citing(R), NEW left \in {BrokenLine, line}
  PROVE  [left EXCEPT !.ended = FALSE] \in Citing(R)
<1>1. CASE left = BrokenLine
  <2>1. BrokenLine.op = "broken" /\ [BrokenLine EXCEPT !.ended = FALSE] \in Entry
    BY BrokenType DEF BrokenLine, Line, Citing
  <2>2. [BrokenLine EXCEPT !.ended = FALSE].op = "broken"
    BY DEF BrokenLine, Line
  <2> QED
    BY <1>1, <2>1, <2>2 DEF Citing
<1>2. CASE left = line
  <2>1. line \in LineType /\ [line EXCEPT !.ended = FALSE] \in Entry
    BY BrokenType DEF Citing, Entry
  <2>2. /\ [line EXCEPT !.ended = FALSE].op = line.op
        /\ [line EXCEPT !.ended = FALSE].pod = line.pod
    BY <2>1 DEF LineType
  <2> QED
    BY <1>2, <2>1, <2>2 DEF Citing
<1> QED
  BY <1>1, <1>2

(* The lines a process may tear cite rented pods.                           *)
LEMMA NextLinesCite ==
  ASSUME LedgerInv, PodInv, NEW w \in Process, mode[w] # "down", NEW line \in NextLines(w)
  PROVE  line \in Citing(Rented)
<1>1. line \in Entry
  BY NextLinesFit
<1>2. CASE mode[w] \in {"replay", "ready"}
  <2>1. line.op \in {"settle", "hold"}
    BY <1>2 DEF NextLines, ReplayedLine, HoldLine, Line
  <2> QED
    BY <1>1, <2>1 DEF Citing
<1>5. CASE mode[w] = "held"
  <2>1. line.op \in {"settle", "release"}
    BY <1>5 DEF NextLines, ReleaseLine, SettleLine, Line
  <2> QED
    BY <1>1, <2>1 DEF Citing
<1>3. CASE mode[w] \in {"rented", "ended"}
  <2>1. w \in Owner /\ target[w] \in Rented
    BY <1>3 DEF LedgerInv, OwnerInv, AtMode, PodInv, TypeOK
  <2>2. line.op = "settle" \/ line.pod = target[w]
    BY <1>3 DEF NextLines, AnnotateLine, SettleLine, Line
  <2> QED
    BY <1>1, <2>1, <2>2 DEF Citing
<1>4. CASE mode[w] = "correct"
  BY <1>1, <1>4 DEF NextLines, PodInv, Citing
<1> QED
  BY <1>2, <1>3, <1>4, <1>5 DEF NextLines

(* Each step keeps the names among the rented pods.                         *)
LEMMA PodNext == ASSUME LedgerInv, PodInv, [Next]_vars PROVE PodInv'
<1>0. /\ pods \in [Pod -> {"fresh", "billing", "gone"}] /\ bill \in [Pod -> Nat]
      /\ target \in [Owner -> Pod \cup {NoPod}] /\ Rented \subseteq Pod
      /\ Owner \subseteq Process /\ Label = Owner /\ Recon \in Process
      /\ file \in Seq(Citing(Rented)) /\ WaitCost \in Int /\ Estimate \in Nat
  BY AmountAssumption DEF LedgerInv, TypeOK, Rented, PodInv, Process, Label
<1> DEFINE Kept == file' = file \/ \E line \in Citing(Rented) : file' = Appended(line)
<1>a. ASSUME Kept, Rented \subseteq Rented', \A w \in Owner : target'[w] \in Rented' \cup {NoPod},
             \A line \in todo' : line.pod \in Rented', \A p \in Pod : bill'[p] > 0 => p \in Rented'
      PROVE  PodInv'
  <2>1. file' \in Seq(Citing(Rented))
    BY <1>0, <1>a, AppendedCites
  <2>2. Citing(Rented) \subseteq Citing(Rented')
    BY <1>a DEF Citing
  <2>3. file' \in Seq(Citing(Rented'))
    BY <2>1, <2>2, SeqMonotonic
  <2> QED
    BY <1>a, <2>3 DEF PodInv, Citing
<1>b. ASSUME Kept, pods' = pods, bill' = bill, \A line \in todo' : line.pod \in Rented,
             \A w \in Owner : target'[w] \in {target[w], NoPod}
      PROVE  PodInv'
  <2>1. Rented' = Rented
    BY <1>b DEF Rented
  <2> QED
    BY <1>a, <1>b, <2>1 DEF PodInv
<1>c. /\ \A line \in todo : line.pod \in Rented
      /\ \A w \in Owner : target[w] \in Rented \cup {NoPod}
      /\ \A p \in Pod : bill[p] > 0 => p \in Rented
  BY DEF PodInv
<1>d. \A line \in Entry : line.op \in {"hold", "settle", "release"} => line \in Citing(Rented)
  BY DEF Citing
<1> HIDE DEF Kept
<1>1. ASSUME NEW w \in Process, Start(w) PROVE PodInv'
  <2>1. PICK swept \in SUBSET Billing :
          pods' = [p \in Pod |-> IF p \in swept THEN "gone" ELSE pods[p]]
    BY <1>1 DEF Start
  <2>2. Rented \subseteq Rented'
    BY <1>0, <2>1 DEF Rented
  <2> QED
    BY <1>a, <1>c, <1>1, <2>2 DEF Start, Kept
<1>2. ASSUME NEW w \in Process, ReplaySettles(w) PROVE PodInv'
  <2>1. PICK l \in OpenIn(w) : \E actual \in ReplayCosts(w, l) : Write(w, ReplayedLine(l, actual))
    BY <1>2 DEF ReplaySettles
  <2>2. PICK actual \in ReplayCosts(w, l) : Write(w, ReplayedLine(l, actual))
    BY <2>1
  <2>3. l \in Label /\ actual \in Int
    BY ReplayCostsType
  <2>4. ReplayedLine(l, actual) \in Citing(Rented)
    BY <1>d, <2>3, ReplayedFits DEF ReplayedLine, Line
  <2>5. Kept
    BY <2>2, <2>4 DEF Write, Kept
  <2> QED
    BY <1>b, <1>c, <1>2, <2>5 DEF ReplaySettles, podVars
<1>3. ASSUME NEW w \in Process, Crash(w) PROVE PodInv'
  BY <1>0, <1>b, <1>c, <1>3 DEF Crash, Dies, Kept
<1>4. ASSUME NEW w \in Process, CrashAppending(w) PROVE PodInv'
  <2>1. PICK line \in NextLines(w) :
          \E left \in {BrokenLine, line} : Write(w, [left EXCEPT !.ended = FALSE])
    BY <1>4 DEF CrashAppending
  <2>2. PICK left \in {BrokenLine, line} : Write(w, [left EXCEPT !.ended = FALSE])
    BY <2>1
  <2>3. mode[w] # "down"
    BY <2>1 DEF NextLines
  <2>4. [left EXCEPT !.ended = FALSE] \in Citing(Rented)
    BY <2>1, <2>2, <2>3, NextLinesCite, TornCites
  <2>5. Kept
    BY <2>2, <2>4 DEF Write, Kept
  <2> QED
    BY <1>0, <1>b, <1>c, <1>4, <2>5 DEF CrashAppending, Dies
<1>5. ASSUME NEW w \in Owner, Holds(w) PROVE PodInv'
  <2>1. HoldLine(w, Estimate) \in Citing(Rented)
    BY <1>0, <1>d, HoldFits DEF HoldLine, Line
  <2>2. Kept
    BY <1>5, <2>1 DEF Holds, Write, Kept
  <2> QED
    BY <1>b, <1>c, <1>5, <2>2 DEF Holds, podVars
<1>6. ASSUME NEW w \in Owner, RentsNothing(w) PROVE PodInv'
  <2>1. ReleaseLine(w) \in Citing(Rented) /\ SettleLine(w, WaitCost) \in Citing(Rented)
    BY <1>0, <1>d, ReleaseFits, SettleFits DEF ReleaseLine, SettleLine, Line
  <2>2. Kept
    BY <1>6, <2>1 DEF RentsNothing, Write, Kept
  <2> QED
    BY <1>b, <1>c, <1>6, <2>2 DEF RentsNothing, podVars
<1>7. ASSUME NEW w \in Owner, Annotates(w) PROVE PodInv'
  <2>1. target[w] \in Rented /\ target[w] \in Pod
    BY <1>0, <1>c, <1>7 DEF Annotates, LedgerInv, TypeOK
  <2>2. AnnotateLine(w, target[w]) \in Citing(Rented)
    BY <1>0, <2>1, AnnotateFits DEF AnnotateLine, Line, Citing
  <2>3. Kept
    BY <1>7, <2>2 DEF Annotates, Write, Kept
  <2> QED
    BY <1>b, <1>c, <1>7, <2>3 DEF Annotates, podVars
<1>8. ASSUME NEW w \in Owner, Ends(w) PROVE PodInv'
  <2>1. pods' = [pods EXCEPT ![target[w]] = "gone"]
    BY <1>8 DEF Ends
  <2>2. Rented \subseteq Rented'
    BY <1>0, <2>1 DEF Rented
  <2> QED
    BY <1>a, <1>c, <1>8, <2>2 DEF Ends, Kept
<1>9. ASSUME NEW w \in Owner, Settles(w) PROVE PodInv'
  <2>1. target[w] \in Pod
    BY <1>9 DEF Settles, LedgerInv, TypeOK
  <2>2. PICK actual \in PodCosts(w) : Write(w, SettleLine(w, actual))
    BY <1>9 DEF Settles
  <2>5. actual \in Int
    BY <2>1, PodCostsType
  <2>3. SettleLine(w, actual) \in Citing(Rented)
    BY <1>0, <1>d, <2>5, SettleFits DEF SettleLine, Line
  <2>4. Kept
    BY <2>2, <2>3 DEF Write, Kept
  <2> QED
    BY <1>0, <1>b, <1>c, <1>9, <2>4 DEF Settles
<1>10. ASSUME NEW w \in Owner, NEW p \in Pod, Rents(w, p) PROVE PodInv'
  <2>1. pods' = [pods EXCEPT ![p] = "billing"] /\ target' = [target EXCEPT ![w] = p]
    BY <1>10 DEF Rents
  <2>2. Rented \subseteq Rented' /\ p \in Rented'
    BY <1>0, <2>1 DEF Rented
  <2> QED
    BY <1>0, <1>a, <1>c, <1>10, <2>1, <2>2 DEF Rents, Kept
<1>11. CASE ReadsBill
  <2>1. PICK posted \in SUBSET Rented :
          \/ todo' = {SpendLine(p, bill[p]) :
                       p \in {q \in posted \ Tracked(ReadAll(file)).pods : bill[q] > 0}}
                    \cup {CorrectLine(p, bill[p] - Tracked(ReadAll(file)).settled[p]) :
                       p \in {q \in posted \cap Tracked(ReadAll(file)).pods :
                                bill[q] # Tracked(ReadAll(file)).settled[q]}}
             /\ target' = target
          \/ Dies(Recon)
    BY <1>11 DEF ReadsBill
  <2>2. \A line \in todo' : line.pod \in Rented
    BY <1>c, <2>1 DEF Dies, SpendLine, CorrectLine, Line
  <2>3. target' = target
    BY <2>1 DEF Dies
  <2> QED
    BY <1>b, <1>11, <2>2, <2>3 DEF ReadsBill, Kept
<1>12. CASE Reconciles
  BY <1>b, <1>12 DEF Reconciles, Dies, Kept
<1>13. ASSUME NEW line \in todo, Corrects(line) PROVE PodInv'
  <2>1. line \in Citing(Rented)
    BY <1>c DEF Citing, LedgerInv, FileInv
  <2>2. Kept
    BY <1>13, <2>1 DEF Corrects, Write, Dies, Kept
  <2>3. todo' \subseteq todo /\ target' = target
    BY <1>13 DEF Corrects, Dies
  <2> QED
    BY <1>b, <1>c, <1>13, <2>2, <2>3 DEF Corrects
<1>14. CASE Tick
  <2>1. /\ bill' = [p \in Pod |-> IF pods[p] = "billing" THEN bill[p] + 1 ELSE bill[p]]
        /\ pods' = pods
    BY <1>14 DEF Tick
  <2>2. Rented' = Rented /\ \A p \in Pod : bill'[p] > 0 => p \in Rented
    BY <1>0, <1>c, <2>1 DEF Rented
  <2> QED
    BY <1>a, <1>c, <1>14, <2>2 DEF Tick, Kept
<1>15. CASE UNCHANGED vars
  BY <1>b, <1>c, <1>15 DEF vars, podVars, Kept
<1>16. [Next]_vars
  OBVIOUS
<1> QED
  BY <1>1, <1>2, <1>3, <1>4, <1>5, <1>6, <1>7, <1>8, <1>9, <1>10, <1>11, <1>12, <1>13, <1>14,
     <1>15, <1>16
  DEF Next

-----------------------------------------------------------------------------
(* What is settled for a pod and what is still to append for it are its     *)
(* bill.                                                                    *)
PaysUp(rest, owed, settled) ==
  /\ \A p \in Pod : (\A line \in rest : line.pod # p) => settled[p] = owed[p]
  /\ \A line \in rest : settled[line.pod] + line.amount = owed[line.pod]
  /\ \A x, y \in rest : x.pod = y.pod => x = y

(* So it is when the reconcile has read the bills.                          *)
LEMMA BillRead ==
  ASSUME NEW R \in SUBSET Pod, NEW P \in SUBSET R,
         NEW owed \in [Pod -> Nat], NEW settled \in [Pod -> Int], NEW rest,
         \A p \in Pod : p \notin P => settled[p] = 0, \A p \in Pod : owed[p] > 0 => p \in R,
         rest = {SpendLine(p, owed[p]) : p \in {q \in R \ P : owed[q] > 0}}
                \cup {CorrectLine(p, owed[p] - settled[p]) :
                      p \in {q \in R \cap P : owed[q] # settled[q]}}
  PROVE  PaysUp(rest, owed, settled)
<1> DEFINE Due(p) == IF p \in P THEN CorrectLine(p, owed[p] - settled[p]) ELSE SpendLine(p, owed[p])
<1>1. \A p \in Pod : Due(p).pod = p /\ settled[p] + Due(p).amount = owed[p]
  BY DEF CorrectLine, SpendLine, Line
<1>2. \A p \in Pod : owed[p] # settled[p] => Due(p) \in rest
  OBVIOUS
<1>3. \A line \in rest : \E p \in Pod : line = Due(p)
  OBVIOUS
<1> HIDE DEF Due
<1>4. ASSUME NEW p \in Pod, \A line \in rest : line.pod # p PROVE settled[p] = owed[p]
  BY <1>1, <1>2, <1>4
<1>5. ASSUME NEW line \in rest PROVE settled[line.pod] + line.amount = owed[line.pod]
  <2>1. PICK p \in Pod : line = Due(p)
    BY <1>3, <1>5
  <2> QED
    BY <1>1, <2>1
<1>6. ASSUME NEW x \in rest, NEW y \in rest, x.pod = y.pod PROVE x = y
  <2>1. PICK p \in Pod : x = Due(p)
    BY <1>3, <1>6
  <2>2. PICK q \in Pod : y = Due(q)
    BY <1>3, <1>6
  <2> QED
    BY <1>1, <1>6, <2>1, <2>2
<1> QED
  BY <1>4, <1>5, <1>6 DEF PaysUp

(* And it stays so as a line of the rest is appended.                       *)
LEMMA LinePaid ==
  ASSUME NEW owed \in [Pod -> Nat], NEW settled \in [Pod -> Int], NEW rest, NEW line \in rest,
         PaysUp(rest, owed, settled), \A x \in rest : x.pod \in Pod /\ x.amount \in Int
  PROVE  PaysUp(rest \ {line}, owed,
                [settled EXCEPT ![line.pod] = settled[line.pod] + line.amount])
<1> DEFINE more == [settled EXCEPT ![line.pod] = settled[line.pod] + line.amount]
           p == line.pod
<1>1. p \in Pod /\ more[p] = owed[p] /\ \A q \in Pod : q # p => more[q] = settled[q]
  BY DEF PaysUp
<1>2. \A x \in rest \ {line} : x.pod \in Pod /\ x.pod # p
  BY DEF PaysUp
<1> HIDE DEF more, p
<1>3. ASSUME NEW q \in Pod, \A x \in rest \ {line} : x.pod # q PROVE more[q] = owed[q]
  <2>1. CASE q # p
    <3>1. \A x \in rest : x.pod # q
      BY <1>3, <2>1 DEF p
    <3> QED
      BY <1>1, <2>1, <3>1 DEF PaysUp
  <2> QED
    BY <1>1, <2>1
<1>4. \A x \in rest \ {line} : more[x.pod] + x.amount = owed[x.pod]
  BY <1>1, <1>2 DEF PaysUp
<1> QED
  BY <1>3, <1>4 DEF PaysUp, more

(* A reconcile that saw every final bill is at work, or was the last to     *)
(* write: nothing bills or is held, and the pods are paid up with what it   *)
(* has still to append.                                                     *)
Closing == reconciled = "yes" \/ (reconciled = "begun" /\ mode[Recon] = "correct")

Billed ==
  /\ Billing = {} /\ NothingHeld(OnDisk.a)
  /\ PaysUp(todo, bill, Tracked(ReadAll(file)).settled)

BilledInv ==
  /\ reconciled = "yes" => mode[Recon] # "correct"
  /\ ~overlap /\ NothingLost /\ Closing => Billed

(* Nobody is at work then, and nobody has anything to replay.               *)
LEMMA Quiet ==
  ASSUME LedgerInv, SoleWriterAgrees, AloneInv, BilledInv, ~overlap, NothingLost, Closing
  PROVE  /\ Billing = {} /\ \A w \in Owner : mode[w] \notin Busy
         /\ \A w \in Process : mode[w] # "down" => OpenIn(w) = {}
<1>1. Billed
  BY DEF BilledInv
<1>2. \A w \in Process : mode[w] # "down" => NothingHeld(account[w])
  BY <1>1, Together DEF Billed
<1>3. ASSUME NEW w \in Owner, mode[w] \in Busy PROVE FALSE
  <2>1. w \in Process /\ w \in Label /\ mode[w] # "down"
    BY <1>3 DEF Process, Label, Busy
  <2>2. OnlyHolds(account[w], w)
    BY <1>3, <2>1 DEF LedgerInv, OwnerInv, AtMode, Busy
  <2> QED
    BY <1>2, <2>1, <2>2 DEF OnlyHolds, NothingHeld
<1> QED
  BY <1>1, <1>2, <1>3 DEF Billed, OpenIn, OpenOf, NothingHeld

(* The reconcile's reading begins it.                                       *)
LEMMA BilledRead ==
  ASSUME LedgerInv, SoleWriterAgrees, AloneInv, TidyInv, PodInv, ReadsBill,
         ~overlap, NothingLost, reconciled' = "begun"
  PROVE  Billed'
<1> DEFINE tracked == Tracked(ReadAll(file))
<1>1. /\ Billing = {} /\ pods' = pods /\ bill' = bill /\ file' = file /\ mode[Recon] = "ready"
      /\ todo' = {SpendLine(p, bill[p]) : p \in {q \in Rented \ tracked.pods : bill[q] > 0}}
                 \cup {CorrectLine(p, bill[p] - tracked.settled[p]) :
                       p \in {q \in Rented \cap tracked.pods : bill[q] # tracked.settled[q]}}
  BY DEF ReadsBill
<1>2. Recon \in Process /\ NothingHeld(account[Recon])
  BY <1>1 DEF Process, LedgerInv, OwnerInv, AtMode
<1>3. NothingHeld(OnDisk.a)
  BY <1>1, <1>2, Together
<1>4. /\ Rented \in SUBSET Pod /\ bill \in [Pod -> Nat] /\ ReadAll(file) \in Seq(Entry)
      /\ \A p \in Pod : bill[p] > 0 => p \in Rented
  BY ReadAllType DEF Rented, LedgerInv, TypeOK, FileInv, PodInv
<1>5. /\ tracked.settled \in [Pod -> Int]
      /\ \A p \in Pod : p \notin tracked.pods => tracked.settled[p] = 0
  BY <1>4, TrackedType DEF CountState, TidyInv, Tidy, Match
<1>6. tracked.pods \in SUBSET Rented
  <2>1. ReadAll(file) \in Seq(Citing(Rented))
    BY FrontAndLast DEF PodInv, ReadAll
  <2> QED
    BY <1>4, <2>1, CitedPods
<1> HIDE DEF tracked
<1>7. PaysUp(todo', bill, tracked.settled)
  BY <1>1, <1>4, <1>5, <1>6, BillRead
<1> QED
  BY <1>1, <1>3, <1>7 DEF Billed, Billing, OnDisk, tracked

(* Its every correction brings it nearer.                                   *)
LEMMA BilledCorrect ==
  ASSUME LedgerInv, SoleWriterAgrees, AloneInv, LedgerInv', SoleWriterAgrees', AloneInv', Billed,
         NEW line \in todo, Corrects(line), Write(Recon, line), ~overlap', NothingLost',
         todo' = todo \ {line}, UNCHANGED <<mode, pods, bill>>
  PROVE  Billed'
<1>1. /\ line \in Entry /\ line.op \in {"spend", "correct"} /\ line.ended /\ Recon \in Process
      /\ file \in Seq(Entry) /\ bill \in [Pod -> Nat] /\ mode'[Recon] = "correct"
      /\ \A x \in todo : x.pod \in Pod /\ x.amount \in Int
  BY DEF LedgerInv, FileInv, TypeOK, Process, Corrects, Entry, LineType
<1>2. LastEnded /\ ReadAll(file) = file /\ file' = Append(file, line) /\ ReadAll(file') = file'
  BY <1>1, WriteLoses
<1> DEFINE t == Tracked(file)
           u == Tracked(file')
<1>3. t \in CountState /\ CountRound(t, line, u)
  BY <1>1, <1>2, TrackedType, TrackedMore, CountedRound
<1>4. t.settled \in [Pod -> Int] /\ PaysUp(todo, bill, t.settled)
  BY <1>2, <1>3 DEF CountState, Billed
<1> HIDE DEF t, u
<1>5. u.settled = [t.settled EXCEPT ![line.pod] = t.settled[line.pod] + line.amount]
  BY <1>1, <1>3 DEF CountRound, Adds
<1>6. PaysUp(todo \ {line}, bill, u.settled)
  <2>1. PaysUp(todo \ {line}, bill,
               [t.settled EXCEPT ![line.pod] = t.settled[line.pod] + line.amount])
    BY <1>1, <1>4, LinePaid
  <2> QED
    BY <1>5, <2>1
<1>7. NothingHeld(account'[Recon]) /\ OnDisk'.a = account'[Recon]
  <2>1. NothingHeld(account'[Recon])
    BY <1>1 DEF LedgerInv, OwnerInv, AtMode, NothingHeld
  <2>2. Recon \in Alive' /\ ~foreign'[Recon]
    BY <1>1 DEF AloneInv, Alive
  <2> QED
    BY <2>1, <2>2 DEF SoleWriterAgrees, AgreesWithDisk
<1>8. Billing' = {}
  BY DEF Billed, Billing
<1> QED
  BY <1>2, <1>6, <1>7, <1>8 DEF Billed, NothingHeld, u

(* Every other step leaves it so, or ends it.                               *)
LEMMA BilledNext ==
  ASSUME LedgerInv, SoleWriterAgrees, AloneInv, TidyInv, PodInv, BilledInv,
         LedgerInv', SoleWriterAgrees', AloneInv', [Next]_vars
  PROVE  BilledInv'
<1>0. /\ Owner \subseteq Process /\ Recon \in Process /\ Recon \notin Owner
      /\ mode \in [Process -> Modes] /\ mode[Recon] \notin Busy
      /\ todo # {} => mode[Recon] = "correct"
      /\ \A p \in Pod : pods[p] \in {"fresh", "billing", "gone"}
      /\ pods \in [Pod -> {"fresh", "billing", "gone"}]
  BY ProcessAssumption DEF Process, LedgerInv, TypeOK, Modes, OwnerInv, AtMode, Busy
<1>q. ~overlap /\ NothingLost /\ Closing =>
        /\ Billing = {} /\ \A w \in Owner : mode[w] \notin Busy
        /\ \A w \in Process : mode[w] # "down" => OpenIn(w) = {}
  BY Quiet
<1>a. ASSUME UNCHANGED <<file, overlap, reconciled>>,
             mode'[Recon] = "correct" => mode[Recon] = "correct",
             ~overlap /\ NothingLost /\ Closing => UNCHANGED <<pods, bill>>,
             todo' = todo \/ (todo' = {} /\ mode'[Recon] # "correct")
      PROVE  BilledInv'
  <2>1. reconciled' = "yes" => mode'[Recon] # "correct"
    BY <1>a DEF BilledInv
  <2>2. ASSUME ~overlap', NothingLost', Closing' PROVE Billed'
    <3>1. ~overlap /\ NothingLost /\ Closing
      BY <1>a, <2>2 DEF NothingLost, Closing
    <3>2. todo' = todo
      BY <1>0, <1>a, <2>2 DEF Closing, BilledInv
    <3> QED
      BY <1>a, <3>1, <3>2 DEF BilledInv, Billed, Billing, OnDisk
  <2> QED
    BY <2>1, <2>2 DEF BilledInv
<1>b. ASSUME reconciled' = "no" PROVE BilledInv'
  BY <1>b DEF BilledInv, Closing
<1>c. ASSUME NEW w \in Owner, NEW line, Write(w, line) PROVE BilledInv'
  BY <1>0, <1>b, <1>c DEF Write
<1>d. ASSUME NEW line \in Entry, Write(Recon, line), mode'[Recon] # "correct",
             mode[Recon] # "down", OpenIn(Recon) # {} \/ mode[Recon] = "correct"
      PROVE  BilledInv'
  <2> SUFFICES ASSUME ~overlap', NothingLost', Closing' PROVE FALSE
    BY <1>d DEF BilledInv
  <2>1. NothingLost /\ ~overlap
    BY <1>0, <1>d, WriteLoses DEF Write
  <2>2. reconciled = "yes"
    BY <1>d DEF Write, Closing
  <2> QED
    BY <1>0, <1>d, <1>q, <2>1, <2>2 DEF Closing, BilledInv
<1>1. ASSUME NEW w \in Process, Start(w) PROVE BilledInv'
  <2>1. PICK swept \in SUBSET Billing :
          pods' = [p \in Pod |-> IF p \in swept THEN "gone" ELSE pods[p]]
    BY <1>1 DEF Start
  <2>2. Billing = {} => pods' = pods
    BY <1>0, <2>1
  <2>3. mode'[Recon] = "correct" => mode[Recon] = "correct"
    BY <1>0, <1>1 DEF Start
  <2> QED
    BY <1>a, <1>q, <1>1, <2>2, <2>3 DEF Start
<1>2. ASSUME NEW w \in Process, ReplaySettles(w) PROVE BilledInv'
  <2>1. PICK l \in OpenIn(w) : \E actual \in ReplayCosts(w, l) : Write(w, ReplayedLine(l, actual))
    BY <1>2 DEF ReplaySettles
  <2>2. PICK actual \in ReplayCosts(w, l) : Write(w, ReplayedLine(l, actual))
    BY <2>1
  <2>3. ReplayedLine(l, actual) \in Entry
    <3>1. l \in Label /\ actual \in Int
      BY ReplayCostsType
    <3> QED
      BY <3>1, ReplayedFits
  <2>4. mode[w] # "down" /\ mode'[w] # "correct"
    BY <1>0, <1>2 DEF ReplaySettles
  <2>5. w = Recon \/ w \in Owner
    BY DEF Process
  <2> QED
    BY <1>c, <1>d, <2>2, <2>3, <2>4, <2>5
<1>3. ASSUME NEW w \in Process, Crash(w) PROVE BilledInv'
  BY <1>0, <1>a, <1>3 DEF Crash, Dies
<1>4. ASSUME NEW w \in Process, CrashAppending(w) PROVE BilledInv'
  <2>1. PICK line \in NextLines(w) :
          \E left \in {BrokenLine, line} : Write(w, [left EXCEPT !.ended = FALSE])
    BY <1>4 DEF CrashAppending
  <2>2. PICK left \in {BrokenLine, line} : Write(w, [left EXCEPT !.ended = FALSE])
    BY <2>1
  <2>3. mode[w] # "down" /\ mode'[w] = "down"
    BY <1>0, <1>4 DEF CrashAppending, Dies, NextLines
  <2>4. [left EXCEPT !.ended = FALSE] \in Entry
    BY <2>1, <2>2, <2>3, NextLinesFit, BrokenType
  <2>5. w = Recon => OpenIn(Recon) # {} \/ mode[Recon] = "correct"
    BY <1>0, <2>1 DEF NextLines, Busy
  <2>6. w = Recon \/ w \in Owner
    BY DEF Process
  <2> QED
    BY <1>c, <1>d, <2>2, <2>3, <2>4, <2>5, <2>6
<1>5. ASSUME NEW w \in Owner, Holds(w) \/ RentsNothing(w) \/ Annotates(w) \/ Settles(w)
      PROVE  BilledInv'
  <2>1. \E line : Write(w, line)
    BY <1>5 DEF Holds, RentsNothing, Annotates, Settles
  <2> QED
    BY <1>c, <2>1
<1>6. ASSUME NEW w \in Owner, Ends(w) PROVE BilledInv'
  BY <1>0, <1>a, <1>q, <1>6 DEF Ends, Busy
<1>7. ASSUME NEW w \in Owner, NEW p \in Pod, Rents(w, p) PROVE BilledInv'
  BY <1>0, <1>a, <1>q, <1>7 DEF Rents, Busy
<1>8. CASE ReadsBill
  <2>1. CASE reconciled' = "no"
    BY <1>b, <2>1
  <2>2. CASE reconciled' = "begun"
    <3> SUFFICES ASSUME ~overlap', NothingLost' PROVE Billed'
      BY <2>2 DEF BilledInv
    <3>1. ~overlap /\ NothingLost
      BY <1>8 DEF ReadsBill, NothingLost
    <3> QED
      BY <1>8, <2>2, <3>1, BilledRead
  <2> QED
    BY <1>8, <2>1, <2>2 DEF ReadsBill
<1>9. CASE Reconciles
  <2>1. /\ mode[Recon] = "correct" /\ todo = {} /\ todo' = {} /\ mode'[Recon] = "down"
        /\ UNCHANGED <<file, pods, bill, overlap>>
        /\ reconciled' = "yes" => reconciled = "begun"
    BY <1>0, <1>9 DEF Reconciles, Dies
  <2>2. ASSUME ~overlap', NothingLost', Closing' PROVE Billed'
    <3>1. ~overlap /\ NothingLost /\ Closing
      BY <2>1, <2>2 DEF NothingLost, Closing
    <3> QED
      BY <2>1, <3>1 DEF BilledInv, Billed, Billing, OnDisk
  <2> QED
    BY <2>1, <2>2 DEF BilledInv
<1>10. ASSUME NEW line \in todo, Corrects(line) PROVE BilledInv'
  <2>0. mode[Recon] = "correct" /\ UNCHANGED <<pods, bill>> /\ line \in Entry
    BY <1>10 DEF Corrects, LedgerInv, FileInv
  <2>1. CASE Dies(Recon) /\ UNCHANGED <<file, overlap, reconciled>>
    BY <1>0, <1>a, <2>0, <2>1 DEF Dies
  <2>2. CASE Write(Recon, line) /\ todo' = todo \ {line} /\ mode' = mode
    <3>1. reconciled' = reconciled /\ reconciled # "yes"
      BY <2>0, <2>2 DEF Write, BilledInv
    <3>2. ASSUME ~overlap', NothingLost', Closing' PROVE Billed'
      <4>1. ~overlap /\ NothingLost /\ Closing
        BY <1>0, <2>0, <2>2, <3>1, <3>2, WriteLoses DEF Write, Closing
      <4>2. Billed
        BY <4>1 DEF BilledInv
      <4> QED
        BY <1>10, <2>0, <2>2, <3>2, <4>2, BilledCorrect
    <3> QED
      BY <3>1, <3>2 DEF BilledInv
  <2> QED
    BY <1>10, <2>1, <2>2 DEF Corrects
<1>11. CASE Tick
  BY <1>a, <1>q, <1>11 DEF Tick
<1>12. CASE UNCHANGED vars
  BY <1>a, <1>12 DEF vars, podVars
<1>13. [Next]_vars
  OBVIOUS
<1> QED
  BY <1>1, <1>2, <1>3, <1>4, <1>5, <1>6, <1>7, <1>8, <1>9, <1>10, <1>11, <1>12, <1>13 DEF Next

(* It all holds of the empty ledger.                                        *)
LEMMA BillInit == Init => AloneInv /\ TidyInv /\ PodInv /\ BilledInv
<1> SUFFICES ASSUME Init PROVE AloneInv /\ TidyInv /\ PodInv /\ BilledInv
  OBVIOUS
<1>1. file = <<>> /\ LastEnded /\ ReadAll(file) = <<>>
  BY DEF Init, LastEnded, ReadAll
<1>2. AloneInv /\ BilledInv
  BY DEF Init, AloneInv, Alive, BilledInv, Closing
<1>3. TidyInv
  BY <1>1, TidyNothing DEF TidyInv
<1>4. PodInv
  BY <1>1, EmptySeq DEF Init, PodInv
<1> QED
  BY <1>2, <1>3, <1>4

(* A tidy ledger whose pods are paid up is the bill.                        *)
LEMMA BilledIsReconciled ==
  ASSUME LedgerInv, TidyInv, BilledInv PROVE ReconciledIsBilled
<1> SUFFICES ASSUME reconciled = "yes", ~overlap, NothingLost, ~UnnamedSettle
             PROVE  OnDisk.a.spent = Total
  BY DEF ReconciledIsBilled
<1> DEFINE lines == ReadAll(file)
           settled == Tracked(lines).settled
<1>1. Billed /\ Tidy(lines) /\ todo = {}
  BY DEF BilledInv, Closing, TidyInv, LedgerInv, TypeOK
<1>2. file \in Seq(Entry) /\ lines \in Seq(Entry) /\ bill \in [Pod -> Nat]
  BY ReadAllType DEF LedgerInv, FileInv, TypeOK
<1>3. \A i \in DOMAIN lines : i \in DOMAIN file /\ lines[i] = file[i]
  <2>1. CASE lines = file
    BY <2>1
  <2>2. CASE lines = Front(file) /\ file # <<>>
    <3>1. /\ Front(file) \in Seq(Entry) /\ Len(Front(file)) = Len(file) - 1
          /\ \A i \in DOMAIN Front(file) : Front(file)[i] = file[i]
      BY <1>2, <2>2, FrontAndLast
    <3>2. Len(file) \in Nat /\ DOMAIN file = 1..Len(file)
          /\ DOMAIN Front(file) = 1..Len(Front(file))
      BY <1>2, <3>1
    <3> QED
      BY <2>2, <3>1, <3>2
  <2> QED
    BY <2>1, <2>2 DEF ReadAll
<1>4. ~Unnamed(lines)
  <2> SUFFICES ASSUME Unnamed(lines) PROVE UnnamedSettle
    OBVIOUS
  <2>1. PICK i, j \in DOMAIN lines :
          /\ lines[i].op = "hold" /\ lines[j].op = "settle" /\ lines[j].label = lines[i].label
          /\ i < j
          /\ \A k \in i..j : ~(lines[k].op = "annotate" /\ lines[k].label = lines[i].label)
    BY DEF Unnamed
  <2>2. i..j \subseteq DOMAIN lines
    BY <1>2, <2>1
  <2> HIDE DEF lines
  <2> QED
    BY <1>3, <2>1, <2>2 DEF UnnamedSettle
<1>5. settled \in [Pod -> Int] /\ \A p \in Pod : settled[p] = bill[p]
  BY <1>1, <1>2, TrackedType DEF CountState, Billed, PaysUp
<1>6. OnDisk.a.spent = SumFunction(settled)
  BY <1>1, <1>4 DEF OnDisk, Tidy, Match
<1> HIDE DEF settled, lines
<1>7. settled = bill
  BY <1>2, <1>5
<1> QED
  BY <1>6, <1>7 DEF Total

(* After a reconcile that saw every pod's final bill, the account is the    *)
(* bill, however many reconciles, owners and replays were cut off before.   *)
THEOREM ReconcileBringsToBill == Spec => []ReconciledIsBilled
<1> DEFINE I == LedgerInv /\ SyncedInv /\ SoleWriterAgrees
           B == AloneInv /\ TidyInv /\ PodInv /\ BilledInv
<1>1. I /\ I' /\ B /\ [Next]_vars => B'
  BY AloneNext, TidyNext, PodNext, BilledNext
<1>2. Init => B
  BY BillInit
<1>3. I /\ B => ReconciledIsBilled
  BY BilledIsReconciled
<1>4. Spec => []I
  BY LedgerInductive
<1> QED
  BY <1>1, <1>2, <1>3, <1>4, PTL DEF Spec

=============================================================================
