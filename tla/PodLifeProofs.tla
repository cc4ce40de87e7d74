---------------------------- MODULE PodLifeProofs ----------------------------
(***************************************************************************)
(* Proofs about every life of a pod (PodLife).  Its start: what is kept of *)
(* its logs, and that its host is given up for real silence only (ReadInv  *)
(* bounds the cursors and the files; SilenceInv relates the moment a line  *)
(* was written to the cursors and to what the watch holds).  Its volume:   *)
(* the storage is paid up to its last entry.  Its engine: what is recorded *)
(* of a boot is the model's own (as long as no command ran twice and no    *)
(* download outlived its wait, the pod runs at most one download, the one  *)
(* that is polled, and at most one engine, the one launched last).         *)
(* Its weights: a model with a good staged event is on the volume, which   *)
(* has room for what a stager downloads.  Its task suite: the needle fills *)
(* the context, because the measured filler is at most one correction away *)
(* (CheapFirst, DearFirst).                                                *)
(***************************************************************************)
EXTENDS PodLife, FoldLemmas, SequenceTheorems, TLAPS

(* The types of what PodStart keeps, as far as the proofs need them.       *)
ReadTypes ==
  /\ now \in Nat /\ cuts \in Nat
  /\ wrote \in [Source -> Seq(Nat)]
  /\ cursor \in [Source -> Nat]
  /\ kept \in [Source -> Seq(Nat)]
  /\ \A s \in Source : cursor[s] <= Len(wrote[s])

(* The lines of a log file are in order and none is beyond the cursor.     *)
KeptInv ==
  \A s \in Source :
    /\ \A i \in 1..Len(kept[s]) : kept[s][i] <= cursor[s]
    /\ \A i, j \in 1..Len(kept[s]) : i < j => kept[s][i] < kept[s][j]
    /\ cursor[s] - Len(kept[s]) <= cuts

ReadInv == ReadTypes /\ KeptInv

-----------------------------------------------------------------------------
(* A file of increasing numbers up to c, then c + 1 to c + n, is one up to b. *)
LEMMA Extended ==
  ASSUME NEW a \in Seq(Nat), NEW c \in Nat, NEW n \in Nat, NEW b \in Nat,
         c + n <= b,
         \A i \in 1..Len(a) : a[i] <= c,
         \A i, j \in 1..Len(a) : i < j => a[i] < a[j]
  PROVE  LET r == a \o [i \in 1..n |-> c + i]
         IN  /\ r \in Seq(Nat) /\ Len(r) = Len(a) + n
             /\ \A i \in 1..Len(r) : r[i] <= b
             /\ \A i, j \in 1..Len(r) : i < j => r[i] < r[j]
<1> DEFINE new == [i \in 1..n |-> c + i]
           r == a \o new
<1>1. new \in [1..n -> Nat]
  OBVIOUS
<1>2. new \in Seq(Nat)
  BY <1>1
<1>3. Len(new) = n
  BY <1>2
<1>4. \A i \in 1..n : new[i] = c + i
  OBVIOUS
<1> HIDE DEF new
<1>5. /\ r \in Seq(Nat) /\ Len(r) = Len(a) + n
      /\ \A i \in 1..Len(r) : r[i] = IF i <= Len(a) THEN a[i] ELSE new[i - Len(a)]
  BY <1>2, <1>3, ConcatProperties
<1> HIDE DEF r
<1>6. Len(a) \in Nat
  OBVIOUS
<1>7. ASSUME NEW i \in 1..Len(r), i > Len(a) PROVE r[i] = c + (i - Len(a))
  <2>1. i - Len(a) \in 1..n
    BY <1>5, <1>6, <1>7
  <2>2. r[i] = new[i - Len(a)]
    BY <1>5, <1>6, <1>7
  <2> QED BY <2>1, <2>2, <1>4
<1>8. ASSUME NEW i \in 1..Len(r), i <= Len(a) PROVE i \in 1..Len(a) /\ r[i] = a[i]
  BY <1>5, <1>6, <1>8
<1>9. \A i \in 1..Len(a) : a[i] \in Nat
  OBVIOUS
<1>10. ASSUME NEW i \in 1..Len(r) PROVE r[i] <= b
  <2>1. CASE i <= Len(a)
    <3>1. r[i] \in Nat /\ r[i] <= c
      BY <2>1, <1>8, <1>9
    <3> QED BY <3>1
  <2>2. CASE i > Len(a)
    <3>1. r[i] = c + (i - Len(a))
      BY <2>2, <1>7
    <3>2. i - Len(a) <= n
      BY <1>5, <1>6
    <3> QED BY <3>1, <3>2, <1>6
  <2> QED BY <2>1, <2>2, <1>6
<1>11. ASSUME NEW i \in 1..Len(r), NEW j \in 1..Len(r), i < j PROVE r[i] < r[j]
  <2>1. CASE j <= Len(a)
    <3>1. i \in 1..Len(a) /\ j \in 1..Len(a)
      BY <1>6, <1>11, <2>1
    <3>2. r[i] = a[i] /\ r[j] = a[j]
      BY <3>1, <1>8, <1>6
    <3> QED BY <3>1, <3>2, <1>11
  <2>2. CASE i > Len(a)
    <3>1. r[i] = c + (i - Len(a)) /\ r[j] = c + (j - Len(a))
      BY <1>6, <1>7, <1>11, <2>2
    <3> QED BY <3>1, <1>6, <1>11
  <2>3. CASE i <= Len(a) /\ j > Len(a)
    <3>1. r[i] \in Nat /\ r[i] <= c
      BY <2>3, <1>8, <1>9
    <3>2. r[j] = c + (j - Len(a))
      BY <2>3, <1>7
    <3> QED BY <3>1, <3>2, <2>3, <1>6
  <2> QED BY <1>6, <2>1, <2>2, <2>3
<1> QED BY <1>5, <1>10, <1>11 DEF r, new

(* A read of n lines from a cursor leaves the file in order, when the cursor *)
(* goes to the last of them or, with a cut counted, past one more.          *)
ReadOf(s, n, to) ==
  /\ cursor' = [cursor EXCEPT ![s] = to]
  /\ kept' = [kept EXCEPT ![s] = @ \o [i \in 1..n |-> cursor[s] + i]]
  /\ wrote' = wrote

LEMMA ReceivedKeeps ==
  ASSUME ReadInv, NEW s \in Source, NEW n \in Nat, NEW to \in Nat,
         ReadOf(s, n, to),
         to <= Len(wrote[s]), cursor[s] + n <= to,
         cuts' \in Nat, cuts' >= cuts, to - n - cursor[s] <= cuts' - cuts,
         now' \in Nat
  PROVE  ReadInv'
<1> DEFINE all == kept[s] \o [i \in 1..n |-> cursor[s] + i]
<1>1. /\ cursor[s] \in Nat /\ kept[s] \in Seq(Nat) /\ Len(kept[s]) \in Nat
      /\ \A i \in 1..Len(kept[s]) : kept[s][i] <= cursor[s]
      /\ \A i, j \in 1..Len(kept[s]) : i < j => kept[s][i] < kept[s][j]
      /\ cursor[s] - Len(kept[s]) <= cuts /\ cuts \in Nat
  BY DEF ReadInv, ReadTypes, KeptInv
<1>2. /\ all \in Seq(Nat) /\ Len(all) = Len(kept[s]) + n
      /\ \A i \in 1..Len(all) : all[i] <= to
      /\ \A i, j \in 1..Len(all) : i < j => all[i] < all[j]
  BY <1>1, Extended
<1>3. /\ kept' = [kept EXCEPT ![s] = all] /\ cursor' = [cursor EXCEPT ![s] = to]
      /\ wrote' = wrote
  BY DEF ReadOf
<1> HIDE DEF all
<1>4. to - Len(all) <= cuts'
  BY <1>1, <1>2
<1>5. /\ kept'[s] = all /\ cursor'[s] = to
      /\ \A t \in Source \ {s} : kept'[t] = kept[t] /\ cursor'[t] = cursor[t]
  BY <1>3 DEF ReadInv, ReadTypes
<1>6. ReadTypes'
  BY <1>2, <1>3, <1>5 DEF ReadInv, ReadTypes
<1>7. ASSUME NEW t \in Source
      PROVE  /\ \A i \in 1..Len(kept'[t]) : kept'[t][i] <= cursor'[t]
             /\ \A i, j \in 1..Len(kept'[t]) : i < j => kept'[t][i] < kept'[t][j]
             /\ cursor'[t] - Len(kept'[t]) <= cuts'
  <2>1. CASE t = s
    BY <2>1, <1>2, <1>4, <1>5
  <2>2. CASE t # s
    <3>1. /\ cursor[t] \in Nat /\ kept[t] \in Seq(Nat) /\ cuts \in Nat
          /\ kept'[t] = kept[t] /\ cursor'[t] = cursor[t]
          /\ cursor[t] - Len(kept[t]) <= cuts
      BY <2>2, <1>5 DEF ReadInv, ReadTypes, KeptInv
    <3>2. cursor'[t] - Len(kept'[t]) <= cuts'
      BY <3>1
    <3> QED BY <3>1, <3>2 DEF ReadInv, KeptInv
  <2> QED BY <2>1, <2>2
<1> QED BY <1>6, <1>7 DEF ReadInv, KeptInv

(* Every read, however it ends.                                            *)
LEMMA ReadKeeps ==
  ASSUME ReadInv, NEW s \in Source, NEW end, Read(s, end)
  PROVE  ReadInv'
<1>1. /\ cursor[s] \in Nat /\ Len(wrote[s]) \in Nat /\ cursor[s] <= Len(wrote[s])
      /\ now \in Nat /\ cuts \in Nat
  BY DEF ReadInv, ReadTypes, Pending
<1> DEFINE rest == Pending(s)
<1>2. rest = Len(wrote[s]) - cursor[s]
  BY DEF Pending
<1> HIDE DEF rest
<1>3. CASE Drained(s, end)
  <2>1. ReadOf(s, rest, Len(wrote[s])) /\ cuts' = cuts /\ now' = now
    BY <1>3 DEF Drained, Received, ReadOf, rest
  <2> QED BY <2>1, <1>1, <1>2, ReceivedKeeps
<1>4. ASSUME NEW n \in 0..rest, Early(s, n, end) PROVE ReadInv'
  <2>1. ReadOf(s, n, cursor[s] + n) /\ cuts' = cuts + 1 /\ now' = now
    BY <1>4 DEF Early, Received, ReadOf
  <2>2. /\ n \in Nat /\ cursor[s] + n \in Nat /\ cursor[s] + n <= Len(wrote[s])
        /\ cuts' \in Nat /\ cuts' >= cuts /\ now' \in Nat
        /\ (cursor[s] + n) - n - cursor[s] <= cuts' - cuts
    BY <2>1, <1>1, <1>2
  <2> QED BY <2>1, <2>2, <1>1, <1>2, ReceivedKeeps
<1>5. ASSUME NEW n \in 0..rest, CutAtDeadline(s, n, end) PROVE ReadInv'
  <2>1. ReadOf(s, n, cursor[s] + n + 1) /\ cuts' = cuts + 1 /\ now' = now + 1 /\ n < rest
    BY <1>5 DEF CutAtDeadline, Received, ReadOf, rest
  <2>2. /\ n \in Nat /\ cursor[s] + n + 1 \in Nat /\ cursor[s] + n + 1 <= Len(wrote[s])
        /\ cuts' \in Nat /\ cuts' >= cuts /\ now' \in Nat
        /\ (cursor[s] + n + 1) - n - cursor[s] <= cuts' - cuts
    BY <2>1, <1>1, <1>2
  <2> QED BY <2>1, <2>2, <1>1, <1>2, ReceivedKeeps
<1>6. ASSUME NEW n \in 0..rest, Broken(s, n, end) PROVE ReadInv'
  <2>1. ReadOf(s, n, cursor[s] + n) /\ cuts' = cuts /\ now' = now
    BY <1>6 DEF Broken, Received, ReadOf
  <2> QED BY <2>1, <1>1, <1>2, ReceivedKeeps
<1> QED BY <1>3, <1>4, <1>5, <1>6 DEF Read, rest

(* A new host starts with an empty file.                                    *)
LEMMA NewHostKeeps == ASSUME NewHost PROVE ReadInv'
  BY DEF NewHost, ReadInv, ReadTypes, KeptInv

(* The host appends a line; nothing that was read changes.                  *)
LEMMA HostKeeps == ASSUME ReadInv, NEW s \in Source, HostWrites(s) PROVE ReadInv'
<1>1. wrote' = [wrote EXCEPT ![s] = Append(@, now)] /\ UNCHANGED <<now, cursor, kept, cuts>>
  BY DEF HostWrites
<1>2. /\ wrote' \in [Source -> Seq(Nat)]
      /\ \A t \in Source : cursor[t] <= Len(wrote'[t])
  BY <1>1 DEF ReadInv, ReadTypes
<1> QED BY <1>1, <1>2 DEF ReadInv, ReadTypes, KeptInv

LEMMA ReadInit == Init => ReadInv
  BY DEF Init, StartInit, ReadInv, ReadTypes, KeptInv

LEMMA ReadNext == ReadInv /\ [Next]_vars => ReadInv'
<1> SUFFICES ASSUME ReadInv, [Next]_vars PROVE ReadInv'
  OBVIOUS
<1>1. ASSUME UNCHANGED startVars PROVE ReadInv'
  BY <1>1 DEF startVars, ReadInv, ReadTypes, KeptInv
<1>2. CASE Starts
  <2>1. CASE Rent
    BY <2>1, NewHostKeeps DEF Rent, ReadInv, ReadTypes, KeptInv
  <2>2. CASE Status
    BY <2>2, NewHostKeeps DEF Status, Raises, ReadInv, ReadTypes, KeptInv
  <2>3. CASE Read("system", "container")
    BY <2>3, ReadKeeps DEF Source
  <2>4. CASE Read("container", "judge")
    BY <2>4, ReadKeeps DEF Source
  <2>5. CASE Judge
    BY <2>5 DEF Judge, ReadInv, ReadTypes, KeptInv
  <2>6. CASE Sleep
    <3>1. UNCHANGED <<wrote, cursor, kept, cuts>> /\ now' \in Nat
      BY <2>6 DEF Sleep, ReadInv, ReadTypes
    <3> QED BY <3>1 DEF ReadInv, ReadTypes, KeptInv
  <2>7. CASE Abandon
    BY <2>7, NewHostKeeps DEF Abandon
  <2>8. CASE Connect
    BY <2>8, NewHostKeeps DEF Connect, Raises
  <2> QED BY <1>2, <2>1, <2>2, <2>3, <2>4, <2>5, <2>6, <2>7, <2>8 DEF Starts, Provision
<1>3. CASE Host
  BY <1>3, HostKeeps DEF Host
<1>4. CASE Serves \/ Stages \/ Asks \/ Operator \/ (Ends /\ UNCHANGED vars) \/ UNCHANGED vars
  <2>1. UNCHANGED startVars
    BY <1>4 DEF Serves, Stages, NoEngine, Asks, Operator, vars
  <2> QED BY <2>1, <1>1
<1>5. CASE World
  <2>1. Host \/ UNCHANGED startVars
    BY <1>5 DEF World, NoEngine
  <2> QED BY <2>1, <1>1, <1>3
<1> QED BY <1>2, <1>4, <1>5 DEF Next, Harness

(* A pod's log file holds every line once and in order, short of one for     *)
(* each cut read, for every number of hosts, lines and cuts.                 *)
THEOREM LogsKeptOnce == Spec => []KeptOnce
<1>1. ReadInv => KeptOnce
  <2> SUFFICES ASSUME ReadInv, NEW s \in Source
               PROVE  /\ \A i, j \in DOMAIN kept[s] : i < j => kept[s][i] < kept[s][j]
                      /\ cursor[s] - Len(kept[s]) <= cuts
    BY DEF KeptOnce
  <2>1. DOMAIN kept[s] = 1..Len(kept[s])
    BY DEF ReadInv, ReadTypes
  <2> QED BY <2>1 DEF ReadInv, KeptInv
<1> QED BY <1>1, ReadInit, ReadNext, PTL DEF Spec

-----------------------------------------------------------------------------
(* What the watch and the poll hold, and when the lines came.               *)
WatchTypes ==
  /\ watch \in [okAt : Int, systemAt : Int, lineAt : Int]
  /\ poll \in [ran : BOOLEAN, lines : SUBSET Source, failed : BOOLEAN]
  /\ watch.okAt <= now
  /\ \A s \in Source : \A i \in 1..Len(wrote[s]) : wrote[s][i] <= now
  /\ pc \notin {"container", "judge"} => poll.lines = {}

(* A line beyond the cursor came after the last good poll, and after this    *)
(* one's good reads.                                                         *)
UnreadIsNew ==
  \A s \in Source : \A i \in 1..Len(wrote[s]) : i > cursor[s] =>
    /\ wrote[s][i] >= watch.okAt
    /\ ~poll.failed /\ (pc = "judge" \/ (pc = "container" /\ s = "system")) => wrote[s][i] >= now

(* A line up to the cursor was seen by the watch, or is of this poll.        *)
ReadIsSeen ==
  /\ watch.systemAt = Never /\ "system" \notin poll.lines => cursor["system"] = 0
  /\ \A s \in Source : \A i \in 1..Len(wrote[s]) :
        i <= cursor[s] => wrote[s][i] <= watch.lineAt \/ poll.lines # {}

(* What provision gave up for.                                               *)
GivenUpFor ==
  pc = "abandon" =>
    /\ outcome = "never_started" => watch.systemAt = Never
    /\ outcome = "stalled" => watch.okAt - SinceRent(watch.lineAt) > SilenceLimit

SilenceInv == WatchTypes /\ (cuts = 0 => UnreadIsNew /\ ReadIsSeen /\ GivenUpFor)

LEMMA NewHostSilent == ASSUME NewHost, pc' # "abandon" PROVE SilenceInv'
  BY DEF NewHost, NewWatch, NewPoll, Never, Source, SilenceInv, WatchTypes, UnreadIsNew,
         ReadIsSeen, GivenUpFor

LEMMA HostSilent ==
  ASSUME ReadInv, SilenceInv, NEW s \in Source, HostWrites(s)
  PROVE  SilenceInv'
<1>1. /\ wrote' = [wrote EXCEPT ![s] = Append(@, now)]
      /\ UNCHANGED <<pc, outcome, now, cursor, watch, poll, cuts>>
      /\ pc \in {"system", "container", "sleep"}
  BY DEF HostWrites
<1>2. ASSUME NEW t \in Source
      PROVE  /\ wrote[t] \in Seq(Nat) /\ cursor[t] \in Nat /\ cursor[t] <= Len(wrote[t])
             /\ now \in Nat
  BY DEF ReadInv, ReadTypes
<1>3. ASSUME NEW t \in Source, NEW i \in 1..Len(wrote'[t])
      PROVE  \/ i \in 1..Len(wrote[t]) /\ wrote'[t][i] = wrote[t][i]
             \/ i > cursor[t] /\ wrote'[t][i] = now
  <2>1. CASE t = s
    <3>1. wrote'[t] = Append(wrote[t], now)
      BY <2>1, <1>1 DEF ReadInv, ReadTypes
    <3>2. CASE i \in 1..Len(wrote[t])
      BY <3>1, <3>2, <1>2
    <3>3. CASE i = Len(wrote[t]) + 1
      BY <3>1, <3>3, <1>2
    <3> QED BY <3>1, <3>2, <3>3, <1>2
  <2>2. CASE t # s
    BY <2>2, <1>1 DEF ReadInv, ReadTypes
  <2> QED BY <2>1, <2>2
<1>4. WatchTypes'
  BY <1>1, <1>2, <1>3 DEF SilenceInv, WatchTypes
<1>5. ASSUME cuts = 0 PROVE UnreadIsNew'
  <2> SUFFICES ASSUME NEW t \in Source, NEW i \in 1..Len(wrote'[t]), i > cursor[t]
               PROVE  /\ wrote'[t][i] >= watch.okAt
                      /\ ~poll.failed /\ (pc = "judge" \/ (pc = "container" /\ t = "system"))
                            => wrote'[t][i] >= now
    BY <1>1 DEF UnreadIsNew
  <2>1. CASE i \in 1..Len(wrote[t]) /\ wrote'[t][i] = wrote[t][i]
    BY <2>1, <1>5 DEF SilenceInv, UnreadIsNew
  <2>2. CASE wrote'[t][i] = now
    BY <2>2, <1>2 DEF SilenceInv, WatchTypes
  <2> QED BY <2>1, <2>2, <1>3
<1>6. ASSUME cuts = 0 PROVE ReadIsSeen'
  <2>1. ASSUME NEW t \in Source, NEW i \in 1..Len(wrote'[t]), i <= cursor[t]
        PROVE  wrote'[t][i] <= watch.lineAt \/ poll.lines # {}
    <3>1. i \in 1..Len(wrote[t]) /\ wrote'[t][i] = wrote[t][i]
      BY <2>1, <1>2, <1>3
    <3> QED BY <3>1, <2>1, <1>6 DEF SilenceInv, ReadIsSeen
  <2> QED BY <2>1, <1>1, <1>6 DEF SilenceInv, ReadIsSeen
<1> QED BY <1>1, <1>4, <1>5, <1>6 DEF SilenceInv, GivenUpFor

(* Every read: drained or broken it leaves no old line behind unreported.    *)
LEMMA ReadSilent ==
  ASSUME ReadInv, SilenceInv, NEW s \in Source, NEW end, Read(s, end),
         \/ s = "system" /\ end = "container"
         \/ s = "container" /\ end = "judge"
  PROVE  SilenceInv'
<1> DEFINE rest == Pending(s)
<1>0. /\ now \in Nat /\ cuts \in Nat /\ cursor[s] \in Nat /\ Len(wrote[s]) \in Nat
      /\ rest \in Nat /\ cursor[s] + rest = Len(wrote[s])
  BY DEF ReadInv, ReadTypes, Pending
<1> HIDE DEF rest
<1> DEFINE Polled(n) ==
             /\ cursor' = [cursor EXCEPT ![s] = cursor[s] + n]
             /\ poll'.lines = IF n > 0 THEN poll.lines \cup {s} ELSE poll.lines
             /\ ~poll'.failed => ~poll.failed /\ cursor[s] + n = Len(wrote[s])
             /\ cuts' = cuts /\ now' = now
           Kept == /\ pc' = end /\ wrote' = wrote /\ watch' = watch
                   /\ poll' \in [ran : BOOLEAN, lines : SUBSET Source, failed : BOOLEAN]
<1> HIDE DEF Polled, Kept
<1>1. pc = s
  BY DEF Read
<1>a. poll \in [ran : BOOLEAN, lines : SUBSET Source, failed : BOOLEAN]
  BY DEF SilenceInv, WatchTypes
<1>b. ASSUME Drained(s, end) PROVE Kept /\ Polled(rest)
  <2>1. Kept
    BY <1>b, <1>a DEF Drained, Received, Kept
  <2>2. Polled(rest)
    BY <1>b, <1>a, <1>0 DEF Drained, Received, Polled, rest
  <2> QED BY <2>1, <2>2
<1>c. ASSUME NEW n \in 0..rest, Early(s, n, end) PROVE Kept /\ now' = now /\ cuts' = cuts + 1
  BY <1>c, <1>a DEF Early, Received, Kept
<1>d. ASSUME NEW n \in 0..rest, CutAtDeadline(s, n, end) PROVE Kept /\ now' = now + 1 /\ cuts' = cuts + 1
  BY <1>d, <1>a DEF CutAtDeadline, Received, Kept
<1>e. ASSUME NEW n \in 0..rest, Broken(s, n, end) PROVE Kept /\ Polled(n)
  <2>1. Kept
    BY <1>e, <1>a DEF Broken, Received, Kept
  <2>2. Polled(n)
    BY <1>e, <1>a, <1>0 DEF Broken, Received, Polled
  <2> QED BY <2>1, <2>2
<1>f. /\ Kept /\ now' \in Nat /\ now' >= now
      /\ (\E n \in 0..rest : Polled(n)) \/ cuts' = cuts + 1
  <2>1. Drained(s, end) \/ \E n \in 0..rest : Early(s, n, end) \/ CutAtDeadline(s, n, end) \/ Broken(s, n, end)
    BY DEF Read, rest
  <2>2. ASSUME NEW n \in 0..rest, Polled(n) PROVE now' = now
    BY <2>2 DEF Polled
  <2>3. rest \in 0..rest
    BY <1>0
  <2> QED BY <2>1, <2>2, <2>3, <1>0, <1>b, <1>c, <1>d, <1>e
<1>2. WatchTypes'
  BY <1>1, <1>f DEF Kept, SilenceInv, WatchTypes, ReadInv, ReadTypes
<1>3. ASSUME NEW n \in 0..rest, Polled(n), cuts = 0
      PROVE  UnreadIsNew' /\ ReadIsSeen' /\ GivenUpFor'
  <2>1. /\ UnreadIsNew /\ ReadIsSeen
        /\ pc' = end /\ wrote' = wrote /\ watch' = watch /\ now' = now
    BY <1>3, <1>f DEF SilenceInv, Kept, Polled
  <2>2. /\ cursor'[s] = cursor[s] + n
        /\ \A t \in Source \ {s} : cursor'[t] = cursor[t]
    BY <1>3 DEF Polled, ReadInv, ReadTypes
  <2>3. /\ n > 0 => s \in poll'.lines
        /\ n = 0 => poll'.lines = poll.lines
        /\ poll.lines \subseteq poll'.lines
        /\ ~poll'.failed => ~poll.failed /\ cursor[s] + n = Len(wrote[s])
    BY <1>3 DEF Polled
  <2>4. UnreadIsNew'
    <3> SUFFICES ASSUME NEW t \in Source, NEW i \in 1..Len(wrote[t]), i > cursor'[t]
                 PROVE  /\ wrote[t][i] >= watch.okAt
                        /\ ~poll'.failed /\ (end = "judge" \/ (end = "container" /\ t = "system"))
                              => wrote[t][i] >= now
      BY <2>1 DEF UnreadIsNew
    <3>1. CASE t = s
      <4>1. i > cursor[t] /\ poll'.failed
        BY <3>1, <1>0, <2>2, <2>3
      <4> QED BY <4>1, <2>1, <2>3 DEF UnreadIsNew
    <3>2. CASE t # s
      <4>1. i > cursor[t] /\ (end = "judge" => pc = "container" /\ t = "system") /\ (end = "container" => t # "system")
        BY <3>2, <2>2, <1>1 DEF Source
      <4> QED BY <4>1, <2>1, <2>3 DEF UnreadIsNew
    <3> QED BY <3>1, <3>2
  <2>5. ReadIsSeen'
    <3>1. ASSUME watch.systemAt = Never, "system" \notin poll'.lines PROVE cursor'["system"] = 0
      <4>1. cursor["system"] = 0
        BY <3>1, <2>1, <2>3 DEF ReadIsSeen
      <4>2. CASE s = "system"
        <5>1. n = 0
          BY <4>2, <3>1, <2>3
        <5> QED BY <4>1, <4>2, <5>1, <2>2
      <4>3. CASE s # "system"
        BY <4>1, <4>3, <2>2 DEF Source
      <4> QED BY <4>2, <4>3
    <3>2. ASSUME NEW t \in Source, NEW i \in 1..Len(wrote[t]), i <= cursor'[t]
          PROVE  wrote[t][i] <= watch.lineAt \/ poll'.lines # {}
      <4>1. CASE n = 0
        <5>1. i <= cursor[t]
          BY <4>1, <3>2, <1>0, <2>2
        <5> QED BY <5>1, <4>1, <2>1, <2>3 DEF ReadIsSeen
      <4>2. CASE n # 0
        BY <4>2, <2>3
      <4> QED BY <4>1, <4>2
    <3> QED BY <3>1, <3>2, <2>1 DEF ReadIsSeen
  <2> QED BY <2>4, <2>5, <2>1 DEF GivenUpFor
<1>4. cuts' = cuts + 1 => cuts' # 0
  BY <1>0
<1>5. (\E n \in 0..rest : Polled(n)) => cuts' = cuts
  BY DEF Polled
<1> QED BY <1>2, <1>3, <1>4, <1>5, <1>f DEF SilenceInv

(* The judgement: what the poll brought becomes what the watch has seen.     *)
LEMMA JudgeSilent == ASSUME ReadInv, SilenceInv, Judge PROVE SilenceInv'
<1>1. /\ pc = "judge" /\ watch' = Observe(watch) /\ poll' = NewPoll
      /\ UNCHANGED <<wrote, now, cursor, cuts>> /\ now \in Nat
      /\ pc' \in {"connect", "abandon", "sleep"}
      /\ pc' = "abandon" => outcome' = Verdict(watch') /\ Verdict(watch') # "wait"
  BY DEF Judge, ReadInv, ReadTypes
<1>2. /\ watch'.okAt = IF poll.failed THEN watch.okAt ELSE now
      /\ watch'.systemAt = IF "system" \in poll.lines /\ watch.systemAt = Never
                           THEN now ELSE watch.systemAt
      /\ watch'.lineAt = IF poll.lines # {} THEN now ELSE watch.lineAt
      /\ watch' \in [okAt : Int, systemAt : Int, lineAt : Int]
  BY <1>1 DEF Observe, SilenceInv, WatchTypes
<1>3. /\ poll' \in [ran : BOOLEAN, lines : SUBSET Source, failed : BOOLEAN]
      /\ poll'.lines = {}
  BY <1>1 DEF NewPoll
<1>4. WatchTypes'
  BY <1>1, <1>2, <1>3 DEF SilenceInv, WatchTypes
<1>5. ASSUME cuts = 0 PROVE UnreadIsNew'
  <2> SUFFICES ASSUME NEW t \in Source, NEW i \in 1..Len(wrote[t]), i > cursor[t]
               PROVE  wrote[t][i] >= watch'.okAt
    BY <1>1 DEF UnreadIsNew
  <2> QED BY <1>1, <1>2, <1>5 DEF SilenceInv, UnreadIsNew
<1>6. ASSUME cuts = 0 PROVE ReadIsSeen'
  <2>1. ASSUME watch'.systemAt = Never PROVE cursor["system"] = 0
    <3>1. watch.systemAt = Never /\ "system" \notin poll.lines
      BY <2>1, <1>1, <1>2 DEF Never
    <3> QED BY <3>1, <1>6 DEF SilenceInv, ReadIsSeen
  <2>2. ASSUME NEW t \in Source, NEW i \in 1..Len(wrote[t]), i <= cursor[t]
        PROVE  wrote[t][i] <= watch'.lineAt
    BY <2>2, <1>2, <1>6 DEF SilenceInv, ReadIsSeen, WatchTypes
  <2> QED BY <2>1, <2>2, <1>1 DEF ReadIsSeen
<1>7. GivenUpFor'
  <2> SUFFICES ASSUME pc' = "abandon"
               PROVE  /\ outcome' = "never_started" => watch'.systemAt = Never
                      /\ outcome' = "stalled" => watch'.okAt - SinceRent(watch'.lineAt) > SilenceLimit
    BY DEF GivenUpFor
  <2> QED BY <1>1 DEF Verdict
<1> QED BY <1>1, <1>4, <1>5, <1>6, <1>7 DEF SilenceInv

LEMMA SilenceInit == Init => SilenceInv
  BY DEF Init, StartInit, NewWatch, NewPoll, Never, Source, SilenceInv, WatchTypes, UnreadIsNew,
         ReadIsSeen, GivenUpFor

LEMMA SilenceNext == ReadInv /\ SilenceInv /\ [Next]_vars => SilenceInv'
<1> SUFFICES ASSUME ReadInv, SilenceInv, [Next]_vars PROVE SilenceInv'
  OBVIOUS
<1> USE DEF SilenceInv, WatchTypes, UnreadIsNew, ReadIsSeen, GivenUpFor
<1>1. ASSUME UNCHANGED startVars PROVE SilenceInv'
  BY <1>1 DEF startVars
<1>2. CASE Starts
  <2>1. CASE Rent
    BY <2>1, NewHostSilent DEF Rent
  <2>2. CASE Status
    <3>1. CASE Raises
      BY <3>1, NewHostSilent DEF Raises
    <3>2. CASE ~Raises
      <4>1. PICK running \in BOOLEAN : poll' = [NewPoll EXCEPT !.ran = running]
        BY <2>2, <3>2 DEF Status
      <4>2. /\ poll' \in [ran : BOOLEAN, lines : SUBSET Source, failed : BOOLEAN]
            /\ poll'.lines = {} /\ poll.lines = {}
            /\ pc' = "system" /\ UNCHANGED <<outcome, wrote, now, cursor, watch, cuts>>
        BY <2>2, <3>2, <4>1 DEF Status, NewPoll
      <4> QED BY <4>2
    <3> QED BY <3>1, <3>2
  <2>3. CASE Read("system", "container") \/ Read("container", "judge")
    BY <2>3, ReadSilent DEF Source
  <2>4. CASE Judge
    BY <2>4, JudgeSilent
  <2>5. CASE Sleep
    <3>1. /\ UNCHANGED <<wrote, cursor, cuts, watch, poll, outcome>> /\ now' \in Nat /\ now' >= now
          /\ pc = "sleep" /\ pc' = "status"
      BY <2>5 DEF Sleep, ReadInv, ReadTypes
    <3>2. WatchTypes'
      BY <3>1 DEF ReadInv, ReadTypes
    <3>3. cuts = 0 => UnreadIsNew' /\ ReadIsSeen' /\ GivenUpFor'
      BY <3>1
    <3> QED BY <3>1, <3>2, <3>3
  <2>6. CASE Abandon
    BY <2>6, NewHostSilent DEF Abandon
  <2>7. CASE Connect
    BY <2>7, NewHostSilent DEF Connect, Raises
  <2> QED BY <1>2, <2>1, <2>2, <2>3, <2>4, <2>5, <2>6, <2>7 DEF Starts, Provision
<1>3. CASE Host
  BY <1>3, HostSilent DEF Host
<1>4. CASE Serves \/ Stages \/ Asks \/ Operator \/ (Ends /\ UNCHANGED vars) \/ UNCHANGED vars
  <2>1. UNCHANGED startVars
    BY <1>4 DEF Serves, Stages, NoEngine, Asks, Operator, vars
  <2> QED BY <2>1, <1>1
<1>5. CASE World
  <2>1. Host \/ UNCHANGED startVars
    BY <1>5 DEF World, NoEngine
  <2> QED BY <2>1, <1>1, <1>3
<1> QED BY <1>2, <1>4, <1>5 DEF Next, Harness

(* A host is given up for silence that was real, for every limit and every   *)
(* number of hosts and lines.                                                *)
THEOREM SilenceIsReal == Spec => []AbandonedWhenSilent
<1> DEFINE before(t) == {wrote[t][j] : j \in DOMAIN wrote[t]} \cap 0..(watch.okAt - 1)
<1>1. ASSUME ReadInv, SilenceInv, pc = "abandon", cuts = 0, NEW s \in Source, NEW x \in before(s)
      PROVE  /\ outcome = "never_started" => s # "system"
             /\ outcome = "stalled" => watch.okAt - x > SilenceLimit
  <2>1. PICK i \in 1..Len(wrote[s]) : x = wrote[s][i] /\ x \in Nat /\ x < watch.okAt
    <3>1. DOMAIN wrote[s] = 1..Len(wrote[s]) /\ watch.okAt \in Int
      BY <1>1 DEF ReadInv, ReadTypes, SilenceInv, WatchTypes
    <3> QED BY <3>1
  <2>2. i <= cursor[s]
    <3>1. i > cursor[s] => x >= watch.okAt
      BY <1>1, <2>1 DEF SilenceInv, UnreadIsNew
    <3>2. cursor[s] \in Nat /\ watch.okAt \in Int
      BY <1>1 DEF SilenceInv, WatchTypes, ReadInv, ReadTypes
    <3> QED BY <2>1, <3>1, <3>2
  <2>3. x <= watch.lineAt
    BY <1>1, <2>1, <2>2 DEF SilenceInv, ReadIsSeen, WatchTypes
  <2>4. ASSUME outcome = "never_started" PROVE s # "system"
    BY <1>1, <2>1, <2>2, <2>4 DEF SilenceInv, ReadIsSeen, WatchTypes, GivenUpFor
  <2>5. ASSUME outcome = "stalled" PROVE watch.okAt - x > SilenceLimit
    BY <1>1, <2>1, <2>3, <2>5, PodStartAssumption
       DEF SilenceInv, GivenUpFor, WatchTypes, SinceRent, Never
  <2> QED BY <2>4, <2>5
<1>2. ReadInv /\ SilenceInv => AbandonedWhenSilent
  <2> SUFFICES ASSUME ReadInv, SilenceInv, pc = "abandon", cuts = 0
               PROVE  CASE outcome = "never_started" -> before("system") = {}
                        [] outcome = "stalled" ->
                              \A s \in Source : \A x \in before(s) : watch.okAt - x > SilenceLimit
                        [] OTHER -> TRUE
    BY DEF AbandonedWhenSilent
  <2> HIDE DEF before
  <2>1. outcome = "never_started" => before("system") = {}
    BY <1>1 DEF Source
  <2>2. outcome = "stalled" => \A s \in Source : \A x \in before(s) : watch.okAt - x > SilenceLimit
    BY <1>1
  <2> QED BY <2>1, <2>2
<1> QED BY <1>2, ReadInit, ReadNext, SilenceInit, SilenceNext, PTL DEF Spec
-----------------------------------------------------------------------------
(* Storage.                                                                *)

(* A volume's accrual: the hours it has not been charged for cost at most    *)
(* what accrue_storage charges, because a volume only grows; just that while *)
(* it has the size of its entry.  Before its entry nothing was charged.      *)
Accruals == [known : BOOLEAN, size : Nat, age : Nat, due : Nat, balance : Int,
             early : Nat, again : Nat, grown : BOOLEAN]

StorageTypes ==
  /\ volume \in [Sites -> Nat]
  /\ accrual \in [Sites -> Accruals]
  /\ stage # "idle" => site \in Sites

Due(a, size) ==
  /\ a.due <= size * a.age
  /\ a.known => a.size <= size
  /\ a.known /\ a.size = size => a.due = size * a.age
  /\ ~a.known => a.balance = 0 /\ a.again = 0

DueInv == \A dc \in Sites : Due(accrual[dc], volume[dc])

(* What was charged, but for an amount whose entry is not yet written.       *)
Paid(a, unwritten) ==
  a.known => /\ a.balance - unwritten >= a.again - a.early
             /\ ~a.grown => a.balance - unwritten = a.again - a.early

PaidInv == \A dc \in Sites : Paid(accrual[dc], Unwritten(dc))

StorageInv == StorageTypes /\ DueInv /\ PaidInv

LEMMA AllWritten == stage # "accrued" => \A dc : Unwritten(dc) = 0
  BY DEF Unwritten

(* Facts of arithmetic the provers find one at a time.                       *)
LEMMA Grows == ASSUME NEW a \in Nat, NEW b \in Nat, NEW n \in Nat, a <= b PROVE a * n <= b * n
<1>1. PICK d \in Nat : b = a + d
  BY b - a \in Nat
<1>2. b * n = a * n + d * n
  BY <1>1
<1>3. a * n \in Nat /\ d * n \in Nat
  OBVIOUS
<1> QED BY <1>2, <1>3

LEMMA OneMoreHour == ASSUME NEW v \in Nat, NEW n \in Nat PROVE v * (n + 1) = v * n + v
  OBVIOUS

LEMMA MaxOfTwo == ASSUME NEW a \in Nat, NEW b \in Nat PROVE Max({a, b}) \in Nat /\ Max({a, b}) >= a
<1>1. \E x \in {a, b} : \A y \in {a, b} : x >= y
  <2>1. CASE a >= b
    BY <2>1
  <2>2. CASE b >= a
    BY <2>2
  <2> QED BY <2>1, <2>2
<1> QED BY <1>1 DEF Max

(* ensure_volume never makes a volume smaller.                               *)
LEMMA EnsuredGrows ==
  ASSUME StorageTypes, DueInv, NEW dc \in Sites, NEW size, Ensured(dc, size), accrual' = accrual
  PROVE  volume' \in [Sites -> Nat] /\ DueInv'
<1>1. size \in Nat /\ volume' = [volume EXCEPT ![dc] = Max({volume[dc], size})]
  BY DEF Ensured, MaxVolume
<1>2. volume[dc] \in Nat /\ Max({volume[dc], size}) \in Nat /\ Max({volume[dc], size}) >= volume[dc]
  BY <1>1, MaxOfTwo DEF StorageTypes
<1> DEFINE grown == Max({volume[dc], size})
<1> HIDE DEF grown
<1>0. volume' = [volume EXCEPT ![dc] = grown] /\ grown \in Nat /\ grown >= volume[dc]
  BY <1>1, <1>2 DEF grown
<1>3. volume' \in [Sites -> Nat] /\ \A d \in Sites : volume[d] <= volume'[d]
  BY <1>0, <1>2 DEF StorageTypes
<1>4. ASSUME NEW d \in Sites PROVE Due(accrual[d], volume'[d])
  <2>1. /\ volume[d] \in Nat /\ volume'[d] \in Nat /\ accrual[d] \in Accruals
        /\ volume[d] <= volume'[d] /\ Due(accrual[d], volume[d])
    BY <1>3 DEF StorageTypes, DueInv
  <2>2. volume[d] * accrual[d].age <= volume'[d] * accrual[d].age
    BY <2>1, Grows DEF Accruals
  <2>3. /\ volume[d] * accrual[d].age \in Nat /\ volume'[d] * accrual[d].age \in Nat
        /\ accrual[d].due \in Nat /\ accrual[d].size \in Nat
    BY <2>1 DEF Accruals
  <2>4. accrual[d].known /\ accrual[d].size = volume'[d] => volume'[d] = volume[d]
    BY <2>1, <2>3 DEF Due
  <2> QED BY <2>1, <2>2, <2>3, <2>4 DEF Due
<1> QED BY <1>3, <1>4 DEF DueInv

LEMMA StorageInit == Init => StorageInv
<1> SUFFICES ASSUME Init PROVE StorageInv
  OBVIOUS
<1>1. /\ volume = [dc \in Sites |-> 0] /\ accrual = [dc \in Sites |-> NoAccrual] /\ stage = "idle"
  BY DEF Init, StagingInit
<1>2. NoAccrual \in Accruals /\ ~NoAccrual.known /\ Due(NoAccrual, 0)
  BY DEF NoAccrual, Accruals, Due
<1> QED BY <1>1, <1>2 DEF StorageInv, StorageTypes, DueInv, PaidInv, Paid

(* The charge is as much as what is due, or more.                            *)
LEMMA ChargeCovers == ASSUME StorageInv, Charge PROVE StorageInv'
<1>1. /\ stage = "accrue" /\ stage' = "accrued" /\ site' = site /\ site \in Sites /\ volume' = volume
      /\ accrual' = [accrual EXCEPT ![site].balance =
                        @ + (IF accrual[site].known THEN Amount(site) ELSE 0)]
  BY DEF Charge, Goes, StorageInv, StorageTypes
<1> DEFINE a == accrual[site]
           amount == volume[site] * a.age
           new == [a EXCEPT !.balance = a.balance + (IF a.known THEN amount ELSE 0)]
<1>2. a \in Accruals /\ amount \in Nat /\ Due(a, volume[site]) /\ Paid(a, 0)
  <2>1. a \in Accruals /\ volume[site] \in Nat
    BY <1>1 DEF StorageInv, StorageTypes
  <2>2. a.age \in Nat
    BY <2>1 DEF Accruals
  <2>3. Unwritten(site) = 0
    BY <1>1, AllWritten
  <2> QED BY <1>1, <2>1, <2>2, <2>3 DEF StorageInv, DueInv, PaidInv
<1>3. accrual' = [accrual EXCEPT ![site] = new]
  BY <1>1 DEF StorageInv, StorageTypes, Amount
<1> HIDE DEF amount
<1>4. new \in Accruals /\ Due(new, volume[site]) /\ new.known = a.known /\ new.age = a.age
  BY <1>2 DEF Accruals, Due
<1>5. Paid(new, IF a.known THEN amount ELSE 0)
  BY <1>2 DEF Accruals, Paid
<1> HIDE DEF new
<1>6. ASSUME NEW dc \in Sites PROVE accrual'[dc] = IF dc = site THEN new ELSE accrual[dc]
  BY <1>3 DEF StorageInv, StorageTypes
<1>7. StorageTypes'
  BY <1>1, <1>3, <1>4 DEF StorageInv, StorageTypes
<1>8. DueInv'
  BY <1>1, <1>4, <1>6 DEF StorageInv, DueInv
<1>9. ASSUME NEW dc \in Sites PROVE Paid(accrual'[dc], Unwritten(dc)')
  <2>1. CASE dc = site
    <3>1. Unwritten(dc)' = IF a.known THEN amount ELSE 0
      BY <1>1, <1>4, <1>6, <2>1 DEF Unwritten, Amount, amount
    <3> QED BY <1>5, <1>6, <2>1, <3>1
  <2>2. CASE dc # site
    <3>1. Unwritten(dc)' = 0 /\ Unwritten(dc) = 0
      BY <1>1, <2>2 DEF Unwritten
    <3> QED BY <1>6, <2>2, <3>1 DEF StorageInv, PaidInv
  <2> QED BY <2>1, <2>2
<1> QED BY <1>7, <1>8, <1>9 DEF StorageInv, PaidInv

(* The entry is written: nothing is due, and what was charged covers it.      *)
LEMMA EntryCovers == ASSUME StorageInv, WriteAccrual PROVE StorageInv'
<1> DEFINE a == accrual[site]
           amount == volume[site] * a.age
           new == [known |-> TRUE, size |-> volume[site], age |-> 0, due |-> 0,
                   balance |-> a.balance - a.due,
                   early |-> IF a.known THEN a.early ELSE a.due,
                   again |-> a.again,
                   grown |-> a.grown \/ (a.known /\ a.size # volume[site])]
<1>1. /\ stage = "accrued" /\ stage' \in {"sizing", "idle"} /\ site \in Sites /\ volume' = volume
      /\ stage' = "sizing" => site' = site
      /\ accrual' = [accrual EXCEPT ![site] = new]
  BY DEF WriteAccrual, Goes, RoundOver, StorageInv, StorageTypes
<1>2. a \in Accruals /\ volume[site] \in Nat /\ Due(a, volume[site]) /\ amount \in Nat
  <2>1. a \in Accruals /\ volume[site] \in Nat
    BY <1>1 DEF StorageInv, StorageTypes
  <2>2. a.age \in Nat
    BY <2>1 DEF Accruals
  <2> QED BY <1>1, <2>1, <2>2 DEF StorageInv, DueInv
<1>3. Paid(a, IF a.known THEN amount ELSE 0)
  <2>1. Unwritten(site) = IF a.known THEN amount ELSE 0
    BY <1>1 DEF Unwritten, Amount
  <2> QED BY <1>1, <2>1 DEF StorageInv, PaidInv
<1>4. a.due <= amount /\ (a.known /\ a.size = volume[site] => a.due = amount)
      /\ (~a.known => a.balance = 0 /\ a.again = 0)
  BY <1>2 DEF Due
<1> HIDE DEF amount
<1>5. Paid(new, 0)
  BY <1>2, <1>3, <1>4 DEF Paid, Accruals
<1>6. new \in Accruals /\ Due(new, volume[site])
  BY <1>2 DEF Accruals, Due
<1> HIDE DEF new
<1>7. StorageTypes'
  BY <1>1, <1>6 DEF StorageInv, StorageTypes
<1>8. ASSUME NEW dc \in Sites
      PROVE  Due(accrual'[dc], volume'[dc]) /\ Paid(accrual'[dc], Unwritten(dc)')
  <2>1. accrual'[dc] = IF dc = site THEN new ELSE accrual[dc]
    BY <1>1 DEF StorageInv, StorageTypes
  <2>2. Unwritten(dc)' = 0
    BY <1>1 DEF Unwritten
  <2>3. dc # site => Unwritten(dc) = 0
    BY DEF Unwritten
  <2> QED BY <1>1, <1>5, <1>6, <2>1, <2>2, <2>3 DEF StorageInv, DueInv, PaidInv
<1> QED BY <1>7, <1>8 DEF StorageInv, DueInv, PaidInv

(* An hour's bill is the volume's size.                                      *)
LEMMA HourDue ==
  ASSUME NEW a \in Accruals, NEW v \in Nat, Due(a, v), Paid(a, 0)
  PROVE  LET new == [a EXCEPT !.age = @ + 1, !.due = @ + v]
         IN  new \in Accruals /\ Due(new, v) /\ Paid(new, 0)
<1> DEFINE new == [a EXCEPT !.age = @ + 1, !.due = @ + v]
<1>1. a.age \in Nat /\ a.due \in Nat
  BY DEF Accruals
<1>2. new \in Accruals
  <2>1. a.age + 1 \in Nat /\ a.due + v \in Nat
    BY <1>1
  <2>2. [a EXCEPT !.age = a.age + 1] \in Accruals
    BY <2>1 DEF Accruals
  <2>3. new = [[a EXCEPT !.age = a.age + 1] EXCEPT !.due = a.due + v]
    BY DEF Accruals
  <2> QED BY <2>1, <2>2, <2>3 DEF Accruals
<1>3. /\ new.age = a.age + 1 /\ new.due = a.due + v /\ new.known = a.known
      /\ new.size = a.size /\ new.balance = a.balance /\ new.again = a.again
      /\ new.early = a.early /\ new.grown = a.grown
  BY DEF Accruals
<1>4. v * (a.age + 1) = v * a.age + v /\ v * a.age \in Nat
  BY <1>1, OneMoreHour
<1>5. /\ a.due <= v * a.age /\ (a.known => a.size <= v)
      /\ (a.known /\ a.size = v => a.due = v * a.age)
      /\ (~a.known => a.balance = 0 /\ a.again = 0)
  BY DEF Due
<1> HIDE DEF new
<1>6. new.due <= v * new.age /\ (new.known /\ new.size = v => new.due = v * new.age)
  BY <1>1, <1>3, <1>4, <1>5
<1>7. Due(new, v)
  BY <1>3, <1>5, <1>6 DEF Due
<1>8. Paid(new, 0)
  BY <1>3 DEF Paid
<1> QED BY <1>2, <1>7, <1>8 DEF new

LEMMA HourCovers == ASSUME StorageInv, HourPasses PROVE StorageInv'
<1>1. /\ accrual' = [dc \in Sites |->
                       IF volume[dc] = 0 THEN accrual[dc]
                       ELSE [accrual[dc] EXCEPT !.age = @ + 1, !.due = @ + volume[dc]]]
      /\ UNCHANGED <<volume, stage, site>> /\ stage # "accrued"
  BY DEF HourPasses, roundVars
<1>2. ASSUME NEW dc \in Sites
      PROVE  /\ accrual'[dc] \in Accruals /\ Due(accrual'[dc], volume[dc]) /\ Paid(accrual'[dc], 0)
  <2>1. accrual[dc] \in Accruals /\ volume[dc] \in Nat /\ Due(accrual[dc], volume[dc])
    BY DEF StorageInv, StorageTypes, DueInv
  <2>2. Paid(accrual[dc], 0)
    <3>1. Unwritten(dc) = 0
      BY <1>1, AllWritten
    <3> QED BY <3>1 DEF StorageInv, PaidInv
  <2>3. accrual'[dc] = IF volume[dc] = 0 THEN accrual[dc]
                       ELSE [accrual[dc] EXCEPT !.age = @ + 1, !.due = @ + volume[dc]]
    BY <1>1
  <2> QED BY <2>1, <2>2, <2>3, HourDue
<1>3. \A dc : Unwritten(dc)' = 0
  BY <1>1 DEF Unwritten
<1>4. StorageTypes'
  BY <1>1, <1>2 DEF StorageInv, StorageTypes
<1> QED BY <1>1, <1>2, <1>3, <1>4 DEF StorageInv, DueInv, PaidInv

(* A round cut off between the charge and the entry will be charged again.   *)
LEMMA CutOffCovers == ASSUME StorageInv, CutOff PROVE StorageInv'
<1> DEFINE a == accrual[site]
           new == [a EXCEPT !.again = a.again + Unwritten(site)]
<1>1. /\ site \in Sites /\ stage' = "idle" /\ volume' = volume
      /\ accrual' = [accrual EXCEPT ![site] = new]
  BY DEF CutOff, RoundOver, StorageInv, StorageTypes
<1>2. a \in Accruals /\ Due(a, volume[site]) /\ Paid(a, Unwritten(site))
  BY <1>1 DEF StorageInv, StorageTypes, DueInv, PaidInv
<1>3. Unwritten(site) \in Nat /\ (~a.known => Unwritten(site) = 0)
  <2>1. a.age \in Nat /\ volume[site] \in Nat
    BY <1>1, <1>2 DEF StorageInv, StorageTypes, Accruals
  <2> QED BY <2>1 DEF Unwritten, Amount
<1>4. new \in Accruals /\ Due(new, volume[site]) /\ Paid(new, 0)
  BY <1>2, <1>3 DEF Accruals, Due, Paid
<1> HIDE DEF new
<1>5. ASSUME NEW dc \in Sites
      PROVE  Due(accrual'[dc], volume'[dc]) /\ Paid(accrual'[dc], Unwritten(dc)')
  <2>1. accrual'[dc] = IF dc = site THEN new ELSE accrual[dc]
    BY <1>1 DEF StorageInv, StorageTypes
  <2>2. Unwritten(dc)' = 0 /\ (dc # site => Unwritten(dc) = 0)
    BY <1>1 DEF Unwritten
  <2> QED BY <1>1, <1>4, <2>1, <2>2 DEF StorageInv, DueInv, PaidInv
<1>6. StorageTypes'
  BY <1>1, <1>4 DEF StorageInv, StorageTypes
<1> QED BY <1>5, <1>6 DEF StorageInv, DueInv, PaidInv

(* The rest of a round leaves accruals alone.                                *)
LEMMA RoundCovers == ASSUME StorageInv, Round PROVE StorageInv'
<1> USE DEF StorageInv, StorageTypes, DueInv, PaidInv, Unwritten, Amount, Goes, volumeVars
<1>1. CASE SizeForAll
  <2>1. /\ stage = "sizing" /\ site \in Sites /\ Ensured(site, Need(OnVolume))
        /\ stage' = "stage" /\ site' = site /\ accrual' = accrual
    BY <1>1 DEF SizeForAll
  <2>2. volume' \in [Sites -> Nat] /\ DueInv'
    BY <2>1, EnsuredGrows
  <2> QED BY <2>1, <2>2
<1>2. CASE NothingToFetch
  BY <1>2 DEF NothingToFetch
<1>3. CASE RentStager
  BY <1>3 DEF RentStager
<1>4. CASE FetchNext
  BY <1>4 DEF FetchNext
<1>5. CASE Fetched
  BY <1>5 DEF Fetched
<1>6. CASE FetchAnswered
  BY <1>6 DEF FetchAnswered, Answered
<1>7. CASE StagerGone
  BY <1>7 DEF StagerGone
<1>8. CASE WriteRecord
  BY <1>8 DEF WriteRecord, RoundOver
<1>9. CASE Charge
  BY <1>9, ChargeCovers
<1>10. CASE WriteAccrual
  BY <1>10, EntryCovers
<1> QED BY <1>1, <1>2, <1>3, <1>4, <1>5, <1>6, <1>7, <1>8, <1>9, <1>10 DEF Round

(* A round is for a datacenter.                                              *)
LEMMA ChosenSite ==
  ASSUME NEW models, NEW gpu \in SUBSET Sites, NEW cpu, NEW dc \in SitesOfChoice(models, gpu, cpu)
  PROVE  dc \in Sites
  BY DEF SitesOfChoice, Preferred

LEMMA StorageNext == StorageInv /\ [Next]_vars => StorageInv'
<1> SUFFICES ASSUME StorageInv, [Next]_vars PROVE StorageInv'
  OBVIOUS
<1>1. ASSUME UNCHANGED <<volume, accrual, stage, site>> PROVE StorageInv'
  BY <1>1 DEF StorageInv, StorageTypes, DueInv, PaidInv, Unwritten, Amount
<1>2. CASE Stages
  BY <1>2, RoundCovers DEF Stages
<1>3. CASE Operator
  <2>1. ASSUME NEW program, NEW models, NEW dc \in Sites, NEW step, Begins(program, dc, models, step),
               stage = "idle", step # "accrued", volume' \in [Sites -> Nat] /\ DueInv'
        PROVE  StorageInv'
    BY <2>1 DEF Begins, StorageInv, StorageTypes, PaidInv, Unwritten
  <2>2. CASE ChooseSite
    <3>1. PICK models \in SUBSET Models \ {{}}, gpu \in SUBSET Sites, cpu \in SUBSET Sites :
            \E dc \in SitesOfChoice(models, gpu, cpu) :
               Begins("run", dc, models, "sizing") /\ Ensured(dc, Need(models))
      BY <2>2 DEF ChooseSite
    <3>2. PICK dc \in SitesOfChoice(models, gpu, cpu) :
            Begins("run", dc, models, "sizing") /\ Ensured(dc, Need(models))
      BY <3>1
    <3>3. dc \in Sites /\ accrual' = accrual
      BY <3>2, ChosenSite DEF Begins
    <3>4. volume' \in [Sites -> Nat] /\ DueInv'
      BY <3>2, <3>3, EnsuredGrows DEF StorageInv
    <3> QED BY <2>1, <2>2, <3>2, <3>3, <3>4 DEF ChooseSite, MayBegin
  <2>3. CASE StageAhead
    BY <2>1, <2>3 DEF StageAhead, MayBegin, Begins, StorageInv, StorageTypes, DueInv
  <2> QED BY <1>3, <2>2, <2>3 DEF Operator
<1>4. CASE World
  <2>1. CASE CutOff
    BY <2>1, CutOffCovers
  <2>2. CASE HourPasses
    BY <2>2, HourCovers
  <2>3. CASE UNCHANGED stagingVars
    BY <2>3, <1>1 DEF stagingVars, roundVars, volumeVars
  <2>4. CutOff \/ HourPasses \/ UNCHANGED stagingVars
    BY <1>4 DEF World
  <2> QED BY <2>1, <2>2, <2>3, <2>4
<1>5. CASE Starts \/ Serves \/ Asks \/ (Ends /\ UNCHANGED vars) \/ UNCHANGED vars
  <2>1. UNCHANGED <<volume, accrual, stage, site>>
    BY <1>5 DEF Starts, Serves, Asks, vars, stagingVars, roundVars, volumeVars
  <2> QED BY <2>1, <1>1
<1> QED BY <1>2, <1>3, <1>4, <1>5 DEF Next, Harness

(* What a known volume was charged is its bill up to its last entry, but for *)
(* the hours before its first, for those a round charged and died before it  *)
(* could enter them, and for a volume that grew, which is charged more: for  *)
(* every number of sites, models, rounds, hours and cut-offs.                *)
THEOREM StoragePaid == Spec => []StorageIsPaid
<1>1. StorageInv => StorageIsPaid
  BY DEF StorageInv, PaidInv, Paid, StorageIsPaid
<1> QED BY <1>1, StorageInit, StorageNext, PTL DEF Spec
-----------------------------------------------------------------------------
(* The engine.                                                             *)

Outcome == {"healthy", "model_failure", "harness_failure"}

(* Where the loop stands.                                                  *)
LoopInv ==
  /\ at \in {"next", "prepare", "clean", "download", "poll", "launch", "health", "alive",
             "size", "end"}
  /\ turn \in 0..Len(Served)
  /\ turn = 0 => at \in {"next", "end"}
  /\ verdict \in Seq(Outcome)
  /\ Len(verdict) = (IF at \in {"next", "end"} THEN turn ELSE turn - 1)
  /\ disk \in [Models -> {"none", "partial", "full"}]
  /\ twice \in Nat

(* The download that is polled, and what it says.                          *)
FetchInv ==
  \/ fetches = EmptyBag
  \/ at = "poll" /\ rcFile = NoCode /\ \E code \in {NoCode, 0, 1} :
        /\ fetches = SetToBag({[model |-> Model, code |-> code]})
        /\ code = 0 => disk[Model] = "full"

WeightInv ==
  /\ at = "poll" /\ rcFile = 0 => disk[Model] = "full"
  /\ at \in {"launch", "health", "alive", "size"} => disk[Model] = "full"

(* The engine that was launched, with nothing else to die of.              *)
AnyEngine == {[model |-> Model, state |-> st] : st \in {"loading", "serving", "dying"}}
OneEngine == engines = EmptyBag \/ \E e \in AnyEngine : engines = SetToBag({e})

LaunchInv ==
  /\ at \in {"download", "poll", "launch"} => engines = EmptyBag
  /\ at \in {"health", "alive", "size"} => OneEngine /\ blame = {}

RecordInv ==
  at = "next" /\ turn > 0 =>
    /\ verdict[turn] = "healthy" => OneEngine
    /\ verdict[turn] = "model_failure" => blame = {}

ModelInv == LoopInv /\ (twice = 0 /\ ~late => FetchInv /\ WeightInv /\ LaunchInv /\ RecordInv)

BootInv ==
  /\ kind \in {"gpu", "stager", "serving"}
  /\ kind # "gpu" => turn = 0
  /\ kind = "gpu" => ModelInv

-----------------------------------------------------------------------------
(* Bags of one process.                                                    *)
LEMMA FirstOne == ASSUME NEW p PROVE EmptyBag (+) Copies(1, p) = SetToBag({p})
<1>1. Copies(1, p) = SetToBag({p})
  BY DEF SetToBag, Copies
<1> QED BY <1>1 DEF EmptyBag, SetToBag, (+)

LEMMA LastOne == ASSUME NEW p PROVE Gone(SetToBag({p}), p) = EmptyBag
  BY DEF Gone, EmptyBag, SetToBag, (-)

LEMMA OtherOne == ASSUME NEW p, NEW q PROVE Become(SetToBag({p}), p, q) = SetToBag({q})
<1>1. Become(SetToBag({p}), p, q) = EmptyBag (+) SetToBag({q})
  BY LastOne DEF Become
<1> QED BY <1>1 DEF EmptyBag, SetToBag, (+)

LEMMA OnlyOne == ASSUME NEW p PROVE BagToSet(SetToBag({p})) = {p} /\ BagToSet(EmptyBag) = {}
  BY DEF BagToSet, SetToBag, EmptyBag

-----------------------------------------------------------------------------
(* The client's steps.                                                     *)
Recorded(how) == verdict' = Append(verdict, how) /\ at' = "next" /\ turn' = turn
Retried == at' = "prepare" /\ UNCHANGED <<turn, verdict>>

LEMMA RecordedEnds ==
  ASSUME LoopInv, at \notin {"next", "end"}, NEW how \in Outcome, Recorded(how),
         disk' = disk, twice' \in Nat
  PROVE  LoopInv' /\ at' = "next" /\ turn' = turn /\ turn \in 1..Len(Served) /\ verdict'[turn] = how
<1>1. /\ verdict' = Append(verdict, how) /\ at' = "next" /\ turn' = turn
      /\ verdict \in Seq(Outcome) /\ Len(verdict) = turn - 1 /\ turn \in 1..Len(Served)
  BY DEF Recorded, LoopInv
<1>2. verdict' \in Seq(Outcome) /\ Len(verdict') = turn /\ verdict'[turn] = how
  BY <1>1
<1> QED BY <1>1, <1>2 DEF LoopInv

(* A model that went without a boot leaves nothing to be true of it.         *)
LEMMA Failed ==
  ASSUME LoopInv, at \notin {"next", "end"}, disk' = disk, twice' \in Nat,
         Retried \/ Recorded("harness_failure"),
         twice' = 0 /\ ~late' => fetches' = EmptyBag
  PROVE  ModelInv'
<1>1. /\ LoopInv' /\ at' \in {"next", "prepare"} /\ turn' = turn
      /\ at' = "next" => verdict'[turn] = "harness_failure"
  <2>1. CASE Retried
    BY <2>1 DEF Retried, LoopInv
  <2>2. CASE Recorded("harness_failure")
    BY <2>2, RecordedEnds DEF Outcome
  <2> QED BY <2>1, <2>2
<1>2. twice' = 0 /\ ~late' => FetchInv' /\ WeightInv' /\ LaunchInv' /\ RecordInv'
  BY <1>1 DEF FetchInv, WeightInv, LaunchInv, RecordInv
<1> QED BY <1>1, <1>2 DEF ModelInv

LEMMA ClientKeeps == ASSUME ModelInv, Client PROVE ModelInv'
<1> DEFINE sound == twice = 0 /\ ~late
<1>1. LoopInv /\ (sound => FetchInv /\ WeightInv /\ LaunchInv /\ RecordInv)
  BY DEF ModelInv
<1>2. ASSUME sound, at # "poll" \/ rcFile # NoCode PROVE fetches = EmptyBag
  BY <1>1, <1>2 DEF FetchInv
<1>3. CASE NextModel
  <2>1. /\ at = "next" /\ at' = "prepare" /\ turn' = turn + 1 /\ turn' \in 1..Len(Served)
        /\ disk' = Evicted(disk, Served[turn + 1])
        /\ UNCHANGED <<verdict, fetches, twice, late>>
    BY <1>3, <1>1 DEF NextModel, LoopInv
  <2>2. disk' \in [Models -> {"none", "partial", "full"}]
    BY <2>1, <1>1 DEF Evicted, LoopInv
  <2>3. LoopInv'
    BY <2>1, <2>2, <1>1 DEF LoopInv
  <2>4. sound' => FetchInv' /\ WeightInv' /\ LaunchInv' /\ RecordInv'
    BY <2>1, <1>2 DEF FetchInv, WeightInv, LaunchInv, RecordInv
  <2> QED BY <2>3, <2>4 DEF ModelInv
<1>4. CASE EndOfPod
  BY <1>4, <1>1 DEF EndOfPod, ModelInv, LoopInv, FetchInv, WeightInv, LaunchInv, RecordInv
<1>5. CASE PrepareBoot
  BY <1>5, <1>1 DEF PrepareBoot, ModelInv, LoopInv, FetchInv, WeightInv, LaunchInv, RecordInv
<1>6. CASE Clean
  <2>1. CASE engines = EmptyBag
    BY <2>1, <1>6, <1>1 DEF Clean, podVars, ModelInv, LoopInv, FetchInv, WeightInv, LaunchInv, RecordInv
  <2>2. CASE Retried \/ Recorded("harness_failure")
    BY <2>2, <1>6, <1>1, <1>2, Failed DEF Clean, podVars, LoopInv
  <2> QED BY <1>6, <2>1, <2>2 DEF Clean, HarnessFailure, Finish, Retried, Recorded
<1>7. CASE StartDownload
  <2>1. PICK n \in 1..2 : FetchStarts(Model, n)
    BY <1>7 DEF StartDownload
  <2>2. /\ at = "download" /\ at' = "poll" /\ rcFile' = NoCode /\ twice' = twice + n - 1
        /\ fetches' = fetches (+) Copies(n, NewFetch(Model))
        /\ disk' = (IF disk[Model] = "full" THEN disk ELSE [disk EXCEPT ![Model] = "partial"])
        /\ UNCHANGED <<turn, verdict, engines, late, blame>>
    BY <1>7, <2>1 DEF StartDownload, FetchStarts, ForgetCode
  <2>3. LoopInv'
    <3>1. twice' \in Nat
      BY <2>2, <1>1 DEF LoopInv
    <3>2. disk' \in [Models -> {"none", "partial", "full"}]
      <4>1. [disk EXCEPT ![Model] = "partial"] \in [Models -> {"none", "partial", "full"}]
        BY <1>1 DEF LoopInv
      <4> QED BY <4>1, <2>2, <1>1 DEF LoopInv
    <3> QED BY <3>1, <3>2, <2>2, <1>1 DEF LoopInv
  <2>4. ASSUME sound' PROVE FetchInv' /\ WeightInv' /\ LaunchInv' /\ RecordInv'
    <3>1. n = 1 /\ sound
      BY <2>2, <2>4, <1>1 DEF LoopInv
    <3>2. fetches' = SetToBag({[model |-> Model, code |-> NoCode]})
      BY <3>1, <2>2, <1>2, FirstOne DEF NewFetch
    <3>3. FetchInv'
      BY <3>2, <2>2 DEF FetchInv, Model, NoCode
    <3> QED BY <3>1, <3>3, <2>2, <1>1 DEF WeightInv, LaunchInv, RecordInv, NoCode
  <2> QED BY <2>3, <2>4 DEF ModelInv
<1>8. CASE PollDownload
  <2>1. at = "poll" /\ UNCHANGED <<disk, fetches, rcFile, engines, twice, blame>>
    BY <1>8 DEF PollDownload
  <2>2. CASE rcFile = 0 /\ at' = "launch" /\ UNCHANGED <<turn, verdict, late>>
    BY <2>1, <2>2, <1>1, <1>2 DEF ModelInv, LoopInv, FetchInv, WeightInv, LaunchInv, RecordInv, Model, NoCode
  <2>3. CASE rcFile > 0 /\ (Retried \/ Recorded("harness_failure")) /\ late' = late
    BY <2>1, <2>3, <1>1, <1>2, Failed DEF LoopInv, NoCode
  <2>4. CASE late' = TRUE /\ (Retried \/ Recorded("harness_failure"))
    BY <2>1, <2>4, <1>1, Failed DEF LoopInv
  <2> QED BY <1>8, <2>2, <2>3, <2>4 DEF PollDownload, HarnessFailure, Finish, Retried, Recorded
<1>9. CASE Launch
  <2>1. PICK n \in 1..2 : /\ engines' = engines (+) Copies(n, [model |-> Model, state |-> "loading"])
                          /\ twice' = twice + n - 1
    BY <1>9 DEF Launch
  <2>2. /\ at = "launch" /\ at' = "health" /\ blame' = {}
        /\ UNCHANGED <<turn, verdict, disk, fetches, rcFile, late>>
    BY <1>9 DEF Launch
  <2>3. LoopInv'
    BY <2>1, <2>2, <1>1 DEF LoopInv
  <2>4. ASSUME sound' PROVE FetchInv' /\ WeightInv' /\ LaunchInv' /\ RecordInv'
    <3>1. n = 1 /\ sound
      BY <2>1, <2>2, <2>4, <1>1 DEF LoopInv
    <3>2. engines' = SetToBag({[model |-> Model, state |-> "loading"]})
      BY <3>1, <2>1, <2>2, <1>1, FirstOne DEF LaunchInv
    <3>3. OneEngine'
      BY <3>2, <2>2 DEF OneEngine, AnyEngine, Model
    <3> QED BY <3>1, <3>3, <2>2, <1>1, <1>2 DEF FetchInv, WeightInv, LaunchInv, RecordInv, Model
  <2> QED BY <2>3, <2>4 DEF ModelInv
<1>10. CASE Health
  <2>1. at = "health" /\ UNCHANGED <<disk, fetches, rcFile, engines, blame, twice, late>>
    BY <1>10 DEF Health, podVars
  <2>2. CASE Recorded("healthy")
    <3>1. LoopInv' /\ at' = "next" /\ turn' = turn /\ verdict'[turn] = "healthy"
      BY <2>1, <2>2, <1>1, RecordedEnds DEF LoopInv, Outcome
    <3> QED BY <3>1, <2>1, <1>1, <1>2
            DEF ModelInv, FetchInv, WeightInv, LaunchInv, RecordInv, OneEngine, AnyEngine, Model
  <2>3. CASE at' = "alive" /\ UNCHANGED <<turn, verdict>>
    BY <2>1, <2>3, <1>1, <1>2
       DEF ModelInv, LoopInv, FetchInv, WeightInv, LaunchInv, RecordInv, OneEngine, AnyEngine, Model
  <2> QED BY <1>10, <2>2, <2>3 DEF Health, HarnessFailure, Finish, Retried, Recorded
<1>11. CASE Alive
  <2>1. at = "alive" /\ UNCHANGED <<disk, fetches, rcFile, engines, blame, twice, late>>
    BY <1>11 DEF Alive, podVars
  <2>2. CASE at' = "size" /\ UNCHANGED <<turn, verdict>>
    BY <2>1, <2>2, <1>1, <1>2
       DEF ModelInv, LoopInv, FetchInv, WeightInv, LaunchInv, RecordInv, OneEngine, AnyEngine, Model
  <2>3. CASE Retried \/ Recorded("harness_failure")
    BY <2>1, <2>3, <1>1, <1>2, Failed DEF LoopInv
  <2>4. CASE Recorded("model_failure")
    <3>1. LoopInv' /\ at' = "next" /\ turn' = turn /\ verdict'[turn] = "model_failure"
      BY <2>1, <2>4, <1>1, RecordedEnds DEF LoopInv, Outcome
    <3> QED BY <3>1, <2>1, <1>1, <1>2 DEF ModelInv, FetchInv, WeightInv, LaunchInv, RecordInv
  <2> QED BY <1>11, <2>2, <2>3, <2>4 DEF Alive, HarnessFailure, Finish, Retried, Recorded
<1>12. CASE LogSize
  <2>1. at = "size" /\ UNCHANGED <<disk, fetches, rcFile, engines, blame, twice, late>>
    BY <1>12 DEF LogSize, podVars
  <2>2. CASE at' = "health" /\ UNCHANGED <<turn, verdict>>
    BY <2>1, <2>2, <1>1, <1>2
       DEF ModelInv, LoopInv, FetchInv, WeightInv, LaunchInv, RecordInv, OneEngine, AnyEngine, Model
  <2>3. CASE Retried \/ Recorded("harness_failure")
    BY <2>1, <2>3, <1>1, <1>2, Failed DEF LoopInv
  <2> QED BY <1>12, <2>2, <2>3 DEF LogSize, HarnessFailure, Finish, Retried, Recorded
<1>13. CASE CommandRaises
  BY <1>13, <1>1, <1>2, Failed DEF CommandRaises, Finish, Recorded, podVars, LoopInv
<1> QED BY <1>3, <1>4, <1>5, <1>6, <1>7, <1>8, <1>9, <1>10, <1>11, <1>12, <1>13 DEF Client

-----------------------------------------------------------------------------
(* The pod's steps: the one download and the one engine go on.               *)
LEMMA DownloadKeeps == ASSUME ModelInv, NEW fitting, Downloads(fitting) PROVE ModelInv'
<1> DEFINE sound == twice = 0 /\ ~late
<1>1. /\ LoopInv /\ (sound => FetchInv /\ WeightInv /\ LaunchInv /\ RecordInv)
      /\ UNCHANGED <<at, turn, verdict, engines, blame, twice, late>>
  BY DEF ModelInv, Downloads
<1>2. PICK f \in BagToSet(fetches) : FetchEnds(f, fitting) \/ FetchReports(f)
  BY DEF Downloads
<1>3. disk' = disk \/ disk' = [disk EXCEPT ![f.model] = "full"]
  BY <1>2 DEF FetchEnds, FetchReports
<1>4. LoopInv'
  <2>1. disk' \in [Models -> {"none", "partial", "full"}]
    BY <1>1, <1>3 DEF LoopInv
  <2> QED BY <2>1, <1>1 DEF LoopInv
<1>5. ASSUME sound PROVE FetchInv' /\ WeightInv' /\ LaunchInv' /\ RecordInv'
  <2>1. /\ at = "poll" /\ rcFile = NoCode
        /\ \E code \in {NoCode, 0, 1} :
              /\ fetches = SetToBag({[model |-> Model, code |-> code]})
              /\ code = 0 => disk[Model] = "full"
    BY <1>1, <1>2, <1>5, OnlyOne DEF FetchInv
  <2>2. PICK code \in {NoCode, 0, 1} :
          /\ fetches = SetToBag({[model |-> Model, code |-> code]})
          /\ code = 0 => disk[Model] = "full"
    BY <2>1
  <2>3. f = [model |-> Model, code |-> code]
    BY <1>2, <2>2, OnlyOne
  <2>4. Model' = Model /\ Model \in Models
    <3>1. turn \in 1..Len(Served)
      BY <1>1, <2>1 DEF LoopInv
    <3> QED BY <3>1, <1>1, EngineBootAssumption DEF Model
  <2>5. CASE FetchEnds(f, fitting)
    <3>1. rcFile' = NoCode
      BY <2>1, <2>5 DEF FetchEnds
    <3>2. CASE fetches' = Become(fetches, f, [f EXCEPT !.code = 0])
               /\ disk' = [disk EXCEPT ![f.model] = "full"]
      <4>1. fetches' = SetToBag({[model |-> Model, code |-> 0]})
        BY <3>2, <2>2, <2>3, OtherOne
      <4>2. disk'[Model] = "full"
        BY <3>2, <2>3, <2>4, <1>1 DEF LoopInv
      <4>3. FetchInv'
        BY <4>1, <4>2, <3>1, <2>1, <2>4, <1>1 DEF FetchInv
      <4> QED BY <4>2, <4>3, <3>1, <2>1, <1>1, <1>5 DEF WeightInv, LaunchInv, RecordInv, NoCode
    <3>3. CASE fetches' = Become(fetches, f, [f EXCEPT !.code = 1]) /\ disk' = disk
      <4>1. fetches' = SetToBag({[model |-> Model, code |-> 1]})
        BY <3>3, <2>2, <2>3, OtherOne
      <4>2. FetchInv'
        BY <4>1, <3>1, <2>1, <2>4, <1>1 DEF FetchInv
      <4> QED BY <4>2, <3>1, <2>1, <1>1, <1>5 DEF WeightInv, LaunchInv, RecordInv, NoCode
    <3> QED BY <2>5, <3>2, <3>3 DEF FetchEnds
  <2>6. CASE FetchReports(f)
    <3>1. rcFile' = code /\ fetches' = Gone(fetches, f) /\ disk' = disk
      BY <2>6, <2>3 DEF FetchReports
    <3>2. fetches' = EmptyBag
      BY <3>1, <2>2, <2>3, LastOne
    <3> QED BY <3>1, <3>2, <2>1, <2>2, <2>4, <1>1, <1>5 DEF FetchInv, WeightInv, LaunchInv, RecordInv
  <2> QED BY <1>2, <2>5, <2>6
<1> QED BY <1>1, <1>4, <1>5 DEF ModelInv

LEMMA EngineKeeps == ASSUME ModelInv, Engines PROVE ModelInv'
<1> DEFINE sound == twice = 0 /\ ~late
<1>1. /\ LoopInv /\ (sound => FetchInv /\ WeightInv /\ LaunchInv /\ RecordInv)
      /\ UNCHANGED <<at, turn, verdict, disk, fetches, rcFile, twice, late>>
  BY DEF ModelInv, Engines, EngineLogs, EngineServes, EngineDies
<1>2. LoopInv' /\ (sound => FetchInv' /\ WeightInv')
  BY <1>1 DEF LoopInv, FetchInv, WeightInv, Model
<1>3. ASSUME sound PROVE LaunchInv' /\ RecordInv'
  <2>1. CASE EngineLogs
    BY <2>1, <1>1, <1>3 DEF EngineLogs, LaunchInv, RecordInv, OneEngine, AnyEngine, Model
  <2>2. ASSUME NEW e \in BagToSet(engines), EngineServes(e) \/ EngineDies(e)
        PROVE  LaunchInv' /\ RecordInv'
    <3>1. engines # EmptyBag
      BY <2>2, OnlyOne
    <3>2. ASSUME OneEngine PROVE OneEngine' /\ (at \in {"health", "alive", "size"} => blame' \subseteq blame)
      <4>1. PICK one \in AnyEngine : engines = SetToBag({one})
        BY <3>1, <3>2 DEF OneEngine
      <4>2. e = one
        BY <4>1, <2>2, OnlyOne
      <4>3. CASE EngineServes(e)
        <5>1. engines' = SetToBag({[e EXCEPT !.state = "serving"]})
          BY <4>1, <4>2, <4>3, OtherOne DEF EngineServes
        <5>2. [e EXCEPT !.state = "serving"] \in AnyEngine /\ AnyEngine' = AnyEngine
          BY <4>2, <1>1 DEF AnyEngine, Model
        <5> QED BY <5>1, <5>2, <4>3 DEF EngineServes, OneEngine
      <4>4. CASE EngineDies(e)
        <5>1. Gone(engines, e) = EmptyBag
          BY <4>1, <4>2, LastOne
        <5>2. at \in {"health", "alive", "size"} => disk[e.model] = "full"
          BY <4>2, <1>1, <1>3 DEF WeightInv, AnyEngine
        <5> QED BY <5>1, <5>2, <4>4 DEF EngineDies, OneEngine
      <4> QED BY <2>2, <4>3, <4>4
    <3>3. at \notin {"health", "alive", "size"} => blame' = blame
      BY <2>2 DEF EngineServes, EngineDies
    <3> QED BY <3>1, <3>2, <3>3, <1>1, <1>3 DEF LaunchInv, RecordInv
  <2> QED BY <2>1, <2>2 DEF Engines
<1> QED BY <1>1, <1>2, <1>3 DEF ModelInv

-----------------------------------------------------------------------------
LEMMA BootInit == Init => BootInv
<1> SUFFICES ASSUME Init PROVE BootInv
  OBVIOUS
<1>1. /\ at = "next" /\ turn = 0 /\ verdict = <<>> /\ fetches = EmptyBag /\ twice = 0
      /\ disk = [m \in Models |-> "none"] /\ kind \in {"gpu", "stager", "serving"}
  BY DEF Init, EngineInit
<1>2. LoopInv
  <2>1. Len(Served) \in Nat /\ verdict \in Seq(Outcome) /\ Len(verdict) = 0
    BY <1>1, EngineBootAssumption
  <2> QED BY <1>1, <2>1 DEF LoopInv
<1> QED BY <1>1, <1>2 DEF BootInv, ModelInv, FetchInv, WeightInv, LaunchInv, RecordInv

LEMMA BootNext == BootInv /\ [Next]_vars => BootInv'
<1> SUFFICES ASSUME BootInv, [Next]_vars PROVE BootInv'
  OBVIOUS
<1>1. ASSUME UNCHANGED <<kind, engineVars>> PROVE BootInv'
  BY <1>1 DEF engineVars, BootInv, ModelInv, LoopInv, FetchInv, WeightInv, LaunchInv, RecordInv,
              OneEngine, AnyEngine, Model
<1>2. ASSUME kind # "gpu", UNCHANGED <<kind, turn>> PROVE BootInv'
  BY <1>2 DEF BootInv
<1>3. CASE Serves
  BY <1>3, ClientKeeps DEF Serves, BootInv
<1>4. CASE Stages \/ Operator
  BY <1>4, <1>2 DEF Stages, Operator, NoEngine
<1>5. CASE World
  <2>1. CASE kind = "gpu" /\ UNCHANGED kind /\ Pod
    BY <2>1, DownloadKeeps, EngineKeeps DEF Pod, BootInv
  <2>2. \/ UNCHANGED <<kind, engineVars>>
        \/ kind = "gpu" /\ UNCHANGED kind /\ Pod
        \/ kind # "gpu" /\ UNCHANGED <<kind, turn>>
    BY <1>5 DEF World, NoEngine, Downloads
  <2> QED BY <1>1, <1>2, <2>1, <2>2
<1>6. CASE Starts \/ Asks \/ (Ends /\ UNCHANGED vars) \/ UNCHANGED vars
  <2>1. UNCHANGED <<kind, engineVars>>
    BY <1>6 DEF Starts, Asks, vars
  <2> QED BY <2>1, <1>1
<1> QED BY <1>3, <1>4, <1>5, <1>6 DEF Next, Harness

(* A verdict is the model's own, for every sequence of models, number of     *)
(* polls and length of log.                                                  *)
THEOREM VerdictsAreTheModels == Spec => []VerdictIsTheModels
<1>1. BootInv => VerdictIsTheModels
  <2> SUFFICES ASSUME BootInv, at = "next", turn > 0, twice = 0, ~late
               PROVE  /\ verdict[turn] = "healthy" => \A e \in Answering : e.model = Model
                      /\ verdict[turn] = "model_failure" => blame = {}
    BY DEF VerdictIsTheModels
  <2>1. RecordInv
    BY DEF BootInv, ModelInv
  <2>2. ASSUME OneEngine, NEW e \in Answering PROVE e.model = Model
    <3>1. e \in BagToSet(engines)
      BY DEF Answering
    <3>2. PICK one \in AnyEngine : engines = SetToBag({one})
      BY <2>2, <3>1, OnlyOne DEF OneEngine
    <3>3. e = one
      BY <3>1, <3>2, OnlyOne
    <3> QED BY <3>3 DEF AnyEngine
  <2> QED BY <2>1, <2>2 DEF RecordInv
<1> QED BY <1>1, BootInit, BootNext, PTL DEF Spec

-----------------------------------------------------------------------------
(* Staged weights.                                                          *)

(* A volume sized for what it will hold has room for any part of it.        *)
LEMMA Roomy ==
  ASSUME NEW models \in SUBSET Models, NEW part \in SUBSET models
  PROVE  /\ Total[part] \in Nat /\ Total[models] \in Nat /\ Total[part] <= Total[models]
         /\ Need(models) \in Nat /\ Total[models] <= Need(models)
<1> DEFINE weigh(s) == [m \in s |-> GigaBytes[m]]
<1>1. IsFiniteSet(models) /\ IsFiniteSet(part)
  BY EngineBootAssumption, FS_Subset
<1>2. weigh(models) \in [models -> Nat] /\ weigh(part) \in [part -> Nat]
  BY StagingAssumption
<1>3. \A m \in part : weigh(models)[m] = weigh(part)[m]
  OBVIOUS
<1>4. Total[models] = SumFunction(weigh(models)) /\ Total[part] = SumFunction(weigh(part))
  <2>1. models \in SUBSET Models /\ part \in SUBSET Models
    OBVIOUS
  <2> QED
    BY <2>1 DEF Total
<1> HIDE DEF weigh
<1>5. Total[models] \in Nat
  BY <1>1, <1>2, <1>4, SumNat
<1>6. Total[part] \in Nat /\ Total[part] <= Total[models]
  BY <1>1, <1>2, <1>3, <1>4, SumMonotone
<1>7. ASSUME NEW t \in Nat PROVE (115 * t) \div 100 + 10 \in Nat /\ t <= (115 * t) \div 100 + 10
  OBVIOUS
<1> QED
  BY <1>5, <1>6, <1>7 DEF Need

DiskStates == {"none", "partial", "full"}

(* The types of what Staging keeps, as far as the proofs need them.         *)
StagerTypes ==
  /\ wanted \subseteq Models /\ results \subseteq wanted
  /\ stage # "idle" => site \in Sites
  /\ stage = "idle" => results = {}
  /\ stage = "wait" => results # wanted
  /\ disk \in [Models -> DiskStates]
  /\ contents \in [Sites -> [Models -> DiskStates]]
  /\ staged \in [Sites -> SUBSET Models] /\ listed \in [Sites -> SUBSET Models]
  /\ volume \in [Sites -> Nat]

(* What is on a volume: while a stager has it attached, the stager's disk.  *)
Held(dc) == IF PodUp /\ dc = site THEN disk ELSE contents[dc]

StagedInv == \A dc \in Sites : \A m \in staged[dc] : Held(dc)[m] = "full"

(* At most one download runs, the one that is waited for, and its code of 0 *)
(* is that of a whole model.                                                *)
WaitedInv ==
  /\ stage \notin {"wait", "teardown"} => fetches = EmptyBag
  /\ stage = "wait" =>
       /\ rcFile \in {NoCode, 0, 1} /\ (rcFile = 0 => disk[InHand] = "full")
       /\ \/ fetches = EmptyBag
          \/ /\ rcFile = NoCode
             /\ \E code \in {NoCode, 0, 1} :
                  /\ fetches = SetToBag({[model |-> InHand, code |-> code]})
                  /\ code = 0 => disk[InHand] = "full"

RoomInv == stage = "stage" \/ PodUp => Total[listed[site] \cup wanted] <= volume[site]

StagerInv ==
  IF kind = "stager" THEN StagerTypes /\ RoomInv /\ (~late => WaitedInv /\ StagedInv)
  ELSE stage = "idle" /\ staged = [dc \in Sites |-> {}]

LEMMA StagerInit == Init => StagerInv
<1> SUFFICES ASSUME Init PROVE StagerInv
  OBVIOUS
<1>1. /\ stage = "idle" /\ wanted = {} /\ results = {}
      /\ disk = [m \in Models |-> "none"] /\ fetches = EmptyBag
      /\ contents = [dc \in Sites |-> Empty] /\ volume = [dc \in Sites |-> 0]
      /\ staged = [dc \in Sites |-> {}] /\ listed = [dc \in Sites |-> {}]
  BY DEF Init, EngineInit, StagingInit
<1> QED
  BY <1>1 DEF StagerInv, StagerTypes, RoomInv, WaitedInv, StagedInv, Held, PodUp, Empty, DiskStates

(* The round before its pod, and the storage that is charged.               *)
LEMMA SizeRooms == ASSUME StagerTypes, SizeForAll PROVE StagerTypes' /\ RoomInv'
<1>1. /\ stage = "sizing" /\ stage' = "stage" /\ Ensured(site, Need(OnVolume))
      /\ UNCHANGED <<site, wanted, results, disk, contents, staged, listed>>
  BY DEF SizeForAll, Goes, NoPod
<1>2. site \in Sites /\ volume[site] \in Nat /\ OnVolume \in SUBSET Models
  BY <1>1 DEF StagerTypes, OnVolume
<1>3. Total[OnVolume] \in Nat /\ Need(OnVolume) \in Nat /\ Total[OnVolume] <= Need(OnVolume)
  BY <1>2, Roomy
<1> DEFINE size == Need(OnVolume)
           grown == Max({volume[site], size})
<1>4. volume' = [volume EXCEPT ![site] = grown]
  BY <1>1 DEF Ensured
<1> HIDE DEF size
<1>5. grown \in Nat /\ grown >= size
  <2>1. size \in Nat
    BY <1>3 DEF size
  <2>2. Max({size, volume[site]}) \in Nat /\ Max({size, volume[site]}) >= size
    BY <1>2, <2>1, MaxOfTwo
  <2>3. {size, volume[site]} = {volume[site], size}
    OBVIOUS
  <2> QED
    BY <2>2, <2>3
<1> HIDE DEF grown
<1>6. StagerTypes'
  BY <1>1, <1>4, <1>5 DEF StagerTypes
<1>7. volume'[site] = grown /\ (listed[site] \cup wanted)' = OnVolume
  BY <1>1, <1>2, <1>4 DEF StagerTypes, OnVolume
<1> QED
  BY <1>1, <1>3, <1>5, <1>6, <1>7 DEF RoomInv, size

(* The records of a round, its sizes and its hours leave what is held.      *)
LEMMA QuietRound ==
  ASSUME StagerTypes, RoomInv, ~late => WaitedInv /\ StagedInv,
         stage \notin {"stage", "download", "wait", "teardown"},
         stage' \in {"idle", "sizing", "record", "accrue", "accrued"},
         disk' \in {disk, Empty}, fetches' \in {fetches, EmptyBag},
         UNCHANGED <<late, contents, staged>>
  PROVE  RoomInv' /\ (~late' => WaitedInv' /\ StagedInv')
  BY DEF StagerTypes, RoomInv, WaitedInv, StagedInv, Held, PodUp

LEMMA RoundHolds ==
  ASSUME StagerTypes, RoomInv, ~late => WaitedInv /\ StagedInv, Round
  PROVE  StagerTypes' /\ RoomInv' /\ (~late' => WaitedInv' /\ StagedInv')
<1> USE DEF Goes, NoPod, volumeVars, countVars, DiskStates
<1>0. Empty \in [Models -> DiskStates]
  BY DEF Empty
<1>1. CASE SizeForAll
  <2>1. /\ stage = "sizing" /\ stage' = "stage"
        /\ UNCHANGED <<site, disk, fetches, late, contents, staged>>
    BY <1>1 DEF SizeForAll
  <2>2. ~late' => WaitedInv' /\ StagedInv'
    BY <2>1 DEF WaitedInv, StagedInv, Held, PodUp
  <2> QED
    BY <1>1, <2>2, SizeRooms
<1>2. CASE NothingToFetch
  <2>1. /\ stage = "stage" /\ stage' = "record" /\ results' = wanted
        /\ UNCHANGED <<site, wanted, disk, fetches, late, volume, contents, staged, listed>>
    BY <1>2 DEF NothingToFetch
  <2> QED
    BY <2>1 DEF StagerTypes, RoomInv, WaitedInv, StagedInv, Held, PodUp
<1>3. CASE RentStager
  <2>1. /\ stage = "stage" /\ stage' \in {"download", "teardown"} /\ disk' = contents[site]
        /\ UNCHANGED <<site, wanted, results, fetches, late, volume, contents, staged, listed>>
    BY <1>3 DEF RentStager
  <2> QED
    BY <2>1 DEF StagerTypes, RoomInv, WaitedInv, StagedInv, Held, PodUp
<1>4. CASE FetchNext
  <2>1. /\ stage = "download" /\ results # wanted /\ stage' \in {"wait", "teardown"}
        /\ fetches' = fetches (+) Copies(1, NewFetch(InHand)) /\ rcFile' = NoCode
        /\ disk' = IF disk[InHand] = "full" THEN disk ELSE [disk EXCEPT ![InHand] = "partial"]
        /\ UNCHANGED <<site, wanted, results, late, volume, contents, staged, listed>>
    BY <1>4 DEF FetchNext, FetchStarts, ForgetCode
  <2>2. InHand' = InHand /\ \A m \in Models : disk[m] = "full" => disk'[m] = "full"
    BY <2>1 DEF InHand, StagerTypes
  <2>3. StagerTypes' /\ RoomInv'
    BY <2>1 DEF StagerTypes, RoomInv, PodUp
  <2>4. ASSUME ~late PROVE WaitedInv' /\ StagedInv'
    <3>1. fetches' = SetToBag({NewFetch(InHand)})
      BY <2>1, <2>4, FirstOne DEF WaitedInv
    <3>2. WaitedInv'
      BY <2>1, <2>2, <3>1 DEF WaitedInv, NewFetch, NoCode
    <3> QED
      BY <2>1, <2>2, <2>4, <3>2 DEF StagerTypes, StagedInv, Held, PodUp
  <2> QED
    BY <2>1, <2>3, <2>4
<1>5. CASE Fetched
  BY <1>5 DEF Fetched, StagerTypes, RoomInv, WaitedInv, StagedInv, Held, PodUp
<1>6. CASE FetchAnswered
  <2>1. /\ stage = "wait" /\ InHand \in wanted /\ site \in Sites
        /\ UNCHANGED <<site, wanted, disk, fetches, rcFile, volume, contents, listed>>
    BY <1>6 DEF FetchAnswered, Answered, StagerTypes, InHand
  <2>2. ASSUME NEW ok \in BOOLEAN, Answered(ok), ~late' => ok = (rcFile = 0) /\ rcFile # NoCode,
               late => late'
        PROVE  StagerTypes' /\ RoomInv' /\ (~late' => WaitedInv' /\ StagedInv')
    <3>1. /\ stage' = "download" /\ results' = results \cup {InHand}
          /\ staged' = IF ok THEN [staged EXCEPT ![site] = @ \cup {InHand}] ELSE staged
      BY <2>2 DEF Answered
    <3>2. StagerTypes' /\ RoomInv'
      BY <2>1, <3>1 DEF StagerTypes, RoomInv, PodUp
    <3>3. ASSUME ~late' PROVE WaitedInv' /\ StagedInv'
      <4>1. fetches = EmptyBag /\ (ok => disk[InHand] = "full") /\ StagedInv
        BY <2>1, <2>2, <3>3 DEF WaitedInv
      <4>2. \A dc \in Sites : Held(dc)' = Held(dc)
        BY <2>1, <3>1 DEF Held, PodUp
      <4>3. Held(site) = disk
        BY <2>1 DEF Held, PodUp
      <4>4. ASSUME NEW dc \in Sites, NEW m \in staged'[dc] PROVE Held(dc)[m] = "full"
        BY <2>1, <3>1, <4>1, <4>3, <4>4 DEF StagerTypes, StagedInv
      <4> QED
        BY <2>1, <3>1, <4>1, <4>2, <4>4 DEF WaitedInv, StagedInv
    <3> QED
      BY <3>2, <3>3
  <2>3. CASE stage' = "teardown" /\ UNCHANGED <<results, staged, late>>
    BY <2>1, <2>3 DEF StagerTypes, RoomInv, WaitedInv, StagedInv, Held, PodUp
  <2>4. CASE rcFile # NoCode /\ Answered(rcFile = 0) /\ UNCHANGED late
    BY <2>2, <2>4
  <2>5. CASE rcFile = NoCode /\ Answered(FALSE) /\ late' = TRUE
    BY <2>2, <2>5
  <2> QED
    BY <1>6, <2>3, <2>4, <2>5 DEF FetchAnswered
<1>7. CASE StagerGone
  <2>1. /\ stage = "teardown" /\ stage' = "record" /\ site \in Sites
        /\ contents' = [contents EXCEPT ![site] = disk]
        /\ disk' = Empty /\ fetches' = EmptyBag
        /\ UNCHANGED <<site, wanted, results, late, volume, staged, listed>>
    BY <1>7 DEF StagerGone, StagerTypes
  <2>2. \A dc \in Sites : Held(dc)' = Held(dc)
    BY <2>1 DEF Held, PodUp, StagerTypes
  <2> QED
    BY <1>0, <2>1, <2>2 DEF StagerTypes, RoomInv, WaitedInv, StagedInv, PodUp
<1>8. CASE WriteRecord
  <2>1. /\ stage = "record" /\ stage' \in {"accrue", "idle"} /\ site \in Sites
        /\ listed' = [listed EXCEPT ![site] = @ \cup results]
        /\ disk' \in {disk, Empty} /\ fetches' \in {fetches, EmptyBag}
        /\ stage' # "idle" => site' = site
        /\ IF stage' = "idle" THEN wanted' = {} /\ results' = {} ELSE UNCHANGED <<wanted, results>>
        /\ UNCHANGED <<late, volume, contents, staged>>
    BY <1>8 DEF WriteRecord, RoundOver, StagerTypes
  <2>2. StagerTypes'
    <3>1. listed' \in [Sites -> SUBSET Models]
      BY <2>1 DEF StagerTypes
    <3>2. disk' \in [Models -> DiskStates]
      BY <1>0, <2>1 DEF StagerTypes
    <3> QED
      BY <2>1, <3>1, <3>2 DEF StagerTypes
  <2> QED
    BY <2>1, <2>2, QuietRound
<1>9. CASE Charge
  <2>1. /\ stage = "accrue" /\ stage' = "accrued"
        /\ UNCHANGED <<site, wanted, results, disk, fetches, late, volume, contents, staged,
                       listed>>
    BY <1>9 DEF Charge
  <2> QED
    BY <2>1 DEF StagerTypes, RoomInv, WaitedInv, StagedInv, Held, PodUp
<1>10. CASE WriteAccrual
  <2>1. /\ stage = "accrued" /\ stage' \in {"sizing", "idle"}
        /\ stage' # "idle" => site' = site
        /\ disk' \in {disk, Empty} /\ fetches' \in {fetches, EmptyBag}
        /\ IF stage' = "idle" THEN wanted' = {} /\ results' = {} ELSE UNCHANGED <<wanted, results>>
        /\ UNCHANGED <<late, volume, contents, staged, listed>>
    BY <1>10 DEF WriteAccrual, RoundOver, StagerTypes
  <2>2. StagerTypes'
    <3>1. disk' \in [Models -> DiskStates]
      BY <1>0, <2>1 DEF StagerTypes
    <3> QED
      BY <2>1, <3>1 DEF StagerTypes
  <2> QED
    BY <2>1, <2>2, QuietRound
<1> QED
  BY <1>1, <1>2, <1>3, <1>4, <1>5, <1>6, <1>7, <1>8, <1>9, <1>10 DEF Round

(* The download goes on.                                                    *)
LEMMA FetchHolds ==
  ASSUME StagerTypes, RoomInv, ~late => WaitedInv /\ StagedInv, NEW fitting, Downloads(fitting),
         UNCHANGED stagingVars
  PROVE  StagerTypes' /\ RoomInv' /\ (~late' => WaitedInv' /\ StagedInv')
<1>1. UNCHANGED <<stage, site, wanted, results, volume, contents, staged, listed, late>>
  BY DEF Downloads, stagingVars, roundVars, volumeVars
<1>2. PICK f \in BagToSet(fetches) : FetchEnds(f, fitting) \/ FetchReports(f)
  BY DEF Downloads
<1>3. disk' = disk \/ disk' = [disk EXCEPT ![f.model] = "full"]
  BY <1>2 DEF FetchEnds, FetchReports
<1>4. StagerTypes' /\ RoomInv' /\ \A m \in Models : disk[m] = "full" => disk'[m] = "full"
  BY <1>1, <1>3 DEF StagerTypes, RoomInv, PodUp, DiskStates
<1>5. ASSUME StagedInv PROVE StagedInv'
  BY <1>1, <1>4, <1>5 DEF StagedInv, StagerTypes, Held, PodUp
<1>6. ASSUME ~late, stage # "teardown" PROVE WaitedInv'
  <2>1. stage = "wait" /\ fetches # EmptyBag
    BY <1>2, <1>6, OnlyOne DEF WaitedInv
  <2>2. PICK code \in {NoCode, 0, 1} :
          /\ fetches = SetToBag({[model |-> InHand, code |-> code]})
          /\ rcFile = NoCode /\ (code = 0 => disk[InHand] = "full")
    BY <1>6, <2>1 DEF WaitedInv
  <2>3. f = [model |-> InHand, code |-> code]
    BY <1>2, <2>2, OnlyOne
  <2>4. InHand' = InHand /\ InHand \in Models
    BY <1>1, <2>1 DEF InHand, StagerTypes
  <2>5. CASE FetchEnds(f, fitting)
    <3>1. rcFile' = NoCode
      BY <2>2, <2>5 DEF FetchEnds
    <3>2. CASE fetches' = Become(fetches, f, [f EXCEPT !.code = 0])
               /\ disk' = [disk EXCEPT ![f.model] = "full"]
      <4>1. fetches' = SetToBag({[model |-> InHand, code |-> 0]})
        BY <3>2, <2>2, <2>3, OtherOne
      <4>2. disk'[InHand] = "full"
        BY <3>2, <2>3, <2>4 DEF StagerTypes
      <4> QED
        BY <4>1, <4>2, <3>1, <2>1, <2>4, <1>1 DEF WaitedInv, NoCode
    <3>3. CASE fetches' = Become(fetches, f, [f EXCEPT !.code = 1]) /\ disk' = disk
      <4>1. fetches' = SetToBag({[model |-> InHand, code |-> 1]})
        BY <3>3, <2>2, <2>3, OtherOne
      <4> QED
        BY <4>1, <3>1, <2>1, <2>4, <1>1 DEF WaitedInv, NoCode
    <3> QED
      BY <2>5, <3>2, <3>3 DEF FetchEnds
  <2>6. CASE FetchReports(f)
    <3>1. rcFile' = code /\ fetches' = Gone(fetches, f) /\ disk' = disk
      BY <2>6, <2>3 DEF FetchReports
    <3>2. fetches' = EmptyBag
      BY <3>1, <2>2, <2>3, LastOne
    <3> QED
      BY <3>1, <3>2, <2>1, <2>2, <2>4, <1>1 DEF WaitedInv
  <2> QED
    BY <1>2, <2>5, <2>6
<1>7. ASSUME stage = "teardown" PROVE WaitedInv'
  BY <1>1, <1>7 DEF WaitedInv
<1> QED
  BY <1>1, <1>4, <1>5, <1>6, <1>7

(* A round is cut off: what is on the pod stays on the volume.              *)
LEMMA CutOffHolds ==
  ASSUME StagerTypes, RoomInv, ~late => WaitedInv /\ StagedInv, CutOff
  PROVE  StagerTypes' /\ RoomInv' /\ (~late' => WaitedInv' /\ StagedInv')
<1>1. /\ stage # "idle" /\ stage' = "idle" /\ wanted' = {} /\ results' = {} /\ disk' = Empty
      /\ fetches' = EmptyBag /\ site \in Sites
      /\ contents' = IF PodUp THEN [contents EXCEPT ![site] = disk] ELSE contents
      /\ UNCHANGED <<late, volume, staged, listed>>
  BY DEF CutOff, RoundOver, StagerTypes
<1>2. Empty \in [Models -> DiskStates]
  BY DEF Empty, DiskStates
<1>3. \A dc \in Sites : Held(dc)' = Held(dc)
  BY <1>1 DEF Held, PodUp, StagerTypes
<1> QED
  BY <1>1, <1>2, <1>3 DEF StagerTypes, RoomInv, WaitedInv, StagedInv, PodUp

(* A round begins, and no pod is touched.                                   *)
LEMMA BeginHolds ==
  ASSUME StagerTypes, RoomInv, ~late => WaitedInv /\ StagedInv, stage = "idle",
         NEW program, NEW models \in SUBSET Models, NEW dc \in Sites,
         NEW step \in {"sizing", "accrue"}, Begins(program, dc, models, step),
         volume' \in [Sites -> Nat]
  PROVE  StagerTypes' /\ RoomInv' /\ (~late' => WaitedInv' /\ StagedInv')
<1>1. /\ stage' = step /\ site' = dc /\ wanted' = models /\ results' = results
      /\ UNCHANGED <<disk, fetches, late, contents, staged, listed>>
  BY DEF Begins, NoPod
<1>2. StagerTypes'
  BY <1>1 DEF StagerTypes
<1> QED
  BY <1>1, <1>2, QuietRound

(* Every step keeps what is held.                                           *)
LEMMA StagerNext == ASSUME StagerInv, StorageInv, [Next]_vars PROVE StagerInv'
<1>1. ASSUME UNCHANGED <<kind, stage, site, wanted, results, disk, fetches, rcFile, late,
                         volume, contents, staged, listed>>
      PROVE  StagerInv'
  BY <1>1 DEF StagerInv, StagerTypes, RoomInv, WaitedInv, StagedInv, Held, PodUp, InHand
<1>2. ASSUME kind # "stager", UNCHANGED <<kind, stage, staged>> PROVE StagerInv'
  BY <1>2 DEF StagerInv
<1>3. CASE Stages
  BY <1>3, RoundHolds DEF Stages, NoEngine, StagerInv
<1>4. CASE Operator
  <2>0. /\ kind = "stager" /\ kind' = kind
        /\ StagerTypes /\ RoomInv /\ (~late => WaitedInv /\ StagedInv)
    BY <1>4 DEF Operator, NoEngine, StagerInv
  <2>1. CASE ChooseSite
    <3>1. PICK models \in SUBSET Models \ {{}}, gpu \in SUBSET Sites, cpu \in SUBSET Sites :
            \E dc \in SitesOfChoice(models, gpu, cpu) :
               Begins("run", dc, models, "sizing") /\ Ensured(dc, Need(models))
      BY <2>1 DEF ChooseSite
    <3>2. PICK dc \in SitesOfChoice(models, gpu, cpu) :
            Begins("run", dc, models, "sizing") /\ Ensured(dc, Need(models))
      BY <3>1
    <3>3. dc \in Sites /\ accrual' = accrual /\ stage = "idle"
      BY <2>1, <3>2, ChosenSite DEF Begins, ChooseSite, MayBegin
    <3>4. volume' \in [Sites -> Nat]
      BY <3>2, <3>3, EnsuredGrows DEF StorageInv
    <3> QED
      BY <2>0, <3>2, <3>3, <3>4, BeginHolds DEF StagerInv
  <2>2. CASE StageAhead
    <3>1. PICK models \in SUBSET Models, dc \in Sites :
            stage = "idle" /\ volume' = volume /\ Begins("ahead", dc, models, "accrue")
      BY <2>2 DEF StageAhead, MayBegin
    <3>2. volume' \in [Sites -> Nat]
      BY <2>0, <3>1 DEF StagerTypes
    <3> QED
      BY <2>0, <3>1, <3>2, BeginHolds DEF StagerInv
  <2> QED
    BY <1>4, <2>1, <2>2 DEF Operator
<1>5. CASE World
  <2>1. CASE kind = "stager" /\ UNCHANGED kind /\ Downloads(Fitting) /\ UNCHANGED stagingVars
    BY <2>1, FetchHolds DEF StagerInv
  <2>2. CASE kind = "stager" /\ UNCHANGED kind /\ CutOff
    BY <2>2, CutOffHolds DEF StagerInv
  <2>3. CASE kind = "stager" /\ HourPasses /\ NoEngine
    <3>1. UNCHANGED <<kind, stage, site, wanted, results, disk, fetches, rcFile, late,
                      volume, contents, staged, listed>>
      BY <2>3 DEF HourPasses, NoEngine, NoPod, roundVars
    <3> QED
      BY <1>1, <3>1
  <2>4. CASE kind = "gpu" /\ UNCHANGED <<kind, stagingVars>>
    BY <1>2, <2>4 DEF stagingVars, roundVars, volumeVars
  <2> QED
    BY <1>5, <2>1, <2>2, <2>3, <2>4 DEF World, NoEngine
<1>6. CASE Starts \/ Serves \/ Asks
  <2>1. kind # "stager" /\ UNCHANGED <<kind, stage, staged>>
    BY <1>6 DEF Starts, Serves, Asks, stagingVars, roundVars, volumeVars
  <2> QED
    BY <1>2, <2>1
<1>7. CASE UNCHANGED vars
  BY <1>1, <1>7 DEF vars, stagingVars, roundVars, volumeVars, engineVars
<1> QED
  BY <1>3, <1>4, <1>5, <1>6, <1>7 DEF Next, Harness

(* A model with a good staged event is on its volume in full, unless a      *)
(* download outlived its wait, and a volume on which nothing is unlisted    *)
(* has room for what its stager downloads: for any sites, models, sizes,    *)
(* rounds and cut-offs.                                                     *)
THEOREM StagedAsRecorded == Spec => []WeightsAsRecorded
<1>1. ASSUME StagerInv PROVE WeightsAsRecorded
  <2>1. ASSUME ~late, NEW dc \in Sites, NEW m \in staged[dc]
        PROVE  "full" \in {contents[dc][m], IF PodUp /\ dc = site THEN disk[m] ELSE "none"}
    BY <1>1, <2>1 DEF StagerInv, StagedInv, Held
  <2>2. ASSUME PodUp, Unlisted(site) = {} PROVE Total[InReach(site)] <= volume[site]
    <3>1. StagerTypes /\ RoomInv /\ site \in Sites
      BY <1>1, <2>2 DEF StagerInv, StagerTypes, PodUp
    <3>2. listed[site] \cup wanted \in SUBSET Models
      BY <3>1 DEF StagerTypes
    <3>3. InReach(site) \in SUBSET (listed[site] \cup wanted)
      BY <2>2 DEF InReach, Unlisted
    <3>4. /\ Total[InReach(site)] \in Nat /\ Total[listed[site] \cup wanted] \in Nat
          /\ Total[InReach(site)] <= Total[listed[site] \cup wanted]
      BY <3>2, <3>3, Roomy
    <3>5. volume[site] \in Nat /\ Total[listed[site] \cup wanted] <= volume[site]
      BY <2>2, <3>1 DEF StagerTypes, RoomInv
    <3> QED
      BY <3>4, <3>5
  <2> QED
    BY <2>1, <2>2 DEF WeightsAsRecorded
<1>2. Init => StagerInv /\ StorageInv
  BY StagerInit, StorageInit
<1>3. StagerInv /\ StorageInv /\ [Next]_vars => (StagerInv /\ StorageInv)'
  BY StagerNext, StorageNext
<1> QED
  BY <1>1, <1>2, <1>3, PTL DEF Spec

-----------------------------------------------------------------------------
(* The needle of the task suite.                                            *)

(* Products keep an order.                                                  *)
LEMMA Scales ==
  ASSUME NEW a \in Int, NEW b \in Int, NEW n \in Nat, a <= b
  PROVE  a * n <= b * n /\ a * n \in Int /\ b * n \in Int
<1>1. b - a \in Nat
  OBVIOUS
<1>2. (b - a) * n \in Nat
  BY <1>1
<1>3. (b - a) * n = b * n - a * n
  OBVIOUS
<1> QED
  BY <1>2, <1>3

(* What a quotient is.                                                      *)
LEMMA QuotientIs ==
  ASSUME NEW a \in Int, NEW d \in Nat \ {0}
  PROVE  LET q == a \div d IN q \in Int /\ d * q <= a /\ a < d * q + d
  OBVIOUS

LEMMA Less ==
  ASSUME NEW a \in Int, NEW b \in Int, NEW d \in Nat \ {0}, d * a < d * b
  PROVE  a < b
<1> SUFFICES ASSUME b <= a PROVE FALSE
  OBVIOUS
<1>1. b * d <= a * d
  BY Scales
<1> QED
  BY <1>1

(* Tokens of so many units, rounded down: two heaps have together what they *)
(* have apart, or one more, and any heap is in proportion to the probe.    *)
LEMMA Heaps ==
  ASSUME NEW p \in Nat, NEW d \in Nat \ {0}, NEW u \in Nat, NEW v \in Nat
  PROVE  LET g(n) == (p * n) \div d
         IN  /\ g(u) \in Nat /\ g(0) = 0
             /\ g(u) + g(v) <= g(u + v) /\ g(u + v) <= g(u) + g(v) + 1
             /\ u * g(v) < v * g(u) + v \/ v = 0
             /\ v * g(u) <= u * g(v) + u
<1> DEFINE g(n) == (p * n) \div d
           a == g(u)
           b == g(v)
           c == g(u + v)
<1>1. p * u \in Nat /\ p * v \in Nat /\ p * (u + v) = p * u + p * v /\ p * 0 = 0
  OBVIOUS
<1>2. /\ a \in Int /\ d * a <= p * u /\ p * u < d * a + d
      /\ b \in Int /\ d * b <= p * v /\ p * v < d * b + d
      /\ c \in Int /\ d * c <= p * u + p * v /\ p * u + p * v < d * c + d
  BY <1>1, QuotientIs
<1>3. g(0) = 0
  BY <1>1
<1> HIDE DEF a, b, c
<1>4. a \in Nat /\ b \in Nat
  <2>1. d * 0 < d * (a + 1) /\ d * 0 < d * (b + 1)
    BY <1>1, <1>2
  <2> QED
    BY <1>2, <2>1, Less
<1>5. a + b <= c
  <2>1. d * (a + b) < d * (c + 1)
    BY <1>2
  <2> QED
    BY <1>2, <2>1, Less
<1>6. c <= a + b + 1
  <2>1. d * c < d * (a + b + 2)
    BY <1>2
  <2> QED
    BY <1>2, <2>1, Less
<1>7. u * b < v * a + v \/ v = 0
  <2> SUFFICES ASSUME v # 0 PROVE u * b < v * a + v
    OBVIOUS
  <2>1. (d * b) * u <= (p * v) * u
    BY <1>1, <1>2, Scales
  <2>2. (p * u) * v + v <= (d * a + d) * v
    <3>1. (p * u + 1) * v <= (d * a + d) * v
      BY <1>1, <1>2, Scales
    <3> QED
      BY <1>1, <3>1
  <2>3. d * (u * b) < d * (v * a + v)
    <3>1. (p * v) * u = (p * u) * v /\ d * (u * b) = (d * b) * u /\ d * (v * a + v) = (d * a + d) * v
      BY <1>2
    <3> QED
      BY <1>1, <1>2, <2>1, <2>2, <3>1
  <2> QED
    BY <1>2, <2>3, Less
<1>8. v * a <= u * b + u
  <2>1. (d * a) * v <= (p * u) * v
    BY <1>1, <1>2, Scales
  <2>2. (p * v) * u <= (d * b + d) * u
    BY <1>1, <1>2, Scales
  <2>3. d * (v * a) <= d * (u * b + u)
    <3>1. (p * v) * u = (p * u) * v /\ d * (v * a) = (d * a) * v /\ d * (u * b + u) = (d * b + d) * u
      BY <1>2
    <3> QED
      BY <1>1, <1>2, <2>1, <2>2, <3>1
  <2>4. d * (v * a) < d * (u * b + u + 1)
    BY <1>2, <2>3
  <2> QED
    BY <1>2, <2>4, Less
<1> QED
  BY <1>3, <1>4, <1>5, <1>6, <1>7, <1>8 DEF a, b, c

(* A prompt of filler units at the measured rate R, where the first unit is *)
(* e tokens cheaper than its like: it fills the target D but for a unit and *)
(* a fiftieth, or the one correction makes it do so.                        *)
LEMMA CheapFirst ==
  ASSUME NEW p \in Nat, NEW d \in Nat \ {0}, NEW e \in Nat, NEW D \in Nat, NEW L \in Nat,
         e < (p * 1) \div d, D < 50 * L + 50, L >= 2 * e + 3
  PROVE  LET g(n) == (p * n) \div d
             R == g(64) - e
             u == (D * 64) \div R
             over == g(u) - e - D
             k == (over * 64) \div R + 1
         IN  /\ R \in Nat \ {0} /\ u \in Nat
             /\ u = 0 => D <= L + g(1) - e
             /\ u > 0 /\ over <= 0 => 0 - over <= L + g(1) - e
             /\ u > 0 /\ over > 0 =>
                  /\ k \in Nat /\ k < u /\ g(u - k) - e <= D
                  /\ D - (g(u - k) - e) <= L + g(1) - e
<1> DEFINE g(n) == (p * n) \div d
           U == g(1)
           G == g(64)
           R == G - e
           u == (D * 64) \div R
           a == g(u)
           over == a - e - D
           k == (over * 64) \div R + 1
<1>1. U \in Nat /\ G \in Nat /\ 64 * U <= G /\ G <= 64 * U + 64
  <2>1. 1 * g(64) <= 64 * g(1) + 64
    BY Heaps
  <2>2. 64 * g(1) < 1 * g(64) + 1
    BY Heaps
  <2>3. g(1) \in Nat /\ g(64) \in Nat
    BY Heaps
  <2> HIDE DEF g
  <2> QED
    BY <2>1, <2>2, <2>3
<1>2. e < U
  OBVIOUS
<1> HIDE DEF U, G
<1>3. R \in Nat \ {0} /\ R >= 63 * e + 64
  BY <1>1, <1>2
<1>4. u \in Int /\ R * u <= 64 * D /\ 64 * D < R * u + R
  <2>1. LET q == (D * 64) \div R IN q \in Int /\ R * q <= D * 64 /\ D * 64 < R * q + R
    <3> HIDE DEF R
    <3> QED
      BY <1>3, QuotientIs
  <2> QED
    BY <2>1
<1>5. u \in Nat
  <2>1. R * 0 < R * (u + 1)
    BY <1>3, <1>4
  <2> HIDE DEF R, u
  <2> QED
    BY <1>3, <1>4, <2>1, Less
<1> HIDE DEF u
<1>6. a \in Nat /\ 64 * a < u * G + u + 1 /\ u * G <= 64 * a + 64
  <2>1. 64 * g(u) < u * g(64) + u \/ u = 0
    BY <1>5, Heaps
  <2>2. u * g(64) <= 64 * g(u) + 64
    BY <1>5, Heaps
  <2>3. g(u) \in Nat /\ g(0) = 0
    BY <1>5, Heaps
  <2>4. u * g(64) \in Nat
    BY <1>1, <1>5 DEF G
  <2> HIDE DEF g
  <2> QED
    BY <1>5, <2>1, <2>2, <2>3, <2>4 DEF G
<1>7. u > 0 => 64 * a < u * G + u
  BY <1>5, Heaps DEF G
<1>8. R * u = u * G - u * e /\ u * e \in Nat /\ u * G \in Nat
  BY <1>1, <1>5
<1>9. u = 0 => D <= L + U - e
  BY <1>1, <1>3, <1>4
<1> HIDE DEF a
<1>10. ASSUME u > 0, over <= 0
       PROVE  0 - over <= L + U - e
  <2>1. 64 * (0 - over) < 64 * (U + e + 2)
    <3>1. 64 * (0 - over) = 64 * D - 64 * a + 64 * e
      BY <1>6
    <3>2. u * e >= e
      <4>1. 1 * e <= u * e
        BY <1>5, <1>10, Scales
      <4> QED
        BY <4>1
    <3> QED
      BY <1>1, <1>4, <1>5, <1>6, <1>8, <3>1, <3>2
  <2> QED
    BY <1>1, <1>6, <2>1
<1>11. ASSUME u > 0, over > 0
       PROVE  /\ k \in Nat /\ k < u /\ g(u - k) - e <= D
              /\ D - (g(u - k) - e) <= L + U - e
  <2>1. over \in Nat
    BY <1>6, <1>11
  <2>2. 64 * over + 64 * e < u * (e + 1) /\ u * (e + 1) = u * e + u /\ u * (e + 1) \in Nat
    <3>1. u * (e + 1) = u * e + u /\ u * (e + 1) \in Nat
      BY <1>5
    <3>2. 64 * over + 64 * e = 64 * a - 64 * D
      BY <1>6
    <3> QED
      BY <1>4, <1>5, <1>6, <1>7, <1>8, <1>11, <3>1, <3>2
  <2> HIDE DEF over, R
  <2>3. 63 * (u * (e + 1)) <= 64 * D
    <3> DEFINE w == u * (e + 1)
    <3>2. (63 * (e + 1)) * u = 63 * w /\ w \in Nat
      BY <1>5
    <3> DEFINE x == (63 * (e + 1)) * u
               y == R * u
    <3>4. x <= y /\ x \in Int /\ y \in Int
      BY <1>3, <1>5, Scales
    <3>5. x = 63 * w /\ w \in Nat /\ y <= 64 * D
      BY <1>4, <3>2
    <3> HIDE DEF w, x, y
    <3>3. 63 * w <= 64 * D
      BY <3>4, <3>5
    <3> QED
      BY <3>3 DEF w
  <2>4. 63 * over < D
    BY <2>1, <2>2, <2>3
  <2>5. k \in Int /\ R * (k - 1) <= 64 * over /\ 64 * over < R * k
    <3>1. LET q == (over * 64) \div R IN q \in Int /\ R * q <= over * 64 /\ over * 64 < R * q + R
      BY <1>3, <2>1, QuotientIs
    <3>2. R * (((over * 64) \div R + 1) - 1) = R * ((over * 64) \div R)
          /\ R * ((over * 64) \div R + 1) = R * ((over * 64) \div R) + R
      BY <1>3, <3>1
    <3> QED
      BY <2>1, <3>1, <3>2
  <2> HIDE DEF k
  <2>6. k \in Nat \ {0}
    <3>1. R * 0 < R * k
      BY <1>3, <2>1, <2>5
    <3> QED
      BY <1>3, <2>5, <3>1, Less
  <2> DEFINE w == (k - 1) * (e + 1)
  <2>7. w \in Nat /\ 63 * w <= 64 * over
    <3>1. k - 1 \in Nat
      BY <2>6
    <3>3. (63 * (e + 1)) * (k - 1) = 63 * w /\ w \in Nat
      BY <3>1
    <3> DEFINE x == (63 * (e + 1)) * (k - 1)
               y == R * (k - 1)
    <3>4. x <= y /\ x \in Int /\ y \in Int
      BY <1>3, <3>1, Scales
    <3>5. x = 63 * w /\ w \in Nat /\ y <= 64 * over
      BY <2>5, <3>3
    <3> HIDE DEF w, x, y
    <3> QED
      BY <2>1, <3>4, <3>5
  <2>8. k < u
    <3>1. (e + 1) * (63 * (k - 1)) < (e + 1) * u
      <4>1. (e + 1) * (63 * (k - 1)) = 63 * w /\ (e + 1) * u = u * (e + 1)
        BY <1>5, <2>6
      <4> QED
        BY <2>2, <2>7, <4>1, <2>1
    <3>2. 63 * (k - 1) < u
      BY <1>5, <2>6, <3>1, Less
    <3>3. (e + 1) * 64 < (e + 1) * u
      <4>1. (e + 1) * u = u * (e + 1)
        BY <1>5
      <4> QED
        BY <1>11, <2>1, <2>2, <4>1 DEF over
    <3>4. 64 < u
      BY <1>5, <3>3, Less
    <3> QED
      BY <1>5, <2>6, <3>2, <3>4
  <2> DEFINE b == g(k)
             c == g(u - k)
  <2>9. b \in Nat /\ 64 * b < k * G + k /\ k * G <= 64 * b + 64
    BY <2>6, Heaps DEF G
  <2>10. c \in Nat /\ b + c <= a /\ a <= b + c + 1
    <3>1. u - k \in Nat /\ k + (u - k) = u
      BY <1>5, <2>6, <2>8
    <3>2. c \in Nat
      BY <3>1, Heaps
    <3>3. b + c <= g(k + (u - k)) /\ g(k + (u - k)) <= b + c + 1
      BY <2>6, <3>1, Heaps
    <3>4. g(k + (u - k)) = a
      BY <3>1 DEF a
    <3> HIDE DEF b, c, g
    <3> QED
      BY <3>2, <3>3, <3>4
  <2> HIDE DEF b, c
  <2>11. k * G = R * k + k * e /\ k * e \in Nat /\ R * k \in Nat /\ k * G \in Nat
         /\ R * (k - 1) = R * k - R
    BY <1>1, <1>3, <2>6 DEF R
  <2>12. b >= over
    BY <2>1, <2>5, <2>9, <2>11
  <2>13. c - e <= D
    BY <1>6, <2>9, <2>10, <2>12 DEF over
  <2>14. w = k * e + k - e - 1
    BY <2>6
  <2> HIDE DEF w
  <2>15. 64 * b < 64 * over + 64 * U + 65 + w
    BY <1>1, <2>1, <2>5, <2>6, <2>7, <2>9, <2>11, <2>14 DEF R
  <2>16. D - (c - e) <= b + 1 - over
    BY <1>6, <2>9, <2>10 DEF over
  <2>17. b + 1 - over <= L + U - e
    BY <1>1, <2>1, <2>4, <2>7, <2>9, <2>15
  <2> QED
    BY <1>1, <1>6, <2>1, <2>6, <2>8, <2>9, <2>10, <2>13, <2>16, <2>17 DEF c
<1> QED
  BY <1>3, <1>5, <1>9, <1>10, <1>11 DEF U, G, u, a

(* And where the first unit is f tokens dearer than its like.               *)
LEMMA DearFirst ==
  ASSUME NEW p \in Nat, NEW d \in Nat \ {0}, NEW f \in Nat \ {0}, NEW D \in Nat, NEW L \in Nat,
         f < (p * 1) \div d, D < 50 * L + 50
  PROVE  LET g(n) == (p * n) \div d
             R == g(64) + f
             u == (D * 64) \div R
             over == g(u) + f - D
             k == (over * 64) \div R + 1
         IN  /\ R \in Nat \ {0} /\ u \in Nat
             /\ u = 0 => D <= L + g(1) + f
             /\ u > 0 /\ over <= 0 => 0 - over <= L + g(1) + f
             /\ u > 0 /\ over > 0 =>
                  /\ k = 1
                  /\ u > 1 => g(u - 1) + f <= D /\ D - (g(u - 1) + f) <= L + g(1) + f
                  /\ u = 1 => D <= L + g(1) + f
<1> DEFINE g(n) == (p * n) \div d
           U == g(1)
           G == g(64)
           R == G + f
           u == (D * 64) \div R
           a == g(u)
           over == a + f - D
           k == (over * 64) \div R + 1
<1>1. U \in Nat /\ G \in Nat /\ 64 * U <= G /\ G <= 64 * U + 64
  <2>1. 1 * g(64) <= 64 * g(1) + 64
    BY Heaps
  <2>2. 64 * g(1) < 1 * g(64) + 1
    BY Heaps
  <2>3. g(1) \in Nat /\ g(64) \in Nat
    BY Heaps
  <2> HIDE DEF g
  <2> QED
    BY <2>1, <2>2, <2>3
<1>2. f < U
  OBVIOUS
<1> HIDE DEF U, G
<1>3. R \in Nat \ {0} /\ R >= 65 * f + 64
  BY <1>1, <1>2
<1>4. u \in Int /\ R * u <= 64 * D /\ 64 * D < R * u + R
  <2>1. LET q == (D * 64) \div R IN q \in Int /\ R * q <= D * 64 /\ D * 64 < R * q + R
    <3> HIDE DEF R
    <3> QED
      BY <1>3, QuotientIs
  <2> QED
    BY <2>1
<1>5. u \in Nat
  <2>1. R * 0 < R * (u + 1)
    BY <1>3, <1>4
  <2> HIDE DEF R, u
  <2> QED
    BY <1>3, <1>4, <2>1, Less
<1> HIDE DEF u
<1>6. a \in Nat /\ (u > 0 => 64 * a < u * G + u) /\ u * G <= 64 * a + 64
  BY <1>5, Heaps DEF G
<1>7. R * u = u * G + u * f /\ u * f \in Nat /\ u * G \in Nat
  BY <1>1, <1>5
<1>8. u = 0 => D <= L + U + f
  BY <1>1, <1>3, <1>4
<1> HIDE DEF a
<1>9. ASSUME u > 0, over <= 0
      PROVE  0 - over <= L + U + f
  <2>1. 65 * (u * f) <= 64 * D
    <3>1. (65 * f) * u <= R * u
      BY <1>3, <1>5, Scales
    <3>2. (65 * f) * u = 65 * (u * f)
      BY <1>5
    <3> QED
      BY <1>4, <1>7, <3>1, <3>2
  <2>2. 64 * (0 - over) = 64 * D - 64 * a - 64 * f
    BY <1>6
  <2>3. 64 * (0 - over) < u * f + 64 * U + 128 - 63 * f
    BY <1>1, <1>4, <1>6, <1>7, <2>2
  <2>4. over \in Int
    BY <1>6
  <2> HIDE DEF over
  <2> QED
    BY <1>1, <1>7, <2>1, <2>3, <2>4
<1>10. ASSUME u > 0, over > 0
       PROVE  /\ k = 1
              /\ u > 1 => g(u - 1) + f <= D /\ D - (g(u - 1) + f) <= L + U + f
              /\ u = 1 => D <= L + U + f
  <2>1. u <= u * f
    <3>1. 1 * u <= f * u
      BY <1>5, Scales
    <3> QED
      BY <1>5, <3>1
  <2>2. a < D
    BY <1>4, <1>5, <1>6, <1>7, <1>10, <2>1
  <2>3. over \in Nat /\ over < f /\ over * 64 < R
    BY <1>3, <1>6, <1>10, <2>2
  <2>4. k = 1
    <3> HIDE DEF over, R
    <3>1. LET q == (over * 64) \div R IN q \in Int /\ R * q <= over * 64 /\ over * 64 < R * q + R
      BY <1>3, <2>3, QuotientIs
    <3> DEFINE q == (over * 64) \div R
    <3>2. q \in Int /\ R * q < R * 1 /\ R * 0 < R * (q + 1)
      BY <1>3, <2>3, <3>1
    <3> HIDE DEF q
    <3>3. q < 1 /\ 0 < q + 1
      BY <1>3, <3>2, Less
    <3> QED
      BY <3>2, <3>3 DEF q
  <2>5. ASSUME u > 1
        PROVE  g(u - 1) + f <= D /\ D - (g(u - 1) + f) <= L + U + f
    <3>1. u - 1 \in Nat /\ 1 + (u - 1) = u
      BY <1>5, <2>5
    <3> DEFINE c == g(u - 1)
    <3>2. c \in Nat
      BY <3>1, Heaps
    <3>3. U + c <= a /\ a <= U + c + 1
      <4>1. g(1) + g(u - 1) <= g(1 + (u - 1)) /\ g(1 + (u - 1)) <= g(1) + g(u - 1) + 1
        BY <3>1, Heaps
      <4> QED
        BY <3>1, <4>1 DEF U, a
    <3> HIDE DEF c
    <3>4. c + f <= D /\ D - (c + f) <= L + U + f
      BY <1>1, <1>2, <1>6, <1>10, <2>2, <3>2, <3>3
    <3> QED
      BY <3>4 DEF c
  <2>6. u = 1 => D <= L + U + f
    <3>1. u = 1 => a = U
      BY DEF a, U
    <3> QED
      BY <1>1, <1>6, <1>10, <3>1
  <2> QED
    BY <2>4, <2>5, <2>6
<1> QED
  BY <1>3, <1>5, <1>8, <1>9, <1>10 DEF U, G, u, a

Rate == Tokens(UnitProbe) - Tokens(0)

(* So many units of filler make the needle's prompt as long as it should be. *)
Fill(units) ==
  /\ units \in Nat
  /\ Tokens(units) <= Target
  /\ Target - Tokens(units) <= setting.len \div 50 + Tokens(1) - Tokens(0)

LEMMA MaxOfZero == ASSUME NEW x \in Int PROVE Max({0, x}) = IF x > 0 THEN x ELSE 0
<1> DEFINE m == IF x > 0 THEN x ELSE 0
<1>1. m \in {0, x} /\ \A y \in {0, x} : m >= y
  OBVIOUS
<1>2. \A z \in {0, x} : (\A y \in {0, x} : z >= y) => z = m
  OBVIOUS
<1> QED
  BY <1>1, <1>2 DEF Max

(* An answer is of at least one token and of no more than the case asks for. *)
LEMMA BudgetIsNat == ASSUME NEW len \in Nat PROVE AnswerBudget(len) \in Nat
<1>1. len \div 4 \in Nat
  OBVIOUS
<1>2. Min({NeedleAnswer, len \div 4}) \in Int
  <2> DEFINE x == len \div 4
  <2> HIDE DEF x
  <2>1. x \in Nat
    BY <1>1 DEF x
  <2>2. \E m \in {512, x} : \A y \in {512, x} : m <= y
    <3>1. CASE x <= 512
      BY <2>1, <3>1
    <3>2. CASE 512 <= x
      BY <2>1, <3>2
    <3> QED
      BY <2>1, <3>1, <3>2
  <2>3. Min({512, x}) \in {512, x}
    BY <2>2 DEF Min
  <2> QED
    BY <2>1, <2>3 DEF NeedleAnswer, x
<1> DEFINE y == Min({NeedleAnswer, len \div 4})
<1> HIDE DEF y
<1>3. Max({1, y}) \in Nat
  <2>0. y \in Int
    BY <1>2 DEF y
  <2>1. \E m \in {1, y} : \A z \in {1, y} : m >= z
    <3>1. CASE y <= 1
      BY <2>0, <3>1
    <3>2. CASE 1 <= y
      BY <2>0, <3>2
    <3> QED
      BY <2>0, <3>1, <3>2
  <2>2. Max({1, y}) \in {1, y} /\ Max({1, y}) >= 1
    BY <2>1 DEF Max
  <2> QED
    BY <2>0, <2>2
<1> QED
  BY <1>3 DEF AnswerBudget, y

(* The measured filler fits as it is, or corrected once.                     *)
LEMMA OneCorrection ==
  ASSUME setting \in Settings, Tokens(0) <= Target
  PROVE  LET u == Units0(Rate)
             v == Shrunk(u, Tokens(u), Rate)
         IN  IF Tokens(u) <= Target \/ u = 0 THEN Fill(u) ELSE Fill(v)
<1> DEFINE t == setting.tokenizer
           len == setting.len
           g(n) == (t.num * n) \div t.den
           f == t.first
           D == Target - t.base
           L == len \div 50
           u == Units0(Rate)
           v == Shrunk(u, Tokens(u), Rate)
<1>1. t \in Tokenizers /\ len \in Nat /\ (t.base <= PromptBudget(len) => len >= 50 * (3 - 2 * f))
  BY NeedleAssumption DEF Settings
<1>2. /\ t.base \in Nat /\ t.num \in Nat /\ t.den \in Nat \ {0} /\ f \in Int
      /\ f < t.num \div t.den /\ 0 - f < t.num \div t.den /\ len \in Nat
  BY NeedleAssumption DEF Settings
<1>3. Tokens(0) = t.base
  <2>1. g(0) = 0
    BY <1>2, Heaps
  <2> QED
    BY <1>2, <2>1 DEF Tokens
<1>4. D \in Nat /\ D <= len /\ L \in Nat /\ D < 50 * L + 50 /\ len < 50 * L + 50
      /\ Target \in Int /\ Target = D + t.base
  <2>1. AnswerBudget(len) \in Nat
    BY <1>2, BudgetIsNat
  <2>2. L \in Nat /\ len < 50 * L + 50
    BY <1>2
  <2>3. Target = len - AnswerBudget(len) - 16
    BY DEF Target, PromptBudget, NeedleMargin
  <2> QED
    BY <1>2, <1>3, <2>1, <2>2, <2>3
<1>5. \A n \in Nat : g(n) \in Nat
  BY <1>2, Heaps
<1>6. \A n \in Nat : n > 0 => Tokens(n) = t.base + g(n) + f
  BY DEF Tokens
<1>7. t.num * 1 = t.num
  BY <1>2
<1>8. Rate = g(64) + f
  BY <1>2, <1>3, <1>5, <1>6 DEF Rate, UnitProbe
<1>9. u = (D * 64) \div Rate
  BY <1>3 DEF Units0, UnitProbe
<1>10. Tokens(1) - Tokens(0) = g(1) + f
  BY <1>2, <1>3, <1>5, <1>6
<1>13. v = Max({0, u - ((Tokens(u) - Target) * 64) \div Rate - 1})
  BY DEF Shrunk, UnitProbe
<1>14. g(1) \in Nat
  BY <1>5
<1> HIDE DEF g, u, v, D, L, t, f, len
<1>11. CASE f <= 0
  <2> DEFINE e == 0 - f
             over == g(u) - e - D
             k == (over * 64) \div Rate + 1
  <2>1. e \in Nat /\ e < (t.num * 1) \div t.den /\ L >= 2 * e + 3
    <3>1. len >= 50 * (3 - 2 * f)
      BY <1>1, <1>3 DEF Target, len, t
    <3>2. e < (t.num * 1) \div t.den
      BY <1>2, <1>7
    <3> QED
      BY <1>2, <1>4, <1>11, <3>1, <3>2
  <2>2. /\ Rate \in Nat \ {0} /\ u \in Nat
        /\ u = 0 => D <= L + g(1) - e
        /\ u > 0 /\ over <= 0 => 0 - over <= L + g(1) - e
        /\ u > 0 /\ over > 0 =>
             /\ k \in Nat /\ k < u /\ g(u - k) - e <= D
             /\ D - (g(u - k) - e) <= L + g(1) - e
    <3> DEFINE R == g(64) - e
               w == (D * 64) \div R
               o == g(w) - e - D
               j == (o * 64) \div R + 1
    <3>1. Rate = R
      BY <1>2, <1>5, <1>8
    <3>2. u = w
      BY <1>9, <3>1
    <3>3. /\ R \in Nat \ {0} /\ w \in Nat
          /\ w = 0 => D <= L + g(1) - e
          /\ w > 0 /\ o <= 0 => 0 - o <= L + g(1) - e
          /\ w > 0 /\ o > 0 =>
               /\ j \in Nat /\ j < w /\ g(w - j) - e <= D
               /\ D - (g(w - j) - e) <= L + g(1) - e
      <4> HIDE DEF e
      <4> USE DEF g
      <4> QED
        BY <1>2, <1>4, <2>1, CheapFirst
    <3> HIDE DEF R, w, e
    <3> QED
      BY <3>1, <3>2, <3>3
  <2>3. u > 0 => Tokens(u) - Target = over /\ Tokens(u) \in Int
    BY <1>2, <1>4, <1>5, <1>6, <2>2
  <2>4. CASE Tokens(u) <= Target \/ u = 0
    <3>1. u > 0 => over <= 0 /\ Target - Tokens(u) = 0 - over
      BY <1>2, <1>4, <1>5, <2>2, <2>3, <2>4
    <3>2. u = 0 => Tokens(u) = t.base
      BY <1>3
    <3>3. Fill(u)
      <4> HIDE DEF over
      <4> QED
        BY <1>2, <1>3, <1>4, <1>10, <1>14, <2>1, <2>2, <2>3, <2>4, <3>1, <3>2 DEF Fill, L, len
    <3> QED
      BY <2>4, <3>3 DEF u, v
  <2>5. CASE ~(Tokens(u) <= Target \/ u = 0)
    <3>1. u > 0 /\ over > 0 /\ over \in Int
      BY <1>2, <1>4, <1>5, <2>2, <2>3, <2>5
    <3>2. k \in Nat /\ k < u
      BY <2>2, <3>1
    <3>3. v = Max({0, u - k})
      <4>1. v = Max({0, u - (over * 64) \div Rate - 1})
        BY <1>13, <2>3, <3>1
      <4>2. u - (over * 64) \div Rate - 1 = u - k
        BY <2>2, <3>1
      <4> QED
        BY <4>1, <4>2
    <3>4. v = u - k /\ v \in Nat /\ v > 0
      BY <2>2, <3>2, <3>3, MaxOfZero
    <3>5. Tokens(v) = t.base + g(u - k) + f /\ g(u - k) \in Nat
      <4>1. g(u - k) \in Nat
        BY <1>5, <2>2, <3>2
      <4> QED
        BY <1>6, <3>4, <4>1
    <3>6. g(u - k) - e <= D /\ D - (g(u - k) - e) <= L + g(1) - e
      BY <2>2, <3>1
    <3>8. Fill(v)
      <4> HIDE DEF k
      <4> QED
        BY <1>2, <1>4, <1>10, <1>14, <3>4, <3>5, <3>6 DEF Fill, L, len
    <3> QED
      BY <2>5, <3>8 DEF u, v
  <2> QED
    BY <2>4, <2>5
<1>12. CASE f > 0
  <2> DEFINE over == g(u) + f - D
             k == (over * 64) \div Rate + 1
  <2>1. f \in Nat \ {0} /\ f < (t.num * 1) \div t.den
    BY <1>2, <1>7, <1>12
  <2>2. /\ Rate \in Nat \ {0} /\ u \in Nat
        /\ u = 0 => D <= L + g(1) + f
        /\ u > 0 /\ over <= 0 => 0 - over <= L + g(1) + f
        /\ u > 0 /\ over > 0 =>
             /\ k = 1
             /\ u > 1 => g(u - 1) + f <= D /\ D - (g(u - 1) + f) <= L + g(1) + f
             /\ u = 1 => D <= L + g(1) + f
    <3> DEFINE R == g(64) + f
               w == (D * 64) \div R
               o == g(w) + f - D
               j == (o * 64) \div R + 1
    <3>1. Rate = R
      BY <1>8
    <3>2. u = w
      BY <1>9, <3>1
    <3>3. /\ R \in Nat \ {0} /\ w \in Nat
          /\ w = 0 => D <= L + g(1) + f
          /\ w > 0 /\ o <= 0 => 0 - o <= L + g(1) + f
          /\ w > 0 /\ o > 0 =>
               /\ j = 1
               /\ w > 1 => g(w - 1) + f <= D /\ D - (g(w - 1) + f) <= L + g(1) + f
               /\ w = 1 => D <= L + g(1) + f
      <4> USE DEF g
      <4> QED
        BY <1>2, <1>4, <2>1, DearFirst
    <3> HIDE DEF R, w
    <3> QED
      BY <3>1, <3>2, <3>3
  <2>3. u > 0 => Tokens(u) - Target = over /\ Tokens(u) \in Int
    BY <1>2, <1>4, <1>5, <1>6, <2>2
  <2>4. CASE Tokens(u) <= Target \/ u = 0
    <3>1. u > 0 => over <= 0 /\ Target - Tokens(u) = 0 - over
      BY <1>2, <1>4, <1>5, <2>2, <2>3, <2>4
    <3>2. u = 0 => Tokens(u) = t.base
      BY <1>3
    <3>3. Fill(u)
      <4> HIDE DEF over
      <4> QED
        BY <1>2, <1>3, <1>4, <1>10, <1>14, <2>1, <2>2, <2>3, <2>4, <3>1, <3>2 DEF Fill, L, len
    <3> QED
      BY <2>4, <3>3 DEF u, v
  <2>5. CASE ~(Tokens(u) <= Target \/ u = 0)
    <3>1. u > 0 /\ over > 0 /\ over \in Int
      BY <1>2, <1>4, <1>5, <2>2, <2>3, <2>5
    <3>2. k = 1
      BY <2>2, <3>1
    <3>3. v = Max({0, u - 1})
      <4>1. v = Max({0, u - (over * 64) \div Rate - 1})
        BY <1>13, <2>3, <3>1
      <4>2. (over * 64) \div Rate \in Int
        BY <2>2, <3>1
      <4>3. u - (over * 64) \div Rate - 1 = u - 1
        <5> DEFINE q == (over * 64) \div Rate
        <5> HIDE DEF q
        <5> QED
          BY <2>2, <3>2, <4>2 DEF q
      <4> QED
        BY <4>1, <4>3
    <3>4. v = u - 1 /\ v \in Nat
      BY <2>2, <3>1, <3>3, MaxOfZero
    <3>6. ASSUME u > 1 PROVE Fill(v)
      <4>1. g(u - 1) \in Nat /\ Tokens(v) = t.base + g(u - 1) + f
        BY <1>5, <1>6, <2>2, <3>4, <3>6
      <4>2. g(u - 1) + f <= D /\ D - (g(u - 1) + f) <= L + g(1) + f
        BY <2>2, <3>1, <3>6
      <4> QED
        BY <1>2, <1>4, <1>10, <1>14, <3>4, <4>1, <4>2 DEF Fill, L, len
    <3>7. ASSUME u = 1 PROVE Fill(v)
      <4>1. v = 0 /\ D <= L + g(1) + f
        BY <2>2, <3>1, <3>4, <3>7
      <4> QED
        BY <1>2, <1>3, <1>4, <1>10, <1>14, <4>1 DEF Fill, L, len
    <3>8. Fill(v)
      <4> QED
        BY <2>2, <3>1, <3>6, <3>7
    <3> QED
      BY <2>5, <3>8 DEF u, v
  <2> QED
    BY <2>4, <2>5
<1> QED
  BY <1>2, <1>11, <1>12

(* What is known while the needle is sized: the case in hand is the needle, *)
(* which has room without any filler, and the filler counted is the one the *)
(* measured rate gives, or that one corrected once.                         *)
AskShape ==
  ask = [round |-> ask.round, todo |-> ask.todo, step |-> ask.step, rate |-> ask.rate,
         units |-> ask.units, shrinks |-> ask.shrinks]

Sized ==
  /\ ask.rate = Rate
  /\ LET u == Units0(Rate)
     IN  \/ ask.units = u /\ ask.shrinks = 0
         \/ /\ ~(Tokens(u) <= Target \/ u = 0)
            /\ ask.units = Shrunk(u, Tokens(u), Rate) /\ ask.shrinks = 1

Sizing ==
  /\ ask.step \in {"case", "count", "probe"} => ask.shrinks = 0
  /\ ask.step \in {"count", "probe", "fill"} => Case = "needle"
  /\ ask.step \in {"probe", "fill"} => Tokens(0) <= Target
  /\ ask.step = "fill" => Sized

NeedleInv == setting \in Settings /\ AskShape /\ Sizing /\ NeedleFillsContext

(* Nothing the needle is judged by is of another step than its own.          *)
LEMMA SameSetting ==
  ASSUME setting' = setting
  PROVE  /\ Target' = Target /\ Rate' = Rate /\ \A n : Tokens(n)' = Tokens(n)
         /\ (AnswerBudget(setting.len))' = AnswerBudget(setting.len)
  BY DEF Target, PromptBudget, AnswerBudget, Rate, Tokens, UnitProbe

LEMMA SameSizes ==
  ASSUME setting' = setting
  PROVE  /\ Units0(Rate)' = Units0(Rate)
         /\ Tokens(Units0(Rate))' = Tokens(Units0(Rate))
         /\ Shrunk(Units0(Rate), Tokens(Units0(Rate)), Rate)'
              = Shrunk(Units0(Rate), Tokens(Units0(Rate)), Rate)
<1>1. Units0(Rate)' = Units0(Rate)
  BY SameSetting DEF Units0
<1>2. Tokens(Units0(Rate))' = Tokens(Units0(Rate))
  BY <1>1 DEF Tokens
<1> QED
  BY <1>1, <1>2, SameSetting DEF Shrunk

LEMMA SizesAreNumbers == ASSUME setting \in Settings PROVE Tokens(0) \in Int /\ Target \in Int
<1>1. setting.len \in Nat /\ AnswerBudget(setting.len) \in Nat
  BY NeedleAssumption, BudgetIsNat DEF Settings
<1>2. /\ setting.tokenizer.base \in Nat /\ setting.tokenizer.num \in Nat
      /\ setting.tokenizer.den \in Nat \ {0}
  BY NeedleAssumption DEF Settings
<1>3. (setting.tokenizer.num * 0) \div setting.tokenizer.den \in Int
  BY <1>2
<1> QED
  BY <1>1, <1>2, <1>3 DEF Tokens, Target, PromptBudget, NeedleMargin

LEMMA FilledFits ==
  ASSUME setting \in Settings, NEW n \in Nat, Fill(n)
  PROVE  Tokens(n) + AnswerBudget(setting.len) + NeedleMargin <= setting.len
<1>1. setting.len \in Nat /\ AnswerBudget(setting.len) \in Nat
  BY NeedleAssumption, BudgetIsNat DEF Settings
<1>2. Target = setting.len - AnswerBudget(setting.len) - NeedleMargin /\ NeedleMargin \in Nat
  BY DEF Target, PromptBudget, NeedleMargin
<1>3. Tokens(n) \in Int
  <2>1. /\ setting.tokenizer.base \in Nat /\ setting.tokenizer.num \in Nat
        /\ setting.tokenizer.den \in Nat \ {0} /\ setting.tokenizer.first \in Int
    BY NeedleAssumption DEF Settings
  <2>2. (setting.tokenizer.num * n) \div setting.tokenizer.den \in Nat
    BY <2>1, Heaps
  <2> QED
    BY <2>1, <2>2 DEF Tokens
<1> QED
  BY <1>1, <1>2, <1>3 DEF Fill

(* The second count of a sized filler is the last one.                      *)
LEMMA SizedFills ==
  ASSUME setting \in Settings, Tokens(0) <= Target, Sized
  PROVE  /\ ask.shrinks = 0 \/ Fill(ask.units)
         /\ Tokens(ask.units) <= Target \/ ask.units = 0 \/ ask.shrinks = Shrinks => Fill(ask.units)
         /\ ask.shrinks \in {0, 1}
  BY OneCorrection DEF Sized, Shrinks

LEMMA NeedleInit == ASSUME Init PROVE NeedleInv
<1>1. /\ setting \in Settings
      /\ ask = [round |-> 1, todo |-> setting.suite, step |-> "case", rate |-> 0, units |-> 0,
                shrinks |-> 0]
  BY DEF Init, SuiteInit, NoAsk
<1> QED
  BY <1>1 DEF NeedleInv, AskShape, Sizing, NeedleFillsContext

LEMMA NeedleSame == ASSUME NeedleInv, UNCHANGED suiteVars PROVE NeedleInv'
<1>1. setting' = setting /\ ask' = ask
  BY DEF suiteVars
<1>2. Case' = Case /\ (Tokens(0) <= Target)' = (Tokens(0) <= Target)
  BY <1>1, SameSetting DEF Case
<1>3. Sized' = Sized
  BY <1>1, SameSetting, SameSizes DEF Sized
<1>4. NeedleFillsContext' = NeedleFillsContext
  <2>1. Tokens(ask.units)' = Tokens(ask.units)
    BY <1>1 DEF Tokens
  <2> QED
    BY <1>1, <1>2, <2>1, SameSetting DEF NeedleFillsContext
<1> QED
  BY <1>1, <1>2, <1>3, <1>4 DEF NeedleInv, AskShape, Sizing

(* A case that ends leaves nothing of its sizing.                           *)
LEMMA ScoredAfresh ==
  ASSUME NeedleInv, NEW status, Scores(status) PROVE NeedleInv'
<1>1. ask' = [round |-> ask.round, todo |-> Tail(ask.todo), step |-> "case", rate |-> 0, units |-> 0,
              shrinks |-> 0]
      /\ setting' = setting
  BY DEF Scores, NoAsk
<1> QED
  BY <1>1 DEF NeedleInv, AskShape, Sizing, NeedleFillsContext

LEMMA SuiteKeepsSize == ASSUME NeedleInv, Suite PROVE NeedleInv'
<1> USE DEF NeedleInv
<1>1. CASE NothingSent
  <2>1. setting' = setting /\ AskShape' /\ ask'.step = "done"
    BY <1>1 DEF NothingSent, AskShape
  <2> QED
    BY <2>1 DEF Sizing, NeedleFillsContext
<1>2. CASE BeginCase
  <2>1. CASE Scores("skipped")
    BY <1>2, <2>1, ScoredAfresh DEF BeginCase
  <2>2. CASE ~CannotServe /\ AskGoes(IF Case = "needle" THEN "count" ELSE "chat")
    <3>1. setting' = setting /\ AskShape' /\ ask'.todo = ask.todo /\ ask'.shrinks = 0
          /\ ask'.step = (IF Case = "needle" THEN "count" ELSE "chat")
      BY <1>2, <2>2 DEF BeginCase, AskGoes, AskShape, Sizing
    <3>2. Case' = Case
      BY <3>1 DEF Case
    <3> QED
      BY <3>1, <3>2 DEF Sizing, NeedleFillsContext
  <2> QED
    BY <1>2, <2>1, <2>2 DEF BeginCase
<1>3. CASE RequestFails
  BY <1>3, ScoredAfresh DEF RequestFails
<1>4. CASE CountEmpty
  <2>1. CASE Scores("fail")
    BY <1>4, <2>1, ScoredAfresh DEF CountEmpty
  <2>2. CASE ~(Tokens(0) > Target) /\ AskGoes("probe")
    <3>1. setting' = setting /\ AskShape' /\ ask'.todo = ask.todo /\ ask'.shrinks = 0
          /\ ask'.step = "probe"
      BY <1>4, <2>2 DEF CountEmpty, AskGoes, AskShape, Sizing
    <3>2. Case' = Case /\ Case = "needle"
      BY <1>4, <3>1 DEF Case, Sizing, CountEmpty
    <3>3. (Tokens(0) <= Target)'
      BY <2>2, <3>1, SameSetting, SizesAreNumbers
    <3> QED
      BY <3>1, <3>2, <3>3 DEF Sizing, NeedleFillsContext
  <2> QED
    BY <1>4, <2>1, <2>2 DEF CountEmpty
<1>5. CASE CountProbe
  <2>1. setting' = setting /\ AskShape' /\ ask'.todo = ask.todo /\ ask'.shrinks = 0
        /\ ask'.step = "fill" /\ ask'.rate = Rate /\ ask'.units = Units0(Rate)
    BY <1>5 DEF CountProbe, AskShape, Sizing, Rate
  <2>2. Case' = Case /\ Case = "needle" /\ Tokens(0) <= Target
    BY <1>5, <2>1 DEF Case, Sizing, CountProbe
  <2>3. (Tokens(0) <= Target)' /\ Units0(Rate)' = Units0(Rate) /\ Rate' = Rate
    BY <2>1, <2>2, SameSetting DEF Units0
  <2> QED
    BY <2>1, <2>2, <2>3 DEF Sizing, Sized, NeedleFillsContext
<1>6. CASE CountFilled
  <2>1. ask.step = "fill" /\ Sized /\ Case = "needle" /\ Tokens(0) <= Target
    BY <1>6 DEF CountFilled, Sizing
  <2>2. CASE Tokens(ask.units) <= Target \/ ask.units = 0 \/ ask.shrinks = Shrinks
    <3>1. setting' = setting /\ AskShape' /\ ask'.units = ask.units /\ ask'.step = "chat"
      BY <1>6, <2>2 DEF CountFilled, AskShape
    <3>2. Fill(ask.units)
      BY <2>1, <2>2, SizedFills
    <3>3. /\ Tokens(ask.units) + AnswerBudget(setting.len) + NeedleMargin <= setting.len
          /\ Target - Tokens(ask.units) <= setting.len \div 50 + Tokens(1) - Tokens(0)
      BY <3>2, FilledFits DEF Fill
    <3>4. Tokens(ask.units)' = Tokens(ask.units)
      BY <3>1 DEF Tokens
    <3>5. NeedleFillsContext'
      BY <3>1, <3>3, <3>4, SameSetting DEF NeedleFillsContext
    <3> QED
      BY <3>1, <3>5 DEF Sizing
  <2>3. CASE ~(Tokens(ask.units) <= Target \/ ask.units = 0 \/ ask.shrinks = Shrinks)
    <3>1. setting' = setting /\ AskShape' /\ ask'.todo = ask.todo /\ ask'.step = "fill"
          /\ ask'.rate = ask.rate /\ ask'.shrinks = ask.shrinks + 1
          /\ ask'.units = Shrunk(ask.units, Tokens(ask.units), ask.rate)
      BY <1>6, <2>3 DEF CountFilled, AskShape
    <3>2. ask.shrinks = 0
      BY <2>1, <2>3, SizedFills DEF Fill
    <3>3. ask.units = Units0(Rate) /\ ask.rate = Rate
      BY <2>1, <3>2 DEF Sized
    <3>4. (Tokens(0) <= Target)' /\ Units0(Rate)' = Units0(Rate) /\ Rate' = Rate /\ Case' = Case
      BY <2>1, <3>1, SameSetting DEF Units0, Case
    <3>5. Sized'
      <4>1. ~(Tokens(Units0(Rate)) <= Target \/ Units0(Rate) = 0)
        BY <2>3, <3>3
      <4>2. ask'.units = Shrunk(Units0(Rate), Tokens(Units0(Rate)), Rate)
        BY <3>1, <3>3
      <4>3. ask'.rate = Rate' /\ ask'.shrinks = 1
        BY <3>1, <3>2, <3>3, <3>4
      <4> QED
        BY <3>1, <4>1, <4>2, <4>3, SameSetting, SameSizes DEF Sized
    <3> QED
      BY <2>1, <3>1, <3>4, <3>5 DEF Sizing, NeedleFillsContext
  <2> QED
    BY <2>2, <2>3
<1>7. CASE ChatAnswered
  BY <1>7, ScoredAfresh DEF ChatAnswered
<1>8. CASE PlainAnswered
  BY <1>8, ScoredAfresh DEF PlainAnswered
<1>9. CASE PlainFails
  BY <1>9, ScoredAfresh DEF PlainFails
<1>10. CASE RoundEnds
  <2>1. setting' = setting /\ AskShape' /\ ask'.step \in {"case", "done"} /\ ask'.shrinks = 0
    BY <1>10 DEF RoundEnds, NoAsk, AskShape, Sizing
  <2> QED
    BY <2>1 DEF Sizing, NeedleFillsContext
<1> QED
  BY <1>1, <1>2, <1>3, <1>4, <1>5, <1>6, <1>7, <1>8, <1>9, <1>10 DEF Suite

LEMMA NeedleStep == ASSUME NeedleInv, [Next]_vars PROVE NeedleInv'
<1>1. CASE UNCHANGED suiteVars
  BY <1>1, NeedleSame
<1>2. CASE Asks
  BY <1>2, SuiteKeepsSize DEF Asks
<1> QED
  BY <1>1, <1>2 DEF Next, Harness, Operator, World, Starts, Serves, Stages, NoEngine, vars

(* The needle's prompt always fills the context the server serves and leaves *)
(* room for the answer: at the rate the probe measured one correction is     *)
(* enough, whatever the tokenizer.                                           *)
THEOREM NeedleAlwaysFills == Spec => []NeedleFillsContext
<1>1. NeedleInv => NeedleFillsContext
  BY DEF NeedleInv
<1> QED
  BY <1>1, NeedleInit, NeedleStep, PTL DEF Spec
=============================================================================
