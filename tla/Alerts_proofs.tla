--------------------------- MODULE Alerts_proofs ----------------------------
(***************************************************************************)
(* What the way of an alert keeps, for any number of alerts, power losses  *)
(* and deaths of the forwarder: an alert is repeated by a death only, and  *)
(* the marker leaves none behind but for a failed send, a torn line or     *)
(* midnight.                                                               *)
(***************************************************************************)
EXTENDS Alerts, SequenceTheorems, WellFoundedInduction, TLAPS

-----------------------------------------------------------------------------
(* The newest and the oldest of a batch.                                   *)

LEMMA LeastOf ==
  ASSUME NEW S, S \subseteq Nat, S # {}
  PROVE  \E x \in S : \A y \in S : x <= y
<1> DEFINE R == {ss \in Nat \X Nat : ss[1] < ss[2]}
<1>1. IsWellFoundedOn(R, Nat)
  BY NatLessThanWellFounded DEF OpToRel
<1>2. \A x, y \in Nat : <<y, x>> \in R <=> y < x
  OBVIOUS
<1> HIDE DEF R
<1>3. PICK x \in S : \A y \in S : ~(<<y, x>> \in R)
  BY <1>1, WFMin
<1>4. ASSUME NEW y \in S PROVE x <= y
  <2>1. x \in Nat /\ y \in Nat /\ ~(y < x)
    BY <1>2, <1>3
  <2> QED BY <2>1
<1> QED BY <1>4

LEMMA BatchEnds ==
  ASSUME NEW S, S \subseteq Ids, S # {}
  PROVE  /\ Max(S) \in S /\ \A y \in S : y <= Max(S)
         /\ Min(S) \in S
<1>1. MaxAlerts \in Nat /\ \A y \in S : y \in Nat /\ y <= MaxAlerts
  BY AlertsAssumption DEF Ids
<1> DEFINE Room == {MaxAlerts - y : y \in S}
<1>2. Room \subseteq Nat /\ Room # {}
  BY <1>1
<1>3. PICK r \in Room : \A z \in Room : r <= z
  BY <1>2, LeastOf
<1>4. PICK x \in S : r = MaxAlerts - x
  OBVIOUS
<1>5. \A y \in S : x >= y
  BY <1>1, <1>3, <1>4
<1>6. \E x1 \in S : \A y \in S : x1 <= y
  BY <1>1, LeastOf
<1> QED BY <1>1, <1>5, <1>6 DEF Max, Min

-----------------------------------------------------------------------------
(* Days.                                                                   *)

LEMMA DayBounds ==
  ASSUME NEW a \in Nat \ {0}
  PROVE  Day(a) \in Nat /\ Day(a) * DaySpan < a /\ a <= Day(a) * DaySpan + DaySpan
<1>1. DaySpan \in Nat /\ DaySpan > 0 /\ a - 1 \in Nat
  BY AlertsAssumption
<1> DEFINE q == (a - 1) \div DaySpan
<1>2. q \in Int /\ q * DaySpan <= a - 1 /\ a - 1 < (q + 1) * DaySpan
  BY <1>1, Z3
<1> HIDE DEF q
<1>3. q >= 0 /\ (q + 1) * DaySpan = q * DaySpan + DaySpan
  BY <1>1, <1>2, Z3
<1> QED BY <1>1, <1>2, <1>3 DEF q, Day

LEMMA SpansApart ==
  ASSUME NEW d \in Nat, NEW e \in Nat, d < e
  PROVE  d * DaySpan + DaySpan <= e * DaySpan
<1>1. DaySpan \in Nat
  BY AlertsAssumption
<1> QED BY <1>1, Z3

LEMMA DayUnique ==
  ASSUME NEW a \in Nat \ {0}, NEW d \in Nat, d * DaySpan < a, a <= d * DaySpan + DaySpan
  PROVE  Day(a) = d
<1>1. DaySpan \in Nat /\ d * DaySpan \in Nat /\ Day(a) * DaySpan \in Int
  BY AlertsAssumption, DayBounds
<1>2. Day(a) \in Nat /\ Day(a) * DaySpan < a /\ a <= Day(a) * DaySpan + DaySpan
  BY DayBounds
<1>3. ASSUME d < Day(a) PROVE FALSE
  <2>1. d * DaySpan + DaySpan <= Day(a) * DaySpan
    BY <1>2, <1>3, SpansApart
  <2> QED BY <2>1, <1>1, <1>2
<1>4. ASSUME Day(a) < d PROVE FALSE
  <2>1. Day(a) * DaySpan + DaySpan <= d * DaySpan
    BY <1>2, <1>4, SpansApart
  <2> QED BY <2>1, <1>1, <1>2
<1> QED BY <1>2, <1>3, <1>4

LEMMA DayMonotone ==
  ASSUME NEW a \in Nat \ {0}, NEW b \in Nat \ {0}, a <= b
  PROVE  Day(a) <= Day(b)
<1>1. DaySpan \in Nat /\ Day(a) * DaySpan \in Int /\ Day(b) * DaySpan \in Int
  BY AlertsAssumption, DayBounds
<1>2. /\ Day(a) \in Nat /\ Day(a) * DaySpan < a
      /\ Day(b) \in Nat /\ b <= Day(b) * DaySpan + DaySpan
  BY DayBounds
<1>3. ASSUME Day(b) < Day(a) PROVE FALSE
  <2>1. Day(b) * DaySpan + DaySpan <= Day(a) * DaySpan
    BY <1>2, <1>3, SpansApart
  <2> QED BY <2>1, <1>1, <1>2
<1> QED BY <1>2, <1>3

LEMMA DaysAreNat == /\ Days \subseteq Nat /\ \A a \in Ids : Day(a) \in Days
<1>1. MaxAlerts \in Nat \ {0} /\ \A a \in Ids : a \in Nat \ {0} /\ a <= MaxAlerts
  BY AlertsAssumption DEF Ids
<1>2. Day(MaxAlerts) \in Nat /\ \A a \in Ids : Day(a) \in Nat /\ Day(a) <= Day(MaxAlerts)
  BY <1>1, DayBounds, DayMonotone
<1> QED BY <1>2 DEF Days

-----------------------------------------------------------------------------
(* The inductive invariant.                                                *)

\* The n-th line of a day while no power was lost.
LineOf(d, n) == [ids |-> {d * DaySpan + n}, open |-> FALSE]
Line == [ids : SUBSET Nat, open : BOOLEAN]

\* A file holds the first alerts of its day, in their order.
Whole(files) ==
  \A d \in Days : /\ files[d] \in Seq(Line) /\ Len(files[d]) <= DaySpan
                  /\ \A n \in 1 .. Len(files[d]) : files[d][n] = LineOf(d, n)

FilesInv ==
  /\ raised \in Nat /\ losses \in Nat
  /\ DOMAIN vps = Days /\ DOMAIN bucket = Days /\ DOMAIN local = Days
  /\ losses = 0 =>
       /\ Whole(vps) /\ Whole(bucket) /\ Whole(local)
       /\ \A d \in Days : /\ raised <= d * DaySpan => Len(vps[d]) = 0
                          /\ d * DaySpan < raised /\ raised <= d * DaySpan + DaySpan
                               => d * DaySpan + Len(vps[d]) = raised

\* The forwarder at marker m is done with alert a.
Done(a, m) == sent[a] > 0 \/ a \in failed \/ Day(a) < Day(m) \/ losses > 0

\* An alert beyond the marker of an idle forwarder, or left to send, was sent by runs
\* that died only.
SendInv ==
  /\ marker \in Nat /\ deaths \in Nat /\ sent \in [Ids -> Nat]
  /\ run \in [at : {"idle", "send", "mark"}, todo : SUBSET Ids, newest : Nat]
  /\ \A a \in Ids : sent[a] <= 1 + deaths /\ (a <= marker => Done(a, marker))
  /\ run.at = "idle" => \A a \in Ids : a > marker => sent[a] <= deaths
  /\ run.at # "idle" => \A a \in Ids : a > run.newest => sent[a] <= deaths
  /\ run.at = "send" => /\ run.newest > marker
                        /\ \A a \in run.todo : a <= run.newest /\ sent[a] <= deaths
                        /\ \A a \in Ids : a <= run.newest => a \in run.todo \/ Done(a, run.newest)
  /\ run.at = "mark" => \A a \in Ids : a <= run.newest => Done(a, run.newest)

AInv == FilesInv /\ SendInv

-----------------------------------------------------------------------------
(* The files.                                                              *)

LEMMA FilesInit == Init => FilesInv
<1> SUFFICES ASSUME Init PROVE FilesInv
  OBVIOUS
<1>1. \A d \in Days : Nothing[d] \in Seq(Line) /\ Len(Nothing[d]) = 0
  BY EmptySeq DEF Nothing
<1>2. \A d \in Days : d * DaySpan \in Nat /\ DaySpan \in Nat
  BY DaysAreNat, AlertsAssumption
<1>3. Whole(Nothing)
  BY <1>1, <1>2 DEF Whole
<1>4. DOMAIN Nothing = Days
  BY DEF Nothing
<1> QED BY <1>1, <1>2, <1>3, <1>4 DEF Init, FilesInv

\* An append to the file of the day, while no power was lost.
LEMMA RaiseKeeps == FilesInv /\ Raise => FilesInv'
<1> SUFFICES ASSUME FilesInv, Raise PROVE FilesInv'
  OBVIOUS
<1> DEFINE a == raised + 1
           d == Day(a)
           file == vps[d]
<1>1. /\ raised' = a /\ a = raised + 1 /\ a \in Ids /\ raised \in Nat /\ losses' = losses
      /\ bucket' = bucket /\ local' = local /\ DOMAIN vps' = Days
  BY AlertsAssumption DEF Raise, FilesInv, Ids
<1>2. d \in Days /\ d \in Nat /\ d * DaySpan < a /\ a <= d * DaySpan + DaySpan
  BY <1>1, DaysAreNat, DayBounds
<1>3. ASSUME losses = 0
      PROVE  /\ Whole(vps')
             /\ \A e \in Days : /\ raised' <= e * DaySpan => Len(vps'[e]) = 0
                                /\ e * DaySpan < raised' /\ raised' <= e * DaySpan + DaySpan
                                     => e * DaySpan + Len(vps'[e]) = raised'
  <2>1. /\ file \in Seq(Line) /\ Len(file) \in Nat
        /\ \A n \in 1 .. Len(file) : file[n] = LineOf(d, n)
    BY <1>2, <1>3, LenProperties DEF FilesInv, Whole
  <2>2. ~(file # <<>> /\ Last(file).open)
    <3> SUFFICES ASSUME file # <<>> PROVE ~Last(file).open
      OBVIOUS
    <3>1. Len(file) \in 1 .. Len(file)
      BY <2>1, EmptySeq
    <3>2. Last(file) = LineOf(d, Len(file))
      BY <2>1, <3>1 DEF Last
    <3> QED BY <3>2 DEF LineOf
  <2>3. d * DaySpan \in Nat /\ DaySpan \in Nat
    BY <1>2, AlertsAssumption
  <2>4. d * DaySpan + Len(file) = raised
    <3>1. CASE raised <= d * DaySpan
      <4>1. Len(file) = 0
        BY <1>2, <1>3, <3>1 DEF FilesInv
      <4> QED BY <1>1, <1>2, <2>3, <3>1, <4>1
    <3>2. CASE d * DaySpan < raised
      <4>1. raised <= d * DaySpan + DaySpan
        BY <1>1, <1>2, <2>3
      <4> QED BY <1>2, <1>3, <3>2, <4>1 DEF FilesInv
    <3> QED BY <1>1, <2>3, <3>1, <3>2
  <2> DEFINE line == [ids |-> {a}, open |-> FALSE]
             longer == Append(file, line)
  <2>5. vps' = [vps EXCEPT ![d] = longer]
    BY <2>2 DEF Raise
  <2>a. a \in Nat /\ d * DaySpan + (Len(file) + 1) = a
    BY <1>1, <2>1, <2>3, <2>4
  <2>b. file = vps[d] /\ d = Day(a)
    OBVIOUS
  <2> HIDE DEF a, d, file
  <2>6. /\ line = LineOf(d, Len(file) + 1) /\ line \in Line
    BY <2>a DEF LineOf, Line
  <2>7. /\ longer \in Seq(Line) /\ Len(longer) = Len(file) + 1
        /\ \A n \in 1 .. Len(file) : longer[n] = file[n]
        /\ longer[Len(file) + 1] = line
    BY <2>1, <2>6, AppendProperties
  <2> HIDE DEF line, longer
  <2>8. Len(longer) <= DaySpan /\ \A n \in 1 .. Len(longer) : longer[n] = LineOf(d, n)
    <3>1. Len(longer) <= DaySpan /\ Len(longer) \in Nat
      BY <1>2, <2>1, <2>3, <2>7, <2>a
    <3>2. ASSUME NEW n \in 1 .. Len(longer) PROVE longer[n] = LineOf(d, n)
      BY <2>1, <2>6, <2>7, <3>1
    <3> QED BY <3>1, <3>2
  <2>9. vps'[d] = longer /\ \A e \in Days : e # d => vps'[e] = vps[e]
    BY <1>2, <2>5 DEF FilesInv
  <2>10. Whole(vps')
    <3>1. Whole(vps)
      BY <1>3 DEF FilesInv
    <3> QED BY <2>7, <2>8, <2>9, <3>1 DEF Whole
  <2>11. ASSUME NEW e \in Days, e # d
         PROVE  /\ raised' <= e * DaySpan => Len(vps'[e]) = 0
                /\ ~(e * DaySpan < raised' /\ raised' <= e * DaySpan + DaySpan)
    <3>1. e \in Nat /\ e * DaySpan \in Nat
      BY DaysAreNat, <2>3
    <3>2. ~(e * DaySpan < a /\ a <= e * DaySpan + DaySpan)
      <4>1. a \in Nat \ {0}
        BY <1>1
      <4> QED BY <2>b, <2>11, <3>1, <4>1, DayUnique
    <3>3. a <= e * DaySpan => raised <= e * DaySpan
      BY <1>1, <3>1
    <3> QED BY <1>1, <1>3, <2>9, <2>11, <3>2, <3>3 DEF FilesInv
  <2>12. /\ ~(raised' <= d * DaySpan)
         /\ d * DaySpan + Len(vps'[d]) = raised'
    <3>1. d * DaySpan + Len(vps'[d]) = a
      BY <2>7, <2>9, <2>a
    <3> QED BY <1>1, <1>2, <2>3, <2>a, <3>1
  <2> QED BY <2>10, <2>11, <2>12
<1> QED BY <1>1, <1>3 DEF FilesInv, Whole

LEMMA FilesKept == FilesInv /\ [Next]_vars => FilesInv'
<1> SUFFICES ASSUME FilesInv, [Next]_vars PROVE FilesInv'
  OBVIOUS
<1>1. CASE Raise
  BY <1>1, RaiseKeeps
<1>2. CASE PowerLoss
  <2>1. losses' # 0 /\ losses' \in Nat /\ UNCHANGED <<raised, bucket, local>> /\ DOMAIN vps' = Days
    BY <1>2 DEF PowerLoss, FilesInv
  <2> QED BY <2>1 DEF FilesInv
<1>3. CASE \E d \in Days : Push(d)
  <2>1. PICK d \in Days : Push(d)
    BY <1>3
  <2>2. UNCHANGED <<raised, losses, vps, local>> /\ bucket' = [bucket EXCEPT ![d] = vps[d]]
    BY <2>1 DEF Push
  <2>3. DOMAIN bucket' = Days /\ \A e \in Days : bucket'[e] \in {bucket[e], vps[e]}
    BY <2>2 DEF FilesInv
  <2>4. losses = 0 => Whole(bucket')
    BY <2>3 DEF FilesInv, Whole
  <2> QED BY <2>2, <2>3, <2>4 DEF FilesInv, Whole
<1>4. CASE \E d \in Days : Pull(d)
  <2>1. PICK d \in Days : Pull(d)
    BY <1>4
  <2>2. UNCHANGED <<raised, losses, vps, bucket>> /\ local' = [local EXCEPT ![d] = bucket[d]]
    BY <2>1 DEF Pull
  <2>3. DOMAIN local' = Days /\ \A e \in Days : local'[e] \in {local[e], bucket[e]}
    BY <2>2 DEF FilesInv
  <2>4. losses = 0 => Whole(local')
    BY <2>3 DEF FilesInv, Whole
  <2> QED BY <2>2, <2>3, <2>4 DEF FilesInv, Whole
<1>5. CASE Forwarder \/ Die \/ UNCHANGED vars
  <2>1. UNCHANGED <<raised, losses, vps, bucket, local>>
    BY <1>5 DEF Forwarder, Start, Send, EmptyMarker, WriteMarker, Die, vars
  <2> QED BY <2>1 DEF FilesInv, Whole
<1> QED BY <1>1, <1>2, <1>3, <1>4, <1>5 DEF Next

-----------------------------------------------------------------------------
(* The forwarder.                                                          *)

LEMMA SendInit == Init => SendInv
<1> SUFFICES ASSUME Init PROVE SendInv
  OBVIOUS
<1>1. /\ marker = 0 /\ deaths = 0 /\ sent = [a \in Ids |-> 0]
      /\ run = [at |-> "idle", todo |-> {}, newest |-> 0]
  BY DEF Init, Idle
<1>2. \A a \in Ids : a \in Nat \ {0}
  BY AlertsAssumption DEF Ids
<1> QED BY <1>1, <1>2 DEF SendInv, Done

\* A day's file that was read up to an alert was read with all before it, so that a
\* run leaves none of its day behind.
LEMMA BatchIsGapless ==
  ASSUME FilesInv, SendInv, New # {}, losses = 0, Max(New) > marker,
         NEW a \in Ids, a <= Max(New), a \notin New
  PROVE  Done(a, Max(New))
<1> DEFINE m == Max(New)
<1>1. m \in Readable(local) /\ m \in Ids
  <2>1. New \subseteq Ids
    BY DEF New, Readable
  <2> QED BY <2>1, BatchEnds DEF New
<1>2. a \in Nat \ {0} /\ m \in Nat \ {0} /\ marker \in Nat
  BY <1>1, AlertsAssumption DEF Ids, SendInv
<1> HIDE DEF m
<1>3. Day(a) \in Nat /\ Day(m) \in Nat /\ Day(a) <= Day(m)
  BY <1>2, DayBounds, DayMonotone DEF m
<1>4. CASE Day(a) < Day(m)
  BY <1>4 DEF Done, m
<1>5. CASE Day(a) = Day(m)
  <2>a. PICK d \in Days : \E n \in DOMAIN local[d] : local[d][n] = [ids |-> {m}, open |-> FALSE]
    BY <1>1 DEF Readable
  <2>1. PICK n \in DOMAIN local[d] : local[d][n] = [ids |-> {m}, open |-> FALSE]
    BY <2>a
  <2>2. /\ Whole(local) /\ local[d] \in Seq(Line)
    BY DEF FilesInv, Whole
  <2>3. /\ DOMAIN local[d] = 1 .. Len(local[d]) /\ Len(local[d]) \in Nat
        /\ Len(local[d]) <= DaySpan
        /\ \A k \in 1 .. Len(local[d]) : local[d][k] = LineOf(d, k)
    BY <2>2, LenProperties DEF Whole
  <2>4. d \in Nat /\ d * DaySpan \in Nat /\ DaySpan \in Nat
    BY DaysAreNat, AlertsAssumption
  <2>5. m = d * DaySpan + n /\ n \in 1 .. Len(local[d])
    <3>1. n \in 1 .. Len(local[d]) /\ local[d][n] = [ids |-> {d * DaySpan + n}, open |-> FALSE]
      BY <2>1, <2>3 DEF LineOf
    <3>2. {m} = {d * DaySpan + n}
      BY <2>1, <3>1
    <3> QED BY <3>1, <3>2
  <2>6. Day(m) = d
    BY <1>2, <2>3, <2>4, <2>5, DayUnique
  <2>7. d * DaySpan < a /\ a <= m
    BY <1>2, <1>5, <2>6, DayBounds DEF m
  <2> DEFINE k == a - d * DaySpan
  <2>8. k \in 1 .. Len(local[d]) /\ a = d * DaySpan + k
    <3>1. PICK start \in Nat : start = d * DaySpan
      BY <2>4
    <3>2. start < a /\ a <= start + n
      BY <2>5, <2>7, <3>1
    <3>3. a - start \in 1 .. Len(local[d]) /\ a = start + (a - start)
      BY <1>2, <2>3, <2>5, <3>2
    <3> QED BY <3>1, <3>3
  <2> HIDE DEF k
  <2>9. local[d][k] = [ids |-> {a}, open |-> FALSE]
    BY <2>3, <2>8 DEF LineOf
  <2>10. a \in Readable(local)
    BY <2>3, <2>8, <2>9 DEF Readable
  <2>11. a <= marker
    BY <1>2, <2>10 DEF New
  <2>12. Done(a, marker) /\ Day(marker) <= Day(m) /\ Day(a) <= Day(marker)
         /\ Day(marker) \in Nat
    BY <1>2, <2>11, DayMonotone, DayBounds DEF SendInv, m
  <2> QED BY <1>3, <1>5, <2>12 DEF Done, m
<1> QED BY <1>3, <1>4, <1>5

LEMMA StartKeeps == FilesInv /\ SendInv /\ Start => SendInv'
<1> SUFFICES ASSUME FilesInv, SendInv, Start PROVE SendInv'
  OBVIOUS
<1> DEFINE m == Max(New)
<1>1. /\ run' = [at |-> "send", todo |-> New, newest |-> m] /\ run.at = "idle"
      /\ UNCHANGED <<marker, deaths, sent, failed, losses>>
  BY DEF Start, Idle
<1>2. New \subseteq Ids /\ New # {} /\ \A a \in New : a > marker
  BY DEF New, Readable, Start
<1>3. m \in New /\ \A a \in New : a <= m
  BY <1>2, BatchEnds
<1> HIDE DEF m
<1>4. m \in Nat /\ m > marker
  BY <1>2, <1>3, AlertsAssumption DEF Ids
<1>5. \A a \in Ids : a <= m => a \in New \/ Done(a, m)
  <2> TAKE a \in Ids
  <2>1. CASE losses = 0
    BY <1>2, <1>4, <2>1, BatchIsGapless DEF m
  <2>2. CASE losses > 0
    BY <2>2 DEF Done
  <2> QED BY <2>1, <2>2 DEF FilesInv
<1>6. \A a \in Ids : (a > m => sent[a] <= deaths) /\ (a \in New => sent[a] <= deaths)
  <2>1. Ids \subseteq Nat /\ marker \in Nat
    BY AlertsAssumption DEF Ids, SendInv
  <2> QED BY <1>1, <1>2, <1>4, <2>1 DEF SendInv
<1>7. \A a \in Ids, n \in {m, marker} : Done(a, n) => Done(a, n)'
  BY <1>1, <1>4 DEF Done, Day
<1> QED BY <1>1, <1>2, <1>3, <1>4, <1>5, <1>6, <1>7 DEF SendInv

\* What is done stays done when nothing that was sent or failed is forgotten.
LEMMA DoneStays ==
  ASSUME SendInv, [Next]_vars, FilesInv, NEW a \in Ids, NEW m, Done(a, m)
  PROVE  Done(a, m)'
<1>1. CASE Send
  <2> DEFINE b == Min(run.todo)
  <2>1. /\ losses' = losses
        /\ \/ sent' = [sent EXCEPT ![b] = @ + 1] /\ failed' = failed
           \/ sent' = sent /\ failed' = failed \union {b}
    BY <1>1 DEF Send
  <2> HIDE DEF b
  <2>2. sent'[a] >= sent[a] /\ sent'[a] \in Int /\ sent[a] \in Int
    BY <2>1 DEF SendInv
  <2> QED BY <2>1, <2>2 DEF Done, Day
<1>2. CASE PowerLoss
  <2>1. losses' > 0
    BY <1>2 DEF PowerLoss, FilesInv
  <2> QED BY <2>1 DEF Done
<1>3. CASE Raise \/ Start \/ EmptyMarker \/ WriteMarker \/ Die \/ (\E d \in Days : Push(d) \/ Pull(d))
           \/ UNCHANGED vars
  <2>1. UNCHANGED <<sent, failed, losses>>
    BY <1>3 DEF Raise, Start, EmptyMarker, WriteMarker, Die, Push, Pull, vars
  <2> QED BY <2>1 DEF Done, Day
<1> QED BY <1>1, <1>2, <1>3 DEF Next, Forwarder

LEMMA SendKeeps == FilesInv /\ SendInv /\ Send => SendInv'
<1> SUFFICES ASSUME FilesInv, SendInv, Send PROVE SendInv'
  OBVIOUS
<1>0. PICK b : b = Min(run.todo)
  OBVIOUS
<1>1. /\ run.at = "send" /\ run' = [run EXCEPT !.todo = @ \ {b}]
      /\ UNCHANGED <<marker, losses, deaths>>
      /\ \/ sent' = [sent EXCEPT ![b] = @ + 1] /\ failed' = failed
         \/ sent' = sent /\ failed' = failed \union {b}
  BY <1>0 DEF Send
<1>2. b \in run.todo /\ b \in Ids
  BY <1>0, BatchEnds DEF Send, SendInv
<1>3. /\ run' \in [at : {"idle", "send", "mark"}, todo : SUBSET Ids, newest : Nat]
      /\ run'.at = "send" /\ run'.newest = run.newest /\ run'.todo = run.todo \ {b}
  BY <1>1 DEF SendInv
<1>4. /\ sent' \in [Ids -> Nat] /\ sent'[b] <= 1 + deaths
      /\ \A a \in Ids : a # b => sent'[a] = sent[a]
  BY <1>1, <1>2 DEF SendInv
<1>5. \A a \in Ids, m \in Nat : Done(a, m) => Done(a, m)'
  BY DoneStays DEF Next, Forwarder
<1>6. \A m \in Nat : Done(b, m)'
  <2>1. sent'[b] > 0 \/ b \in failed'
    BY <1>1, <1>2 DEF SendInv
  <2> QED BY <2>1 DEF Done
<1>7. b <= run.newest /\ b \in Nat /\ run.newest \in Nat
  BY <1>1, <1>2, AlertsAssumption DEF SendInv, Ids
<1>8. /\ marker' \in Nat /\ deaths' \in Nat /\ deaths' = deaths /\ marker' = marker
  BY <1>1 DEF SendInv
<1>9. ASSUME NEW a \in Ids
      PROVE  /\ sent'[a] <= 1 + deaths' /\ (a <= marker' => Done(a, marker)')
             /\ a > run'.newest => sent'[a] <= deaths'
             /\ a \in run'.todo => a <= run'.newest /\ sent'[a] <= deaths'
             /\ a <= run'.newest => a \in run'.todo \/ Done(a, run.newest)'
  <2>1. CASE a = b
    <3>1. ~(a > run'.newest) /\ a \notin run'.todo
      BY <1>3, <1>7, <2>1
    <3>2. Done(a, marker)' /\ Done(a, run.newest)'
      BY <1>3, <1>6, <1>7, <1>8, <2>1 DEF Done
    <3> QED BY <1>4, <1>8, <2>1, <3>1, <3>2
  <2>2. CASE a # b
    <3>1. /\ sent'[a] = sent[a] /\ (a \in run'.todo <=> a \in run.todo)
      BY <1>3, <1>4, <2>2
    <3>2. (Done(a, marker) => Done(a, marker)') /\ (Done(a, run.newest) => Done(a, run.newest)')
      BY <1>3, <1>5, <1>7, <1>8 DEF Done
    <3> QED BY <1>1, <1>3, <1>8, <3>1, <3>2 DEF SendInv
  <2> QED BY <2>1, <2>2
<1> QED BY <1>1, <1>3, <1>4, <1>8, <1>9 DEF SendInv

LEMMA RunKeeps == FilesInv /\ SendInv /\ [Next]_vars => SendInv'
<1> SUFFICES ASSUME FilesInv, SendInv, [Next]_vars PROVE SendInv'
  OBVIOUS
<1>1. \A a \in Ids, m \in Nat : Done(a, m) => Done(a, m)'
  BY DoneStays
<1>2. CASE Start
  BY <1>2, StartKeeps
<1>3. CASE Send
  BY <1>3, SendKeeps
<1>4. CASE EmptyMarker
  <2>1. /\ marker' = 0 /\ run.at = "send" /\ run.todo = {} /\ run' = [run EXCEPT !.at = "mark"]
        /\ UNCHANGED <<deaths, sent>>
    BY <1>4 DEF EmptyMarker
  <2>2. Ids \subseteq Nat \ {0}
    BY AlertsAssumption DEF Ids
  <2> QED BY <1>1, <2>1, <2>2 DEF SendInv
<1>5. CASE WriteMarker
  <2>1. /\ marker' = run.newest /\ run.at = "mark" /\ run' = [at |-> "idle", todo |-> {}, newest |-> 0]
        /\ UNCHANGED <<deaths, sent>>
    BY <1>5 DEF WriteMarker, Idle
  <2> QED BY <1>1, <2>1 DEF SendInv
<1>6. CASE Die
  <2>1. /\ deaths' = deaths + 1 /\ run' = [at |-> "idle", todo |-> {}, newest |-> 0]
        /\ UNCHANGED <<marker, sent>>
    BY <1>6 DEF Die, Idle
  <2> QED BY <1>1, <2>1 DEF SendInv
<1>7. CASE Raise \/ PowerLoss \/ (\E d \in Days : Push(d) \/ Pull(d)) \/ UNCHANGED vars
  <2>1. UNCHANGED <<marker, run, deaths, sent>>
    BY <1>7 DEF Raise, PowerLoss, Push, Pull, vars
  <2> QED BY <1>1, <2>1 DEF SendInv
<1> QED BY <1>2, <1>3, <1>4, <1>5, <1>6, <1>7 DEF Next, Forwarder

\* An alert is sent at most once and once more for each death of the forwarder, and the
\* marker leaves one behind only if its send failed, power was lost, or it is of an
\* earlier day: forward_alerts.py reads, sends in order, and marks at the end.
THEOREM SentOnceEach == Spec => []SentOnce
<1>1. Init => FilesInv /\ SendInv
  BY FilesInit, SendInit
<1>2. (FilesInv /\ SendInv) /\ [Next]_vars => (FilesInv /\ SendInv)'
  BY FilesKept, RunKeeps
<1>3. SendInv => SentOnce
  BY DEF SendInv, SentOnce, Done
<1> QED BY <1>1, <1>2, <1>3, PTL DEF Spec
=============================================================================
