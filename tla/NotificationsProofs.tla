------------------------- MODULE NotificationsProofs -------------------------
(***************************************************************************)
(* The notifications, for any messages, targets, routes, platforms, hooks, *)
(* windows and thresholds.                                                 *)
(*                                                                         *)
(* The guard's windows are shown to be the ends of its log, by induction   *)
(* over their length; the whole service is shown to use the guard as its   *)
(* own specification allows; the shapes of what waits, is delivered and is *)
(* read carry the answers that callers get; what the watch remembers, with *)
(* what is known of each Stop hook, lets a turn be announced once; and by  *)
(* induction over the lines of a poll, it goes out with its own prompt.    *)
(***************************************************************************)
EXTENDS Notifications, FiniteSetTheorems, SequenceTheorems, WellFoundedInduction, TLAPS

----------------------------------------------------------------------------
\* Numbers and windows.

\* A set of natural numbers has a least element.
LEMMA LeastNatural ==
    ASSUME NEW T, T \subseteq Nat, T # {}
    PROVE  \E m \in T : \A k \in T : m <= k
<1> DEFINE R == OpToRel(<, Nat)
<1>1. IsWellFoundedOn(R, Nat)
  BY NatLessThanWellFounded
<1> HIDE DEF R
<1>2. PICK m \in T : \A k \in T : <<k, m>> \notin R
  BY <1>1, WFMin
<1>3. \A k \in T : ~(k < m)
  BY <1>2 DEF R, OpToRel
<1>. QED
  BY <1>3

\* What holds of 0, and of a number if it holds of the one before, holds up to n.
LEMMA UpTo ==
    ASSUME NEW n \in Nat, NEW T, 0 \in T, \A m \in 1 .. n : m - 1 \in T => m \in T
    PROVE  \A m \in 0 .. n : m \in T
<1> DEFINE Not == {m \in 0 .. n : m \notin T}
<1> SUFFICES ASSUME Not # {} PROVE FALSE
  OBVIOUS
<1>1. Not \subseteq Nat
  OBVIOUS
<1>2. PICK m \in Not : \A k \in Not : m <= k
  BY <1>1, LeastNatural
<1>3. m \in 1 .. n /\ m - 1 \in 0 .. n /\ ~(m <= m - 1)
  BY <1>2
<1>4. m - 1 \in T
  BY <1>2, <1>3
<1>. QED
  BY <1>2, <1>3, <1>4

\* What SubSeq leaves of a sequence from a on.
LEMMA EndOfSequence ==
    ASSUME NEW S, NEW s \in Seq(S), NEW a \in 1 .. Len(s) + 1
    PROVE  /\ SubSeq(s, a, Len(s)) \in Seq(S)
           /\ Len(SubSeq(s, a, Len(s))) = Len(s) - (a - 1)
           /\ \A i \in 1 .. Len(s) - (a - 1) : SubSeq(s, a, Len(s))[i] = s[(a - 1) + i]
<1>1. Len(s) \in Nat /\ \A i \in 1 .. Len(s) : s[i] \in S
  BY LenProperties, ElementOfSeq
<1> DEFINE n == Len(s)
           e == SubSeq(s, a, n)
<1>2. n \in Int /\ a \in Int /\ \A i \in a .. n : s[i] \in S
  BY <1>1
<1>3. /\ e \in Seq(S) /\ Len(e) = (IF a <= n THEN n - a + 1 ELSE 0)
      /\ \A i \in 1 .. n - a + 1 : e[i] = s[a + i - 1]
  <2> HIDE DEF n
  <2>. QED
    BY <1>2, SubSeqProperties
<1> HIDE DEF e
<1>4. n \in Nat
  BY <1>1
<1> HIDE DEF n
<1>5. /\ e \in Seq(S) /\ Len(e) = n - (a - 1)
      /\ \A i \in 1 .. n - (a - 1) : e[i] = s[(a - 1) + i]
  <2>1. a \in 1 .. n + 1
    BY DEF n
  <2>2. n - a + 1 = n - (a - 1) /\ \A i \in 1 .. n - (a - 1) : a + i - 1 = (a - 1) + i
    BY <1>4, <2>1
  <2>3. Len(e) = n - (a - 1)
    BY <1>3, <1>4, <2>1
  <2>. QED
    BY <1>3, <2>2, <2>3
<1>. QED
  BY <1>5 DEF e, n

\* The window without its old times is an end of it, from a time that is young enough.
LEMMA PrunedIsEnd ==
    ASSUME NEW window \in Seq(Nat), NEW t \in Nat
    PROVE  \E p \in 0 .. Len(window) :
               /\ Pruned(window, t) \in Seq(Nat)
               /\ Len(Pruned(window, t)) = Len(window) - p
               /\ \A i \in 1 .. Len(window) - p : Pruned(window, t)[i] = window[p + i]
               /\ \A j \in 1 .. p : window[j] < t
               /\ p < Len(window) => window[p + 1] >= t
<1> DEFINE n == Len(window)
           Young(i) == i <= n => window[i] >= t
           First(i) == Young(i) /\ \A j \in 1 .. i - 1 : window[j] < t
           Starts == {i \in 1 .. n + 1 : Young(i)}
<1>1. n \in Nat /\ \A i \in 1 .. n : window[i] \in Nat
  OBVIOUS
<1>2. PICK m \in Starts : \A i \in Starts : m <= i
  <2>1. n + 1 \in Starts /\ Starts \subseteq Nat
    BY <1>1
  <2> HIDE DEF Starts
  <2>. QED
    BY <2>1, LeastNatural
<1>3. First(m) /\ m \in 1 .. n + 1
  <2>1. ASSUME NEW j \in 1 .. m - 1 PROVE window[j] < t
    BY <1>1, <1>2, <2>1
  <2>. QED
    BY <1>2, <2>1
<1> DEFINE first == CHOOSE i \in 1 .. n + 1 : First(i)
<1>4. first \in 1 .. n + 1 /\ First(first)
  BY <1>3
<1> HIDE DEF first
<1> DEFINE p == first - 1
           q == SubSeq(window, first, n)
<1>5. Pruned(window, t) = q
  BY DEF Pruned, FromFirst, first
<1>6. /\ q \in Seq(Nat) /\ Len(q) = n - p
      /\ \A i \in 1 .. n - p : q[i] = window[p + i]
  BY <1>4, EndOfSequence
<1>7. /\ p \in 0 .. n /\ \A j \in 1 .. p : window[j] < t
      /\ p < n => window[p + 1] >= t
  <2>1. p + 1 = first /\ first - 1 = p
    BY <1>4
  <2>. QED
    BY <1>1, <1>4, <2>1
<1> HIDE DEF p, q
<1>. QED
  BY <1>5, <1>6, <1>7

\* The attempts in a log, and the window that is kept of them: the times of its end, and
\* those left out are older than the cutoff.
Entries == [at : Nat, outcome : {"allowed", "storm"}]

IsWindow(w, entries, cutoff) ==
    /\ Len(w) <= Len(entries)
    /\ \A i \in 1 .. Len(w) : w[i] = entries[Len(entries) - Len(w) + i].at
    /\ \A j \in 1 .. Len(entries) - Len(w) : entries[j].at < cutoff

InOrder(entries) ==
    \A i, j \in 1 .. Len(entries) : i <= j => entries[i].at <= entries[j].at

Since(entries, cutoff) == {j \in 1 .. Len(entries) : entries[j].at >= cutoff}

\* Pruning leaves a window of the times that are not older than the cutoff, and no other.
LEMMA PrunedIsWindow ==
    ASSUME NEW entries \in Seq(Entries), NEW w \in Seq(Nat), NEW c \in Nat,
           IsWindow(w, entries, c), InOrder(entries)
    PROVE  /\ Pruned(w, c) \in Seq(Nat)
           /\ IsWindow(Pruned(w, c), entries, c)
           /\ \A j \in 1 .. Len(entries) :
                 entries[j].at >= c <=> j > Len(entries) - Len(Pruned(w, c))
<1> DEFINE n == Len(entries)
           l == Len(w)
           q == Pruned(w, c)
<1>1. /\ n \in Nat /\ l \in Nat
      /\ \A i \in 1 .. n : entries[i] \in Entries
  BY LenProperties, ElementOfSeq
<1>2. PICK p \in 0 .. l : /\ q \in Seq(Nat) /\ Len(q) = l - p
                          /\ \A i \in 1 .. l - p : q[i] = w[p + i]
                          /\ \A j \in 1 .. p : w[j] < c
                          /\ p < l => w[p + 1] >= c
  BY PrunedIsEnd
<1>3. /\ l <= n
      /\ \A i \in 1 .. l : w[i] = entries[n - l + i].at
      /\ \A j \in 1 .. n - l : entries[j].at < c
  BY DEF IsWindow
<1>4. \A i, j \in 1 .. n : i <= j => entries[i].at <= entries[j].at
  BY DEF InOrder
<1>5. \A i \in 1 .. n : entries[i].at \in Nat
  BY <1>1 DEF Entries
<1> HIDE DEF n, l, q
<1>6. \A j \in 1 .. n - (l - p) : entries[j].at < c
  <2> SUFFICES ASSUME NEW j \in 1 .. n - (l - p) PROVE entries[j].at < c
    OBVIOUS
  <2>1. CASE j <= n - l
    BY <1>1, <1>3, <2>1
  <2>2. CASE j > n - l
    <3>1. j - (n - l) \in 1 .. p /\ n - l + (j - (n - l)) = j
      BY <1>1, <1>2, <1>3, <2>2
    <3>2. w[j - (n - l)] = entries[n - l + (j - (n - l))].at
      <4>1. j - (n - l) \in 1 .. l
        BY <1>1, <1>2, <1>3, <3>1
      <4>. QED
        BY <1>3, <4>1
    <3>3. w[j - (n - l)] < c
      BY <1>2, <3>1
    <3>. QED
      BY <3>1, <3>2, <3>3
  <2>. QED
    BY <1>1, <2>1, <2>2
<1>7. \A j \in 1 .. n : j > n - (l - p) => entries[j].at >= c
  <2> SUFFICES ASSUME NEW j \in 1 .. n, j > n - (l - p) PROVE entries[j].at >= c
    OBVIOUS
  <2> DEFINE f == n - l + (p + 1)
  <2>1. p < l /\ f \in 1 .. n /\ f <= j /\ p + 1 \in 1 .. l
    BY <1>1, <1>2, <1>3
  <2>2. w[p + 1] = entries[f].at
    BY <1>3, <2>1
  <2>3. entries[f].at >= c /\ entries[f].at <= entries[j].at
    BY <1>2, <1>4, <2>1, <2>2
  <2> HIDE DEF f
  <2>. QED
    BY <1>5, <2>1, <2>3
<1>8. \A i \in 1 .. l - p : q[i] = entries[n - (l - p) + i].at
  <2> SUFFICES ASSUME NEW i \in 1 .. l - p PROVE q[i] = entries[n - (l - p) + i].at
    OBVIOUS
  <2>1. p + i \in 1 .. l /\ n - l + (p + i) = n - (l - p) + i
    BY <1>1, <1>2, <1>3
  <2>2. q[i] = w[p + i] /\ w[p + i] = entries[n - l + (p + i)].at
    BY <1>2, <1>3, <2>1
  <2>. QED
    BY <2>1, <2>2
<1>9. l - p <= n /\ Len(q) = l - p
  BY <1>1, <1>2, <1>3
<1>10. IsWindow(q, entries, c)
  BY <1>6, <1>8, <1>9 DEF IsWindow, n
<1>11. \A j \in 1 .. n : entries[j].at >= c <=> j > n - Len(q)
  <2> SUFFICES ASSUME NEW j \in 1 .. n PROVE entries[j].at >= c <=> j > n - Len(q)
    OBVIOUS
  <2>1. CASE j > n - (l - p)
    <3>1. entries[j].at >= c
      BY <1>7, <2>1
    <3>. QED
      BY <1>9, <2>1, <3>1
  <2>2. CASE ~(j > n - (l - p))
    <3>1. j \in 1 .. n - (l - p)
      BY <1>1, <2>2
    <3>2. entries[j].at < c
      BY <1>6, <3>1
    <3>. QED
      BY <1>5, <1>9, <2>2, <3>2
  <2>. QED
    BY <2>1, <2>2
<1>. QED
  BY <1>2, <1>10, <1>11 DEF n, q

\* A log with one more attempt, and its window.
Grown(entries, more, v, c) ==
    /\ more \in Seq(Entries) /\ v \in Seq(Nat)
    /\ IsWindow(v, more, c) /\ InOrder(more)
    /\ Len(more) = Len(entries) + 1
    /\ \A i \in 1 .. Len(entries) : more[i] = entries[i]
    /\ IsFiniteSet(Since(more, c)) /\ Cardinality(Since(more, c)) = Len(v)

\* So the length of the window, with the attempt that is counted, is the number of recent
\* attempts.
LEMMA WindowCounts ==
    ASSUME NEW entries \in Seq(Entries), NEW w \in Seq(Nat), NEW c \in Nat, NEW t \in Nat,
           NEW outcome \in {"allowed", "storm"},
           IsWindow(w, entries, c), InOrder(entries), c <= t,
           \A i \in 1 .. Len(entries) : entries[i].at <= t
    PROVE  Grown(entries, Append(entries, [at |-> t, outcome |-> outcome]),
                 Append(Pruned(w, c), t), c)
           /\ Append(entries, [at |-> t, outcome |-> outcome])[Len(entries) + 1]
                  = [at |-> t, outcome |-> outcome]
<1> DEFINE entry == [at |-> t, outcome |-> outcome]
           more == Append(entries, entry)
           q == Pruned(w, c)
           v == Append(q, t)
           n == Len(entries)
           l == Len(q)
<1>1. /\ q \in Seq(Nat) /\ IsWindow(q, entries, c)
      /\ \A j \in 1 .. n : entries[j].at >= c <=> j > n - l
  BY PrunedIsWindow
<1>2. n \in Nat /\ l \in Nat /\ \A i \in 1 .. n : entries[i] \in Entries
  BY <1>1, LenProperties, ElementOfSeq
<1>3. entry \in Entries /\ entry.at = t
  BY DEF Entries
<1> HIDE DEF entry, q
<1>4. /\ more \in Seq(Entries) /\ Len(more) = n + 1
      /\ \A i \in 1 .. n : more[i] = entries[i]
      /\ more[n + 1] = entry
  BY <1>3, AppendProperties
<1>5. /\ v \in Seq(Nat) /\ Len(v) = l + 1
      /\ \A i \in 1 .. l : v[i] = q[i]
      /\ v[l + 1] = t
  BY <1>1, AppendProperties
<1>6. /\ l <= n
      /\ \A i \in 1 .. l : q[i] = entries[n - l + i].at
      /\ \A j \in 1 .. n - l : entries[j].at < c
  BY <1>1 DEF IsWindow
<1> HIDE DEF more, v
<1>7. \A i, j \in 1 .. n : i <= j => entries[i].at <= entries[j].at
  BY DEF InOrder
<1>8. \A i \in 1 .. n : entries[i].at <= t
  OBVIOUS
<1> HIDE DEF n, l
<1>9. IsWindow(v, more, c)
  <2>1. \A i \in 1 .. l + 1 : v[i] = more[(n + 1) - (l + 1) + i].at
    <3> SUFFICES ASSUME NEW i \in 1 .. l + 1 PROVE v[i] = more[(n + 1) - (l + 1) + i].at
      OBVIOUS
    <3>1. CASE i = l + 1
      <4>1. (n + 1) - (l + 1) + i = n + 1
        BY <1>2, <3>1
      <4>. QED
        BY <1>3, <1>4, <1>5, <3>1, <4>1
    <3>2. CASE i \in 1 .. l
      <4>1. (n + 1) - (l + 1) + i = n - l + i /\ n - l + i \in 1 .. n
        BY <1>2, <1>6, <3>2
      <4>. QED
        BY <1>4, <1>5, <1>6, <3>2, <4>1
    <3>. QED
      BY <1>2, <3>1, <3>2
  <2>2. \A j \in 1 .. (n + 1) - (l + 1) : more[j].at < c
    BY <1>2, <1>4, <1>6
  <2>. QED
    BY <1>2, <1>4, <1>5, <1>6, <2>1, <2>2 DEF IsWindow
<1>10. InOrder(more)
  <2> SUFFICES ASSUME NEW i \in 1 .. n + 1, NEW j \in 1 .. n + 1, i <= j
               PROVE  more[i].at <= more[j].at
    BY <1>4 DEF InOrder
  <2>1. CASE j \in 1 .. n
    BY <1>2, <1>4, <1>7, <2>1
  <2>2. CASE j = n + 1 /\ i \in 1 .. n
    BY <1>3, <1>4, <1>8, <2>2 DEF n
  <2>3. CASE j = n + 1 /\ i = n + 1
    BY <1>3, <1>4, <2>3
  <2>. QED
    BY <1>2, <2>1, <2>2, <2>3
<1>11. Since(more, c) = (n - l + 1) .. (n + 1)
  <2>1. \A j \in 1 .. n + 1 : more[j].at >= c <=> j >= n - l + 1
    <3> SUFFICES ASSUME NEW j \in 1 .. n + 1 PROVE more[j].at >= c <=> j >= n - l + 1
      OBVIOUS
    <3>1. CASE j = n + 1
      BY <1>2, <1>3, <1>4, <3>1
    <3>2. CASE j \in 1 .. n
      <4>1. entries[j].at >= c <=> j > n - l
        BY <1>1, <3>2 DEF n, l
      <4>. QED
        BY <1>2, <1>4, <3>2, <4>1
    <3>3. j = n + 1 \/ j \in 1 .. n
      BY <1>2
    <3>. QED
      BY <3>1, <3>2, <3>3
  <2>2. Since(more, c) = {j \in 1 .. n + 1 : j >= n - l + 1}
    BY <1>4, <2>1 DEF Since
  <2>. QED
    BY <1>2, <1>6, <2>2
<1>12. IsFiniteSet(Since(more, c)) /\ Cardinality(Since(more, c)) = Len(v)
  <2>1. n - l + 1 \in Int /\ n + 1 \in Int /\ ~(n - l + 1 > n + 1)
        /\ (n + 1) - (n - l + 1) + 1 = l + 1
    BY <1>2
  <2>2. /\ IsFiniteSet((n - l + 1) .. (n + 1))
        /\ Cardinality((n - l + 1) .. (n + 1)) = (n + 1) - (n - l + 1) + 1
    BY <2>1, FS_Interval
  <2>. QED
    BY <1>5, <1>11, <2>1, <2>2
<1>. QED
  BY <1>4, <1>5, <1>9, <1>10, <1>12 DEF Grown, entry, more, v, n, q

----------------------------------------------------------------------------
\* Storms.

\* What StormsAreCutOff says of the i-th entry of a log.
RecentIn(entries, i, outcomes) ==
    {j \in 1 .. i : /\ entries[j].outcome \in outcomes
                    /\ entries[j].at >= Cutoff(entries[i].at, DuplicateWindow)}

IsCutOff(entries, i) ==
    IF entries[i].outcome = "allowed"
    THEN Cardinality(RecentIn(entries, i, {"allowed"})) < DuplicateThreshold
    ELSE Cardinality(RecentIn(entries, i, {"allowed", "storm"})) >= DuplicateThreshold

\* What is known of a log and its window at a time.
Fits(w, entries, t) ==
    /\ w \in Seq(Nat) /\ entries \in Seq(Entries)
    /\ IsWindow(w, entries, Cutoff(t, DuplicateWindow))
    /\ InOrder(entries)
    /\ \A i \in 1 .. Len(entries) : entries[i].at <= t /\ IsCutOff(entries, i)

\* The cutoff is a time that is not in the future and never goes back.
LEMMA CutoffMoves ==
    ASSUME NEW t \in Nat, NEW u \in Nat, NEW span \in Nat, t <= u
    PROVE  /\ Cutoff(t, span) \in Nat /\ Cutoff(t, span) <= t
           /\ Cutoff(t, span) <= Cutoff(u, span)
<1>1. CASE t < span /\ u < span
  BY <1>1 DEF Cutoff
<1>2. CASE t < span /\ u >= span
  BY <1>2 DEF Cutoff
<1>3. CASE t >= span /\ u >= span
  BY <1>3 DEF Cutoff
<1>. QED
  BY <1>1, <1>2, <1>3

LEMMA EmptyFits ==
    ASSUME NEW t \in Nat
    PROVE  Fits(<<>>, <<>>, t)
<1>1. Len(<<>>) = 0 /\ <<>> \in Seq(Nat) /\ <<>> \in Seq(Entries)
  BY EmptySeq
<1>. QED
  BY <1>1 DEF Fits, IsWindow, InOrder

\* Time goes on, and leaves windows as they are.
LEMMA TimePasses ==
    ASSUME NEW t \in Nat, NEW u \in Nat, t <= u, NEW w, NEW entries, Fits(w, entries, t)
    PROVE  Fits(w, entries, u)
<1>1. /\ Cutoff(t, DuplicateWindow) \in Nat /\ Cutoff(u, DuplicateWindow) \in Nat
      /\ Cutoff(t, DuplicateWindow) <= Cutoff(u, DuplicateWindow)
  <2>1. DuplicateWindow \in Nat /\ u <= u
    BY DeliverySafetyAssumption
  <2>2. /\ Cutoff(t, DuplicateWindow) \in Nat
        /\ Cutoff(t, DuplicateWindow) <= Cutoff(u, DuplicateWindow)
    BY <2>1, CutoffMoves
  <2>3. Cutoff(u, DuplicateWindow) \in Nat
    BY <2>1, CutoffMoves
  <2>. QED
    BY <2>2, <2>3
<1> DEFINE n == Len(entries)
           l == Len(w)
<1>2. /\ w \in Seq(Nat) /\ entries \in Seq(Entries) /\ InOrder(entries)
      /\ \A i \in 1 .. n : entries[i].at <= t /\ IsCutOff(entries, i)
      /\ l <= n /\ \A i \in 1 .. l : w[i] = entries[n - l + i].at
      /\ \A j \in 1 .. n - l : entries[j].at < Cutoff(t, DuplicateWindow)
  BY DEF Fits, IsWindow
<1>3. n \in Nat /\ l \in Nat /\ \A i \in 1 .. n : entries[i].at \in Nat
  <2>1. n \in Nat /\ l \in Nat
    BY <1>2, LenProperties
  <2>2. \A i \in 1 .. n : entries[i] \in Entries
    BY <1>2, ElementOfSeq
  <2>. QED
    BY <2>1, <2>2 DEF Entries
<1> HIDE DEF n, l
<1>4. \A i \in 1 .. n : entries[i].at <= u
  BY <1>2, <1>3
<1>5. \A j \in 1 .. n - l : entries[j].at < Cutoff(u, DuplicateWindow)
  <2> SUFFICES ASSUME NEW j \in 1 .. n - l
               PROVE  entries[j].at < Cutoff(u, DuplicateWindow)
    OBVIOUS
  <2>1. j \in 1 .. n /\ entries[j].at < Cutoff(t, DuplicateWindow)
    BY <1>2, <1>3
  <2>. QED
    BY <1>1, <1>3, <2>1
<1>. QED
  BY <1>2, <1>4, <1>5 DEF Fits, IsWindow, n, l

\* Another attempt has only pruned the window.
LEMMA PruningFits ==
    ASSUME NEW t \in Nat, NEW w, NEW entries, Fits(w, entries, t)
    PROVE  Fits(Pruned(w, Cutoff(t, DuplicateWindow)), entries, t)
<1>1. Cutoff(t, DuplicateWindow) \in Nat
  BY CutoffMoves, DeliverySafetyAssumption
<1>. QED
  BY <1>1, PrunedIsWindow DEF Fits

\* The attempt itself is counted, and what becomes of it is what the count asks for.
LEMMA CountingFits ==
    ASSUME NEW t \in Nat, NEW w, NEW entries, Fits(w, entries, t),
           NEW outcome \in {"allowed", "storm"},
           LET v == Append(Pruned(w, Cutoff(t, DuplicateWindow)), t)
           IN  outcome = "allowed" <=> Len(v) < DuplicateThreshold
    PROVE  Fits(Append(Pruned(w, Cutoff(t, DuplicateWindow)), t),
                Append(entries, [at |-> t, outcome |-> outcome]), t)
<1> DEFINE c == Cutoff(t, DuplicateWindow)
           v == Append(Pruned(w, c), t)
           more == Append(entries, [at |-> t, outcome |-> outcome])
           n == Len(entries)
<1>1. c \in Nat /\ c <= t
  BY CutoffMoves, DeliverySafetyAssumption
<1>2. /\ w \in Seq(Nat) /\ entries \in Seq(Entries) /\ IsWindow(w, entries, c)
      /\ InOrder(entries)
      /\ \A i \in 1 .. n : entries[i].at <= t /\ IsCutOff(entries, i)
  BY DEF Fits
<1>3. n \in Nat /\ \A i \in 1 .. n : entries[i] \in Entries
  BY <1>2, LenProperties, ElementOfSeq
<1>4. outcome = "allowed" <=> Len(v) < DuplicateThreshold
  OBVIOUS
<1> HIDE DEF c
<1>5. /\ more \in Seq(Entries) /\ v \in Seq(Nat)
      /\ IsWindow(v, more, c) /\ InOrder(more)
      /\ Len(more) = n + 1
      /\ more[n + 1] = [at |-> t, outcome |-> outcome]
      /\ \A i \in 1 .. n : more[i] = entries[i]
      /\ IsFiniteSet(Since(more, c)) /\ Cardinality(Since(more, c)) = Len(v)
  <2>1. Grown(entries, more, v, c) /\ more[Len(entries) + 1] = [at |-> t, outcome |-> outcome]
    BY <1>1, <1>2, WindowCounts
  <2>. QED
    BY <2>1 DEF Grown
<1>6. Len(v) \in Nat /\ DuplicateThreshold \in Nat
  BY <1>5, LenProperties, DeliverySafetyAssumption
<1> HIDE DEF v, more, n
<1>7. \A i \in 1 .. n : IsCutOff(more, i)
  <2> SUFFICES ASSUME NEW i \in 1 .. n PROVE IsCutOff(more, i)
    OBVIOUS
  <2>1. more[i] = entries[i] /\ \A j \in 1 .. i : more[j] = entries[j]
    BY <1>3, <1>5
  <2>2. \A outcomes : RecentIn(more, i, outcomes) = RecentIn(entries, i, outcomes)
    BY <2>1 DEF RecentIn
  <2>. QED
    BY <1>2, <2>1, <2>2 DEF IsCutOff
<1>8. IsCutOff(more, n + 1)
  <2>1. /\ RecentIn(more, n + 1, {"allowed"}) \subseteq Since(more, c)
        /\ RecentIn(more, n + 1, {"allowed", "storm"}) = Since(more, c)
    <3>1. ASSUME NEW j \in 1 .. n + 1 PROVE more[j].outcome \in {"allowed", "storm"}
      <4>1. CASE j = n + 1
        BY <1>5, <4>1
      <4>2. CASE j \in 1 .. n
        <5>1. more[j] = entries[j] /\ entries[j] \in Entries
          BY <1>3, <1>5, <4>2
        <5>. QED
          BY <5>1 DEF Entries
      <4>. QED
        BY <1>3, <4>1, <4>2
    <3>. QED
      BY <1>5, <3>1 DEF RecentIn, Since, c
  <2>2. /\ Cardinality(RecentIn(more, n + 1, {"allowed"})) \in Nat
        /\ Cardinality(RecentIn(more, n + 1, {"allowed"})) <= Len(v)
    BY <1>5, <2>1, FS_Subset, FS_CardinalityType
  <2>3. CASE outcome = "allowed"
    BY <1>4, <1>5, <1>6, <2>2, <2>3 DEF IsCutOff
  <2>4. CASE outcome = "storm"
    BY <1>4, <1>5, <1>6, <2>1, <2>4 DEF IsCutOff
  <2>. QED
    BY <2>3, <2>4
<1>9. \A i \in 1 .. n + 1 : more[i].at <= t /\ IsCutOff(more, i)
  <2> SUFFICES ASSUME NEW i \in 1 .. n + 1 PROVE more[i].at <= t /\ IsCutOff(more, i)
    OBVIOUS
  <2>1. CASE i = n + 1
    BY <1>5, <1>8, <2>1
  <2>2. CASE i \in 1 .. n
    BY <1>2, <1>5, <1>7, <2>2 DEF n
  <2>. QED
    BY <1>3, <2>1, <2>2
<1>. QED
  BY <1>5, <1>9 DEF Fits, v, more, c

\* The guard: a window per key that fits the log of its attempts.
GuardInv ==
    /\ now \in Nat
    /\ windows \in [Keys -> Seq(Nat)]
    /\ log \in [Keys -> Seq(Entries)]
    /\ \A k \in Keys : Fits(windows[k], log[k], now)
    /\ live = "down" => log = NoWindows

LEMMA NothingCounted ==
    ASSUME NEW t \in Nat
    PROVE  /\ NoWindows \in [Keys -> Seq(Nat)] /\ NoWindows \in [Keys -> Seq(Entries)]
           /\ \A k \in Keys : Fits(NoWindows[k], NoWindows[k], t)
<1>1. <<>> \in Seq(Nat) /\ <<>> \in Seq(Entries)
  BY EmptySeq
<1>2. \A k \in Keys : NoWindows[k] = <<>>
  BY DEF NoWindows
<1>. QED
  BY <1>1, <1>2, EmptyFits DEF NoWindows

\* Counting an attempt.
LEMMA CountKeepsGuard ==
    ASSUME GuardInv, NEW k \in Keys, NEW outcome \in {"allowed", "storm"},
           outcome = "allowed" <=> Len(Counted(k)[k]) < DuplicateThreshold,
           live # "down", windows' = Counted(k), Logged(k, outcome), UNCHANGED <<now, live>>
    PROVE  GuardInv'
<1> DEFINE c == Cutoff(now, DuplicateWindow)
           v == Append(Pruned(windows[k], c), now)
           more == Append(log[k], [at |-> now, outcome |-> outcome])
<1>1. /\ now \in Nat /\ windows \in [Keys -> Seq(Nat)] /\ log \in [Keys -> Seq(Entries)]
      /\ \A j \in Keys : Fits(windows[j], log[j], now)
  BY DEF GuardInv
<1>2. /\ windows' = [j \in Keys |-> IF j = k THEN v ELSE Pruned(windows[j], c)]
      /\ Counted(k)[k] = v
  BY DEF Counted
<1>3. log' = [log EXCEPT ![k] = more]
  BY DEF Logged
<1>4. Fits(v, more, now)
  BY <1>1, <1>2, CountingFits
<1>5. \A j \in Keys : Fits(Pruned(windows[j], c), log[j], now)
  BY <1>1, PruningFits
<1> HIDE DEF v, more, c
<1>6. \A j \in Keys : /\ windows'[j] = (IF j = k THEN v ELSE Pruned(windows[j], c))
                      /\ log'[j] = (IF j = k THEN more ELSE log[j])
  BY <1>1, <1>2, <1>3
<1>7. \A j \in Keys : Fits(windows'[j], log'[j], now)
  BY <1>4, <1>5, <1>6
<1>8. windows' \in [Keys -> Seq(Nat)] /\ log' \in [Keys -> Seq(Entries)]
  <2>1. /\ \A j \in Keys : windows'[j] \in Seq(Nat) /\ log'[j] \in Seq(Entries)
        /\ v \in Seq(Nat) /\ \A j \in Keys : Pruned(windows[j], c) \in Seq(Nat)
        /\ more \in Seq(Entries)
    BY <1>4, <1>5, <1>7 DEF Fits
  <2>. QED
    BY <1>1, <1>2, <1>3, <2>1
<1>. QED
  BY <1>1, <1>7, <1>8 DEF GuardInv

LEMMA StepKeepsGuard == GuardInv /\ [Next]_vars => GuardInv'
<1> SUFFICES ASSUME GuardInv, [Next]_vars PROVE GuardInv'
  OBVIOUS
<1> DEFINE Same == UNCHANGED <<now, windows, log>> /\ (live' = "down" => live = "down")
           Emptied == /\ windows' = NoWindows /\ log' = NoWindows
                      /\ UNCHANGED now
<1>1. CASE Same
  BY <1>1 DEF GuardInv
<1>2. CASE Emptied
  BY <1>2, NothingCounted DEF GuardInv
<1>3. CASE Tick
  <2>1. now' = now + 1 /\ now \in Nat /\ now' \in Nat /\ now <= now' /\ UNCHANGED <<live, windows, log>>
    BY <1>3 DEF Tick, guardVars, GuardInv
  <2>. QED
    BY <2>1, TimePasses DEF GuardInv
<1>4. CASE Start
  BY <1>2, <1>4 DEF Start, GuardInv
<1>5. CASE IngressListens
  BY <1>1, <1>5 DEF IngressListens, guardVars
<1>6. CASE Crash
  BY <1>2, <1>6 DEF Crash
<1>7. ASSUME NEW k \in Keys, CheckPaused(k) PROVE GuardInv'
  BY <1>1, <1>7 DEF CheckPaused, vars, guardVars
<1>8. ASSUME NEW k \in Keys, CheckAllowed(k) PROVE GuardInv'
  BY <1>8, CountKeepsGuard DEF CheckAllowed, MayAttempt
<1>9. ASSUME NEW k \in Keys, CheckStorm(k) PROVE GuardInv'
  <2>1. PICK saves \in BOOLEAN : Storm(k, saves)
    BY <1>9 DEF CheckStorm
  <2>2. /\ live # "down" /\ Len(Counted(k)[k]) >= DuplicateThreshold
        /\ windows' = Counted(k) /\ Logged(k, "storm") /\ UNCHANGED <<now, live>>
    BY <2>1 DEF Storm, MayAttempt
  <2>3. Len(Counted(k)[k]) \in Nat /\ DuplicateThreshold \in Nat
    <3>1. /\ now \in Nat /\ Fits(windows[k], log[k], now)
      BY DEF GuardInv
    <3>2. Pruned(windows[k], Cutoff(now, DuplicateWindow)) \in Seq(Nat)
      BY <3>1, PruningFits DEF Fits
    <3>3. Counted(k)[k] \in Seq(Nat)
      BY <3>1, <3>2, AppendProperties DEF Counted
    <3>. QED
      BY <3>3, LenProperties, DeliverySafetyAssumption
  <2>4. ~("storm" = "allowed") /\ ~(Len(Counted(k)[k]) < DuplicateThreshold)
    BY <2>2, <2>3
  <2>. QED
    BY <2>2, <2>4, CountKeepsGuard
<1>10. CASE CliProbe
  BY <1>1, <1>10 DEF CliProbe, guardVars
<1>11. CASE CliAskService
  <2>1. CASE live = "up"
    BY <1>2, <1>11, <2>1 DEF CliAskService
  <2>2. CASE live # "up"
    BY <1>1, <1>11, <2>2 DEF CliAskService, guardVars
  <2>. QED
    BY <2>1, <2>2
<1>12. CASE CliWriteFile
  BY <1>1, <1>12 DEF CliWriteFile, guardVars
<1>13. CASE UNCHANGED vars
  BY <1>1, <1>13 DEF vars, guardVars
<1>. QED
  BY <1>3, <1>4, <1>5, <1>6, <1>7, <1>8, <1>9, <1>10, <1>11, <1>12, <1>13 DEF Next

\* The windows hold what they should from the start.
LEMMA InitialGuard == Init => GuardInv
  BY NothingCounted DEF Init, GuardInv

LEMMA GuardCutsOff == GuardInv => StormsAreCutOff
<1> SUFFICES ASSUME GuardInv, NEW k \in Keys, NEW i \in 1 .. Len(log[k])
             PROVE  IF log[k][i].outcome = "allowed"
                    THEN Cardinality(Recent(k, i, {"allowed"})) < DuplicateThreshold
                    ELSE Cardinality(Recent(k, i, {"allowed", "storm"})) >= DuplicateThreshold
  BY DEF StormsAreCutOff
<1>1. \A outcomes : Recent(k, i, outcomes) = RecentIn(log[k], i, outcomes)
  BY DEF Recent, RecentIn
<1>2. IsCutOff(log[k], i)
  BY DEF GuardInv, Fits
<1>. QED
  BY <1>1, <1>2 DEF IsCutOff

----------------------------------------------------------------------------
\* Folds.

\* The greatest of some numbers up to n.
LEMMA GreatestIs ==
    ASSUME NEW n \in Nat, NEW s \in SUBSET (1 .. n), n \in s
    PROVE  W!Max(s) = n
<1>1. \A x \in s : (\A y \in s : x >= y) => x = n
  OBVIOUS
<1>2. n \in s /\ \A y \in s : n >= y
  OBVIOUS
<1> DEFINE P(x) == x \in s /\ \A y \in s : x >= y
<1>3. P(n) /\ \A x : P(x) => x = n
  BY <1>1, <1>2
<1>4. P(CHOOSE x : P(x))
  BY <1>3, Zenon
<1>5. (CHOOSE x : P(x)) = n
  BY <1>3, <1>4, Zenon
<1>6. W!Max(s) = CHOOSE x : P(x)
  BY DEF W!Max
<1>. QED
  BY <1>5, <1>6

LEMMA GreatestIn ==
    ASSUME NEW n \in Nat, NEW s \in SUBSET (1 .. n), s # {}
    PROVE  W!Max(s) \in s
<1> DEFINE Bounds == {u \in Nat : \A y \in s : y <= u}
<1>1. n \in Bounds /\ Bounds \subseteq Nat
  OBVIOUS
<1>2. PICK u \in Bounds : \A v \in Bounds : u <= v
  BY <1>1, LeastNatural
<1>3. u \in s
  <2> SUFFICES ASSUME u \notin s PROVE FALSE
    OBVIOUS
  <2>1. u \in Nat /\ \A y \in s : y <= u /\ y \in Nat /\ 1 <= y /\ y # u
    BY <1>2
  <2>2. \E y \in s : TRUE
    OBVIOUS
  <2>3. u - 1 \in Nat /\ \A z \in s : z <= u - 1
    BY <2>1, <2>2
  <2>4. u <= u - 1
    BY <1>2, <2>3
  <2>. QED
    BY <2>1, <2>4
<1>4. s \in SUBSET (1 .. u)
  BY <1>2
<1>. QED
  BY <1>2, <1>3, <1>4, GreatestIs

\* The function that a fold over items computes, as the library defines it.
Folds(iter, base, items, S) ==
    iter = [s \in SUBSET S |->
               IF s = {} THEN base ELSE W!TakeItem(iter[s \ {W!Max(s)}], items[W!Max(s)])]

LEMMA FoldExists ==
    ASSUME NEW n \in Nat, NEW base, NEW items
    PROVE  \E iter : Folds(iter, base, items, 1 .. n)
<1> DEFINE T == {m \in Nat : \E iter : Folds(iter, base, items, 1 .. m)}
<1>1. 0 \in T
  <2> DEFINE iter == [s \in SUBSET (1 .. 0) |-> base]
  <2>1. \A s \in SUBSET (1 .. 0) : s = {}
    OBVIOUS
  <2>2. Folds(iter, base, items, 1 .. 0)
    BY <2>1 DEF Folds
  <2>. QED
    BY <2>2
<1>2. ASSUME NEW m \in 1 .. n, m - 1 \in T PROVE m \in T
  <2>1. PICK f : Folds(f, base, items, 1 .. (m - 1))
    BY <1>2
  <2> DEFINE g == [s \in SUBSET (1 .. m) |->
                      IF m \in s THEN W!TakeItem(f[s \ {m}], items[m]) ELSE f[s]]
             Next1(s) == IF s = {} THEN base ELSE W!TakeItem(g[s \ {W!Max(s)}], items[W!Max(s)])
  <2>2. ASSUME NEW s \in SUBSET (1 .. m), m \notin s PROVE s \in SUBSET (1 .. (m - 1)) /\ g[s] = f[s]
    BY <2>2
  <2>3. ASSUME NEW s \in SUBSET (1 .. m) PROVE g[s] = Next1(s)
    <3>1. CASE s = {}
      <4>1. f[s] = base
        BY <2>1, <3>1 DEF Folds
      <4>. QED
        BY <2>2, <3>1, <4>1
    <3>2. CASE s # {} /\ m \notin s
      <4>1. s \in SUBSET (1 .. (m - 1)) /\ g[s] = f[s] /\ m - 1 \in Nat
        BY <2>2, <3>2
      <4>2. W!Max(s) \in s
        BY <3>2, <4>1, GreatestIn
      <4>3. f[s] = W!TakeItem(f[s \ {W!Max(s)}], items[W!Max(s)])
        BY <2>1, <3>2, <4>1 DEF Folds
      <4>4. g[s \ {W!Max(s)}] = f[s \ {W!Max(s)}]
        BY <2>2, <3>2
      <4>. QED
        BY <3>2, <4>1, <4>3, <4>4
    <3>3. CASE m \in s
      <4>1. W!Max(s) = m
        BY <3>3, GreatestIs
      <4>2. g[s \ {m}] = f[s \ {m}]
        BY <2>2
      <4>. QED
        BY <3>3, <4>1, <4>2
    <3>. QED
      BY <3>1, <3>2, <3>3
  <2>4. g = [s \in SUBSET (1 .. m) |-> Next1(s)]
    <3> HIDE DEF Next1
    <3>1. g = [s \in SUBSET (1 .. m) |-> g[s]]
      OBVIOUS
    <3> HIDE DEF g
    <3>. QED
      BY <2>3, <3>1
  <2>5. Folds(g, base, items, 1 .. m)
    BY <2>4 DEF Folds
  <2>. QED
    BY <2>5
<1> HIDE DEF T
<1>3. n \in T
  BY <1>1, <1>2, UpTo
<1>. QED
  BY <1>3 DEF T

\* A fold from left to right takes the items one by one.
LEMMA FoldSteps ==
    ASSUME NEW S, NEW items \in Seq(S), NEW base
    PROVE  \E acc : /\ acc[0] = base
                    /\ \A i \in 1 .. Len(items) : acc[i] = W!TakeItem(acc[i - 1], items[i])
                    /\ acc[Len(items)] = W!FoldLeft(W!TakeItem, base, items)
<1> DEFINE n == Len(items)
           iter == CHOOSE iter : Folds(iter, base, items, DOMAIN items)
           acc == [i \in 0 .. n |-> iter[1 .. i]]
<1>1. n \in Nat /\ DOMAIN items = 1 .. n
  OBVIOUS
<1>2. W!FoldLeft(W!TakeItem, base, items) = iter[DOMAIN items]
  BY DEF W!FoldLeft, W!MapThenFoldSet, Folds
<1>3. Folds(iter, base, items, 1 .. n)
  <2>1. \E it : Folds(it, base, items, DOMAIN items)
    BY <1>1, FoldExists
  <2>2. Folds(iter, base, items, DOMAIN items)
    BY <2>1, Zenon
  <2>. QED
    BY <1>1, <2>2
<1> HIDE DEF iter, n
<1>4. acc[0] = base
  <2>1. 1 .. 0 = {} /\ 0 \in 0 .. n /\ {} \in SUBSET (1 .. n)
    BY <1>1
  <2>2. iter[{}] = base
    BY <1>3, <2>1 DEF Folds
  <2>. QED
    BY <2>1, <2>2
<1>5. ASSUME NEW i \in 1 .. n PROVE acc[i] = W!TakeItem(acc[i - 1], items[i])
  <2>1. 1 .. i \in SUBSET (1 .. n) /\ 1 .. i # {} /\ (1 .. i) \ {i} = 1 .. (i - 1) /\ i \in 1 .. i
    BY <1>1
  <2>2. W!Max(1 .. i) = i
    BY <1>1, <2>1, GreatestIs
  <2>3. iter[1 .. i] = W!TakeItem(iter[(1 .. i) \ {i}], items[i])
    BY <1>3, <2>1, <2>2 DEF Folds
  <2>4. i \in 0 .. n /\ i - 1 \in 0 .. n
    BY <1>1
  <2>. QED
    BY <2>1, <2>3, <2>4
<1>6. acc[n] = W!FoldLeft(W!TakeItem, base, items)
  BY <1>1, <1>2
<1>. QED
  BY <1>4, <1>5, <1>6 DEF n

----------------------------------------------------------------------------
\* The watch.

LEMMA SameFiles == W!Files = Files /\ W!Turns = Turns
  BY DEF W!Files, W!Turns, Files, Turns

\* Flattening a sequence of sequences keeps to their elements.
FlatFrom(flat, seqs) ==
    flat = [i \in 1 .. Len(seqs) |-> IF i = 1 THEN seqs[i] ELSE flat[i - 1] \o seqs[i]]

LEMMA FlatSteps ==
    ASSUME NEW S, NEW seqs \in Seq(Seq(S)), Len(seqs) # 0
    PROVE  \E flat : /\ flat[1] = seqs[1]
                     /\ \A i \in 2 .. Len(seqs) : flat[i] = flat[i - 1] \o seqs[i]
                     /\ flat[Len(seqs)] = W!FlattenSeq(seqs)
<1> DEFINE n == Len(seqs)
           Upto(f, m) == f = [i \in 1 .. m |-> IF i = 1 THEN seqs[i] ELSE f[i - 1] \o seqs[i]]
           T == {m \in Nat : \E f : Upto(f, m)}
<1>1. n \in Nat /\ n >= 1
  BY LenProperties
<1>2. 0 \in T
  <2> DEFINE f == [i \in 1 .. 0 |-> <<>>]
  <2>1. Upto(f, 0)
    OBVIOUS
  <2>. QED
    BY <2>1
<1>3. ASSUME NEW m \in 1 .. n, m - 1 \in T PROVE m \in T
  <2>1. PICK f : Upto(f, m - 1)
    BY <1>3
  <2>2. m \in Nat
    OBVIOUS
  <2> DEFINE e == IF m = 1 THEN seqs[m] ELSE f[m - 1] \o seqs[m]
             g == [i \in 1 .. m |-> IF i = m THEN e ELSE f[i]]
  <2>3. \A i \in 1 .. m : g[i] = IF i = 1 THEN seqs[i] ELSE g[i - 1] \o seqs[i]
    <3> SUFFICES ASSUME NEW i \in 1 .. m
                 PROVE  g[i] = IF i = 1 THEN seqs[i] ELSE g[i - 1] \o seqs[i]
      OBVIOUS
    <3>1. CASE i = m /\ i = 1
      BY <3>1
    <3>2. CASE i = m /\ i # 1
      <4>1. i - 1 \in 1 .. m /\ i - 1 # m
        BY <3>2
      <4>. QED
        BY <3>2, <4>1
    <3>3. CASE i # m
      <4>1. i \in 1 .. m - 1 /\ g[i] = f[i]
        BY <3>3
      <4>2. f[i] = IF i = 1 THEN seqs[i] ELSE f[i - 1] \o seqs[i]
        BY <2>1, <4>1
      <4>3. i # 1 => i - 1 \in 1 .. m /\ i - 1 # m
        BY <4>1
      <4>. QED
        BY <4>1, <4>2, <4>3
    <3>. QED
      BY <3>1, <3>2, <3>3
  <2> DEFINE R(i) == IF i = 1 THEN seqs[i] ELSE g[i - 1] \o seqs[i]
  <2>4. g = [i \in 1 .. m |-> R(i)]
    <3>1. \A i \in 1 .. m : g[i] = R(i)
      BY <2>3
    <3> HIDE DEF R
    <3>2. g = [i \in 1 .. m |-> g[i]]
      OBVIOUS
    <3> HIDE DEF g
    <3>. QED
      BY <3>1, <3>2
  <2>5. Upto(g, m)
    BY <2>4
  <2>. QED
    BY <2>2, <2>5
<1>4. \E f : Upto(f, n)
  <2>1. n \in Nat /\ n \in 0 .. n
    BY <1>1
  <2> HIDE DEF T, n
  <2>2. n \in T
    BY <1>2, <1>3, <2>1, UpTo
  <2>. QED
    BY <2>2 DEF T
<1>5. \E f : FlatFrom(f, seqs)
  BY <1>4 DEF FlatFrom
<1> DEFINE flat == CHOOSE f : FlatFrom(f, seqs)
<1>6. FlatFrom(flat, seqs)
  BY <1>5, Zenon
<1>7. W!FlattenSeq(seqs) = flat[n]
  <2>1. W!FlattenSeq(seqs) = IF Len(seqs) = 0 THEN seqs ELSE flat[Len(seqs)]
    BY DEF W!FlattenSeq, FlatFrom
  <2>. QED
    BY <2>1
<1> HIDE DEF flat
<1>8. flat[1] = seqs[1] /\ \A i \in 2 .. n : flat[i] = flat[i - 1] \o seqs[i]
  <2>1. \A i \in 1 .. n : flat[i] = IF i = 1 THEN seqs[i] ELSE flat[i - 1] \o seqs[i]
    BY <1>6 DEF FlatFrom
  <2>2. 1 \in 1 .. n /\ \A i \in 2 .. n : i \in 1 .. n /\ i # 1
    BY <1>1
  <2> HIDE DEF n
  <2>. QED
    BY <2>1, <2>2
<1>. QED
  BY <1>7, <1>8

LEMMA FlatIn ==
    ASSUME NEW S, NEW seqs \in Seq(Seq(S))
    PROVE  W!FlattenSeq(seqs) \in Seq(S)
<1>1. CASE Len(seqs) = 0
  <2>1. seqs = <<>> /\ W!FlattenSeq(seqs) = seqs
    BY <1>1, EmptySeq DEF W!FlattenSeq
  <2>. QED
    BY <2>1, EmptySeq
<1>2. CASE Len(seqs) # 0
  <2>1. PICK flat : /\ flat[1] = seqs[1]
                    /\ \A i \in 2 .. Len(seqs) : flat[i] = flat[i - 1] \o seqs[i]
                    /\ flat[Len(seqs)] = W!FlattenSeq(seqs)
    BY <1>2, FlatSteps
  <2> DEFINE n == Len(seqs)
             T == {m \in Nat : m = 0 \/ flat[m] \in Seq(S)}
  <2>2. n \in Nat /\ n >= 1 /\ \A i \in 1 .. n : seqs[i] \in Seq(S)
    BY <1>2, LenProperties
  <2> HIDE DEF n
  <2>3. ASSUME NEW m \in 1 .. n, m - 1 \in T PROVE m \in T
    <3>1. CASE m = 1
      BY <2>1, <2>2, <3>1
    <3>2. CASE m # 1
      <4>1. flat[m - 1] \in Seq(S) /\ seqs[m] \in Seq(S)
        BY <2>2, <2>3, <3>2
      <4>2. m \in 2 .. n
        BY <2>2, <3>2
      <4>3. flat[m] = flat[m - 1] \o seqs[m]
        BY <2>1, <4>2 DEF n
      <4>4. flat[m] \in Seq(S)
        BY <4>1, <4>3, ConcatProperties
      <4>. QED
        BY <4>4
    <3>. QED
      BY <3>1, <3>2
  <2>4. 0 \in T /\ n \in 0 .. n
    BY <2>2
  <2> HIDE DEF T
  <2>5. n \in T
    BY <2>2, <2>3, <2>4, UpTo
  <2>. QED
    BY <2>1, <2>2, <2>5 DEF T, n
<1>. QED
  BY <1>1, <1>2

\* The shapes of what the watch reads and keeps.
Lines == [is : {"asked", "done"}, turn : Turns]
Signals == [turn : Turns, prompt : Turns \cup {0}]
PromptsByFile == [Files -> Turns \cup {0}]
WatchStates == [offset : [Files -> Nat], delivered : SUBSET Turns]
Batches == [signals : Seq(Signals), next : WatchStates, pending : PromptsByFile]

OwnLines(held) ==
    \A f \in Files : \A i \in 1 .. Len(held[f]) : FileOf[held[f][i].turn] = f

FilesFit ==
    /\ lines \in [Files -> Seq(Lines)]
    /\ half \in [Files -> Turns \cup {0}]
    /\ here \subseteq Files
    /\ \A f \in Files : half[f] # 0 => FileOf[half[f]] = f
    /\ OwnLines(lines)

WatchFits ==
    /\ watch \in {"off", "ready", "indexed", "routing"}
    /\ state \in WatchStates /\ watchSaved \in WatchStates
    /\ pending \in PromptsByFile
    /\ batch \in Batches
    /\ index \subseteq Turns /\ recorded \subseteq Turns
    /\ routed \in [Turns -> Nat]

\* A step of the watch and of those who write the files, or none of theirs.
WatchMoves == W!Next \/ UNCHANGED watcherVars

\* The numbers of files and turns.
LEMMA Numbers ==
    /\ NumFiles \in Nat /\ NumTurns \in Nat
    /\ 0 \notin Turns /\ Turns \subseteq Nat
    /\ FileOf \in [Turns -> Files] /\ ReplyTurns \subseteq Turns
    /\ MaxDelivered \in Nat \ {0}
  BY NotificationsAssumption, SameFiles DEF W!WatcherAssumption, Turns

LEMMA NothingRead ==
    /\ W!NoState \in WatchStates /\ W!NoPrompts \in PromptsByFile /\ W!NoBatch \in Batches
<1>1. W!NoState \in WatchStates
  BY SameFiles DEF W!NoState, WatchStates
<1>2. W!NoPrompts \in PromptsByFile
  BY SameFiles DEF W!NoPrompts, PromptsByFile
<1>3. <<>> \in Seq(Signals)
  BY EmptySeq
<1>. QED
  BY <1>1, <1>2, <1>3 DEF W!NoBatch, Batches

\* What the files hold stays in shape when a line is appended to a file.
LEMMA AppendFits ==
    ASSUME NEW g \in Files, NEW line \in Lines, FilesFit, FileOf[line.turn] = g,
           NEW more, more = [lines EXCEPT ![g] = Append(lines[g], line)]
    PROVE  more \in [Files -> Seq(Lines)] /\ OwnLines(more)
<1>2. /\ lines \in [Files -> Seq(Lines)] /\ lines[g] \in Seq(Lines)
      /\ \A f \in Files : \A i \in 1 .. Len(lines[f]) : FileOf[lines[f][i].turn] = f
  BY DEF FilesFit, OwnLines
<1>3. /\ Append(lines[g], line) \in Seq(Lines)
      /\ Len(lines[g]) \in Nat
      /\ Len(Append(lines[g], line)) = Len(lines[g]) + 1
      /\ \A i \in 1 .. Len(lines[g]) : Append(lines[g], line)[i] = lines[g][i]
      /\ Append(lines[g], line)[Len(lines[g]) + 1] = line
  BY <1>2, AppendProperties, LenProperties
<1>4. /\ more \in [Files -> Seq(Lines)]
      /\ \A f \in Files : more[f] = IF f = g THEN Append(lines[g], line) ELSE lines[f]
  BY <1>2, <1>3
<1>5. ASSUME NEW f \in Files, NEW i \in 1 .. Len(more[f]) PROVE FileOf[more[f][i].turn] = f
  <2>1. CASE f # g
    BY <1>2, <1>4, <1>5, <2>1
  <2>2. CASE f = g /\ i \in 1 .. Len(lines[g])
    BY <1>2, <1>3, <1>4, <2>2
  <2>3. CASE f = g /\ i = Len(lines[g]) + 1
    BY <1>3, <1>4, <2>3
  <2>. QED
    BY <1>3, <1>4, <1>5, <2>1, <2>2, <2>3
<1>. QED
  BY <1>4, <1>5 DEF OwnLines

\* Nobody writes a line that is not one, or to another session's file.
LEMMA StepKeepsFiles == FilesFit /\ WatchMoves => FilesFit'
<1> SUFFICES ASSUME FilesFit, WatchMoves PROVE FilesFit'
  OBVIOUS
<1>1. CASE UNCHANGED <<lines, half>> /\ here' \subseteq Files
  BY <1>1 DEF FilesFit
<1>2. ASSUME NEW t \in Turns, W!RecordReplyTurn(t) PROVE FilesFit'
  BY <1>1, <1>2 DEF W!RecordReplyTurn, W!fileVars, FilesFit
<1>3. ASSUME NEW t \in Turns, W!Ask(t) PROVE FilesFit'
  <2>1. /\ lines' = [lines EXCEPT ![FileOf[t]] = Append(@, [is |-> "asked", turn |-> t])]
        /\ UNCHANGED <<half, here>>
    BY <1>3 DEF W!Ask, W!Asked
  <2>2. PICK g \in Files : g = FileOf[t]
    BY Numbers
  <2> DEFINE line == [is |-> "asked", turn |-> t]
  <2>3. /\ lines' = [lines EXCEPT ![g] = Append(lines[g], line)]
        /\ line \in Lines /\ FileOf[line.turn] = g
    BY <2>1, <2>2 DEF Lines
  <2> HIDE DEF line
  <2>4. lines' \in [Files -> Seq(Lines)] /\ OwnLines(lines')
    BY <2>3, AppendFits
  <2>. QED
    BY <2>1, <2>4 DEF FilesFit
<1>4. ASSUME NEW t \in Turns, W!BeginLine(t) PROVE FilesFit'
  <2>1. half' = [half EXCEPT ![FileOf[t]] = t] /\ UNCHANGED <<lines, here>>
    BY <1>4 DEF W!BeginLine
  <2>. QED
    BY <2>1, Numbers DEF FilesFit
<1>5. ASSUME NEW f \in Files, W!FinishLine(f) PROVE FilesFit'
  <2> DEFINE t == half[f]
  <2>1. /\ lines' = [lines EXCEPT ![f] = Append(@, [is |-> "done", turn |-> t])]
        /\ half' = [half EXCEPT ![f] = 0] /\ here' = here /\ t # 0
    BY <1>5 DEF W!FinishLine, W!Done
  <2>2. t \in Turns /\ FileOf[t] = f
    BY <2>1 DEF FilesFit
  <2>3. half' \in [Files -> Turns \cup {0}] /\ \A g \in Files : half'[g] # 0 => FileOf[half'[g]] = g
    BY <2>1 DEF FilesFit
  <2> HIDE DEF t
  <2> DEFINE line == [is |-> "done", turn |-> t]
  <2>4. /\ lines' = [lines EXCEPT ![f] = Append(lines[f], line)]
        /\ line \in Lines /\ FileOf[line.turn] = f
    BY <2>1, <2>2 DEF Lines
  <2> HIDE DEF line
  <2>5. lines' \in [Files -> Seq(Lines)] /\ OwnLines(lines')
    BY <2>4, AppendFits
  <2>. QED
    BY <2>1, <2>3, <2>5 DEF FilesFit
<1>6. ASSUME NEW f \in Files, W!Disappear(f) \/ W!Reappear(f) PROVE FilesFit'
  BY <1>1, <1>6, SameFiles DEF W!Disappear, W!Reappear, FilesFit
<1>7. ASSUME NEW f \in Files, NEW k \in 0 .. 2 * NumTurns, W!Rewrite(f, k) PROVE FilesFit'
  <2>1. /\ k < Len(lines[f]) /\ lines' = [lines EXCEPT ![f] = SubSeq(@, 1, k)]
        /\ half' = [half EXCEPT ![f] = 0] /\ here' = here
    BY <1>7 DEF W!Rewrite
  <2>2. lines[f] \in Seq(Lines) /\ Len(lines[f]) \in Nat /\ k \in Int
    BY LenProperties, Numbers DEF FilesFit
  <2> DEFINE short == SubSeq(lines[f], 1, k)
  <2>3. \A i \in 1 .. k : lines[f][i] \in Lines
    BY <2>1, <2>2, ElementOfSeq
  <2>4. /\ short \in Seq(Lines) /\ Len(short) = (IF 1 <= k THEN k - 1 + 1 ELSE 0)
        /\ \A i \in 1 .. k - 1 + 1 : short[i] = lines[f][1 + i - 1]
    BY <2>2, <2>3, SubSeqProperties
  <2> HIDE DEF short
  <2>5. Len(short) = k /\ \A i \in 1 .. k : short[i] = lines[f][i]
    <3>1. k \in Nat /\ k - 1 + 1 = k /\ \A i \in 1 .. k : 1 + i - 1 = i
      BY <2>2, Numbers
    <3>. QED
      BY <2>4, <3>1
  <2>6. /\ lines' \in [Files -> Seq(Lines)]
        /\ \A g \in Files : lines'[g] = IF g = f THEN short ELSE lines[g]
    BY <2>1, <2>4 DEF FilesFit, short
  <2>7. OwnLines(lines')
    <3> SUFFICES ASSUME NEW g \in Files, NEW i \in 1 .. Len(lines'[g])
                 PROVE  FileOf[lines'[g][i].turn] = g
      BY DEF OwnLines
    <3>1. CASE g = f
      <4>1. i \in 1 .. k /\ i \in 1 .. Len(lines[f])
        BY <2>1, <2>2, <2>5, <2>6, <3>1
      <4>. QED
        BY <2>5, <2>6, <3>1, <4>1 DEF FilesFit, OwnLines
    <3>2. CASE g # f
      BY <2>6, <3>2 DEF FilesFit, OwnLines
    <3>. QED
      BY <3>1, <3>2
  <2>8. half' \in [Files -> Turns \cup {0}] /\ \A g \in Files : half'[g] # 0 => FileOf[half'[g]] = g
    BY <2>1 DEF FilesFit
  <2>. QED
    BY <2>1, <2>6, <2>7, <2>8 DEF FilesFit
<1>8. CASE UNCHANGED W!fileVars
  BY <1>1, <1>8 DEF W!fileVars, FilesFit
<1>9. CASE W!WatchStep \/ W!SwitchPrompts \/ W!StopWatch \/ W!Crash
  BY <1>8, <1>9 DEF W!WatchStep, W!StartWatch, W!ReadIndex, W!ReadFiles, W!RouteNext, W!Commit,
     W!SwitchPrompts, W!StopWatch, W!Crash, W!fileVars
<1>10. CASE UNCHANGED watcherVars
  BY <1>8, <1>10 DEF watcherVars, W!fileVars
<1>. QED
  BY <1>2, <1>3, <1>4, <1>5, <1>6, <1>7, <1>9, <1>10, SameFiles DEF WatchMoves, W!Next

\* What a poll has gathered.
Gathered == [delivered : SUBSET Turns, signals : Seq(Signals), pending : PromptsByFile]

LEMMA TakeItemFits ==
    ASSUME NEW acc \in Gathered, NEW line \in Lines
    PROVE  W!TakeItem(acc, line) \in Gathered
<1> DEFINE t == line.turn
           f == FileOf[t]
<1>1. /\ t \in Turns /\ f \in Files
      /\ acc.delivered \subseteq Turns /\ acc.signals \in Seq(Signals)
      /\ acc.pending \in [Files -> Turns \cup {0}]
      /\ acc = [delivered |-> acc.delivered, signals |-> acc.signals, pending |-> acc.pending]
  BY Numbers DEF Lines, Gathered, PromptsByFile
<1> DEFINE Used(p) == [acc EXCEPT !.pending[f] = p]
<1>2. ASSUME NEW p \in Turns \cup {0} PROVE Used(p) \in Gathered
  <2>1. [acc.pending EXCEPT ![f] = p] \in [Files -> Turns \cup {0}]
    BY <1>1
  <2>2. Used(p) = [acc EXCEPT !.pending = [acc.pending EXCEPT ![f] = p]]
    BY <1>1
  <2>. QED
    BY <1>1, <2>1, <2>2 DEF Gathered, PromptsByFile
<1>3. W!UsedUp(acc, t) \in Gathered
  <2>1. CASE prompts
    BY <1>2, <2>1 DEF W!UsedUp
  <2>2. CASE ~prompts
    BY <2>2 DEF W!UsedUp
  <2>. QED
    BY <2>1, <2>2
<1>4. ASSUME NEW a \in Gathered PROVE W!Deliver(a, t) \in Gathered
  <2>1. W!Evicted(a.delivered \cup {t}) \subseteq Turns
    BY <1>1 DEF W!Evicted, Gathered
  <2>2. W!Deliver(a, t) = [a EXCEPT !.delivered = W!Evicted(a.delivered \cup {t})]
    BY DEF W!Deliver
  <2>. QED
    BY <2>1, <2>2 DEF Gathered
<1>5. W!Announce(acc, t) \in Gathered
  <2>1. W!Draft(acc, t) \in Signals
    BY <1>1 DEF W!Draft, Signals
  <2>2. PICK a \in Gathered : a = W!Deliver(W!UsedUp(acc, t), t)
    BY <1>3, <1>4
  <2>3. PICK d \in Signals : d = W!Draft(acc, t)
    BY <2>1
  <2>4. W!Announce(acc, t) = [a EXCEPT !.signals = Append(a.signals, d)]
    BY <2>2, <2>3 DEF W!Announce
  <2>5. a.signals \in Seq(Signals)
    BY DEF Gathered
  <2>6. Append(a.signals, d) \in Seq(Signals)
    BY <2>5, AppendProperties
  <2>. QED
    BY <2>4, <2>6 DEF Gathered
<1>6. W!TakeTurn(acc, t) \in Gathered
  <2>1. W!Deliver(W!UsedUp(acc, t), t) \in Gathered
    BY <1>3, <1>4
  <2>. QED
    BY <1>3, <1>5, <2>1 DEF W!TakeTurn
<1>7. line.is = "asked" => [acc EXCEPT !.pending[FileOf[line.turn]] = line.turn] \in Gathered
  BY <1>1, <1>2
<1>. QED
  BY <1>6, <1>7 DEF W!TakeItem

\* What is new in a file.
LEMMA NewLinesFit ==
    ASSUME FilesFit, WatchFits, NEW f \in Files
    PROVE  W!NewLines(f) \in Seq(Lines)
<1>1. lines[f] \in Seq(Lines) /\ Len(lines[f]) \in Nat /\ state.offset[f] \in Nat
  BY LenProperties DEF FilesFit, WatchFits, WatchStates
<1>2. PICK a \in Nat : a = W!From(f)
  BY <1>1 DEF W!From
<1>3. \A i \in a + 1 .. Len(lines[f]) : lines[f][i] \in Lines
  BY <1>1, <1>2, ElementOfSeq
<1>4. a + 1 \in Int /\ Len(lines[f]) \in Int
  BY <1>1
<1>5. SubSeq(lines[f], a + 1, Len(lines[f])) \in Seq(Lines)
  BY <1>3, <1>4, SubSeqProperties
<1>6. <<>> \in Seq(Lines)
  BY EmptySeq
<1>. QED
  BY <1>2, <1>5, <1>6 DEF W!NewLines

\* All that is new, in the order in which it is read.
News == W!FlattenSeq([f \in W!Files |-> W!NewLines(f)])
Before == [delivered |-> state.delivered, signals |-> <<>>, pending |-> pending]

LEMMA NewsFit ==
    ASSUME FilesFit, WatchFits
    PROVE  News \in Seq(Lines) /\ Before \in Gathered
<1>1. \A f \in 1 .. NumFiles : W!NewLines(f) \in Seq(Lines)
  BY NewLinesFit DEF Files
<1>2. [f \in 1 .. NumFiles |-> W!NewLines(f)] \in Seq(Seq(Lines))
  BY <1>1, Numbers
<1>3. News \in Seq(Lines)
  BY <1>2, FlatIn DEF News, W!Files
<1>4. <<>> \in Seq(Signals)
  BY EmptySeq
<1>. QED
  BY <1>3, <1>4 DEF Before, Gathered, WatchFits, WatchStates

\* What a poll has gathered after each of its lines.
Gathers(acc, n) ==
    /\ acc[0] = Before
    /\ \A i \in 1 .. n : acc[i] = W!TakeItem(acc[i - 1], News[i])

LEMMA PollGathers ==
    ASSUME FilesFit, WatchFits
    PROVE  \E acc : /\ Gathers(acc, Len(News))
                    /\ acc[Len(News)] = W!FoldLeft(W!TakeItem, Before, News)
                    /\ \A i \in 0 .. Len(News) : acc[i] \in Gathered
<1> DEFINE n == Len(News)
<1>1. News \in Seq(Lines) /\ n \in Nat
  BY NewsFit, LenProperties
<1>2. PICK acc : /\ acc[0] = Before
                 /\ \A i \in 1 .. n : acc[i] = W!TakeItem(acc[i - 1], News[i])
                 /\ acc[n] = W!FoldLeft(W!TakeItem, Before, News)
  BY <1>1, FoldSteps
<1>3. \A i \in 0 .. n : acc[i] \in Gathered
  <2> DEFINE T == {i \in Nat : acc[i] \in Gathered}
  <2>1. 0 \in T
    BY <1>2, NewsFit
  <2>2. ASSUME NEW m \in 1 .. n, m - 1 \in T PROVE m \in T
    <3>1. acc[m - 1] \in Gathered /\ News[m] \in Lines /\ m \in Nat
      BY <1>1, <2>2, ElementOfSeq
    <3>2. acc[m] \in Gathered
      BY <1>2, <3>1, TakeItemFits
    <3>. QED
      BY <3>1, <3>2
  <2> HIDE DEF T, n
  <2>3. \A i \in 0 .. n : i \in T
    BY <1>1, <2>1, <2>2, UpTo
  <2>. QED
    BY <2>3 DEF T
<1>. QED
  BY <1>2, <1>3 DEF Gathers

\* What the watch reads and keeps stays in shape.
LEMMA StepKeepsWatch == FilesFit /\ WatchFits /\ WatchMoves => WatchFits'
<1> SUFFICES ASSUME FilesFit, WatchFits, WatchMoves PROVE WatchFits'
  OBVIOUS
<1> DEFINE Same == UNCHANGED <<watch, state, watchSaved, pending, batch, index, routed>>
<1>1. CASE Same /\ recorded' \subseteq Turns
  BY <1>1 DEF WatchFits
<1>2. recorded \subseteq Turns
  BY DEF WatchFits
<1>3. ASSUME NEW t \in Turns, W!RecordReplyTurn(t) PROVE WatchFits'
  BY <1>1, <1>2, <1>3 DEF W!RecordReplyTurn, W!watchVars, W!historyVars
<1>4. ASSUME NEW t \in Turns, W!Ask(t) \/ W!BeginLine(t) PROVE WatchFits'
  BY <1>1, <1>2, <1>4 DEF W!Ask, W!BeginLine, W!watchVars, W!historyVars
<1>5. ASSUME NEW f \in Files, W!FinishLine(f) PROVE WatchFits'
  BY <1>1, <1>2, <1>5 DEF W!FinishLine, W!watchVars
<1>6. ASSUME NEW f \in Files, W!Disappear(f) \/ W!Reappear(f) PROVE WatchFits'
  BY <1>1, <1>2, <1>6 DEF W!Disappear, W!Reappear, W!watchVars, W!historyVars
<1>7. ASSUME NEW f \in Files, NEW k \in 0 .. 2 * NumTurns, W!Rewrite(f, k) PROVE WatchFits'
  BY <1>1, <1>2, <1>7 DEF W!Rewrite, W!watchVars
<1>8. CASE W!SwitchPrompts
  BY <1>1, <1>2, <1>8 DEF W!SwitchPrompts, W!watchVars, W!historyVars
<1>9. CASE W!StartWatch
  <2>1. W!Baseline \in WatchStates
    <3>1. \A f \in Files : (IF f \in here THEN Len(lines[f]) ELSE watchSaved.offset[f]) \in Nat
      BY LenProperties DEF FilesFit, WatchFits, WatchStates
    <3>2. [f \in Files |-> IF f \in here THEN Len(lines[f]) ELSE watchSaved.offset[f]] \in [Files -> Nat]
      BY <3>1
    <3>3. W!Baseline = [watchSaved EXCEPT !.offset =
                 [f \in Files |-> IF f \in here THEN Len(lines[f]) ELSE watchSaved.offset[f]]]
      BY SameFiles DEF W!Baseline
    <3>. QED
      BY <3>2, <3>3 DEF WatchFits, WatchStates
  <2>. QED
    BY <1>9, <2>1 DEF W!StartWatch, W!historyVars, WatchFits
<1>10. CASE W!StopWatch
  BY <1>10, NothingRead DEF W!StopWatch, WatchFits
<1>11. CASE W!ReadIndex
  BY <1>11 DEF W!ReadIndex, W!historyVars, WatchFits
<1>12. CASE W!ReadFiles
  <2>1. PICK taken \in Gathered : taken = W!FoldLeft(W!TakeItem, Before, News)
    <3>1. Len(News) \in 0 .. Len(News)
      BY NewsFit, LenProperties
    <3>. QED
      BY <3>1, PollGathers
  <2>2. /\ batch' = [signals |-> taken.signals,
                     next    |-> [offset    |-> [f \in W!Files |-> W!NextOffset(f)],
                                  delivered |-> taken.delivered],
                     pending |-> taken.pending]
        /\ watch' = "routing" /\ index' = {}
        /\ UNCHANGED <<recorded, state, pending, watchSaved, routed>>
    BY <1>12, <2>1 DEF W!ReadFiles, News, Before
  <2>3. [f \in W!Files |-> W!NextOffset(f)] \in [Files -> Nat]
    <3>1. \A f \in Files : W!NextOffset(f) \in Nat
      BY LenProperties DEF W!NextOffset, FilesFit, WatchFits, WatchStates
    <3>. QED
      BY <3>1, SameFiles
  <2>4. batch' \in Batches
    BY <2>2, <2>3 DEF Gathered, Batches, WatchStates
  <2>. QED
    BY <2>2, <2>4 DEF WatchFits
<1>13. CASE W!RouteNext
  <2>1. /\ batch.signals # <<>> /\ batch' = [batch EXCEPT !.signals = Tail(batch.signals)]
        /\ routed' = [routed EXCEPT ![Head(batch.signals).turn] = @ + 1]
        /\ UNCHANGED <<recorded, watch, index, state, pending, watchSaved>>
    BY <1>13 DEF W!RouteNext
  <2>2. Tail(batch.signals) \in Seq(Signals)
    BY <2>1, HeadTailProperties DEF WatchFits, Batches
  <2>3. batch' \in Batches
    BY <2>1, <2>2 DEF WatchFits, Batches
  <2>4. routed' \in [Turns -> Nat]
    <3>1. Head(batch.signals) \in Signals
      BY <2>1, HeadTailProperties DEF WatchFits, Batches
    <3>2. PICK t \in Turns : t = Head(batch.signals).turn
      BY <3>1 DEF Signals
    <3>3. routed' = [routed EXCEPT ![t] = routed[t] + 1]
      BY <2>1, <3>2
    <3>. QED
      BY <3>3 DEF WatchFits
  <2>. QED
    BY <2>1, <2>3, <2>4 DEF WatchFits
<1>14. CASE W!Commit
  <2>1. batch.next \in WatchStates /\ batch.pending \in PromptsByFile
    BY DEF WatchFits, Batches
  <2>. QED
    BY <1>14, <2>1, NothingRead DEF W!Commit, W!Remember, W!historyVars, WatchFits
<1>15. CASE W!Crash
  BY <1>15, NothingRead DEF W!Crash, WatchFits
<1>16. CASE UNCHANGED watcherVars
  BY <1>1, <1>2, <1>16 DEF watcherVars
<1>. QED
  BY <1>3, <1>4, <1>5, <1>6, <1>7, <1>8, <1>9, <1>10, <1>11, <1>12, <1>13, <1>14, <1>15, <1>16,
     SameFiles DEF WatchMoves, W!Next, W!WatchStep

----------------------------------------------------------------------------
\* The composition: what the steps of the whole are to the watch and to the guard.

\* The watch's part of every step is one of its own.
LEMMA StepsOfWatch == [NotifyNext]_nvars => WatchMoves
<1> SUFFICES ASSUME [NotifyNext]_nvars PROVE WatchMoves
  OBVIOUS
<1> USE SameFiles
<1>1. CASE UNCHANGED watcherVars
  BY <1>1 DEF WatchMoves
<1>2. ASSUME NEW m \in Messages, Emit(m) \/ Prompt(m) \/ StopTurn(m) PROVE WatchMoves
  BY <1>1, <1>2 DEF Emit, Prompt, StopTurn
<1>3. ASSUME NEW t \in Turns, RunStopHook(t) PROVE WatchMoves
  BY <1>1, <1>3 DEF RunStopHook
<1>4. ASSUME NEW t \in Turns, Ask(t) \/ BeginLine(t) PROVE WatchMoves
  BY <1>4 DEF Ask, BeginLine, WatchMoves, W!Next
<1>5. ASSUME NEW f \in Files, FinishLine(f) PROVE WatchMoves
  BY <1>5 DEF FinishLine, WatchMoves, W!Next
<1>6. CASE Recorded
  <2>1. PICK t : W!RecordReplyTurn(t)
    BY <1>6 DEF Recorded
  <2>2. t \in Turns
    BY <2>1, Numbers DEF W!RecordReplyTurn
  <2>. QED
    BY <2>1, <2>2 DEF WatchMoves, W!Next
<1>7. CASE Disturb
  <2>1. CASE W!SwitchPrompts
    BY <2>1 DEF WatchMoves, W!Next
  <2>2. ASSUME NEW f \in Files, W!Disappear(f) PROVE WatchMoves
    BY <2>2 DEF WatchMoves, W!Next
  <2>3. ASSUME NEW f \in Files, NEW n \in 0 .. NumTurns, W!Rewrite(f, n) PROVE WatchMoves
    <3>1. n \in 0 .. 2 * NumTurns
      BY Numbers
    <3>. QED
      BY <2>3, <3>1 DEF WatchMoves, W!Next
  <2>. QED
    BY <1>7, <2>1, <2>2, <2>3 DEF Disturb
<1>8. CASE Reappear
  BY <1>8 DEF Reappear, WatchMoves, W!Next
<1>9. CASE StartWatch \/ StopWatch \/ Poll \/ RouteSignal \/ Commit
  BY <1>9 DEF StartWatch, StopWatch, Poll, RouteSignal, Commit, WatchMoves, W!Next, W!WatchStep
<1>10. CASE SignalRouted
  BY <1>1, <1>10 DEF SignalRouted
<1>11. ASSUME NEW task, Deliver(task) PROVE WatchMoves
  BY <1>1, <1>11 DEF Deliver, Offer, Send
<1>12. CASE ServeTurnStart \/ ServeClaudeStop
  BY <1>1, <1>12 DEF ServeTurnStart, ServeClaudeStop
<1>13. CASE ServeCodexStop \/ ServeEmitted \/ Answer
  BY <1>1, <1>13 DEF ServeCodexStop, ServeEmitted, Answer
<1>14. CASE StartService \/ OpenIngress
  BY <1>1, <1>14 DEF StartService, OpenIngress
<1>15. CASE Die
  BY <1>1, <1>15 DEF Die, WatchMoves, W!Next
<1>16. CASE SwitchSource \/ Reload \/ Clock \/ ResetCommand
  BY <1>1, <1>16 DEF SwitchSource, Reload, Clock, ResetCommand
<1>17. CASE UNCHANGED nvars
  BY <1>1, <1>17 DEF nvars
<1>. QED
  BY <1>2, <1>3, <1>4, <1>5, <1>6, <1>7, <1>8, <1>9, <1>10, <1>11, <1>12, <1>13, <1>14, <1>15,
     <1>16, <1>17 DEF NotifyNext, WatcherStep, IngressStep

\* The shapes of what the router and the ingress keep.  A job is a message with the
\* targets that are left and what came of the others, which is told truly.
Requests ==
    [from : Emitted, asks : {"emitted"}, at : 0 .. MaxTime]
        \cup [from : Sessions, asks : {"turn_start", "claude_code"}, at : 0 .. MaxTime]
        \cup [from : {TurnMessage[t] : t \in Turns}, asks : {"codex_cli"}, at : 0 .. MaxTime]

Results ==
    {r \in [target : Targets, result : {"sent", "failed", "suppressed"}, taken : BOOLEAN] :
        r.result = "sent" /\ platform[r.target] \in Exact => r.taken}

Jobs ==
    {j \in [message : Messages, left : Seq(Targets), sending : BOOLEAN, done : Seq(Results)] :
        j.sending => j.left # <<>>}

Shapes ==
    /\ scene \in Scene
    /\ now \in 0 .. MaxTime
    /\ platform \in [Targets -> Types]
    /\ queue \in Seq(Requests)
    /\ job \in [Tasks -> Jobs \cup {NoJob}]
    /\ starts \in [Sessions -> 0 .. NoTime]
    /\ session \in [Sessions -> [since : 0 .. NoTime, heard : BOOLEAN]]
    /\ job["ingress"] # NoJob => queue # <<>>

LEMMA SceneIs ==
    ASSUME NEW s \in Scene
    PROVE  s.answers \subseteq Answers /\ s.route \in [Kinds -> Seq(Targets)]
           /\ s.platforms \subseteq [Targets -> Types]
  BY DEF Scene

\* A provider whose word can be relied on says that it has taken what it has.
LEMMA ExactIsExact ==
    ASSUME NEW type \in Exact, NEW reply \in Answers, Sent(type, reply)
    PROVE  reply.taken
<1>1. Welcome[type] = {"accepts"}
  BY DEF Exact, Welcome, Slack, Discord, Telegram, Pushover, FeishuLark, EmailSmtp
<1>2. reply.status = "success" /\ reply.body = "accepts"
  BY <1>1 DEF Sent
<1>. QED
  BY <1>2 DEF Answers

\* A request is from one of the three kinds of callers.
LEMMA CallersAre ==
    /\ \A m \in Emitted, t \in 0 .. MaxTime : [from |-> m, asks |-> "emitted", at |-> t] \in Requests
    /\ \A s \in Sessions, t \in 0 .. MaxTime, asks \in {"turn_start", "claude_code"} :
           [from |-> s, asks |-> asks, at |-> t] \in Requests
    /\ \A u \in Turns, t \in 0 .. MaxTime :
           [from |-> TurnMessage[u], asks |-> "codex_cli", at |-> t] \in Requests
    /\ \A r \in Requests :
           /\ r.from \in Messages /\ r.at \in 0 .. MaxTime
           /\ r.asks \in {"emitted", "turn_start", "claude_code", "codex_cli"}
           /\ r.asks = "emitted" => r.from \in Emitted
           /\ r.asks \in {"turn_start", "claude_code"} <=> r.from \in Sessions
           /\ r.asks = "codex_cli" => \E u \in Turns : r.from = TurnMessage[u]
  BY NotificationsAssumption DEF Requests

LEMMA NoJobIsNone == NoJob \notin Jobs /\ \A j \in Jobs : j # NoJob
  BY NotificationsAssumption DEF NoJob, Jobs

\* A job begins with every target of its route.
LEMMA JobBegins ==
    ASSUME Shapes, NEW m \in Messages, NEW kind \in Kinds
    PROVE  Job(m, kind) \in Jobs
<1>1. scene.route[kind] \in Seq(Targets) /\ <<>> \in Seq(Results)
  BY SceneIs, EmptySeq DEF Shapes
<1>2. PICK route \in Seq(Targets) : route = scene.route[kind]
  BY <1>1
<1>3. Job(m, kind) = [NoJob EXCEPT !.message = m, !.left = route]
  BY <1>2 DEF Job
<1>4. Job(m, kind) = [message |-> m, left |-> route, sending |-> FALSE, done |-> <<>>]
  BY <1>3 DEF NoJob
<1>. QED
  BY <1>1, <1>2, <1>4 DEF Jobs

\* A target that is settled goes from those that are left to those that are done.
LEMMA JobGoesOn ==
    ASSUME Shapes, NEW j \in Jobs, j.left # <<>>,
           NEW result \in {"sent", "failed", "suppressed"}, NEW taken \in BOOLEAN,
           result = "sent" /\ platform[Head(j.left)] \in Exact => taken
    PROVE  Settled(j, result, taken) \in Jobs
<1>1. /\ j.left \in Seq(Targets) /\ j.done \in Seq(Results) /\ j.message \in Messages
      /\ j = [message |-> j.message, left |-> j.left, sending |-> j.sending, done |-> j.done]
  BY DEF Jobs
<1>2. PICK target \in Targets : target = Head(j.left)
  BY <1>1, HeadTailProperties
<1>3. PICK left \in Seq(Targets) : left = Tail(j.left)
  BY <1>1, HeadTailProperties
<1>4. PICK r \in Results : r = [target |-> target, result |-> result, taken |-> taken]
  BY <1>2 DEF Results
<1>5. PICK done \in Seq(Results) : done = Append(j.done, r)
  BY <1>1, AppendProperties
<1>6. Settled(j, result, taken) = [j EXCEPT !.left = left, !.sending = FALSE, !.done = done]
  BY <1>2, <1>3, <1>4, <1>5 DEF Settled
<1>. QED
  BY <1>1, <1>6 DEF Jobs

\* The steps that concern neither the router nor the ingress: those of Codex, of the
\* watch's polls, of the config, of the clock and of the reset command.
Quiet == /\ UNCHANGED <<scene, platform, job, ingressVars>>
         /\ live' # "up" => live # "up"
         /\ now' = now \/ (now < MaxTime /\ now' = now + 1)

LEMMA StepsAre ==
    ASSUME [NotifyNext]_nvars
    PROVE  \/ Quiet
           \/ \E m \in Messages : Emit(m) \/ Prompt(m) \/ StopTurn(m)
           \/ \E t \in Turns : RunStopHook(t)
           \/ RouteSignal \/ SignalRouted
           \/ \E task \in Tasks : Deliver(task)
           \/ ServeTurnStart \/ ServeClaudeStop \/ ServeCodexStop \/ ServeEmitted \/ Answer
           \/ Die
<1>1. ASSUME NEW t \in Turns, Ask(t) \/ BeginLine(t) PROVE Quiet
  BY <1>1 DEF Ask, BeginLine, Others, vars, Quiet
<1>2. ASSUME NEW f \in Files, FinishLine(f) PROVE Quiet
  BY <1>2 DEF FinishLine, vars, Quiet
<1>3. CASE Recorded \/ Disturb \/ Reappear
  BY <1>3 DEF Recorded, Disturb, Reappear, Others, vars, Quiet
<1>4. CASE StartWatch \/ StopWatch \/ Poll \/ Commit
  BY <1>4 DEF StartWatch, StopWatch, Poll, Commit, Others, vars, Quiet
<1>5. CASE StartService
  BY <1>5 DEF StartService, Start, Quiet
<1>6. CASE OpenIngress
  BY <1>6 DEF OpenIngress, IngressListens, Quiet
<1>7. CASE SwitchSource \/ Reload
  BY <1>7 DEF SwitchSource, Reload, vars, Quiet
<1>8. CASE Clock
  BY <1>8 DEF Clock, Tick, Quiet
<1>9. CASE ResetCommand
  <2>1. UNCHANGED <<now, live>>
    BY <1>9 DEF ResetCommand, CliProbe, CliAskService, CliWriteFile
  <2>. QED
    BY <1>9, <2>1 DEF ResetCommand, Quiet
<1>10. CASE UNCHANGED nvars
  BY <1>10 DEF nvars, vars, Quiet
<1>. QED
  BY <1>1, <1>2, <1>3, <1>4, <1>5, <1>6, <1>7, <1>8, <1>9, <1>10
     DEF NotifyNext, WatcherStep, IngressStep, Tasks

LEMMA ShapesAgain ==
    ASSUME Shapes, UNCHANGED <<scene, platform>>, now' \in 0 .. MaxTime,
           queue' \in Seq(Requests), job' \in [Tasks -> Jobs \cup {NoJob}],
           starts' \in [Sessions -> 0 .. NoTime],
           session' \in [Sessions -> [since : 0 .. NoTime, heard : BOOLEAN]],
           job'["ingress"] # NoJob => queue' # <<>>
    PROVE  Shapes'
<1>1. Jobs' = Jobs
  BY DEF Jobs, Results
<1>. QED
  BY <1>1 DEF Shapes, Requests, NoJob

\* A caller joins the queue at its end.
LEMMA CallJoins ==
    ASSUME Shapes, NEW c, NEW asks, NEW at, Call(c, asks, at),
           [from |-> c, asks |-> asks, at |-> at] \in Requests
    PROVE  /\ queue' \in Seq(Requests)
           /\ Len(queue) \in Nat /\ Len(queue') = Len(queue) + 1
           /\ \A i \in 1 .. Len(queue) : queue'[i] = queue[i]
           /\ queue'[Len(queue) + 1] = [from |-> c, asks |-> asks, at |-> at]
           /\ queue' # <<>>
<1>1. queue \in Seq(Requests) /\ queue' = Append(queue, [from |-> c, asks |-> asks, at |-> at])
  BY DEF Shapes, Call
<1>. QED
  BY <1>1, AppendProperties, LenProperties, EmptySeq

\* The first of the queue leaves it.
LEMMA FirstLeaves ==
    ASSUME Shapes, queue # <<>>, queue' = Tail(queue)
    PROVE  /\ queue' \in Seq(Requests)
           /\ Len(queue) \in Nat /\ Len(queue) >= 1 /\ Len(queue') = Len(queue) - 1
           /\ \A i \in 1 .. Len(queue) - 1 : queue'[i] = queue[i + 1]
           /\ Head(queue) = queue[1]
<1>1. queue \in Seq(Requests)
  BY DEF Shapes
<1>. QED
  BY <1>1, HeadTailProperties, LenProperties, EmptySeq

LEMMA FirstIs ==
    ASSUME Shapes, queue # <<>>
    PROVE  /\ Head(queue) \in Requests /\ Head(queue) = queue[1]
           /\ Len(queue) \in Nat /\ Len(queue) >= 1
<1>1. queue \in Seq(Requests)
  BY DEF Shapes
<1>. QED
  BY <1>1, HeadTailProperties, LenProperties, EmptySeq

\* The job of a task after a step of its delivery.
LEMMA DeliveryIs ==
    ASSUME Shapes, NEW task \in Tasks, Deliver(task)
    PROVE  LET j == job[task] IN
           /\ j \in Jobs /\ j.left # <<>>
           /\ UNCHANGED <<scene, watcherVars, configVars, platform, ingressVars, now, live>>
           /\ \/ job' = [job EXCEPT ![task] = [j EXCEPT !.sending = TRUE]]
              \/ \E result \in {"sent", "failed", "suppressed"}, taken \in BOOLEAN :
                     /\ result = "sent" /\ platform[Head(j.left)] \in Exact => taken
                     /\ job' = [job EXCEPT ![task] = Settled(j, result, taken)]
<1> DEFINE j == job[task]
<1>1. CASE Offer(task)
  <2>1. j \in Jobs /\ j.left # <<>>
    BY <1>1 DEF Offer, Idle, Delivered, Shapes
  <2>2. UNCHANGED <<scene, watcherVars, configVars, platform, ingressVars>>
    BY <1>1 DEF Offer
  <2> DEFINE k == <<j.message, Head(j.left)>>
  <2>3. CASE CheckAllowed(k) /\ job' = [job EXCEPT ![task].sending = TRUE]
    BY <2>1, <2>2, <2>3 DEF CheckAllowed
  <2>4. CASE CheckPaused(k) /\ job' = [job EXCEPT ![task] = Settled(j, "suppressed", FALSE)]
    BY <2>1, <2>2, <2>4 DEF CheckPaused, vars
  <2>5. ASSUME NEW saves \in BOOLEAN, Storm(k, saves),
               job' = [job EXCEPT ![task] =
                   Settled(j, IF paused' /\ ~saves THEN "failed" ELSE "suppressed", FALSE)]
        PROVE  /\ UNCHANGED <<now, live>>
               /\ \E result \in {"failed", "suppressed"} :
                      job' = [job EXCEPT ![task] = Settled(j, result, FALSE)]
    <3>1. CASE paused' /\ ~saves
      BY <2>5, <3>1 DEF Storm
    <3>2. CASE ~(paused' /\ ~saves)
      BY <2>5, <3>2 DEF Storm
    <3>. QED
      BY <3>1, <3>2
  <2>. QED
    BY <1>1, <2>1, <2>2, <2>3, <2>4, <2>5 DEF Offer
<1>2. ASSUME NEW reply \in scene.answers, Send(task, reply)
      PROVE  /\ j \in Jobs /\ j.left # <<>>
             /\ UNCHANGED <<scene, watcherVars, configVars, platform, ingressVars, now, live>>
             /\ \E result \in {"sent", "failed", "suppressed"}, taken \in BOOLEAN :
                     /\ result = "sent" /\ platform[Head(j.left)] \in Exact => taken
                     /\ job' = [job EXCEPT ![task] = Settled(j, result, taken)]
  <2>1. j \in Jobs /\ j.left # <<>>
    <3>1. j.sending /\ (j \in Jobs \/ j = NoJob)
      BY <1>2 DEF Send, Shapes
    <3>. QED
      BY <3>1 DEF NoJob, Jobs
  <2>2. UNCHANGED <<scene, watcherVars, configVars, platform, ingressVars, now, live>>
    BY <1>2 DEF Send, vars
  <2>3. PICK target \in Targets : target = Head(j.left)
    BY <2>1, HeadTailProperties DEF Jobs
  <2>4. reply \in Answers /\ reply.taken \in BOOLEAN
    BY <1>2, SceneIs DEF Shapes, Answers
  <2>5. job' = [job EXCEPT ![task] =
                   Settled(j, IF Sent(platform[target], reply) THEN "sent" ELSE "failed", reply.taken)]
    BY <1>2, <2>3 DEF Send
  <2>6. CASE Sent(platform[target], reply)
    <3>1. platform[Head(j.left)] \in Exact => reply.taken
      BY <2>3, <2>4, <2>6, ExactIsExact
    <3>2. job' = [job EXCEPT ![task] = Settled(j, "sent", reply.taken)]
      BY <2>5, <2>6
    <3>. QED
      BY <2>1, <2>2, <2>4, <3>1, <3>2
  <2>7. CASE ~Sent(platform[target], reply)
    <3>1. job' = [job EXCEPT ![task] = Settled(j, "failed", reply.taken)]
      BY <2>5, <2>7
    <3>. QED
      BY <2>1, <2>2, <2>4, <3>1
  <2>. QED
    BY <2>6, <2>7
<1>. QED
  BY <1>1, <1>2 DEF Deliver

\* The next signal of a batch is of a turn.
LEMMA SignalIs ==
    ASSUME WatchFits, batch.signals # <<>>
    PROVE  Head(batch.signals) \in Signals /\ Head(batch.signals).turn \in Turns
<1>1. batch.signals \in Seq(Signals)
  BY DEF WatchFits, Batches
<1>2. Head(batch.signals) \in Signals
  BY <1>1, HeadTailProperties
<1>. QED
  BY <1>2 DEF Signals

LEMMA StepKeepsShapes == Shapes /\ WatchFits /\ [NotifyNext]_nvars => Shapes'
<1> SUFFICES ASSUME Shapes, WatchFits, [NotifyNext]_nvars PROVE Shapes'
  OBVIOUS
<1>1. /\ now \in 0 .. MaxTime /\ MaxTime \in Nat /\ NoTime = MaxTime + 1
      /\ queue \in Seq(Requests) /\ job \in [Tasks -> Jobs \cup {NoJob}]
      /\ starts \in [Sessions -> 0 .. NoTime]
      /\ session \in [Sessions -> [since : 0 .. NoTime, heard : BOOLEAN]]
      /\ job["ingress"] # NoJob => queue # <<>>
      /\ "ingress" \in Tasks
  BY DeliverySafetyAssumption DEF Shapes, NoTime, Tasks
<1>2. CASE Quiet
  <2>1. now' \in 0 .. MaxTime /\ UNCHANGED <<scene, platform, job, queue, starts, session>>
    BY <1>1, <1>2 DEF Quiet, ingressVars
  <2>. QED
    BY <1>1, <2>1, ShapesAgain
<1>3. ASSUME NEW m \in Messages, Emit(m) PROVE Shapes'
  <2>1. /\ m \in Emitted /\ Call(m, "emitted", now)
        /\ UNCHANGED <<scene, platform, now, job, starts, session>>
    BY <1>3 DEF Emit, vars
  <2>2. queue' \in Seq(Requests) /\ (queue = queue' \/ queue' # <<>>)
    BY <1>1, <2>1, CallersAre, CallJoins
  <2>. QED
    BY <1>1, <2>1, <2>2, ShapesAgain
<1>4. ASSUME NEW m \in Messages, Prompt(m) PROVE Shapes'
  <2>1. /\ m \in Sessions /\ (Call(m, "turn_start", now) \/ UNCHANGED queue)
        /\ session' = [session EXCEPT ![m] = [since |-> now, heard |-> FALSE]]
        /\ UNCHANGED <<scene, platform, now, job, starts>>
    BY <1>4 DEF Prompt, vars
  <2>2. queue' \in Seq(Requests) /\ (queue = queue' \/ queue' # <<>>)
    BY <1>1, <2>1, CallersAre, CallJoins
  <2>3. [since |-> now, heard |-> FALSE] \in [since : 0 .. NoTime, heard : BOOLEAN]
    BY <1>1
  <2>. QED
    BY <1>1, <2>1, <2>2, <2>3, ShapesAgain
<1>5. ASSUME NEW m \in Messages, StopTurn(m) PROVE Shapes'
  <2>1. /\ m \in Sessions /\ Call(m, "claude_code", now)
        /\ UNCHANGED <<scene, platform, now, job, starts, session>>
    BY <1>5 DEF StopTurn, vars
  <2>2. queue' \in Seq(Requests) /\ (queue = queue' \/ queue' # <<>>)
    BY <1>1, <2>1, CallersAre, CallJoins
  <2>. QED
    BY <1>1, <2>1, <2>2, ShapesAgain
<1>6. ASSUME NEW t \in Turns, RunStopHook(t) PROVE Shapes'
  <2>1. /\ Call(TurnMessage[t], "codex_cli", now) \/ UNCHANGED queue
        /\ UNCHANGED <<scene, platform, now, job, starts, session>>
    BY <1>6 DEF RunStopHook, vars
  <2>2. queue' \in Seq(Requests) /\ (queue = queue' \/ queue' # <<>>)
    BY <1>1, <2>1, CallersAre, CallJoins
  <2>. QED
    BY <1>1, <2>1, <2>2, ShapesAgain
<1>7. CASE RouteSignal
  <2>1. batch.signals # <<>>
    BY <1>7 DEF RouteSignal, W!RouteNext
  <2>2. PICK t \in Turns : t = Head(batch.signals).turn
    BY <2>1, SignalIs
  <2>3. /\ job' = [job EXCEPT !["watcher"] = Job(TurnMessage[t], "codex_desktop")]
        /\ UNCHANGED <<scene, platform, now, queue, starts, session>>
    BY <1>7, <2>2 DEF RouteSignal, Others, vars, ingressVars
  <2>4. Job(TurnMessage[t], "codex_desktop") \in Jobs
    BY JobBegins, NotificationsAssumption DEF Kinds
  <2>. QED
    BY <1>1, <2>3, <2>4, ShapesAgain
<1>8. CASE SignalRouted
  <2>1. /\ job' = [job EXCEPT !["watcher"] = NoJob]
        /\ UNCHANGED <<scene, platform, now, queue, starts, session>>
    BY <1>8 DEF SignalRouted, Others, vars, ingressVars
  <2>. QED
    BY <1>1, <2>1, ShapesAgain
<1>9. ASSUME NEW task \in Tasks, Deliver(task) PROVE Shapes'
  <2> DEFINE j == job[task]
  <2>1. /\ j \in Jobs /\ j.left # <<>>
        /\ UNCHANGED <<scene, platform, queue, starts, session, now>>
        /\ \/ job' = [job EXCEPT ![task] = [j EXCEPT !.sending = TRUE]]
           \/ \E result \in {"sent", "failed", "suppressed"}, taken \in BOOLEAN :
                  /\ result = "sent" /\ platform[Head(j.left)] \in Exact => taken
                  /\ job' = [job EXCEPT ![task] = Settled(j, result, taken)]
    BY <1>9, DeliveryIs DEF ingressVars
  <2>2. [j EXCEPT !.sending = TRUE] \in Jobs
    BY <2>1 DEF Jobs
  <2>3. \A result \in {"sent", "failed", "suppressed"}, taken \in BOOLEAN :
            (result = "sent" /\ platform[Head(j.left)] \in Exact => taken)
                => Settled(j, result, taken) \in Jobs
    BY <2>1, JobGoesOn
  <2>4. job' \in [Tasks -> Jobs \cup {NoJob}]
    <3> HIDE DEF j
    <3>. QED
      BY <1>1, <2>1, <2>2, <2>3
  <2>5. job'["ingress"] # NoJob => queue # <<>>
    <3>1. task # "ingress" => job'["ingress"] = job["ingress"]
      BY <1>1, <2>1
    <3>2. j # NoJob
      BY <2>1, NoJobIsNone
    <3>. QED
      BY <1>1, <3>1, <3>2
  <2>. QED
    BY <1>1, <2>1, <2>4, <2>5, ShapesAgain
<1>10. CASE ServeTurnStart
  <2>1. /\ Serving /\ Head(queue).asks = "turn_start"
        /\ starts' = RecordStart(Head(queue).from, Head(queue).at)
        /\ session' = [session EXCEPT ![Head(queue).from].heard = TRUE]
        /\ queue' = Tail(queue)
        /\ UNCHANGED <<scene, platform, now, job>>
    BY <1>10 DEF ServeTurnStart, vars
  <2>2. queue # <<>> /\ queue' \in Seq(Requests)
    BY <2>1, FirstLeaves DEF Serving
  <2>3. PICK r \in Requests : r = Head(queue)
    BY <2>2, FirstIs
  <2>4. r.from \in Sessions /\ r.at \in 0 .. NoTime
    BY <1>1, <2>1, <2>3, CallersAre
  <2>5. starts' \in [Sessions -> 0 .. NoTime]
    BY <1>1, <2>1, <2>3, <2>4 DEF RecordStart
  <2>6. session' \in [Sessions -> [since : 0 .. NoTime, heard : BOOLEAN]]
    BY <1>1, <2>1, <2>3, <2>4
  <2>7. job'["ingress"] = NoJob
    BY <2>1 DEF Serving, Idle
  <2>. QED
    BY <1>1, <2>1, <2>2, <2>5, <2>6, <2>7, ShapesAgain
<1>11. CASE ServeClaudeStop
  <2>1. /\ Serving /\ Head(queue).asks = "claude_code"
        /\ starts' = [starts EXCEPT ![Head(queue).from] = NoTime]
        /\ \/ /\ queue' = Tail(queue)
              /\ session' = [session EXCEPT ![Head(queue).from].heard = FALSE]
              /\ UNCHANGED job
           \/ /\ job' = [job EXCEPT !["ingress"] = Job(Head(queue).from, "claude_code")]
              /\ UNCHANGED <<queue, session>>
        /\ UNCHANGED <<scene, platform, now>>
    BY <1>11 DEF ServeClaudeStop, vars
  <2>2. queue # <<>> /\ queue' \in Seq(Requests)
    BY <1>1, <2>1, FirstLeaves DEF Serving
  <2>3. PICK r \in Requests : r = Head(queue)
    BY <2>2, FirstIs
  <2>4. r.from \in Sessions /\ r.from \in Messages
    BY <1>1, <2>1, <2>3, CallersAre
  <2>5. starts' \in [Sessions -> 0 .. NoTime]
    BY <1>1, <2>1, <2>3, <2>4
  <2>6. session' \in [Sessions -> [since : 0 .. NoTime, heard : BOOLEAN]]
    <3>1. CASE session' = [session EXCEPT ![r.from].heard = FALSE]
      BY <1>1, <2>4, <3>1
    <3>2. CASE UNCHANGED session
      BY <1>1, <3>2
    <3>. QED
      BY <2>1, <2>3, <3>1, <3>2
  <2>7. Job(r.from, "claude_code") \in Jobs
    BY <2>4, JobBegins DEF Kinds
  <2>8. job' \in [Tasks -> Jobs \cup {NoJob}]
    BY <1>1, <2>1, <2>3, <2>7
  <2>9. job'["ingress"] # NoJob => queue' # <<>>
    BY <2>1, <2>2 DEF Serving, Idle
  <2>. QED
    BY <1>1, <2>1, <2>2, <2>5, <2>6, <2>8, <2>9, ShapesAgain
<1>12. CASE ServeCodexStop \/ ServeEmitted
  <2>1. /\ Serving
        /\ \/ queue' = Tail(queue) /\ UNCHANGED job
           \/ \E kind \in Kinds : job' = [job EXCEPT !["ingress"] = Job(Head(queue).from, kind)]
                                  /\ UNCHANGED queue
        /\ UNCHANGED <<scene, platform, now, starts, session>>
    BY <1>12 DEF ServeCodexStop, ServeEmitted, vars, Kinds
  <2>2. queue # <<>> /\ queue' \in Seq(Requests)
    BY <1>1, <2>1, FirstLeaves DEF Serving
  <2>3. PICK r \in Requests : r = Head(queue)
    BY <2>2, FirstIs
  <2>4. \A kind \in Kinds : Job(r.from, kind) \in Jobs
    BY <2>3, CallersAre, JobBegins
  <2>5. job' \in [Tasks -> Jobs \cup {NoJob}]
    BY <1>1, <2>1, <2>3, <2>4
  <2>6. job'["ingress"] # NoJob => queue' # <<>>
    BY <2>1, <2>2 DEF Serving, Idle
  <2>. QED
    BY <1>1, <2>1, <2>2, <2>5, <2>6, ShapesAgain
<1>13. CASE Answer
  <2>1. /\ job' = [job EXCEPT !["ingress"] = NoJob] /\ queue' = Tail(queue)
        /\ session' = IF Head(queue).from \in Sessions
                      THEN [session EXCEPT ![Head(queue).from].heard = FALSE] ELSE session
        /\ UNCHANGED <<scene, platform, now, starts>>
    BY <1>13 DEF Answer, vars
  <2>2. queue # <<>>
    BY <1>1, <1>13 DEF Answer, Delivered, Idle
  <2>3. queue' \in Seq(Requests)
    BY <2>1, <2>2, FirstLeaves
  <2>4. session' \in [Sessions -> [since : 0 .. NoTime, heard : BOOLEAN]]
    BY <1>1, <2>1
  <2>5. job' \in [Tasks -> Jobs \cup {NoJob}] /\ job'["ingress"] = NoJob
    BY <1>1, <2>1
  <2>. QED
    BY <1>1, <2>1, <2>3, <2>4, <2>5, ShapesAgain
<1>14. CASE Die
  <2>1. /\ job' = [task \in Tasks |-> NoJob] /\ queue' = <<>>
        /\ starts' = [s \in Sessions |-> NoTime]
        /\ session' = [s \in Sessions |-> [session[s] EXCEPT !.heard = FALSE]]
        /\ UNCHANGED <<scene, platform, now>>
    BY <1>14 DEF Die, Crash, configVars
  <2>2. queue' \in Seq(Requests)
    BY <2>1, EmptySeq
  <2>3. job' \in [Tasks -> Jobs \cup {NoJob}] /\ job'["ingress"] = NoJob
    BY <1>1, <2>1
  <2>4. starts' \in [Sessions -> 0 .. NoTime]
    BY <1>1, <2>1
  <2>5. session' \in [Sessions -> [since : 0 .. NoTime, heard : BOOLEAN]]
    BY <1>1, <2>1
  <2>. QED
    BY <1>1, <2>1, <2>2, <2>3, <2>4, <2>5, ShapesAgain
<1>. QED
  BY <1>2, <1>3, <1>4, <1>5, <1>6, <1>7, <1>8, <1>9, <1>10, <1>11, <1>12, <1>13, <1>14, StepsAre

\* A task delivers a message to the next of its targets, one the guard knows.
LEMMA OfferedIsKey ==
    ASSUME Shapes, NEW task \in Tasks, Deliver(task)
    PROVE  <<job[task].message, Head(job[task].left)>> \in Keys
<1>1. job[task] \in Jobs /\ job[task].left # <<>>
  BY DeliveryIs
<1>2. job[task].message \in Messages /\ job[task].left \in Seq(Targets)
  BY <1>1 DEF Jobs
<1>3. Head(job[task].left) \in Targets
  BY <1>1, <1>2, HeadTailProperties
<1>. QED
  BY <1>2, <1>3 DEF Keys

\* The guard's part of every step is one of its own.
LEMMA StepsOfGuard == Shapes /\ [NotifyNext]_nvars => [Next]_vars
<1> SUFFICES ASSUME Shapes, [NotifyNext]_nvars PROVE [Next]_vars
  OBVIOUS
<1>1. CASE UNCHANGED vars
  BY <1>1
<1>2. ASSUME NEW m \in Messages, Emit(m) \/ Prompt(m) \/ StopTurn(m) PROVE [Next]_vars
  BY <1>1, <1>2 DEF Emit, Prompt, StopTurn
<1>3. ASSUME NEW t \in Turns, Ask(t) \/ BeginLine(t) \/ RunStopHook(t) PROVE [Next]_vars
  BY <1>1, <1>3 DEF Ask, BeginLine, RunStopHook, Others
<1>4. ASSUME NEW f \in Files, FinishLine(f) PROVE [Next]_vars
  BY <1>1, <1>4 DEF FinishLine
<1>5. CASE Recorded \/ Disturb \/ Reappear
  BY <1>1, <1>5 DEF Recorded, Disturb, Reappear, Others
<1>6. CASE StartWatch \/ StopWatch \/ Poll \/ RouteSignal \/ SignalRouted \/ Commit
  BY <1>1, <1>6 DEF StartWatch, StopWatch, Poll, RouteSignal, SignalRouted, Commit, Others
<1>7. ASSUME NEW task \in Tasks, Deliver(task) PROVE [Next]_vars
  <2> DEFINE k == <<job[task].message, Head(job[task].left)>>
  <2>1. k \in Keys
    BY <1>7, OfferedIsKey
  <2>2. CASE \E reply \in scene.answers : Send(task, reply)
    BY <1>1, <2>2 DEF Send
  <2>3. CASE Offer(task)
    <3>1. CheckPaused(k) \/ CheckAllowed(k) \/ CheckStorm(k)
      BY <2>3 DEF Offer, CheckStorm
    <3> HIDE DEF k
    <3>. QED
      BY <2>1, <3>1 DEF Next
  <2>. QED
    BY <1>7, <2>2, <2>3 DEF Deliver
<1>8. CASE ServeTurnStart \/ ServeClaudeStop \/ ServeCodexStop \/ ServeEmitted \/ Answer
  BY <1>1, <1>8 DEF ServeTurnStart, ServeClaudeStop, ServeCodexStop, ServeEmitted, Answer
<1>9. CASE StartService \/ OpenIngress \/ Die \/ Clock
  BY <1>9 DEF StartService, OpenIngress, Die, Clock, Next
<1>10. CASE SwitchSource \/ Reload
  BY <1>1, <1>10 DEF SwitchSource, Reload
<1>11. CASE ResetCommand
  BY <1>11 DEF ResetCommand, Next
<1>12. CASE UNCHANGED nvars
  BY <1>1, <1>12 DEF nvars
<1>. QED
  BY <1>2, <1>3, <1>4, <1>5, <1>6, <1>7, <1>8, <1>9, <1>10, <1>11, <1>12
     DEF NotifyNext, WatcherStep, IngressStep, Tasks

\* The whole begins with nothing read, nothing counted and nobody waiting.
LEMMA InitialShapes == NotifyInit => FilesFit /\ WatchFits /\ Shapes
<1> SUFFICES ASSUME NotifyInit PROVE FilesFit /\ WatchFits /\ Shapes
  OBVIOUS
<1>1. FilesFit
  BY SameFiles, EmptySeq DEF NotifyInit, W!Init, FilesFit, OwnLines
<1>2. WatchFits
  BY NothingRead, SameFiles DEF NotifyInit, W!Init, WatchFits
<1>3. Shapes
  <2>1. scene \in Scene /\ platform \in scene.platforms
    BY NotificationsAssumption DEF NotifyInit
  <2>2. platform \in [Targets -> Types]
    BY <2>1, SceneIs
  <2>3. now \in 0 .. MaxTime /\ NoTime \in 0 .. NoTime
    BY DeliverySafetyAssumption DEF NotifyInit, Init, NoTime
  <2>4. queue \in Seq(Requests) /\ job = [task \in Tasks |-> NoJob] /\ "ingress" \in Tasks
    BY EmptySeq DEF NotifyInit, Tasks
  <2>5. starts \in [Sessions -> 0 .. NoTime]
    BY <2>3 DEF NotifyInit
  <2>6. session \in [Sessions -> [since : 0 .. NoTime, heard : BOOLEAN]]
    BY <2>3 DEF NotifyInit
  <2>. QED
    BY <2>1, <2>2, <2>3, <2>4, <2>5, <2>6 DEF Shapes
<1>. QED
  BY <1>1, <1>2, <1>3

\* What is read, kept and delivered keeps its shape, whatever the whole does.
LEMMA ShapesHold == NotifySpec => [](FilesFit /\ WatchFits /\ Shapes)
<1>1. FilesFit /\ WatchFits /\ Shapes /\ [NotifyNext]_nvars => (FilesFit /\ WatchFits /\ Shapes)'
  BY StepsOfWatch, StepKeepsFiles, StepKeepsWatch, StepKeepsShapes
<1>. QED
  BY <1>1, InitialShapes, PTL DEF NotifySpec

----------------------------------------------------------------------------
\* The guard.

\* The service delivers through the guard and through nothing else: whatever hooks,
\* commands, the watch and the router do, in any order, what happens to the guard is
\* a behaviour of the guard on its own, of router.rs and delivery_safety.rs.
THEOREM RouterObeysTheGuard == NotifySpec => Spec
<1>1. NotifyInit => Init
  BY DEF NotifyInit
<1>. QED
  BY <1>1, ShapesHold, StepsOfGuard, PTL DEF NotifySpec, Spec

\* A message reaches a target fewer times than the threshold within any window of
\* the guard's life, and none is suppressed that had not been attempted that often:
\* for any windows, thresholds, messages and targets, and however the times of the
\* attempts fall.
THEOREM StormsEnd == Spec => []StormsAreCutOff
<1>. QED
  BY InitialGuard, StepKeepsGuard, GuardCutsOff, PTL DEF Spec

\* Counting one attempt after the other, behind the pause: each suppressed message has
\* one record, with the time of a storm that is in the log.
StormAt(k, t) == \E j \in 1 .. Len(log[k]) : log[k][j] = [at |-> t, outcome |-> "storm"]
IsStorm(r) == \E target \in Targets : StormAt(<<r.message, target>>, r.at)

Records == [message : Messages, at : Nat]
SuppressedInv ==
    /\ suppressed \subseteq Records
    /\ \A r \in suppressed : IsStorm(r)
    /\ \A r, s \in suppressed : r.message = s.message => r = s

\* What was a storm is one when the log has grown.
LEMMA StormStays ==
    ASSUME GuardInv, NEW k \in Keys, NEW outcome \in {"allowed", "storm"}, Logged(k, outcome)
    PROVE  /\ \A j \in Keys, t \in Nat : StormAt(j, t) => StormAt(j, t)'
           /\ \A t \in Nat : outcome = "storm" /\ t = now => StormAt(k, t)'
<1>1. log \in [Keys -> Seq(Entries)] /\ now \in Nat
  BY DEF GuardInv
<1>2. [at |-> now, outcome |-> outcome] \in Entries
  BY <1>1 DEF Entries
<1>3. PICK e \in Entries : e = [at |-> now, outcome |-> outcome]
  BY <1>2
<1>4. log' = [log EXCEPT ![k] = Append(log[k], e)]
  BY <1>1, <1>3 DEF Logged
<1>5. log[k] \in Seq(Entries) /\ Len(log[k]) \in Nat
  BY <1>1, LenProperties
<1>6. /\ Len(Append(log[k], e)) = Len(log[k]) + 1
      /\ \A i \in 1 .. Len(log[k]) : Append(log[k], e)[i] = log[k][i]
      /\ Append(log[k], e)[Len(log[k]) + 1] = e
  BY <1>5, AppendProperties
<1>7. log'[k] = Append(log[k], e) /\ \A j \in Keys : j # k => log'[j] = log[j]
  BY <1>1, <1>4
<1>8. \A t \in Nat : StormAt(k, t) => StormAt(k, t)'
  BY <1>5, <1>6, <1>7 DEF StormAt
<1>9. \A j \in Keys, t \in Nat : j # k /\ StormAt(j, t) => StormAt(j, t)'
  BY <1>7 DEF StormAt
<1>10. ASSUME NEW t \in Nat, outcome = "storm", t = now PROVE StormAt(k, t)'
  <2>1. Len(log[k]) + 1 \in 1 .. Len(log'[k])
    BY <1>5, <1>6, <1>7
  <2>2. log'[k][Len(log[k]) + 1] = [at |-> now, outcome |-> outcome]
    BY <1>3, <1>6, <1>7
  <2>. QED
    BY <1>10, <2>1, <2>2 DEF StormAt
<1>. QED
  BY <1>8, <1>9, <1>10

\* A storm's message joins those that are suppressed, and the old ones leave.
LEMMA StormIsRecorded ==
    ASSUME GuardInv, SuppressedInv, NEW k \in Keys, Logged(k, "storm"),
           suppressed' = Suppressing(k[1])
    PROVE  /\ SuppressedInv'
           /\ \A r \in suppressed' : r.at + GlobalPauseWindow >= now
<1>1. now \in Nat /\ GlobalPauseWindow \in Nat
  BY DeliverySafetyAssumption DEF GuardInv
<1>2. PICK m \in Messages, target \in Targets : k = <<m, target>>
  BY DEF Keys
<1>3. suppressed' = {r \in suppressed : r.message # m /\ r.at >= Cutoff(now, GlobalPauseWindow)}
                      \cup {[message |-> m, at |-> now]}
  BY <1>2 DEF Suppressing
<1>4. suppressed \subseteq Records
  BY DEF SuppressedInv
<1>5. suppressed' \subseteq Records
  BY <1>1, <1>3, <1>4 DEF Records
<1>6. \A r \in suppressed' : IsStorm(r)'
  <2> SUFFICES ASSUME NEW r \in suppressed' PROVE IsStorm(r)'
    OBVIOUS
  <2>1. CASE r = [message |-> m, at |-> now]
    <3>1. r.message = m /\ r.at = now
      BY <2>1
    <3>2. StormAt(k, r.at)'
      BY <1>1, <3>1, StormStays
    <3>. QED
      BY <1>2, <3>1, <3>2 DEF IsStorm, StormAt
  <2>2. CASE r \in suppressed
    <3>1. PICK other \in Targets : StormAt(<<r.message, other>>, r.at)
      BY <2>2 DEF SuppressedInv, IsStorm
    <3>2. r.message \in Messages /\ r.at \in Nat
      BY <1>4, <2>2 DEF Records
    <3>3. StormAt(<<r.message, other>>, r.at)'
      BY <3>1, <3>2, StormStays DEF Keys
    <3>. QED
      BY <3>3 DEF IsStorm, StormAt
  <2>. QED
    BY <1>3, <2>1, <2>2
<1>7. \A r, s \in suppressed' : r.message = s.message => r = s
  BY <1>3 DEF SuppressedInv
<1>8. \A r \in suppressed' : r.at + GlobalPauseWindow >= now
  <2> SUFFICES ASSUME NEW r \in suppressed' PROVE r.at + GlobalPauseWindow >= now
    OBVIOUS
  <2>1. r.at \in Nat
    BY <1>5 DEF Records
  <2>2. r.at = now \/ r.at >= Cutoff(now, GlobalPauseWindow)
    BY <1>3
  <2>. QED
    BY <1>1, <2>1, <2>2 DEF Cutoff
<1>. QED
  BY <1>5, <1>6, <1>7, <1>8 DEF SuppressedInv

LEMMA StepKeepsSuppressed == GuardInv /\ SuppressedInv /\ [Next]_vars => SuppressedInv'
<1> SUFFICES ASSUME GuardInv, SuppressedInv, [Next]_vars PROVE SuppressedInv'
  OBVIOUS
<1>1. CASE UNCHANGED <<suppressed, log>>
  BY <1>1 DEF SuppressedInv, IsStorm, StormAt
<1>2. CASE suppressed' = {}
  BY <1>2 DEF SuppressedInv
<1>3. CASE Tick \/ IngressListens
  BY <1>1, <1>3 DEF Tick, IngressListens, guardVars
<1>4. CASE Start \/ Crash
  BY <1>2, <1>4 DEF Start, Crash
<1>5. ASSUME NEW k \in Keys, CheckPaused(k) PROVE SuppressedInv'
  BY <1>1, <1>5 DEF CheckPaused, vars, guardVars
<1>6. ASSUME NEW k \in Keys, CheckAllowed(k) PROVE SuppressedInv'
  <2>1. Logged(k, "allowed") /\ UNCHANGED suppressed
    BY <1>6 DEF CheckAllowed
  <2>2. \A j \in Keys, t \in Nat : StormAt(j, t) => StormAt(j, t)'
    BY <2>1, StormStays
  <2>3. \A r \in suppressed : IsStorm(r)'
    <3> SUFFICES ASSUME NEW r \in suppressed PROVE IsStorm(r)'
      OBVIOUS
    <3>1. PICK other \in Targets : StormAt(<<r.message, other>>, r.at)
      BY DEF SuppressedInv, IsStorm
    <3>2. r.message \in Messages /\ r.at \in Nat
      BY DEF SuppressedInv, Records
    <3>3. StormAt(<<r.message, other>>, r.at)'
      BY <2>2, <3>1, <3>2 DEF Keys
    <3>. QED
      BY <3>3 DEF IsStorm, StormAt
  <2>. QED
    BY <2>1, <2>3 DEF SuppressedInv
<1>7. ASSUME NEW k \in Keys, CheckStorm(k) PROVE SuppressedInv'
  <2>1. Logged(k, "storm") /\ suppressed' = Suppressing(k[1])
    BY <1>7 DEF CheckStorm, Storm
  <2>. QED
    BY <2>1, StormIsRecorded
<1>8. CASE CliProbe \/ CliWriteFile
  BY <1>1, <1>8 DEF CliProbe, CliWriteFile, guardVars
<1>9. CASE CliAskService
  <2>1. CASE live = "up"
    BY <1>2, <1>9, <2>1 DEF CliAskService
  <2>2. CASE live # "up"
    BY <1>1, <1>9, <2>2 DEF CliAskService, guardVars
  <2>. QED
    BY <2>1, <2>2
<1>10. CASE UNCHANGED vars
  BY <1>1, <1>10 DEF vars, guardVars
<1>. QED
  BY <1>3, <1>4, <1>5, <1>6, <1>7, <1>8, <1>9, <1>10 DEF Next

\* The storms that start the pause.
Stormy == {m \in Messages : \E t \in StormsOf(m) : t + GlobalPauseWindow >= now}

LEMMA PauseHasStorms ==
    GuardInv /\ SuppressedInv /\ [Next]_vars =>
        (~paused /\ paused' /\ live' = live => Cardinality(Stormy) >= GlobalPauseThreshold)
<1> SUFFICES ASSUME GuardInv, SuppressedInv, [Next]_vars, ~paused, paused', live' = live
             PROVE  Cardinality(Stormy) >= GlobalPauseThreshold
  OBVIOUS
<1>1. PICK k \in Keys : CheckStorm(k)
  BY DEF Next, Tick, Start, IngressListens, Crash, CheckPaused, CheckAllowed, CliProbe,
         CliAskService, CliWriteFile, vars, guardVars
<1>2. /\ Logged(k, "storm") /\ suppressed' = Suppressing(k[1])
      /\ Cardinality(suppressed') >= GlobalPauseThreshold
  BY <1>1 DEF CheckStorm, Storm
<1>3. SuppressedInv' /\ \A r \in suppressed' : r.at + GlobalPauseWindow >= now
  BY <1>2, StormIsRecorded
<1>4. \A r \in suppressed' : r.message \in Stormy
  <2> SUFFICES ASSUME NEW r \in suppressed' PROVE r.message \in Stormy
    OBVIOUS
  <2>1. r.message \in Messages
    BY <1>3 DEF SuppressedInv, Records
  <2>2. PICK target \in Targets : StormAt(<<r.message, target>>, r.at)'
    BY <1>3 DEF SuppressedInv, IsStorm, StormAt
  <2> DEFINE key == <<r.message, target>>
  <2>3. PICK j \in 1 .. Len(log'[key]) : log'[key][j] = [at |-> r.at, outcome |-> "storm"]
    BY <2>2 DEF StormAt
  <2>4. key \in {r.message} \X Targets
    OBVIOUS
  <2>5. r.at \in StormsOf(r.message)
    BY <2>3, <2>4 DEF StormsOf
  <2>. QED
    BY <1>3, <2>1, <2>5 DEF Stormy
<1> DEFINE f == [r \in suppressed' |-> r.message]
<1>5. f \in Injection(suppressed', Stormy)
  BY <1>3, <1>4 DEF Injection, IsInjective, SuppressedInv
<1>6. IsFiniteSet(Stormy)
  BY FS_Subset, DeliverySafetyAssumption DEF Stormy
<1>7. IsFiniteSet(suppressed') /\ Cardinality(suppressed') <= Cardinality(Stormy)
  BY <1>5, <1>6, FS_Injection
<1>8. Cardinality(suppressed') \in Nat /\ Cardinality(Stormy) \in Nat /\ GlobalPauseThreshold \in Nat
  BY <1>6, <1>7, FS_CardinalityType, DeliverySafetyAssumption
<1>. QED
  BY <1>2, <1>7, <1>8

\* All delivery is paused only when as many different messages as the threshold says
\* have run into a storm within the pause window, for any windows and thresholds.
THEOREM PauseHasReasons == Spec => PauseIsJustified
<1>1. Init => GuardInv /\ SuppressedInv
  BY InitialGuard DEF Init, SuppressedInv
<1>2. GuardInv /\ SuppressedInv /\ [Next]_vars => (GuardInv /\ SuppressedInv)'
  BY StepKeepsGuard, StepKeepsSuppressed
<1>3. GuardInv /\ SuppressedInv /\ [Next]_vars =>
          [~paused /\ paused' /\ live' = live =>
              Cardinality({m \in Messages : \E t \in StormsOf(m) : t + GlobalPauseWindow >= now})
                  >= GlobalPauseThreshold]_vars
  BY PauseHasStorms DEF Stormy
<1>. QED
  BY <1>1, <1>2, <1>3, PTL DEF Spec, PauseIsJustified

\* Every operation leaves an owed pause in the file and in the guard of a running
\* service, and a pause that was reset in neither.
LEMMA StepKeepsPause == PauseInv /\ [Next]_vars => PauseInv'
<1> SUFFICES ASSUME PauseInv, [Next]_vars PROVE PauseInv'
  OBVIOUS
<1> USE DEF PauseInv, Flags, PauseIsDurable, PauseIsKept, ResetEndsPause
<1>1. CASE Tick
  BY <1>1 DEF Tick, guardVars
<1>2. CASE Start
  BY <1>2 DEF Start
<1>3. CASE IngressListens
  BY <1>3 DEF IngressListens, guardVars
<1>4. CASE Crash
  BY <1>4 DEF Crash
<1>5. CASE \E k \in Keys : CheckPaused(k)
  BY <1>5 DEF CheckPaused, vars, guardVars
<1>6. CASE \E k \in Keys : CheckAllowed(k)
  BY <1>6 DEF CheckAllowed
<1>7. ASSUME NEW k \in Keys, CheckStorm(k) PROVE PauseInv'
  <2> PICK saves \in BOOLEAN : Storm(k, saves)
    BY <1>7 DEF CheckStorm
  <2>1. CASE Cardinality(suppressed') >= GlobalPauseThreshold
    <3>1. /\ paused' = TRUE /\ resetHolds' = FALSE
          /\ saved' = (saves \/ saved) /\ owed' = saved'
      BY <2>1 DEF Storm
    <3> QED
      BY <3>1
  <2>2. CASE ~(Cardinality(suppressed') >= GlobalPauseThreshold)
    BY <2>2 DEF Storm
  <2> QED
    BY <2>1, <2>2
<1>8. CASE CliProbe
  BY <1>8 DEF CliProbe, guardVars
<1>9. CASE CliAskService
  <2>1. CASE live = "up"
    BY <1>9, <2>1 DEF CliAskService
  <2>2. CASE live # "up"
    BY <1>9, <2>2 DEF CliAskService, guardVars
  <2> QED
    BY <2>1, <2>2
<1>10. CASE CliWriteFile
  BY <1>10 DEF CliWriteFile, guardVars
<1>11. CASE UNCHANGED vars
  BY <1>11 DEF vars, guardVars
<1> QED
  BY <1>1, <1>2, <1>3, <1>4, <1>5, <1>6, <1>7, <1>8, <1>9, <1>10, <1>11 DEF Next

\* The pause and its end are as they should be from the start.
LEMMA PauseHolds == Spec => []PauseInv
<1>1. Init => PauseInv
  BY DEF Init, PauseInv, Flags, PauseIsDurable, PauseIsKept, ResetEndsPause
<1> QED
  BY <1>1, StepKeepsPause, PTL DEF Spec

\* A pause that was saved is in force whenever the service runs until a reset
\* begins to end it, however often the service has been restarted, and a reset that
\* reached the service, or the file of no service, is not undone by a restart: the
\* guard reads the file before anything can deliver, and a reset empties both.
THEOREM PauseLasts == Spec => []PauseIsDurable
<1>1. PauseInv => PauseIsDurable
  BY DEF PauseInv
<1> QED
  BY <1>1, PauseHolds, PTL

\* All three hold of the whole service, in which the ingress and the watch deliver at
\* once while hooks, reloads and the reset command come and go.
THEOREM GuardHoldsForAll ==
    NotifySpec => []StormsAreCutOff /\ []PauseIsDurable /\ PauseIsJustified
  BY RouterObeysTheGuard, StormsEnd, PauseLasts, PauseHasReasons, PTL

----------------------------------------------------------------------------
\* What callers are told of the delivery of their events.

KindOf(m) == IF m \in Sessions THEN "claude_code"
             ELSE IF m \in Emitted THEN "emitted" ELSE "codex_cli"

\* The targets that are done and those that are left are the route's, in order.
OnRoute(done, left, route) ==
    /\ Len(done) + Len(left) = Len(route)
    /\ \A i \in 1 .. Len(done) : done[i].target = route[i]
    /\ \A i \in 1 .. Len(left) : left[i] = route[Len(done) + i]

\* The job of the ingress is for its first caller, who asked for a delivery.
ServesFirst ==
    job["ingress"] # NoJob =>
        /\ job["ingress"].message = Head(queue).from
        /\ Head(queue).asks # "turn_start"
        /\ OnRoute(job["ingress"].done, job["ingress"].left, scene.route[KindOf(Head(queue).from)])

\* Settling a target keeps to the route.
LEMMA RouteGoesOn ==
    ASSUME NEW route \in Seq(Targets), NEW done \in Seq(Results), NEW left \in Seq(Targets),
           left # <<>>, OnRoute(done, left, route), NEW r \in Results, r.target = Head(left)
    PROVE  OnRoute(Append(done, r), Tail(left), route)
<1>1. Len(done) \in Nat /\ Len(left) \in Nat /\ Len(left) >= 1
  BY LenProperties, EmptySeq
<1>2. /\ Len(Tail(left)) = Len(left) - 1 /\ Head(left) = left[1]
      /\ \A i \in 1 .. Len(left) - 1 : Tail(left)[i] = left[i + 1]
  BY <1>1, HeadTailProperties
<1>3. /\ Len(Append(done, r)) = Len(done) + 1
      /\ \A i \in 1 .. Len(done) : Append(done, r)[i] = done[i]
      /\ Append(done, r)[Len(done) + 1] = r
  BY <1>1, AppendProperties
<1>4. Len(Append(done, r)) + Len(Tail(left)) = Len(route)
  BY <1>1, <1>2, <1>3 DEF OnRoute
<1>5. \A i \in 1 .. Len(Append(done, r)) : Append(done, r)[i].target = route[i]
  <2> SUFFICES ASSUME NEW i \in 1 .. Len(done) + 1 PROVE Append(done, r)[i].target = route[i]
    BY <1>3
  <2>1. CASE i = Len(done) + 1
    <3>1. left[1] = route[Len(done) + 1]
      BY <1>1 DEF OnRoute
    <3>. QED
      BY <1>2, <1>3, <2>1, <3>1
  <2>2. CASE i \in 1 .. Len(done)
    BY <1>3, <2>2 DEF OnRoute
  <2>. QED
    BY <1>1, <2>1, <2>2
<1>6. \A i \in 1 .. Len(Tail(left)) : Tail(left)[i] = route[Len(Append(done, r)) + i]
  <2> SUFFICES ASSUME NEW i \in 1 .. Len(left) - 1 PROVE Tail(left)[i] = route[Len(done) + 1 + i]
    BY <1>2, <1>3
  <2>1. i + 1 \in 1 .. Len(left) /\ Len(done) + (i + 1) = Len(done) + 1 + i
    BY <1>1
  <2>2. left[i + 1] = route[Len(done) + (i + 1)]
    BY <2>1 DEF OnRoute
  <2>. QED
    BY <1>2, <2>1, <2>2
<1>. QED
  BY <1>4, <1>5, <1>6 DEF OnRoute

\* The job that begins for a caller goes by the route of its kind.
LEMMA JobOnRoute ==
    ASSUME Shapes, NEW m \in Messages
    PROVE  /\ Job(m, KindOf(m)).message = m
           /\ OnRoute(Job(m, KindOf(m)).done, Job(m, KindOf(m)).left, scene.route[KindOf(m)])
<1>1. KindOf(m) \in Kinds /\ scene.route[KindOf(m)] \in Seq(Targets)
  BY SceneIs DEF Shapes, KindOf, Kinds
<1>2. PICK route \in Seq(Targets) : route = scene.route[KindOf(m)]
  BY <1>1
<1>3. Job(m, KindOf(m)) = [message |-> m, left |-> route, sending |-> FALSE, done |-> <<>>]
  <2>1. Job(m, KindOf(m)) = [NoJob EXCEPT !.message = m, !.left = route]
    BY <1>2 DEF Job
  <2>. QED
    BY <2>1 DEF NoJob
<1>4. Len(route) \in Nat /\ Len(<<>>) = 0
  BY <1>2, LenProperties, EmptySeq
<1>. QED
  BY <1>2, <1>3, <1>4 DEF OnRoute

\* A finished job has been through its route.
LEMMA RouteIsDone ==
    ASSUME NEW route \in Seq(Targets), NEW done \in Seq(Results), OnRoute(done, <<>>, route)
    PROVE  [i \in 1 .. Len(done) |-> done[i].target] = route
<1>1. Len(done) = Len(route) /\ Len(route) \in Nat
  BY LenProperties, EmptySeq DEF OnRoute
<1>2. route \in [1 .. Len(route) -> Targets]
  BY LenProperties
<1>3. \A i \in 1 .. Len(done) : done[i].target = route[i]
  BY DEF OnRoute
<1>. QED
  BY <1>1, <1>2, <1>3

\* The first caller stays the first while others join.
LEMMA FirstStays ==
    ASSUME Shapes, queue # <<>>, NEW c, NEW asks, NEW at, Call(c, asks, at),
           [from |-> c, asks |-> asks, at |-> at] \in Requests
    PROVE  Head(queue') = Head(queue)
<1>1. queue \in Seq(Requests) /\ queue' = Append(queue, [from |-> c, asks |-> asks, at |-> at])
  BY DEF Shapes, Call
<1>2. queue' \in Seq(Requests) /\ queue' # <<>> /\ Len(queue) \in Nat /\ Len(queue) >= 1
      /\ \A i \in 1 .. Len(queue) : queue'[i] = queue[i]
  BY CallJoins, FirstIs
<1>3. queue'[1] = queue[1]
  BY <1>2
<1>. QED
  BY <1>1, <1>2, <1>3, HeadTailProperties

\* Its part of the invariant: the answer that was given last was true as well.
LEMMA StepKeepsServing ==
    Shapes /\ Shapes' /\ ServesFirst /\ [NotifyNext]_nvars => ServesFirst'
<1> SUFFICES ASSUME Shapes, Shapes', ServesFirst, [NotifyNext]_nvars PROVE ServesFirst'
  OBVIOUS
<1> DEFINE j == job["ingress"]
<1>1. /\ queue \in Seq(Requests) /\ job \in [Tasks -> Jobs \cup {NoJob}]
      /\ j # NoJob => queue # <<>>
      /\ "ingress" \in Tasks
  BY DEF Shapes, Tasks
<1>2. CASE job'["ingress"] = NoJob
  BY <1>2 DEF ServesFirst
<1>3. CASE job'["ingress"] = j /\ (j # NoJob => Head(queue') = Head(queue)) /\ UNCHANGED scene
  BY <1>3 DEF ServesFirst, KindOf
<1>4. CASE Quiet
  BY <1>3, <1>4 DEF Quiet, ingressVars
<1>5. ASSUME NEW m \in Messages, Emit(m) PROVE ServesFirst'
  <2>1. m \in Emitted /\ Call(m, "emitted", now) /\ UNCHANGED <<scene, job>>
    BY <1>5 DEF Emit
  <2>2. [from |-> m, asks |-> "emitted", at |-> now] \in Requests
    BY <2>1, CallersAre DEF Shapes
  <2>. QED
    BY <1>1, <1>3, <2>1, <2>2, FirstStays
<1>6. ASSUME NEW m \in Messages, Prompt(m) \/ StopTurn(m) PROVE ServesFirst'
  <2>1. /\ m \in Sessions /\ UNCHANGED <<scene, job>>
        /\ Call(m, "turn_start", now) \/ Call(m, "claude_code", now) \/ UNCHANGED queue
    BY <1>6 DEF Prompt, StopTurn
  <2>2. /\ [from |-> m, asks |-> "turn_start", at |-> now] \in Requests
        /\ [from |-> m, asks |-> "claude_code", at |-> now] \in Requests
    BY <2>1, CallersAre DEF Shapes
  <2>. QED
    BY <1>1, <1>3, <2>1, <2>2, FirstStays
<1>7. ASSUME NEW t \in Turns, RunStopHook(t) PROVE ServesFirst'
  <2>1. /\ UNCHANGED <<scene, job>>
        /\ Call(TurnMessage[t], "codex_cli", now) \/ UNCHANGED queue
    BY <1>7 DEF RunStopHook
  <2>2. [from |-> TurnMessage[t], asks |-> "codex_cli", at |-> now] \in Requests
    BY CallersAre DEF Shapes
  <2>. QED
    BY <1>1, <1>3, <2>1, <2>2, FirstStays
<1>8. CASE RouteSignal \/ SignalRouted
  <2>1. /\ UNCHANGED <<scene, queue>>
        /\ \E new : job' = [job EXCEPT !["watcher"] = new]
    BY <1>8 DEF RouteSignal, SignalRouted, Others, ingressVars
  <2>. QED
    BY <1>1, <1>3, <2>1
<1>9. ASSUME NEW task \in Tasks, Deliver(task) PROVE ServesFirst'
  <2> DEFINE old == job[task]
  <2>1. /\ old \in Jobs /\ old.left # <<>>
        /\ UNCHANGED <<scene, platform, queue>>
        /\ \/ job' = [job EXCEPT ![task] = [old EXCEPT !.sending = TRUE]]
           \/ \E result \in {"sent", "failed", "suppressed"}, taken \in BOOLEAN :
                  /\ result = "sent" /\ platform[Head(old.left)] \in Exact => taken
                  /\ job' = [job EXCEPT ![task] = Settled(old, result, taken)]
    BY <1>9, DeliveryIs DEF ingressVars
  <2>2. CASE task # "ingress"
    <3>1. job'["ingress"] = j
      BY <1>1, <2>1, <2>2
    <3>. QED
      BY <1>3, <2>1, <3>1
  <2>3. CASE task = "ingress"
    <3>1. /\ old.message = Head(queue).from /\ Head(queue).asks # "turn_start"
          /\ OnRoute(old.done, old.left, scene.route[KindOf(Head(queue).from)])
      BY <2>1, <2>3, NoJobIsNone DEF ServesFirst
    <3>2. KindOf(Head(queue)'.from) = KindOf(Head(queue).from)
      BY <2>1 DEF KindOf
    <3>3. CASE job' = [job EXCEPT ![task] = [old EXCEPT !.sending = TRUE]]
      <4>1. /\ job'["ingress"].message = old.message /\ job'["ingress"].done = old.done
            /\ job'["ingress"].left = old.left
        BY <1>1, <2>1, <2>3, <3>3 DEF Jobs
      <4>. QED
        BY <2>1, <3>1, <3>2, <4>1 DEF ServesFirst, KindOf
    <3>4. ASSUME NEW result \in {"sent", "failed", "suppressed"}, NEW taken \in BOOLEAN,
                 result = "sent" /\ platform[Head(old.left)] \in Exact => taken,
                 job' = [job EXCEPT ![task] = Settled(old, result, taken)]
          PROVE  ServesFirst'
      <4> DEFINE r == [target |-> Head(old.left), result |-> result, taken |-> taken]
      <4>1. /\ old.left \in Seq(Targets) /\ old.done \in Seq(Results)
            /\ old = [message |-> old.message, left |-> old.left, sending |-> old.sending,
                      done |-> old.done]
        BY <2>1 DEF Jobs
      <4>2. Head(old.left) \in Targets
        BY <2>1, <4>1, HeadTailProperties
      <4>3. r \in Results /\ r.target = Head(old.left)
        BY <3>4, <4>2 DEF Results
      <4>4. /\ Settled(old, result, taken).message = old.message
            /\ Settled(old, result, taken).left = Tail(old.left)
            /\ Settled(old, result, taken).done = Append(old.done, r)
        BY <4>1 DEF Settled
      <4>5. scene.route[KindOf(Head(queue).from)] \in Seq(Targets)
        BY SceneIs DEF Shapes, KindOf, Kinds
      <4>6. OnRoute(Append(old.done, r), Tail(old.left), scene.route[KindOf(Head(queue).from)])
        BY <2>1, <3>1, <4>1, <4>3, <4>5, RouteGoesOn
      <4>7. job'["ingress"] = Settled(old, result, taken)
        BY <1>1, <2>3, <3>4
      <4> HIDE DEF r, old
      <4>. QED
        BY <2>1, <3>1, <4>4, <4>6, <4>7 DEF ServesFirst, KindOf
    <3>. QED
      BY <2>1, <3>3, <3>4
  <2>. QED
    BY <2>2, <2>3
<1>10. CASE ServeTurnStart
  BY <1>2, <1>10 DEF ServeTurnStart, Serving, Idle
<1>11. CASE ServeClaudeStop \/ ServeCodexStop \/ ServeEmitted
  <2>1. queue # <<>> /\ UNCHANGED scene /\ j = NoJob
    BY <1>11 DEF ServeClaudeStop, ServeCodexStop, ServeEmitted, Serving, Idle
  <2>2. PICK request \in Requests : request = Head(queue)
    BY <2>1, FirstIs
  <2>3. \/ UNCHANGED job
        \/ /\ job' = [job EXCEPT !["ingress"] = Job(request.from, KindOf(request.from))]
           /\ UNCHANGED queue /\ request.asks # "turn_start"
    <3>1. CASE ServeClaudeStop
      <4>1. KindOf(request.from) = "claude_code"
        BY <2>2, <3>1, CallersAre DEF ServeClaudeStop, KindOf
      <4>. QED
        BY <2>2, <3>1, <4>1 DEF ServeClaudeStop
    <3>2. CASE ServeCodexStop
      <4>1. KindOf(request.from) = "codex_cli"
        BY <2>2, <3>2, CallersAre, NotificationsAssumption DEF ServeCodexStop, KindOf
      <4>. QED
        BY <2>2, <3>2, <4>1 DEF ServeCodexStop
    <3>3. CASE ServeEmitted
      <4>1. KindOf(request.from) = "emitted"
        BY <2>2, <3>3, CallersAre, NotificationsAssumption DEF ServeEmitted, KindOf
      <4>. QED
        BY <2>2, <3>3, <4>1 DEF ServeEmitted
    <3>. QED
      BY <1>11, <3>1, <3>2, <3>3
  <2>4. CASE UNCHANGED job
    BY <1>2, <2>1, <2>4
  <2>5. CASE /\ job' = [job EXCEPT !["ingress"] = Job(request.from, KindOf(request.from))]
             /\ UNCHANGED queue /\ request.asks # "turn_start"
    <3>1. request.from \in Messages
      BY CallersAre
    <3>2. job'["ingress"] = Job(request.from, KindOf(request.from))
      BY <1>1, <2>5
    <3>3. /\ job'["ingress"].message = request.from
          /\ OnRoute(job'["ingress"].done, job'["ingress"].left, scene.route[KindOf(request.from)])
      BY <3>1, <3>2, JobOnRoute
    <3>4. Head(queue') = request /\ scene' = scene /\ request.asks # "turn_start"
      BY <2>1, <2>2, <2>5
    <3>. QED
      BY <3>3, <3>4 DEF ServesFirst, KindOf
  <2>. QED
    BY <2>3, <2>4, <2>5
<1>12. CASE Answer
  <2>1. job'["ingress"] = NoJob
    BY <1>1, <1>12 DEF Answer
  <2>. QED
    BY <1>2, <2>1
<1>13. CASE Die
  <2>1. job'["ingress"] = NoJob
    BY <1>1, <1>13 DEF Die
  <2>. QED
    BY <1>2, <2>1
<1>. QED
  BY <1>4, <1>5, <1>6, <1>7, <1>8, <1>9, <1>10, <1>11, <1>12, <1>13, StepsAre

LEMMA StepKeepsOutcome ==
    Shapes /\ ServesFirst /\ OutcomeIsTrue /\ [NotifyNext]_nvars => OutcomeIsTrue'
<1> SUFFICES ASSUME Shapes, ServesFirst, OutcomeIsTrue, [NotifyNext]_nvars PROVE OutcomeIsTrue'
  OBVIOUS
<1>1. CASE UNCHANGED <<answer, scene, platform>>
  BY <1>1 DEF OutcomeIsTrue
<1>2. CASE answer'.verdict \notin {"ok", "error"}
  BY <1>2 DEF OutcomeIsTrue
<1>3. CASE Quiet
  BY <1>1, <1>3 DEF Quiet, ingressVars
<1>4. ASSUME NEW m \in Messages, Emit(m) \/ Prompt(m) \/ StopTurn(m) PROVE OutcomeIsTrue'
  BY <1>1, <1>4 DEF Emit, Prompt, StopTurn
<1>5. ASSUME NEW t \in Turns, RunStopHook(t) PROVE OutcomeIsTrue'
  BY <1>1, <1>5 DEF RunStopHook
<1>6. CASE RouteSignal \/ SignalRouted
  BY <1>1, <1>6 DEF RouteSignal, SignalRouted, Others, ingressVars
<1>7. ASSUME NEW task \in Tasks, Deliver(task) PROVE OutcomeIsTrue'
  <2>1. UNCHANGED <<answer, scene, platform>>
    BY <1>7, DeliveryIs DEF ingressVars
  <2>. QED
    BY <1>1, <2>1
<1>8. CASE ServeTurnStart \/ ServeCodexStop \/ ServeEmitted
  BY <1>2, <1>8 DEF ServeTurnStart, ServeCodexStop, ServeEmitted, NoAnswer
<1>9. CASE ServeClaudeStop
  BY <1>2, <1>9 DEF ServeClaudeStop, NoAnswer, Answered
<1>10. CASE Answer
  <2> DEFINE j == job["ingress"]
             c == Head(queue).from
  <2>1. j # NoJob /\ j.left = <<>>
    BY <1>10 DEF Answer, Delivered, Idle
  <2>2. /\ answer'.to = c /\ answer'.verdict = Verdict(j.done) /\ answer'.done = j.done
        /\ UNCHANGED <<scene, platform>>
    BY <1>10 DEF Answer, Answered
  <2>3. j \in Jobs /\ j.done \in Seq(Results)
    <3>1. j \in Jobs
      BY <2>1 DEF Shapes, Tasks
    <3>. QED
      BY <3>1 DEF Jobs
  <2>4. OnRoute(j.done, <<>>, scene.route[KindOf(c)])
    BY <2>1 DEF ServesFirst
  <2>5. scene.route[KindOf(c)] \in Seq(Targets)
    BY SceneIs DEF Shapes, KindOf, Kinds
  <2> HIDE DEF j, c
  <2>6. [i \in 1 .. Len(j.done) |-> j.done[i].target] = scene.route[KindOf(c)]
    BY <2>3, <2>4, <2>5, RouteIsDone
  <2>7. \A i \in 1 .. Len(j.done) :
            j.done[i].result = "sent" /\ platform[j.done[i].target] \in Exact => j.done[i].taken
    <3>1. \A i \in 1 .. Len(j.done) : j.done[i] \in Results
      BY <2>3, ElementOfSeq
    <3>. QED
      BY <3>1 DEF Results
  <2>8. Verdict(j.done) = "error" <=> \E i \in 1 .. Len(j.done) : j.done[i].result = "failed"
    BY DEF Verdict
  <2>. QED
    BY <2>2, <2>6, <2>7, <2>8 DEF OutcomeIsTrue, KindOf
<1>11. CASE Die
  BY <1>1, <1>11 DEF Die
<1>. QED
  BY <1>3, <1>4, <1>5, <1>6, <1>7, <1>8, <1>9, <1>10, <1>11, StepsAre

\* The answer that a caller gets is the truth about its event, for any routes,
\* platforms and answers: each target of its kind's route was tried once and in order, an
\* error means that one of them failed, and what a platform whose answer is read exactly is
\* said to have got, it has taken.
THEOREM CallersHearTheTruth == NotifySpec => []OutcomeIsTrue
<1>1. NotifyInit => ServesFirst /\ OutcomeIsTrue
  BY DEF NotifyInit, ServesFirst, OutcomeIsTrue, NoAnswer, Tasks
<1>2. (FilesFit /\ WatchFits /\ Shapes)' /\ FilesFit /\ WatchFits /\ Shapes
              /\ ServesFirst /\ OutcomeIsTrue /\ [NotifyNext]_nvars
          => (ServesFirst /\ OutcomeIsTrue)'
  BY StepKeepsServing, StepKeepsOutcome
<1>. QED
  BY <1>1, <1>2, ShapesHold, PTL DEF NotifySpec

----------------------------------------------------------------------------
\* What the ingress knows of the turns of Claude Code.

\* Each session has at most one hook waiting, and one that tells of a start tells
\* when it was.
Once == \A i, k \in 1 .. Len(queue) :
            queue[i].from \in Sessions /\ queue[i].from = queue[k].from => i = k
Told == \A i \in 1 .. Len(queue) :
            queue[i].asks = "turn_start" => queue[i].at = session[queue[i].from].since

\* The start that is kept is the turn's own, until a hook that waits tells of the next.
Awaits(s) == \E i \in 1 .. Len(queue) : queue[i].from = s /\ queue[i].asks = "turn_start"
Known == \A s \in Sessions : starts[s] \in {NoTime, session[s].since} \/ Awaits(s)
Unknown == live # "up" => \A s \in Sessions : starts[s] = NoTime

\* A start that was heard of is kept until its turn's completion is being delivered,
\* which was then long enough.
InHand(s) == job["ingress"] # NoJob /\ Head(queue).from = s
Heard == \A s \in Sessions :
             session[s].heard => session[s].since # NoTime /\ (starts[s] = session[s].since \/ InHand(s))
LongOne == \A s \in Sessions :
               InHand(s) /\ session[s].heard => Head(queue).at - session[s].since >= MinDuration

TimesFit == Once /\ Told /\ Known /\ Unknown /\ Heard /\ LongOne

\* A call leaves those that wait where they are.
LEMMA CallFits ==
    ASSUME Shapes, TimesFit, NEW c, NEW asks, NEW at, Call(c, asks, at),
           [from |-> c, asks |-> asks, at |-> at] \in Requests,
           c \in Sessions => ~Waiting(c),
           \A s \in Sessions : s # c => session'[s] = session[s],
           asks = "turn_start" => at = session'[c].since
    PROVE  /\ Once' /\ Told'
           /\ \A s : Awaits(s) => Awaits(s)'
           /\ asks = "turn_start" => Awaits(c)'
<1> DEFINE n == Len(queue)
           e == [from |-> c, asks |-> asks, at |-> at]
<1>1. /\ n \in Nat /\ Len(queue') = n + 1
      /\ \A i \in 1 .. n : queue'[i] = queue[i]
      /\ queue'[n + 1] = e
  BY CallJoins
<1>2. \A i \in 1 .. n : queue[i] \in Requests
  BY ElementOfSeq DEF Shapes
<1>3. c \in Sessions => \A i \in 1 .. n : queue[i].from # c
  BY DEF Waiting
<1>4. e.from = c /\ e.asks = asks /\ e.at = at
  OBVIOUS
<1>5. Once /\ Told
  BY DEF TimesFit
<1> HIDE DEF e
<1>6. Once'
  <2> SUFFICES ASSUME NEW i \in 1 .. n + 1, NEW k \in 1 .. n + 1,
                      queue'[i].from \in Sessions, queue'[i].from = queue'[k].from
               PROVE  i = k
    BY <1>1 DEF Once
  <2>1. CASE i \in 1 .. n /\ k \in 1 .. n
    BY <1>1, <1>5, <2>1 DEF Once
  <2>2. CASE i = n + 1 /\ k \in 1 .. n
    BY <1>1, <1>3, <1>4, <2>2
  <2>3. CASE i \in 1 .. n /\ k = n + 1
    BY <1>1, <1>3, <1>4, <2>3
  <2>. QED
    BY <1>1, <2>1, <2>2, <2>3
<1>7. Told'
  <2> SUFFICES ASSUME NEW i \in 1 .. n + 1, queue'[i].asks = "turn_start"
               PROVE  queue'[i].at = session'[queue'[i].from].since
    BY <1>1 DEF Told
  <2>1. CASE i \in 1 .. n
    <3>1. queue'[i] = queue[i] /\ queue[i] \in Requests /\ queue[i].asks = "turn_start"
      BY <1>1, <1>2, <2>1
    <3>2. queue[i].from \in Sessions
      BY <3>1, CallersAre
    <3>3. queue[i].from # c
      BY <1>3, <2>1, <3>2
    <3>4. queue[i].at = session[queue[i].from].since
      BY <1>5, <2>1, <3>1 DEF Told
    <3>. QED
      BY <3>1, <3>2, <3>3, <3>4
  <2>2. CASE i = n + 1
    BY <1>1, <1>4, <2>2
  <2>. QED
    BY <1>1, <2>1, <2>2
<1>8. ASSUME NEW s, Awaits(s) PROVE Awaits(s)'
  <2>1. PICK i \in 1 .. n : queue[i].from = s /\ queue[i].asks = "turn_start"
    BY <1>8 DEF Awaits
  <2>2. i \in 1 .. n + 1 /\ queue'[i] = queue[i]
    BY <1>1, <2>1
  <2>. QED
    BY <1>1, <2>1, <2>2 DEF Awaits
<1>9. ASSUME asks = "turn_start" PROVE Awaits(c)'
  <2>1. n + 1 \in 1 .. n + 1
    BY <1>1
  <2>. QED
    BY <1>1, <1>4, <1>9, <2>1 DEF Awaits
<1>. QED
  BY <1>6, <1>7, <1>8, <1>9

\* When the first is done with, the others wait on.
LEMMA LeavingFits ==
    ASSUME Shapes, TimesFit, queue # <<>>, queue' = Tail(queue),
           \A s \in Sessions : session'[s].since = session[s].since
    PROVE  /\ Once' /\ Told'
           /\ \A s : Awaits(s) /\ (s # Head(queue).from \/ Head(queue).asks # "turn_start")
                         => Awaits(s)'
<1> DEFINE n == Len(queue)
<1>1. /\ n \in Nat /\ n >= 1 /\ Len(queue') = n - 1
      /\ \A i \in 1 .. n - 1 : queue'[i] = queue[i + 1]
      /\ Head(queue) = queue[1]
  BY FirstLeaves
<1>2. \A i \in 1 .. n : queue[i] \in Requests
  BY ElementOfSeq DEF Shapes
<1>3. Once /\ Told
  BY DEF TimesFit
<1>4. \A i \in 1 .. n - 1 : i + 1 \in 1 .. n
  BY <1>1
<1>5. Once'
  <2> SUFFICES ASSUME NEW i \in 1 .. n - 1, NEW k \in 1 .. n - 1,
                      queue'[i].from \in Sessions, queue'[i].from = queue'[k].from
               PROVE  i = k
    BY <1>1 DEF Once
  <2>1. i + 1 = k + 1
    BY <1>1, <1>3, <1>4 DEF Once
  <2>. QED
    BY <1>1, <2>1
<1>6. Told'
  <2> SUFFICES ASSUME NEW i \in 1 .. n - 1, queue'[i].asks = "turn_start"
               PROVE  queue'[i].at = session'[queue'[i].from].since
    BY <1>1 DEF Told
  <2>1. queue'[i] = queue[i + 1] /\ queue[i + 1] \in Requests
    BY <1>1, <1>2, <1>4
  <2>2. queue[i + 1].from \in Sessions
    BY <2>1, CallersAre
  <2>3. queue[i + 1].at = session[queue[i + 1].from].since
    BY <1>3, <1>4, <2>1 DEF Told
  <2>. QED
    BY <2>1, <2>2, <2>3
<1>7. ASSUME NEW s, Awaits(s), s # Head(queue).from \/ Head(queue).asks # "turn_start"
      PROVE  Awaits(s)'
  <2>1. PICK i \in 1 .. n : queue[i].from = s /\ queue[i].asks = "turn_start"
    BY <1>7 DEF Awaits
  <2>2. i # 1
    BY <1>1, <1>7, <2>1
  <2>3. i - 1 \in 1 .. n - 1 /\ (i - 1) + 1 = i
    BY <1>1, <2>2
  <2>4. queue'[i - 1] = queue[i]
    BY <1>1, <2>3
  <2>. QED
    BY <1>1, <2>1, <2>3, <2>4 DEF Awaits
<1>. QED
  BY <1>5, <1>6, <1>7

\* A call of one who is not a session, or a session's hook.
LEMMA CallKeepsTimes ==
    ASSUME Shapes, ServesFirst, TimesFit, NEW c, NEW asks, NEW at, Call(c, asks, at),
           [from |-> c, asks |-> asks, at |-> at] \in Requests,
           c \in Sessions => ~Waiting(c), live = "up",
           UNCHANGED <<job, starts, live>>,
           \/ UNCHANGED session /\ asks # "turn_start"
           \/ /\ session' = [session EXCEPT ![c] = [since |-> at, heard |-> FALSE]]
              /\ asks = "turn_start" /\ c \in Sessions
    PROVE  TimesFit'
<1>1. /\ starts \in [Sessions -> 0 .. NoTime]
      /\ session \in [Sessions -> [since : 0 .. NoTime, heard : BOOLEAN]]
      /\ job["ingress"] # NoJob => queue # <<>>
  BY DEF Shapes
<1>2. \A s \in Sessions : s # c => session'[s] = session[s]
  BY <1>1
<1>3. asks = "turn_start" => session'[c] = [since |-> at, heard |-> FALSE]
  BY <1>1
<1>4. asks = "turn_start" => at = session'[c].since
  BY <1>3
<1>5. /\ Once' /\ Told' /\ \A s : Awaits(s) => Awaits(s)'
      /\ asks = "turn_start" => Awaits(c)'
  BY <1>2, <1>4, CallFits
<1>6. \A s : InHand(s) <=> InHand(s)'
  BY <1>1, FirstStays DEF InHand
<1>7. job["ingress"] # NoJob => Head(queue') = Head(queue)
  BY <1>1, FirstStays
<1>8. /\ \A s \in Sessions : starts[s] \in {NoTime, session[s].since} \/ Awaits(s)
      /\ \A s \in Sessions : session[s].heard =>
             session[s].since # NoTime /\ (starts[s] = session[s].since \/ InHand(s))
      /\ \A s \in Sessions :
             InHand(s) /\ session[s].heard => Head(queue).at - session[s].since >= MinDuration
  BY DEF TimesFit, Known, Heard, LongOne
<1>9. \A s \in Sessions : session'[s] = session[s] \/ (~session'[s].heard /\ Awaits(s)')
  BY <1>2, <1>3, <1>5
<1>10. Known'
  BY <1>5, <1>8, <1>9 DEF Known
<1>11. Heard'
  BY <1>6, <1>8, <1>9 DEF Heard
<1>12. LongOne'
  <2> SUFFICES ASSUME NEW s \in Sessions, InHand(s)', session'[s].heard
               PROVE  Head(queue').at - session'[s].since >= MinDuration
    BY DEF LongOne
  <2>1. session'[s] = session[s] /\ InHand(s)
    BY <1>6, <1>9
  <2>2. Head(queue') = Head(queue)
    BY <1>7, <2>1 DEF InHand
  <2>. QED
    BY <1>8, <2>1, <2>2
<1>13. Unknown'
  BY DEF Unknown
<1>. QED
  BY <1>5, <1>10, <1>11, <1>12, <1>13 DEF TimesFit

\* The first is done with: its session's start is forgotten, or no session's is.
LEMMA LeavingKeepsTimes ==
    ASSUME Shapes, TimesFit, queue # <<>>, queue' = Tail(queue), live' = live,
           Head(queue).asks # "turn_start", job'["ingress"] = NoJob,
           \A s \in Sessions : starts'[s] \in {NoTime, starts[s]},
           \A s \in Sessions : s # Head(queue).from => starts'[s] = starts[s] /\ ~InHand(s),
           \A s \in Sessions : session'[s].since = session[s].since,
           \A s \in Sessions : s # Head(queue).from => session'[s].heard = session[s].heard,
           Head(queue).from \in Sessions => ~session'[Head(queue).from].heard
    PROVE  TimesFit'
<1>1. Once' /\ Told' /\ \A s : Awaits(s) => Awaits(s)'
  BY LeavingFits
<1>2. /\ \A s \in Sessions : starts[s] \in {NoTime, session[s].since} \/ Awaits(s)
      /\ \A s \in Sessions : session[s].heard =>
             session[s].since # NoTime /\ (starts[s] = session[s].since \/ InHand(s))
  BY DEF TimesFit, Known, Heard
<1>3. Known'
  BY <1>1, <1>2 DEF Known
<1>4. Heard'
  <2> SUFFICES ASSUME NEW s \in Sessions, session'[s].heard
               PROVE  session'[s].since # NoTime /\ starts'[s] = session'[s].since
    BY DEF Heard
  <2>1. s # Head(queue).from
    OBVIOUS
  <2>2. session[s].heard
    BY <2>1
  <2>. QED
    BY <1>2, <2>1, <2>2
<1>5. LongOne' /\ Unknown'
  BY DEF TimesFit, LongOne, InHand, Unknown
<1>. QED
  BY <1>1, <1>3, <1>4, <1>5 DEF TimesFit

LEMMA StepKeepsTimes ==
    Shapes /\ ServesFirst /\ TimesFit /\ [NotifyNext]_nvars => TimesFit'
<1> SUFFICES ASSUME Shapes, ServesFirst, TimesFit, [NotifyNext]_nvars PROVE TimesFit'
  OBVIOUS
<1>1. /\ queue \in Seq(Requests) /\ job \in [Tasks -> Jobs \cup {NoJob}]
      /\ starts \in [Sessions -> 0 .. NoTime]
      /\ session \in [Sessions -> [since : 0 .. NoTime, heard : BOOLEAN]]
      /\ job["ingress"] # NoJob => queue # <<>>
      /\ now \in 0 .. MaxTime /\ MaxTime \in Nat /\ NoTime = MaxTime + 1
      /\ "ingress" \in Tasks
  BY DeliverySafetyAssumption DEF Shapes, Tasks, NoTime
<1>2. CASE /\ UNCHANGED <<queue, starts, session>>
           /\ job'["ingress"] = NoJob <=> job["ingress"] = NoJob
           /\ live' # "up" => live # "up"
  <2>1. Once' /\ Told' /\ Known' /\ Unknown'
    BY <1>2 DEF TimesFit, Once, Told, Known, Unknown, Awaits
  <2>2. Heard' /\ LongOne'
    BY <1>2 DEF TimesFit, Heard, LongOne, InHand
  <2>. QED
    BY <2>1, <2>2 DEF TimesFit
<1>3. CASE Quiet
  BY <1>2, <1>3 DEF Quiet, ingressVars
<1>4. ASSUME NEW m \in Messages, Emit(m) PROVE TimesFit'
  <2>1. /\ m \in Emitted /\ Call(m, "emitted", now) /\ ~Waiting(m) /\ live = "up"
        /\ UNCHANGED <<job, starts, session, live>>
    BY <1>4 DEF Emit, vars
  <2>2. [from |-> m, asks |-> "emitted", at |-> now] \in Requests
    BY <1>1, <2>1, CallersAre
  <2>. QED
    BY <2>1, <2>2, CallKeepsTimes
<1>5. ASSUME NEW m \in Messages, StopTurn(m) PROVE TimesFit'
  <2>1. /\ m \in Sessions /\ Call(m, "claude_code", now) /\ ~Waiting(m) /\ live = "up"
        /\ UNCHANGED <<job, starts, session, live>>
    BY <1>5 DEF StopTurn, vars
  <2>2. [from |-> m, asks |-> "claude_code", at |-> now] \in Requests
    BY <1>1, <2>1, CallersAre
  <2>. QED
    BY <2>1, <2>2, CallKeepsTimes
<1>6. ASSUME NEW m \in Messages, Prompt(m) PROVE TimesFit'
  <2>1. /\ m \in Sessions /\ ~Waiting(m)
        /\ session' = [session EXCEPT ![m] = [since |-> now, heard |-> FALSE]]
        /\ UNCHANGED <<job, starts, live>>
    BY <1>6 DEF Prompt, vars
  <2>2. CASE live = "up"
    <3>1. Call(m, "turn_start", now)
      BY <1>6, <2>2 DEF Prompt
    <3>2. [from |-> m, asks |-> "turn_start", at |-> now] \in Requests
      BY <1>1, <2>1, CallersAre
    <3>. QED
      BY <2>1, <2>2, <3>1, <3>2, CallKeepsTimes
  <2>3. CASE live # "up"
    <3>1. UNCHANGED queue /\ \A s \in Sessions : starts[s] = NoTime
      BY <1>6, <2>3 DEF Prompt, TimesFit, Unknown
    <3>2. /\ \A s \in Sessions : s # m => session'[s] = session[s]
          /\ ~session'[m].heard
      BY <1>1, <2>1
    <3>3. \A i \in 1 .. Len(queue) : queue[i].from # m
      BY <2>1 DEF Waiting
    <3>4. Told'
      <4> SUFFICES ASSUME NEW i \in 1 .. Len(queue), queue[i].asks = "turn_start"
                   PROVE  queue[i].at = session'[queue[i].from].since
        BY <3>1 DEF Told
      <4>1. queue[i] \in Requests
        BY <1>1, ElementOfSeq
      <4>2. queue[i].from \in Sessions /\ queue[i].from # m
        BY <3>3, <4>1, CallersAre
      <4>. QED
        BY <3>2, <4>2 DEF TimesFit, Told
    <3>5. Once' /\ Known' /\ Unknown'
      BY <2>1, <3>1 DEF TimesFit, Once, Known, Unknown
    <3>6. Heard' /\ LongOne'
      BY <2>1, <3>1, <3>2 DEF TimesFit, Heard, LongOne, InHand
    <3>. QED
      BY <3>4, <3>5, <3>6 DEF TimesFit
  <2>. QED
    BY <2>2, <2>3
<1>7. ASSUME NEW t \in Turns, RunStopHook(t) PROVE TimesFit'
  <2>1. /\ UNCHANGED <<job, starts, session, live>>
        /\ (Call(TurnMessage[t], "codex_cli", now) /\ live = "up") \/ UNCHANGED queue
    BY <1>7 DEF RunStopHook, vars
  <2>2. /\ [from |-> TurnMessage[t], asks |-> "codex_cli", at |-> now] \in Requests
        /\ TurnMessage[t] \notin Sessions
    BY <1>1, CallersAre, NotificationsAssumption
  <2>3. CASE Call(TurnMessage[t], "codex_cli", now) /\ live = "up"
    BY <2>1, <2>2, <2>3, CallKeepsTimes
  <2>4. CASE UNCHANGED queue
    BY <1>2, <2>1, <2>4
  <2>. QED
    BY <2>1, <2>3, <2>4
<1>8. CASE RouteSignal \/ SignalRouted
  <2>1. /\ UNCHANGED <<queue, starts, session, live>>
        /\ \E new : job' = [job EXCEPT !["watcher"] = new]
    BY <1>8 DEF RouteSignal, SignalRouted, Others, ingressVars, vars
  <2>2. job'["ingress"] = job["ingress"]
    BY <1>1, <2>1
  <2>. QED
    BY <1>2, <2>1, <2>2
<1>9. ASSUME NEW task \in Tasks, Deliver(task) PROVE TimesFit'
  <2>1. UNCHANGED <<queue, starts, session, live>> /\ job[task] \in Jobs
    BY <1>9, DeliveryIs DEF ingressVars
  <2>2. \E new : job' = [job EXCEPT ![task] = new]
    BY <1>9, DeliveryIs
  <2>3. CASE task # "ingress"
    <3>1. job'["ingress"] = job["ingress"]
      BY <1>1, <2>2, <2>3
    <3>. QED
      BY <1>2, <2>1, <3>1
  <2>4. CASE task = "ingress"
    <3>1. job["ingress"] # NoJob
      BY <2>1, <2>4, NoJobIsNone
    <3>2. job'["ingress"] # NoJob
      <4> DEFINE j == job[task]
      <4>1. /\ j \in Jobs /\ j.left # <<>>
            /\ \/ job' = [job EXCEPT ![task] = [j EXCEPT !.sending = TRUE]]
               \/ \E result \in {"sent", "failed", "suppressed"}, taken \in BOOLEAN :
                      /\ result = "sent" /\ platform[Head(j.left)] \in Exact => taken
                      /\ job' = [job EXCEPT ![task] = Settled(j, result, taken)]
        BY <1>9, DeliveryIs
      <4>2. [j EXCEPT !.sending = TRUE] \in Jobs
        BY <4>1 DEF Jobs
      <4>3. \A result \in {"sent", "failed", "suppressed"}, taken \in BOOLEAN :
                (result = "sent" /\ platform[Head(j.left)] \in Exact => taken)
                    => Settled(j, result, taken) \in Jobs
        BY <4>1, JobGoesOn
      <4>4. job'["ingress"] \in Jobs
        <5> HIDE DEF j
        <5>. QED
          BY <1>1, <2>4, <4>1, <4>2, <4>3
      <4>. QED
        BY <4>4, NoJobIsNone
    <3>. QED
      BY <1>2, <2>1, <3>1, <3>2
  <2>. QED
    BY <2>3, <2>4
<1>10. CASE ServeTurnStart
  <2>1. /\ job["ingress"] = NoJob /\ queue # <<>> /\ live = "up"
        /\ Head(queue).asks = "turn_start"
        /\ starts' = RecordStart(Head(queue).from, Head(queue).at)
        /\ session' = [session EXCEPT ![Head(queue).from].heard = TRUE]
        /\ queue' = Tail(queue)
        /\ UNCHANGED <<job, live>>
    BY <1>10 DEF ServeTurnStart, Serving, Idle, vars
  <2>2. PICK r \in Requests : r = Head(queue)
    BY <2>1, FirstIs
  <2>3. r.from \in Sessions /\ r.at \in 0 .. MaxTime
    BY <2>1, <2>2, CallersAre
  <2>4. /\ starts'[r.from] = r.at
        /\ \A s \in Sessions : s # r.from => starts'[s] = starts[s]
    BY <1>1, <2>1, <2>2, <2>3 DEF RecordStart
  <2>5. /\ \A s \in Sessions : session'[s].since = session[s].since
        /\ \A s \in Sessions : s # r.from => session'[s].heard = session[s].heard
    BY <1>1, <2>1, <2>2, <2>3
  <2>6. r.at = session[r.from].since
    <3>1. 1 \in 1 .. Len(queue) /\ Head(queue) = queue[1]
      BY <2>1, FirstIs
    <3>. QED
      BY <2>1, <2>2, <3>1 DEF TimesFit, Told
  <2>7. Once' /\ Told' /\ \A s : Awaits(s) /\ s # r.from => Awaits(s)'
    BY <2>1, <2>2, <2>5, LeavingFits
  <2>8. Known'
    BY <2>4, <2>5, <2>6, <2>7 DEF TimesFit, Known
  <2>9. Heard'
    <3> SUFFICES ASSUME NEW s \in Sessions, session'[s].heard
                 PROVE  session'[s].since # NoTime /\ starts'[s] = session'[s].since
      BY DEF Heard
    <3>1. CASE s = r.from
      BY <1>1, <2>3, <2>4, <2>5, <2>6, <3>1
    <3>2. CASE s # r.from
      <4>1. session[s].heard /\ ~InHand(s)
        BY <2>1, <2>5, <3>2 DEF InHand
      <4>. QED
        BY <2>4, <2>5, <3>2, <4>1 DEF TimesFit, Heard
    <3>. QED
      BY <3>1, <3>2
  <2>10. LongOne' /\ Unknown'
    BY <2>1 DEF LongOne, InHand, Unknown
  <2>. QED
    BY <2>7, <2>8, <2>9, <2>10 DEF TimesFit
<1>11. CASE ServeClaudeStop
  <2>1. /\ job["ingress"] = NoJob /\ queue # <<>> /\ live = "up"
        /\ Head(queue).asks = "claude_code"
        /\ starts' = [starts EXCEPT ![Head(queue).from] = NoTime]
        /\ UNCHANGED live
    BY <1>11 DEF ServeClaudeStop, Serving, Idle, vars
  <2>2. PICK r \in Requests : r = Head(queue)
    BY <2>1, FirstIs
  <2>3. r.from \in Sessions /\ r.at \in 0 .. MaxTime
    BY <2>1, <2>2, CallersAre
  <2>4. /\ starts'[r.from] = NoTime
        /\ \A s \in Sessions : s # r.from => starts'[s] = starts[s]
    BY <1>1, <2>1, <2>2, <2>3
  <2>5. \A s : ~InHand(s)
    BY <2>1 DEF InHand
  <2>6. CASE TooShort(r.from, r.at)
    <3>1. /\ queue' = Tail(queue) /\ UNCHANGED job
          /\ session' = [session EXCEPT ![r.from].heard = FALSE]
      BY <1>11, <2>2, <2>6 DEF ServeClaudeStop
    <3>2. /\ \A s \in Sessions : session'[s].since = session[s].since
          /\ \A s \in Sessions : s # r.from => session'[s].heard = session[s].heard
          /\ ~session'[r.from].heard
      BY <1>1, <2>3, <3>1
    <3>. QED
      BY <2>1, <2>2, <2>4, <2>5, <3>1, <3>2, LeavingKeepsTimes
  <2>7. CASE ~TooShort(r.from, r.at)
    <3>1. UNCHANGED <<queue, session>>
      BY <1>11, <2>2, <2>7 DEF ServeClaudeStop
    <3>2. Once' /\ Told' /\ Known' /\ Unknown'
      BY <2>1, <2>4, <3>1 DEF TimesFit, Once, Told, Known, Unknown, Awaits
    <3>3. job'["ingress"] # NoJob
      <4>1. Job(r.from, "claude_code") \in Jobs
        BY <2>2, CallersAre, JobBegins DEF Kinds
      <4>2. job'["ingress"] = Job(r.from, "claude_code")
        BY <1>1, <1>11, <2>2, <2>7 DEF ServeClaudeStop
      <4>. QED
        BY <4>1, <4>2, NoJobIsNone
    <3>4. \A s \in Sessions : InHand(s)' <=> s = r.from
      BY <2>2, <3>1, <3>3 DEF InHand
    <3>5. Heard'
      BY <2>4, <2>5, <3>1, <3>4 DEF TimesFit, Heard
    <3>6. LongOne'
      <4> SUFFICES ASSUME session[r.from].heard
                   PROVE  r.at - session[r.from].since >= MinDuration
        BY <2>2, <2>3, <3>1, <3>4 DEF LongOne
      <4>1. /\ session[r.from].since # NoTime /\ starts[r.from] = session[r.from].since
            /\ session[r.from].since \in 0 .. NoTime
        BY <1>1, <2>3, <2>5 DEF TimesFit, Heard
      <4>2. ~(r.at - starts[r.from] < MinDuration)
        BY <2>7, <4>1 DEF TooShort
      <4>. QED
        BY <1>1, <2>3, <4>1, <4>2, NotificationsAssumption
    <3>. QED
      BY <3>2, <3>5, <3>6 DEF TimesFit
  <2>. QED
    BY <2>6, <2>7
<1>12. CASE ServeCodexStop \/ ServeEmitted
  <2>1. /\ job["ingress"] = NoJob /\ queue # <<>> /\ live = "up"
        /\ Head(queue).asks \in {"codex_cli", "emitted"}
        /\ UNCHANGED <<starts, session, live>>
        /\ \/ queue' = Tail(queue) /\ UNCHANGED job
           \/ UNCHANGED queue
    BY <1>12 DEF ServeCodexStop, ServeEmitted, Serving, Idle, vars
  <2>2. Head(queue).from \notin Sessions
    <3>1. Head(queue) \in Requests
      BY <2>1, FirstIs
    <3>. QED
      BY <2>1, <3>1, CallersAre
  <2>3. \A s : ~InHand(s)
    BY <2>1 DEF InHand
  <2>4. CASE queue' = Tail(queue) /\ UNCHANGED job
    BY <2>1, <2>2, <2>3, <2>4, LeavingKeepsTimes
  <2>5. CASE UNCHANGED queue
    <3>1. Once' /\ Told' /\ Known' /\ Unknown'
      BY <2>1, <2>5 DEF TimesFit, Once, Told, Known, Unknown, Awaits
    <3>2. Heard' /\ LongOne'
      BY <2>1, <2>2, <2>3, <2>5 DEF TimesFit, Heard, LongOne, InHand
    <3>. QED
      BY <3>1, <3>2 DEF TimesFit
  <2>. QED
    BY <2>1, <2>4, <2>5
<1>13. CASE Answer
  <2>1. /\ job["ingress"] # NoJob /\ job'["ingress"] = NoJob /\ queue' = Tail(queue)
        /\ session' = IF Head(queue).from \in Sessions
                      THEN [session EXCEPT ![Head(queue).from].heard = FALSE] ELSE session
        /\ UNCHANGED <<starts, live>>
    BY <1>1, <1>13 DEF Answer, Delivered, Idle, vars
  <2>2. queue # <<>> /\ Head(queue).asks # "turn_start"
    BY <1>1, <2>1 DEF ServesFirst
  <2>3. /\ \A s \in Sessions : session'[s].since = session[s].since
        /\ \A s \in Sessions : s # Head(queue).from => session'[s].heard = session[s].heard
        /\ Head(queue).from \in Sessions => ~session'[Head(queue).from].heard
    BY <1>1, <2>1
  <2>4. \A s \in Sessions : s # Head(queue).from => ~InHand(s)
    BY DEF InHand
  <2>. QED
    BY <2>1, <2>2, <2>3, <2>4, LeavingKeepsTimes
<1>14. CASE Die
  <2>1. /\ job'["ingress"] = NoJob /\ queue' = <<>>
        /\ \A s \in Sessions : starts'[s] = NoTime /\ ~session'[s].heard
    BY <1>1, <1>14 DEF Die
  <2>2. 1 .. Len(queue') = {}
    BY <2>1
  <2>. QED
    BY <2>1, <2>2 DEF TimesFit, Once, Told, Known, Unknown, Heard, LongOne, InHand
<1>. QED
  BY <1>3, <1>4, <1>5, <1>6, <1>7, <1>8, <1>9, <1>10, <1>11, <1>12, <1>13, <1>14, StepsAre

\* What is answered of a session's turn.
LEMMA StepKeepsFilter ==
    Shapes /\ ServesFirst /\ TimesFit /\ FilterIsRight /\ [NotifyNext]_nvars => FilterIsRight'
<1> SUFFICES ASSUME Shapes, ServesFirst, TimesFit, FilterIsRight, [NotifyNext]_nvars
             PROVE  FilterIsRight'
  OBVIOUS
<1>1. CASE UNCHANGED answer
  BY <1>1 DEF FilterIsRight
<1>2. CASE answer' = NoAnswer
  <2>1. "none" \notin Sessions
    BY NotificationsAssumption
  <2>. QED
    BY <1>2, <2>1 DEF FilterIsRight, NoAnswer
<1>3. CASE Quiet
  BY <1>1, <1>3 DEF Quiet, ingressVars
<1>4. ASSUME NEW m \in Messages, Emit(m) \/ Prompt(m) \/ StopTurn(m) PROVE FilterIsRight'
  BY <1>1, <1>4 DEF Emit, Prompt, StopTurn
<1>5. ASSUME NEW t \in Turns, RunStopHook(t) PROVE FilterIsRight'
  BY <1>1, <1>5 DEF RunStopHook
<1>6. CASE RouteSignal \/ SignalRouted
  BY <1>1, <1>6 DEF RouteSignal, SignalRouted, Others, ingressVars
<1>7. ASSUME NEW task \in Tasks, Deliver(task) PROVE FilterIsRight'
  <2>1. UNCHANGED answer
    BY <1>7, DeliveryIs DEF ingressVars
  <2>. QED
    BY <1>1, <2>1
<1>8. CASE ServeTurnStart \/ ServeCodexStop \/ ServeEmitted
  BY <1>2, <1>8 DEF ServeTurnStart, ServeCodexStop, ServeEmitted
<1>9. CASE ServeClaudeStop
  <2>1. /\ queue # <<>> /\ Head(queue).asks = "claude_code"
    BY <1>9 DEF ServeClaudeStop, Serving
  <2>2. PICK r \in Requests : r = Head(queue)
    BY <2>1, FirstIs
  <2>3. r.from \in Sessions /\ r.at \in 0 .. MaxTime
    BY <2>1, <2>2, CallersAre
  <2>4. CASE TooShort(r.from, r.at)
    <3>1. answer' = Answered(r.from, "dropped", <<>>)
      BY <1>9, <2>2, <2>4 DEF ServeClaudeStop
    <3>2. answer'.verdict = "dropped" /\ answer'.to = r.from
      BY <3>1 DEF Answered
    <3>3. answer'.long = (r.at - session[r.from].since >= MinDuration)
      BY <2>2, <2>3, <3>1 DEF Answered
    <3>4. ~Awaits(r.from)
      <4> SUFFICES ASSUME NEW i \in 1 .. Len(queue), queue[i].from = r.from,
                          queue[i].asks = "turn_start"
                   PROVE  FALSE
        BY DEF Awaits
      <4>1. 1 \in 1 .. Len(queue) /\ queue[1] = r
        BY <2>1, <2>2, FirstIs
      <4>2. i = 1
        BY <2>3, <4>1 DEF TimesFit, Once
      <4>. QED
        BY <2>1, <2>2, <4>1, <4>2
    <3>5. starts[r.from] = session[r.from].since /\ r.at - starts[r.from] < MinDuration
      BY <2>3, <2>4, <3>4 DEF TooShort, TimesFit, Known
    <3>6. session[r.from].since \in Nat /\ r.at \in Nat /\ MinDuration \in Nat
      <4>1. session[r.from].since \in 0 .. NoTime
        BY <2>3 DEF Shapes
      <4>. QED
        BY <2>3, <4>1, DeliverySafetyAssumption, NotificationsAssumption DEF NoTime
    <3>7. ~(r.at - session[r.from].since >= MinDuration)
      BY <3>5, <3>6
    <3>8. ~answer'.long
      BY <3>3, <3>7
    <3>. QED
      BY <3>2, <3>8 DEF FilterIsRight
  <2>5. CASE ~TooShort(r.from, r.at)
    BY <1>2, <1>9, <2>2, <2>5 DEF ServeClaudeStop
  <2>. QED
    BY <2>4, <2>5
<1>10. CASE Answer
  <2> DEFINE c == Head(queue).from
             done == job["ingress"].done
  <2>1. job["ingress"] # NoJob /\ answer' = Answered(c, Verdict(done), done)
    BY <1>10 DEF Answer, Delivered, Idle
  <2>2. Verdict(done) # "dropped"
    BY DEF Verdict
  <2>3. CASE c \in Sessions
    <3>1. answer'.heard => session[c].heard
      BY <2>1, <2>3 DEF Answered
    <3>2. answer'.long = (Head(queue).at - session[c].since >= MinDuration)
      BY <2>1, <2>3 DEF Answered
    <3>3. session[c].heard => Head(queue).at - session[c].since >= MinDuration
      BY <2>1, <2>3 DEF TimesFit, LongOne, InHand
    <3>4. answer'.heard => answer'.long
      BY <3>1, <3>2, <3>3
    <3>5. answer'.verdict # "dropped"
      BY <2>1, <2>2 DEF Answered
    <3>. QED
      BY <3>4, <3>5 DEF FilterIsRight
  <2>4. CASE c \notin Sessions
    <3>1. answer'.to = c
      BY <2>1 DEF Answered
    <3>. QED
      BY <2>4, <3>1 DEF FilterIsRight
  <2>. QED
    BY <2>3, <2>4
<1>11. CASE Die
  BY <1>1, <1>11 DEF Die
<1>. QED
  BY <1>3, <1>4, <1>5, <1>6, <1>7, <1>8, <1>9, <1>10, <1>11, StepsAre

\* A completed turn is dropped as too short only if it was, and a short one is dropped if
\* this run of the service heard of its start: for any sessions, hooks in any order
\* with each other and with restarts, and any minimum.
THEOREM ShortTurnsAreDropped == NotifySpec => []FilterIsRight
<1>1. NotifyInit => ServesFirst /\ TimesFit /\ FilterIsRight
  <2> SUFFICES ASSUME NotifyInit PROVE ServesFirst /\ TimesFit /\ FilterIsRight
    OBVIOUS
  <2>1. /\ job["ingress"] = NoJob /\ queue = <<>> /\ answer = NoAnswer
        /\ \A s \in Sessions : starts[s] = NoTime /\ ~session[s].heard
    BY DEF NotifyInit, Tasks
  <2>2. 1 .. Len(queue) = {} /\ "none" \notin Sessions
    BY <2>1, NotificationsAssumption
  <2>3. ServesFirst /\ FilterIsRight
    BY <2>1, <2>2 DEF ServesFirst, FilterIsRight, NoAnswer
  <2>4. TimesFit
    BY <2>1, <2>2 DEF TimesFit, Once, Told, Known, Unknown, Heard, LongOne, InHand
  <2>. QED
    BY <2>3, <2>4
<1>2. Shapes /\ Shapes' /\ ServesFirst /\ TimesFit /\ FilterIsRight /\ [NotifyNext]_nvars
          => ServesFirst' /\ TimesFit' /\ FilterIsRight'
  <2> SUFFICES ASSUME Shapes, Shapes', ServesFirst, TimesFit, FilterIsRight, [NotifyNext]_nvars
               PROVE  ServesFirst' /\ TimesFit' /\ FilterIsRight'
    OBVIOUS
  <2>1. ServesFirst'
    BY StepKeepsServing
  <2>2. TimesFit'
    BY StepKeepsTimes
  <2>3. FilterIsRight'
    BY StepKeepsFilter
  <2>. QED
    BY <2>1, <2>2, <2>3
<1>. QED
  BY <1>1, <1>2, ShapesHold, PTL DEF NotifySpec

----------------------------------------------------------------------------
\* What the watch reads and remembers.

\* What is flattened comes from one place of one sequence, and what is in one place only
\* is so when it is flattened.
ComesFrom(flat, seqs, m) ==
    \A i \in 1 .. Len(flat) : \E s \in 1 .. m : \E k \in 1 .. Len(seqs[s]) : flat[i] = seqs[s][k]
Single(seqs, x) ==
    \A s, r \in 1 .. Len(seqs) : \A k \in 1 .. Len(seqs[s]), j \in 1 .. Len(seqs[r]) :
        seqs[s][k] = x /\ seqs[r][j] = x => s = r /\ k = j
SingleIn(flat, x) == \A i, j \in 1 .. Len(flat) : flat[i] = x /\ flat[j] = x => i = j

LEMMA FlatJoins ==
    ASSUME NEW S, NEW seqs \in Seq(Seq(S)), NEW m \in 2 .. Len(seqs),
           NEW left \in Seq(S), ComesFrom(left, seqs, m - 1),
           \A x : Single(seqs, x) => SingleIn(left, x)
    PROVE  /\ ComesFrom(left \o seqs[m], seqs, m)
           /\ \A x : Single(seqs, x) => SingleIn(left \o seqs[m], x)
<1>1. /\ Len(seqs) \in Nat /\ m \in 1 .. Len(seqs) /\ seqs[m] \in Seq(S)
      /\ \A s \in 1 .. m - 1 : s \in 1 .. m /\ s \in 1 .. Len(seqs) /\ s # m
      /\ m \in 1 .. m
  BY LenProperties
<1>2. PICK right \in Seq(S) : right = seqs[m]
  BY <1>1
<1> DEFINE flat == left \o right
<1>3. /\ Len(left) \in Nat /\ Len(right) \in Nat /\ Len(flat) = Len(left) + Len(right)
      /\ \A i \in 1 .. Len(left) + Len(right) :
             flat[i] = IF i <= Len(left) THEN left[i] ELSE right[i - Len(left)]
  BY ConcatProperties, LenProperties
<1> HIDE DEF flat
<1>4. ASSUME NEW i \in 1 .. Len(flat)
      PROVE  \/ i \in 1 .. Len(left) /\ flat[i] = left[i]
             \/ i - Len(left) \in 1 .. Len(right) /\ flat[i] = right[i - Len(left)]
  BY <1>3
<1>5. ComesFrom(flat, seqs, m)
  <2> SUFFICES ASSUME NEW i \in 1 .. Len(flat)
               PROVE  \E s \in 1 .. m : \E k \in 1 .. Len(seqs[s]) : flat[i] = seqs[s][k]
    BY DEF ComesFrom
  <2>1. CASE i \in 1 .. Len(left) /\ flat[i] = left[i]
    <3>1. PICK s \in 1 .. m - 1 : \E k \in 1 .. Len(seqs[s]) : left[i] = seqs[s][k]
      BY <2>1 DEF ComesFrom
    <3>. QED
      BY <1>1, <2>1, <3>1
  <2>2. CASE i - Len(left) \in 1 .. Len(right) /\ flat[i] = right[i - Len(left)]
    BY <1>1, <1>2, <2>2
  <2>. QED
    BY <1>4, <2>1, <2>2
<1>6. ASSUME NEW x, Single(seqs, x) PROVE SingleIn(flat, x)
  <2>1. SingleIn(left, x)
    BY <1>6
  <2>2. ASSUME NEW i \in 1 .. Len(left), NEW k \in 1 .. Len(right), left[i] = x, right[k] = x
        PROVE  FALSE
    <3>1. PICK s \in 1 .. m - 1 : \E j \in 1 .. Len(seqs[s]) : left[i] = seqs[s][j]
      BY <2>2 DEF ComesFrom
    <3>2. PICK j \in 1 .. Len(seqs[s]) : seqs[s][j] = x
      BY <2>2, <3>1
    <3>. QED
      BY <1>1, <1>2, <1>6, <2>2, <3>2 DEF Single
  <2>3. ASSUME NEW k \in 1 .. Len(right), NEW j \in 1 .. Len(right), right[k] = x, right[j] = x
        PROVE  k = j
    BY <1>1, <1>2, <1>6, <2>3 DEF Single
  <2> SUFFICES ASSUME NEW i \in 1 .. Len(flat), NEW j \in 1 .. Len(flat), flat[i] = x, flat[j] = x
               PROVE  i = j
    BY DEF SingleIn
  <2>4. CASE i \in 1 .. Len(left) /\ flat[i] = left[i]
    <3>1. CASE j \in 1 .. Len(left) /\ flat[j] = left[j]
      BY <2>1, <2>4, <3>1 DEF SingleIn
    <3>2. CASE j - Len(left) \in 1 .. Len(right) /\ flat[j] = right[j - Len(left)]
      BY <2>2, <2>4, <3>2
    <3>. QED
      BY <1>4, <3>1, <3>2
  <2>5. CASE i - Len(left) \in 1 .. Len(right) /\ flat[i] = right[i - Len(left)]
    <3>1. CASE j \in 1 .. Len(left) /\ flat[j] = left[j]
      BY <2>2, <2>5, <3>1
    <3>2. CASE j - Len(left) \in 1 .. Len(right) /\ flat[j] = right[j - Len(left)]
      <4>1. i - Len(left) = j - Len(left)
        BY <2>3, <2>5, <3>2
      <4>. QED
        BY <1>3, <4>1
    <3>. QED
      BY <1>4, <3>1, <3>2
  <2>. QED
    BY <1>4, <2>4, <2>5
<1>. QED
  BY <1>2, <1>5, <1>6 DEF flat

LEMMA FlatKeeps ==
    ASSUME NEW S, NEW seqs \in Seq(Seq(S))
    PROVE  /\ ComesFrom(W!FlattenSeq(seqs), seqs, Len(seqs))
           /\ \A x : Single(seqs, x) => SingleIn(W!FlattenSeq(seqs), x)
<1>1. CASE Len(seqs) = 0
  <2>1. W!FlattenSeq(seqs) = seqs
    BY <1>1 DEF W!FlattenSeq
  <2>2. 1 .. Len(W!FlattenSeq(seqs)) = {}
    BY <1>1, <2>1
  <2>. QED
    BY <2>2 DEF ComesFrom, SingleIn
<1>2. CASE Len(seqs) # 0
  <2>1. PICK flat : /\ flat[1] = seqs[1]
                    /\ \A i \in 2 .. Len(seqs) : flat[i] = flat[i - 1] \o seqs[i]
                    /\ flat[Len(seqs)] = W!FlattenSeq(seqs)
    BY <1>2, FlatSteps
  <2> DEFINE n == Len(seqs)
             Fine(m) == /\ flat[m] \in Seq(S) /\ ComesFrom(flat[m], seqs, m)
                        /\ \A x : Single(seqs, x) => SingleIn(flat[m], x)
             T == {m \in Nat : m = 0 \/ Fine(m)}
  <2>2. n \in Nat /\ n >= 1 /\ \A i \in 1 .. n : seqs[i] \in Seq(S)
    BY <1>2, LenProperties
  <2>3. Fine(1)
    <3>1. 1 \in 1 .. 1 /\ 1 \in 1 .. Len(seqs)
      BY <2>2
    <3>2. ComesFrom(flat[1], seqs, 1)
      BY <2>1, <3>1 DEF ComesFrom
    <3>3. \A x : Single(seqs, x) => SingleIn(flat[1], x)
      BY <2>1, <3>1 DEF Single, SingleIn
    <3>. QED
      BY <2>1, <2>2, <3>2, <3>3
  <2>4. ASSUME NEW m \in 1 .. n, m - 1 \in T PROVE m \in T
    <3>1. CASE m = 1
      BY <2>3, <3>1
    <3>2. CASE m # 1
      <4>1. m \in 2 .. n /\ m - 1 # 0 /\ m \in Nat
        BY <2>2, <3>2
      <4>2. Fine(m - 1)
        BY <2>4, <4>1
      <4>3. PICK left \in Seq(S) : left = flat[m - 1]
        BY <4>2
      <4>4. flat[m] = left \o seqs[m] /\ seqs[m] \in Seq(S)
        BY <2>1, <2>2, <4>1, <4>3
      <4>5. /\ ComesFrom(left \o seqs[m], seqs, m)
            /\ \A x : Single(seqs, x) => SingleIn(left \o seqs[m], x)
        BY <4>1, <4>2, <4>3, FlatJoins
      <4>6. left \o seqs[m] \in Seq(S)
        BY <4>4, ConcatProperties
      <4>. QED
        BY <4>1, <4>4, <4>5, <4>6
    <3>. QED
      BY <3>1, <3>2
  <2>5. 0 \in T /\ n \in 0 .. n
    BY <2>2
  <2> HIDE DEF T, n
  <2>6. n \in T
    BY <2>2, <2>4, <2>5, UpTo
  <2>. QED
    BY <1>2, <2>1, <2>6 DEF T, n
<1>. QED
  BY <1>1, <1>2

----------------------------------------------------------------------------
\* What is delivered: a set of the greatest turns.

Fitting(D) == D \subseteq Turns /\ IsFiniteSet(D) /\ Cardinality(D) <= MaxDelivered

\* A turn that was evicted, and will be again.
Gone(D, t) == t \notin D /\ Cardinality(D) = MaxDelivered /\ \A u \in D : u > t

LEMMA SameCount == \A S : W!Cardinality(S) = Cardinality(S)
  BY Zenon DEF W!Cardinality, Cardinality

LEMMA EvictedIs ==
    ASSUME NEW D, Fitting(D), NEW x \in Turns, x \notin D
    PROVE  \/ Cardinality(D) < MaxDelivered /\ W!Evicted(D \cup {x}) = D \cup {x}
           \/ /\ Cardinality(D) = MaxDelivered
              /\ \E m \in D \cup {x} : /\ \A u \in D \cup {x} : m <= u
                                       /\ W!Evicted(D \cup {x}) = (D \cup {x}) \ {m}
<1> DEFINE E == D \cup {x}
           Above(t) == {u \in E : u >= t}
<1>1. /\ E \subseteq Turns /\ E \subseteq Nat /\ E # {}
      /\ MaxDelivered \in Nat /\ MaxDelivered >= 1
      /\ IsFiniteSet(D) /\ Cardinality(D) \in Nat /\ Cardinality(D) <= MaxDelivered
  BY Numbers, FS_CardinalityType DEF Fitting
<1>2. IsFiniteSet(E) /\ Cardinality(E) = Cardinality(D) + 1
  BY <1>1, FS_AddElement
<1>3. W!Evicted(E) = {t \in E : Cardinality(Above(t)) <= MaxDelivered}
  <2>1. W!Evicted(E) = {t \in E : W!Cardinality(Above(t)) <= MaxDelivered}
    BY Zenon DEF W!Evicted
  <2>2. \A t : W!Cardinality(Above(t)) = Cardinality(Above(t))
    BY SameCount
  <2> HIDE DEF E, Above
  <2>. QED
    BY <2>1, <2>2
<1>4. \A t \in E : IsFiniteSet(Above(t)) /\ Cardinality(Above(t)) \in Nat
                   /\ Cardinality(Above(t)) <= Cardinality(E)
  <2> SUFFICES ASSUME NEW t \in E
               PROVE  IsFiniteSet(Above(t)) /\ Cardinality(Above(t)) \in Nat
                      /\ Cardinality(Above(t)) <= Cardinality(E)
    OBVIOUS
  <2>1. Above(t) \in SUBSET E
    OBVIOUS
  <2> HIDE DEF E, Above
  <2>. QED
    BY <1>2, <2>1, FS_Subset, FS_CardinalityType
<1>5. CASE Cardinality(D) < MaxDelivered
  <2>1. \A t \in E : Cardinality(Above(t)) <= MaxDelivered
    <3> HIDE DEF E, Above
    <3>. QED
      BY <1>1, <1>2, <1>4, <1>5
  <2>2. W!Evicted(E) = E
    BY <1>3, <2>1
  <2>. QED
    BY <1>5, <2>2
<1>6. CASE Cardinality(D) = MaxDelivered
  <2>1. PICK m \in E : \A u \in E : m <= u
    BY <1>1, LeastNatural
  <2>2. Cardinality(Above(m)) = MaxDelivered + 1
    <3>1. Above(m) = E
      BY <1>1, <2>1
    <3>. QED
      BY <1>2, <1>6, <3>1
  <2>3. ASSUME NEW t \in E, t # m PROVE Cardinality(Above(t)) <= MaxDelivered
    <3>1. m \notin Above(t)
      BY <1>1, <2>1, <2>3
    <3>2. Above(t) \in SUBSET (E \ {m})
      BY <3>1
    <3>3. IsFiniteSet(E \ {m}) /\ Cardinality(E \ {m}) = MaxDelivered
      <4> HIDE DEF E
      <4>. QED
        BY <1>1, <1>2, <1>6, <2>1, FS_RemoveElement
    <3> HIDE DEF E, Above
    <3>. QED
      BY <3>2, <3>3, FS_Subset
  <2>4. W!Evicted(E) = E \ {m}
    <3>1. m \notin W!Evicted(E)
      BY <1>1, <1>3, <2>2
    <3>2. \A t \in E : t # m => t \in W!Evicted(E)
      BY <1>3, <2>3
    <3>3. W!Evicted(E) \subseteq E
      BY <1>3
    <3> HIDE DEF E
    <3>. QED
      BY <3>1, <3>2, <3>3
  <2>. QED
    BY <1>6, <2>1, <2>4
<1>. QED
  BY <1>1, <1>5, <1>6

\* One more turn: the set still fits, and a turn that is gone stays so.
LEMMA EvictedFits ==
    ASSUME NEW D, Fitting(D), NEW x \in Turns, x \notin D
    PROVE  /\ Fitting(W!Evicted(D \cup {x}))
           /\ \A t \in Turns : t \in D => t \in W!Evicted(D \cup {x}) \/ Gone(W!Evicted(D \cup {x}), t)
           /\ \A t \in Turns : Gone(D, t) => Gone(W!Evicted(D \cup {x}), t)
<1> DEFINE E == D \cup {x}
<1>1. /\ E \subseteq Turns /\ Turns \subseteq Nat
      /\ MaxDelivered \in Nat /\ MaxDelivered >= 1
      /\ IsFiniteSet(D) /\ Cardinality(D) \in Nat /\ Cardinality(D) <= MaxDelivered
  BY Numbers, FS_CardinalityType DEF Fitting
<1>2. IsFiniteSet(E) /\ Cardinality(E) = Cardinality(D) + 1
  BY <1>1, FS_AddElement
<1>3. CASE Cardinality(D) < MaxDelivered /\ W!Evicted(E) = E
  <2>1. Fitting(E)
    BY <1>1, <1>2, <1>3 DEF Fitting
  <2>2. \A t : ~Gone(D, t)
    BY <1>1, <1>3 DEF Gone
  <2>. QED
    BY <1>3, <2>1, <2>2
<1>4. CASE /\ Cardinality(D) = MaxDelivered
           /\ \E m \in E : (\A u \in E : m <= u) /\ W!Evicted(E) = E \ {m}
  <2>1. PICK m \in E : (\A u \in E : m <= u) /\ W!Evicted(E) = E \ {m}
    BY <1>4
  <2>2. IsFiniteSet(E \ {m}) /\ Cardinality(E \ {m}) = MaxDelivered
    <3>1. Cardinality(E) = MaxDelivered + 1
      BY <1>2, <1>4
    <3> HIDE DEF E
    <3>2. IsFiniteSet(E \ {m}) /\ Cardinality(E \ {m}) = Cardinality(E) - 1
      BY <1>2, <2>1, FS_RemoveElement
    <3>. QED
      BY <1>1, <3>1, <3>2
  <2>3. Fitting(E \ {m})
    BY <1>1, <2>2 DEF Fitting
  <2>4. /\ m \in Nat /\ x \in Nat /\ m <= x /\ m \in D \cup {x}
        /\ \A u \in D : u \in Nat /\ m <= u
        /\ \A u \in E \ {m} : u > m
    <3>1. m \in E /\ \A u \in E : m <= u
      BY <2>1
    <3>2. \A u \in E : u \in Nat
      BY <1>1
    <3>3. \A u \in E \ {m} : u > m
      <4> HIDE DEF E
      <4>. QED
        BY <3>1, <3>2
    <3>. QED
      BY <3>1, <3>2, <3>3
  <2>5. Gone(E \ {m}, m)
    BY <2>2, <2>4 DEF Gone
  <2>6. ASSUME NEW t \in Turns, Gone(D, t) PROVE Gone(E \ {m}, t)
    <3>0. t \in Nat
      BY <1>1
    <3>1. t \notin D /\ \A u \in D : u > t
      BY <2>6 DEF Gone
    <3>2. CASE x = t
      <4>1. m = t
        BY <2>4, <3>1, <3>2
      <4>. QED
        BY <2>5, <4>1
    <3>3. CASE x > t
      BY <1>1, <2>2, <3>1, <3>3 DEF Gone
    <3>4. CASE x < t
      <4>1. m = x
        BY <2>4, <3>0, <3>1, <3>4
      <4>. QED
        BY <2>2, <3>1, <4>1 DEF Gone
    <3>. QED
      BY <1>1, <3>2, <3>3, <3>4
  <2>. QED
    BY <2>1, <2>3, <2>5, <2>6
<1>. QED
  BY <1>3, <1>4, EvictedIs

\* A line changes nothing of what is kept, marks its turn delivered, or announces it, too.
Announced(line, D, signals, next) ==
    /\ line = W!Done(line.turn) /\ line.turn \notin index /\ FileOf[line.turn] \in DesktopFiles
    /\ \E d \in Signals : d.turn = line.turn /\ next.signals = Append(signals, d)
Took(acc, line, next) ==
    \/ next.signals = acc.signals /\ next.delivered = acc.delivered
    \/ /\ line.turn \notin acc.delivered
       /\ next.delivered = W!Evicted(acc.delivered \cup {line.turn})
       /\ next.signals = acc.signals \/ Announced(line, acc.delivered, acc.signals, next)

LEMMA TakeItemIs ==
    ASSUME NEW acc \in Gathered, NEW line \in Lines, NEW next, next = W!TakeItem(acc, line)
    PROVE  Took(acc, line, next)
<1> DEFINE t == line.turn
           f == FileOf[t]
<1>1. /\ t \in Turns /\ f \in Files /\ line.is \in {"asked", "done"}
      /\ acc.delivered \subseteq Turns /\ acc.signals \in Seq(Signals)
      /\ acc.pending \in [Files -> Turns \cup {0}]
      /\ line = [is |-> line.is, turn |-> t]
  BY Numbers DEF Lines, Gathered, PromptsByFile
<1> DEFINE used == W!UsedUp(acc, t)
<1>2. used.signals = acc.signals /\ used.delivered = acc.delivered /\ used \in Gathered
  <2>1. CASE prompts
    <3>1. used = [acc EXCEPT !.pending = [acc.pending EXCEPT ![f] = 0]]
      BY <2>1 DEF W!UsedUp, Gathered
    <3>2. [acc.pending EXCEPT ![f] = 0] \in [Files -> Turns \cup {0}]
      BY <1>1
    <3>. QED
      BY <3>1, <3>2 DEF Gathered, PromptsByFile
  <2>2. CASE ~prompts
    BY <2>2 DEF W!UsedUp
  <2>. QED
    BY <2>1, <2>2
<1> DEFINE more == W!Deliver(used, t)
<1>3. PICK D : D = W!Evicted(acc.delivered \cup {t})
  OBVIOUS
<1>4. more.signals = acc.signals /\ more.delivered = D /\ more = [used EXCEPT !.delivered = D]
  <2>1. more = [used EXCEPT !.delivered = D]
    BY <1>2, <1>3 DEF W!Deliver
  <2>. QED
    BY <1>2, <2>1 DEF Gathered
<1>5. CASE ~W!IsItem(line)
  <2>1. next = acc
    BY <1>5 DEF W!TakeItem
  <2>. QED
    BY <2>1 DEF Took
<1>6. CASE W!IsItem(line) /\ line.is = "asked"
  <2>1. next = [acc EXCEPT !.pending = [acc.pending EXCEPT ![f] = t]]
    BY <1>6 DEF W!TakeItem, Gathered
  <2>2. next.signals = acc.signals /\ next.delivered = acc.delivered
    BY <2>1 DEF Gathered
  <2>. QED
    BY <2>2 DEF Took
<1>7. CASE W!IsItem(line) /\ line.is # "asked"
  <2>1. next = W!TakeTurn(acc, t) /\ line = W!Done(t)
    BY <1>1, <1>7 DEF W!TakeItem, W!Done
  <2>2. CASE t \in acc.delivered
    BY <2>1, <2>2 DEF W!TakeTurn, Took
  <2>3. CASE t \notin acc.delivered /\ t \in index
    <3>1. next = more
      BY <2>1, <2>3 DEF W!TakeTurn
    <3>. QED
      BY <1>3, <1>4, <2>3, <3>1 DEF Took
  <2>4. CASE t \notin acc.delivered /\ t \notin index /\ f \in DesktopFiles
    <3>1. next = W!Announce(acc, t)
      BY <2>1, <2>4 DEF W!TakeTurn
    <3>2. W!Draft(acc, t) \in Signals /\ W!Draft(acc, t).turn = t
      BY <1>1 DEF W!Draft, Signals
    <3>3. PICK d \in Signals : d = W!Draft(acc, t) /\ d.turn = t
      BY <3>2
    <3> HIDE DEF more, used
    <3>4. next = [more EXCEPT !.signals = Append(acc.signals, d)]
      BY <1>4, <3>1, <3>3 DEF W!Announce, more, used
    <3>5. next.signals = Append(acc.signals, d) /\ next.delivered = D
      BY <1>2, <1>4, <3>4 DEF Gathered
    <3>. QED
      BY <1>3, <2>1, <2>4, <3>3, <3>5 DEF Took, Announced
  <2>5. CASE t \notin acc.delivered /\ t \notin index /\ f \notin DesktopFiles
    <3>1. next = used
      BY <2>1, <2>5 DEF W!TakeTurn
    <3>. QED
      BY <1>2, <3>1 DEF Took
  <2>. QED
    BY <2>2, <2>3, <2>4, <2>5
<1>. QED
  BY <1>5, <1>6, <1>7

\* What a poll has gathered so far: signals of different turns, each from a new line;
\* a turn that was delivered before is so still and not signalled, or it is gone.
SignalsFrom(signals, i) ==
    \A k \in 1 .. Len(signals) :
        /\ \E p \in 1 .. i : News[p] = W!Done(signals[k].turn)
        /\ signals[k].turn \notin index /\ FileOf[signals[k].turn] \in DesktopFiles
Distinct(signals) ==
    \A j, k \in 1 .. Len(signals) : signals[j].turn = signals[k].turn => j = k
Signalled(signals, t) == \E k \in 1 .. Len(signals) : signals[k].turn = t
Kept(D, signals) ==
    \A t \in state.delivered : (t \in D /\ ~Signalled(signals, t)) \/ Gone(D, t)
PollSo(acc, i) ==
    /\ acc \in Gathered /\ Fitting(acc.delivered)
    /\ SignalsFrom(acc.signals, i) /\ Distinct(acc.signals) /\ Kept(acc.delivered, acc.signals)

LEMMA AppendIs ==
    ASSUME NEW S, NEW s \in Seq(S), NEW d \in S
    PROVE  /\ Append(s, d) \in Seq(S) /\ Len(s) \in Nat
           /\ Len(Append(s, d)) = Len(s) + 1
           /\ \A i \in 1 .. Len(s) : Append(s, d)[i] = s[i]
           /\ Append(s, d)[Len(s) + 1] = d
  BY AppendProperties, LenProperties

LEMMA PollGoesOn ==
    ASSUME NEW acc, NEW next \in Gathered, NEW i \in 1 .. Len(News), News \in Seq(Lines),
           PollSo(acc, i - 1), Took(acc, News[i], next), state.delivered \subseteq Turns,
           \A t \in Turns : SingleIn(News, W!Done(t))
    PROVE  PollSo(next, i)
<1> DEFINE line == News[i]
           t == line.turn
           D == acc.delivered
           E == W!Evicted(D \cup {t})
<1>1. /\ line \in Lines /\ t \in Turns /\ acc \in Gathered /\ acc.signals \in Seq(Signals)
      /\ Fitting(D) /\ Len(News) \in Nat /\ i \in Nat
      /\ SignalsFrom(acc.signals, i - 1) /\ Distinct(acc.signals) /\ Kept(D, acc.signals)
  <2>1. line \in Lines /\ Len(News) \in Nat
    BY ElementOfSeq, LenProperties
  <2>2. PollSo(acc, i - 1)
    OBVIOUS
  <2>. QED
    BY <2>1, <2>2 DEF PollSo, Lines, Gathered
<1>2. SignalsFrom(acc.signals, i)
  <2>1. \A p \in 1 .. i - 1 : p \in 1 .. i
    BY <1>1
  <2>. QED
    BY <1>1, <2>1 DEF SignalsFrom
<1>3. CASE next.signals = acc.signals /\ next.delivered = D
  BY <1>1, <1>2, <1>3 DEF PollSo
<1>4. CASE t \notin D /\ next.delivered = E
  <2>1. /\ Fitting(E)
        /\ \A u \in Turns : u \in D => u \in E \/ Gone(E, u)
        /\ \A u \in Turns : Gone(D, u) => Gone(E, u)
    BY <1>1, <1>4, EvictedFits
  <2>2. CASE next.signals = acc.signals
    <3>1. Kept(E, acc.signals)
      <4> HIDE DEF D, E
      <4>. QED
        BY <1>1, <2>1 DEF Kept
    <3>. QED
      BY <1>1, <1>2, <1>4, <2>1, <2>2, <3>1 DEF PollSo
  <2>3. CASE Announced(line, D, acc.signals, next)
    <3>1. PICK d \in Signals : d.turn = t /\ next.signals = Append(acc.signals, d)
      BY <2>3 DEF Announced
    <3>2. line = W!Done(t) /\ t \notin index /\ FileOf[t] \in DesktopFiles
      BY <2>3 DEF Announced
    <3> DEFINE s == acc.signals
               n == Len(s)
               q == next.signals
    <3>3. /\ n \in Nat /\ Len(q) = n + 1 /\ q[n + 1] = d
          /\ \A k \in 1 .. n : q[k] = s[k]
      BY <1>1, <3>1, AppendIs
    <3>4. \A k \in 1 .. n : s[k].turn # t
      <4> SUFFICES ASSUME NEW k \in 1 .. n, s[k].turn = t PROVE FALSE
        OBVIOUS
      <4>1. PICK p \in 1 .. i - 1 : News[p] = W!Done(t)
        BY <1>1 DEF SignalsFrom
      <4>2. p \in 1 .. Len(News) /\ p # i
        BY <1>1
      <4>. QED
        BY <1>1, <3>2, <4>1, <4>2 DEF SingleIn
    <3>5. SignalsFrom(q, i)
      <4> SUFFICES ASSUME NEW k \in 1 .. n + 1
                   PROVE  /\ \E p \in 1 .. i : News[p] = W!Done(q[k].turn)
                          /\ q[k].turn \notin index /\ FileOf[q[k].turn] \in DesktopFiles
        BY <3>3 DEF SignalsFrom
      <4>1. CASE k = n + 1
        <5>1. i \in 1 .. i
          BY <1>1
        <5>2. q[k].turn = t
          BY <3>1, <3>3, <4>1
        <5>3. \E p \in 1 .. i : News[p] = W!Done(q[k].turn)
          BY <3>2, <5>1, <5>2
        <5>. QED
          BY <3>2, <5>2, <5>3
      <4>2. CASE k \in 1 .. n
        BY <1>2, <3>3, <4>2 DEF SignalsFrom
      <4>. QED
        BY <3>3, <4>1, <4>2
    <3>6. Distinct(q)
      <4> SUFFICES ASSUME NEW j \in 1 .. n + 1, NEW k \in 1 .. n + 1, q[j].turn = q[k].turn
                   PROVE  j = k
        BY <3>3 DEF Distinct
      <4>1. CASE j \in 1 .. n /\ k \in 1 .. n
        BY <1>1, <3>3, <4>1 DEF Distinct
      <4>2. CASE j = n + 1 /\ k \in 1 .. n
        BY <3>1, <3>3, <3>4, <4>2
      <4>3. CASE k = n + 1 /\ j \in 1 .. n
        BY <3>1, <3>3, <3>4, <4>3
      <4>. QED
        BY <3>3, <4>1, <4>2, <4>3
    <3>7. Kept(E, q)
      <4> SUFFICES ASSUME NEW u \in state.delivered, ~Gone(E, u)
                   PROVE  u \in E /\ ~Signalled(q, u)
        BY DEF Kept
      <4>1. u \in D /\ ~Signalled(s, u) /\ u \in E
        <5> HIDE DEF D, E
        <5>. QED
          BY <1>1, <2>1 DEF Kept
      <4>2. u # t
        BY <1>4, <4>1
      <4>3. ASSUME NEW k \in 1 .. n + 1 PROVE q[k].turn # u
        <5>1. CASE k = n + 1
          BY <3>1, <3>3, <4>2, <5>1
        <5>2. CASE k \in 1 .. n
          BY <3>3, <4>1, <5>2 DEF Signalled
        <5>. QED
          BY <3>3, <5>1, <5>2
      <4>4. ~Signalled(q, u)
        BY <3>3, <4>3 DEF Signalled
      <4>. QED
        BY <4>1, <4>4
    <3>. QED
      BY <1>4, <2>1, <3>5, <3>6, <3>7 DEF PollSo
  <2>. QED
    BY <1>4, <2>2, <2>3, <1>3 DEF Took
<1>. QED
  BY <1>3, <1>4 DEF Took

LEMMA PollIs ==
    ASSUME FilesFit, WatchFits, Fitting(state.delivered), \A t \in Turns : SingleIn(News, W!Done(t)),
           NEW taken, taken = W!FoldLeft(W!TakeItem, Before, News)
    PROVE  PollSo(taken, Len(News))
<1>1. PICK acc : /\ Gathers(acc, Len(News))
                 /\ acc[Len(News)] = taken
                 /\ \A i \in 0 .. Len(News) : acc[i] \in Gathered
  BY PollGathers
<1>2. News \in Seq(Lines) /\ Len(News) \in Nat /\ Before \in Gathered /\ state.delivered \subseteq Turns
  BY NewsFit, LenProperties DEF WatchFits, WatchStates
<1> DEFINE n == Len(News)
           T == {i \in Nat : PollSo(acc[i], i)}
<1>3. 0 \in T
  <2>1. acc[0] = Before /\ Before.signals = <<>> /\ Before.delivered = state.delivered
    BY <1>1 DEF Gathers, Before
  <2>2. \A k \in 1 .. Len(Before.signals) : FALSE
    BY <2>1
  <2>3. SignalsFrom(Before.signals, 0) /\ Distinct(Before.signals)
    BY <2>2 DEF SignalsFrom, Distinct
  <2>4. Kept(Before.delivered, Before.signals)
    BY <2>1, <2>2 DEF Kept, Signalled
  <2>5. PollSo(Before, 0)
    BY <1>2, <2>1, <2>3, <2>4 DEF PollSo
  <2>. QED
    BY <2>1, <2>5
<1>4. ASSUME NEW m \in 1 .. n, m - 1 \in T PROVE m \in T
  <2>1. PollSo(acc[m - 1], m - 1) /\ acc[m] = W!TakeItem(acc[m - 1], News[m]) /\ m \in Nat
    BY <1>1, <1>4 DEF Gathers
  <2>2. acc[m - 1] \in Gathered /\ acc[m] \in Gathered /\ News[m] \in Lines
    BY <1>1, <1>2, ElementOfSeq
  <2>3. Took(acc[m - 1], News[m], acc[m])
    BY <2>1, <2>2, TakeItemIs
  <2>4. PollSo(acc[m], m)
    BY <1>2, <2>1, <2>2, <2>3, PollGoesOn
  <2>. QED
    BY <2>1, <2>4
<1>5. n \in 0 .. n
  BY <1>2
<1> HIDE DEF T, n
<1>6. n \in T
  BY <1>2, <1>3, <1>4, <1>5, UpTo DEF n
<1>. QED
  BY <1>1, <1>6 DEF T, n

\* Of the lines of the files, a turn's completion is one.
DoneOnce ==
    \A t \in Turns :
        /\ SingleIn(lines[FileOf[t]], W!Done(t))
        /\ half[FileOf[t]] = t => ~LineIsWhole(t)

\* What is new is in a file beyond the offset from which the poll reads it.
LEMMA NewIs ==
    ASSUME FilesFit, WatchFits, NEW f \in Files, NEW k \in 1 .. Len(W!NewLines(f))
    PROVE  /\ f \in here /\ W!From(f) \in Nat
           /\ W!From(f) + k \in 1 .. Len(lines[f]) /\ W!NewLines(f)[k] = lines[f][W!From(f) + k]
<1>1. lines[f] \in Seq(Lines) /\ Len(lines[f]) \in Nat /\ state.offset[f] \in Nat
  BY LenProperties DEF FilesFit, WatchFits, WatchStates
<1>2. PICK a \in Nat : a = W!From(f) /\ a <= Len(lines[f])
  BY <1>1 DEF W!From
<1>3. f \in here
  <2>1. CASE f \notin here
    <3>1. W!NewLines(f) = <<>>
      BY <2>1 DEF W!NewLines
    <3>. QED
      BY <3>1
  <2>. QED
    BY <2>1
<1>4. W!NewLines(f) = SubSeq(lines[f], a + 1, Len(lines[f]))
  BY <1>2, <1>3 DEF W!NewLines
<1>5. \A i \in a + 1 .. Len(lines[f]) : lines[f][i] \in Lines
  BY <1>1, <1>2, ElementOfSeq
<1>6. /\ Len(SubSeq(lines[f], a + 1, Len(lines[f]))) =
             IF a + 1 <= Len(lines[f]) THEN Len(lines[f]) - (a + 1) + 1 ELSE 0
      /\ \A i \in 1 .. Len(lines[f]) - (a + 1) + 1 :
             SubSeq(lines[f], a + 1, Len(lines[f]))[i] = lines[f][a + 1 + i - 1]
  BY <1>1, <1>2, <1>5, SubSeqProperties
<1>7. k \in Nat /\ k >= 1 /\ k <= Len(lines[f]) - a
  BY <1>1, <1>2, <1>4, <1>6
<1>8. W!NewLines(f)[k] = lines[f][a + 1 + k - 1]
  BY <1>4, <1>6, <1>7
<1>9. a + 1 + k - 1 = a + k /\ a + k \in 1 .. Len(lines[f])
  BY <1>1, <1>7
<1>. QED
  BY <1>2, <1>3, <1>8, <1>9

\* A turn's completion is news of its file, and only once.
IsNews(t) == /\ FileOf[t] \in here
             /\ \E j \in 1 .. Len(lines[FileOf[t]]) :
                    j > W!From(FileOf[t]) /\ lines[FileOf[t]][j] = W!Done(t)

LEMMA NewsAre ==
    ASSUME FilesFit, WatchFits, DoneOnce, NEW t \in Turns
    PROVE  /\ SingleIn(News, W!Done(t))
           /\ (\E p \in 1 .. Len(News) : News[p] = W!Done(t)) => IsNews(t)
<1> DEFINE x == W!Done(t)
           f == FileOf[t]
           seqs == [g \in W!Files |-> W!NewLines(g)]
<1>1. f \in Files /\ x.turn = t /\ SingleIn(lines[f], x) /\ NumFiles \in Nat
  BY Numbers DEF W!Done, DoneOnce
<1>2. /\ seqs \in Seq(Seq(Lines)) /\ Len(seqs) = NumFiles
      /\ \A s \in 1 .. NumFiles : s \in Files /\ seqs[s] = W!NewLines(s)
  <2>1. \A s \in 1 .. NumFiles : W!NewLines(s) \in Seq(Lines)
    BY NewLinesFit DEF Files
  <2>2. seqs = [s \in 1 .. NumFiles |-> W!NewLines(s)]
    BY DEF W!Files
  <2> HIDE DEF seqs
  <2>3. seqs \in Seq(Seq(Lines)) /\ Len(seqs) = NumFiles
    BY <1>1, <2>1, <2>2
  <2>. QED
    BY <2>2, <2>3 DEF Files
<1> HIDE DEF x, seqs
<1>3. ASSUME NEW s \in 1 .. NumFiles, NEW k \in 1 .. Len(seqs[s]), seqs[s][k] = x
      PROVE  /\ s = f /\ f \in here /\ W!From(f) \in Nat /\ k \in Nat /\ k >= 1
             /\ W!From(f) + k \in 1 .. Len(lines[f]) /\ lines[f][W!From(f) + k] = x
  <2>1. s \in Files /\ seqs[s] = W!NewLines(s)
    BY <1>2
  <2>2. /\ s \in here /\ W!From(s) \in Nat /\ W!From(s) + k \in 1 .. Len(lines[s])
        /\ lines[s][W!From(s) + k] = x
    BY <1>3, <2>1, NewIs
  <2>3. FileOf[x.turn] = s
    BY <2>1, <2>2 DEF FilesFit, OwnLines
  <2>4. seqs[s] \in Seq(Lines)
    BY <1>2
  <2>5. k \in Nat /\ k >= 1
    BY <2>4, LenProperties
  <2>. QED
    BY <1>1, <2>2, <2>3, <2>5
<1>4. Single(seqs, x)
  <2> SUFFICES ASSUME NEW s \in 1 .. NumFiles, NEW r \in 1 .. NumFiles,
                      NEW k \in 1 .. Len(seqs[s]), NEW j \in 1 .. Len(seqs[r]),
                      seqs[s][k] = x, seqs[r][j] = x
               PROVE  s = r /\ k = j
    BY <1>2 DEF Single
  <2>1. /\ s = f /\ W!From(f) \in Nat /\ k \in Nat
        /\ W!From(f) + k \in 1 .. Len(lines[f]) /\ lines[f][W!From(f) + k] = x
    BY <1>3
  <2>2. /\ r = f /\ j \in Nat
        /\ W!From(f) + j \in 1 .. Len(lines[f]) /\ lines[f][W!From(f) + j] = x
    BY <1>3
  <2>3. W!From(f) + k = W!From(f) + j
    BY <1>1, <2>1, <2>2 DEF SingleIn
  <2>. QED
    BY <2>1, <2>2, <2>3
<1>5. News = W!FlattenSeq(seqs)
  BY DEF News, seqs
<1>6. ComesFrom(News, seqs, NumFiles) /\ SingleIn(News, x)
  BY <1>2, <1>4, <1>5, FlatKeeps
<1>7. ASSUME NEW p \in 1 .. Len(News), News[p] = x PROVE IsNews(t)
  <2>1. PICK s \in 1 .. NumFiles : \E k \in 1 .. Len(seqs[s]) : x = seqs[s][k]
    BY <1>6, <1>7 DEF ComesFrom
  <2>2. PICK k \in 1 .. Len(seqs[s]) : x = seqs[s][k]
    BY <2>1
  <2>3. /\ f \in here /\ W!From(f) \in Nat /\ k \in Nat /\ k >= 1
        /\ W!From(f) + k \in 1 .. Len(lines[f]) /\ lines[f][W!From(f) + k] = x
    BY <1>3, <2>2
  <2>4. PICK j \in 1 .. Len(lines[f]) : j = W!From(f) + k /\ lines[f][j] = x
    BY <2>3
  <2>5. j > W!From(f)
    BY <2>3, <2>4
  <2>. QED
    BY <2>3, <2>4, <2>5 DEF IsNews, x
<1>. QED
  BY <1>6, <1>7 DEF x

\* The polls.  Whoever is announced is so because of a new line of its file, is none
\* of the reply turns that the poll knows, and a turn of Desktop; one that was delivered
\* before is not announced, unless it has gone.
LEMMA ReadingIs ==
    ASSUME FilesFit, WatchFits, DoneOnce, Fitting(state.delivered), W!ReadFiles
    PROVE  /\ Fitting(batch'.next.delivered) /\ Distinct(batch'.signals)
           /\ \A t \in Turns : Signalled(batch'.signals, t) =>
                  IsNews(t) /\ t \notin index /\ FileOf[t] \in DesktopFiles
           /\ \A t \in Turns : t \in state.delivered /\ Signalled(batch'.signals, t) =>
                  t \notin batch'.next.delivered
           /\ forgotten' = forgotten \cup
                  ((state.delivered \cup {t \in Turns : Signalled(batch'.signals, t)}) \ batch'.next.delivered)
           /\ batch'.next.offset = [f \in Files |-> W!NextOffset(f)]
<1>1. PICK taken : taken = W!FoldLeft(W!TakeItem, Before, News)
  OBVIOUS
<1>2. PollSo(taken, Len(News))
  BY <1>1, NewsAre, PollIs
<1>3. /\ batch' = [signals |-> taken.signals,
                   next    |-> [offset    |-> [f \in W!Files |-> W!NextOffset(f)],
                                delivered |-> taken.delivered],
                   pending |-> taken.pending]
      /\ forgotten' = forgotten \cup ((state.delivered \cup W!TurnsOf(taken.signals)) \ taken.delivered)
  BY <1>1 DEF W!ReadFiles, News, Before
<1>4. batch'.signals = taken.signals /\ batch'.next.delivered = taken.delivered
      /\ batch'.next.offset = [f \in Files |-> W!NextOffset(f)]
  BY <1>3, SameFiles
<1>5. /\ Fitting(taken.delivered) /\ Distinct(taken.signals) /\ Kept(taken.delivered, taken.signals)
      /\ SignalsFrom(taken.signals, Len(News)) /\ taken.signals \in Seq(Signals)
  BY <1>2 DEF PollSo, Gathered
<1>6. ASSUME NEW t \in Turns, Signalled(taken.signals, t)
      PROVE  IsNews(t) /\ t \notin index /\ FileOf[t] \in DesktopFiles
  <2>1. PICK k \in 1 .. Len(taken.signals) : taken.signals[k].turn = t
    BY <1>6 DEF Signalled
  <2>2. /\ \E p \in 1 .. Len(News) : News[p] = W!Done(t)
        /\ t \notin index /\ FileOf[t] \in DesktopFiles
    BY <1>5, <2>1 DEF SignalsFrom
  <2>. QED
    BY <2>2, NewsAre
<1>7. ASSUME NEW t \in Turns, t \in state.delivered, Signalled(taken.signals, t)
      PROVE  t \notin taken.delivered
  BY <1>5, <1>7 DEF Kept, Gone
<1>8. W!TurnsOf(taken.signals) = {t \in Turns : Signalled(taken.signals, t)}
  <2>1. \A k \in 1 .. Len(taken.signals) : taken.signals[k].turn \in Turns
    <3>1. PICK s \in Seq(Signals) : s = taken.signals
      BY <1>5
    <3>2. \A k \in 1 .. Len(s) : s[k] \in Signals
      BY ElementOfSeq
    <3>. QED
      BY <3>1, <3>2 DEF Signals
  <2>2. W!TurnsOf(taken.signals) = {taken.signals[k].turn : k \in 1 .. Len(taken.signals)}
    BY <1>5 DEF W!TurnsOf, W!ToSet
  <2>. QED
    BY <2>1, <2>2 DEF Signalled
<1>. QED
  BY <1>3, <1>4, <1>5, <1>6, <1>7, <1>8

\* What a step of the environment does to the files and to each turn: its completion may
\* become a whole line, or all that is known of it stays.
Grows(f) == /\ Len(lines[f]) <= Len(lines'[f])
            /\ \A i \in 1 .. Len(lines[f]) : lines'[f][i] = lines[f][i]
Ends(t) ==
    /\ ~LineIsWhole(t) /\ LineIsWhole(t)'
    /\ t \in missed' => watch = "off" \/ t \in missed
    /\ t \in ReplyTurns \ quick' => t \in IF watch = "indexed" THEN index ELSE recorded
SamePlaces(t) ==
    \A i \in 1 .. Len(lines'[FileOf[t]]) :
        lines'[FileOf[t]][i] = W!Done(t) =>
            i \in 1 .. Len(lines[FileOf[t]]) /\ lines[FileOf[t]][i] = W!Done(t)
Stays(t) ==
    /\ t \in missed' <=> t \in missed
    /\ LineIsWhole(t)' => LineIsWhole(t)
    /\ FileOf[t] \notin disturbed' => (LineIsWhole(t) => LineIsWhole(t)') /\ SamePlaces(t)
WatchMemory == <<watch, state, batch, watchSaved, index, routed, forgotten>>
FileHistory == <<lines, half, here, recorded, missed, quick, disturbed>>
Environment ==
    /\ UNCHANGED WatchMemory
    /\ recorded \subseteq recorded' /\ quick \subseteq quick' /\ disturbed \subseteq disturbed'
    /\ Files \ here \subseteq disturbed => Files \ here' \subseteq disturbed'
    /\ \A f \in Files \ disturbed' : Grows(f)
    /\ \A t \in Turns : Ends(t) \/ Stays(t)

LEMMA LinesAre == 
    ASSUME FilesFit, NEW f \in Files
    PROVE  lines[f] \in Seq(Lines) /\ Len(lines[f]) \in Nat
  BY LenProperties DEF FilesFit

LEMMA NothingEnds ==
    ASSUME FilesFit, UNCHANGED <<lines, missed>>
    PROVE  (\A f \in Files : Grows(f)) /\ \A t \in Turns : Stays(t)
<1>1. \A f \in Files : Grows(f)
  BY LinesAre DEF Grows
<1>2. \A t \in Turns : Stays(t)
  BY DEF Stays, SamePlaces, LineIsWhole
<1>. QED
  BY <1>1, <1>2

LEMMA OneMoreLine ==
    ASSUME FilesFit, NEW g \in Files, NEW line \in Lines, FileOf[line.turn] = g,
           lines' = [lines EXCEPT ![g] = Append(lines[g], line)]
    PROVE  /\ \A f \in Files : Grows(f)
           /\ \A t \in Turns : line # W!Done(t) =>
                  SamePlaces(t) /\ (LineIsWhole(t)' <=> LineIsWhole(t))
           /\ \A t \in Turns : line = W!Done(t) => LineIsWhole(t)'
           /\ lines'[g][Len(lines[g]) + 1] = line /\ Len(lines'[g]) = Len(lines[g]) + 1
<1>1. /\ lines \in [Files -> Seq(Lines)] /\ lines[g] \in Seq(Lines) /\ Len(lines[g]) \in Nat
      /\ \A f \in Files : Len(lines[f]) \in Nat
  BY LinesAre DEF FilesFit
<1> DEFINE s == lines[g]
           n == Len(s)
           q == Append(s, line)
<1>2. /\ Len(q) = n + 1 /\ q[n + 1] = line /\ \A i \in 1 .. n : q[i] = s[i]
  BY <1>1, AppendIs
<1>3. \A f \in Files : lines'[f] = IF f = g THEN q ELSE lines[f]
  BY <1>1
<1>4. n + 1 \in 1 .. n + 1 /\ \A i \in 1 .. n + 1 : i \in 1 .. n \/ i = n + 1
  BY <1>1
<1> HIDE DEF q
<1>5. \A f \in Files : Grows(f)
  BY <1>1, <1>2, <1>3 DEF Grows
<1>6. ASSUME NEW t \in Turns, line # W!Done(t)
      PROVE  SamePlaces(t) /\ (LineIsWhole(t)' <=> LineIsWhole(t))
  <2>1. FileOf[t] \in Files
    BY Numbers
  <2>2. SamePlaces(t)
    BY <1>2, <1>3, <1>4, <1>6, <2>1 DEF SamePlaces
  <2>3. LineIsWhole(t) => LineIsWhole(t)'
    <3>1. \A i \in 1 .. Len(lines[FileOf[t]]) : i \in 1 .. Len(lines'[FileOf[t]])
      BY <1>1, <1>5, <2>1, <1>3, <1>2 DEF Grows
    <3>. QED
      BY <1>5, <2>1, <3>1 DEF Grows, LineIsWhole
  <2>4. LineIsWhole(t)' => LineIsWhole(t)
    BY <2>2 DEF SamePlaces, LineIsWhole
  <2>. QED
    BY <2>2, <2>3, <2>4
<1>7. ASSUME NEW t \in Turns, line = W!Done(t) PROVE LineIsWhole(t)'
  <2>1. FileOf[t] = g
    BY <1>7 DEF W!Done
  <2>. QED
    BY <1>2, <1>3, <1>4, <1>7, <2>1 DEF LineIsWhole
<1>. QED
  BY <1>2, <1>3, <1>5, <1>6, <1>7

\* A file that is cut off holds a part of what it held.
LEMMA FewerLines ==
    ASSUME FilesFit, NEW g \in Files, NEW k \in Nat, k < Len(lines[g]),
           lines' = [lines EXCEPT ![g] = SubSeq(lines[g], 1, k)]
    PROVE  /\ \A f \in Files \ {g} : Grows(f)
           /\ \A t \in Turns : SamePlaces(t) /\ (LineIsWhole(t)' => LineIsWhole(t))
           /\ \A t \in Turns : FileOf[t] # g => (LineIsWhole(t)' <=> LineIsWhole(t))
<1>1. /\ lines \in [Files -> Seq(Lines)] /\ lines[g] \in Seq(Lines) /\ Len(lines[g]) \in Nat
      /\ \A f \in Files : Len(lines[f]) \in Nat
  BY LinesAre DEF FilesFit
<1>2. /\ Len(SubSeq(lines[g], 1, k)) = k
      /\ \A i \in 1 .. k : SubSeq(lines[g], 1, k)[i] = lines[g][i]
  <2>1. \A i \in 1 .. k : lines[g][i] \in Lines
    BY <1>1, ElementOfSeq
  <2>2. /\ Len(SubSeq(lines[g], 1, k)) = IF 1 <= k THEN k - 1 + 1 ELSE 0
        /\ \A i \in 1 .. k - 1 + 1 : SubSeq(lines[g], 1, k)[i] = lines[g][1 + i - 1]
    BY <2>1, SubSeqProperties
  <2>3. k - 1 + 1 = k /\ \A i \in 1 .. k : 1 + i - 1 = i
    OBVIOUS
  <2>. QED
    BY <2>2, <2>3
<1>3. \A f \in Files : lines'[f] = IF f = g THEN SubSeq(lines[g], 1, k) ELSE lines[f]
  BY <1>1
<1>4. \A f \in Files \ {g} : Grows(f)
  BY <1>1, <1>3 DEF Grows
<1>5. ASSUME NEW t \in Turns PROVE SamePlaces(t)
  <2>1. FileOf[t] \in Files
    BY Numbers
  <2>2. \A i \in 1 .. k : i \in 1 .. Len(lines[g])
    BY <1>1
  <2>. QED
    BY <1>2, <1>3, <2>1, <2>2 DEF SamePlaces
<1>6. \A t \in Turns : LineIsWhole(t)' => LineIsWhole(t)
  BY <1>5 DEF SamePlaces, LineIsWhole
<1>7. ASSUME NEW t \in Turns, FileOf[t] # g PROVE LineIsWhole(t)' <=> LineIsWhole(t)
  <2>1. FileOf[t] \in Files
    BY Numbers
  <2>2. lines'[FileOf[t]] = lines[FileOf[t]]
    BY <1>3, <1>7, <2>1
  <2>. QED
    BY <2>2 DEF LineIsWhole
<1>. QED
  BY <1>4, <1>5, <1>6, <1>7

WatchActs ==
    \/ W!StartWatch \/ W!StopWatch \/ W!ReadIndex \/ W!ReadFiles \/ W!RouteNext \/ W!Commit \/ W!Crash

LEMMA WatchOrWorld ==
    ASSUME FilesFit, WatchFits, DoneOnce, WatchMoves
    PROVE  Environment \/ (WatchActs /\ UNCHANGED FileHistory)
<1> DEFINE Quietly == /\ UNCHANGED WatchMemory /\ UNCHANGED <<lines, missed, quick, disturbed>>
                      /\ here \subseteq here' /\ recorded \subseteq recorded'
<1>1. CASE Quietly
  BY <1>1, NothingEnds DEF Environment, WatchMemory
<1>2. ASSUME NEW t \in Turns, W!RecordReplyTurn(t) PROVE Quietly
  BY <1>2 DEF W!RecordReplyTurn, W!fileVars, W!watchVars, W!historyVars, W!boundVars, WatchMemory
<1>3. ASSUME NEW u \in Turns, W!Ask(u) PROVE Environment
  <2>1. /\ UNCHANGED WatchMemory /\ UNCHANGED <<here, recorded, missed, quick, disturbed>>
        /\ lines' = [lines EXCEPT ![FileOf[u]] = Append(lines[FileOf[u]], W!Asked(u))]
    BY <1>3 DEF W!Ask, W!watchVars, W!historyVars, W!boundVars, WatchMemory
  <2>2. FileOf[u] \in Files /\ W!Asked(u) \in Lines /\ W!Asked(u).turn = u
    BY Numbers DEF W!Asked, Lines
  <2>3. \A t \in Turns : W!Asked(u) # W!Done(t)
    BY DEF W!Asked, W!Done
  <2>4. /\ \A f \in Files : Grows(f)
        /\ \A t \in Turns : SamePlaces(t) /\ (LineIsWhole(t)' <=> LineIsWhole(t))
    BY <2>1, <2>2, <2>3, OneMoreLine
  <2>5. \A t \in Turns : Stays(t)
    BY <2>1, <2>4 DEF Stays
  <2>. QED
    BY <2>1, <2>4, <2>5 DEF Environment
<1>4. ASSUME NEW t \in Turns, W!BeginLine(t) PROVE Quietly
  BY <1>4 DEF W!BeginLine, W!watchVars, W!historyVars, W!boundVars, WatchMemory
<1>5. ASSUME NEW f \in Files, W!FinishLine(f) PROVE Environment
  <2>1. PICK u : u = half[f] /\ u # 0
    BY <1>5 DEF W!FinishLine
  <2>2. u \in Turns /\ FileOf[u] = f /\ ~LineIsWhole(u)
    BY <2>1 DEF FilesFit, DoneOnce
  <2>3. /\ UNCHANGED WatchMemory /\ UNCHANGED <<here, recorded, disturbed>>
        /\ lines' = [lines EXCEPT ![f] = Append(lines[f], W!Done(u))]
        /\ missed' = IF watch = "off" THEN missed \cup {u} ELSE missed
        /\ quick' = quick \cup (({u} \cap ReplyTurns) \ (IF watch = "indexed" THEN index ELSE recorded))
    BY <1>5, <2>1 DEF W!FinishLine, W!watchVars, W!boundVars, WatchMemory
  <2>4. W!Done(u) \in Lines /\ W!Done(u).turn = u /\ \A t \in Turns : t # u => W!Done(u) # W!Done(t)
    BY <2>2 DEF W!Done, Lines
  <2>5. /\ \A g \in Files : Grows(g)
        /\ \A t \in Turns : t # u => SamePlaces(t) /\ (LineIsWhole(t)' <=> LineIsWhole(t))
        /\ LineIsWhole(u)'
    BY <2>2, <2>3, <2>4, OneMoreLine
  <2>6. Ends(u)
    BY <2>2, <2>3, <2>5 DEF Ends
  <2>7. \A t \in Turns : t # u => Stays(t)
    BY <2>3, <2>5 DEF Stays
  <2>. QED
    BY <2>3, <2>5, <2>6, <2>7 DEF Environment
<1>6. ASSUME NEW f \in Files, W!Disappear(f) PROVE Environment
  <2>1. /\ UNCHANGED WatchMemory /\ UNCHANGED <<lines, recorded, missed, quick>>
        /\ here' = here \ {f} /\ disturbed' = disturbed \cup {f}
    BY <1>6 DEF W!Disappear, W!watchVars, WatchMemory
  <2>. QED
    BY <2>1, NothingEnds DEF Environment
<1>7. ASSUME NEW f \in Files, W!Reappear(f) PROVE Quietly
  BY <1>7 DEF W!Reappear, W!watchVars, W!historyVars, W!boundVars, WatchMemory
<1>8. ASSUME NEW f \in Files, NEW k \in 0 .. 2 * NumTurns, W!Rewrite(f, k) PROVE Environment
  <2>1. /\ UNCHANGED WatchMemory /\ UNCHANGED <<here, recorded, missed, quick>>
        /\ k < Len(lines[f]) /\ lines' = [lines EXCEPT ![f] = SubSeq(lines[f], 1, k)]
        /\ disturbed' = disturbed \cup {f}
    BY <1>8 DEF W!Rewrite, W!watchVars, WatchMemory
  <2>2. k \in Nat
    OBVIOUS
  <2>3. /\ \A g \in Files \ {f} : Grows(g)
        /\ \A t \in Turns : SamePlaces(t) /\ (LineIsWhole(t)' => LineIsWhole(t))
        /\ \A t \in Turns : FileOf[t] # f => (LineIsWhole(t)' <=> LineIsWhole(t))
    BY <2>1, <2>2, FewerLines
  <2>4. \A t \in Turns : Stays(t)
    BY <2>1, <2>3 DEF Stays
  <2>5. \A g \in Files \ disturbed' : Grows(g)
    BY <2>1, <2>3
  <2>. QED
    BY <2>1, <2>4, <2>5 DEF Environment
<1>9. CASE W!SwitchPrompts
  <2>1. Quietly
    BY <1>9 DEF W!SwitchPrompts, W!fileVars, W!watchVars, W!historyVars, WatchMemory
  <2>. QED
    BY <1>1, <2>1
<1>10. CASE WatchActs
  <2>1. CASE W!StartWatch
    BY <1>10, <2>1 DEF W!StartWatch, W!fileVars, W!historyVars, FileHistory
  <2>2. CASE W!StopWatch
    BY <1>10, <2>2 DEF W!StopWatch, W!fileVars, FileHistory
  <2>3. CASE W!ReadIndex
    BY <1>10, <2>3 DEF W!ReadIndex, W!fileVars, W!historyVars, FileHistory
  <2>4. CASE W!ReadFiles
    <3>1. UNCHANGED <<W!fileVars, recorded, missed, quick, disturbed>>
      BY <2>4 DEF W!ReadFiles
    <3>. QED
      BY <1>10, <3>1 DEF W!fileVars, FileHistory
  <2>5. CASE W!RouteNext
    BY <1>10, <2>5 DEF W!RouteNext, W!fileVars, FileHistory
  <2>6. CASE W!Commit
    BY <1>10, <2>6 DEF W!Commit, W!fileVars, W!historyVars, FileHistory
  <2>7. CASE W!Crash
    BY <1>10, <2>7 DEF W!Crash, W!fileVars, FileHistory
  <2>. QED
    BY <1>10, <2>1, <2>2, <2>3, <2>4, <2>5, <2>6, <2>7 DEF WatchActs
<1>11. CASE UNCHANGED watcherVars
  BY <1>1, <1>11 DEF watcherVars, WatchMemory
<1> HIDE DEF Quietly
<1>. QED
  BY <1>1, <1>2, <1>3, <1>4, <1>5, <1>6, <1>7, <1>8, <1>9, <1>10, <1>11, SameFiles
     DEF WatchMoves, W!Next, W!WatchStep, WatchActs

LEMMA SingleStays ==
    ASSUME NEW t \in Turns, SamePlaces(t), SingleIn(lines[FileOf[t]], W!Done(t))
    PROVE  SingleIn(lines'[FileOf[t]], W!Done(t))
  BY DEF SamePlaces, SingleIn

LEMMA StepKeepsOnce == FilesFit /\ WatchFits /\ DoneOnce /\ WatchMoves => DoneOnce'
<1> SUFFICES ASSUME FilesFit, WatchFits, DoneOnce, WatchMoves PROVE DoneOnce'
  OBVIOUS
<1> DEFINE Fine(t) == /\ SingleIn(lines'[FileOf[t]], W!Done(t))
                      /\ half'[FileOf[t]] = t => ~LineIsWhole(t)'
<1>0. (\A t \in Turns : Fine(t)) => DoneOnce'
  BY DEF DoneOnce, W!Done
<1>1. CASE UNCHANGED <<lines, half>>
  BY <1>0, <1>1 DEF DoneOnce, LineIsWhole
<1>2. ASSUME NEW t \in Turns, W!RecordReplyTurn(t) PROVE DoneOnce'
  BY <1>1, <1>2 DEF W!RecordReplyTurn, W!fileVars
<1>3. ASSUME NEW u \in Turns, W!Ask(u) PROVE DoneOnce'
  <2>1. half' = half /\ lines' = [lines EXCEPT ![FileOf[u]] = Append(lines[FileOf[u]], W!Asked(u))]
    BY <1>3 DEF W!Ask
  <2>2. FileOf[u] \in Files /\ W!Asked(u) \in Lines /\ W!Asked(u).turn = u
    BY Numbers DEF W!Asked, Lines
  <2>3. \A t \in Turns : W!Asked(u) # W!Done(t)
    BY DEF W!Asked, W!Done
  <2>4. \A t \in Turns : SamePlaces(t) /\ (LineIsWhole(t)' <=> LineIsWhole(t))
    BY <2>1, <2>2, <2>3, OneMoreLine
  <2>5. \A t \in Turns : Fine(t)
    BY <2>1, <2>4, SingleStays DEF DoneOnce
  <2>. QED
    BY <1>0, <2>5
<1>4. ASSUME NEW u \in Turns, W!BeginLine(u) PROVE DoneOnce'
  <2>1. /\ lines' = lines /\ half' = [half EXCEPT ![FileOf[u]] = u]
        /\ W!Done(u) \notin W!ToSet(lines[FileOf[u]])
    BY <1>4 DEF W!BeginLine
  <2>2. ~LineIsWhole(u)
    BY <2>1 DEF LineIsWhole, W!ToSet
  <2>3. \A t \in Turns : half'[FileOf[t]] = t => t = u \/ half[FileOf[t]] = t
    BY <2>1, Numbers DEF FilesFit
  <2>4. \A t \in Turns : Fine(t)
    BY <2>1, <2>2, <2>3 DEF DoneOnce, LineIsWhole
  <2>. QED
    BY <1>0, <2>4
<1>5. ASSUME NEW f \in Files, W!FinishLine(f) PROVE DoneOnce'
  <2>1. PICK u : u = half[f] /\ u # 0
    BY <1>5 DEF W!FinishLine
  <2>2. u \in Turns /\ FileOf[u] = f /\ ~LineIsWhole(u)
    BY <2>1 DEF FilesFit, DoneOnce
  <2>3. /\ lines' = [lines EXCEPT ![f] = Append(lines[f], W!Done(u))]
        /\ half' = [half EXCEPT ![f] = 0]
    BY <1>5, <2>1 DEF W!FinishLine
  <2>4. W!Done(u) \in Lines /\ W!Done(u).turn = u /\ \A t \in Turns : t # u => W!Done(u) # W!Done(t)
    BY <2>2 DEF W!Done, Lines
  <2>5. /\ \A t \in Turns : t # u => SamePlaces(t) /\ (LineIsWhole(t)' <=> LineIsWhole(t))
        /\ Grows(f) /\ Len(lines'[f]) = Len(lines[f]) + 1
    BY <2>2, <2>3, <2>4, OneMoreLine
  <2>6. \A t \in Turns : half'[FileOf[t]] = t => t # u /\ half[FileOf[t]] = t
    BY <2>2, <2>3, Numbers DEF FilesFit
  <2>7. SingleIn(lines'[f], W!Done(u))
    <3>1. Len(lines[f]) \in Nat
      BY LinesAre
    <3>2. \A i \in 1 .. Len(lines'[f]) : lines'[f][i] = W!Done(u) => i = Len(lines[f]) + 1
      BY <2>2, <2>5, <3>1 DEF Grows, LineIsWhole
    <3>. QED
      BY <3>2 DEF SingleIn
  <2>8. \A t \in Turns : Fine(t)
    BY <2>2, <2>5, <2>6, <2>7, SingleStays DEF DoneOnce
  <2>. QED
    BY <1>0, <2>8
<1>6. ASSUME NEW f \in Files, W!Disappear(f) \/ W!Reappear(f) PROVE DoneOnce'
  BY <1>1, <1>6 DEF W!Disappear, W!Reappear
<1>7. ASSUME NEW f \in Files, NEW k \in 0 .. 2 * NumTurns, W!Rewrite(f, k) PROVE DoneOnce'
  <2>1. /\ k < Len(lines[f]) /\ lines' = [lines EXCEPT ![f] = SubSeq(lines[f], 1, k)]
        /\ half' = [half EXCEPT ![f] = 0]
    BY <1>7 DEF W!Rewrite
  <2>2. k \in Nat
    OBVIOUS
  <2>3. \A t \in Turns : SamePlaces(t) /\ (LineIsWhole(t)' => LineIsWhole(t))
    BY <2>1, <2>2, FewerLines
  <2>4. \A t \in Turns : half'[FileOf[t]] = t => half[FileOf[t]] = t
    BY <2>1, Numbers DEF FilesFit
  <2>5. \A t \in Turns : Fine(t)
    BY <2>3, <2>4, SingleStays DEF DoneOnce
  <2>. QED
    BY <1>0, <2>5
<1>8. CASE W!SwitchPrompts
  BY <1>1, <1>8 DEF W!SwitchPrompts, W!fileVars
<1>9. CASE WatchActs
  <2>1. UNCHANGED W!fileVars
    <3>1. CASE W!StartWatch \/ W!StopWatch
      BY <3>1 DEF W!StartWatch, W!StopWatch
    <3>2. CASE W!ReadIndex \/ W!RouteNext
      BY <3>2 DEF W!ReadIndex, W!RouteNext
    <3>3. CASE W!ReadFiles
      BY <3>3 DEF W!ReadFiles
    <3>4. CASE W!Commit \/ W!Crash
      BY <3>4 DEF W!Commit, W!Crash
    <3>. QED
      BY <1>9, <3>1, <3>2, <3>3, <3>4 DEF WatchActs
  <2>. QED
    BY <1>1, <2>1 DEF W!fileVars
<1>10. CASE UNCHANGED watcherVars
  BY <1>1, <1>10 DEF watcherVars
<1>. QED
  BY <1>2, <1>3, <1>4, <1>5, <1>6, <1>7, <1>8, <1>9, <1>10, SameFiles
     DEF WatchMoves, W!Next, W!WatchStep, WatchActs

\* What the watch has announced, or is about to.
Seen(t) == routed[t] > 0 \/ Signalled(batch.signals, t)

\* The watch state that the loop goes on with.
Reached == IF watch = "routing" THEN batch.next ELSE watchSaved

\* The loop holds what its file holds, and a batch only while it is routed; its offsets
\* are within the files, unless they were disturbed.
LoopFits ==
    /\ Files \ here \subseteq disturbed
    /\ watch # "off" => state = watchSaved
    /\ watch # "routing" => batch = W!NoBatch
    /\ index \subseteq recorded
    /\ Fitting(watchSaved.delivered) /\ Fitting(batch.next.delivered)
    /\ Distinct(batch.signals)
    /\ \A f \in Files \ disturbed :
           watchSaved.offset[f] <= Len(lines[f]) /\ batch.next.offset[f] <= Len(lines[f])
    /\ \A t \in Turns : Seen(t) => FileOf[t] \in DesktopFiles

\* An empty batch.
LEMMA NoBatchIs ==
    /\ Fitting(W!NoBatch.next.delivered) /\ Distinct(W!NoBatch.signals)
    /\ \A f \in Files : W!NoBatch.next.offset[f] = 0
    /\ \A t : ~Signalled(W!NoBatch.signals, t)
    /\ W!NoBatch.next.delivered = {}
<1>1. /\ W!NoBatch.signals = <<>> /\ W!NoBatch.next.delivered = {}
      /\ W!NoBatch.next.offset = [f \in Files |-> 0]
  BY SameFiles DEF W!NoBatch, W!NoState
<1>2. Fitting({})
  BY FS_EmptySet, Numbers DEF Fitting
<1>3. \A i \in 1 .. Len(W!NoBatch.signals) : FALSE
  BY <1>1
<1>. QED
  BY <1>1, <1>2, <1>3 DEF Distinct, Signalled

\* The first signal of the batch is handed to the router.
LEMMA RoutingIs ==
    ASSUME WatchFits, Distinct(batch.signals), W!RouteNext
    PROVE  \E h \in Turns :
               /\ Signalled(batch.signals, h) /\ ~Signalled(batch'.signals, h)
               /\ routed'[h] = routed[h] + 1
               /\ \A t \in Turns : t # h =>
                      /\ routed'[t] = routed[t]
                      /\ Signalled(batch'.signals, t) <=> Signalled(batch.signals, t)
               /\ Distinct(batch'.signals) /\ batch'.next = batch.next
               /\ watch = "routing" /\ UNCHANGED <<watch, index, state, watchSaved, forgotten>>
<1>1. PICK s \in Seq(Signals) : s = batch.signals
  BY DEF WatchFits, Batches
<1>2. /\ s # <<>> /\ batch' = [batch EXCEPT !.signals = Tail(s)]
      /\ routed' = [routed EXCEPT ![Head(s).turn] = @ + 1]
      /\ watch = "routing" /\ UNCHANGED <<watch, index, state, watchSaved, forgotten>>
  BY <1>1 DEF W!RouteNext
<1>3. PICK d \in Signals : d = Head(s)
  BY <1>2, HeadTailProperties
<1>4. PICK h \in Turns : h = d.turn
  BY DEF Signals
<1>5. PICK q \in Seq(Signals) : q = Tail(s)
  BY <1>2, HeadTailProperties
<1>6. /\ Len(s) \in Nat /\ Len(s) >= 1 /\ s[1].turn = h /\ Len(q) = Len(s) - 1
      /\ \A i \in 1 .. Len(q) : q[i] = s[i + 1]
  BY <1>2, <1>3, <1>4, <1>5, HeadTailProperties, LenProperties
<1>7. batch'.signals = q /\ batch'.next = batch.next
  BY <1>2, <1>5 DEF WatchFits, Batches
<1>8. routed'[h] = routed[h] + 1 /\ \A t \in Turns : t # h => routed'[t] = routed[t]
  BY <1>2, <1>3, <1>4 DEF WatchFits
<1>9. Distinct(s) /\ 1 \in 1 .. Len(s) /\ \A i \in 1 .. Len(q) : i + 1 \in 1 .. Len(s) /\ i + 1 # 1
  BY <1>1, <1>6
<1>10. Distinct(q)
  <2> SUFFICES ASSUME NEW i \in 1 .. Len(q), NEW k \in 1 .. Len(q), q[i].turn = q[k].turn
               PROVE  i = k
    BY DEF Distinct
  <2>1. s[i + 1].turn = s[k + 1].turn /\ i + 1 \in 1 .. Len(s) /\ k + 1 \in 1 .. Len(s)
    BY <1>6, <1>9
  <2>2. i + 1 = k + 1
    BY <1>9, <2>1 DEF Distinct
  <2>. QED
    BY <1>6, <2>2
<1>11. \A i \in 1 .. Len(q) : q[i].turn # h
  BY <1>6, <1>9 DEF Distinct
<1>12. \A t : t # h => (Signalled(q, t) <=> Signalled(s, t))
  <2>1. \A i \in 1 .. Len(s) : i = 1 \/ (i - 1 \in 1 .. Len(q) /\ q[i - 1] = s[i])
    BY <1>6
  <2>. QED
    BY <1>6, <1>9, <2>1 DEF Signalled
<1>13. Signalled(s, h) /\ ~Signalled(q, h)
  BY <1>6, <1>9, <1>11 DEF Signalled
<1>. QED
  BY <1>1, <1>2, <1>7, <1>8, <1>10, <1>12, <1>13

\* The loop keeps it so.
LEMMA StepKeepsLoop ==
    FilesFit /\ WatchFits /\ DoneOnce /\ LoopFits /\ WatchMoves => LoopFits'
<1> SUFFICES ASSUME FilesFit, WatchFits, DoneOnce, LoopFits, WatchMoves PROVE LoopFits'
  OBVIOUS
<1> DEFINE InFiles(offset) == \A f \in Files \ disturbed : offset[f] <= Len(lines[f])
           OfDesktop == \A t \in Turns : Seen(t)' => FileOf[t] \in DesktopFiles
<1>1. CASE Environment
  <2>1. /\ UNCHANGED WatchMemory /\ recorded \subseteq recorded'
        /\ disturbed \subseteq disturbed' /\ Files \ here' \subseteq disturbed'
        /\ \A f \in Files \ disturbed' : Grows(f)
    BY <1>1 DEF Environment, LoopFits
  <2>2. UNCHANGED <<watch, state, batch, watchSaved, index, routed>>
    BY <2>1 DEF WatchMemory
  <2>3. \A t \in Turns : Seen(t)' <=> Seen(t)
    BY <2>2 DEF Seen
  <2>4. ASSUME NEW f \in Files \ disturbed'
        PROVE  watchSaved.offset[f] <= Len(lines'[f]) /\ batch.next.offset[f] <= Len(lines'[f])
    <3>1. watchSaved.offset[f] \in Nat /\ batch.next.offset[f] \in Nat
      BY DEF WatchFits, Batches, WatchStates
    <3>2. Len(lines[f]) \in Nat /\ Len(lines'[f]) \in Nat
      <4>1. FilesFit'
        BY StepKeepsFiles
      <4>. QED
        BY <4>1, LenProperties DEF FilesFit
    <3>. QED
      BY <2>1, <3>1, <3>2 DEF Grows, LoopFits
  <2>. QED
    BY <2>1, <2>2, <2>3, <2>4 DEF LoopFits
<1>2. CASE WatchActs /\ UNCHANGED FileHistory
  <2>1. /\ UNCHANGED <<lines, half, here, recorded, missed, quick, disturbed>>
        /\ Files \ here \subseteq disturbed /\ index \subseteq recorded
        /\ Fitting(watchSaved.delivered) /\ Fitting(batch.next.delivered) /\ Distinct(batch.signals)
        /\ InFiles(watchSaved.offset) /\ InFiles(batch.next.offset)
        /\ \A t \in Turns : Seen(t) => FileOf[t] \in DesktopFiles
    BY <1>2 DEF FileHistory, LoopFits
  <2> HIDE DEF InFiles
  <2>2. ASSUME UNCHANGED <<batch, routed>> PROVE OfDesktop
    BY <2>1, <2>2 DEF Seen
  <2>3. CASE W!StartWatch
    <3>1. watch = "off" /\ watch' = "ready" /\ UNCHANGED <<index, batch, routed>>
          /\ state' = W!Baseline /\ watchSaved' = W!Baseline
      BY <2>3 DEF W!StartWatch, W!historyVars
    <3>2. /\ W!Baseline.delivered = watchSaved.delivered
          /\ W!Baseline.offset = [f \in Files |-> IF f \in here THEN Len(lines[f]) ELSE watchSaved.offset[f]]
      BY SameFiles DEF W!Baseline, WatchFits, WatchStates
    <3>3. InFiles(W!Baseline.offset)
      BY <2>1, <3>2, LinesAre DEF InFiles
    <3>4. OfDesktop
      BY <2>2, <3>1
    <3>5. batch' = W!NoBatch
      BY <3>1 DEF LoopFits
    <3>. QED
      BY <2>1, <3>1, <3>2, <3>3, <3>4, <3>5 DEF LoopFits, InFiles
  <2>4. CASE W!StopWatch
    <3>1. /\ watch = "ready" /\ watch' = "off" /\ UNCHANGED <<index, batch, routed>>
          /\ watchSaved' = state
      BY <2>4 DEF W!StopWatch
    <3>2. watchSaved' = watchSaved /\ batch = W!NoBatch
      BY <3>1 DEF LoopFits
    <3>3. OfDesktop
      BY <2>2, <3>1
    <3>. QED
      BY <2>1, <3>1, <3>2, <3>3 DEF LoopFits, InFiles
  <2>5. CASE W!ReadIndex
    <3>1. /\ watch = "ready" /\ watch' = "indexed" /\ UNCHANGED <<batch, routed, state, watchSaved>>
          /\ index' = recorded
      BY <2>5 DEF W!ReadIndex, W!historyVars
    <3>2. state = watchSaved /\ batch = W!NoBatch
      BY <3>1 DEF LoopFits
    <3>3. OfDesktop
      BY <2>2, <3>1
    <3>. QED
      BY <2>1, <3>1, <3>2, <3>3 DEF LoopFits, InFiles
  <2>6. CASE W!ReadFiles
    <3>1. /\ watch = "indexed" /\ watch' = "routing" /\ UNCHANGED <<routed, state, watchSaved>>
          /\ index' = {}
      BY <2>6 DEF W!ReadFiles
    <3>2. state = watchSaved /\ batch = W!NoBatch
      BY <3>1 DEF LoopFits
    <3>3. /\ Fitting(batch'.next.delivered) /\ Distinct(batch'.signals)
          /\ \A t \in Turns : Signalled(batch'.signals, t) => FileOf[t] \in DesktopFiles
          /\ batch'.next.offset = [f \in Files |-> W!NextOffset(f)]
      BY <2>1, <2>6, <3>2, ReadingIs
    <3>4. OfDesktop
      BY <2>1, <3>1, <3>3 DEF Seen
    <3>5. InFiles(batch'.next.offset)
      <4>1. \A f \in Files \ disturbed : state.offset[f] <= Len(lines[f])
        BY <2>1, <3>2 DEF InFiles
      <4>2. \A f \in Files : Len(lines[f]) <= Len(lines[f])
        BY LinesAre
      <4>. QED
        BY <3>3, <4>1, <4>2 DEF InFiles, W!NextOffset
    <3>. QED
      BY <2>1, <3>1, <3>2, <3>3, <3>4, <3>5 DEF LoopFits, InFiles
  <2>7. CASE W!RouteNext
    <3>1. PICK h \in Turns :
               /\ Signalled(batch.signals, h) /\ ~Signalled(batch'.signals, h)
               /\ routed'[h] = routed[h] + 1
               /\ \A t \in Turns : t # h =>
                      /\ routed'[t] = routed[t]
                      /\ Signalled(batch'.signals, t) <=> Signalled(batch.signals, t)
               /\ Distinct(batch'.signals) /\ batch'.next = batch.next
               /\ watch = "routing" /\ UNCHANGED <<watch, index, state, watchSaved, forgotten>>
      BY <2>1, <2>7, RoutingIs
    <3>2. OfDesktop
      BY <2>1, <3>1 DEF Seen
    <3>3. state = watchSaved
      BY <3>1 DEF LoopFits
    <3>. QED
      BY <2>1, <3>1, <3>2, <3>3 DEF LoopFits, InFiles
  <2>8. CASE W!Commit
    <3>1. /\ watch = "routing" /\ watch' = "ready" /\ UNCHANGED <<routed, index>>
          /\ state' = batch.next /\ watchSaved' = batch.next /\ batch' = W!NoBatch
      BY <2>8 DEF W!Commit, W!Remember, W!historyVars
    <3>2. OfDesktop
      BY <2>1, <3>1, NoBatchIs DEF Seen
    <3>3. InFiles(W!NoBatch.next.offset)
      BY NoBatchIs, LinesAre DEF InFiles
    <3>. QED
      BY <2>1, <3>1, <3>2, <3>3, NoBatchIs DEF LoopFits, InFiles
  <2>9. CASE W!Crash
    <3>1. /\ watch' = "off" /\ UNCHANGED <<routed, watchSaved>> /\ index' = {} /\ batch' = W!NoBatch
      BY <2>9 DEF W!Crash
    <3>2. OfDesktop
      BY <2>1, <3>1, NoBatchIs DEF Seen
    <3>3. InFiles(W!NoBatch.next.offset)
      BY NoBatchIs, LinesAre DEF InFiles
    <3>. QED
      BY <2>1, <3>1, <3>2, <3>3, NoBatchIs DEF LoopFits, InFiles
  <2>. QED
    BY <1>2, <2>3, <2>4, <2>5, <2>6, <2>7, <2>8, <2>9 DEF WatchActs
<1>. QED
  BY <1>1, <1>2, WatchOrWorld

\* The offset that the loop goes on with is behind every turn of an undisturbed file
\* that was announced or missed; neither happens twice, nor both.
Passed(t) == /\ LineIsWhole(t)
             /\ watch # "off" =>
                    \A i \in 1 .. Len(lines[FileOf[t]]) :
                        lines[FileOf[t]][i] = W!Done(t) => i <= Reached.offset[FileOf[t]]
PastOf(t) == /\ t \in missed \/ Seen(t) => Passed(t)
             /\ t \in missed => ~Seen(t)
             /\ Signalled(batch.signals, t) => routed[t] = 0
             /\ routed[t] <= 1
PastFits == \A t \in Turns : FileOf[t] \notin disturbed => PastOf(t)

\* A turn whose key was neither evicted nor lost is delivered once it was announced.
RememberedOf(t) == /\ Seen(t) => t \in Reached.delivered
                   /\ Signalled(batch.signals, t) => routed[t] = 0
                   /\ routed[t] <= 1
Remembers == \A t \in Turns \ forgotten : RememberedOf(t)

\* A reply turn that ended after the ledger knew it is never announced.
EchoOf(t) == /\ ~Seen(t)
             /\ LineIsWhole(t) => t \in recorded /\ (watch = "indexed" => t \in index)
EchoFits == \A t \in ReplyTurns \ quick : EchoOf(t)

WatchInv == DoneOnce /\ LoopFits /\ PastFits /\ Remembers /\ EchoFits

LEMMA StepKeepsPast ==
    FilesFit /\ WatchFits /\ WatchInv /\ WatchMoves => PastFits'
<1> SUFFICES ASSUME FilesFit, WatchFits, WatchInv, WatchMoves,
                    NEW t \in Turns, FileOf[t] \notin disturbed'
             PROVE  PastOf(t)'
  BY DEF PastFits
<1> DEFINE f == FileOf[t]
<1>0. /\ f \in Files /\ DoneOnce /\ LoopFits
      /\ routed[t] \in Nat /\ routed \in [Turns -> Nat]
  BY Numbers DEF WatchInv, WatchFits
<1>1. CASE Environment
  <2>1. UNCHANGED <<watch, state, batch, watchSaved, routed>> /\ f \notin disturbed
    BY <1>1 DEF Environment, WatchMemory
  <2>2. PastOf(t) /\ (Seen(t)' <=> Seen(t)) /\ Reached' = Reached
    BY <2>1 DEF WatchInv, PastFits, Seen, Reached
  <2>3. CASE Ends(t)
    <3>1. t \notin missed /\ ~Seen(t)
      BY <2>2, <2>3 DEF PastOf, Passed, Ends
    <3>2. t \in missed' => watch' = "off" /\ LineIsWhole(t)'
      BY <2>1, <2>3, <3>1 DEF Ends
    <3>3. t \in missed' => Passed(t)'
      BY <3>2 DEF Passed
    <3>. QED
      BY <2>1, <2>2, <3>1, <3>3 DEF PastOf
  <2>4. CASE Stays(t)
    <3>1. /\ t \in missed' <=> t \in missed
          /\ LineIsWhole(t) => LineIsWhole(t)'
          /\ SamePlaces(t)
      BY <2>4 DEF Stays
    <3>2. Passed(t) => Passed(t)'
      BY <2>1, <2>2, <3>1 DEF Passed, SamePlaces
    <3>. QED
      BY <2>1, <2>2, <3>1, <3>2 DEF PastOf
  <2>. QED
    BY <1>1, <2>3, <2>4 DEF Environment
<1>2. CASE WatchActs /\ UNCHANGED FileHistory
  <2>1. /\ UNCHANGED <<lines, half, here, recorded, missed, quick, disturbed>>
        /\ f \in here /\ PastOf(t) /\ f \in Files \ disturbed
        /\ LineIsWhole(t)' <=> LineIsWhole(t)
    BY <1>0, <1>2 DEF FileHistory, LoopFits, WatchInv, PastFits, LineIsWhole
  <2>2. /\ watchSaved.offset[f] <= Len(lines[f])
        /\ watch # "off" => state = watchSaved
        /\ watch # "routing" => batch = W!NoBatch
        /\ Distinct(batch.signals)
    BY <1>0, <2>1 DEF LoopFits
  <2>3. CASE W!StartWatch
    <3>1. watch' = "ready" /\ UNCHANGED <<batch, routed>> /\ watchSaved' = W!Baseline
      BY <2>3 DEF W!StartWatch, W!historyVars
    <3>2. W!Baseline.offset[f] = Len(lines[f])
      BY <2>1, SameFiles DEF W!Baseline, WatchFits, WatchStates
    <3>3. Reached'.offset[f] = Len(lines[f])
      BY <3>1, <3>2 DEF Reached
    <3>4. Len(lines[f]) \in Nat
      BY <1>0, LinesAre
    <3>5. Passed(t) => Passed(t)'
      BY <2>1, <3>3, <3>4 DEF Passed
    <3>. QED
      BY <2>1, <3>1, <3>5 DEF PastOf, Seen
  <2>4. CASE W!StopWatch
    <3>1. watch' = "off" /\ UNCHANGED <<batch, routed>>
      BY <2>4 DEF W!StopWatch
    <3>2. Passed(t) => Passed(t)'
      BY <2>1, <3>1 DEF Passed
    <3>. QED
      BY <2>1, <3>1, <3>2 DEF PastOf, Seen
  <2>5. CASE W!ReadIndex
    <3>1. watch = "ready" /\ watch' = "indexed" /\ UNCHANGED <<batch, routed, watchSaved>>
      BY <2>5 DEF W!ReadIndex, W!historyVars
    <3>2. Reached' = Reached
      BY <3>1 DEF Reached
    <3>3. Passed(t) => Passed(t)'
      BY <2>1, <3>1, <3>2 DEF Passed
    <3>. QED
      BY <2>1, <3>1, <3>3 DEF PastOf, Seen
  <2>6. CASE W!ReadFiles
    <3>1. watch = "indexed" /\ watch' = "routing" /\ UNCHANGED <<routed, watchSaved>>
      BY <2>6 DEF W!ReadFiles
    <3>2. state = watchSaved /\ batch = W!NoBatch /\ Fitting(state.delivered)
      BY <1>0, <2>2, <3>1 DEF LoopFits
    <3>3. /\ \A u \in Turns : Signalled(batch'.signals, u) => IsNews(u)
          /\ batch'.next.offset = [g \in Files |-> W!NextOffset(g)]
      BY <1>0, <2>6, <3>2, ReadingIs
    <3>4. /\ Len(lines[f]) \in Nat /\ lines[f] \in Seq(Lines)
          /\ state.offset[f] \in Nat /\ state.offset[f] <= Len(lines[f])
      BY <1>0, <2>2, <3>2, LinesAre DEF WatchFits, WatchStates
    <3>5. W!From(f) = state.offset[f]
      BY <3>4 DEF W!From
    <3>6. Reached'.offset[f] >= Len(lines[f])
      <4>1. Reached'.offset[f] = W!NextOffset(f)
        BY <1>0, <3>1, <3>3 DEF Reached
      <4>2. CASE W!NewLines(f) = <<>>
        <5>1. PICK q : q = SubSeq(lines[f], state.offset[f] + 1, Len(lines[f]))
          OBVIOUS
        <5>2. \A i \in state.offset[f] + 1 .. Len(lines[f]) : lines[f][i] \in Lines
          BY <3>4, ElementOfSeq
        <5>3. Len(q) = IF state.offset[f] + 1 <= Len(lines[f])
                       THEN Len(lines[f]) - (state.offset[f] + 1) + 1 ELSE 0
          BY <3>4, <5>1, <5>2, SubSeqProperties
        <5>4. Len(q) = 0
          <6>1. q = <<>>
            BY <2>1, <3>5, <4>2, <5>1 DEF W!NewLines
          <6>. QED
            BY <6>1
        <5>5. state.offset[f] >= Len(lines[f])
          <6>1. ~(state.offset[f] + 1 <= Len(lines[f]))
            <7> SUFFICES ASSUME state.offset[f] + 1 <= Len(lines[f]) PROVE FALSE
              OBVIOUS
            <7>1. Len(lines[f]) - (state.offset[f] + 1) + 1 = 0
              BY <5>3, <5>4
            <7>. QED
              BY <3>4, <7>1
          <6>. QED
            BY <3>4, <6>1
        <5>. QED
          BY <4>1, <4>2, <5>5 DEF W!NextOffset
      <4>3. CASE W!NewLines(f) # <<>>
        BY <3>4, <4>1, <4>3 DEF W!NextOffset
      <4>. QED
        BY <4>2, <4>3
    <3>7. LineIsWhole(t) => Passed(t)'
      <4>1. Reached'.offset[f] \in Int
        <5>1. W!NextOffset(f) \in Int
          BY <3>4 DEF W!NextOffset
        <5>. QED
          BY <1>0, <3>1, <3>3, <5>1 DEF Reached
      <4>2. \A i \in 1 .. Len(lines[f]) : i <= Reached'.offset[f]
        BY <3>4, <3>6, <4>1
      <4>. QED
        BY <2>1, <4>2 DEF Passed
    <3>8. ASSUME Signalled(batch'.signals, t) PROVE LineIsWhole(t) /\ t \notin missed /\ ~Seen(t)
      <4>1. PICK j \in 1 .. Len(lines[f]) : j > state.offset[f] /\ lines[f][j] = W!Done(t)
        BY <3>3, <3>5, <3>8 DEF IsNews
      <4>2. ~(j <= Reached.offset[f])
        BY <3>1, <3>2, <3>4, <4>1 DEF Reached
      <4>3. ~Passed(t)
        BY <3>1, <4>1, <4>2 DEF Passed
      <4>4. LineIsWhole(t)
        BY <4>1 DEF LineIsWhole
      <4>. QED
        BY <2>1, <4>3, <4>4 DEF PastOf
    <3>9. t \in missed \/ Seen(t) => LineIsWhole(t)
      BY <2>1 DEF PastOf, Passed
    <3>10. routed[t] > 0 => Seen(t)
      BY DEF Seen
    <3>11. Seen(t)' <=> routed[t] > 0 \/ Signalled(batch'.signals, t)
      BY <3>1 DEF Seen
    <3>12. routed[t] <= 1 /\ (t \in missed => ~Seen(t))
      BY <2>1 DEF PastOf
    <3>13. Signalled(batch'.signals, t) => routed[t] = 0
      BY <1>0, <3>8, <3>10
    <3>. QED
      BY <2>1, <3>1, <3>7, <3>8, <3>9, <3>10, <3>11, <3>12, <3>13 DEF PastOf
  <2>7. CASE W!RouteNext
    <3>1. PICK h \in Turns :
               /\ Signalled(batch.signals, h) /\ ~Signalled(batch'.signals, h)
               /\ routed'[h] = routed[h] + 1
               /\ \A u \in Turns : u # h =>
                      /\ routed'[u] = routed[u]
                      /\ Signalled(batch'.signals, u) <=> Signalled(batch.signals, u)
               /\ batch'.next = batch.next
               /\ watch = "routing" /\ UNCHANGED <<watch, watchSaved>>
      BY <2>2, <2>7, RoutingIs
    <3>2. Reached' = Reached
      BY <3>1 DEF Reached
    <3>3. Passed(t) => Passed(t)'
      BY <2>1, <3>1, <3>2 DEF Passed
    <3>4. CASE t = h
      <4>1. Seen(t) /\ routed[t] = 0
        BY <2>1, <3>1, <3>4 DEF Seen, PastOf
      <4>2. t \notin missed /\ Passed(t)
        BY <2>1, <4>1 DEF PastOf
      <4>3. routed'[t] = 1 /\ ~Signalled(batch'.signals, t)
        BY <3>1, <3>4, <4>1
      <4>. QED
        BY <2>1, <3>3, <4>2, <4>3 DEF PastOf
    <3>5. CASE t # h
      <4>1. routed'[t] = routed[t] /\ (Seen(t)' <=> Seen(t))
            /\ (Signalled(batch'.signals, t) <=> Signalled(batch.signals, t))
        BY <3>1, <3>5 DEF Seen
      <4>. QED
        BY <2>1, <3>3, <4>1 DEF PastOf
    <3>. QED
      BY <3>4, <3>5
  <2>8. CASE W!Commit
    <3>1. /\ watch = "routing" /\ watch' = "ready" /\ routed' = routed
          /\ watchSaved' = batch.next /\ batch' = W!NoBatch
      BY <2>8 DEF W!Commit, W!Remember, W!historyVars
    <3>2. Reached' = Reached
      BY <3>1 DEF Reached
    <3>3. Passed(t) => Passed(t)'
      BY <2>1, <3>1, <3>2 DEF Passed
    <3>4. ~Signalled(batch'.signals, t)
      BY <3>1, NoBatchIs
    <3>. QED
      BY <2>1, <3>1, <3>3, <3>4 DEF PastOf, Seen
  <2>9. CASE W!Crash
    <3>1. watch' = "off" /\ routed' = routed /\ batch' = W!NoBatch
      BY <2>9 DEF W!Crash
    <3>3. Passed(t) => Passed(t)'
      BY <2>1, <3>1 DEF Passed
    <3>4. ~Signalled(batch'.signals, t)
      BY <3>1, NoBatchIs
    <3>. QED
      BY <2>1, <3>1, <3>3, <3>4 DEF PastOf, Seen
  <2>. QED
    BY <1>2, <2>3, <2>4, <2>5, <2>6, <2>7, <2>8, <2>9 DEF WatchActs
<1>. QED
  BY <1>0, <1>1, <1>2, WatchOrWorld

LEMMA StepKeepsMemory ==
    FilesFit /\ WatchFits /\ WatchInv /\ WatchMoves => Remembers'
<1> SUFFICES ASSUME FilesFit, WatchFits, WatchInv, WatchMoves, NEW t \in Turns, t \notin forgotten'
             PROVE  RememberedOf(t)'
  BY DEF Remembers
<1>0. DoneOnce /\ LoopFits /\ routed[t] \in Nat /\ (t \notin forgotten => RememberedOf(t))
  BY DEF WatchInv, WatchFits, Remembers
<1>1. CASE Environment
  <2>1. UNCHANGED <<watch, batch, watchSaved, routed, forgotten>>
    BY <1>1 DEF Environment, WatchMemory
  <2>. QED
    BY <1>0, <2>1 DEF RememberedOf, Seen, Reached
<1>2. CASE W!StartWatch
  <2>1. /\ watch = "off" /\ watch' = "ready" /\ UNCHANGED <<batch, routed, forgotten>>
        /\ watchSaved' = W!Baseline
    BY <1>2 DEF W!StartWatch, W!historyVars
  <2>2. W!Baseline.delivered = watchSaved.delivered
    BY SameFiles DEF W!Baseline, WatchFits, WatchStates
  <2>3. Reached'.delivered = Reached.delivered
    BY <2>1, <2>2 DEF Reached
  <2>. QED
    BY <1>0, <2>1, <2>3 DEF RememberedOf, Seen
<1>3. CASE W!StopWatch
  <2>1. /\ watch = "ready" /\ watch' = "off" /\ UNCHANGED <<batch, routed, forgotten>>
        /\ watchSaved' = state
    BY <1>3 DEF W!StopWatch
  <2>2. Reached' = Reached
    BY <1>0, <2>1 DEF Reached, LoopFits
  <2>. QED
    BY <1>0, <2>1, <2>2 DEF RememberedOf, Seen
<1>4. CASE W!ReadIndex
  <2>1. watch = "ready" /\ watch' = "indexed" /\ UNCHANGED <<batch, routed, watchSaved, forgotten>>
    BY <1>4 DEF W!ReadIndex, W!historyVars
  <2>2. Reached' = Reached
    BY <2>1 DEF Reached
  <2>. QED
    BY <1>0, <2>1, <2>2 DEF RememberedOf, Seen
<1>5. CASE W!ReadFiles
  <2>1. watch = "indexed" /\ watch' = "routing" /\ UNCHANGED <<routed, watchSaved>>
    BY <1>5 DEF W!ReadFiles
  <2>2. /\ state = watchSaved /\ Fitting(state.delivered)
        /\ Reached = watchSaved /\ Reached' = batch'.next
    BY <1>0, <2>1 DEF LoopFits, Reached
  <2>3. /\ t \in state.delivered /\ Signalled(batch'.signals, t) => t \notin batch'.next.delivered
        /\ forgotten' = forgotten \cup
               ((state.delivered \cup {u \in Turns : Signalled(batch'.signals, u)}) \ batch'.next.delivered)
    BY <1>0, <1>5, <2>2, ReadingIs
  <2>4. t \notin forgotten
    BY <2>3
  <2>5. Seen(t) => t \in state.delivered
    BY <1>0, <2>2, <2>4 DEF RememberedOf
  <2>6. t \in state.delivered \/ Signalled(batch'.signals, t) => t \in batch'.next.delivered
    BY <2>3
  <2>7. routed[t] > 0 => Seen(t)
    BY DEF Seen
  <2>8. Signalled(batch'.signals, t) => routed[t] = 0
    BY <1>0, <2>3, <2>5, <2>6, <2>7
  <2>9. Seen(t)' <=> routed[t] > 0 \/ Signalled(batch'.signals, t)
    BY <2>1 DEF Seen
  <2>10. Seen(t)' => t \in Reached'.delivered
    BY <2>2, <2>5, <2>6, <2>7, <2>9
  <2>11. routed[t] <= 1
    BY <1>0, <2>4 DEF RememberedOf
  <2>. QED
    BY <2>1, <2>8, <2>10, <2>11 DEF RememberedOf
<1>6. CASE W!RouteNext
  <2>1. PICK h \in Turns :
             /\ Signalled(batch.signals, h) /\ ~Signalled(batch'.signals, h)
             /\ routed'[h] = routed[h] + 1
             /\ \A u \in Turns : u # h =>
                    /\ routed'[u] = routed[u]
                    /\ Signalled(batch'.signals, u) <=> Signalled(batch.signals, u)
             /\ batch'.next = batch.next
             /\ watch = "routing" /\ UNCHANGED <<watch, watchSaved, forgotten>>
    BY <1>0, <1>6, RoutingIs DEF LoopFits
  <2>2. Reached' = Reached /\ RememberedOf(t)
    BY <1>0, <2>1 DEF Reached
  <2>3. CASE t = h
    <3>1. Seen(t) /\ routed[t] = 0
      BY <2>1, <2>2, <2>3 DEF Seen, RememberedOf
    <3>2. t \in Reached.delivered
      BY <2>2, <3>1 DEF RememberedOf
    <3>3. routed'[t] = 1 /\ ~Signalled(batch'.signals, t)
      BY <2>1, <2>3, <3>1
    <3>. QED
      BY <2>2, <3>2, <3>3 DEF RememberedOf
  <2>4. CASE t # h
    <3>1. routed'[t] = routed[t] /\ (Seen(t)' <=> Seen(t))
          /\ (Signalled(batch'.signals, t) <=> Signalled(batch.signals, t))
      BY <2>1, <2>4 DEF Seen
    <3>. QED
      BY <2>2, <3>1 DEF RememberedOf
  <2>. QED
    BY <2>3, <2>4
<1>7. CASE W!Commit
  <2>1. /\ watch = "routing" /\ watch' = "ready" /\ UNCHANGED <<routed, forgotten>>
        /\ watchSaved' = batch.next /\ batch' = W!NoBatch
    BY <1>7 DEF W!Commit, W!Remember, W!historyVars
  <2>2. Reached' = Reached /\ ~Signalled(batch'.signals, t)
    BY <2>1, NoBatchIs DEF Reached
  <2>. QED
    BY <1>0, <2>1, <2>2 DEF RememberedOf, Seen
<1>8. CASE W!Crash
  <2>1. /\ watch' = "off" /\ UNCHANGED <<routed, watchSaved>> /\ batch' = W!NoBatch
        /\ forgotten' = forgotten \cup (batch.next.delivered \ watchSaved.delivered)
    BY <1>8 DEF W!Crash
  <2>2. Reached' = watchSaved /\ ~Signalled(batch'.signals, t)
    BY <2>1, NoBatchIs DEF Reached
  <2>3. t \in Reached.delivered => t \in watchSaved.delivered
    BY <2>1 DEF Reached
  <2>4. RememberedOf(t)
    BY <1>0, <2>1
  <2>. QED
    BY <2>1, <2>2, <2>3, <2>4 DEF RememberedOf, Seen
<1>. QED
  BY <1>0, <1>1, <1>2, <1>3, <1>4, <1>5, <1>6, <1>7, <1>8, WatchOrWorld DEF WatchActs

LEMMA StepKeepsEcho ==
    FilesFit /\ WatchFits /\ WatchInv /\ WatchMoves => EchoFits'
<1> SUFFICES ASSUME FilesFit, WatchFits, WatchInv, WatchMoves, NEW t \in ReplyTurns \ quick'
             PROVE  EchoOf(t)'
  BY DEF EchoFits
<1>0. /\ DoneOnce /\ LoopFits /\ t \in Turns /\ index \subseteq recorded
      /\ t \notin quick => EchoOf(t)
  BY Numbers DEF WatchInv, EchoFits, LoopFits
<1>1. CASE Environment
  <2>1. /\ UNCHANGED <<watch, batch, index, routed>> /\ recorded \subseteq recorded' /\ t \notin quick
    BY <1>1 DEF Environment, WatchMemory
  <2>2. EchoOf(t) /\ (Seen(t)' <=> Seen(t))
    BY <1>0, <2>1 DEF Seen
  <2>3. CASE Ends(t)
    <3>1. t \in IF watch = "indexed" THEN index ELSE recorded
      BY <2>3 DEF Ends
    <3>. QED
      BY <1>0, <2>1, <2>2, <3>1 DEF EchoOf
  <2>4. CASE Stays(t)
    <3>1. LineIsWhole(t)' => LineIsWhole(t)
      BY <2>4 DEF Stays
    <3>. QED
      BY <2>1, <2>2, <3>1 DEF EchoOf
  <2>. QED
    BY <1>0, <1>1, <2>3, <2>4 DEF Environment
<1>2. CASE WatchActs /\ UNCHANGED FileHistory
  <2>1. /\ UNCHANGED <<lines, recorded>> /\ EchoOf(t) /\ (LineIsWhole(t)' <=> LineIsWhole(t))
    BY <1>0, <1>2 DEF FileHistory, LineIsWhole
  <2>2. CASE W!StartWatch
    BY <2>1, <2>2 DEF W!StartWatch, W!historyVars, EchoOf, Seen
  <2>3. CASE W!StopWatch
    BY <2>1, <2>3 DEF W!StopWatch, EchoOf, Seen
  <2>4. CASE W!ReadIndex
    <3>1. index' = recorded /\ UNCHANGED <<batch, routed>>
      BY <2>4 DEF W!ReadIndex, W!historyVars
    <3>. QED
      BY <2>1, <3>1 DEF EchoOf, Seen
  <2>5. CASE W!ReadFiles
    <3>1. watch = "indexed" /\ watch' = "routing" /\ routed' = routed
      BY <2>5 DEF W!ReadFiles
    <3>2. Signalled(batch'.signals, t) => IsNews(t) /\ t \notin index
      BY <1>0, <2>5, <3>1, ReadingIs DEF LoopFits
    <3>3. IsNews(t) => LineIsWhole(t)
      BY DEF IsNews, LineIsWhole
    <3>4. ~Signalled(batch'.signals, t)
      BY <2>1, <3>1, <3>2, <3>3 DEF EchoOf
    <3>. QED
      BY <2>1, <3>1, <3>4 DEF EchoOf, Seen
  <2>6. CASE W!RouteNext
    <3>1. PICK h \in Turns :
               /\ Signalled(batch.signals, h)
               /\ \A u \in Turns : u # h =>
                      /\ routed'[u] = routed[u]
                      /\ Signalled(batch'.signals, u) <=> Signalled(batch.signals, u)
               /\ watch = "routing" /\ UNCHANGED <<watch, index>>
      BY <1>0, <2>6, RoutingIs DEF LoopFits
    <3>2. t # h
      BY <2>1, <3>1 DEF EchoOf, Seen
    <3>. QED
      BY <1>0, <2>1, <3>1, <3>2 DEF EchoOf, Seen
  <2>7. CASE W!Commit
    <3>1. /\ watch' = "ready" /\ routed' = routed /\ batch' = W!NoBatch
      BY <2>7 DEF W!Commit, W!historyVars
    <3>. QED
      BY <2>1, <3>1, NoBatchIs DEF EchoOf, Seen
  <2>8. CASE W!Crash
    <3>1. /\ watch' = "off" /\ routed' = routed /\ batch' = W!NoBatch
      BY <2>8 DEF W!Crash
    <3>. QED
      BY <2>1, <3>1, NoBatchIs DEF EchoOf, Seen
  <2>. QED
    BY <1>2, <2>2, <2>3, <2>4, <2>5, <2>6, <2>7, <2>8 DEF WatchActs
<1>. QED
  BY <1>0, <1>1, <1>2, WatchOrWorld

LEMMA InitialWatch == FilesFit /\ W!Init => WatchInv
<1> SUFFICES ASSUME FilesFit, W!Init PROVE WatchInv
  OBVIOUS
<1>1. /\ lines = [f \in Files |-> <<>>] /\ half = [f \in Files |-> 0] /\ here = Files
      /\ recorded = {} /\ watch = "off" /\ index = {}
      /\ batch = W!NoBatch /\ watchSaved = W!NoState
      /\ routed = [t \in Turns |-> 0] /\ missed = {}
  BY SameFiles DEF W!Init
<1>2. \A t \in Turns : FileOf[t] \in Files /\ t # 0 /\ lines[FileOf[t]] = <<>> /\ half[FileOf[t]] = 0
  BY <1>1, Numbers
<1>3. \A t \in Turns : ~LineIsWhole(t)
  BY <1>2 DEF LineIsWhole
<1>4. \A t \in Turns : routed[t] = 0 /\ ~Seen(t) /\ ~Signalled(batch.signals, t)
  BY <1>1, NoBatchIs DEF Seen
<1>5. DoneOnce
  BY <1>2, <1>3 DEF DoneOnce, SingleIn
<1>6. /\ Fitting(W!NoState.delivered) /\ \A f \in Files : W!NoState.offset[f] = 0
  <2>1. W!NoBatch.next = W!NoState
    BY DEF W!NoBatch
  <2>. QED
    BY <2>1, NoBatchIs
<1>7. LoopFits
  <2>1. \A f \in Files : Len(lines[f]) = 0
    BY <1>1
  <2>. QED
    BY <1>1, <1>4, <1>6, <2>1, NoBatchIs DEF LoopFits
<1>8. PastFits
  BY <1>1, <1>4 DEF PastFits, PastOf
<1>9. Remembers
  BY <1>4 DEF Remembers, RememberedOf
<1>10. EchoFits
  BY <1>3, <1>4, Numbers DEF EchoFits, EchoOf
<1>. QED
  BY <1>5, <1>7, <1>8, <1>9, <1>10 DEF WatchInv

----------------------------------------------------------------------------
\* The Stop hooks of Codex.

\* What the invariant of the watch says of every behaviour of the whole.
LEMMA WatchHolds == NotifySpec => [](FilesFit /\ WatchFits /\ Shapes /\ WatchInv)
<1>1. NotifyInit => WatchInv
  <2>1. NotifyInit => W!Init
    BY DEF NotifyInit
  <2>. QED
    BY <2>1, InitialShapes, InitialWatch
<1>2. FilesFit /\ WatchFits /\ Shapes /\ WatchInv /\ [NotifyNext]_nvars => WatchInv'
  <2> SUFFICES ASSUME FilesFit, WatchFits, WatchInv, WatchMoves PROVE WatchInv'
    BY StepsOfWatch
  <2>1. DoneOnce /\ LoopFits
    BY DEF WatchInv
  <2>. QED
    BY <2>1, StepKeepsOnce, StepKeepsLoop, StepKeepsPast, StepKeepsMemory, StepKeepsEcho DEF WatchInv
<1>. QED
  BY <1>1, <1>2, ShapesHold, PTL DEF NotifySpec

\* The call of a turn's Stop hook waits at most once, and the hook is known to have called
\* until the ingress serves it.
Hooks == [Turns -> {"due", "called", "announced", "shadowed", "failed"}]
OfTurn(t) == {i \in 1 .. Len(queue) : queue[i].from = TurnMessage[t]}
CallOf(t) ==
    /\ \A i, k \in OfTurn(t) : i = k
    /\ \A i \in OfTurn(t) :
           stopHook[t] = "called" \/ (i = 1 /\ job["ingress"] # NoJob /\ stopHook[t] = "announced")
CallsFit == stopHook \in Hooks /\ \A t \in Turns : CallOf(t)

LEMMA NoCallOfTurns ==
    ASSUME NEW t \in Turns
    PROVE  \A c \in Sessions \cup Emitted : c # TurnMessage[t]
  BY NotificationsAssumption

\* Someone else joins the queue.
LEMMA OthersJoin ==
    ASSUME Shapes, NEW c, NEW asks, NEW at, Call(c, asks, at),
           [from |-> c, asks |-> asks, at |-> at] \in Requests,
           NEW t \in Turns, c # TurnMessage[t]
    PROVE  OfTurn(t)' = OfTurn(t)
<1>1. /\ Len(queue) \in Nat /\ Len(queue') = Len(queue) + 1
      /\ \A i \in 1 .. Len(queue) : queue'[i] = queue[i]
      /\ queue'[Len(queue) + 1] = [from |-> c, asks |-> asks, at |-> at]
  BY CallJoins
<1>2. \A i : i \in 1 .. Len(queue) + 1 <=> i \in 1 .. Len(queue) \/ i = Len(queue) + 1
  BY <1>1
<1>. QED
  BY <1>1, <1>2 DEF OfTurn

\* The first leaves the queue.
LEMMA OfTurnMovesUp ==
    ASSUME Shapes, queue # <<>>, queue' = Tail(queue), NEW t \in Turns
    PROVE  \A i \in OfTurn(t)' : i \in Nat /\ i + 1 \in OfTurn(t) /\ i + 1 # 1
<1>1. /\ Len(queue) \in Nat /\ Len(queue) >= 1 /\ Len(queue') = Len(queue) - 1
      /\ \A i \in 1 .. Len(queue) - 1 : queue'[i] = queue[i + 1]
  BY FirstLeaves
<1> SUFFICES ASSUME NEW i \in OfTurn(t)' PROVE i \in Nat /\ i + 1 \in OfTurn(t) /\ i + 1 # 1
  OBVIOUS
<1>2. i \in 1 .. Len(queue) - 1 /\ queue'[i].from = TurnMessage[t]
  BY <1>1 DEF OfTurn
<1>3. i + 1 \in 1 .. Len(queue) /\ queue[i + 1].from = TurnMessage[t]
  BY <1>1, <1>2
<1>. QED
  BY <1>2, <1>3 DEF OfTurn

\* The ingress serves the call of one turn's hook.
LEMMA CodexStopIs ==
    ASSUME Shapes, ServeCodexStop
    PROVE  \E u \in Turns :
               /\ Head(queue).from = TurnMessage[u] /\ queue # <<>> /\ job["ingress"] = NoJob
               /\ \/ /\ Shadowed(u, snapshot)
                     /\ stopHook' = [stopHook EXCEPT ![u] = "shadowed"] /\ queue' = Tail(queue)
                  \/ /\ ~Shadowed(u, snapshot)
                     /\ stopHook' = [stopHook EXCEPT ![u] = "announced"] /\ queue' = queue
                     /\ job' = [job EXCEPT !["ingress"] = Job(TurnMessage[u], "codex_cli")]
<1>1. queue # <<>> /\ Head(queue).asks = "codex_cli" /\ job["ingress"] = NoJob
  BY DEF ServeCodexStop, Serving, Idle
<1>2. Head(queue) \in Requests
  BY <1>1, FirstIs
<1>3. \E u \in Turns : TurnMessage[u] = Head(queue).from
  BY <1>1, <1>2, CallersAre
<1>4. PICK u : u = CHOOSE t \in Turns : TurnMessage[t] = Head(queue).from
  OBVIOUS
<1>5. u \in Turns /\ TurnMessage[u] = Head(queue).from
  BY <1>3, <1>4
<1>. QED
  BY <1>1, <1>4, <1>5 DEF ServeCodexStop

LEMMA StepKeepsCalls == Shapes /\ CallsFit /\ [NotifyNext]_nvars => CallsFit'
<1> SUFFICES ASSUME Shapes, CallsFit, [NotifyNext]_nvars PROVE CallsFit'
  OBVIOUS
<1> DEFINE Busy == job["ingress"] # NoJob
<1>1. /\ job \in [Tasks -> Jobs \cup {NoJob}] /\ "ingress" \in Tasks /\ stopHook \in Hooks
      /\ \A t \in Turns : CallOf(t)
      /\ TurnMessage \in [Turns -> Messages] /\ \A t, u \in Turns : TurnMessage[t] = TurnMessage[u] => t = u
  BY NotificationsAssumption DEF Shapes, Tasks, CallsFit
<1>2. ASSUME stopHook' = stopHook, Busy => Busy', \A t \in Turns : OfTurn(t)' = OfTurn(t)
      PROVE  CallsFit'
  BY <1>1, <1>2 DEF CallsFit, CallOf
<1>3. ASSUME UNCHANGED <<stopHook, queue>>, Busy => Busy' PROVE CallsFit'
  <2>1. \A t \in Turns : OfTurn(t)' = OfTurn(t)
    BY <1>3 DEF OfTurn
  <2>. QED
    BY <1>2, <1>3, <2>1
<1>4. ASSUME stopHook' = stopHook, queue # <<>>, queue' = Tail(queue) PROVE CallsFit'
  <2>1. ASSUME NEW t \in Turns PROVE CallOf(t)'
    <3>1. \A i \in OfTurn(t)' : i \in Nat /\ i + 1 \in OfTurn(t) /\ i + 1 # 1
      BY <1>4, OfTurnMovesUp
    <3>2. \A i, k \in OfTurn(t)' : i + 1 = k + 1
      BY <1>1, <3>1 DEF CallOf
    <3>3. \A i, k \in OfTurn(t)' : i = k
      BY <3>1, <3>2
    <3>4. \A i \in OfTurn(t)' : stopHook[t] = "called"
      BY <1>1, <3>1 DEF CallOf
    <3>. QED
      BY <1>4, <3>3, <3>4 DEF CallOf
  <2>. QED
    BY <1>1, <1>4, <2>1 DEF CallsFit
<1>5. CASE Quiet
  BY <1>3, <1>5 DEF Quiet, ingressVars
<1>6. ASSUME NEW m \in Messages, Emit(m) PROVE CallsFit'
  <2>1. m \in Emitted /\ Call(m, "emitted", now) /\ UNCHANGED <<stopHook, job>>
    BY <1>6 DEF Emit
  <2>2. [from |-> m, asks |-> "emitted", at |-> now] \in Requests
    BY <2>1, CallersAre DEF Shapes
  <2>3. \A t \in Turns : OfTurn(t)' = OfTurn(t)
    BY <2>1, <2>2, NoCallOfTurns, OthersJoin
  <2>. QED
    BY <1>2, <2>1, <2>3
<1>7. ASSUME NEW m \in Messages, Prompt(m) \/ StopTurn(m) PROVE CallsFit'
  <2>1. /\ m \in Sessions /\ UNCHANGED <<stopHook, job>>
        /\ Call(m, "turn_start", now) \/ Call(m, "claude_code", now) \/ UNCHANGED queue
    BY <1>7 DEF Prompt, StopTurn
  <2>2. /\ [from |-> m, asks |-> "turn_start", at |-> now] \in Requests
        /\ [from |-> m, asks |-> "claude_code", at |-> now] \in Requests
    BY <2>1, CallersAre DEF Shapes
  <2>3. CASE Call(m, "turn_start", now) \/ Call(m, "claude_code", now)
    <3>1. \A t \in Turns : OfTurn(t)' = OfTurn(t)
      BY <2>1, <2>2, <2>3, NoCallOfTurns, OthersJoin
    <3>. QED
      BY <1>2, <2>1, <3>1
  <2>4. CASE UNCHANGED queue
    BY <1>3, <2>1, <2>4
  <2>. QED
    BY <2>1, <2>3, <2>4
<1>8. ASSUME NEW u \in Turns, RunStopHook(u) PROVE CallsFit'
  <2>1. stopHook[u] = "due" /\ job' = job
    BY <1>8 DEF RunStopHook
  <2>2. OfTurn(u) = {}
    BY <1>1, <2>1 DEF CallOf
  <2>3. ASSUME NEW w \in {"shadowed", "failed"}, stopHook' = [stopHook EXCEPT ![u] = w], UNCHANGED queue
        PROVE  CallsFit'
    <3>1. \A t \in Turns : OfTurn(t)' = OfTurn(t)
      BY <2>3 DEF OfTurn
    <3>2. stopHook' \in Hooks /\ \A t \in Turns : t # u => stopHook'[t] = stopHook[t]
      BY <1>1, <2>3 DEF Hooks
    <3>3. \A t \in Turns : CallOf(t)'
      BY <1>1, <2>1, <2>2, <3>1, <3>2 DEF CallOf
    <3>. QED
      BY <3>2, <3>3 DEF CallsFit
  <2>4. CASE stopHook' = [stopHook EXCEPT ![u] = "called"] /\ Call(TurnMessage[u], "codex_cli", now)
    <3>1. [from |-> TurnMessage[u], asks |-> "codex_cli", at |-> now] \in Requests
      BY CallersAre DEF Shapes
    <3>2. \A t \in Turns : t # u => OfTurn(t)' = OfTurn(t)
      BY <1>1, <2>4, <3>1, OthersJoin
    <3>3. /\ Len(queue) \in Nat /\ Len(queue') = Len(queue) + 1
          /\ \A i \in 1 .. Len(queue) : queue'[i] = queue[i]
      BY <2>4, <3>1, CallJoins
    <3>4. \A i \in OfTurn(u)' : i = Len(queue) + 1
      <4>1. \A i \in 1 .. Len(queue) + 1 : i \in 1 .. Len(queue) \/ i = Len(queue) + 1
        BY <3>3
      <4>. QED
        BY <2>2, <3>3, <4>1 DEF OfTurn
    <3>5. /\ stopHook' \in Hooks /\ stopHook'[u] = "called"
          /\ \A t \in Turns : t # u => stopHook'[t] = stopHook[t]
      BY <1>1, <2>4 DEF Hooks
    <3>6. \A t \in Turns : t # u => CallOf(t)'
      BY <1>1, <2>1, <3>2, <3>5 DEF CallOf
    <3>7. CallOf(u)'
      BY <3>4, <3>5 DEF CallOf
    <3>. QED
      BY <3>5, <3>6, <3>7 DEF CallsFit
  <2>. QED
    BY <1>8, <2>3, <2>4 DEF RunStopHook
<1>9. CASE RouteSignal \/ SignalRouted
  <2>1. /\ UNCHANGED <<stopHook, queue>>
        /\ \E new : job' = [job EXCEPT !["watcher"] = new]
    BY <1>9 DEF RouteSignal, SignalRouted, Others, ingressVars
  <2>2. job'["ingress"] = job["ingress"]
    BY <1>1, <2>1
  <2>. QED
    BY <1>3, <2>1, <2>2
<1>10. ASSUME NEW task \in Tasks, Deliver(task) PROVE CallsFit'
  <2> DEFINE old == job[task]
  <2>1. /\ old \in Jobs /\ UNCHANGED <<stopHook, queue>>
        /\ \/ job' = [job EXCEPT ![task] = [old EXCEPT !.sending = TRUE]]
           \/ \E result \in {"sent", "failed", "suppressed"}, taken \in BOOLEAN :
                  job' = [job EXCEPT ![task] = Settled(old, result, taken)]
    BY <1>10, DeliveryIs DEF ingressVars
  <2>2. /\ old.message \in Messages
        /\ old = [message |-> old.message, left |-> old.left, sending |-> old.sending, done |-> old.done]
    BY <2>1 DEF Jobs
  <2>3. job'[task].message = old.message
    <3>1. CASE job' = [job EXCEPT ![task] = [old EXCEPT !.sending = TRUE]]
      <4>1. job'[task] = [old EXCEPT !.sending = TRUE]
        BY <1>1, <3>1
      <4> HIDE DEF old
      <4>. QED
        BY <2>2, <4>1
    <3>2. ASSUME NEW result, NEW taken, job' = [job EXCEPT ![task] = Settled(old, result, taken)]
          PROVE  job'[task].message = old.message
      <4>1. job'[task] = Settled(old, result, taken)
        BY <1>1, <3>2
      <4> HIDE DEF old
      <4>. QED
        BY <2>2, <4>1 DEF Settled
    <3>. QED
      BY <2>1, <3>1, <3>2
  <2>4. job'[task] # NoJob
    <3>1. NoJob.message = "none" /\ "none" \notin Messages
      BY NotificationsAssumption DEF NoJob
    <3>. QED
      BY <2>2, <2>3, <3>1
  <2>5. task # "ingress" => job'["ingress"] = job["ingress"]
    BY <1>1, <2>1
  <2>. QED
    BY <1>3, <2>1, <2>4, <2>5
<1>11. CASE ServeTurnStart
  BY <1>4, <1>11 DEF ServeTurnStart, Serving
<1>12. CASE ServeClaudeStop
  <2>1. queue # <<>> /\ ~Busy /\ stopHook' = stopHook /\ (queue' = Tail(queue) \/ queue' = queue)
    BY <1>12 DEF ServeClaudeStop, Serving, Idle
  <2>. QED
    BY <1>3, <1>4, <2>1
<1>13. CASE ServeEmitted
  BY <1>3, <1>13 DEF ServeEmitted, Serving, Idle
<1>14. CASE Answer
  <2>1. Busy /\ stopHook' = stopHook /\ queue' = Tail(queue)
    BY <1>14 DEF Answer, Delivered, Idle
  <2>2. queue # <<>>
    BY <2>1 DEF Shapes
  <2>. QED
    BY <1>4, <2>1, <2>2
<1>15. CASE ServeCodexStop
  <2>1. PICK u \in Turns :
             /\ Head(queue).from = TurnMessage[u] /\ queue # <<>> /\ ~Busy
             /\ \/ stopHook' = [stopHook EXCEPT ![u] = "shadowed"] /\ queue' = Tail(queue)
                \/ /\ stopHook' = [stopHook EXCEPT ![u] = "announced"] /\ queue' = queue
                   /\ job' = [job EXCEPT !["ingress"] = Job(TurnMessage[u], "codex_cli")]
    BY <1>15, CodexStopIs
  <2>2. 1 \in OfTurn(u)
    <3>1. Head(queue) = queue[1] /\ Len(queue) \in Nat /\ Len(queue) >= 1
      BY <2>1, FirstIs
    <3>. QED
      BY <2>1, <3>1 DEF OfTurn
  <2>3. \A t \in Turns : t # u => stopHook'[t] = stopHook[t]
    BY <1>1, <2>1 DEF Hooks
  <2>4. stopHook' \in Hooks /\ stopHook'[u] \in {"shadowed", "announced"}
    BY <1>1, <2>1 DEF Hooks
  <2>5. CASE stopHook' = [stopHook EXCEPT ![u] = "shadowed"] /\ queue' = Tail(queue)
    <3>1. ASSUME NEW t \in Turns PROVE CallOf(t)'
      <4>1. \A i \in OfTurn(t)' : i \in Nat /\ i + 1 \in OfTurn(t) /\ i + 1 # 1
        BY <2>1, <2>5, OfTurnMovesUp
      <4>2. CASE t = u
        <5>1. OfTurn(t)' = {}
          BY <1>1, <2>2, <4>1, <4>2 DEF CallOf
        <5>. QED
          BY <5>1 DEF CallOf
      <4>3. CASE t # u
        <5>1. \A i, k \in OfTurn(t)' : i + 1 = k + 1
          BY <1>1, <4>1 DEF CallOf
        <5>2. \A i, k \in OfTurn(t)' : i = k
          BY <4>1, <5>1
        <5>3. \A i \in OfTurn(t)' : stopHook'[t] = "called"
          BY <1>1, <2>3, <4>1, <4>3 DEF CallOf
        <5>. QED
          BY <5>2, <5>3 DEF CallOf
      <4>. QED
        BY <4>2, <4>3
    <3>. QED
      BY <2>4, <3>1 DEF CallsFit
  <2>6. CASE /\ stopHook' = [stopHook EXCEPT ![u] = "announced"] /\ queue' = queue
             /\ job' = [job EXCEPT !["ingress"] = Job(TurnMessage[u], "codex_cli")]
    <3>1. job'["ingress"] # NoJob
      <4>1. job'["ingress"] = Job(TurnMessage[u], "codex_cli")
        BY <1>1, <2>6
      <4>2. TurnMessage[u] \in Messages /\ "codex_cli" \in Kinds
        BY <1>1 DEF Kinds
      <4>. QED
        BY <4>1, <4>2, JobBegins, NoJobIsNone
    <3>2. stopHook'[u] = "announced"
      BY <1>1, <2>6 DEF Hooks
    <3>3. \A t \in Turns : OfTurn(t)' = OfTurn(t)
      BY <2>6 DEF OfTurn
    <3>4. \A t \in Turns : t # u => CallOf(t)'
      BY <1>1, <2>1, <2>3, <3>3 DEF CallOf
    <3>5. CallOf(u)'
      BY <1>1, <2>2, <3>1, <3>2, <3>3 DEF CallOf
    <3>. QED
      BY <2>4, <3>4, <3>5 DEF CallsFit
  <2>. QED
    BY <2>1, <2>5, <2>6
<1>16. CASE Die
  <2>1. queue' = <<>>
    BY <1>16 DEF Die
  <2>2. \A t \in Turns : OfTurn(t)' = {}
    BY <2>1 DEF OfTurn
  <2>3. stopHook' \in Hooks
    BY <1>1, <1>16 DEF Die, Hooks
  <2>. QED
    BY <2>2, <2>3 DEF CallsFit, CallOf
<1>. QED
  BY <1>5, <1>6, <1>7, <1>8, <1>9, <1>10, <1>11, <1>12, <1>13, <1>14, <1>15, <1>16, StepsAre

\* What is known of the hook of a turn of a Desktop session, unless the config changes
\* about the turn's end: a hook that was not dropped met a config without the Desktop
\* source, so that the watch missed the turn or will miss it; one that was dropped met a
\* config with it, so that the watch did not, or will not.
HookOf(t) ==
    /\ stopHook[t] = "called" => ~file /\ ~snapshot
    /\ stopHook[t] = "announced" /\ ~LineIsWhole(t) => ~file
    /\ stopHook[t] \in {"called", "announced"} /\ LineIsWhole(t) => t \in missed
    /\ stopHook[t] = "due" /\ LineIsWhole(t) /\ ~file => t \in missed
    /\ stopHook[t] \in {"due", "called"} /\ LineIsWhole(t) /\ t \in missed \ unwatched => ~file /\ ~snapshot
    /\ stopHook[t] = "shadowed" /\ ~LineIsWhole(t) => file
    /\ stopHook[t] = "shadowed" => t \notin missed \ unwatched
OfDesktop(t) == FileOf[t] \in DesktopFiles
HookFits == \A t \in Turns : /\ stopHook[t] = "shadowed" => OfDesktop(t)
                             /\ Steady(t) /\ OfDesktop(t) => HookOf(t)

\* The steps that concern a hook: those that change the files, what becomes of the
\* hook, or the config.
Still == UNCHANGED <<lines, missed, disturbed>>
Alike == UNCHANGED <<stopHook, configVars>>

LEMMA StillSteps ==
    /\ UNCHANGED watcherVars => Still
    /\ \A u \in Turns : W!BeginLine(u) \/ W!RecordReplyTurn(u) => Still
    /\ \A f \in Files : W!Reappear(f) => Still
    /\ WatchActs => Still
<1>1. UNCHANGED watcherVars => Still
  BY DEF watcherVars, Still
<1>2. ASSUME NEW u \in Turns, W!BeginLine(u) PROVE Still
  BY <1>2 DEF W!BeginLine, W!historyVars, Still
<1>3. ASSUME NEW u \in Turns, W!RecordReplyTurn(u) PROVE Still
  BY <1>3 DEF W!RecordReplyTurn, W!fileVars, W!historyVars, Still
<1>4. ASSUME NEW f \in Files, W!Reappear(f) PROVE Still
  BY <1>4 DEF W!Reappear, W!historyVars, Still
<1>5. CASE W!StartWatch
  BY <1>5 DEF W!StartWatch, W!fileVars, W!historyVars, Still
<1>6. CASE W!StopWatch
  BY <1>6 DEF W!StopWatch, W!fileVars, Still
<1>7. CASE W!ReadIndex
  BY <1>7 DEF W!ReadIndex, W!fileVars, W!historyVars, Still
<1>8. CASE W!ReadFiles
  <2>1. UNCHANGED <<W!fileVars, missed, disturbed>>
    BY <1>8 DEF W!ReadFiles
  <2>. QED
    BY <2>1 DEF W!fileVars, Still
<1>9. CASE W!RouteNext
  BY <1>9 DEF W!RouteNext, W!fileVars, Still
<1>10. CASE W!Commit
  BY <1>10 DEF W!Commit, W!fileVars, W!historyVars, Still
<1>11. CASE W!Crash
  BY <1>11 DEF W!Crash, W!fileVars, Still
<1>. QED
  BY <1>1, <1>2, <1>3, <1>4, <1>5, <1>6, <1>7, <1>8, <1>9, <1>10, <1>11 DEF WatchActs

LEMMA HookSteps ==
    ASSUME [NotifyNext]_nvars
    PROVE  \/ Still /\ Alike
           \/ Alike /\ \/ \E u \in Turns : W!Ask(u)
                       \/ \E f \in Files : W!Disappear(f) \/ \E n \in 0 .. NumTurns : W!Rewrite(f, n)
           \/ \E f \in Files : FinishLine(f)
           \/ Still /\ (\/ \E u \in Turns : RunStopHook(u)
                        \/ ServeCodexStop \/ Die \/ SwitchSource \/ Reload \/ StartService)
<1>1. ASSUME NEW u \in Turns, BeginLine(u) PROVE Still /\ Alike
  BY <1>1, StillSteps DEF BeginLine, Others, ingressVars, Alike
<1>2. ASSUME NEW u \in Turns, Ask(u) PROVE W!Ask(u) /\ Alike
  BY <1>2 DEF Ask, Others, ingressVars, Alike
<1>3. CASE Recorded
  <2>1. PICK u : W!RecordReplyTurn(u)
    BY <1>3 DEF Recorded
  <2>2. u \in Turns
    BY <2>1, Numbers DEF W!RecordReplyTurn
  <2>. QED
    BY <1>3, <2>1, <2>2, StillSteps DEF Recorded, Others, ingressVars, Alike
<1>4. CASE Disturb
  <2>1. CASE W!SwitchPrompts
    <3>1. Still
      BY <2>1 DEF W!SwitchPrompts, W!fileVars, W!historyVars, Still
    <3>. QED
      BY <1>4, <3>1 DEF Disturb, Others, ingressVars, Alike
  <2>2. CASE \E f \in Files : W!Disappear(f) \/ \E n \in 0 .. NumTurns : W!Rewrite(f, n)
    BY <1>4, <2>2 DEF Disturb, Others, ingressVars, Alike
  <2>. QED
    BY <1>4, <2>1, <2>2 DEF Disturb
<1>5. CASE Reappear
  BY <1>5, StillSteps DEF Reappear, Others, ingressVars, Alike
<1>6. CASE StartWatch \/ StopWatch \/ Poll \/ RouteSignal \/ Commit
  <2>1. WatchActs
    BY <1>6 DEF StartWatch, StopWatch, Poll, RouteSignal, Commit, WatchActs
  <2>. QED
    BY <1>6, <2>1, StillSteps
       DEF StartWatch, StopWatch, Poll, RouteSignal, Commit, Others, ingressVars, Alike
<1>7. CASE SignalRouted
  BY <1>7, StillSteps DEF SignalRouted, Others, ingressVars, Alike
<1>8. ASSUME NEW task, Deliver(task) PROVE Still /\ Alike
  BY <1>8, StillSteps DEF Deliver, Offer, Send, ingressVars, Alike
<1>9. ASSUME NEW m \in Messages, Emit(m) \/ Prompt(m) \/ StopTurn(m) PROVE Still /\ Alike
  BY <1>9, StillSteps DEF Emit, Prompt, StopTurn, Alike
<1>10. CASE ServeTurnStart \/ ServeClaudeStop
  BY <1>10, StillSteps DEF ServeTurnStart, ServeClaudeStop, Alike
<1>11. CASE ServeEmitted \/ Answer
  BY <1>11, StillSteps DEF ServeEmitted, Answer, Alike
<1>12. CASE OpenIngress \/ Clock \/ ResetCommand
  BY <1>12, StillSteps DEF OpenIngress, Clock, ResetCommand, ingressVars, Alike
<1>13. CASE UNCHANGED nvars
  BY <1>13, StillSteps DEF nvars, ingressVars, Alike
<1>14. ASSUME NEW u \in Turns, RunStopHook(u) PROVE Still
  BY <1>14, StillSteps DEF RunStopHook
<1>15. CASE ServeCodexStop
  BY <1>15, StillSteps DEF ServeCodexStop
<1>16. CASE SwitchSource \/ Reload \/ StartService
  BY <1>16, StillSteps DEF SwitchSource, Reload, StartService
<1>17. CASE Die
  <2>1. WatchActs \/ UNCHANGED watcherVars
    BY <1>17 DEF Die, WatchActs
  <2>. QED
    BY <1>17, <2>1, StillSteps
<1>. QED
  BY <1>1, <1>2, <1>3, <1>4, <1>5, <1>6, <1>7, <1>8, <1>9, <1>10, <1>11, <1>12, <1>13, <1>14, <1>15,
     <1>16, <1>17 DEF NotifyNext, WatcherStep, IngressStep

\* The hook of a turn whose end and whose config stay as they are.
LEMMA HookStays ==
    ASSUME NEW t \in Turns, HookOf(t), UNCHANGED <<file, snapshot>>,
           stopHook'[t] = stopHook[t], LineIsWhole(t)' <=> LineIsWhole(t),
           t \in missed' <=> t \in missed, t \in unwatched' <=> t \in unwatched
    PROVE  HookOf(t)'
  BY DEF HookOf

\* A change of the config concerns only the turns that are about to end.
LEMMA ConfigChanges ==
    ASSUME NEW t \in Turns, HookOf(t), ~Ending(t), stopHook \in Hooks,
           stopHook' = stopHook, Still, unwatched' = unwatched
    PROVE  HookOf(t)'
<1>1. /\ stopHook'[t] = stopHook[t] /\ (LineIsWhole(t)' <=> LineIsWhole(t))
      /\ t \in missed' \ unwatched' <=> t \in missed \ unwatched
      /\ t \in missed' <=> t \in missed
  BY DEF Still, LineIsWhole
<1>2. \/ ~LineIsWhole(t) /\ stopHook[t] = "due"
      \/ LineIsWhole(t) /\ stopHook[t] \in {"announced", "shadowed", "failed"}
  BY DEF Ending, Hooks
<1>3. CASE ~LineIsWhole(t) /\ stopHook[t] = "due"
  BY <1>1, <1>3 DEF HookOf
<1>4. CASE LineIsWhole(t) /\ stopHook[t] \in {"announced", "shadowed", "failed"}
  BY <1>1, <1>4 DEF HookOf
<1>. QED
  BY <1>2, <1>3, <1>4

\* What a turn's end needs to be known by the watch.
MissedIsOver == \A t \in Turns : FileOf[t] \notin disturbed /\ t \in missed => LineIsWhole(t)

LEMMA StepKeepsHooks ==
    FilesFit /\ WatchFits /\ Shapes /\ DoneOnce /\ Files \ here \subseteq disturbed
        /\ MissedIsOver /\ CallsFit /\ HookFits /\ [NotifyNext]_nvars => HookFits'
<1> SUFFICES ASSUME FilesFit, WatchFits, Shapes, DoneOnce, Files \ here \subseteq disturbed,
                    MissedIsOver, CallsFit, HookFits, [NotifyNext]_nvars
             PROVE  HookFits'
  OBVIOUS
<1>1. /\ stopHook \in Hooks /\ \A t \in Turns : CallOf(t) /\ FileOf[t] \in Files
      /\ \A t \in Turns : /\ stopHook[t] = "shadowed" => OfDesktop(t)
                          /\ Steady(t) /\ OfDesktop(t) => HookOf(t)
  BY Numbers DEF CallsFit, HookFits
<1> DEFINE Fine(t) == /\ stopHook'[t] = "shadowed" => OfDesktop(t)
                      /\ Steady(t)' /\ OfDesktop(t) => HookOf(t)'
<1>2. (\A t \in Turns : Fine(t)) => HookFits'
  BY DEF HookFits, OfDesktop
<1>3. ASSUME NEW t \in Turns, Still, UNCHANGED configVars, stopHook'[t] = stopHook[t] PROVE Fine(t)
  <2>1. /\ UNCHANGED <<file, snapshot>> /\ (LineIsWhole(t)' <=> LineIsWhole(t))
        /\ (t \in missed' <=> t \in missed) /\ (t \in unwatched' <=> t \in unwatched)
        /\ Steady(t)' <=> Steady(t)
    BY <1>3 DEF Still, configVars, LineIsWhole, Steady
  <2>. QED
    BY <1>1, <1>3, <2>1, HookStays
<1>4. CASE Still /\ Alike
  BY <1>2, <1>3, <1>4 DEF Alike
<1>5. ASSUME Alike, \A t \in Turns : Stays(t), disturbed \subseteq disturbed' PROVE HookFits'
  <2>1. ASSUME NEW t \in Turns PROVE Fine(t)
    <3>1. stopHook'[t] = stopHook[t] /\ UNCHANGED <<file, snapshot, unwatched, switched>>
      BY <1>5 DEF Alike, configVars
    <3>2. CASE Steady(t)'
      <4>1. Steady(t) /\ FileOf[t] \notin disturbed'
        BY <1>5, <3>1, <3>2 DEF Steady
      <4>2. (LineIsWhole(t)' <=> LineIsWhole(t)) /\ (t \in missed' <=> t \in missed)
        BY <1>5, <4>1 DEF Stays
      <4>. QED
        BY <1>1, <3>1, <4>1, <4>2, HookStays
    <3>3. CASE ~Steady(t)'
      BY <1>1, <3>1, <3>3
    <3>. QED
      BY <3>2, <3>3
  <2>. QED
    BY <1>2, <2>1
<1>6. ASSUME Alike, NEW u \in Turns, W!Ask(u) PROVE HookFits'
  <2>1. /\ UNCHANGED <<missed, disturbed>>
        /\ lines' = [lines EXCEPT ![FileOf[u]] = Append(lines[FileOf[u]], W!Asked(u))]
    BY <1>6 DEF W!Ask, W!historyVars
  <2>2. FileOf[u] \in Files /\ W!Asked(u) \in Lines /\ W!Asked(u).turn = u
    BY Numbers DEF W!Asked, Lines
  <2>3. \A t \in Turns : W!Asked(u) # W!Done(t)
    BY DEF W!Asked, W!Done
  <2>4. \A t \in Turns : SamePlaces(t) /\ (LineIsWhole(t)' <=> LineIsWhole(t))
    BY <2>1, <2>2, <2>3, OneMoreLine
  <2>5. \A t \in Turns : Stays(t)
    BY <2>1, <2>4 DEF Stays
  <2>. QED
    BY <1>5, <1>6, <2>1, <2>5
<1>7. ASSUME Alike, NEW f \in Files, W!Disappear(f) PROVE HookFits'
  <2>1. UNCHANGED <<lines, missed>> /\ disturbed \subseteq disturbed'
    BY <1>7 DEF W!Disappear
  <2>2. \A t \in Turns : Stays(t)
    BY <2>1, NothingEnds
  <2>. QED
    BY <1>5, <1>7, <2>1, <2>2
<1>8. ASSUME Alike, NEW f \in Files, NEW k \in 0 .. NumTurns, W!Rewrite(f, k) PROVE HookFits'
  <2>1. /\ missed' = missed /\ k \in Nat
        /\ k < Len(lines[f]) /\ lines' = [lines EXCEPT ![f] = SubSeq(lines[f], 1, k)]
        /\ disturbed' = disturbed \cup {f}
    BY <1>8 DEF W!Rewrite
  <2>2. /\ \A t \in Turns : SamePlaces(t) /\ (LineIsWhole(t)' => LineIsWhole(t))
        /\ \A t \in Turns : FileOf[t] # f => (LineIsWhole(t)' <=> LineIsWhole(t))
    BY <2>1, FewerLines
  <2>3. \A t \in Turns : Stays(t)
    BY <2>1, <2>2 DEF Stays
  <2>. QED
    BY <1>5, <1>8, <2>1, <2>3
<1>9. ASSUME NEW f \in Files, FinishLine(f) PROVE HookFits'
  <2>1. PICK u : u = half[f] /\ u # 0
    BY <1>9 DEF FinishLine, W!FinishLine
  <2>2. u \in Turns /\ FileOf[u] = f /\ ~LineIsWhole(u)
    BY <2>1 DEF FilesFit, DoneOnce
  <2>3. /\ lines' = [lines EXCEPT ![f] = Append(lines[f], W!Done(u))]
        /\ missed' = IF watch = "off" THEN missed \cup {u} ELSE missed
        /\ switched' = IF Unsettled THEN switched \cup {u} ELSE switched
        /\ unwatched' = IF watch = "off" /\ file THEN unwatched \cup {u} ELSE unwatched
        /\ UNCHANGED <<file, snapshot, stopHook, disturbed>>
    BY <1>9, <2>1 DEF FinishLine, W!FinishLine, ingressVars
  <2>4. W!Done(u) \in Lines /\ W!Done(u).turn = u /\ \A t \in Turns : t # u => W!Done(u) # W!Done(t)
    BY <2>2 DEF W!Done, Lines
  <2>5. /\ \A t \in Turns : t # u => (LineIsWhole(t)' <=> LineIsWhole(t))
        /\ LineIsWhole(u)'
    BY <2>2, <2>3, <2>4, OneMoreLine
  <2>6. ASSUME NEW t \in Turns, t # u PROVE Fine(t)
    <3>1. /\ t \in missed' <=> t \in missed
          /\ t \in switched' <=> t \in switched
          /\ t \in unwatched' <=> t \in unwatched
      BY <2>3, <2>6
    <3>2. Steady(t)' <=> Steady(t)
      BY <2>3, <3>1 DEF Steady
    <3>. QED
      BY <1>1, <2>3, <2>5, <2>6, <3>1, <3>2, HookStays
  <2>7. Fine(u)
    <3>1. CASE Steady(u)' /\ OfDesktop(u)
      <4>1. ~Unsettled /\ Steady(u) /\ HookOf(u) /\ u \notin missed
        <5>1. ~Unsettled /\ Steady(u)
          BY <2>2, <2>3, <3>1 DEF Steady
        <5>. QED
          BY <1>1, <2>2, <3>1, <5>1 DEF Steady, MissedIsOver
      <4>2. file = snapshot /\ (~snapshot => watch = "off")
        BY <4>1 DEF Unsettled
      <4>3. ~file => u \in missed'
        BY <2>3, <4>2
      <4>4. u \in missed' \ unwatched' => ~file
        BY <2>2, <2>3, <4>1
      <4>5. /\ stopHook[u] = "called" => ~file
            /\ stopHook[u] = "announced" => ~file
            /\ stopHook[u] = "shadowed" => file
        BY <2>2, <4>1 DEF HookOf
      <4>6. HookOf(u)'
        BY <2>3, <2>5, <4>2, <4>3, <4>4, <4>5 DEF HookOf
      <4>. QED
        BY <1>1, <2>2, <2>3, <4>6
    <3>. QED
      BY <1>1, <2>2, <2>3, <3>1
  <2>. QED
    BY <1>2, <2>6, <2>7
<1>10. ASSUME Still, NEW u \in Turns, RunStopHook(u) PROVE HookFits'
  <2>1. /\ stopHook[u] = "due" /\ UNCHANGED <<file, snapshot, unwatched>>
        /\ switched' = IF Unsettled THEN switched \cup {u} ELSE switched
        /\ \/ Shadowed(u, file) /\ stopHook' = [stopHook EXCEPT ![u] = "shadowed"]
           \/ ~Shadowed(u, file) /\ stopHook' = [stopHook EXCEPT ![u] = "called"]
           \/ ~Shadowed(u, file) /\ stopHook' = [stopHook EXCEPT ![u] = "failed"]
    BY <1>10 DEF RunStopHook
  <2>2. /\ \A t \in Turns : t # u => stopHook'[t] = stopHook[t]
        /\ \/ Shadowed(u, file) /\ stopHook'[u] = "shadowed"
           \/ ~Shadowed(u, file) /\ stopHook'[u] \in {"called", "failed"}
    BY <1>1, <2>1 DEF Hooks
  <2>3. \A t \in Turns : /\ LineIsWhole(t)' <=> LineIsWhole(t)
                         /\ t \in missed' <=> t \in missed
                         /\ t # u => (Steady(t)' <=> Steady(t))
    BY <1>10, <2>1 DEF Still, LineIsWhole, Steady
  <2>4. ASSUME NEW t \in Turns, t # u PROVE Fine(t)
    BY <1>1, <2>1, <2>2, <2>3, <2>4, HookStays
  <2>5. Shadowed(u, file) => file /\ OfDesktop(u)
    BY DEF Shadowed, IsDesktop, OfDesktop
  <2>6. ASSUME Steady(u)', OfDesktop(u) PROVE HookOf(u)'
    <3>1. ~Unsettled /\ Steady(u)
      BY <1>10, <2>1, <2>6 DEF Steady, Still
    <3>2. /\ file = snapshot /\ HookOf(u) /\ (u \in missed => LineIsWhole(u))
          /\ Shadowed(u, file) <=> file
      BY <1>1, <2>6, <3>1 DEF Unsettled, MissedIsOver, Steady, Shadowed, IsDesktop, OfDesktop
    <3>3. /\ LineIsWhole(u) /\ ~file => u \in missed
          /\ LineIsWhole(u) /\ u \in missed \ unwatched => ~file
      BY <2>1, <3>2 DEF HookOf
    <3>4. CASE file
      BY <2>1, <2>2, <2>3, <3>2, <3>3, <3>4 DEF HookOf
    <3>5. CASE ~file
      BY <2>1, <2>2, <2>3, <3>2, <3>3, <3>5 DEF HookOf
    <3>. QED
      BY <3>4, <3>5
  <2>7. Fine(u)
    BY <2>2, <2>5, <2>6
  <2>. QED
    BY <1>2, <2>4, <2>7
<1>11. ASSUME Still, ServeCodexStop PROVE HookFits'
  <2>1. UNCHANGED configVars
    BY <1>11 DEF ServeCodexStop
  <2>2. PICK u \in Turns :
             /\ Head(queue).from = TurnMessage[u] /\ queue # <<>> /\ job["ingress"] = NoJob
             /\ \/ Shadowed(u, snapshot) /\ stopHook' = [stopHook EXCEPT ![u] = "shadowed"]
                \/ ~Shadowed(u, snapshot) /\ stopHook' = [stopHook EXCEPT ![u] = "announced"]
    BY <1>11, CodexStopIs
  <2>3. stopHook[u] = "called"
    <3>1. 1 \in OfTurn(u)
      BY <2>2, FirstIs DEF OfTurn
    <3>. QED
      BY <1>1, <2>2, <3>1 DEF CallOf
  <2>4. /\ \A t \in Turns : t # u => stopHook'[t] = stopHook[t]
        /\ \/ Shadowed(u, snapshot) /\ stopHook'[u] = "shadowed"
           \/ ~Shadowed(u, snapshot) /\ stopHook'[u] = "announced"
    BY <1>1, <2>2 DEF Hooks
  <2>5. Shadowed(u, snapshot) => snapshot /\ OfDesktop(u)
    BY DEF Shadowed, IsDesktop, OfDesktop
  <2>6. ASSUME Steady(u)', OfDesktop(u) PROVE HookOf(u)'
    <3>1. /\ Steady(u)' <=> Steady(u)
          /\ LineIsWhole(u)' <=> LineIsWhole(u)
          /\ UNCHANGED <<file, snapshot, unwatched, missed>>
      BY <1>11, <2>1 DEF Still, configVars, Steady, LineIsWhole
    <3>2. HookOf(u)
      BY <1>1, <2>6, <3>1
    <3>3. ~file /\ ~snapshot /\ (LineIsWhole(u) => u \in missed)
      BY <2>3, <3>2 DEF HookOf
    <3>4. stopHook'[u] = "announced"
      BY <2>4, <2>5, <3>3
    <3>. QED
      BY <3>1, <3>3, <3>4 DEF HookOf
  <2>7. Fine(u)
    BY <2>4, <2>5, <2>6
  <2>. QED
    BY <1>2, <1>3, <1>11, <2>1, <2>4, <2>7
<1>12. ASSUME Still, Die PROVE HookFits'
  <2>1. UNCHANGED configVars
        /\ stopHook' = [t \in Turns |-> IF stopHook[t] = "called" THEN "failed" ELSE stopHook[t]]
    BY <1>12 DEF Die
  <2>2. ASSUME NEW t \in Turns, stopHook[t] # "called" PROVE Fine(t)
    BY <1>3, <1>12, <2>1, <2>2
  <2>3. ASSUME NEW t \in Turns, stopHook[t] = "called" PROVE Fine(t)
    <3>1. stopHook'[t] = "failed"
      BY <2>1, <2>3
    <3>. QED
      BY <3>1 DEF HookOf
  <2>. QED
    BY <1>2, <2>2, <2>3
<1>13. ASSUME Still, SwitchSource \/ Reload \/ StartService PROVE HookFits'
  <2>1. /\ UNCHANGED <<stopHook, unwatched>>
        /\ \/ switched' = switched \cup {t \in Turns : Ending(t)}
           \/ UNCHANGED <<file, snapshot, switched>>
    BY <1>13 DEF SwitchSource, Reload, StartService, ingressVars
  <2>2. CASE UNCHANGED <<file, snapshot, switched>>
    <3>1. ASSUME NEW t \in Turns PROVE Fine(t)
      <4>1. /\ (LineIsWhole(t)' <=> LineIsWhole(t)) /\ (t \in missed' <=> t \in missed)
            /\ Steady(t)' <=> Steady(t)
        BY <1>13, <2>1, <2>2 DEF Still, LineIsWhole, Steady
      <4>. QED
        BY <1>1, <2>1, <2>2, <4>1, HookStays
    <3>. QED
      BY <1>2, <3>1
  <2>3. CASE switched' = switched \cup {t \in Turns : Ending(t)}
    <3>1. ASSUME NEW t \in Turns PROVE Fine(t)
      <4>1. Steady(t)' => Steady(t) /\ ~Ending(t)
        BY <1>13, <2>3 DEF Still, Steady
      <4>. QED
        BY <1>1, <1>13, <2>1, <4>1, ConfigChanges
    <3>. QED
      BY <1>2, <3>1
  <2>. QED
    BY <2>1, <2>2, <2>3
<1> HIDE DEF Fine
<1>. QED
  BY <1>4, <1>6, <1>7, <1>8, <1>9, <1>10, <1>11, <1>12, <1>13, HookSteps

----------------------------------------------------------------------------

\* The invariant of the announcements: what the watch remembers, and what becomes of the
\* hooks.
AnnounceInv == WatchInv /\ CallsFit /\ HookFits /\ missed \subseteq Turns

LEMMA MissedAreTurns ==
    ASSUME FilesFit, missed \subseteq Turns, [NotifyNext]_nvars
    PROVE  missed' \subseteq Turns
<1>1. ASSUME NEW u \in Turns, W!Ask(u) PROVE missed' = missed
  BY <1>1 DEF W!Ask, W!historyVars
<1>2. ASSUME NEW f \in Files, NEW k, W!Disappear(f) \/ W!Rewrite(f, k) PROVE missed' = missed
  BY <1>2 DEF W!Disappear, W!Rewrite
<1>3. ASSUME NEW f \in Files, FinishLine(f) PROVE missed' \subseteq missed \cup Turns
  BY <1>3 DEF FinishLine, W!FinishLine, FilesFit
<1>. QED
  BY <1>1, <1>2, <1>3, HookSteps DEF Still

LEMMA AnnounceHolds == NotifySpec => [](FilesFit /\ WatchFits /\ Shapes /\ AnnounceInv)
<1>1. NotifyInit => CallsFit /\ HookFits /\ missed \subseteq Turns
  <2> SUFFICES ASSUME NotifyInit PROVE CallsFit /\ HookFits /\ missed \subseteq Turns
    OBVIOUS
  <2>1. /\ missed = {} /\ stopHook = [t \in Turns |-> "due"] /\ queue = <<>>
        /\ lines = [f \in Files |-> <<>>]
    BY SameFiles DEF NotifyInit, W!Init
  <2>2. \A t \in Turns : stopHook[t] = "due" /\ OfTurn(t) = {} /\ ~LineIsWhole(t)
    BY <2>1, Numbers DEF OfTurn, LineIsWhole
  <2>. QED
    BY <2>1, <2>2 DEF CallsFit, CallOf, HookFits, HookOf, Hooks
<1>2. WatchInv => DoneOnce /\ Files \ here \subseteq disturbed /\ MissedIsOver
  BY DEF WatchInv, LoopFits, PastFits, PastOf, Passed, MissedIsOver
<1>3. FilesFit /\ WatchFits /\ Shapes /\ AnnounceInv /\ [NotifyNext]_nvars
          => (CallsFit /\ HookFits /\ missed \subseteq Turns)'
  BY <1>2, StepKeepsCalls, StepKeepsHooks, MissedAreTurns DEF AnnounceInv
<1>. QED
  BY <1>1, <1>3, WatchHolds, PTL DEF NotifySpec, AnnounceInv

\* A turn of Codex is announced at most once, whatever dies between its routing and the
\* checkpoint, evicts its key or keeps the service busy: by the watch, if that saw it
\* end, or by the Stop hook, if the config names no Desktop source; one that was missed
\* or that a reply started is not announced by the watch at all.
THEOREM TurnsAreAnnouncedOnce == NotifySpec => []AnnouncedOnce
<1>1. FilesFit /\ WatchFits /\ Shapes /\ AnnounceInv => AnnouncedOnce
  <2> SUFFICES ASSUME WatchFits, WatchInv, CallsFit, HookFits, missed \subseteq Turns
               PROVE  AnnouncedOnce
    BY DEF AnnounceInv
  <2>1. \A t \in Turns : /\ routed[t] \in Nat /\ (routed[t] > 0 => Seen(t))
                         /\ FileOf[t] \notin disturbed => PastOf(t)
                         /\ t \notin forgotten => RememberedOf(t)
    BY DEF WatchFits, Seen, WatchInv, PastFits, Remembers
  <2>2. NoBacklog
    <3>1. \A t \in Turns : t \in missed => FileOf[t] \in disturbed \/ routed[t] = 0
      BY <2>1 DEF PastOf
    <3>. QED
      BY <3>1 DEF NoBacklog, W!NoBacklog
  <2>3. W!RoutedOnce
    BY <2>1, SameFiles DEF W!RoutedOnce, PastOf, RememberedOf
  <2>4. W!EchoIsSuppressed
    <3>1. \A t \in ReplyTurns \ quick : t \in Turns /\ ~Seen(t)
      BY Numbers DEF WatchInv, EchoFits, EchoOf
    <3>. QED
      BY <2>1, <3>1 DEF W!EchoIsSuppressed
  <2>5. ASSUME NEW t \in Turns, Steady(t) PROVE routed[t] + Hooked(t) <= 1
    <3>1. PastOf(t) /\ FileOf[t] \notin disturbed
      BY <2>1, <2>5 DEF Steady
    <3>2. CASE stopHook[t] = "announced" /\ routed[t] > 0
      <4>1. OfDesktop(t) /\ LineIsWhole(t) /\ t \notin missed
        BY <2>1, <3>1, <3>2 DEF WatchInv, LoopFits, OfDesktop, PastOf, Passed
      <4>2. t \in missed
        BY <2>5, <3>2, <4>1 DEF HookFits, HookOf
      <4>. QED
        BY <4>1, <4>2
    <3>3. CASE stopHook[t] # "announced" \/ routed[t] = 0
      BY <2>1, <3>1, <3>3 DEF Hooked, PastOf
    <3>. QED
      BY <2>1, <3>2, <3>3
  <2>. QED
    BY <2>2, <2>3, <2>4, <2>5 DEF AnnouncedOnce
<1>. QED
  BY <1>1, AnnounceHolds, PTL

\* A hook is dropped only for a turn that the watch has seen, or will see, in the file
\* it reads itself: whichever of the CLI and the ingress drops it, and however the
\* config was changed and reloaded before and after.
THEOREM DroppedHooksAreWatched == NotifySpec => []ShadowedIsWatched
<1>1. AnnounceInv => ShadowedIsWatched
  BY DEF AnnounceInv, HookFits, HookOf, ShadowedIsWatched
<1>. QED
  BY <1>1, AnnounceHolds, PTL

----------------------------------------------------------------------------
\* The prompts.

\* The watch reads the files and leaves them as they are.
LEMMA ActsLeaveFiles == WatchActs => UNCHANGED <<lines, half, here, disturbed>>
<1>1. CASE W!StartWatch \/ W!StopWatch
  BY <1>1 DEF W!StartWatch, W!StopWatch, W!fileVars, W!historyVars
<1>2. CASE W!ReadIndex \/ W!RouteNext
  BY <1>2 DEF W!ReadIndex, W!RouteNext, W!fileVars, W!historyVars
<1>3. CASE W!ReadFiles
  BY <1>3 DEF W!ReadFiles, W!fileVars
<1>4. CASE W!Commit \/ W!Crash
  BY <1>4 DEF W!Commit, W!Crash, W!fileVars, W!historyVars
<1>. QED
  BY <1>1, <1>2, <1>3, <1>4 DEF WatchActs

\* A turn is asked for by at most one line; its completion is the line after that one,
\* and a completion that is half written follows it.
AskedOf(t) ==
    LET own == lines[FileOf[t]] IN
    /\ SingleIn(own, W!Asked(t))
    /\ \A i, k \in 1 .. Len(own) : own[i] = W!Asked(t) /\ own[k] = W!Done(t) => k = i + 1
    /\ half[FileOf[t]] = t => \A i \in 1 .. Len(own) : own[i] = W!Asked(t) => i = Len(own)
AskedOnce == \A t \in Turns : AskedOf(t)

LEMMA LinesDiffer ==
    /\ \A t, u : W!Asked(t) # W!Done(u)
    /\ \A t, u : W!Asked(t) = W!Asked(u) => t = u
    /\ \A t, u : W!Done(t) = W!Done(u) => t = u
    /\ \A t \in Turns : W!Asked(t) \in Lines /\ W!Done(t) \in Lines
    /\ \A t : W!Asked(t).turn = t /\ W!Done(t).turn = t
    /\ \A line \in Lines : /\ line.turn \in Turns
                           /\ \/ line.is = "asked" /\ line = W!Asked(line.turn)
                              \/ line.is = "done" /\ line = W!Done(line.turn)
<1>1. \A t, u : W!Asked(t).is # W!Done(u).is /\ W!Asked(t).turn = t /\ W!Done(t).turn = t
  BY DEF W!Asked, W!Done
<1>2. \A line \in Lines : line = [is |-> line.is, turn |-> line.turn] /\ line.turn \in Turns
                          /\ line.is \in {"asked", "done"}
  BY DEF Lines
<1>3. \A t \in Turns : W!Asked(t) \in Lines /\ W!Done(t) \in Lines
  BY DEF W!Asked, W!Done, Lines
<1>4. \A line \in Lines : \/ line.is = "asked" /\ line = W!Asked(line.turn)
                          \/ line.is = "done" /\ line = W!Done(line.turn)
  BY <1>2 DEF W!Asked, W!Done
<1>5. \A t, u : W!Asked(t) # W!Done(u)
  BY <1>1
<1>6. \A t, u : W!Asked(t) = W!Asked(u) => t = u
  BY <1>1
<1>7. \A t, u : W!Done(t) = W!Done(u) => t = u
  BY <1>1
<1>. QED
  BY <1>1, <1>2, <1>3, <1>4, <1>5, <1>6, <1>7

\* One more line, as the session writes it, keeps a turn's lines together.
LEMMA AskedGoesOn ==
    ASSUME FilesFit, NEW t \in Turns, AskedOf(t), NEW line \in Lines,
           NEW g \in Files, FileOf[line.turn] = g,
           lines' = [lines EXCEPT ![g] = Append(lines[g], line)],
           half'[FileOf[t]] # t,
           line = W!Asked(t) => \A i \in 1 .. Len(lines[g]) : lines[g][i] \notin {W!Asked(t), W!Done(t)},
           line = W!Done(t) => half[g] = t
    PROVE  AskedOf(t)'
<1> DEFINE f == FileOf[t]
           s == lines[f]
           n == Len(s)
           q == lines'[f]
<1>1. f \in Files /\ s \in Seq(Lines) /\ n \in Nat /\ \A h \in Files : lines'[h] = IF h = g THEN Append(lines[g], line) ELSE lines[h]
  BY Numbers, LinesAre DEF FilesFit
<1>2. CASE f # g
  <2>1. q = s
    BY <1>1, <1>2
  <2>2. SingleIn(s, W!Asked(t)) /\ \A i, k \in 1 .. Len(s) : s[i] = W!Asked(t) /\ s[k] = W!Done(t) => k = i + 1
    BY DEF AskedOf
  <2>. QED
    BY <2>1, <2>2 DEF AskedOf, W!Asked, W!Done
<1>3. CASE f = g
  <2>1. q = Append(s, line)
    BY <1>1, <1>3
  <2>2. Len(q) = n + 1 /\ q[n + 1] = line /\ \A i \in 1 .. n : q[i] = s[i]
    BY <1>1, <2>1, AppendIs
  <2>3. /\ \A i, k \in 1 .. n : s[i] = W!Asked(t) /\ s[k] = W!Asked(t) => i = k
        /\ \A i, k \in 1 .. n : s[i] = W!Asked(t) /\ s[k] = W!Done(t) => k = i + 1
        /\ half[f] = t => \A i \in 1 .. n : s[i] = W!Asked(t) => i = n
    BY DEF AskedOf, SingleIn
  <2>4. \A i \in 1 .. n + 1 : i \in 1 .. n \/ i = n + 1
    BY <1>1
  <2>5. /\ line = W!Asked(t) => \A i \in 1 .. n : s[i] # W!Asked(t) /\ s[i] # W!Done(t)
        /\ line = W!Done(t) => half[f] = t
    BY <1>3
  <2> HIDE DEF q, s, n, f
  <2>6. ASSUME NEW i \in 1 .. n + 1, NEW k \in 1 .. n + 1, q[i] = W!Asked(t), q[k] = W!Asked(t)
        PROVE  i = k
    BY <1>1, <2>2, <2>3, <2>4, <2>5, <2>6
  <2>7. ASSUME NEW i \in 1 .. n + 1, NEW k \in 1 .. n + 1, q[i] = W!Asked(t), q[k] = W!Done(t)
        PROVE  k = i + 1
    <3>1. CASE i \in 1 .. n /\ k \in 1 .. n
      BY <2>2, <2>3, <2>7, <3>1
    <3>2. CASE i \in 1 .. n /\ k = n + 1
      BY <2>2, <2>3, <2>5, <2>7, <3>2
    <3>3. CASE i = n + 1
      <4>1. line = W!Asked(t) /\ line # W!Done(t)
        BY <2>2, <2>7, <3>3, LinesDiffer
      <4>. QED
        BY <2>2, <2>4, <2>5, <2>7, <4>1
    <3>. QED
      BY <2>4, <3>1, <3>2, <3>3
  <2>8. half'[f] # t
    BY DEF f
  <2>. QED
    BY <2>2, <2>6, <2>7, <2>8 DEF AskedOf, SingleIn, q, f, W!Asked, W!Done
<1>. QED
  BY <1>2, <1>3

LEMMA StepKeepsAsked == FilesFit /\ WatchFits /\ AskedOnce /\ WatchMoves => AskedOnce'
<1> SUFFICES ASSUME FilesFit, WatchFits, AskedOnce, WatchMoves, NEW t \in Turns PROVE AskedOf(t)'
  BY DEF AskedOnce
<1> DEFINE f == FileOf[t]
<1>0. AskedOf(t) /\ f \in Files /\ t # 0 /\ Len(lines[f]) \in Nat
  BY Numbers, LinesAre DEF AskedOnce
<1>1. CASE UNCHANGED <<lines, half>>
  BY <1>0, <1>1 DEF AskedOf, SingleIn, W!Asked, W!Done
<1>2. ASSUME NEW u \in Turns, W!RecordReplyTurn(u) PROVE AskedOf(t)'
  BY <1>1, <1>2 DEF W!RecordReplyTurn, W!fileVars
<1>3. ASSUME NEW u \in Turns, W!Ask(u) PROVE AskedOf(t)'
  <2> DEFINE g == FileOf[u]
  <2>1. /\ half[g] = 0 /\ half' = half
        /\ W!Asked(u) \notin W!ToSet(lines[g]) /\ W!Done(u) \notin W!ToSet(lines[g])
        /\ lines' = [lines EXCEPT ![g] = Append(lines[g], W!Asked(u))]
    BY <1>3 DEF W!Ask
  <2>2. g \in Files /\ W!Asked(u) \in Lines /\ FileOf[W!Asked(u).turn] = g
    BY LinesDiffer, Numbers
  <2>3. \A i \in 1 .. Len(lines[g]) : lines[g][i] \notin {W!Asked(u), W!Done(u)}
    BY <2>1 DEF W!ToSet
  <2>4. CASE half[f] # t
    <3>1. W!Asked(u) = W!Asked(t) => \A i \in 1 .. Len(lines[g]) : lines[g][i] \notin {W!Asked(t), W!Done(t)}
      BY <2>3, LinesDiffer
    <3>2. W!Asked(u) # W!Done(t)
      BY LinesDiffer
    <3>. QED
      BY <1>0, <2>1, <2>2, <2>4, <3>1, <3>2, AskedGoesOn
  <2>5. CASE half[f] = t
    <3>1. f # g
      BY <1>0, <2>1, <2>5
    <3>2. lines'[f] = lines[f] /\ half'[f] = half[f]
      BY <1>0, <2>1, <2>2, <3>1 DEF FilesFit
    <3>. QED
      BY <1>0, <3>2 DEF AskedOf, SingleIn, W!Asked, W!Done
  <2>. QED
    BY <2>4, <2>5
<1>4. ASSUME NEW u \in Turns, W!BeginLine(u) PROVE AskedOf(t)'
  <2>1. /\ lines' = lines /\ half' = [half EXCEPT ![FileOf[u]] = u]
        /\ W!Asked(u) \in W!ToSet(lines[FileOf[u]]) =>
               lines[FileOf[u]][Len(lines[FileOf[u]])] = W!Asked(u)
    BY <1>4 DEF W!BeginLine, W!Last
  <2>2. half'[f] = t => half[f] = t \/ u = t
    BY <1>0, <2>1, Numbers DEF FilesFit
  <2>3. ASSUME u = t, NEW i \in 1 .. Len(lines[f]), lines[f][i] = W!Asked(t) PROVE i = Len(lines[f])
    <3>1. W!Asked(t) \in W!ToSet(lines[f])
      BY <2>3 DEF W!ToSet
    <3>2. lines[f][Len(lines[f])] = W!Asked(t) /\ Len(lines[f]) \in 1 .. Len(lines[f])
      BY <1>0, <2>1, <2>3, <3>1
    <3>. QED
      BY <1>0, <2>3, <3>2 DEF AskedOf, SingleIn
  <2>. QED
    BY <1>0, <2>1, <2>2, <2>3 DEF AskedOf, SingleIn, W!Asked, W!Done
<1>5. ASSUME NEW g \in Files, W!FinishLine(g) PROVE AskedOf(t)'
  <2>1. PICK u : u = half[g] /\ u # 0
    BY <1>5 DEF W!FinishLine
  <2>2. u \in Turns /\ FileOf[u] = g
    BY <2>1 DEF FilesFit
  <2>3. /\ lines' = [lines EXCEPT ![g] = Append(lines[g], W!Done(u))]
        /\ half' = [half EXCEPT ![g] = 0]
    BY <1>5, <2>1 DEF W!FinishLine
  <2>4. W!Done(u) \in Lines /\ FileOf[W!Done(u).turn] = g
    BY <2>2, LinesDiffer
  <2>5. CASE half'[f] # t
    <3>1. W!Done(u) # W!Asked(t) /\ (W!Done(u) = W!Done(t) => half[g] = t)
      BY <2>1, LinesDiffer
    <3>. QED
      BY <1>0, <2>3, <2>4, <2>5, <3>1, AskedGoesOn
  <2>6. CASE half'[f] = t
    <3>1. f # g
      BY <1>0, <2>3, <2>6 DEF FilesFit
    <3>2. lines'[f] = lines[f] /\ half'[f] = half[f]
      BY <1>0, <2>3, <3>1 DEF FilesFit
    <3>. QED
      BY <1>0, <3>2 DEF AskedOf, SingleIn, W!Asked, W!Done
  <2>. QED
    BY <2>5, <2>6
<1>6. ASSUME NEW g \in Files, W!Disappear(g) \/ W!Reappear(g) PROVE AskedOf(t)'
  BY <1>1, <1>6 DEF W!Disappear, W!Reappear
<1>7. ASSUME NEW g \in Files, NEW k \in 0 .. 2 * NumTurns, W!Rewrite(g, k) PROVE AskedOf(t)'
  <2>1. /\ k < Len(lines[g]) /\ lines' = [lines EXCEPT ![g] = SubSeq(lines[g], 1, k)]
        /\ half' = [half EXCEPT ![g] = 0]
    BY <1>7 DEF W!Rewrite
  <2>2. CASE f # g
    <3>1. lines'[f] = lines[f] /\ half'[f] = half[f]
      BY <1>0, <2>1, <2>2 DEF FilesFit
    <3>. QED
      BY <1>0, <3>1 DEF AskedOf, SingleIn, W!Asked, W!Done
  <2>3. CASE f = g
    <3>1. lines'[f] = SubSeq(lines[f], 1, k) /\ half'[f] = 0 /\ k \in Nat /\ k < Len(lines[f])
      BY <1>0, <2>1, <2>3 DEF FilesFit
    <3>2. \A i \in 1 .. k : lines[f][i] \in Lines
      BY <1>0, <3>1, LinesAre, ElementOfSeq
    <3>3. /\ Len(SubSeq(lines[f], 1, k)) = IF 1 <= k THEN k - 1 + 1 ELSE 0
          /\ \A i \in 1 .. k - 1 + 1 : SubSeq(lines[f], 1, k)[i] = lines[f][1 + i - 1]
      BY <3>1, <3>2, SubSeqProperties
    <3>4. Len(lines'[f]) = k /\ \A i \in 1 .. k : lines'[f][i] = lines[f][i] /\ i \in 1 .. Len(lines[f])
      BY <1>0, <3>1, <3>3
    <3>5. SingleIn(lines'[f], W!Asked(t))
      BY <1>0, <3>4 DEF AskedOf, SingleIn
    <3>6. \A i, j \in 1 .. Len(lines'[f]) : lines'[f][i] = W!Asked(t) /\ lines'[f][j] = W!Done(t) => j = i + 1
      BY <1>0, <3>4 DEF AskedOf
    <3>. QED
      BY <1>0, <3>1, <3>5, <3>6 DEF AskedOf, SingleIn, W!Asked, W!Done
  <2>. QED
    BY <2>2, <2>3
<1>8. CASE W!SwitchPrompts
  BY <1>1, <1>8 DEF W!SwitchPrompts, W!fileVars
<1>9. CASE WatchActs
  BY <1>1, <1>9, ActsLeaveFiles
<1>10. CASE UNCHANGED watcherVars
  BY <1>1, <1>10 DEF watcherVars
<1>. QED
  BY <1>2, <1>3, <1>4, <1>5, <1>6, <1>7, <1>8, <1>9, <1>10, SameFiles
     DEF WatchMoves, W!Next, W!WatchStep, WatchActs

----------------------------------------------------------------------------
\* Where a poll is in the files.

\* Flattened sequences follow one another.
Follow(flat, seqs, start, m) ==
    /\ \A s \in 1 .. m : /\ start[s] \in Nat /\ start[s] + Len(seqs[s]) <= Len(flat)
                         /\ \A k \in 1 .. Len(seqs[s]) : flat[start[s] + k] = seqs[s][k]
    /\ \A r, s \in 1 .. m : r < s => start[r] + Len(seqs[r]) <= start[s]
    /\ \A i \in 1 .. Len(flat) : \E s \in 1 .. m : start[s] < i /\ i <= start[s] + Len(seqs[s])

LEMMA OneMoreFollows ==
    ASSUME NEW S, NEW seqs \in Seq(Seq(S)), NEW m \in 2 .. Len(seqs), NEW start,
           NEW left \in Seq(S), Follow(left, seqs, start, m - 1), start[m] = Len(left)
    PROVE  Follow(left \o seqs[m], seqs, start, m)
<1>1. /\ Len(seqs) \in Nat /\ m \in 1 .. Len(seqs) /\ m \in 1 .. m
      /\ \A s \in 1 .. Len(seqs) : seqs[s] \in Seq(S) /\ Len(seqs[s]) \in Nat
      /\ \A s \in 1 .. m : s \in 1 .. Len(seqs) /\ (s = m \/ s \in 1 .. m - 1)
      /\ \A s \in 1 .. m - 1 : s \in 1 .. m
  BY LenProperties
<1>2. PICK right \in Seq(S) : right = seqs[m]
  BY <1>1
<1> DEFINE flat == left \o right
<1>3. /\ Len(left) \in Nat /\ Len(right) \in Nat /\ Len(flat) = Len(left) + Len(right)
      /\ \A i \in 1 .. Len(left) + Len(right) :
             flat[i] = IF i <= Len(left) THEN left[i] ELSE right[i - Len(left)]
  BY ConcatProperties, LenProperties
<1> HIDE DEF flat
<1>4. ASSUME NEW s \in 1 .. m
      PROVE  /\ start[s] \in Nat /\ start[s] + Len(seqs[s]) <= Len(flat)
             /\ \A k \in 1 .. Len(seqs[s]) : flat[start[s] + k] = seqs[s][k]
             /\ s # m => start[s] + Len(seqs[s]) <= start[m]
  <2>1. CASE s = m
    <3>1. start[m] = Len(left) /\ seqs[m] = right /\ Len(left) \in Nat /\ Len(right) \in Nat
      BY <1>2, <1>3
    <3>2. ASSUME NEW k \in 1 .. Len(right) PROVE flat[Len(left) + k] = right[k]
      <4>1. /\ Len(left) + k \in 1 .. Len(left) + Len(right) /\ ~(Len(left) + k <= Len(left))
            /\ Len(left) + k - Len(left) = k
        BY <3>1
      <4>. QED
        BY <1>3, <4>1
    <3>3. start[s] = Len(left) /\ seqs[s] = right /\ start[s] + Len(seqs[s]) <= Len(flat)
      BY <1>3, <2>1, <3>1
    <3>4. \A k \in 1 .. Len(seqs[s]) : flat[start[s] + k] = seqs[s][k]
      BY <3>2, <3>3
    <3>. QED
      BY <2>1, <3>1, <3>3, <3>4
  <2>2. CASE s \in 1 .. m - 1
    <3>1. /\ start[s] \in Nat /\ start[s] + Len(seqs[s]) <= Len(left)
          /\ \A k \in 1 .. Len(seqs[s]) : left[start[s] + k] = seqs[s][k]
      BY <2>2 DEF Follow
    <3>2. Len(seqs[s]) \in Nat
      BY <1>1
    <3>3. ASSUME NEW k \in 1 .. Len(seqs[s]) PROVE flat[start[s] + k] = seqs[s][k]
      <4> DEFINE a == start[s]
                 b == Len(seqs[s])
                 c == Len(left)
                 d == Len(right)
      <4>2. a \in Nat /\ b \in Nat /\ c \in Nat /\ d \in Nat /\ a + b <= c /\ k \in 1 .. b
        BY <1>3, <3>1, <3>2
      <4> HIDE DEF a, b, c, d
      <4>3. a + k \in 1 .. c + d /\ a + k <= c
        BY <4>2
      <4>1. start[s] + k \in 1 .. Len(left) + Len(right) /\ start[s] + k <= Len(left)
        BY <4>3 DEF a, b, c, d
      <4>. QED
        BY <1>3, <3>1, <4>1
    <3>. QED
      BY <1>3, <3>1, <3>2, <3>3
  <2>. QED
    BY <1>1, <2>1, <2>2
<1>5. ASSUME NEW r \in 1 .. m, NEW s \in 1 .. m, r < s PROVE start[r] + Len(seqs[r]) <= start[s]
  <2>1. CASE s = m
    BY <1>4, <1>5, <2>1
  <2>2. CASE s # m
    <3>1. r \in 1 .. m - 1 /\ s \in 1 .. m - 1
      BY <1>5, <2>2
    <3>. QED
      BY <1>5, <3>1 DEF Follow
  <2>. QED
    BY <2>1, <2>2
<1>6. ASSUME NEW i \in 1 .. Len(flat)
      PROVE  \E s \in 1 .. m : start[s] < i /\ i <= start[s] + Len(seqs[s])
  <2>1. CASE i \in 1 .. Len(left)
    <3>1. PICK s \in 1 .. m - 1 : start[s] < i /\ i <= start[s] + Len(seqs[s])
      BY <2>1 DEF Follow
    <3>. QED
      BY <1>1, <3>1
  <2>2. CASE i \notin 1 .. Len(left)
    <3>1. start[m] < i /\ i <= start[m] + Len(seqs[m])
      BY <1>2, <1>3, <2>2
    <3>. QED
      BY <1>1, <3>1
  <2>. QED
    BY <2>1, <2>2
<1>. QED
  BY <1>2, <1>4, <1>5, <1>6 DEF Follow, flat

LEMMA FlatFollows ==
    ASSUME NEW S, NEW seqs \in Seq(Seq(S))
    PROVE  \E start : Follow(W!FlattenSeq(seqs), seqs, start, Len(seqs))
<1>1. CASE Len(seqs) = 0
  <2>1. W!FlattenSeq(seqs) = seqs
    BY <1>1 DEF W!FlattenSeq
  <2>2. 1 .. Len(W!FlattenSeq(seqs)) = {} /\ 1 .. Len(seqs) = {}
    BY <1>1, <2>1
  <2>3. Follow(W!FlattenSeq(seqs), seqs, 0, Len(seqs))
    BY <2>2 DEF Follow
  <2>. QED
    BY <2>3
<1>2. CASE Len(seqs) # 0
  <2>1. PICK flat : /\ flat[1] = seqs[1]
                    /\ \A i \in 2 .. Len(seqs) : flat[i] = flat[i - 1] \o seqs[i]
                    /\ flat[Len(seqs)] = W!FlattenSeq(seqs)
    BY <1>2, FlatSteps
  <2> DEFINE n == Len(seqs)
             start == [s \in 1 .. n |-> IF s = 1 THEN 0 ELSE Len(flat[s - 1])]
             Fine(m) == flat[m] \in Seq(S) /\ Follow(flat[m], seqs, start, m)
             T == {m \in Nat : m = 0 \/ Fine(m)}
  <2>2. n \in Nat /\ n >= 1 /\ \A i \in 1 .. n : seqs[i] \in Seq(S) /\ Len(seqs[i]) \in Nat
    BY <1>2, LenProperties
  <2>3. Fine(1)
    <3>1. start[1] = 0 /\ \A s \in 1 .. 1 : s = 1
      BY <2>2
    <3>2. flat[1] \in Seq(S) /\ flat[1] = seqs[1] /\ Len(seqs[1]) \in Nat
      BY <2>1, <2>2
    <3> HIDE DEF start
    <3>3. Follow(flat[1], seqs, start, 1)
      BY <3>1, <3>2 DEF Follow
    <3>. QED
      BY <3>2, <3>3
  <2>4. ASSUME NEW m \in 1 .. n, m - 1 \in T PROVE m \in T
    <3>1. CASE m = 1
      BY <2>3, <3>1
    <3>2. CASE m # 1
      <4>1. m \in 2 .. n /\ m - 1 # 0 /\ m \in Nat
        BY <2>2, <3>2
      <4>2. Fine(m - 1) /\ start[m] = Len(flat[m - 1])
        BY <2>4, <4>1
      <4> HIDE DEF start
      <4>3. PICK left \in Seq(S) : left = flat[m - 1]
        BY <4>2
      <4>4. flat[m] = left \o seqs[m] /\ seqs[m] \in Seq(S)
        BY <2>1, <2>2, <4>1, <4>3
      <4>5. Follow(left \o seqs[m], seqs, start, m)
        BY <4>1, <4>2, <4>3, OneMoreFollows
      <4>6. left \o seqs[m] \in Seq(S)
        BY <4>4, ConcatProperties
      <4>. QED
        BY <4>1, <4>4, <4>5, <4>6
    <3>. QED
      BY <3>1, <3>2
  <2>5. 0 \in T /\ n \in 0 .. n
    BY <2>2
  <2> HIDE DEF T, n, start
  <2>6. n \in T
    BY <2>2, <2>4, <2>5, UpTo
  <2>7. Follow(flat[n], seqs, start, n)
    BY <1>2, <2>2, <2>6 DEF T
  <2>. QED
    BY <2>1, <2>7 DEF n
<1>. QED
  BY <1>1, <1>2

\* A poll reads its files line by line: place[k][f] is how far it is in file f after k
\* lines of all.
Reads(place) ==
    /\ \A f \in Files : /\ place[0][f] = W!From(f)
                        /\ place[Len(News)][f] = W!From(f) + Len(W!NewLines(f))
    /\ \A k \in 0 .. Len(News) : \A f \in Files : place[k][f] \in Nat
    /\ \A k \in 1 .. Len(News) : \E f \in Files :
           /\ f \in here /\ FileOf[News[k].turn] = f
           /\ place[k][f] = place[k - 1][f] + 1
           /\ place[k][f] \in 1 .. Len(lines[f]) /\ lines[f][place[k][f]] = News[k]
           /\ W!From(f) < place[k][f]
           /\ \E j \in 1 .. Len(W!NewLines(f)) : W!NewLines(f)[j] = News[k]
           /\ \A g \in Files : g # f => place[k][g] = place[k - 1][g]

LEMMA PollReads ==
    ASSUME FilesFit, WatchFits
    PROVE  \E place : Reads(place)
<1> DEFINE seqs == [g \in W!Files |-> W!NewLines(g)]
           Size(f) == Len(W!NewLines(f))
<1>1. /\ seqs \in Seq(Seq(Lines)) /\ Len(seqs) = NumFiles /\ NumFiles \in Nat
      /\ \A f \in Files : f \in 1 .. NumFiles /\ f \in Nat /\ seqs[f] = W!NewLines(f)
                          /\ Size(f) \in Nat /\ W!From(f) \in Nat
  <2>1. \A s \in 1 .. NumFiles : W!NewLines(s) \in Seq(Lines)
    BY NewLinesFit DEF Files
  <2>2. seqs = [s \in 1 .. NumFiles |-> W!NewLines(s)] /\ NumFiles \in Nat
    BY Numbers DEF W!Files
  <2>3. \A f \in Files : state.offset[f] \in Nat
    BY DEF WatchFits, WatchStates
  <2>4. \A f \in Files : W!From(f) \in Nat
    BY <2>3 DEF W!From
  <2> HIDE DEF seqs
  <2>5. seqs \in Seq(Seq(Lines)) /\ Len(seqs) = NumFiles
    BY <2>1, <2>2
  <2>6. \A f \in Files : f \in 1 .. NumFiles /\ f \in Nat /\ Size(f) \in Nat
    BY <2>1, LenProperties DEF Files
  <2>. QED
    BY <2>2, <2>4, <2>5, <2>6
<1>2. News \in Seq(Lines) /\ Len(News) \in Nat
  BY NewsFit, LenProperties
<1>3. PICK start : Follow(News, seqs, start, NumFiles)
  BY <1>1, FlatFollows DEF News
<1> DEFINE Read(k, f) == IF k <= start[f] THEN 0
                         ELSE IF k <= start[f] + Size(f) THEN k - start[f] ELSE Size(f)
           place == [k \in 0 .. Len(News) |-> [f \in Files |-> W!From(f) + Read(k, f)]]
<1>4. /\ \A f \in Files : start[f] \in Nat /\ start[f] + Size(f) <= Len(News)
                          /\ \A k \in 1 .. Size(f) : News[start[f] + k] = W!NewLines(f)[k]
      /\ \A r, s \in Files : r < s => start[r] + Size(r) <= start[s]
      /\ \A i \in 1 .. Len(News) : \E s \in Files : start[s] < i /\ i <= start[s] + Size(s)
  <2>1. Files = 1 .. NumFiles
    BY DEF Files
  <2>2. \A f \in Files : seqs[f] = W!NewLines(f) /\ Len(seqs[f]) = Size(f)
    BY <1>1
  <2> HIDE DEF seqs, Size
  <2>3. /\ \A s \in Files : /\ start[s] \in Nat /\ start[s] + Len(seqs[s]) <= Len(News)
                            /\ \A k \in 1 .. Len(seqs[s]) : News[start[s] + k] = seqs[s][k]
        /\ \A r, s \in Files : r < s => start[r] + Len(seqs[r]) <= start[s]
        /\ \A i \in 1 .. Len(News) : \E s \in Files : start[s] < i /\ i <= start[s] + Len(seqs[s])
    BY <1>3, <2>1 DEF Follow
  <2>4. ASSUME NEW f \in Files
        PROVE  /\ start[f] \in Nat /\ start[f] + Size(f) <= Len(News)
               /\ \A k \in 1 .. Size(f) : News[start[f] + k] = W!NewLines(f)[k]
    BY <2>2, <2>3
  <2>5. \A r, s \in Files : r < s => start[r] + Size(r) <= start[s]
    BY <2>2, <2>3
  <2>6. \A i \in 1 .. Len(News) : \E s \in Files : start[s] < i /\ i <= start[s] + Size(s)
    BY <2>2, <2>3
  <2>. QED
    BY <2>4, <2>5, <2>6
<1> HIDE DEF seqs
<1>5. ASSUME NEW k \in 0 .. Len(News), NEW f \in Files
      PROVE  place[k][f] = W!From(f) + Read(k, f) /\ Read(k, f) \in Nat
  <2>1. start[f] \in Nat /\ Size(f) \in Nat /\ k \in Nat
    BY <1>1, <1>2, <1>4
  <2>2. Read(k, f) \in Nat
    <3> HIDE DEF Size, place
    <3>. QED
      BY <2>1
  <2> HIDE DEF Read, Size
  <2>. QED
    BY <2>2
<1>6. ASSUME NEW f \in Files
      PROVE  Read(0, f) = 0 /\ Read(Len(News), f) = Size(f)
  BY <1>1, <1>2, <1>4
<1>7. ASSUME NEW k \in 1 .. Len(News)
      PROVE  \E f \in Files :
                 /\ Read(k, f) = Read(k - 1, f) + 1 /\ Read(k, f) \in 1 .. Size(f)
                 /\ W!NewLines(f)[Read(k, f)] = News[k]
                 /\ \A g \in Files : g # f => Read(k, g) = Read(k - 1, g)
  <2>1. PICK f \in Files : start[f] < k /\ k <= start[f] + Size(f)
    BY <1>4
  <2>2. start[f] \in Nat /\ Size(f) \in Nat /\ k \in Nat
    BY <1>1, <1>2, <1>4
  <2>3. Read(k, f) = k - start[f] /\ Read(k - 1, f) = k - 1 - start[f]
    BY <2>1, <2>2
  <2>4. k - start[f] \in 1 .. Size(f) /\ start[f] + (k - start[f]) = k
    BY <2>1, <2>2
  <2>5. ASSUME NEW g \in Files, g # f PROVE Read(k, g) = Read(k - 1, g)
    <3>1. start[g] \in Nat /\ Size(g) \in Nat /\ g \in Nat /\ f \in Nat
      BY <1>1, <1>4
    <3>2. start[g] + Size(g) <= start[f] \/ start[f] + Size(f) <= start[g]
      BY <1>4, <2>5, <3>1
    <3>. QED
      BY <2>1, <2>2, <3>1, <3>2
  <2> HIDE DEF Size
  <2>6. W!NewLines(f)[k - start[f]] = News[k]
    BY <1>4, <2>4
  <2>7. Read(k, f) = Read(k - 1, f) + 1
    BY <2>2, <2>3
  <2> HIDE DEF Read
  <2>. QED
    BY <2>3, <2>4, <2>5, <2>6, <2>7
<1> HIDE DEF place, Read
<1>8. ASSUME NEW k \in 1 .. Len(News)
      PROVE  \E f \in Files :
                 /\ f \in here /\ FileOf[News[k].turn] = f
                 /\ place[k][f] = place[k - 1][f] + 1
                 /\ place[k][f] \in 1 .. Len(lines[f]) /\ lines[f][place[k][f]] = News[k]
                 /\ W!From(f) < place[k][f]
                 /\ \E j \in 1 .. Len(W!NewLines(f)) : W!NewLines(f)[j] = News[k]
                 /\ \A g \in Files : g # f => place[k][g] = place[k - 1][g]
  <2>1. PICK f \in Files :
            /\ Read(k, f) = Read(k - 1, f) + 1 /\ Read(k, f) \in 1 .. Size(f)
            /\ W!NewLines(f)[Read(k, f)] = News[k]
            /\ \A g \in Files : g # f => Read(k, g) = Read(k - 1, g)
    BY <1>7
  <2>2. k \in 0 .. Len(News) /\ k - 1 \in 0 .. Len(News)
    BY <1>2
  <2>3. /\ f \in here /\ W!From(f) \in Nat
        /\ W!From(f) + Read(k, f) \in 1 .. Len(lines[f])
        /\ lines[f][W!From(f) + Read(k, f)] = News[k]
    BY <2>1, NewIs
  <2>4. /\ place[k][f] = W!From(f) + Read(k, f) /\ place[k - 1][f] = W!From(f) + Read(k - 1, f)
        /\ Read(k - 1, f) \in Nat
        /\ \A g \in Files : g # f => place[k][g] = place[k - 1][g]
    BY <1>5, <2>1, <2>2
  <2>5. FileOf[News[k].turn] = f
    BY <2>3 DEF FilesFit, OwnLines
  <2>6. place[k][f] = place[k - 1][f] + 1 /\ W!From(f) < place[k][f]
    <3>1. /\ W!From(f) \in Nat /\ Read(k - 1, f) \in Nat
          /\ place[k - 1][f] = W!From(f) + Read(k - 1, f)
      BY <2>3, <2>4
    <3>2. place[k][f] = W!From(f) + (Read(k - 1, f) + 1)
      BY <2>1, <2>4
    <3>. QED
      BY <3>1, <3>2
  <2>7. \E j \in 1 .. Len(W!NewLines(f)) : W!NewLines(f)[j] = News[k]
    BY <2>1
  <2>. QED
    BY <2>3, <2>4, <2>5, <2>6, <2>7
<1>9. /\ \A f \in Files : /\ place[0][f] = W!From(f)
                          /\ place[Len(News)][f] = W!From(f) + Size(f)
      /\ \A k \in 0 .. Len(News) : \A f \in Files : place[k][f] \in Nat
  <2>1. 0 \in 0 .. Len(News) /\ Len(News) \in 0 .. Len(News)
    BY <1>2
  <2> HIDE DEF Size
  <2>2. ASSUME NEW f \in Files
        PROVE  place[0][f] = W!From(f) /\ place[Len(News)][f] = W!From(f) + Size(f)
    <3>1. /\ place[0][f] = W!From(f) + Read(0, f) /\ W!From(f) \in Nat
          /\ place[Len(News)][f] = W!From(f) + Read(Len(News), f)
      BY <1>1, <1>5, <2>1
    <3>2. Read(0, f) = 0 /\ Read(Len(News), f) = Size(f)
      BY <1>6
    <3>. QED
      BY <3>1, <3>2
  <2>3. ASSUME NEW k \in 0 .. Len(News), NEW f \in Files PROVE place[k][f] \in Nat
    <3>1. place[k][f] = W!From(f) + Read(k, f) /\ W!From(f) \in Nat /\ Read(k, f) \in Nat
      BY <1>1, <1>5
    <3>. QED
      BY <3>1
  <2>. QED
    BY <2>2, <2>3
<1>10. Reads(place)
  BY <1>8, <1>9 DEF Reads
<1>. QED
  BY <1>10

----------------------------------------------------------------------------
\* What a poll does with a line.

\* The turns that are delivered ended before place c of file f.
DeliveredIn(f, c, D) == \A t \in D : FileOf[t] = f => \E i \in 1 .. c : lines[f][i] = W!Done(t)

\* What waits at place c of file f: the prompt that was read last, if the watch has
\* read it (H); whatever waits was asked before, and its turn has not ended since, unless
\* that was while no prompts were asked for (U).
WaitsIn(f, c, p, H, U) ==
    /\ \A t \in H : c >= 1 /\ lines[f][c] = W!Asked(t) => p = t
    /\ p # 0 => /\ FileOf[p] = f /\ \E i \in 1 .. c : lines[f][i] = W!Asked(p)
                /\ p \in U \/ \A i \in 1 .. c : lines[f][i] # W!Done(p)

\* The turns that were heard were asked before place c.
HeardIn(f, c, H) == \A t \in H : FileOf[t] = f => \E i \in 1 .. c : lines[f][i] = W!Asked(t)

\* A prompt was left over: other lines follow it, so that its turn will never end.
LeftOver(p, f) ==
    /\ FileOf[p] = f
    /\ \A i \in 1 .. Len(lines[f]) : lines[f][i] # W!Done(p)
    /\ \E i \in 1 .. Len(lines[f]) : i < Len(lines[f]) /\ lines[f][i] = W!Asked(p)

IsOwn(signal, H, U) ==
    /\ prompts /\ signal.turn \in H => signal.prompt = signal.turn
    /\ signal.prompt \notin {0, signal.turn} =>
           signal.prompt \in U \/ LeftOver(signal.prompt, FileOf[signal.turn])

\* A line leaves all as it is, it is a prompt that waits from now on, or the end of a turn
\* that uses up the prompt.
LeavesAll(acc, line, next) ==
    /\ next.pending = acc.pending /\ next.signals = acc.signals /\ next.delivered = acc.delivered
    /\ \/ line = W!Asked(line.turn) /\ ~prompts
       \/ line = W!Done(line.turn) /\ line.turn \in acc.delivered
TakesPrompt(acc, line, next) ==
    /\ line = W!Asked(line.turn) /\ prompts
    /\ next.pending = [acc.pending EXCEPT ![FileOf[line.turn]] = line.turn]
    /\ next.signals = acc.signals /\ next.delivered = acc.delivered
Signals1(acc, line) ==
    {d \in Signals : d.turn = line.turn
                     /\ d.prompt = IF prompts THEN acc.pending[FileOf[line.turn]] ELSE 0}
TakesEnd(acc, line, next) ==
    /\ line = W!Done(line.turn) /\ line.turn \notin acc.delivered
    /\ next.pending = IF prompts THEN [acc.pending EXCEPT ![FileOf[line.turn]] = 0] ELSE acc.pending
    /\ next.delivered \subseteq acc.delivered \cup {line.turn}
    /\ \/ next.signals = acc.signals
       \/ \E d \in Signals1(acc, line) : next.signals = Append(acc.signals, d)

LEMMA TakeItemDoes ==
    ASSUME NEW acc \in Gathered, NEW line \in Lines, NEW next, next = W!TakeItem(acc, line)
    PROVE  LeavesAll(acc, line, next) \/ TakesPrompt(acc, line, next) \/ TakesEnd(acc, line, next)
<1> DEFINE t == line.turn
           f == FileOf[t]
<1>1. /\ t \in Turns /\ f \in Files
      /\ acc.delivered \subseteq Turns /\ acc.signals \in Seq(Signals)
      /\ acc.pending \in [Files -> Turns \cup {0}]
      /\ acc = [delivered |-> acc.delivered, signals |-> acc.signals, pending |-> acc.pending]
      /\ \/ line.is = "asked" /\ line = W!Asked(t)
         \/ line.is = "done" /\ line = W!Done(t)
  BY Numbers, LinesDiffer DEF Gathered, PromptsByFile
<1>2. PICK P : P = IF prompts THEN [acc.pending EXCEPT ![f] = 0] ELSE acc.pending
  OBVIOUS
<1>3. PICK D : D = W!Evicted(acc.delivered \cup {t}) /\ D \subseteq acc.delivered \cup {t}
  BY DEF W!Evicted
<1>4. PICK used : used = W!UsedUp(acc, t)
  OBVIOUS
<1>5. used = [delivered |-> acc.delivered, signals |-> acc.signals, pending |-> P]
  <2>1. CASE prompts
    <3>1. used = [acc EXCEPT !.pending = [acc.pending EXCEPT ![f] = 0]]
      BY <1>4, <2>1 DEF W!UsedUp, Gathered
    <3>. QED
      BY <1>1, <1>2, <2>1, <3>1
  <2>2. CASE ~prompts
    BY <1>1, <1>2, <1>4, <2>2 DEF W!UsedUp
  <2>. QED
    BY <2>1, <2>2
<1>6. PICK more : more = W!Deliver(used, t)
  OBVIOUS
<1>7. more = [delivered |-> D, signals |-> acc.signals, pending |-> P]
  <2>1. more = [used EXCEPT !.delivered = D]
    BY <1>3, <1>5, <1>6 DEF W!Deliver
  <2>. QED
    BY <1>5, <2>1
<1>8. CASE line.is = "asked" /\ ~prompts
  <2>1. next = acc
    BY <1>8 DEF W!TakeItem, W!IsItem
  <2>. QED
    BY <1>1, <1>8, <2>1 DEF LeavesAll
<1>9. CASE line.is = "asked" /\ prompts
  <2>1. next = [acc EXCEPT !.pending = [acc.pending EXCEPT ![f] = t]]
    BY <1>9 DEF W!TakeItem, W!IsItem, Gathered
  <2>2. next.pending = [acc.pending EXCEPT ![f] = t] /\ next.signals = acc.signals /\ next.delivered = acc.delivered
    BY <1>1, <2>1
  <2>. QED
    BY <1>1, <1>9, <2>2 DEF TakesPrompt
<1>10. CASE line.is = "done"
  <2>1. next = W!TakeTurn(acc, t) /\ line = W!Done(t)
    BY <1>1, <1>10 DEF W!TakeItem, W!IsItem
  <2>2. CASE t \in acc.delivered
    BY <2>1, <2>2 DEF W!TakeTurn, LeavesAll
  <2>3. CASE t \notin acc.delivered /\ t \in index
    <3>1. next = more
      BY <1>4, <1>6, <2>1, <2>3 DEF W!TakeTurn
    <3>2. next.pending = P /\ next.signals = acc.signals /\ next.delivered = D
      BY <1>7, <3>1
    <3>. QED
      BY <1>2, <1>3, <2>1, <2>3, <3>2 DEF TakesEnd
  <2>4. CASE t \notin acc.delivered /\ t \notin index /\ f \in DesktopFiles
    <3>1. next = W!Announce(acc, t)
      BY <2>1, <2>4 DEF W!TakeTurn
    <3>2. PICK d \in Signals : /\ d = W!Draft(acc, t) /\ d.turn = t
                               /\ d.prompt = IF prompts THEN acc.pending[f] ELSE 0
      <4>1. PICK q \in Turns \cup {0} : q = IF prompts THEN acc.pending[f] ELSE 0
        BY <1>1
      <4>2. W!Draft(acc, t) = [turn |-> t, prompt |-> q]
        BY <4>1 DEF W!Draft
      <4>. QED
        BY <1>1, <4>1, <4>2 DEF Signals
    <3>3. next = [more EXCEPT !.signals = Append(more.signals, d)]
      BY <1>4, <1>6, <3>1, <3>2 DEF W!Announce
    <3>4. next.pending = P /\ next.delivered = D /\ next.signals = Append(acc.signals, d)
      BY <1>7, <3>3
    <3>5. d \in Signals1(acc, line)
      BY <3>2 DEF Signals1
    <3>. QED
      BY <1>2, <1>3, <2>1, <2>4, <3>4, <3>5 DEF TakesEnd
  <2>5. CASE t \notin acc.delivered /\ t \notin index /\ f \notin DesktopFiles
    <3>1. next = used
      BY <1>4, <2>1, <2>5 DEF W!TakeTurn
    <3>2. next.pending = P /\ next.signals = acc.signals /\ next.delivered = acc.delivered
      BY <1>5, <3>1
    <3>. QED
      BY <1>2, <2>1, <2>5, <3>2 DEF TakesEnd
  <2>. QED
    BY <2>2, <2>3, <2>4, <2>5
<1>. QED
  BY <1>1, <1>8, <1>9, <1>10

\* A line that is read leaves what waits in its file, and what is announced has its
\* prompt.
Signalling(acc, next, t, H, U) ==
    \/ next.signals = acc.signals
    \/ \E d \in Signals : d.turn = t /\ IsOwn(d, H, U) /\ next.signals = Append(acc.signals, d)

LEMMA LineFits ==
    ASSUME FilesFit, AskedOnce, DoneOnce, NEW f \in Files, NEW c \in Nat, c + 1 \in 1 .. Len(lines[f]),
           NEW acc \in Gathered, NEW next \in Gathered, NEW H \in SUBSET Turns, NEW U,
           NEW line \in Lines, line = lines[f][c + 1], FileOf[line.turn] = f,
           LeavesAll(acc, line, next) \/ TakesPrompt(acc, line, next) \/ TakesEnd(acc, line, next),
           DeliveredIn(f, c, acc.delivered), WaitsIn(f, c, acc.pending[f], H, U),
           HeardIn(f, Len(lines[f]), H),
           prompts \/ (line.turn \in U /\ (line = W!Asked(line.turn) => line.turn \notin H))
    PROVE  /\ DeliveredIn(f, c + 1, next.delivered) /\ WaitsIn(f, c + 1, next.pending[f], H, U)
           /\ Signalling(acc, next, line.turn, H, U)
<1> DEFINE t == line.turn
           own == lines[f]
           p == acc.pending[f]
<1>1. /\ t \in Turns /\ FileOf[t] = f /\ Len(own) \in Nat /\ own \in Seq(Lines)
      /\ acc.pending \in [Files -> Turns \cup {0}] /\ acc.delivered \subseteq Turns
      /\ own[c + 1] = line /\ p \in Turns \cup {0} /\ 0 \notin Turns
  BY LinesDiffer, LinesAre, Numbers DEF Gathered, PromptsByFile
<1>2. /\ \A i \in 1 .. c : i \in 1 .. c + 1 /\ i \in 1 .. Len(own) /\ i # c + 1
      /\ \A i \in 1 .. c + 1 : i \in 1 .. c \/ i = c + 1
      /\ c + 1 \in 1 .. c + 1 /\ c + 1 >= 1 /\ c + 1 # c + 1 + 1
  BY <1>1
\* Each turn of the file is asked for and ends at one place.
<1>3. ASSUME NEW u \in Turns, FileOf[u] = f
      PROVE  /\ \A i, k \in 1 .. Len(own) : own[i] = W!Asked(u) /\ own[k] = W!Asked(u) => i = k
             /\ \A i, k \in 1 .. Len(own) : own[i] = W!Asked(u) /\ own[k] = W!Done(u) => k = i + 1
             /\ \A i, k \in 1 .. Len(own) : own[i] = W!Done(u) /\ own[k] = W!Done(u) => i = k
  BY <1>3 DEF AskedOnce, AskedOf, DoneOnce, SingleIn
<1>4. p # 0 => /\ p \in Turns /\ FileOf[p] = f /\ \E i \in 1 .. c : own[i] = W!Asked(p)
               /\ p \in U \/ \A i \in 1 .. c : own[i] # W!Done(p)
  BY <1>1 DEF WaitsIn
<1>5. \A u \in acc.delivered : FileOf[u] = f => \E i \in 1 .. c : own[i] = W!Done(u)
  BY DEF DeliveredIn
<1>6. DeliveredIn(f, c + 1, acc.delivered)
  BY <1>2, <1>5 DEF DeliveredIn
<1>7. ASSUME line = W!Done(t) PROVE t \notin acc.delivered
  <2> SUFFICES ASSUME t \in acc.delivered PROVE FALSE
    OBVIOUS
  <2>1. PICK i \in 1 .. c : own[i] = W!Done(t)
    BY <1>1, <1>5
  <2>. QED
    BY <1>1, <1>2, <1>3, <1>7, <2>1
\* What waits goes on waiting past a line that is not taken up, or whose turn is of U.
<1>8. ASSUME \A u \in H : line # W!Asked(u), p # 0 /\ line = W!Done(p) => p \in U
      PROVE  WaitsIn(f, c + 1, p, H, U)
  <2>1. \A u \in H : ~(own[c + 1] = W!Asked(u))
    BY <1>1, <1>8
  <2>2. p # 0 => p \in U \/ \A i \in 1 .. c + 1 : own[i] # W!Done(p)
    BY <1>1, <1>2, <1>4, <1>8
  <2>3. p # 0 => FileOf[p] = f /\ \E i \in 1 .. c + 1 : own[i] = W!Asked(p)
    BY <1>2, <1>4
  <2>. QED
    BY <2>1, <2>2, <2>3 DEF WaitsIn
<1>9. CASE LeavesAll(acc, line, next)
  <2>1. /\ next.pending = acc.pending /\ next.signals = acc.signals /\ next.delivered = acc.delivered
        /\ line = W!Asked(t) /\ ~prompts
    BY <1>7, <1>9 DEF LeavesAll
  <2>2. t \notin H
    BY <2>1, LinesDiffer
  <2>3. (\A u \in H : line # W!Asked(u)) /\ ~(p # 0 /\ line = W!Done(p))
    BY <2>1, <2>2, LinesDiffer
  <2>4. WaitsIn(f, c + 1, p, H, U)
    BY <1>8, <2>3
  <2>. QED
    BY <1>6, <2>1, <2>4 DEF Signalling
<1>10. CASE TakesPrompt(acc, line, next)
  <2>1. /\ next.pending[f] = t /\ next.signals = acc.signals /\ next.delivered = acc.delivered
        /\ line = W!Asked(t)
    BY <1>1, <1>10 DEF TakesPrompt
  <2>2. \A u \in H : own[c + 1] = W!Asked(u) => t = u
    BY <1>1, <2>1, LinesDiffer
  <2>3. \A i \in 1 .. c + 1 : own[i] # W!Done(t)
    BY <1>1, <1>2, <1>3, <2>1
  <2>4. WaitsIn(f, c + 1, t, H, U)
    BY <1>1, <1>2, <2>1, <2>2, <2>3 DEF WaitsIn
  <2>. QED
    BY <1>6, <2>1, <2>4 DEF Signalling
<1>11. CASE TakesEnd(acc, line, next)
  <2>1. /\ line = W!Done(t) /\ next.delivered \subseteq acc.delivered \cup {t}
        /\ next.pending[f] = IF prompts THEN 0 ELSE p
        /\ \/ next.signals = acc.signals
           \/ \E d \in Signals1(acc, line) : next.signals = Append(acc.signals, d)
    BY <1>1, <1>11 DEF TakesEnd
  <2>2. DeliveredIn(f, c + 1, next.delivered)
    <3>1. own[c + 1] = W!Done(t)
      BY <1>1, <2>1
    <3>. QED
      BY <1>2, <1>6, <2>1, <3>1 DEF DeliveredIn
  <2>3. \A u \in H : line # W!Asked(u)
    BY <2>1, LinesDiffer
  <2>4. WaitsIn(f, c + 1, next.pending[f], H, U)
    <3>1. CASE prompts
      BY <1>1, <2>1, <2>3, <3>1 DEF WaitsIn
    <3>2. CASE ~prompts
      <4>1. line = W!Done(p) => p \in U
        BY <2>1, <3>2, LinesDiffer
      <4>. QED
        BY <1>8, <2>1, <2>3, <3>2, <4>1
    <3>. QED
      BY <3>1, <3>2
  <2>5. ASSUME prompts, t \in H PROVE p = t
    <3>1. PICK i \in 1 .. Len(own) : own[i] = W!Asked(t)
      BY <1>1, <2>5 DEF HeardIn
    <3>2. c + 1 = i + 1 /\ i \in Nat
      BY <1>1, <1>3, <2>1, <3>1
    <3>3. c >= 1 /\ own[c] = W!Asked(t)
      BY <3>1, <3>2
    <3>. QED
      BY <2>5, <3>3 DEF WaitsIn
  <2>6. ASSUME p \notin {0, t}, p \notin U PROVE LeftOver(p, f)
    <3>1. PICK i \in 1 .. c : own[i] = W!Asked(p)
      BY <1>4, <2>6
    <3>2. p \in Turns /\ FileOf[p] = f /\ i \in 1 .. Len(own) /\ i < Len(own)
      BY <1>1, <1>2, <1>4, <2>6
    <3>3. ASSUME NEW k \in 1 .. Len(own), own[k] = W!Done(p) PROVE FALSE
      <4>1. k = i + 1 /\ k \notin 1 .. c
        BY <1>3, <1>4, <2>6, <3>1, <3>2, <3>3
      <4>2. k = c + 1
        BY <4>1
      <4>3. W!Done(p) = W!Done(t)
        BY <1>1, <2>1, <3>3, <4>2
      <4>. QED
        BY <2>6, <4>3, LinesDiffer
    <3>. QED
      BY <3>1, <3>2, <3>3 DEF LeftOver
  <2>7. ASSUME NEW d \in Signals1(acc, line) PROVE d \in Signals /\ d.turn = t /\ IsOwn(d, H, U)
    <3>1. d \in Signals /\ d.turn = t /\ d.prompt = IF prompts THEN p ELSE 0
      BY <1>1 DEF Signals1
    <3>2. prompts /\ t \in H => d.prompt = t
      BY <2>5, <3>1
    <3>3. d.prompt \notin {0, t} => d.prompt = p
      BY <3>1
    <3>4. d.prompt \notin {0, t} => d.prompt \in U \/ LeftOver(d.prompt, f)
      BY <2>6, <3>3
    <3>. QED
      BY <1>1, <3>1, <3>2, <3>4 DEF IsOwn
  <2>8. Signalling(acc, next, t, H, U)
    BY <2>1, <2>7 DEF Signalling
  <2>. QED
    BY <2>2, <2>4, <2>8
<1>. QED
  BY <1>9, <1>10, <1>11

\* The rest of the files are as they were.
LEMMA LineElsewhere ==
    ASSUME NEW acc \in Gathered, NEW next \in Gathered, NEW line \in Lines,
           LeavesAll(acc, line, next) \/ TakesPrompt(acc, line, next) \/ TakesEnd(acc, line, next)
    PROVE  /\ \A g \in Files : g # FileOf[line.turn] => next.pending[g] = acc.pending[g]
           /\ next.delivered \subseteq acc.delivered \cup {line.turn}
           /\ \/ next.signals = acc.signals
              \/ \E d \in Signals : d.turn = line.turn /\ next.signals = Append(acc.signals, d)
<1>1. acc.pending \in [Files -> Turns \cup {0}] /\ FileOf[line.turn] \in Files
  BY LinesDiffer, Numbers DEF Gathered, PromptsByFile
<1>2. CASE LeavesAll(acc, line, next)
  BY <1>2 DEF LeavesAll
<1>3. CASE TakesPrompt(acc, line, next)
  BY <1>1, <1>3 DEF TakesPrompt
<1>4. CASE TakesEnd(acc, line, next)
  <2>1. /\ next.pending = IF prompts THEN [acc.pending EXCEPT ![FileOf[line.turn]] = 0] ELSE acc.pending
        /\ next.delivered \subseteq acc.delivered \cup {line.turn}
        /\ \/ next.signals = acc.signals
           \/ \E d \in Signals1(acc, line) : next.signals = Append(acc.signals, d)
    BY <1>4 DEF TakesEnd
  <2>2. \A g \in Files : g # FileOf[line.turn] => next.pending[g] = acc.pending[g]
    BY <1>1, <2>1
  <2>3. \A d \in Signals1(acc, line) : d \in Signals /\ d.turn = line.turn
    BY DEF Signals1
  <2>. QED
    BY <2>1, <2>2, <2>3
<1>. QED
  BY <1>2, <1>3, <1>4

\* What a poll has gathered fits the places it has reached in the files.
OwnSignals(signals, H, U) ==
    \A k \in 1 .. Len(signals) :
        FileOf[signals[k].turn] \notin disturbed => IsOwn(signals[k], H, U)
PlacesFit(acc, place, H, U) ==
    \A f \in Files \ disturbed :
        DeliveredIn(f, place[f], acc.delivered) /\ WaitsIn(f, place[f], acc.pending[f], H, U)
Unasked(line, H, U) ==
    /\ line.turn \in U
    /\ line = W!Asked(line.turn) => line.turn \notin H

LEMMA OneMoreSignal ==
    ASSUME NEW signals \in Seq(Signals), NEW d \in Signals, NEW H, NEW U, OwnSignals(signals, H, U),
           FileOf[d.turn] \notin disturbed => IsOwn(d, H, U)
    PROVE  OwnSignals(Append(signals, d), H, U)
<1>1. PICK q : q = Append(signals, d)
  OBVIOUS
<1>2. /\ Len(signals) \in Nat /\ Len(q) = Len(signals) + 1
      /\ \A i \in 1 .. Len(signals) : q[i] = signals[i]
      /\ q[Len(signals) + 1] = d
  BY <1>1, AppendIs
<1>3. ASSUME NEW k \in 1 .. Len(q), FileOf[q[k].turn] \notin disturbed PROVE IsOwn(q[k], H, U)
  <2>1. CASE k = Len(signals) + 1
    BY <1>2, <1>3, <2>1
  <2>2. CASE k \in 1 .. Len(signals)
    BY <1>2, <1>3, <2>2 DEF OwnSignals
  <2>. QED
    BY <1>2, <2>1, <2>2
<1>. QED
  BY <1>1, <1>3 DEF OwnSignals

LEMMA PollFits ==
    ASSUME FilesFit, WatchFits, AskedOnce, DoneOnce, NEW H \in SUBSET Turns, NEW U,
           \A f \in Files \ disturbed :
               /\ HeardIn(f, Len(lines[f]), H) /\ DeliveredIn(f, W!From(f), state.delivered)
               /\ WaitsIn(f, W!From(f), pending[f], H, U),
           prompts \/ \A k \in 1 .. Len(News) :
                          FileOf[News[k].turn] \notin disturbed => Unasked(News[k], H, U),
           NEW taken, taken = W!FoldLeft(W!TakeItem, Before, News)
    PROVE  /\ OwnSignals(taken.signals, H, U)
           /\ PlacesFit(taken, [f \in Files |-> W!From(f) + Len(W!NewLines(f))], H, U)
<1>1. PICK acc : /\ Gathers(acc, Len(News))
                 /\ acc[Len(News)] = taken
                 /\ \A i \in 0 .. Len(News) : acc[i] \in Gathered
  BY PollGathers
<1>2. PICK place : Reads(place)
  BY PollReads
<1>3. News \in Seq(Lines) /\ Len(News) \in Nat
  BY NewsFit, LenProperties
<1> DEFINE n == Len(News)
           Fine(k) == OwnSignals(acc[k].signals, H, U) /\ PlacesFit(acc[k], place[k], H, U)
           T == {k \in Nat : Fine(k)}
<1>4. 0 \in T
  <2>1. acc[0] = Before /\ Before.signals = <<>> /\ Before.delivered = state.delivered /\ Before.pending = pending
    BY <1>1 DEF Gathers, Before
  <2>2. \A f \in Files : place[0][f] = W!From(f)
    BY <1>2 DEF Reads
  <2>3. OwnSignals(<<>>, H, U)
    BY DEF OwnSignals
  <2>4. PlacesFit(acc[0], place[0], H, U)
    BY <2>1, <2>2 DEF PlacesFit
  <2>. QED
    BY <2>1, <2>3, <2>4
<1>5. ASSUME NEW k \in 1 .. n, k - 1 \in T PROVE k \in T
  <2>1. k \in Nat /\ k - 1 \in 0 .. n /\ k \in 0 .. n
    BY <1>3
  <2>2. PICK old \in Gathered : old = acc[k - 1]
    BY <1>1, <2>1
  <2>3. PICK next \in Gathered : next = acc[k]
    BY <1>1, <2>1
  <2>4. PICK line \in Lines : line = News[k]
    BY <1>3, ElementOfSeq
  <2>5. /\ OwnSignals(old.signals, H, U) /\ PlacesFit(old, place[k - 1], H, U)
        /\ next = W!TakeItem(old, line) /\ old.signals \in Seq(Signals)
    BY <1>1, <1>5, <2>2, <2>3, <2>4 DEF Gathers, Gathered
  <2>6. LeavesAll(old, line, next) \/ TakesPrompt(old, line, next) \/ TakesEnd(old, line, next)
    BY <2>5, TakeItemDoes
  <2>7. PICK f \in Files :
            /\ f \in here /\ FileOf[line.turn] = f
            /\ place[k][f] = place[k - 1][f] + 1
            /\ place[k][f] \in 1 .. Len(lines[f]) /\ lines[f][place[k][f]] = line
            /\ \A g \in Files : g # f => place[k][g] = place[k - 1][g]
    BY <1>2, <2>4 DEF Reads
  <2>8. PICK c \in Nat : c = place[k - 1][f]
    BY <1>2, <2>1 DEF Reads
  <2>9. /\ \A g \in Files : g # f => next.pending[g] = old.pending[g]
        /\ next.delivered \subseteq old.delivered \cup {line.turn}
        /\ \/ next.signals = old.signals
           \/ \E d \in Signals : d.turn = line.turn /\ next.signals = Append(old.signals, d)
    BY <2>6, <2>7, LineElsewhere
  <2>10. ASSUME f \notin disturbed
         PROVE  /\ DeliveredIn(f, c + 1, next.delivered) /\ WaitsIn(f, c + 1, next.pending[f], H, U)
                /\ Signalling(old, next, line.turn, H, U)
    <3>1. /\ DeliveredIn(f, c, old.delivered) /\ WaitsIn(f, c, old.pending[f], H, U)
          /\ HeardIn(f, Len(lines[f]), H)
      BY <2>5, <2>8, <2>10 DEF PlacesFit
    <3>2. prompts \/ (line.turn \in U /\ (line = W!Asked(line.turn) => line.turn \notin H))
      BY <2>4, <2>7, <2>10 DEF Unasked
    <3>3. c + 1 \in 1 .. Len(lines[f]) /\ line = lines[f][c + 1]
      BY <2>7, <2>8
    <3>. QED
      BY <2>6, <2>7, <3>1, <3>2, <3>3, LineFits
  <2>11. ASSUME NEW g \in Files \ disturbed
         PROVE  DeliveredIn(g, place[k][g], next.delivered) /\ WaitsIn(g, place[k][g], next.pending[g], H, U)
    <3>1. CASE g = f
      BY <2>7, <2>8, <2>10, <2>11, <3>1
    <3>2. CASE g # f
      <4>1. place[k][g] = place[k - 1][g] /\ next.pending[g] = old.pending[g]
        BY <2>7, <2>9, <3>2
      <4>2. DeliveredIn(g, place[k - 1][g], old.delivered) /\ WaitsIn(g, place[k - 1][g], old.pending[g], H, U)
        BY <2>5 DEF PlacesFit
      <4>3. DeliveredIn(g, place[k - 1][g], next.delivered)
        BY <2>7, <2>9, <3>2, <4>2 DEF DeliveredIn
      <4>. QED
        BY <4>1, <4>2, <4>3
    <3>. QED
      BY <3>1, <3>2
  <2>12. OwnSignals(next.signals, H, U)
    <3>1. CASE next.signals = old.signals
      BY <2>5, <3>1
    <3>2. CASE f \in disturbed
      <4>1. ASSUME NEW d \in Signals, d.turn = line.turn, next.signals = Append(old.signals, d)
            PROVE  OwnSignals(next.signals, H, U)
        BY <2>5, <2>7, <3>2, <4>1, OneMoreSignal
      <4>. QED
        BY <2>9, <3>1, <4>1
    <3>3. CASE f \notin disturbed
      <4>1. ASSUME NEW d \in Signals, IsOwn(d, H, U), next.signals = Append(old.signals, d)
            PROVE  OwnSignals(next.signals, H, U)
        BY <2>5, <4>1, OneMoreSignal
      <4>. QED
        BY <2>10, <3>1, <3>3, <4>1 DEF Signalling
    <3>. QED
      BY <3>2, <3>3
  <2>13. Fine(k)
    BY <2>3, <2>11, <2>12 DEF PlacesFit
  <2>. QED
    BY <2>1, <2>13
<1>6. n \in 0 .. n
  BY <1>3
<1> HIDE DEF T, n
<1>7. n \in T
  BY <1>3, <1>4, <1>5, <1>6, UpTo DEF n
<1>8. OwnSignals(taken.signals, H, U) /\ PlacesFit(taken, place[Len(News)], H, U)
  BY <1>1, <1>7 DEF T, n
<1>9. \A f \in Files : place[Len(News)][f] = W!From(f) + Len(W!NewLines(f))
  BY <1>2 DEF Reads
<1>. QED
  BY <1>8, <1>9 DEF PlacesFit

\* The turns of what is new.
LEMMA NewTurnsAre ==
    ASSUME FilesFit, WatchFits, NEW kind
    PROVE  /\ \A u \in W!NewTurns(kind) :
                  /\ u \in Turns
                  /\ \E i \in 1 .. Len(lines[FileOf[u]]) :
                         /\ i > W!From(FileOf[u]) /\ lines[FileOf[u]][i].turn = u
                         /\ lines[FileOf[u]][i].is \in kind
           /\ \A f \in Files : \A j \in 1 .. Len(W!NewLines(f)) :
                  W!NewLines(f)[j].is \in kind => W!NewLines(f)[j].turn \in W!NewTurns(kind)
<1>1. ASSUME NEW u \in W!NewTurns(kind)
      PROVE  /\ u \in Turns
             /\ \E i \in 1 .. Len(lines[FileOf[u]]) :
                    /\ i > W!From(FileOf[u]) /\ lines[FileOf[u]][i].turn = u
                    /\ lines[FileOf[u]][i].is \in kind
  <2>1. PICK f \in Files : \E j \in 1 .. Len(W!NewLines(f)) :
            W!NewLines(f)[j].is \in kind /\ W!NewLines(f)[j].turn = u
    BY <1>1, SameFiles DEF W!NewTurns, W!ToSet
  <2>2. PICK j \in 1 .. Len(W!NewLines(f)) : W!NewLines(f)[j].is \in kind /\ W!NewLines(f)[j].turn = u
    BY <2>1
  <2>3. /\ W!From(f) \in Nat /\ W!From(f) + j \in 1 .. Len(lines[f])
        /\ W!NewLines(f)[j] = lines[f][W!From(f) + j]
    BY NewIs
  <2>4. PICK i \in 1 .. Len(lines[f]) : i = W!From(f) + j
    BY <2>3
  <2>5. j \in Nat /\ j >= 1 /\ lines[f][i] \in Lines /\ FileOf[u] = f
    <3>1. W!NewLines(f) \in Seq(Lines) /\ lines[f] \in Seq(Lines)
      BY NewLinesFit, LinesAre
    <3>2. j \in Nat /\ j >= 1
      BY <3>1, LenProperties
    <3>3. lines[f][i].turn = u
      BY <2>2, <2>3, <2>4
    <3>. QED
      BY <3>1, <3>2, <3>3, ElementOfSeq DEF FilesFit, OwnLines
  <2>6. i > W!From(f) /\ lines[f][i].turn = u /\ lines[f][i].is \in kind
    BY <2>2, <2>3, <2>4, <2>5
  <2>. QED
    BY <2>5, <2>6, LinesDiffer
<1>2. ASSUME NEW f \in Files, NEW j \in 1 .. Len(W!NewLines(f)), W!NewLines(f)[j].is \in kind
      PROVE  W!NewLines(f)[j].turn \in W!NewTurns(kind)
  BY <1>2, SameFiles DEF W!NewTurns, W!ToSet
<1>. QED
  BY <1>1, <1>2

----------------------------------------------------------------------------
\* The prompts that the watch keeps.

\* The prompts that the loop goes on with.
Waits == IF watch = "routing" THEN batch.pending ELSE pending

PromptsOf(f) ==
    /\ DeliveredIn(f, watchSaved.offset[f], watchSaved.delivered)
    /\ DeliveredIn(f, Reached.offset[f], Reached.delivered)
    /\ watch # "off" => /\ WaitsIn(f, Reached.offset[f], Waits[f], heard, unheard)
                        /\ HeardIn(f, Reached.offset[f], heard)
PromptsFit ==
    /\ heard \subseteq Turns
    /\ watch = "off" => pending = W!NoPrompts /\ heard = {}
    /\ OwnSignals(batch.signals, heard, unheard)
    /\ \A f \in Files \ disturbed : PromptsOf(f)

LEMMA NothingIsOwn == \A H, U : OwnSignals(W!NoBatch.signals, H, U)
<1>1. W!NoBatch.signals = <<>>
  BY DEF W!NoBatch
<1>. QED
  BY <1>1 DEF OwnSignals

\* A poll reads the lines beyond the offset of an undisturbed file to its end.
LEMMA PollEnds ==
    ASSUME FilesFit, WatchFits, LoopFits, state = watchSaved, NEW f \in Files \ disturbed
    PROVE  /\ W!From(f) = watchSaved.offset[f] /\ watchSaved.offset[f] \in Nat
           /\ W!From(f) + Len(W!NewLines(f)) = Len(lines[f])
           /\ W!NextOffset(f) = Len(lines[f])
<1>1. /\ lines[f] \in Seq(Lines) /\ Len(lines[f]) \in Nat /\ f \in here
      /\ watchSaved.offset[f] \in Nat /\ watchSaved.offset[f] <= Len(lines[f])
  BY LinesAre DEF WatchFits, WatchStates, LoopFits
<1>2. PICK a \in Nat : a = watchSaved.offset[f]
  BY <1>1
<1>3. W!From(f) = a /\ a <= Len(lines[f])
  BY <1>1, <1>2 DEF W!From
<1>4. W!NewLines(f) = SubSeq(lines[f], a + 1, Len(lines[f]))
  BY <1>1, <1>3 DEF W!NewLines
<1>5. \A i \in a + 1 .. Len(lines[f]) : lines[f][i] \in Lines
  BY <1>1, <1>2, ElementOfSeq
<1>6. Len(SubSeq(lines[f], a + 1, Len(lines[f]))) =
          IF a + 1 <= Len(lines[f]) THEN Len(lines[f]) - (a + 1) + 1 ELSE 0
  BY <1>1, <1>2, <1>5, SubSeqProperties
<1>7. Len(W!NewLines(f)) = Len(lines[f]) - a
  BY <1>1, <1>3, <1>4, <1>6
<1>8. W!NewLines(f) = <<>> => Len(W!NewLines(f)) = 0
  OBVIOUS
<1>9. W!NextOffset(f) = Len(lines[f])
  <2>1. CASE W!NewLines(f) = <<>>
    BY <1>1, <1>2, <1>7, <1>8, <2>1 DEF W!NextOffset
  <2>2. CASE W!NewLines(f) # <<>>
    BY <2>2 DEF W!NextOffset
  <2>. QED
    BY <2>1, <2>2
<1>. QED
  BY <1>1, <1>2, <1>3, <1>7, <1>9

LEMMA ReadingKeepsPrompts ==
    ASSUME FilesFit, WatchFits, WatchInv, AskedOnce, PromptsFit, W!ReadFiles
    PROVE  PromptsFit'
<1>1. PICK taken : taken = W!FoldLeft(W!TakeItem, Before, News)
  OBVIOUS
<1>2. /\ batch' = [signals |-> taken.signals,
                   next    |-> [offset    |-> [f \in W!Files |-> W!NextOffset(f)],
                                delivered |-> taken.delivered],
                   pending |-> taken.pending]
      /\ watch = "indexed" /\ watch' = "routing"
      /\ heard' = IF prompts THEN heard \cup W!NewTurns({"asked"}) ELSE heard
      /\ unheard' = IF prompts THEN unheard ELSE unheard \cup W!NewTurns({"asked", "done"})
      /\ UNCHANGED <<lines, here, prompts, pending, watchSaved, disturbed>>
  BY <1>1 DEF W!ReadFiles, News, Before, W!fileVars
<1>3. /\ DoneOnce /\ LoopFits /\ state = watchSaved /\ Reached = watchSaved /\ Waits = pending
      /\ heard \subseteq Turns
      /\ \A f \in Files \ disturbed :
             /\ DeliveredIn(f, watchSaved.offset[f], watchSaved.delivered)
             /\ WaitsIn(f, watchSaved.offset[f], pending[f], heard, unheard)
             /\ HeardIn(f, watchSaved.offset[f], heard)
  <2>1. DoneOnce /\ LoopFits /\ state = watchSaved /\ Reached = watchSaved /\ Waits = pending
    BY <1>2 DEF WatchInv, LoopFits, Reached, Waits
  <2>. QED
    BY <1>2, <2>1 DEF PromptsFit, PromptsOf
<1>4. ASSUME NEW f \in Files \ disturbed
      PROVE  /\ W!From(f) = watchSaved.offset[f] /\ watchSaved.offset[f] \in Nat
             /\ W!From(f) <= Len(lines[f]) /\ Len(lines[f]) \in Nat
             /\ W!From(f) + Len(W!NewLines(f)) = Len(lines[f]) /\ W!NextOffset(f) = Len(lines[f])
  BY <1>3, PollEnds, LinesAre DEF LoopFits
<1>5. ASSUME NEW u \in W!NewTurns({"asked"})
      PROVE  u \in Turns /\ \E i \in 1 .. Len(lines[FileOf[u]]) :
                                i > W!From(FileOf[u]) /\ lines[FileOf[u]][i] = W!Asked(u)
  <2>1. u \in Turns /\ \E i \in 1 .. Len(lines[FileOf[u]]) :
            /\ i > W!From(FileOf[u]) /\ lines[FileOf[u]][i].turn = u
            /\ lines[FileOf[u]][i].is \in {"asked"}
    BY NewTurnsAre
  <2>2. FileOf[u] \in Files
    BY <2>1, Numbers
  <2>3. \A i \in 1 .. Len(lines[FileOf[u]]) : lines[FileOf[u]][i] \in Lines
    BY <2>2, LinesAre, ElementOfSeq
  <2>4. PICK i \in 1 .. Len(lines[FileOf[u]]) :
            /\ i > W!From(FileOf[u]) /\ lines[FileOf[u]][i].turn = u
            /\ lines[FileOf[u]][i].is \in {"asked"}
    BY <2>1
  <2>5. lines[FileOf[u]][i] = W!Asked(u)
    BY <2>3, <2>4, LinesDiffer
  <2>. QED
    BY <2>1, <2>4, <2>5
<1>6. PICK H : H = heard'
  OBVIOUS
<1>7. PICK U : U = unheard'
  OBVIOUS
<1>8. H \in SUBSET Turns /\ heard \subseteq H /\ unheard \subseteq U
      /\ \A u \in H : u \in heard \/ u \in W!NewTurns({"asked"})
  BY <1>2, <1>3, <1>5, <1>6, <1>7
<1>9. ASSUME NEW f \in Files \ disturbed
      PROVE  /\ HeardIn(f, Len(lines[f]), H) /\ DeliveredIn(f, W!From(f), state.delivered)
             /\ WaitsIn(f, W!From(f), pending[f], H, U)
  <2>1. PICK c \in Nat : c = W!From(f) /\ c = watchSaved.offset[f] /\ c <= Len(lines[f])
    BY <1>4
  <2>2. Len(lines[f]) \in Nat /\ \A i \in 1 .. c : i \in 1 .. Len(lines[f])
    BY <1>4, <2>1
  <2>3. DeliveredIn(f, c, state.delivered) /\ WaitsIn(f, c, pending[f], heard, unheard) /\ HeardIn(f, c, heard)
    BY <1>3, <2>1
  <2>4. HeardIn(f, Len(lines[f]), H)
    BY <1>5, <1>8, <2>2, <2>3 DEF HeardIn
  <2>5. ASSUME NEW t \in H, c >= 1, lines[f][c] = W!Asked(t) PROVE pending[f] = t
    <3>1. CASE t \in heard
      BY <2>3, <2>5, <3>1 DEF WaitsIn
    <3>2. CASE t \in W!NewTurns({"asked"})
      <4>1. t \in Turns /\ c \in 1 .. Len(lines[f])
        BY <1>5, <2>1, <2>2, <2>5, <3>2
      <4>2. FileOf[t] = f
        <5>1. FileOf[lines[f][c].turn] = f
          BY <4>1 DEF FilesFit, OwnLines
        <5>. QED
          BY <2>5, <5>1, LinesDiffer
      <4>3. PICK i \in 1 .. Len(lines[f]) : i > c /\ lines[f][i] = W!Asked(t)
        BY <1>5, <2>1, <3>2, <4>2
      <4>4. i = c
        BY <2>5, <4>1, <4>2, <4>3 DEF AskedOnce, AskedOf, SingleIn
      <4>. QED
        BY <2>1, <4>3, <4>4
    <3>. QED
      BY <1>8, <3>1, <3>2
  <2>6. WaitsIn(f, c, pending[f], H, U)
    BY <1>8, <2>3, <2>5 DEF WaitsIn
  <2>. QED
    BY <2>1, <2>3, <2>4, <2>6
<1>10. prompts \/ \A k \in 1 .. Len(News) :
                      FileOf[News[k].turn] \notin disturbed => Unasked(News[k], H, U)
  <2> SUFFICES ASSUME ~prompts, NEW k \in 1 .. Len(News), FileOf[News[k].turn] \notin disturbed
               PROVE  Unasked(News[k], H, U)
    OBVIOUS
  <2>1. PICK place : Reads(place)
    BY PollReads
  <2>2. PICK line \in Lines : line = News[k]
    BY NewsFit, ElementOfSeq
  <2>3. PICK f \in Files :
            /\ FileOf[line.turn] = f
            /\ place[k][f] \in 1 .. Len(lines[f]) /\ lines[f][place[k][f]] = line
            /\ W!From(f) < place[k][f]
            /\ \E j \in 1 .. Len(W!NewLines(f)) : W!NewLines(f)[j] = line
    BY <2>1, <2>2 DEF Reads
  <2>4. PICK i \in 1 .. Len(lines[f]) : i > W!From(f) /\ lines[f][i] = line
    <3>1. PICK i \in 1 .. Len(lines[f]) : i = place[k][f]
      BY <2>3
    <3>2. i \in Nat /\ W!From(f) \in Nat /\ W!From(f) < i
      BY <1>4, <2>2, <2>3, <3>1
    <3>. QED
      BY <2>3, <3>1, <3>2
  <2>5. line.turn \in U
    <3>1. line.is \in {"asked", "done"}
      BY LinesDiffer
    <3>2. line.turn \in W!NewTurns({"asked", "done"})
      BY <2>3, <3>1, NewTurnsAre
    <3>. QED
      BY <1>2, <1>7, <3>2
  <2>6. ASSUME line = W!Asked(line.turn), line.turn \in H PROVE FALSE
    <3>1. line.turn \in heard /\ line.turn \in Turns
      BY <1>2, <1>6, <2>6, LinesDiffer
    <3>2. PICK c \in Nat : c = W!From(f) /\ c = watchSaved.offset[f] /\ c <= Len(lines[f])
      BY <1>4, <2>2, <2>3
    <3>3. HeardIn(f, c, heard)
      BY <1>3, <2>2, <2>3, <3>2
    <3>4. PICK m \in 1 .. c : lines[f][m] = W!Asked(line.turn)
      BY <2>3, <3>1, <3>3 DEF HeardIn
    <3>5. m \in 1 .. Len(lines[f]) /\ m < i
      BY <1>4, <2>2, <2>3, <2>4, <3>2
    <3>6. SingleIn(lines[f], W!Asked(line.turn))
      BY <2>3, <3>1 DEF AskedOnce, AskedOf
    <3>7. m = i
      BY <2>4, <2>6, <3>4, <3>5, <3>6 DEF SingleIn
    <3>. QED
      BY <3>5, <3>7
  <2>. QED
    BY <2>2, <2>5, <2>6 DEF Unasked
<1>11. /\ OwnSignals(taken.signals, H, U)
       /\ PlacesFit(taken, [f \in Files |-> W!From(f) + Len(W!NewLines(f))], H, U)
  BY <1>1, <1>3, <1>8, <1>9, <1>10, PollFits
<1>12. ASSUME NEW f \in Files \ disturbed
       PROVE  /\ DeliveredIn(f, Len(lines[f]), taken.delivered)
              /\ WaitsIn(f, Len(lines[f]), taken.pending[f], H, U)
  BY <1>4, <1>11 DEF PlacesFit
<1>13. /\ Reached'.delivered = taken.delivered /\ Waits' = taken.pending /\ batch'.signals = taken.signals
       /\ \A f \in Files \ disturbed : Reached'.offset[f] = Len(lines[f])
  <2>1. /\ batch'.next.delivered = taken.delivered /\ batch'.pending = taken.pending
        /\ batch'.signals = taken.signals
        /\ batch'.next.offset = [f \in Files |-> W!NextOffset(f)]
    BY <1>2, SameFiles
  <2>2. Reached' = batch'.next /\ Waits' = batch'.pending
    BY <1>2 DEF Reached, Waits
  <2>. QED
    BY <1>4, <2>1, <2>2
<1>14. OwnSignals(batch.signals, heard, unheard)'
  <2>1. PICK S : S = taken.signals
    OBVIOUS
  <2>2. \A k \in 1 .. Len(S) : FileOf[S[k].turn] \notin disturbed => IsOwn(S[k], H, U)
    BY <1>11, <2>1 DEF OwnSignals
  <2>3. /\ batch'.signals = S /\ heard' = H /\ unheard' = U
        /\ disturbed' = disturbed /\ lines' = lines /\ prompts' = prompts
    BY <1>2, <1>6, <1>7, <1>13, <2>1
  <2>4. ASSUME NEW k \in 1 .. Len(S), FileOf[S[k].turn] \notin disturbed
        PROVE  IsOwn(batch.signals[k], heard, unheard)'
    BY <2>2, <2>3, <2>4 DEF IsOwn, LeftOver, W!Done, W!Asked
  <2>. QED
    BY <2>3, <2>4 DEF OwnSignals, IsOwn, LeftOver, W!Done, W!Asked
<1>15. ASSUME NEW f \in Files \ disturbed PROVE PromptsOf(f)'
  <2>1. DeliveredIn(f, watchSaved.offset[f], watchSaved.delivered)'
    BY <1>2, <1>3 DEF DeliveredIn, W!Done
  <2>2. DeliveredIn(f, Reached.offset[f], Reached.delivered)'
    BY <1>2, <1>12, <1>13 DEF DeliveredIn, W!Done
  <2>3. WaitsIn(f, Reached.offset[f], Waits[f], heard, unheard)'
    <3>1. WaitsIn(f, Len(lines[f]), taken.pending[f], H, U)
      BY <1>12
    <3>2. /\ Reached'.offset[f] = Len(lines[f]) /\ Waits'[f] = taken.pending[f] /\ lines' = lines
          /\ heard' = H /\ unheard' = U
      BY <1>2, <1>6, <1>7, <1>13
    <3>. QED
      BY <3>1, <3>2 DEF WaitsIn, W!Done, W!Asked
  <2>4. HeardIn(f, Reached.offset[f], heard)'
    <3>1. HeardIn(f, Len(lines[f]), H)
      BY <1>9
    <3>2. Reached'.offset[f] = Len(lines[f]) /\ lines' = lines /\ heard' = H
      BY <1>2, <1>6, <1>13
    <3>. QED
      BY <3>1, <3>2 DEF HeardIn, W!Asked
  <2>. QED
    BY <2>1, <2>2, <2>3, <2>4 DEF PromptsOf
<1>. QED
  BY <1>2, <1>6, <1>8, <1>14, <1>15 DEF PromptsFit

\* The world leaves the prompts that the watch keeps; whether they are asked for changes
\* only between the polls.
LEMMA WorldLeavesPrompts ==
    WatchMoves => \/ WatchActs
                  \/ UNCHANGED <<pending, heard, unheard>> /\ (prompts' = prompts \/ watch # "routing")
<1> SUFFICES ASSUME WatchMoves, ~WatchActs
             PROVE  UNCHANGED <<pending, heard, unheard>> /\ (prompts' = prompts \/ watch # "routing")
  OBVIOUS
<1>1. ASSUME NEW t \in Turns, W!RecordReplyTurn(t) \/ W!Ask(t) \/ W!BeginLine(t)
      PROVE  UNCHANGED <<pending, heard, unheard, prompts>>
  BY <1>1 DEF W!RecordReplyTurn, W!Ask, W!BeginLine, W!watchVars, W!historyVars, W!promptVars
<1>2. ASSUME NEW f \in Files, W!FinishLine(f) \/ W!Disappear(f) \/ W!Reappear(f)
      PROVE  UNCHANGED <<pending, heard, unheard, prompts>>
  BY <1>2 DEF W!FinishLine, W!Disappear, W!Reappear, W!watchVars, W!historyVars, W!promptVars
<1>3. ASSUME NEW f \in Files, NEW k \in 0 .. 2 * NumTurns, W!Rewrite(f, k)
      PROVE  UNCHANGED <<pending, heard, unheard, prompts>>
  BY <1>3 DEF W!Rewrite, W!watchVars, W!promptVars
<1>4. CASE W!SwitchPrompts
  BY <1>4 DEF W!SwitchPrompts, W!watchVars, W!historyVars, W!promptVars
<1>5. CASE UNCHANGED watcherVars
  BY <1>5 DEF watcherVars
<1>. QED
  BY <1>1, <1>2, <1>3, <1>4, <1>5, SameFiles DEF WatchMoves, W!Next, W!WatchStep, WatchActs

\* What is so at a place of a file that grows remains so.
LEMMA PlacesStay ==
    ASSUME NEW f \in Files, Grows(f), NEW c \in Nat, c <= Len(lines[f]), Len(lines[f]) \in Nat,
           NEW D, NEW p, NEW H, NEW U
    PROVE  /\ DeliveredIn(f, c, D) => DeliveredIn(f, c, D)'
           /\ WaitsIn(f, c, p, H, U) => WaitsIn(f, c, p, H, U)'
           /\ HeardIn(f, c, H) => HeardIn(f, c, H)'
<1>1. \A i \in 1 .. c : lines'[f][i] = lines[f][i]
  BY DEF Grows
<1>2. c >= 1 => c \in 1 .. c
  OBVIOUS
<1>3. DeliveredIn(f, c, D) => DeliveredIn(f, c, D)'
  BY <1>1 DEF DeliveredIn, W!Done
<1>4. HeardIn(f, c, H) => HeardIn(f, c, H)'
  BY <1>1 DEF HeardIn, W!Asked
<1>5. WaitsIn(f, c, p, H, U) => WaitsIn(f, c, p, H, U)'
  BY <1>1, <1>2 DEF WaitsIn, W!Asked, W!Done
<1>. QED
  BY <1>3, <1>4, <1>5

\* A prompt that was left over stays so, however the file grows.
LEMMA LeftOverStays ==
    ASSUME NEW f \in Files, Grows(f), AskedOnce', Len(lines[f]) \in Nat, Len(lines'[f]) \in Nat,
           NEW p \in Turns, LeftOver(p, f)
    PROVE  LeftOver(p, f)'
<1>1. /\ Len(lines[f]) <= Len(lines'[f]) /\ FileOf[p] = f
      /\ \A i \in 1 .. Len(lines[f]) : i \in 1 .. Len(lines'[f]) /\ lines'[f][i] = lines[f][i]
  BY DEF Grows, LeftOver
<1>2. PICK i \in 1 .. Len(lines[f]) : i < Len(lines[f]) /\ lines[f][i] = W!Asked(p)
  BY DEF LeftOver
<1>3. i \in 1 .. Len(lines'[f]) /\ i < Len(lines'[f]) /\ lines'[f][i] = W!Asked(p)
  BY <1>1, <1>2
<1>4. ASSUME NEW k \in 1 .. Len(lines'[f]), lines'[f][k] = W!Done(p) PROVE FALSE
  <2>1. AskedOf(p)'
    BY DEF AskedOnce
  <2>2. k = i + 1
    BY <1>1, <1>3, <1>4, <2>1 DEF AskedOf, W!Asked, W!Done
  <2>3. k \in 1 .. Len(lines[f])
    BY <1>2, <2>2
  <2>. QED
    BY <1>1, <1>4, <2>3 DEF LeftOver
<1>. QED
  BY <1>1, <1>3, <1>4 DEF LeftOver, W!Asked, W!Done

LEMMA StepKeepsPrompts ==
    FilesFit /\ WatchFits /\ WatchInv /\ AskedOnce /\ PromptsFit /\ WatchMoves => PromptsFit'
<1> SUFFICES ASSUME FilesFit, WatchFits, WatchInv, AskedOnce, PromptsFit, WatchMoves
             PROVE  PromptsFit'
  OBVIOUS
<1>0. DoneOnce /\ LoopFits /\ AskedOnce' /\ FilesFit' /\ \A f \in Files : Len(lines[f]) \in Nat
  BY StepKeepsAsked, StepKeepsFiles, LinesAre DEF WatchInv
<1>1. CASE ~WatchActs
  <2>1. /\ UNCHANGED WatchMemory /\ UNCHANGED <<pending, heard, unheard>>
        /\ prompts' = prompts \/ watch # "routing"
        /\ disturbed \subseteq disturbed' /\ \A f \in Files \ disturbed' : Grows(f)
    BY <1>0, <1>1, WatchOrWorld, WorldLeavesPrompts DEF Environment
  <2>2. /\ UNCHANGED <<watch, batch, watchSaved>> /\ Reached' = Reached /\ Waits' = Waits
    BY <2>1 DEF WatchMemory, Reached, Waits
  <2>3. ASSUME NEW f \in Files \ disturbed' PROVE PromptsOf(f)'
    <3>1. /\ Grows(f) /\ f \in Files /\ Len(lines[f]) \in Nat /\ PromptsOf(f)
          /\ watchSaved.offset[f] \in Nat /\ watchSaved.offset[f] <= Len(lines[f])
          /\ Reached.offset[f] \in Nat /\ Reached.offset[f] <= Len(lines[f])
      BY <1>0, <2>1 DEF PromptsFit, LoopFits, Reached, WatchFits, WatchStates, Batches
    <3>2. DeliveredIn(f, watchSaved.offset[f], watchSaved.delivered)'
      <4>1. PICK c \in Nat : c = watchSaved.offset[f]
        BY <3>1
      <4>2. PICK D : D = watchSaved.delivered
        OBVIOUS
      <4>3. DeliveredIn(f, c, D)'
        BY <3>1, <4>1, <4>2, PlacesStay DEF PromptsOf
      <4>. QED
        BY <2>2, <4>1, <4>2, <4>3 DEF DeliveredIn, W!Done
    <3>3. /\ DeliveredIn(f, Reached.offset[f], Reached.delivered)'
          /\ watch' # "off" => /\ WaitsIn(f, Reached.offset[f], Waits[f], heard, unheard)'
                               /\ HeardIn(f, Reached.offset[f], heard)'
      <4>1. PICK c \in Nat : c = Reached.offset[f]
        BY <3>1
      <4>2. PICK D : D = Reached.delivered
        OBVIOUS
      <4>3. PICK p : p = Waits[f]
        OBVIOUS
      <4>4. PICK H : H = heard
        OBVIOUS
      <4>5. PICK U : U = unheard
        OBVIOUS
      <4>6. /\ DeliveredIn(f, c, D)'
            /\ watch # "off" => WaitsIn(f, c, p, H, U)' /\ HeardIn(f, c, H)'
        BY <3>1, <4>1, <4>2, <4>3, <4>4, <4>5, PlacesStay DEF PromptsOf
      <4>7. DeliveredIn(f, Reached.offset[f], Reached.delivered)'
        BY <2>2, <4>1, <4>2, <4>6 DEF DeliveredIn, W!Done
      <4>8. watch' # "off" => HeardIn(f, Reached.offset[f], heard)'
        BY <2>1, <2>2, <4>1, <4>4, <4>6 DEF HeardIn, W!Asked
      <4>9. watch' # "off" => WaitsIn(f, Reached.offset[f], Waits[f], heard, unheard)'
        BY <2>1, <2>2, <4>1, <4>3, <4>4, <4>5, <4>6 DEF WaitsIn, W!Asked, W!Done
      <4>. QED
        BY <4>7, <4>8, <4>9
    <3>. QED
      BY <3>2, <3>3 DEF PromptsOf
  <2>4. OwnSignals(batch.signals, heard, unheard)'
    <3>1. CASE watch # "routing"
      <4>1. batch' = W!NoBatch
        BY <1>0, <2>2, <3>1 DEF LoopFits
      <4>2. W!NoBatch.signals = <<>>
        BY DEF W!NoBatch
      <4>. QED
        BY <4>1, <4>2 DEF OwnSignals
    <3>2. CASE watch = "routing"
      <4>1. prompts' = prompts /\ batch' = batch /\ heard' = heard /\ unheard' = unheard
        BY <2>1, <2>2, <3>2
      <4>2. PICK s \in Seq(Signals) : s = batch.signals
        BY DEF WatchFits, Batches
      <4>3. ASSUME NEW k \in 1 .. Len(s), FileOf[s[k].turn] \notin disturbed'
            PROVE  IsOwn(s[k], heard, unheard)'
        <5>1. s[k] \in Signals
          BY ElementOfSeq
        <5>2. PICK d \in Signals : d = s[k]
          BY <5>1
        <5>3. /\ IsOwn(d, heard, unheard) /\ FileOf[d.turn] \in Files \ disturbed'
              /\ d.prompt \in Turns \cup {0}
          BY <2>1, <4>2, <4>3, <5>2, Numbers DEF PromptsFit, OwnSignals, Signals
        <5>4. PICK f \in Files : f = FileOf[d.turn]
          BY <5>3
        <5>5. Grows(f) /\ Len(lines[f]) \in Nat /\ Len(lines'[f]) \in Nat
          <6>1. Len(lines'[f]) \in Nat
            BY <1>0, LenProperties DEF FilesFit
          <6>. QED
            BY <1>0, <2>1, <5>3, <5>4, <6>1
        <5>6. PICK p \in Turns \cup {0} : p = d.prompt
          BY <5>3
        <5>7. p \in Turns /\ LeftOver(p, f) => LeftOver(p, f)'
          BY <1>0, <5>5, LeftOverStays
        <5>8. LeftOver(d.prompt, FileOf[d.turn]) /\ d.prompt # 0 => LeftOver(d.prompt, FileOf[d.turn])'
          BY <5>4, <5>6, <5>7 DEF LeftOver, W!Asked, W!Done
        <5>9. /\ prompts' /\ d.turn \in heard' => d.prompt = d.turn
              /\ d.prompt \notin {0, d.turn} =>
                     d.prompt \in unheard' \/ LeftOver(d.prompt, FileOf[d.turn])'
          BY <4>1, <5>3, <5>8 DEF IsOwn
        <5>. QED
          BY <5>2, <5>9 DEF IsOwn, LeftOver, W!Asked, W!Done
      <4>4. batch'.signals = s
        BY <4>1, <4>2
      <4>. QED
        BY <4>3, <4>4 DEF OwnSignals, IsOwn, LeftOver, W!Asked, W!Done
    <3>. QED
      BY <3>1, <3>2
  <2>5. heard' \subseteq Turns /\ (watch' = "off" => pending' = W!NoPrompts /\ heard' = {})
    BY <2>1, <2>2 DEF PromptsFit
  <2>. QED
    BY <2>3, <2>4, <2>5 DEF PromptsFit, W!NoPrompts, W!Files
<1>2. CASE WatchActs
  <2>1. UNCHANGED <<lines, half, here, disturbed>>
    BY <1>2, ActsLeaveFiles
  \* In an unchanged file, it is what the watch keeps that counts.
  <2>2. ASSUME NEW f \in Files \ disturbed
        PROVE  /\ watchSaved.offset[f] \in Nat /\ watchSaved.offset[f] <= Len(lines[f])
               /\ DeliveredIn(f, watchSaved.offset[f], watchSaved.delivered)
               /\ DeliveredIn(f, Reached.offset[f], Reached.delivered)
               /\ watch # "off" => /\ WaitsIn(f, Reached.offset[f], Waits[f], heard, unheard)
                                   /\ HeardIn(f, Reached.offset[f], heard)
    BY <1>0 DEF PromptsFit, PromptsOf, LoopFits, WatchFits, WatchStates
  <2> DEFINE Same == UNCHANGED <<watchSaved, pending, heard, unheard, prompts>>
  <2>3. ASSUME Reached' = Reached, watchSaved' \in {watchSaved, Reached}, Waits' = Waits,
               heard' = heard, unheard' = unheard, watch # "off",
               OwnSignals(batch.signals, heard, unheard)',
               watch' # "off"
        PROVE  PromptsFit'
    <3>1. heard' \subseteq Turns
      BY <2>3 DEF PromptsFit
    <3>2. ASSUME NEW f \in Files \ disturbed' PROVE PromptsOf(f)'
      <4>1. f \in Files \ disturbed
        BY <2>1, <3>2
      <4>2. DeliveredIn(f, Reached.offset[f], Reached.delivered)'
        <5>1. PICK c, D : c = Reached.offset[f] /\ D = Reached.delivered
          OBVIOUS
        <5>2. DeliveredIn(f, c, D)'
          BY <2>1, <2>2, <4>1, <5>1 DEF DeliveredIn, W!Done
        <5>. QED
          BY <2>3, <5>1, <5>2 DEF DeliveredIn, W!Done
      <4>3. WaitsIn(f, Reached.offset[f], Waits[f], heard, unheard)'
        BY <2>1, <2>2, <2>3, <4>1 DEF WaitsIn, W!Done, W!Asked
      <4>4. HeardIn(f, Reached.offset[f], heard)'
        <5>1. PICK c, H : c = Reached.offset[f] /\ H = heard
          OBVIOUS
        <5>2. HeardIn(f, c, H)'
          BY <2>1, <2>2, <2>3, <4>1, <5>1 DEF HeardIn, W!Asked
        <5>. QED
          BY <2>3, <5>1, <5>2 DEF HeardIn, W!Asked
      <4>5. DeliveredIn(f, watchSaved.offset[f], watchSaved.delivered)'
        <5>1. CASE watchSaved' = Reached
          BY <2>3, <4>2, <5>1 DEF DeliveredIn, W!Done
        <5>2. CASE watchSaved' = watchSaved
          <6>1. PICK c, D : c = watchSaved.offset[f] /\ D = watchSaved.delivered
            OBVIOUS
          <6>2. DeliveredIn(f, c, D)'
            BY <2>1, <2>2, <4>1, <6>1 DEF DeliveredIn, W!Done
          <6>. QED
            BY <5>2, <6>1, <6>2 DEF DeliveredIn, W!Done
        <5>. QED
          BY <2>3, <5>1, <5>2
      <4>. QED
        BY <4>2, <4>3, <4>4, <4>5 DEF PromptsOf
    <3>. QED
      BY <2>3, <3>1, <3>2 DEF PromptsFit
  <2>4. ASSUME batch' = W!NoBatch PROVE OwnSignals(batch.signals, heard, unheard)'
    <3>1. W!NoBatch.signals = <<>>
      BY DEF W!NoBatch
    <3>. QED
      BY <2>4, <3>1 DEF OwnSignals
  <2>5. ASSUME watch' = "off", pending' = W!NoPrompts, heard' = {}, batch' = W!NoBatch,
               watchSaved' = watchSaved
        PROVE  PromptsFit'
    <3>1. Reached' = watchSaved'
      BY <2>5 DEF Reached
    <3>2. ASSUME NEW f \in Files \ disturbed' PROVE PromptsOf(f)'
      <4>1. DeliveredIn(f, watchSaved.offset[f], watchSaved.delivered)'
        <5>1. PICK c, D : c = watchSaved.offset[f] /\ D = watchSaved.delivered
          OBVIOUS
        <5>2. DeliveredIn(f, c, D) /\ lines' = lines
          BY <2>1, <2>2, <3>2, <5>1
        <5>3. DeliveredIn(f, c, D)'
          BY <5>2 DEF DeliveredIn, W!Done
        <5>. QED
          BY <2>5, <5>1, <5>3 DEF DeliveredIn, W!Done
      <4>2. DeliveredIn(f, Reached.offset[f], Reached.delivered)'
        BY <3>1, <4>1 DEF DeliveredIn, W!Done
      <4>. QED
        BY <2>5, <4>1, <4>2 DEF PromptsOf
    <3>. QED
      BY <2>4, <2>5, <3>2 DEF PromptsFit, W!NoPrompts, W!Files
  <2>6. CASE W!StartWatch
    <3>1. /\ watch = "off" /\ watch' = "ready" /\ UNCHANGED <<pending, batch, heard, unheard>>
          /\ watchSaved' = W!Baseline
      BY <2>6 DEF W!StartWatch, W!historyVars, W!promptVars
    <3>2. /\ W!Baseline.delivered = watchSaved.delivered
          /\ W!Baseline.offset = [f \in Files |-> IF f \in here THEN Len(lines[f]) ELSE watchSaved.offset[f]]
      BY SameFiles DEF W!Baseline, WatchFits, WatchStates
    <3>3. /\ pending' = W!NoPrompts /\ heard' = {} /\ batch' = W!NoBatch
          /\ Reached' = watchSaved' /\ Waits' = pending'
          /\ W!NoPrompts = [f \in Files |-> 0]
      BY <1>0, <3>1, SameFiles DEF PromptsFit, LoopFits, Reached, Waits, W!NoPrompts
    <3>4. ASSUME NEW f \in Files \ disturbed' PROVE PromptsOf(f)'
      <4>1. PICK c \in Nat : c = watchSaved'.offset[f] /\ watchSaved.offset[f] <= c
        BY <1>0, <2>1, <2>2, <3>1, <3>2, <3>4
      <4>2. \A i \in 1 .. watchSaved.offset[f] : i \in 1 .. c
        BY <2>1, <2>2, <3>4, <4>1
      <4>3. DeliveredIn(f, c, watchSaved'.delivered)
        BY <2>1, <2>2, <3>1, <3>2, <3>4, <4>2 DEF DeliveredIn
      <4>4. DeliveredIn(f, watchSaved.offset[f], watchSaved.delivered)'
        BY <2>1, <4>1, <4>3 DEF DeliveredIn, W!Done
      <4>5. DeliveredIn(f, Reached.offset[f], Reached.delivered)'
        BY <3>3, <4>4 DEF DeliveredIn, W!Done
      <4>6. Waits'[f] = 0 /\ heard' = {}
        BY <3>3, <3>4
      <4>7. WaitsIn(f, Reached.offset[f], Waits[f], heard, unheard)' /\ HeardIn(f, Reached.offset[f], heard)'
        BY <4>6 DEF WaitsIn, HeardIn
      <4>. QED
        BY <4>4, <4>5, <4>7 DEF PromptsOf
    <3>. QED
      BY <2>4, <3>1, <3>3, <3>4 DEF PromptsFit
  <2>7. CASE W!StopWatch
    <3>1. /\ watch = "ready" /\ watch' = "off" /\ batch' = batch
          /\ watchSaved' = state /\ pending' = W!NoPrompts /\ heard' = {}
      BY <2>7 DEF W!StopWatch
    <3>2. watchSaved' = watchSaved /\ batch' = W!NoBatch
      BY <1>0, <3>1 DEF LoopFits
    <3>. QED
      BY <2>5, <3>1, <3>2
  <2>8. CASE W!ReadIndex
    <3>1. /\ watch = "ready" /\ watch' = "indexed"
          /\ UNCHANGED <<pending, batch, watchSaved, heard, unheard>>
      BY <2>8 DEF W!ReadIndex, W!historyVars, W!promptVars
    <3>2. Reached' = Reached /\ Waits' = Waits /\ batch' = W!NoBatch
      BY <1>0, <3>1 DEF Reached, Waits, LoopFits
    <3>. QED
      BY <2>3, <2>4, <3>1, <3>2
  <2>9. CASE W!ReadFiles
    BY <2>9, ReadingKeepsPrompts
  <2>10. CASE W!RouteNext
    <3>1. PICK s \in Seq(Signals) : s = batch.signals
      BY DEF WatchFits, Batches
    <3>2. /\ s # <<>> /\ batch' = [batch EXCEPT !.signals = Tail(s)] /\ watch = "routing"
          /\ UNCHANGED <<watch, pending, watchSaved, heard, unheard, prompts>>
      BY <2>10, <3>1 DEF W!RouteNext, W!promptVars
    <3>3. batch'.signals = Tail(s) /\ batch'.next = batch.next /\ batch'.pending = batch.pending
      BY <3>2 DEF WatchFits, Batches
    <3>4. Reached' = Reached /\ Waits' = Waits
      BY <3>2, <3>3 DEF Reached, Waits
    <3>5. PICK q \in Seq(Signals) : q = Tail(s)
      BY <3>2, HeadTailProperties
    <3>6. \A i \in 1 .. Len(q) : q[i] = s[i + 1] /\ i + 1 \in 1 .. Len(s)
      <4>1. Len(q) = Len(s) - 1 /\ Len(s) \in Nat /\ \A i \in 1 .. Len(q) : q[i] = s[i + 1]
        BY <3>2, <3>5, HeadTailProperties, LenProperties
      <4>. QED
        BY <4>1
    <3>7. OwnSignals(q, heard, unheard)
      BY <3>1, <3>6 DEF PromptsFit, OwnSignals
    <3>8. OwnSignals(batch.signals, heard, unheard)'
      <4>1. /\ batch'.signals = q /\ heard' = heard /\ unheard' = unheard
            /\ disturbed' = disturbed /\ lines' = lines /\ prompts' = prompts
        BY <2>1, <3>2, <3>3, <3>5
      <4>2. ASSUME NEW k \in 1 .. Len(q), FileOf[q[k].turn] \notin disturbed
            PROVE  IsOwn(batch.signals[k], heard, unheard)'
        <5>1. IsOwn(q[k], heard, unheard)
          BY <3>7, <4>2 DEF OwnSignals
        <5>. QED
          BY <4>1, <5>1 DEF IsOwn, LeftOver, W!Done, W!Asked
      <4>. QED
        BY <4>1, <4>2 DEF OwnSignals, IsOwn, LeftOver, W!Done, W!Asked
    <3>. QED
      BY <2>3, <3>2, <3>4, <3>8
  <2>11. CASE W!Commit
    <3>1. /\ watch = "routing" /\ watch' = "ready" /\ UNCHANGED <<heard, unheard>>
          /\ watchSaved' = batch.next /\ pending' = batch.pending /\ batch' = W!NoBatch
      BY <2>11 DEF W!Commit, W!Remember, W!historyVars, W!promptVars
    <3>2. Reached' = Reached /\ Waits' = Waits /\ watchSaved' = Reached
      BY <3>1 DEF Reached, Waits
    <3>. QED
      BY <2>3, <2>4, <3>1, <3>2
  <2>12. CASE W!Crash
    <3>1. /\ watch' = "off" /\ pending' = W!NoPrompts /\ heard' = {} /\ batch' = W!NoBatch
          /\ watchSaved' = watchSaved
      BY <2>12 DEF W!Crash
    <3>. QED
      BY <2>5, <3>1
  <2>. QED
    BY <1>2, <2>6, <2>7, <2>8, <2>9, <2>10, <2>11, <2>12 DEF WatchActs
<1>. QED
  BY <1>1, <1>2

LEMMA InitialPrompts == NotifyInit => AskedOnce /\ PromptsFit
<1> SUFFICES ASSUME NotifyInit PROVE AskedOnce /\ PromptsFit
  OBVIOUS
<1>1. /\ lines = [f \in Files |-> <<>>] /\ half = [f \in Files |-> 0] /\ watch = "off"
      /\ pending = W!NoPrompts /\ batch = W!NoBatch /\ watchSaved = W!NoState /\ heard = {}
  BY SameFiles DEF NotifyInit, W!Init
<1>2. AskedOnce
  <2>1. \A t \in Turns : FileOf[t] \in Files /\ t # 0 /\ lines[FileOf[t]] = <<>> /\ half[FileOf[t]] = 0
    BY <1>1, Numbers
  <2>. QED
    BY <2>1 DEF AskedOnce, AskedOf, SingleIn
<1>3. Reached.delivered = {} /\ watchSaved.delivered = {}
  BY <1>1 DEF Reached, W!NoState
<1>4. \A f \in Files : PromptsOf(f)
  BY <1>1, <1>3 DEF PromptsOf, DeliveredIn
<1>. QED
  BY <1>1, <1>2, <1>4, NothingIsOwn DEF PromptsFit

\* A turn is announced with the prompt that started it if this watch has read it, and
\* never with that of another turn, but for one that was left over: however the lines of
\* the files are spread over the polls, which of the turns are suppressed or evicted, and
\* wherever the watch stops, dies or begins anew.
THEOREM PromptsAreTheirOwn == NotifySpec => []PromptIsItsOwn
<1>1. FilesFit /\ WatchFits /\ WatchInv /\ PromptsFit => PromptIsItsOwn
  <2> SUFFICES ASSUME WatchFits, PromptsFit, NEW s \in W!ToSet(batch.signals), FileOf[s.turn] \notin disturbed
               PROVE  /\ prompts /\ s.turn \in heard => s.prompt = s.turn
                      /\ s.prompt \notin {0, s.turn} =>
                             s.prompt \in unheard \/ W!Done(s.prompt) \notin W!ToSet(lines[FileOf[s.turn]])
    BY DEF PromptIsItsOwn, W!PromptIsItsOwn
  <2>1. IsOwn(s, heard, unheard)
    BY DEF PromptsFit, OwnSignals, W!ToSet
  <2>2. LeftOver(s.prompt, FileOf[s.turn]) => W!Done(s.prompt) \notin W!ToSet(lines[FileOf[s.turn]])
    BY DEF LeftOver, W!ToSet
  <2>. QED
    BY <2>1, <2>2 DEF IsOwn
<1>2. FilesFit /\ WatchFits /\ WatchInv /\ AskedOnce /\ PromptsFit /\ [NotifyNext]_nvars
          => (AskedOnce /\ PromptsFit)'
  BY StepsOfWatch, StepKeepsAsked, StepKeepsPrompts
<1>. QED
  BY <1>1, <1>2, InitialPrompts, WatchHolds, PTL DEF NotifySpec
=============================================================================
