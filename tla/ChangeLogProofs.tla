--------------------------- MODULE ChangeLogProofs ---------------------------
(***************************************************************************)
(* Theorems about ChangeLog, for every set of events, every set of caps    *)
(* and every bound: its type invariant, SeqsIncreasing, GroupsContiguous,  *)
(* CompoundsInStep, CapHolds, AuditStable, FailedEditInvisible and         *)
(* EditIsOneGroup.                                                         *)
(*                                                                         *)
(* GroupsContiguous is not inductive: an event recorded into the current   *)
(* group could come after another group's.  RetainedOK adds what rules     *)
(* that out: once the current group has an entry, every later entry is in  *)
(* it too, and no entry has a group the log has yet to allocate.  Nor is   *)
(* CapHolds: CapKept adds that only a publication may exceed the cap.      *)
(***************************************************************************)
EXTENDS ChangeLog, SequenceTheorems, TLAPS

\* The retained entries r of a log that will number its next event `seq`,
\* allocate `gid` next and record into group `cur`.
RetainedOK(r, seq, gid, cur) ==
  /\ \A i, j \in DOMAIN r : i < j => r[i].seq < r[j].seq
  /\ \A i \in DOMAIN r : r[i].seq < seq
  /\ \A i \in DOMAIN r : r[i].group < gid
  /\ \A i, j, k \in DOMAIN r :
       r[i].group # NoGroup /\ r[i].group = r[k].group /\ i <= j /\ j <= k
         => r[j].group = r[i].group
  /\ \A i, j \in DOMAIN r :
       cur # NoGroup /\ r[i].group = cur /\ i <= j => r[j].group = cur

StackOK(l) ==
  /\ Len(l.stack) = l.depth
  /\ l.gid >= 1
  /\ \A i \in DOMAIN l.stack : /\ l.stack[i] = CurrentGroup(l)
                               /\ l.stack[i] \in 1..(l.gid - 1)

LogOK(l) ==
  /\ l \in Logs
  /\ StackOK(l)
  /\ RetainedOK(l.retained, l.seq, l.gid, CurrentGroup(l))

CapOK(l) == l.max # NoCap => Len(l.retained) <= l.max

\* Only a publication lets the log grow past its cap.
CapKept == mode # "publish" => CapOK(log)

\* Until a publication the edit has not touched the retained entries.
Untouched == mode \in {"edit", "discard"} => log.retained = before.retained

\* The inductive invariant.
IInv == TypeOK /\ LogOK(log) /\ CapKept /\ Untouched

-----------------------------------------------------------------------------
(* Facts about sequences of entries *)

\* A contiguous part of the retained entries is as good as the whole.
LEMMA SubRetained ==
  ASSUME NEW r \in Seq(Entries), NEW seq \in Nat, NEW gid \in Nat, NEW cur \in Nat,
         NEW m \in Nat \ {0}, NEW n \in Nat, n <= Len(r),
         RetainedOK(r, seq, gid, cur)
  PROVE  /\ SubSeq(r, m, n) \in Seq(Entries)
         /\ RetainedOK(SubSeq(r, m, n), seq, gid, cur)
         /\ Len(SubSeq(r, m, n)) = IF m <= n THEN n - m + 1 ELSE 0
         /\ \A i \in DOMAIN SubSeq(r, m, n) :
              \E j \in DOMAIN r : SubSeq(r, m, n)[i] = r[j]
<1> DEFINE s == SubSeq(r, m, n)
<1>1. \A i \in m..n : r[i] \in Entries
  BY ElementOfSeq, LenProperties
<1>2. /\ s \in Seq(Entries)
      /\ Len(s) = IF m <= n THEN n - m + 1 ELSE 0
      /\ \A i \in 1..(n - m + 1) : s[i] = r[m + i - 1]
  BY <1>1, SubSeqProperties
<1>3. DOMAIN s = 1..Len(s) /\ DOMAIN r = 1..Len(r) /\ Len(r) \in Nat
  BY <1>2, LenProperties
<1> HIDE DEF s
<1>4. \A i \in DOMAIN s : s[i] = r[m + i - 1] /\ m + i - 1 \in DOMAIN r /\ i \in Nat
  BY <1>2, <1>3
<1>5. RetainedOK(s, seq, gid, cur)
  <2>1. \A i, j \in DOMAIN s : i < j => s[i].seq < s[j].seq
    BY <1>4 DEF RetainedOK
  <2>2. /\ \A i \in DOMAIN s : s[i].seq < seq
        /\ \A i \in DOMAIN s : s[i].group < gid
    BY <1>4 DEF RetainedOK
  <2>3. \A i, j, k \in DOMAIN s :
          s[i].group # NoGroup /\ s[i].group = s[k].group /\ i <= j /\ j <= k
            => s[j].group = s[i].group
    <3> SUFFICES ASSUME NEW i \in DOMAIN s, NEW j \in DOMAIN s, NEW k \in DOMAIN s,
                        s[i].group # NoGroup, s[i].group = s[k].group,
                        i <= j, j <= k
                 PROVE  s[j].group = s[i].group
      OBVIOUS
    <3> DEFINE a == m + i - 1
               b == m + j - 1
               c == m + k - 1
    <3>1. /\ a \in DOMAIN r /\ b \in DOMAIN r /\ c \in DOMAIN r
          /\ a <= b /\ b <= c
          /\ s[i] = r[a] /\ s[j] = r[b] /\ s[k] = r[c]
      BY <1>4
    <3> HIDE DEF a, b, c
    <3>2. r[a].group # NoGroup /\ r[a].group = r[c].group /\ a <= b /\ b <= c
            => r[b].group = r[a].group
      BY <3>1 DEF RetainedOK
    <3> QED BY <3>1, <3>2
  <2>4. \A i, j \in DOMAIN s :
          cur # NoGroup /\ s[i].group = cur /\ i <= j => s[j].group = cur
    <3> SUFFICES ASSUME NEW i \in DOMAIN s, NEW j \in DOMAIN s,
                        cur # NoGroup, s[i].group = cur, i <= j
                 PROVE  s[j].group = cur
      OBVIOUS
    <3>1. m + i - 1 <= m + j - 1
      BY <1>4
    <3> QED BY <1>4, <3>1 DEF RetainedOK
  <2> QED BY <2>1, <2>2, <2>3, <2>4 DEF RetainedOK
<1> QED BY <1>2, <1>4, <1>5 DEF s

\* The counters may grow, and the current group may end or be a fresh one.
LEMMA RetainedMonotone ==
  ASSUME NEW r \in Seq(Entries), NEW seq \in Nat, NEW gid \in Nat, NEW cur \in Nat,
         NEW seq2 \in Nat, NEW gid2 \in Nat, NEW cur2 \in Nat,
         seq <= seq2, gid <= gid2, cur2 \in {cur, NoGroup} \/ cur2 >= gid,
         RetainedOK(r, seq, gid, cur)
  PROVE  RetainedOK(r, seq2, gid2, cur2)
<1>1. \A i \in DOMAIN r : r[i] \in Entries
  BY ElementOfSeq, LenProperties
<1>2. \A i \in DOMAIN r : r[i].seq \in Nat /\ r[i].group \in Nat
  BY <1>1 DEF Entries
<1> QED BY <1>2 DEF RetainedOK, NoGroup

\* What Stamp returns.
LEMMA StampProperties ==
  ASSUME NEW l \in Logs, NEW events \in Seq(Logged), CurrentGroup(l) \in Nat
  PROVE  /\ Stamp(l, events) \in Seq(Entries)
         /\ Len(Stamp(l, events)) = Len(events)
         /\ \A i \in 1..Len(events) :
              /\ Stamp(l, events)[i].seq = l.seq + i - 1
              /\ Stamp(l, events)[i].group = CurrentGroup(l)
<1>1. Len(events) \in Nat /\ l.seq \in Nat
  BY LenProperties DEF Logs
<1>2. \A i \in 1..Len(events) :
        [ev |-> events[i], seq |-> l.seq + i - 1, group |-> CurrentGroup(l)] \in Entries
  BY <1>1, ElementOfSeq DEF Entries
<1>3. Stamp(l, events) \in [1..Len(events) -> Entries]
  BY <1>2 DEF Stamp
<1>4. Stamp(l, events) \in Seq(Entries) /\ Len(Stamp(l, events)) = Len(events)
  BY <1>1, <1>3
<1> QED BY <1>4 DEF Stamp

\* Recording a block of events into the current group keeps the entries good.
LEMMA ConcatRetained ==
  ASSUME NEW l, LogOK(l), CurrentGroup(l) \in Nat, CurrentGroup(l) < l.gid,
         NEW events \in Seq(Logged)
  PROVE  /\ l.retained \o Stamp(l, events) \in Seq(Entries)
         /\ RetainedOK(l.retained \o Stamp(l, events), l.seq + Len(events),
                       l.gid, CurrentGroup(l))
         /\ \A i \in DOMAIN (l.retained \o Stamp(l, events)) :
              \/ \E j \in DOMAIN l.retained :
                   (l.retained \o Stamp(l, events))[i] = l.retained[j]
              \/ (l.retained \o Stamp(l, events))[i].seq >= l.seq
<1> DEFINE r == l.retained
           t == Stamp(l, events)
           s == r \o t
           n == Len(r)
           m == Len(events)
           g == CurrentGroup(l)
<1>1. /\ l \in Logs /\ r \in Seq(Entries) /\ l.seq \in Nat /\ l.gid \in Nat
      /\ RetainedOK(r, l.seq, l.gid, g)
  BY DEF LogOK, Logs
<1>2. /\ t \in Seq(Entries) /\ Len(t) = m
      /\ \A i \in 1..m : t[i].seq = l.seq + i - 1 /\ t[i].group = g
  BY <1>1, StampProperties
<1>3. /\ n \in Nat /\ m \in Nat /\ DOMAIN r = 1..n
      /\ \A i \in 1..n : r[i] \in Entries
  BY <1>1, LenProperties, ElementOfSeq
<1>a. g \in Nat /\ g < l.gid
  OBVIOUS
<1> HIDE DEF r, t, g
<1>b. /\ s \in Seq(Entries) /\ Len(s) = Len(r) + Len(t)
      /\ \A i \in 1..(Len(r) + Len(t)) :
           s[i] = IF i <= Len(r) THEN r[i] ELSE t[i - Len(r)]
  <2>1. r \in Seq(Entries) /\ t \in Seq(Entries)
    BY <1>1, <1>2
  <2> QED BY <2>1, ConcatProperties, Zenon
<1> HIDE DEF s, m
<1>4. /\ s \in Seq(Entries) /\ Len(s) = n + m /\ DOMAIN s = 1..(n + m)
      /\ \A i \in 1..(n + m) : s[i] = IF i <= n THEN r[i] ELSE t[i - n]
  BY <1>b, <1>2, LenProperties
<1> HIDE DEF n
<1>5. \A i \in 1..n : /\ s[i] = r[i] /\ i \in DOMAIN s
                      /\ s[i].seq \in Nat /\ s[i].group \in Nat
  BY <1>3, <1>4 DEF Entries
<1>6. \A i \in (n+1)..(n+m) : s[i].seq = l.seq + i - n - 1 /\ s[i].group = g
  <2> TAKE i \in (n+1)..(n+m)
  <2>1. i - n \in 1..m /\ ~(i <= n) /\ i \in 1..(n+m)
    BY <1>3
  <2> QED BY <2>1, <1>4, <1>2, <1>3, <1>1
<1>7. \A i \in DOMAIN s : i \in 1..n \/ i \in (n+1)..(n+m)
  BY <1>3, <1>4
<1>8. \A i, j \in DOMAIN s : i < j => s[i].seq < s[j].seq
  BY <1>1, <1>3, <1>5, <1>6, <1>7 DEF RetainedOK
<1>9. /\ \A i \in DOMAIN s : s[i].seq < l.seq + m
      /\ \A i \in DOMAIN s : s[i].group < l.gid
  <2> SUFFICES ASSUME NEW i \in DOMAIN s
               PROVE  s[i].seq < l.seq + m /\ s[i].group < l.gid
    OBVIOUS
  <2>1. CASE i \in 1..n
    <3>1. r[i].seq < l.seq /\ r[i].group < l.gid
      BY <2>1, <1>1, <1>3 DEF RetainedOK
    <3> QED BY <2>1, <3>1, <1>1, <1>3, <1>5
  <2>2. CASE i \in (n+1)..(n+m)
    BY <2>2, <1>1, <1>3, <1>6, <1>a
  <2> QED BY <1>7, <2>1, <2>2
<1>10. \A i, j \in DOMAIN s :
         g # NoGroup /\ s[i].group = g /\ i <= j => s[j].group = g
  BY <1>1, <1>3, <1>5, <1>6, <1>7 DEF RetainedOK
<1>11. \A i, j, k \in DOMAIN s :
         s[i].group # NoGroup /\ s[i].group = s[k].group /\ i <= j /\ j <= k
           => s[j].group = s[i].group
  <2> SUFFICES ASSUME NEW i \in DOMAIN s, NEW j \in DOMAIN s, NEW k \in DOMAIN s,
                      s[i].group # NoGroup, s[i].group = s[k].group,
                      i <= j, j <= k
               PROVE  s[j].group = s[i].group
    OBVIOUS
  <2>1. CASE k \in 1..n
    <3>1. i \in 1..n /\ j \in 1..n
      BY <2>1, <1>3, <1>4
    <3> QED BY <2>1, <3>1, <1>1, <1>3, <1>5 DEF RetainedOK
  <2>2. CASE k \in (n+1)..(n+m)
    BY <2>2, <1>6, <1>10
  <2> QED BY <1>7, <2>1, <2>2
<1>12. \A i \in DOMAIN s : (\E j \in DOMAIN r : s[i] = r[j]) \/ s[i].seq >= l.seq
  BY <1>1, <1>3, <1>5, <1>6, <1>7
<1> QED
  <2>1. RetainedOK(s, l.seq + m, l.gid, g)
    BY <1>8, <1>9, <1>10, <1>11 DEF RetainedOK
  <2> QED BY <2>1, <1>4, <1>12 DEF r, t, s, n, m, g

-----------------------------------------------------------------------------
(* The operations of the log keep a good log good. *)

\* What a step may do to the retained entries (the body of AuditStable).
Evolves(l, l2) ==
  \A i \in DOMAIN l2.retained :
    \/ \E j \in DOMAIN l.retained : l2.retained[i] = l.retained[j]
    \/ l2.retained[i].seq >= l.seq

\* l2 is a good log that l may become.
Step(l, l2) == LogOK(l2) /\ Evolves(l, l2) /\ l.seq <= l2.seq

\* Steps compose: an operation made of two log operations is a step.
LEMMA StepTransitive ==
  ASSUME NEW l, NEW l2, NEW l3, LogOK(l), Step(l, l2), Step(l2, l3)
  PROVE  Step(l, l3)
<1>1. /\ l.seq \in Nat /\ l2.seq \in Nat /\ l3.seq \in Nat
      /\ l3.retained \in Seq(Entries)
  BY DEF Step, LogOK, Logs
<1>2. \A i \in DOMAIN l3.retained : l3.retained[i] \in Entries
  BY <1>1, LenProperties, ElementOfSeq
<1>3. \A i \in DOMAIN l3.retained : l3.retained[i].seq \in Nat
  BY <1>2 DEF Entries
<1>4. Evolves(l, l3)
  BY <1>1, <1>3 DEF Step, Evolves
<1> QED BY <1>1, <1>4 DEF Step

\* The current group has been allocated, and is none exactly outside every
\* compound.
LEMMA CurrentGroupOK ==
  ASSUME NEW l, LogOK(l)
  PROVE  /\ CurrentGroup(l) \in Nat /\ CurrentGroup(l) < l.gid
         /\ CurrentGroup(l) = NoGroup <=> l.depth = 0
<1>1. l.stack \in Seq(Nat) /\ l.gid \in Nat /\ l.depth \in Nat
  BY DEF LogOK, Logs
<1>2. CASE l.stack = <<>>
  BY <1>1, <1>2 DEF LogOK, StackOK, CurrentGroup, NoGroup
<1>3. CASE l.stack # <<>>
  <2>1. Len(l.stack) \in Nat \ {0} /\ DOMAIN l.stack = 1..Len(l.stack)
    BY <1>1, <1>3, EmptySeq, LenProperties
  <2>2. Len(l.stack) \in DOMAIN l.stack
    BY <2>1
  <2>3. /\ l.stack[Len(l.stack)] \in 1..(l.gid - 1)
        /\ CurrentGroup(l) = l.stack[Len(l.stack)]
    BY <2>2, <1>3 DEF LogOK, StackOK, CurrentGroup
  <2> QED BY <1>1, <2>1, <2>3 DEF LogOK, StackOK, NoGroup
<1> QED BY <1>2, <1>3

\* A log that differs only in which of its entries it retains.
LEMMA ShrinkOK ==
  ASSUME NEW l, LogOK(l), NEW m \in Nat \ {0}, NEW n \in Nat, n <= Len(l.retained)
  PROVE  /\ Step(l, [l EXCEPT !.retained = SubSeq(@, m, n)])
         /\ Len([l EXCEPT !.retained = SubSeq(@, m, n)].retained)
              = IF m <= n THEN n - m + 1 ELSE 0
<1> DEFINE l2 == [l EXCEPT !.retained = SubSeq(@, m, n)]
<1>1. /\ l \in Logs /\ l.retained \in Seq(Entries) /\ l.seq \in Nat /\ l.gid \in Nat
      /\ CurrentGroup(l) \in Nat
      /\ RetainedOK(l.retained, l.seq, l.gid, CurrentGroup(l))
  BY CurrentGroupOK DEF LogOK, Logs
<1>2. /\ SubSeq(l.retained, m, n) \in Seq(Entries)
      /\ RetainedOK(SubSeq(l.retained, m, n), l.seq, l.gid, CurrentGroup(l))
      /\ Len(SubSeq(l.retained, m, n)) = IF m <= n THEN n - m + 1 ELSE 0
      /\ \A i \in DOMAIN SubSeq(l.retained, m, n) :
           \E j \in DOMAIN l.retained : SubSeq(l.retained, m, n)[i] = l.retained[j]
  <2> DEFINE r == l.retained
             seq == l.seq
             gid == l.gid
             cur == CurrentGroup(l)
  <2>1. /\ r \in Seq(Entries) /\ seq \in Nat /\ gid \in Nat /\ cur \in Nat
        /\ n <= Len(r) /\ RetainedOK(r, seq, gid, cur)
    BY <1>1
  <2> HIDE DEF r, seq, gid, cur
  <2>2. /\ SubSeq(r, m, n) \in Seq(Entries)
        /\ RetainedOK(SubSeq(r, m, n), seq, gid, cur)
        /\ Len(SubSeq(r, m, n)) = IF m <= n THEN n - m + 1 ELSE 0
        /\ \A i \in DOMAIN SubSeq(r, m, n) :
             \E j \in DOMAIN r : SubSeq(r, m, n)[i] = r[j]
    BY <2>1, SubRetained
  <2> QED BY <2>2 DEF r, seq, gid, cur
<1>3. /\ l2 \in Logs
      /\ l2.retained = SubSeq(l.retained, m, n)
      /\ l2.stack = l.stack /\ l2.depth = l.depth /\ l2.gid = l.gid /\ l2.seq = l.seq
  BY <1>1, <1>2 DEF Logs
<1> HIDE DEF l2
<1>4. CurrentGroup(l2) = CurrentGroup(l)
  BY <1>3 DEF CurrentGroup
<1>5. LogOK(l2)
  BY <1>2, <1>3, <1>4 DEF LogOK, StackOK
<1>6. Step(l, l2)
  BY <1>1, <1>2, <1>3, <1>5 DEF Step, Evolves
<1> QED BY <1>2, <1>3, <1>6 DEF l2

\* Eviction at the front keeps a good log good and brings it under its cap.
LEMMA EnforceCapOK ==
  ASSUME NEW l, LogOK(l)
  PROVE  Step(l, EnforceCap(l)) /\ CapOK(EnforceCap(l)) /\ EnforceCap(l).max = l.max
<1>1. /\ l \in Logs /\ l.max \in Nat \cup {NoCap} /\ Len(l.retained) \in Nat
      /\ l.seq \in Nat
  BY LenProperties DEF LogOK, Logs
<1>2. CASE l.max = NoCap \/ Len(l.retained) <= l.max
  <2>1. EnforceCap(l) = l
    BY <1>2 DEF EnforceCap
  <2>2. Step(l, l)
    BY <1>1 DEF Step, Evolves
  <2> QED BY <1>2, <2>1, <2>2 DEF CapOK
<1>3. CASE ~(l.max = NoCap \/ Len(l.retained) <= l.max)
  <2> DEFINE n == Len(l.retained)
             m == n - l.max + 1
             l2 == [l EXCEPT !.retained = SubSeq(@, m, n)]
  <2>1. EnforceCap(l) = l2
    BY <1>3 DEF EnforceCap
  <2>2. m \in Nat \ {0} /\ n \in Nat /\ l.max \in Nat
        /\ (IF m <= n THEN n - m + 1 ELSE 0) = l.max
    BY <1>1, <1>3
  <2>3. l2.max = l.max
    BY <1>1 DEF Logs
  <2> HIDE DEF n, m
  <2>4. Step(l, l2) /\ Len(l2.retained) = l.max
    <3>1. n <= Len(l.retained)
      BY <1>1 DEF n
    <3>2. /\ Step(l, l2)
          /\ Len(l2.retained) = IF m <= n THEN n - m + 1 ELSE 0
      BY <2>2, <3>1, ShrinkOK, Zenon
    <3> QED BY <2>2, <3>2
  <2> QED BY <2>1, <2>2, <2>3, <2>4 DEF CapOK
<1> QED BY <1>2, <1>3

\* Recording or replaying a block of events.
LEMMA ReplayEventsOK ==
  ASSUME NEW l, LogOK(l), NEW events \in Seq(Logged), NEW retain \in BOOLEAN
  PROVE  Step(l, ReplayEvents(l, events, retain))
<1> DEFINE l2 == ReplayEvents(l, events, retain)
           s  == l.retained \o Stamp(l, events)
<1>1. /\ l \in Logs /\ l.retained \in Seq(Entries) /\ l.seq \in Nat /\ l.gid \in Nat
      /\ CurrentGroup(l) \in Nat /\ CurrentGroup(l) < l.gid
      /\ l.enabled \in BOOLEAN /\ Len(events) \in Nat
  BY CurrentGroupOK, LenProperties DEF LogOK, Logs
<1>2. /\ s \in Seq(Entries)
      /\ RetainedOK(s, l.seq + Len(events), l.gid, CurrentGroup(l))
      /\ \A i \in DOMAIN s : \/ \E j \in DOMAIN l.retained : s[i] = l.retained[j]
                             \/ s[i].seq >= l.seq
  BY <1>1, ConcatRetained
<1>3. RetainedOK(l.retained, l.seq + Len(events), l.gid, CurrentGroup(l))
  <2> DEFINE r == l.retained
             seq2 == l.seq + Len(events)
             cur == CurrentGroup(l)
  <2>1. /\ r \in Seq(Entries) /\ seq2 \in Nat /\ cur \in Nat
        /\ l.seq <= seq2 /\ l.gid <= l.gid
        /\ RetainedOK(r, l.seq, l.gid, cur)
    BY <1>1 DEF LogOK
  <2> HIDE DEF r, seq2, cur
  <2>2. RetainedOK(r, seq2, l.gid, cur)
    BY <1>1, <2>1, RetainedMonotone
  <2> QED BY <2>2 DEF r, seq2, cur
<1> HIDE DEF s
<1>4. CASE ~l.enabled
  <2>1. l2 = l
    BY <1>4 DEF ReplayEvents
  <2> QED BY <1>1, <2>1 DEF Step, Evolves
<1>5. CASE l.enabled
  <2>1. /\ l2 \in Logs
        /\ l2.retained = IF retain THEN s ELSE l.retained
        /\ l2.seq = l.seq + Len(events)
        /\ l2.stack = l.stack /\ l2.depth = l.depth /\ l2.gid = l.gid
    <3>1. l2 = [l EXCEPT !.seq = l.seq + Len(events),
                         !.retained = IF retain THEN s ELSE l.retained]
      BY <1>5 DEF ReplayEvents, s
    <3>2. l.seq + Len(events) \in Nat /\ (IF retain THEN s ELSE l.retained) \in Seq(Entries)
      BY <1>1, <1>2
    <3> QED BY <1>1, <3>1, <3>2 DEF Logs
  <2> HIDE DEF l2
  <2>2. CurrentGroup(l2) = CurrentGroup(l)
    BY <2>1 DEF CurrentGroup
  <2>3. LogOK(l2)
    BY <1>2, <1>3, <2>1, <2>2 DEF LogOK, StackOK
  <2>4. Evolves(l, l2)
    BY <1>2, <2>1 DEF Evolves
  <2> QED BY <1>1, <2>1, <2>3, <2>4 DEF Step, l2
<1> QED BY <1>1, <1>4, <1>5

\* Recording an event is a step that ends under the cap.
LEMMA RecordEventOK ==
  ASSUME NEW l, LogOK(l), CapOK(l), NEW event \in Logged
  PROVE  Step(l, RecordEvent(l, event)) /\ CapOK(RecordEvent(l, event))
<1>1. l.enabled \in BOOLEAN /\ l.seq \in Nat
  BY DEF LogOK, Logs
<1>2. CASE l.enabled
  <2> DEFINE l2 == ReplayEvents(l, <<event>>, TRUE)
  <2>1. Step(l, l2)
    <3>1. <<event>> \in Seq(Logged) /\ TRUE \in BOOLEAN
      OBVIOUS
    <3> QED BY <3>1, ReplayEventsOK
  <2>2. Step(l2, EnforceCap(l2)) /\ CapOK(EnforceCap(l2))
    BY <2>1, EnforceCapOK DEF Step
  <2> HIDE DEF l2
  <2>3. Step(l, EnforceCap(l2))
    BY <2>1, <2>2, StepTransitive
  <2> QED BY <1>2, <2>2, <2>3 DEF RecordEvent, l2
<1>3. CASE ~l.enabled
  BY <1>1, <1>3 DEF RecordEvent, Step, Evolves
<1> QED BY <1>1, <1>2, <1>3

\* A compound may open with a fresh group or inside the current one.
LEMMA OpenCompoundOK ==
  ASSUME NEW l, LogOK(l)
  PROVE  /\ Step(l, OpenCompound(l))
         /\ OpenCompound(l).retained = l.retained /\ OpenCompound(l).max = l.max
<1> DEFINE l2 == OpenCompound(l)
           r == l.retained
           cur == CurrentGroup(l)
<1>1. /\ l \in Logs /\ r \in Seq(Entries) /\ l.seq \in Nat /\ l.gid \in Nat
      /\ l.gid >= 1 /\ l.depth \in Nat /\ l.stack \in Seq(Nat)
      /\ Len(l.stack) = l.depth
      /\ cur \in Nat /\ cur < l.gid /\ (cur = NoGroup <=> l.depth = 0)
      /\ RetainedOK(r, l.seq, l.gid, cur)
      /\ \A i \in DOMAIN l.stack : l.stack[i] = cur /\ l.stack[i] \in 1..(l.gid - 1)
  BY CurrentGroupOK DEF LogOK, StackOK, Logs
<1>2. CASE l.depth = 0
  <2>1. l.stack = <<>>
    BY <1>1, <1>2, EmptySeq
  <2>2. l2 = [l EXCEPT !.depth = 1, !.gid = l.gid + 1, !.stack = <<l.gid>>]
    BY <1>1, <1>2, <2>1 DEF OpenCompound
  <2>a. l.gid + 1 \in Nat /\ <<l.gid>> \in Seq(Nat)
    BY <1>1
  <2> HIDE DEF l2
  <2>3. /\ l2 \in Logs /\ l2.retained = r /\ l2.seq = l.seq /\ l2.max = l.max
        /\ l2.depth = 1 /\ l2.gid = l.gid + 1 /\ l2.stack = <<l.gid>>
    BY <1>1, <2>2, <2>a DEF Logs
  <2> HIDE DEF l2, r, cur
  <2>4. CurrentGroup(l2) = l.gid
    BY <2>3 DEF CurrentGroup
  <2>5. StackOK(l2)
    BY <1>1, <2>3, <2>4 DEF StackOK
  <2>6. RetainedOK(r, l.seq, l2.gid, l.gid)
    <3>1. l2.gid \in Nat /\ l.gid <= l2.gid /\ l.gid >= l.gid /\ l.seq <= l.seq
      BY <1>1, <2>3
    <3> QED BY <1>1, <3>1, RetainedMonotone
  <2> QED BY <1>1, <2>3, <2>4, <2>5, <2>6 DEF Step, LogOK, Evolves, l2, r
<1>3. CASE l.depth # 0
  <2>1. l.stack # <<>>
    BY <1>1, <1>3
  <2>2. l2 = [l EXCEPT !.depth = l.depth + 1, !.stack = Append(l.stack, cur)]
    BY <1>1, <1>3, <2>1 DEF OpenCompound
  <2>a. l.depth + 1 \in Nat /\ Append(l.stack, cur) \in Seq(Nat)
    BY <1>1, AppendProperties
  <2> HIDE DEF l2
  <2>3. /\ l2 \in Logs /\ l2.retained = r /\ l2.seq = l.seq /\ l2.max = l.max
        /\ l2.depth = l.depth + 1 /\ l2.gid = l.gid /\ l2.stack = Append(l.stack, cur)
    BY <1>1, <2>2, <2>a DEF Logs
  <2> HIDE DEF l2, r, cur
  <2>4. /\ Len(l2.stack) = l.depth + 1
        /\ DOMAIN l2.stack = 1..(l.depth + 1)
        /\ \A i \in 1..l.depth : l2.stack[i] = l.stack[i] /\ i \in DOMAIN l.stack
        /\ l2.stack[l.depth + 1] = cur
    BY <1>1, <2>3, AppendProperties, LenProperties
  <2>5. \A i \in DOMAIN l2.stack : l2.stack[i] = cur
    BY <1>1, <2>4
  <2>6. CurrentGroup(l2) = cur
    <3>1. l2.stack # <<>>
      BY <1>1, <2>4
    <3> QED BY <2>4, <3>1 DEF CurrentGroup
  <2>7. cur \in 1..(l.gid - 1)
    BY <1>1, <1>3 DEF NoGroup
  <2>8. StackOK(l2)
    BY <1>1, <2>3, <2>4, <2>5, <2>6, <2>7 DEF StackOK
  <2> QED BY <1>1, <2>3, <2>6, <2>8 DEF Step, LogOK, Evolves, l2, r
<1> QED BY <1>2, <1>3

\* Closing a compound keeps a good log good: its group is never current again.
LEMMA CloseCompoundOK ==
  ASSUME NEW l, LogOK(l), l.depth # 0
  PROVE  /\ Step(l, CloseCompound(l))
         /\ CloseCompound(l).retained = l.retained /\ CloseCompound(l).max = l.max
<1> DEFINE l2 == CloseCompound(l)
           r == l.retained
           cur == CurrentGroup(l)
           d == l.depth - 1
<1>1. /\ l \in Logs /\ r \in Seq(Entries) /\ l.seq \in Nat /\ l.gid \in Nat
      /\ l.gid >= 1 /\ l.depth \in Nat /\ l.stack \in Seq(Nat)
      /\ Len(l.stack) = l.depth /\ d \in Nat
      /\ cur \in Nat /\ cur < l.gid
      /\ RetainedOK(r, l.seq, l.gid, cur)
      /\ \A i \in DOMAIN l.stack : l.stack[i] = cur /\ l.stack[i] \in 1..(l.gid - 1)
  BY CurrentGroupOK DEF LogOK, StackOK, Logs
<1>2. /\ DOMAIN l.stack = 1..l.depth
      /\ \A i \in 1..d : l.stack[i] \in Nat /\ i \in DOMAIN l.stack
  BY <1>1, LenProperties, ElementOfSeq
<1>3. /\ SubSeq(l.stack, 1, d) \in Seq(Nat)
      /\ Len(SubSeq(l.stack, 1, d)) = d
      /\ \A i \in 1..d : SubSeq(l.stack, 1, d)[i] = l.stack[i]
  <2>1. 1 \in Int /\ d \in Int /\ \A i \in 1..d : l.stack[i] \in Nat
    BY <1>1, <1>2
  <2> HIDE DEF d
  <2>2. /\ SubSeq(l.stack, 1, d) \in Seq(Nat)
        /\ Len(SubSeq(l.stack, 1, d)) = IF 1 <= d THEN d - 1 + 1 ELSE 0
        /\ \A i \in 1..(d - 1 + 1) : SubSeq(l.stack, 1, d)[i] = l.stack[1 + i - 1]
    BY <2>1, SubSeqProperties
  <2> QED BY <1>1, <2>2
<1>4. l2 = [l EXCEPT !.depth = d, !.stack = SubSeq(l.stack, 1, d)]
  <2>1. l.stack # <<>>
    BY <1>1
  <2> QED BY <1>1, <2>1 DEF CloseCompound
<1>5. /\ l2 \in Logs /\ l2.retained = r /\ l2.seq = l.seq /\ l2.max = l.max
      /\ l2.depth = d /\ l2.gid = l.gid /\ l2.stack = SubSeq(l.stack, 1, d)
  BY <1>1, <1>3, <1>4 DEF Logs
<1> HIDE DEF l2, r, cur, d
<1>6. /\ DOMAIN l2.stack = 1..d
      /\ \A i \in 1..d : l2.stack[i] = cur /\ l2.stack[i] \in 1..(l.gid - 1)
  BY <1>1, <1>2, <1>3, <1>5, LenProperties
<1>7. CurrentGroup(l2) = IF d = 0 THEN NoGroup ELSE cur
  <2>1. CASE d = 0
    BY <1>3, <1>5, <2>1, EmptySeq DEF CurrentGroup
  <2>2. CASE d # 0
    <3>1. l2.stack # <<>> /\ d \in 1..d /\ Len(l2.stack) = d
      BY <1>1, <1>3, <1>5, <2>2
    <3> QED BY <1>6, <2>2, <3>1 DEF CurrentGroup
  <2> QED BY <2>1, <2>2
<1>8. StackOK(l2)
  BY <1>1, <1>3, <1>5, <1>6, <1>7 DEF StackOK
<1>9. RetainedOK(r, l.seq, l.gid, CurrentGroup(l2))
  <2> DEFINE cur2 == CurrentGroup(l2)
  <2>1. /\ cur2 \in Nat /\ cur2 \in {cur, NoGroup}
        /\ l.seq <= l.seq /\ l.gid <= l.gid
    BY <1>1, <1>7 DEF NoGroup
  <2> HIDE DEF cur2
  <2>2. RetainedOK(r, l.seq, l.gid, cur2)
    BY <1>1, <2>1, RetainedMonotone
  <2> QED BY <2>2 DEF cur2
<1> QED BY <1>1, <1>5, <1>8, <1>9 DEF Step, LogOK, Evolves, l2, r

\* Recording and replaying events leave the compounds and the cap alone.
LEMMA RecordFrame ==
  ASSUME NEW l \in Logs, NEW events, NEW retain
  PROVE  /\ ReplayEvents(l, events, retain).depth = l.depth
         /\ ReplayEvents(l, events, retain).max = l.max
         /\ EnforceCap(l).depth = l.depth
  BY DEF ReplayEvents, EnforceCap, Logs

\* The markers are events a log may hold.
LEMMA MarkersLogged == CompoundStart \in Logged /\ CompoundEnd \in Logged
  BY DEF CompoundStart, CompoundEnd, Logged

\* begin_compound is a step that ends under the cap.
LEMMA BeginCompoundOK ==
  ASSUME NEW l, LogOK(l), CapOK(l)
  PROVE  Step(l, BeginCompound(l)) /\ CapOK(BeginCompound(l))
<1> DEFINE l2 == OpenCompound(l)
<1>1. Step(l, l2) /\ l2.retained = l.retained /\ l2.max = l.max
  BY OpenCompoundOK
<1> HIDE DEF l2
<1>2. LogOK(l2) /\ CapOK(l2)
  BY <1>1 DEF Step, CapOK
<1>3. Step(l2, RecordEvent(l2, CompoundStart)) /\ CapOK(RecordEvent(l2, CompoundStart))
  BY <1>2, RecordEventOK, MarkersLogged
<1> QED BY <1>1, <1>3, StepTransitive DEF BeginCompound, l2

\* end_compound is a step that ends under the cap, balanced or not.
LEMMA EndCompoundOK ==
  ASSUME NEW l, LogOK(l), CapOK(l)
  PROVE  Step(l, EndCompound(l)) /\ CapOK(EndCompound(l))
<1>1. CASE l.depth = 0
  BY <1>1 DEF EndCompound, Step, Evolves, LogOK, Logs
<1>2. CASE l.depth # 0
  <2> DEFINE l2 == RecordEvent(l, CompoundEnd)
  <2>1. Step(l, l2) /\ CapOK(l2)
    BY RecordEventOK, MarkersLogged
  <2>2. l2.depth = l.depth
    <3> DEFINE l1 == ReplayEvents(l, <<CompoundEnd>>, TRUE)
    <3>1. <<CompoundEnd>> \in Seq(Logged) /\ TRUE \in BOOLEAN /\ l \in Logs
      BY MarkersLogged DEF LogOK
    <3>2. l1 \in Logs
      BY <3>1, ReplayEventsOK DEF Step, LogOK
    <3>3. l1.depth = l.depth /\ EnforceCap(l1).depth = l1.depth
      BY <3>1, <3>2, RecordFrame
    <3> QED BY <3>3 DEF RecordEvent
  <2> HIDE DEF l2
  <2>3. /\ Step(l2, CloseCompound(l2))
        /\ CloseCompound(l2).retained = l2.retained /\ CloseCompound(l2).max = l2.max
    BY <1>2, <2>1, <2>2, CloseCompoundOK DEF Step
  <2>4. Step(l, CloseCompound(l2)) /\ CapOK(CloseCompound(l2))
    BY <2>1, <2>3, StepTransitive DEF CapOK
  <2> QED BY <1>2, <2>4 DEF EndCompound, l2
<1> QED BY <1>1, <1>2

\* One iteration of replay_capture.
LEMMA ReplayItemOK ==
  ASSUME NEW l, LogOK(l), NEW item \in Items, NEW retain \in BOOLEAN
  PROVE  Step(l, ReplayItem(l, item, retain))
<1>1. CASE item.tag = "CompoundStart"
  <2> DEFINE l2 == OpenCompound(l)
             l3 == ReplayEvents(l2, <<CompoundStart>>, retain)
  <2>1. Step(l, l2)
    BY OpenCompoundOK
  <2>2. <<CompoundStart>> \in Seq(Logged) /\ LogOK(l2)
    BY <2>1, MarkersLogged DEF Step
  <2> HIDE DEF l2
  <2>3. Step(l2, l3)
    BY <2>2, ReplayEventsOK
  <2>4. ReplayItem(l, item, retain) = l3
    BY <1>1 DEF ReplayItem, ReplayBeginCompound, l2
  <2> QED BY <2>1, <2>3, <2>4, StepTransitive
<1>2. CASE item.tag = "CompoundEnd"
  <2>1. CASE l.depth = 0
    BY <1>2, <2>1 DEF ReplayItem, ReplayEndCompound, Step, Evolves, LogOK, Logs
  <2>2. CASE l.depth # 0
    <3> DEFINE l2 == ReplayEvents(l, <<CompoundEnd>>, retain)
    <3>1. <<CompoundEnd>> \in Seq(Logged) /\ l \in Logs
      BY MarkersLogged DEF LogOK
    <3>2. Step(l, l2) /\ l2.depth = l.depth
      BY <3>1, ReplayEventsOK, RecordFrame
    <3>3. ReplayItem(l, item, retain) = CloseCompound(l2)
      BY <1>2, <2>2 DEF ReplayItem, ReplayEndCompound
    <3> HIDE DEF l2
    <3>4. Step(l2, CloseCompound(l2))
      BY <2>2, <3>2, CloseCompoundOK DEF Step
    <3> QED BY <3>2, <3>3, <3>4, StepTransitive
  <2> QED BY <2>1, <2>2
<1>3. CASE item.tag = "Run"
  <2> DEFINE events == [i \in DOMAIN item.members |-> Plain(item.members[i])]
  <2>1. item.members \in Seq(Events)
    BY <1>3 DEF Items
  <2>2. /\ Len(item.members) \in Nat /\ DOMAIN item.members = 1..Len(item.members)
        /\ \A i \in 1..Len(item.members) : item.members[i] \in Events
    BY <2>1, LenProperties, ElementOfSeq
  <2>3. events \in [1..Len(item.members) -> Logged]
    BY <2>2 DEF Logged, Plain
  <2>4. events \in Seq(Logged)
    BY <2>2, <2>3
  <2>5. ReplayItem(l, item, retain) = ReplayEvents(l, events, retain)
    BY <1>3 DEF ReplayItem
  <2> HIDE DEF events
  <2> QED BY <2>4, <2>5, ReplayEventsOK
<1>4. CASE item.tag = "Event"
  <2>1. <<item>> \in Seq(Logged)
    BY <1>4 DEF Items, Logged
  <2>2. ReplayItem(l, item, retain) = ReplayEvents(l, <<item>>, retain)
    BY <1>4 DEF ReplayItem
  <2> QED BY <2>1, <2>2, ReplayEventsOK
<1> QED BY <1>1, <1>2, <1>3, <1>4 DEF Items

-----------------------------------------------------------------------------
(* The state machine *)

\* A new log is good.
LEMMA EmptyLogOK == LogOK(EmptyLog) /\ CapOK(EmptyLog)
<1>1. EmptyLog \in Logs
  BY DEF EmptyLog, Logs, NoCap
<1>2. CurrentGroup(EmptyLog) = NoGroup
  BY DEF EmptyLog, CurrentGroup
<1>3. StackOK(EmptyLog) /\ RetainedOK(<<>>, 0, 1, NoGroup)
  BY DEF EmptyLog, StackOK, RetainedOK
<1> QED BY <1>1, <1>2, <1>3 DEF EmptyLog, LogOK, CapOK

\* The invariant holds initially.
LEMMA InitIInv == Init => IInv
<1> SUFFICES ASSUME Init PROVE IInv
  OBVIOUS
<1>1. log = EmptyLog /\ before = EmptyLog /\ mode = "idle" /\ capture = NoCapture
  BY DEF Init
<1>2. capture \in [items : Seq(Items), depth : Nat]
  BY <1>1 DEF NoCapture
<1> QED BY <1>1, <1>2, EmptyLogOK DEF IInv, TypeOK, CapKept, Untouched, LogOK

\* A discarded capture leaves the retained entries and the cap alone.
LEMMA DiscardFrame ==
  ASSUME NEW l \in Logs, NEW item \in Items
  PROVE  /\ ReplayItem(l, item, FALSE).retained = l.retained
         /\ ReplayItem(l, item, FALSE).max = l.max
<1>1. \A events : /\ ReplayEvents(l, events, FALSE).retained = l.retained
                  /\ ReplayEvents(l, events, FALSE).max = l.max
  BY DEF ReplayEvents, Logs
<1>2. CASE item.tag = "CompoundStart"
  <2>1. ReplayItem(l, item, FALSE)
          = ReplayEvents(OpenCompound(l), <<CompoundStart>>, FALSE)
    BY <1>2 DEF ReplayItem, ReplayBeginCompound
  <2> QED BY <2>1 DEF ReplayEvents, OpenCompound, Logs
<1>3. CASE item.tag = "CompoundEnd"
  <2>1. ReplayItem(l, item, FALSE)
          = IF l.depth = 0 THEN l
            ELSE CloseCompound(ReplayEvents(l, <<CompoundEnd>>, FALSE))
    BY <1>3 DEF ReplayItem, ReplayEndCompound
  <2> QED BY <2>1 DEF ReplayEvents, CloseCompound, Logs
<1>4. CASE item.tag \in {"Run", "Event"}
  BY <1>1, <1>4 DEF ReplayItem
<1> QED BY <1>2, <1>3, <1>4 DEF Items

\* Every step turns a good log into one it may become, and keeps the cap
\* between operations.
LEMMA StepIInv ==
  ASSUME IInv, Next
  PROVE  IInv' /\ Step(log, log')
<1>1. /\ TypeOK /\ LogOK(log) /\ log \in Logs /\ (mode = "idle" => CapOK(log))
      /\ (mode # "publish" => CapOK(log))
      /\ (mode \in {"edit", "discard"} => log.retained = before.retained)
      /\ Step(log, log)
  BY DEF IInv, CapKept, Untouched, LogOK, Logs, Step, Evolves
<1>2. ASSUME mode = "idle", UNCHANGED <<mode, capture, before>>,
             Step(log, log'), CapOK(log')
      PROVE  IInv' /\ Step(log, log')
  BY <1>1, <1>2 DEF IInv, TypeOK, CapKept, Untouched, CapOK, Step, LogOK
<1>3. ASSUME mode' # "idle", mode' \in {"idle", "edit", "publish", "discard"},
             capture' \in [items : Seq(Items), depth : Nat], before' \in Logs,
             Step(log, log'),
             mode' # "publish" => CapOK(log') /\ log'.retained = before'.retained
      PROVE  IInv' /\ Step(log, log')
  BY <1>3 DEF IInv, TypeOK, CapKept, Untouched, CapOK, Step, LogOK
<1>4. ASSUME NEW e \in Events, Record(e) PROVE IInv' /\ Step(log, log')
  <2>1. Plain(e) \in Logged
    BY DEF Plain, Logged
  <2> QED BY <1>1, <1>2, <1>4, <2>1, RecordEventOK DEF Record
<1>5. CASE Begin
  BY <1>1, <1>2, <1>5, BeginCompoundOK DEF Begin
<1>6. CASE End
  BY <1>1, <1>2, <1>6, EndCompoundOK DEF End
<1>7. ASSUME NEW max \in Caps, SetMaxChangelogEvents(max)
      PROVE  IInv' /\ Step(log, log')
  <2> DEFINE l == [log EXCEPT !.max = max]
  <2>1. max \in Nat \cup {NoCap}
    BY BoundsAssumption
  <2>2. /\ l \in Logs /\ l.retained = log.retained /\ l.seq = log.seq
        /\ l.gid = log.gid /\ l.depth = log.depth /\ l.stack = log.stack
    BY <1>1, <2>1 DEF Logs
  <2> HIDE DEF l
  <2>3. CurrentGroup(l) = CurrentGroup(log)
    BY <2>2 DEF CurrentGroup
  <2>4. LogOK(l)
    BY <1>1, <2>2, <2>3 DEF LogOK, StackOK
  <2>5. Step(log, l)
    BY <1>1, <2>2, <2>4 DEF Step, Evolves, Logs
  <2>6. Step(log, EnforceCap(l)) /\ CapOK(EnforceCap(l))
    BY <1>1, <2>4, <2>5, EnforceCapOK, StepTransitive
  <2> QED BY <1>2, <1>7, <2>6 DEF SetMaxChangelogEvents, SetMaxEvents, l
<1>8. ASSUME NEW on \in BOOLEAN, SetEnabled(on) PROVE IInv' /\ Step(log, log')
  <2>1. /\ log' \in Logs /\ log'.retained = log.retained /\ log'.seq = log.seq
        /\ log'.gid = log.gid /\ log'.depth = log.depth /\ log'.stack = log.stack
        /\ log'.max = log.max
    BY <1>1, <1>8 DEF SetEnabled, Logs
  <2>2. CurrentGroup(log') = CurrentGroup(log)
    BY <2>1 DEF CurrentGroup
  <2>3. Step(log, log') /\ (mode = "idle" => CapOK(log'))
    BY <1>1, <2>1, <2>2 DEF Step, Evolves, LogOK, StackOK, CapOK, Logs
  <2> QED BY <1>2, <1>8, <2>3 DEF SetEnabled
<1>9. ASSUME NEW len \in 0..Len(log.retained), Truncate(len)
      PROVE  IInv' /\ Step(log, log')
  <2>0. Len(log.retained) \in Nat /\ log.max \in Nat \cup {NoCap}
    BY <1>1, LenProperties DEF Logs
  <2>1. CASE len >= Len(log.retained)
    BY <1>1, <1>2, <1>9, <2>1 DEF Truncate, TruncateLog
  <2>2. CASE ~(len >= Len(log.retained))
    <3> DEFINE l == [log EXCEPT !.retained = SubSeq(@, 1, len)]
    <3>1. l.max = log.max /\ 1 \in Nat \ {0} /\ len \in Nat /\ len <= Len(log.retained)
      BY <1>1, <2>0 DEF Logs
    <3>2. Step(log, l) /\ Len(l.retained) = IF 1 <= len THEN len - 1 + 1 ELSE 0
      BY <1>1, <3>1, ShrinkOK
    <3>3. log' = l
      BY <1>9, <2>2 DEF Truncate, TruncateLog
    <3> HIDE DEF l
    <3>4. mode = "idle" => CapOK(l)
      BY <1>1, <2>0, <2>2, <3>1, <3>2 DEF CapOK
    <3> QED BY <1>2, <1>9, <3>2, <3>3, <3>4 DEF Truncate
  <2> QED BY <2>1, <2>2
<1>10. CASE Clear
  <2>1. /\ log' \in Logs /\ log'.retained = <<>> /\ log'.seq = log.seq
        /\ log'.gid = log.gid /\ log'.depth = 0 /\ log'.stack = <<>>
        /\ log'.max = log.max /\ log.gid >= 1
    <3>1. log' = [log EXCEPT !.retained = <<>>, !.depth = 0, !.stack = <<>>]
      BY <1>10 DEF Clear, ClearLog
    <3>2. <<>> \in Seq(Entries) /\ <<>> \in Seq(Nat) /\ log.gid >= 1
      BY <1>1 DEF LogOK, StackOK
    <3> QED BY <1>1, <3>1, <3>2 DEF Logs
  <2>2. CurrentGroup(log') = NoGroup
    BY <2>1 DEF CurrentGroup
  <2>3. LogOK(log')
    BY <1>1, <2>1, <2>2 DEF LogOK, StackOK, RetainedOK
  <2>4. Step(log, log') /\ CapOK(log')
    BY <1>1, <2>1, <2>3 DEF Step, Evolves, CapOK, Logs
  <2> QED BY <1>2, <1>10, <2>4 DEF Clear
<1>11. CASE StartEdit
  BY <1>1, <1>3, <1>11 DEF StartEdit, NoCapture
<1>12. ASSUME NEW item \in Items, Capture(item) PROVE IInv' /\ Step(log, log')
  <2>1. capture.items \in Seq(Items) /\ capture \in [items : Seq(Items), depth : Nat]
    BY <1>1 DEF TypeOK
  <2>2. Append(capture.items, item) \in Seq(Items)
    BY <2>1, AppendProperties
  <2>3. capture' \in [items : Seq(Items), depth : Nat]
    BY <1>12, <2>1, <2>2 DEF Capture
  <2> QED BY <1>1, <1>3, <1>12, <2>3 DEF Capture, TypeOK
<1>13. CASE CaptureBegin
  <2>1. capture' \in [items : Seq(Items), depth : Nat]
    BY <1>1, <1>13 DEF CaptureBegin, TypeOK, Items, CompoundStart
  <2> QED BY <1>1, <1>3, <1>13, <2>1 DEF CaptureBegin, TypeOK
<1>14. CASE CaptureEnd
  <2>1. capture' \in [items : Seq(Items), depth : Nat]
    BY <1>1, <1>14 DEF CaptureEnd, TypeOK, Items, CompoundEnd
  <2> QED BY <1>1, <1>3, <1>14, <2>1 DEF CaptureEnd, TypeOK
<1>15. ASSUME NEW outcome \in {"publish", "discard"}, FinishEdit(outcome)
       PROVE  IInv' /\ Step(log, log')
  <2> DEFINE ends == [i \in 1..capture.depth |-> CompoundEnd]
  <2>1. capture.depth \in Nat /\ capture.items \in Seq(Items)
    BY <1>1 DEF TypeOK
  <2>2. ends \in [1..capture.depth -> Items]
    BY DEF Items, CompoundEnd
  <2>3. ends \in Seq(Items)
    BY <2>1, <2>2
  <2> HIDE DEF ends
  <2>4. capture.items \o ends \in Seq(Items)
    BY <2>1, <2>3, ConcatProperties
  <2>5. capture' \in [items : Seq(Items), depth : Nat]
    BY <1>15, <2>4 DEF FinishEdit, ends
  <2> QED BY <1>1, <1>3, <1>15, <2>5 DEF FinishEdit, TypeOK
<1>16. CASE ReplayStep
  <2>1. capture.items \in Seq(Items) /\ capture.items # <<>> /\ Retain \in BOOLEAN
    BY <1>1, <1>16 DEF ReplayStep, TypeOK, Retain
  <2>2. Head(capture.items) \in Items /\ Tail(capture.items) \in Seq(Items)
    BY <2>1, HeadTailProperties
  <2>3. Step(log, log')
    BY <1>1, <1>16, <2>1, <2>2, ReplayItemOK DEF ReplayStep
  <2>4. capture' \in [items : Seq(Items), depth : Nat]
    BY <1>1, <1>16, <2>2 DEF ReplayStep, TypeOK
  <2>5. mode # "publish" => log'.retained = log.retained /\ log'.max = log.max
    BY <1>1, <1>16, <2>2, DiscardFrame DEF ReplayStep, Retain
  <2>6. mode' # "publish" => CapOK(log') /\ log'.retained = before'.retained
    BY <1>1, <1>16, <2>5 DEF ReplayStep, CapOK
  <2> QED BY <1>1, <1>3, <1>16, <2>3, <2>4, <2>6 DEF ReplayStep, TypeOK
<1>17. CASE ReplayDone
  <2>1. Step(log, log') /\ CapOK(log')
    BY <1>1, <1>17, EnforceCapOK DEF ReplayDone, Retain
  <2>2. TypeOK'
    BY <1>1, <1>17, <2>1, EmptyLogOK DEF ReplayDone, TypeOK, Step, LogOK
  <2> QED BY <1>17, <2>1, <2>2 DEF ReplayDone, IInv, CapKept, Untouched, Step, CapOK
<1>18. \A e \in Events : Plain(e) \in Items
  BY DEF Plain, Items
<1>19. \A members \in Runs : Run(members) \in Items
  <2> TAKE members \in Runs
  <2>1. PICK n \in 1..MaxRun : members \in [1..n -> Events]
    BY DEF Runs
  <2>2. n \in Nat
    BY BoundsAssumption
  <2> QED BY <2>1, <2>2 DEF Run, Items
<1> QED BY <1>4, <1>5, <1>6, <1>7, <1>8, <1>9, <1>10, <1>11, <1>12, <1>13, <1>14,
           <1>15, <1>16, <1>17, <1>18, <1>19 DEF Next, DirectUse, Editing

-----------------------------------------------------------------------------
(* The theorems *)

\* The log stays good whatever is recorded, captured, replayed, evicted or
\* cleared: the inductive invariant behind every theorem below.
THEOREM Inductive == Spec => []IInv
<1>1. IInv /\ [Next]_vars => IInv'
  <2>1. IInv /\ Next => IInv'
    BY StepIInv
  <2>2. IInv /\ UNCHANGED vars => IInv'
    BY DEF vars, IInv, TypeOK, CapKept, CapOK, Untouched
  <2> QED BY <2>1, <2>2
<1> QED BY <1>1, InitIInv, PTL DEF Spec

\* The log, the capture and the edit always have their types.
THEOREM TypeCorrect == Spec => []TypeOK
<1>1. IInv => TypeOK
  BY DEF IInv
<1> QED BY <1>1, Inductive, PTL

\* Sequence numbers grow strictly along the log and are never reused.
THEOREM SequenceNumbers == Spec => []SeqsIncreasing
<1>1. IInv => SeqsIncreasing
  BY DEF IInv, LogOK, RetainedOK, SeqsIncreasing
<1> QED BY <1>1, Inductive, PTL

\* The events of a compound stay together: what undo takes off the tail is
\* one group and nothing else.
THEOREM GroupsStayTogether == Spec => []GroupsContiguous
<1>1. IInv => GroupsContiguous
  <2> SUFFICES ASSUME IInv, NEW i \in DOMAIN log.retained,
                      NEW k \in DOMAIN log.retained,
                      log.retained[i].group # NoGroup,
                      log.retained[i].group = log.retained[k].group,
                      NEW j \in i..k
               PROVE  log.retained[j].group = log.retained[i].group
    BY DEF GroupsContiguous
  <2>1. DOMAIN log.retained = 1..Len(log.retained) /\ Len(log.retained) \in Nat
    BY LenProperties DEF IInv, LogOK, Logs
  <2>2. j \in DOMAIN log.retained /\ i <= j /\ j <= k
    BY <2>1
  <2> QED BY <2>2 DEF IInv, LogOK, RetainedOK
<1> QED BY <1>1, Inductive, PTL

\* compound_depth and group_stack stay in step.
THEOREM DepthAndStack == Spec => []CompoundsInStep
<1>1. IInv => CompoundsInStep
  BY DEF IInv, LogOK, StackOK, CompoundsInStep
<1> QED BY <1>1, Inductive, PTL

\* Between operations the log respects its cap.
THEOREM CapRespected == Spec => []CapHolds
<1>1. IInv => CapHolds
  BY DEF IInv, CapKept, CapOK, CapHolds
<1> QED BY <1>1, Inductive, PTL

\* The audit trail only gains entries with new sequence numbers.
THEOREM AuditTrail == Spec => AuditStable
<1> DEFINE A == /\ log.seq <= log'.seq
                /\ \A i \in DOMAIN log'.retained :
                     \/ \E j \in DOMAIN log.retained : log'.retained[i] = log.retained[j]
                     \/ log'.retained[i].seq >= log.seq
<1>1. IInv /\ [Next]_vars => [A]_vars
  <2>1. IInv /\ Next => A
    BY StepIInv DEF Step, Evolves
  <2> QED BY <2>1
<1> QED BY <1>1, Inductive, PTL DEF Spec, AuditStable

\* A discarded edit leaves the retained events as they were.
THEOREM FailedEdits == Spec => FailedEditInvisible
<1> DEFINE A == mode = "discard" /\ mode' = "idle" => log'.retained = before.retained
<1>1. IInv /\ [Next]_vars => [A]_vars
  <2> SUFFICES ASSUME IInv, Next, mode = "discard", mode' = "idle"
               PROVE  log'.retained = before.retained
    OBVIOUS
  <2>1. ReplayDone
    BY DEF Next, DirectUse, Editing, Record, Begin, End, SetMaxChangelogEvents,
           SetEnabled, Truncate, Clear, StartEdit, Capture, CaptureBegin, CaptureEnd,
           FinishEdit, ReplayStep
  <2> QED BY <2>1 DEF ReplayDone, Retain, IInv, Untouched
<1> QED BY <1>1, Inductive, PTL DEF Spec, FailedEditInvisible

\* The log stays well formed under every operation: types, sequence numbers,
\* and the stack of open groups in step with the depth of compounds.
THEOREM StaysWellFormed == Spec => []LogWellFormed
<1>1. TypeOK /\ SeqsIncreasing /\ CompoundsInStep => LogWellFormed
  BY DEF LogWellFormed
<1> QED BY <1>1, TypeCorrect, SequenceNumbers, DepthAndStack, PTL

-----------------------------------------------------------------------------
(* An edit is one group.  What is left to replay brings the depth of the   *)
(* log back to where the edit began, and never below; so the compounds     *)
(* that were open stay open, at the bottom of the stack.                   *)

\* What an item of a capture does to the depth.
Rise(item) == CASE item.tag = "CompoundStart" -> 1
                [] item.tag = "CompoundEnd" -> -1
                [] OTHER -> 0

\* h[i] is the depth after i items.
Heights(items, h) ==
  /\ h \in [0..Len(items) -> Nat]
  /\ \A i \in 1..Len(items) : h[i] = h[i - 1] + Rise(items[i])

\* The items lead from depth a to depth z, over no depth below 0.
Bracketed(items, a, z) == \E h : Heights(items, h) /\ h[0] = a /\ h[Len(items)] = z

LEMMA RiseType == \A item : Rise(item) \in {-1, 0, 1}
BY DEF Rise

\* A capture grows by an item.
LEMMA BracketedAppend ==
  ASSUME NEW items \in Seq(Items), NEW a, NEW z \in Nat, Bracketed(items, a, z),
         NEW item \in Items, z + Rise(item) \in Nat
  PROVE  Bracketed(Append(items, item), a, z + Rise(item))
<1> DEFINE n == Len(items)
           more == Append(items, item)
<1>1. PICK h : Heights(items, h) /\ h[0] = a /\ h[n] = z
  BY DEF Bracketed
<1>2. n \in Nat /\ Len(more) = n + 1 /\ more[n + 1] = item /\ \A i \in 1..n : more[i] = items[i]
  OBVIOUS
<1> HIDE DEF n, more
<1> DEFINE k == [i \in 0..(n + 1) |-> IF i = n + 1 THEN z + Rise(item) ELSE h[i]]
<1>3. h \in [0..n -> Nat] /\ \A i \in 1..n : h[i] = h[i - 1] + Rise(items[i])
  BY <1>1 DEF Heights, n
<1>4. k \in [0..(n + 1) -> Nat] /\ k[n + 1] = z + Rise(item) /\ \A i \in 0..n : k[i] = h[i]
  BY <1>2, <1>3
<1> HIDE DEF k
<1>5. ASSUME NEW i \in 1..(n + 1) PROVE k[i] = k[i - 1] + Rise(more[i])
  <2>1. CASE i = n + 1
    BY <1>1, <1>2, <1>4, <2>1
  <2>2. CASE i # n + 1
    <3>1. i \in 1..n /\ i - 1 \in 0..n /\ i \in 0..n
      BY <1>2, <2>2
    <3> QED BY <1>2, <1>3, <1>4, <3>1
  <2> QED BY <2>1, <2>2
<1>6. Heights(more, k)
  BY <1>2, <1>4, <1>5 DEF Heights
<1>7. k[0] = a
  BY <1>1, <1>2, <1>4
<1> QED BY <1>2, <1>4, <1>6, <1>7 DEF Bracketed, more

\* close_compounds brings it back to 0.
LEMMA BracketedClose ==
  ASSUME NEW items \in Seq(Items), NEW a, NEW z \in Nat, Bracketed(items, a, z)
  PROVE  Bracketed(items \o [i \in 1..z |-> CompoundEnd], a, 0)
<1> DEFINE n == Len(items)
           ends == [i \in 1..z |-> CompoundEnd]
           all == items \o ends
<1>1. PICK h : Heights(items, h) /\ h[0] = a /\ h[n] = z
  BY DEF Bracketed
<1>2. ends \in Seq(Items) /\ Len(ends) = z /\ \A i \in 1..z : ends[i] = CompoundEnd
  <2>1. CompoundEnd \in Items
    BY DEF Items, CompoundEnd
  <2>2. ends \in [1..z -> Items]
    BY <2>1
  <2> QED BY <2>2
<1> HIDE DEF ends
<1>3. /\ Len(all) = Len(items) + Len(ends)
      /\ \A i \in 1..(Len(items) + Len(ends)) :
           all[i] = IF i <= Len(items) THEN items[i] ELSE ends[i - Len(items)]
  BY <1>2, ConcatProperties
<1>4. n \in Nat /\ Len(all) = n + z /\ (\A i \in 1..n : all[i] = items[i])
      /\ \A i \in (n + 1)..(n + z) : all[i] = CompoundEnd
  <2>1. n \in Nat
    OBVIOUS
  <2> HIDE DEF all
  <2> QED BY <1>2, <1>3, <2>1
<1>5. h \in [0..n -> Nat] /\ \A i \in 1..n : h[i] = h[i - 1] + Rise(items[i])
  BY <1>1 DEF Heights
<1>6. Rise(CompoundEnd) = -1
  BY DEF Rise, CompoundEnd
<1> HIDE DEF n, all
<1> DEFINE k == [i \in 0..(n + z) |-> IF i <= n THEN h[i] ELSE n + z - i]
<1>7. k \in [0..(n + z) -> Nat] /\ (\A i \in 0..n : k[i] = h[i])
      /\ \A i \in n..(n + z) : k[i] = n + z - i
  <2>1. \A i \in 0..(n + z) : (IF i <= n THEN h[i] ELSE n + z - i) \in Nat
    BY <1>4, <1>5
  <2>2. h[n] = n + z - n
    BY <1>1, <1>4 DEF n
  <2> QED BY <1>4, <2>1, <2>2
<1> HIDE DEF k
<1>8. ASSUME NEW i \in 1..(n + z) PROVE k[i] = k[i - 1] + Rise(all[i])
  <2>1. CASE i <= n
    <3>1. i \in 1..n /\ i - 1 \in 0..n /\ i \in 0..n
      BY <1>4, <2>1
    <3> QED BY <1>4, <1>5, <1>7, <3>1
  <2>2. CASE ~(i <= n)
    <3>1. i \in (n + 1)..(n + z) /\ i - 1 \in n..(n + z) /\ i \in n..(n + z)
      BY <1>4, <2>2
    <3>2. all[i] = CompoundEnd /\ k[i] = n + z - i /\ k[i - 1] = n + z - (i - 1)
      BY <1>4, <1>7, <3>1
    <3> QED BY <1>4, <1>6, <3>1, <3>2
  <2> QED BY <2>1, <2>2
<1>9. Heights(all, k)
  BY <1>4, <1>7, <1>8 DEF Heights
<1>10. k[0] = a /\ k[n + z] = 0
  BY <1>1, <1>4, <1>7
<1> QED BY <1>4, <1>9, <1>10 DEF Bracketed, all, ends

\* Replaying the first item leaves a shorter bracket.
LEMMA BracketedTail ==
  ASSUME NEW items \in Seq(Items), items # <<>>, NEW a \in Nat, NEW z, Bracketed(items, a, z)
  PROVE  /\ a + Rise(Head(items)) \in Nat
         /\ Bracketed(Tail(items), a + Rise(Head(items)), z)
<1> DEFINE n == Len(items)
           rest == Tail(items)
<1>1. PICK h : Heights(items, h) /\ h[0] = a /\ h[n] = z
  BY DEF Bracketed
<1>2. /\ n \in Nat \ {0} /\ Len(rest) = n - 1 /\ Head(items) = items[1]
      /\ \A i \in 1..(n - 1) : rest[i] = items[i + 1]
  OBVIOUS
<1>3. h \in [0..n -> Nat] /\ \A i \in 1..n : h[i] = h[i - 1] + Rise(items[i])
  BY <1>1 DEF Heights
<1> HIDE DEF n, rest
<1> DEFINE k == [i \in 0..(n - 1) |-> h[i + 1]]
<1>4. k \in [0..(n - 1) -> Nat] /\ \A i \in 0..(n - 1) : k[i] = h[i + 1]
  BY <1>2, <1>3
<1> HIDE DEF k
<1>5. ASSUME NEW i \in 1..(n - 1) PROVE k[i] = k[i - 1] + Rise(rest[i])
  <2>1. i + 1 \in 1..n /\ i - 1 \in 0..(n - 1) /\ i \in 0..(n - 1) /\ (i - 1) + 1 = i
        /\ (i + 1) - 1 = i
    BY <1>2
  <2>2. k[i] = h[i + 1] /\ k[i - 1] = h[i] /\ rest[i] = items[i + 1]
    BY <1>2, <1>4, <2>1
  <2> QED BY <1>3, <2>1, <2>2
<1>6. Heights(rest, k)
  BY <1>2, <1>4, <1>5 DEF Heights
<1>7. k[0] = a + Rise(Head(items)) /\ k[n - 1] = z /\ k[0] \in Nat
  <2>1. 0 \in 0..(n - 1) /\ n - 1 \in 0..(n - 1) /\ 1 \in 1..n /\ 1 - 1 = 0 /\ (n - 1) + 1 = n
    BY <1>2
  <2>2. h[1] = h[0] + Rise(items[1])
    BY <1>3, <2>1
  <2> QED BY <1>1, <1>2, <1>4, <2>1, <2>2 DEF n
<1> QED BY <1>2, <1>6, <1>7 DEF Bracketed, rest

\* The two logs have the same compounds open up to depth n.
SameBelow(l, l2, n) == \A i \in 1..n : l.stack[i] = l2.stack[i]

\* Entries of l2 are entries of l, or in group g.
Joins(l, l2, g) ==
  \A i \in DOMAIN l2.retained :
    (\E j \in DOMAIN l.retained : l2.retained[i] = l.retained[j]) \/ l2.retained[i].group = g

\* Stamping events into a log puts them in its group.
LEMMA ReplayEventsJoins ==
  ASSUME NEW l, LogOK(l), NEW events \in Seq(Logged), NEW retain \in BOOLEAN
  PROVE  /\ Joins(l, ReplayEvents(l, events, retain), CurrentGroup(l))
         /\ ReplayEvents(l, events, retain).stack = l.stack
         /\ ReplayEvents(l, events, retain).depth = l.depth
<1> DEFINE l2 == ReplayEvents(l, events, retain)
           r == l.retained
           t == Stamp(l, events)
           s == r \o t
<1>1. l \in Logs /\ r \in Seq(Entries) /\ CurrentGroup(l) \in Nat
  BY CurrentGroupOK DEF LogOK, Logs
<1>2. l2.stack = l.stack /\ l2.depth = l.depth
  BY <1>1 DEF ReplayEvents, Logs
<1>3. l2.retained = s \/ l2.retained = r
  BY <1>1 DEF ReplayEvents, Logs
<1>4. t \in Seq(Entries) /\ Len(t) = Len(events) /\ \A i \in 1..Len(events) : t[i].group = CurrentGroup(l)
  BY <1>1, StampProperties
<1> HIDE DEF l2, r, t
<1>5. /\ s \in Seq(Entries) /\ Len(s) = Len(r) + Len(t)
      /\ \A i \in 1..(Len(r) + Len(t)) : s[i] = IF i <= Len(r) THEN r[i] ELSE t[i - Len(r)]
  BY <1>1, <1>4, ConcatProperties, Zenon
<1> HIDE DEF s
<1>6. /\ DOMAIN s = 1..(Len(r) + Len(t)) /\ DOMAIN r = 1..Len(r)
      /\ Len(r) \in Nat /\ Len(t) \in Nat
  BY <1>1, <1>4, <1>5, LenProperties
<1>7. \A i \in DOMAIN s : (\E j \in DOMAIN r : s[i] = r[j]) \/ s[i].group = CurrentGroup(l)
  BY <1>4, <1>5, <1>6
<1> QED BY <1>2, <1>3, <1>7 DEF Joins, l2, r

\* What an iteration of replay_capture does to the open compounds.
LEMMA ReplayItemDepth ==
  ASSUME NEW l, LogOK(l), NEW item \in Items, NEW retain \in BOOLEAN,
         l.depth + Rise(item) \in Nat, NEW n \in Nat, n <= l.depth, n <= l.depth + Rise(item)
  PROVE  /\ ReplayItem(l, item, retain).depth = l.depth + Rise(item)
         /\ SameBelow(ReplayItem(l, item, retain), l, n)
         /\ l.depth # 0 => Joins(l, ReplayItem(l, item, retain), CurrentGroup(l))
<1>1. l \in Logs /\ l.depth \in Nat /\ l.stack \in Seq(Nat) /\ Len(l.stack) = l.depth
  BY DEF LogOK, StackOK, Logs
<1>2. DOMAIN l.stack = 1..l.depth
  BY <1>1, LenProperties
<1>3. CASE item.tag = "CompoundStart"
  <2> DEFINE l2 == OpenCompound(l)
             l3 == ReplayEvents(l2, <<CompoundStart>>, retain)
  <2>1. LogOK(l2) /\ l2.retained = l.retained
    BY OpenCompoundOK DEF Step
  <2>2. l2.depth = l.depth + 1
    BY <1>1 DEF OpenCompound, Logs
  <2>3. /\ \A i \in 1..l.depth : l2.stack[i] = l.stack[i]
        /\ l.depth # 0 => CurrentGroup(l2) = CurrentGroup(l)
    <3>1. CASE l.depth = 0
      BY <3>1
    <3>2. CASE l.depth # 0
      <4>1. l.stack # <<>>
        BY <1>1, <3>2
      <4>2. l2.stack = Append(l.stack, CurrentGroup(l))
        BY <1>1, <3>2, <4>1 DEF OpenCompound, Logs
      <4>3. CurrentGroup(l) \in Nat
        BY CurrentGroupOK
      <4> HIDE DEF l2
      <4>4. /\ Len(l2.stack) = l.depth + 1 /\ l2.stack[l.depth + 1] = CurrentGroup(l)
            /\ \A i \in 1..l.depth : l2.stack[i] = l.stack[i]
        BY <1>1, <4>2, <4>3, AppendProperties
      <4>5. l2.stack # <<>>
        BY <1>1, <4>4
      <4> QED BY <4>4, <4>5 DEF CurrentGroup
    <3> QED BY <3>1, <3>2
  <2>4. ReplayItem(l, item, retain) = l3
    BY <1>3 DEF ReplayItem, ReplayBeginCompound
  <2> HIDE DEF l2
  <2>5. Joins(l2, l3, CurrentGroup(l2)) /\ l3.stack = l2.stack /\ l3.depth = l2.depth
    <3>1. <<CompoundStart>> \in Seq(Logged)
      BY MarkersLogged
    <3> QED BY <2>1, <3>1, ReplayEventsJoins
  <2> HIDE DEF l3
  <2>6. Rise(item) = 1
    BY <1>3 DEF Rise
  <2>7. SameBelow(l3, l, n)
    BY <1>1, <2>3, <2>5 DEF SameBelow
  <2> QED BY <2>1, <2>2, <2>3, <2>4, <2>5, <2>6, <2>7 DEF Joins
<1>4. CASE item.tag = "CompoundEnd"
  <2> DEFINE l2 == ReplayEvents(l, <<CompoundEnd>>, retain)
             l3 == CloseCompound(l2)
  <2>1. Rise(item) = -1 /\ l.depth # 0
    BY <1>1, <1>4 DEF Rise
  <2>2. ReplayItem(l, item, retain) = l3
    BY <1>4, <2>1 DEF ReplayItem, ReplayEndCompound
  <2>3. Joins(l, l2, CurrentGroup(l)) /\ l2.stack = l.stack /\ l2.depth = l.depth /\ LogOK(l2)
    <3>1. <<CompoundEnd>> \in Seq(Logged)
      BY MarkersLogged
    <3> QED BY <3>1, ReplayEventsJoins, ReplayEventsOK DEF Step
  <2> HIDE DEF l2
  <2>4. l3.retained = l2.retained
    BY <2>1, <2>3, CloseCompoundOK
  <2>5. l3.depth = l2.depth - 1 /\ l3.stack = SubSeq(l2.stack, 1, Len(l2.stack) - 1)
    <3>1. l2.stack # <<>> /\ l2 \in Logs
      BY <1>1, <2>1, <2>3 DEF LogOK
    <3> QED BY <3>1 DEF CloseCompound, Logs
  <2>6. \A i \in 1..n : l3.stack[i] = l.stack[i]
    <3> DEFINE d == l.depth - 1
    <3>1. d \in Nat /\ \A i \in 1..d : l.stack[i] \in Nat
      BY <1>1, <2>1, ElementOfSeq
    <3>2. n <= d
      BY <1>1, <2>1
    <3> HIDE DEF d
    <3>3. \A i \in 1..(d - 1 + 1) : SubSeq(l.stack, 1, d)[i] = l.stack[1 + i - 1]
      BY <3>1, SubSeqProperties
    <3>4. l3.stack = SubSeq(l.stack, 1, d)
      BY <1>1, <2>3, <2>5 DEF d
    <3> HIDE DEF l3
    <3>5. \A i \in 1..n : i \in 1..(d - 1 + 1) /\ 1 + i - 1 = i
      BY <3>1, <3>2
    <3> QED BY <3>3, <3>4, <3>5
  <2> HIDE DEF l3
  <2> QED BY <1>1, <2>1, <2>2, <2>3, <2>4, <2>5, <2>6 DEF Joins, SameBelow
<1>5. CASE item.tag \in {"Run", "Event"}
  <2>1. Rise(item) = 0
    BY <1>5 DEF Rise
  <2>2. \E events \in Seq(Logged) : ReplayItem(l, item, retain) = ReplayEvents(l, events, retain)
    <3>1. CASE item.tag = "Run"
      <4> DEFINE events == [i \in DOMAIN item.members |-> Plain(item.members[i])]
      <4>1. item.members \in Seq(Events)
        BY <3>1 DEF Items
      <4>2. /\ Len(item.members) \in Nat /\ DOMAIN item.members = 1..Len(item.members)
            /\ \A i \in 1..Len(item.members) : item.members[i] \in Events
        BY <4>1, LenProperties, ElementOfSeq
      <4>3. events \in [1..Len(item.members) -> Logged]
        BY <4>2 DEF Logged, Plain
      <4>4. events \in Seq(Logged)
        BY <4>2, <4>3
      <4>5. ReplayItem(l, item, retain) = ReplayEvents(l, events, retain)
        BY <3>1 DEF ReplayItem
      <4> HIDE DEF events
      <4> QED BY <4>4, <4>5
    <3>2. CASE item.tag = "Event"
      <4>1. <<item>> \in Seq(Logged)
        BY <3>2 DEF Items, Logged
      <4>2. ReplayItem(l, item, retain) = ReplayEvents(l, <<item>>, retain)
        BY <3>2 DEF ReplayItem
      <4> QED BY <4>1, <4>2
    <3> QED BY <1>5, <3>1, <3>2
  <2>3. PICK events \in Seq(Logged) : ReplayItem(l, item, retain) = ReplayEvents(l, events, retain)
    BY <2>2
  <2> QED BY <1>1, <2>1, <2>3, ReplayEventsJoins DEF SameBelow
<1> QED BY <1>3, <1>4, <1>5 DEF Items

\* Eviction drops entries and leaves the compounds alone.
LEMMA EnforceCapKeeps ==
  ASSUME NEW l, LogOK(l)
  PROVE  /\ EnforceCap(l).stack = l.stack /\ EnforceCap(l).depth = l.depth
         /\ \A g : Joins(l, EnforceCap(l), g)
<1>1. l \in Logs
  BY DEF LogOK
<1>2. EnforceCap(l).stack = l.stack /\ EnforceCap(l).depth = l.depth
  BY <1>1 DEF EnforceCap, Logs
<1>3. \A i \in DOMAIN EnforceCap(l).retained :
        \E j \in DOMAIN l.retained : EnforceCap(l).retained[i] = l.retained[j]
  <2>1. CASE l.max = NoCap \/ Len(l.retained) <= l.max
    BY <2>1 DEF EnforceCap
  <2>2. CASE ~(l.max = NoCap \/ Len(l.retained) <= l.max)
    <3> DEFINE r == l.retained
               n == Len(r)
               m == n - l.max + 1
               seq == l.seq
               gid == l.gid
               cur == CurrentGroup(l)
    <3>1. EnforceCap(l).retained = SubSeq(r, m, n)
      BY <1>1, <2>2 DEF EnforceCap, Logs
    <3>2. /\ r \in Seq(Entries) /\ n \in Nat /\ l.max \in Nat /\ m \in Nat \ {0} /\ n <= Len(r)
          /\ seq \in Nat /\ gid \in Nat /\ cur \in Nat /\ RetainedOK(r, seq, gid, cur)
      <4>1. l.max \in Nat \cup {NoCap} /\ r \in Seq(Entries) /\ seq \in Nat /\ gid \in Nat
        BY <1>1 DEF Logs
      <4>2. n \in Nat
        BY <4>1, LenProperties
      <4>3. cur \in Nat /\ RetainedOK(r, seq, gid, cur)
        BY CurrentGroupOK DEF LogOK
      <4> QED BY <2>2, <4>1, <4>2, <4>3
    <3> HIDE DEF r, n, m, seq, gid, cur
    <3>3. /\ SubSeq(r, m, n) \in Seq(Entries)
          /\ RetainedOK(SubSeq(r, m, n), seq, gid, cur)
          /\ Len(SubSeq(r, m, n)) = IF m <= n THEN n - m + 1 ELSE 0
          /\ \A i \in DOMAIN SubSeq(r, m, n) : \E j \in DOMAIN r : SubSeq(r, m, n)[i] = r[j]
      BY <3>2, SubRetained
    <3> QED BY <3>1, <3>3 DEF r
  <2> QED BY <2>1, <2>2
<1> QED BY <1>2, <1>3 DEF Joins

\* The edit in progress.
EditOK ==
  /\ mode # "idle" => LogOK(before)
  /\ mode = "edit" => log = before /\ Bracketed(capture.items, 0, capture.depth)
  /\ mode \in {"publish", "discard"} =>
       /\ before.depth <= log.depth
       /\ Bracketed(capture.items, log.depth - before.depth, 0)
       /\ SameBelow(log, before, before.depth)
       /\ before.depth # 0 =>
            \A i \in DOMAIN log.retained :
              log.retained[i].seq >= before.seq => log.retained[i].group = CurrentGroup(before)

\* Inside an open compound there is one group.
LEMMA SameGroup ==
  ASSUME NEW l, NEW l2, LogOK(l), LogOK(l2), l2.depth # 0, l2.depth <= l.depth,
         SameBelow(l, l2, l2.depth)
  PROVE  CurrentGroup(l) = CurrentGroup(l2)
<1>1. /\ l.stack \in Seq(Nat) /\ l2.stack \in Seq(Nat) /\ l.depth \in Nat /\ l2.depth \in Nat
      /\ Len(l.stack) = l.depth /\ Len(l2.stack) = l2.depth
  BY DEF LogOK, StackOK, Logs
<1>2. 1 \in DOMAIN l.stack /\ 1 \in DOMAIN l2.stack /\ 1 \in 1..l2.depth
  BY <1>1, LenProperties
<1>3. l.stack[1] = CurrentGroup(l) /\ l2.stack[1] = CurrentGroup(l2)
  BY <1>2 DEF LogOK, StackOK
<1> QED BY <1>2, <1>3 DEF SameBelow

LEMMA StepEditOK ==
  ASSUME IInv, EditOK, Next
  PROVE  EditOK'
<1>1. /\ TypeOK /\ LogOK(log) /\ log \in Logs /\ mode \in {"idle", "edit", "publish", "discard"}
      /\ capture.items \in Seq(Items) /\ capture.depth \in Nat
  BY DEF IInv, TypeOK, LogOK
<1>2. CASE UNCHANGED mode /\ mode = "idle"
  BY <1>2 DEF EditOK
<1>3. CASE StartEdit
  <2>1. mode' = "edit" /\ before' = log /\ log' = log /\ capture' = NoCapture
    BY <1>3 DEF StartEdit
  <2>2. Bracketed(<<>>, 0, 0)
    <3> DEFINE h == [i \in 0..0 |-> 0]
    <3>1. Heights(<<>>, h) /\ h[0] = 0 /\ h[Len(<<>>)] = 0
      BY DEF Heights
    <3> QED BY <3>1 DEF Bracketed
  <2> QED BY <1>1, <2>1, <2>2 DEF EditOK, NoCapture
<1>4. ASSUME mode = "edit", UNCHANGED <<log, mode, before>>, NEW item \in Items,
             capture.depth + Rise(item) \in Nat,
             capture'.items = Append(capture.items, item),
             capture'.depth = capture.depth + Rise(item)
      PROVE  EditOK'
  <2>1. Bracketed(capture.items, 0, capture.depth)
    BY <1>4 DEF EditOK
  <2>2. Bracketed(Append(capture.items, item), 0, capture.depth + Rise(item))
    BY <1>1, <1>4, <2>1, BracketedAppend
  <2> QED BY <1>4, <2>2 DEF EditOK
<1>5. ASSUME NEW item \in Items, item.tag \in {"Event", "Run"}, Capture(item) PROVE EditOK'
  <2>1. Rise(item) = 0
    BY <1>5 DEF Rise
  <2>2. /\ mode = "edit" /\ UNCHANGED <<log, mode, before>>
        /\ capture'.items = Append(capture.items, item) /\ capture'.depth = capture.depth
    BY <1>1, <1>5 DEF Capture, TypeOK
  <2> QED BY <1>1, <1>4, <2>1, <2>2
<1>6. CASE CaptureBegin
  <2>1. Rise(CompoundStart) = 1 /\ CompoundStart \in Items
    BY DEF Rise, CompoundStart, Items
  <2>2. /\ mode = "edit" /\ UNCHANGED <<log, mode, before>>
        /\ capture'.items = Append(capture.items, CompoundStart)
        /\ capture'.depth = capture.depth + 1
    BY <1>6 DEF CaptureBegin
  <2> QED BY <1>1, <1>4, <2>1, <2>2
<1>7. CASE CaptureEnd
  <2>1. Rise(CompoundEnd) = -1 /\ CompoundEnd \in Items
    BY DEF Rise, CompoundEnd, Items
  <2>2. /\ mode = "edit" /\ UNCHANGED <<log, mode, before>> /\ capture.depth > 0
        /\ capture'.items = Append(capture.items, CompoundEnd)
        /\ capture'.depth = capture.depth - 1
    BY <1>7 DEF CaptureEnd
  <2>3. capture.depth + Rise(CompoundEnd) \in Nat
        /\ capture.depth - 1 = capture.depth + Rise(CompoundEnd)
    BY <1>1, <2>1, <2>2
  <2> QED BY <1>4, <2>1, <2>2, <2>3
<1>8. ASSUME NEW outcome \in {"publish", "discard"}, FinishEdit(outcome) PROVE EditOK'
  <2>1. /\ mode = "edit" /\ mode' = outcome /\ log' = log /\ before' = before
        /\ capture'.items = capture.items \o [i \in 1..capture.depth |-> CompoundEnd]
    BY <1>8 DEF FinishEdit
  <2>2. log = before /\ Bracketed(capture.items, 0, capture.depth)
    BY <2>1 DEF EditOK
  <2>3. Bracketed(capture'.items, 0, 0)
    BY <1>1, <2>1, <2>2, BracketedClose
  <2>4. log.depth \in Nat /\ log.depth - log.depth = 0
    BY <1>1 DEF Logs
  <2>5. \A i \in DOMAIN log.retained : ~(log.retained[i].seq >= log.seq)
    <3>1. \A i \in DOMAIN log.retained : log.retained[i] \in Entries /\ log.retained[i].seq < log.seq
      BY <1>1, LenProperties, ElementOfSeq DEF LogOK, RetainedOK, Logs
    <3> QED BY <1>1, <3>1 DEF Entries, Logs
  <2> QED BY <1>1, <2>1, <2>2, <2>3, <2>4, <2>5 DEF EditOK, SameBelow
<1>9. CASE ReplayStep
  <2> DEFINE item == Head(capture.items)
             d == log.depth - before.depth
  <2>1. /\ mode \in {"publish", "discard"} /\ capture.items # <<>>
        /\ log' = ReplayItem(log, item, Retain) /\ UNCHANGED <<mode, before>>
        /\ capture'.items = Tail(capture.items)
    BY <1>1, <1>9 DEF ReplayStep, TypeOK
  <2>2. /\ LogOK(before) /\ before.depth <= log.depth
        /\ Bracketed(capture.items, d, 0)
        /\ SameBelow(log, before, before.depth)
        /\ before.depth # 0 =>
             \A i \in DOMAIN log.retained :
               log.retained[i].seq >= before.seq => log.retained[i].group = CurrentGroup(before)
    BY <2>1 DEF EditOK
  <2>3. before.depth \in Nat /\ log.depth \in Nat /\ d \in Nat
    BY <1>1, <2>2 DEF LogOK, Logs
  <2>4. item \in Items /\ Retain \in BOOLEAN
    BY <1>1, <2>1, HeadTailProperties DEF Retain
  <2>5. d + Rise(item) \in Nat /\ Bracketed(Tail(capture.items), d + Rise(item), 0)
    <3> HIDE DEF d
    <3> QED BY <1>1, <2>1, <2>2, <2>3, BracketedTail
  <2>6. Rise(item) \in {-1, 0, 1}
    BY RiseType
  <2>7. /\ log.depth + Rise(item) \in Nat /\ before.depth <= log.depth + Rise(item)
        /\ (log.depth + Rise(item)) - before.depth = d + Rise(item)
    BY <2>3, <2>5, <2>6
  <2> HIDE DEF item, d
  <2>8. /\ log'.depth = log.depth + Rise(item)
        /\ SameBelow(log', log, before.depth)
        /\ log.depth # 0 => Joins(log, log', CurrentGroup(log))
    BY <1>1, <2>1, <2>2, <2>3, <2>4, <2>7, ReplayItemDepth
  <2>9. SameBelow(log', before, before.depth)
    BY <2>2, <2>8 DEF SameBelow
  <2>10. ASSUME before.depth # 0, NEW i \in DOMAIN log'.retained, log'.retained[i].seq >= before.seq
         PROVE  log'.retained[i].group = CurrentGroup(before)
    <3>1. CurrentGroup(log) = CurrentGroup(before) /\ log.depth # 0
      BY <1>1, <2>2, <2>3, <2>10, SameGroup
    <3> QED BY <2>2, <2>8, <2>10, <3>1 DEF Joins
  <2> QED BY <2>1, <2>2, <2>5, <2>7, <2>8, <2>9, <2>10 DEF EditOK
<1>10. CASE ReplayDone
  <2>1. mode' = "idle"
    BY <1>10 DEF ReplayDone
  <2> QED BY <2>1 DEF EditOK
<1>11. \A e \in Events : Plain(e) \in Items /\ Plain(e).tag = "Event"
  BY DEF Plain, Items
<1>12. \A members \in Runs : Run(members) \in Items /\ Run(members).tag = "Run"
  <2> TAKE members \in Runs
  <2>1. PICK n \in 1..MaxRun : members \in [1..n -> Events]
    BY DEF Runs
  <2>2. n \in Nat
    BY BoundsAssumption
  <2> QED BY <2>1, <2>2 DEF Run, Items
<1>13. CASE DirectUse
  BY <1>2, <1>13 DEF DirectUse, Record, Begin, End, SetMaxChangelogEvents, SetEnabled, Truncate,
                     Clear
<1>14. CASE Editing
  BY <1>3, <1>5, <1>6, <1>7, <1>8, <1>11, <1>12, <1>14 DEF Editing
<1> QED BY <1>9, <1>10, <1>13, <1>14 DEF Next

\* EditIsOneGroup, for every nesting of compounds in the log and in the
\* edit: an edit closes what it opened and nothing else, and what it adds is
\* in the group it was made in.
THEOREM EditsAreOneGroup == Spec => EditIsOneGroup
<1> DEFINE A == mode # "idle" /\ mode' = "idle"
                  => log'.depth = before.depth /\ log'.stack = before.stack
           B == mode = "publish" /\ mode' = "idle" /\ before.depth > 0
                  => \A i \in DOMAIN log'.retained :
                       log'.retained[i].seq >= before.seq
                         => log'.retained[i].group = CurrentGroup(before)
<1>1. Init => EditOK
  BY DEF Init, EditOK
<1>2. IInv /\ EditOK /\ [Next]_vars => EditOK'
  <2>1. IInv /\ EditOK /\ Next => EditOK'
    BY StepEditOK
  <2>2. EditOK /\ UNCHANGED vars => EditOK'
    BY DEF vars, EditOK
  <2> QED BY <2>1, <2>2
<1>3. Spec => []EditOK
  BY <1>1, <1>2, Inductive, PTL DEF Spec
<1>4. IInv /\ EditOK /\ [Next]_vars => [A]_vars /\ [B]_vars
  <2> SUFFICES ASSUME IInv, EditOK, Next, mode # "idle", mode' = "idle"
               PROVE  A /\ B
    OBVIOUS
  <2>1. ReplayDone
    BY DEF Next, DirectUse, Editing, Record, Begin, End, SetMaxChangelogEvents,
           SetEnabled, Truncate, Clear, StartEdit, Capture, CaptureBegin, CaptureEnd,
           FinishEdit, ReplayStep
  <2>2. /\ mode \in {"publish", "discard"} /\ capture.items = <<>>
        /\ log' = EnforceCap(log) \/ log' = log
    BY <2>1 DEF ReplayDone, Retain
  <2>3. LogOK(log) /\ LogOK(before) /\ log \in Logs /\ before \in Logs
    BY <2>2 DEF IInv, EditOK, LogOK
  <2>4. /\ before.depth <= log.depth
        /\ Bracketed(<<>>, log.depth - before.depth, 0)
        /\ SameBelow(log, before, before.depth)
        /\ before.depth # 0 =>
             \A i \in DOMAIN log.retained :
               log.retained[i].seq >= before.seq => log.retained[i].group = CurrentGroup(before)
    BY <2>2 DEF EditOK
  <2>5. log'.depth = log.depth /\ log'.stack = log.stack /\ \A g : Joins(log, log', g)
    BY <2>2, <2>3, EnforceCapKeeps DEF Joins
  <2>6. log.depth = before.depth
    <3>1. log.depth - before.depth = 0
      BY <2>4 DEF Bracketed
    <3> QED BY <2>3, <3>1 DEF Logs
  <2>7. log.stack = before.stack
    <3>1. /\ log.stack \in Seq(Nat) /\ before.stack \in Seq(Nat)
          /\ Len(log.stack) = log.depth /\ Len(before.stack) = before.depth
      BY <2>3 DEF LogOK, StackOK, Logs
    <3>2. \A i \in 1..Len(log.stack) : log.stack[i] = before.stack[i]
      BY <2>4, <2>6, <3>1 DEF SameBelow
    <3> QED BY <2>6, <3>1, <3>2, SeqEqual
  <2>8. ASSUME before.depth > 0, NEW i \in DOMAIN log'.retained, log'.retained[i].seq >= before.seq
        PROVE  log'.retained[i].group = CurrentGroup(before)
    <3>1. before.depth # 0
      BY <2>3, <2>8 DEF Logs
    <3> QED BY <2>4, <2>5, <2>8, <3>1 DEF Joins
  <2> QED BY <2>5, <2>6, <2>7, <2>8
<1>5. Spec => [][A]_vars /\ [][B]_vars
  BY <1>3, <1>4, Inductive, PTL DEF Spec
<1> QED BY <1>5, PTL DEF EditIsOneGroup, EditIsBracketed, EditJoinsCompound
=============================================================================
