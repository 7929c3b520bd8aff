-------------------------- MODULE SeqNumbersProofs --------------------------
(***************************************************************************)
(* Which row a number names, and which turn pays for it, for any number of *)
(* rows, queries, turns and faults.                                        *)
(***************************************************************************)
EXTENDS SeqNumbers, TLAPS, WellFoundedInduction

LEMMA LeastNatural ==
  ASSUME NEW T \in SUBSET Nat, T # {}
  PROVE  \E x \in T : \A y \in T : x <= y
<1> DEFINE R == {ss \in Nat \X Nat : ss[1] < ss[2]}
<1>1. IsWellFoundedOn(R, Nat)
  BY NatLessThanWellFounded DEF OpToRel
<1>2. PICK x \in T : \A y \in T : ~(<<y, x>> \in R)
  BY <1>1, WFMin
<1>3. \A y \in T : x <= y
  <2> SUFFICES ASSUME NEW y \in T, ~(x <= y)
      PROVE  FALSE
    OBVIOUS
  <2>1. x \in Nat /\ y \in Nat /\ y < x
    OBVIOUS
  <2> QED
    BY <2>1, <1>2
<1> QED
  BY <1>3

\* MaxOf is the maximum of a bounded set of numbers.
LEMMA MaxOfIsMax ==
  ASSUME NEW S \in SUBSET Nat, NEW b \in Nat, \A n \in S : n <= b
  PROVE  /\ MaxOf(S) \in Nat /\ \A n \in S : n <= MaxOf(S)
         /\ S # {} => MaxOf(S) \in S
<1>1. CASE S = {}
  BY <1>1 DEF MaxOf
<1>2. CASE S # {}
  <2> DEFINE T == {u \in Nat : \A n \in S : n <= u}
  <2>1. PICK u \in T : \A v \in T : u <= v
    <3>1. T \in SUBSET Nat /\ b \in T
      OBVIOUS
    <3> QED
      BY <3>1, LeastNatural
  <2>2. u \in S
    <3> SUFFICES ASSUME u \notin S
        PROVE  FALSE
      OBVIOUS
    <3>1. PICK n \in S : TRUE
      BY <1>2
    <3>2. n <= u /\ n # u /\ u \in Nat /\ n \in Nat
      BY <2>1
    <3>3. u - 1 \in Nat
      BY <3>2
    <3>4. \A m \in S : m <= u - 1
      <4> TAKE m \in S
      <4>1. m \in Nat /\ m <= u /\ m # u
        BY <2>1
      <4> QED
        BY <4>1, <3>2
    <3>5. u - 1 \in T
      BY <3>3, <3>4
    <3>6. u <= u - 1
      BY <3>5, <2>1
    <3> QED
      BY <3>6, <3>2
  <2>3. \E x \in S : \A m \in S : m <= x
    BY <2>1, <2>2
  <2>4. MaxOf(S) \in S /\ \A m \in S : m <= MaxOf(S)
    BY <2>3, <1>2 DEF MaxOf
  <2> QED
    BY <2>4
<1> QED
  BY <1>1, <1>2

LEMMA Parity ==
  ASSUME NEW m \in Nat
  PROVE  /\ NextOdd(m) \in Nat /\ NextOdd(m) > m /\ NextOdd(m) % 2 = 1 /\ NextOdd(m) # 0
         /\ (m % 2 = 0) => (m + 2) % 2 = 0
  BY DEF NextOdd

------------------------------------------------------------------------------
(* The invariant.                                                          *)

USE Bounds, NoneIsNew

Bounded ==
    /\ \E b \in Nat : \A n \in inbound \cup Numbers : n <= b
    /\ mark = 0 \/ \E n \in Numbers : mark <= n

\* Only the host's rows of messages_out may have an even number.
Parities ==
    /\ \A n \in inbound : n % 2 = 0
    /\ \A w \in Writers : plan[w] # 0 => plan[w] % 2 = 1

ShownAreThere == \A s \in shown :
    \/ s[1] = "in" /\ s[2] \in inbound
    \/ s[1] = "out" /\ s[2] \in Numbers /\ s[2] % 2 = 1

\* A turn runs for the query the loop reads, or for one it has abandoned.
TurnsRun ==
    /\ \A q \in Queries :
         /\ plan[q] # 0 => provider[q] = "turn"
         /\ provider[q] = "turn" =>
              /\ q <= query /\ turn[q] \in 1..MaxTurns
              /\ q \in orphans \/ (q = query /\ loop = "reading")
    /\ plan[Loop] # 0 => loop \in {"reading", "replying", "failed"}
    /\ loop \in {"reading", "replying", "failed"} => query \in Queries /\ turn[query] \in 1..MaxTurns
    /\ loop \in {"reading", "replying"} => query \notin orphans
    /\ loop = "replying" => provider[query] = "rest"
    /\ \A q \in orphans : q <= query

Known(r) == r.turn # None => r.turn[1] <= query /\ r.turn[2] <= turn[r.turn[1]]

\* What lies above the mark: the rows of this query, those of earlier turns with their usage, and
\* rows of abandoned queries.
AboveMark(r) ==
    r.turn # None =>
        /\ r.turn[1] = query /\ r.kind # "trace" =>
             /\ r.seq > mark
             /\ \/ r.usage # None
                \/ r.turn[2] = turn[query] /\ (provider[query] = "turn" \/ loop = "replying")
        /\ r.turn[1] # query /\ r.seq > mark => r.turn[1] \in orphans

RowsAreSorted ==
    /\ \A r \in outbound : Known(r)
    /\ loop \in {"reading", "replying"} =>
         /\ \A r \in outbound : AboveMark(r)
         /\ \A w \in {Loop, query} : plan[w] # 0 => plan[w] > mark

IInv ==
    /\ TypeOK /\ Bounded /\ Parities /\ ShownAreThere
    /\ TurnsRun /\ RowsAreSorted /\ UsageIsOfItsTurn /\ CutIsReported

LEMMA LoopIsNoQuery == Loop \notin Queries /\ Writers = {Loop} \cup Queries
  BY DEF Loop, Queries, Writers

LEMMA InitInv == Init => IInv
  <1> SUFFICES ASSUME Init
      PROVE  IInv
    OBVIOUS
  <1>1. Numbers = {}
    BY DEF Init, Numbers
  <1> QED
    BY <1>1 DEF Init, IInv, TypeOK, Bounded, Parities, ShownAreThere, TurnsRun, RowsAreSorted, UsageIsOfItsTurn,
       CutIsReported, Loop, Writers, Queries

LEMMA NumbersAreNat ==
  ASSUME TypeOK
  PROVE  Numbers \subseteq Nat
  BY DEF TypeOK, Numbers

\* What a writer reads is above the mark, and odd.
LEMMA ReadParts ==
  ASSUME IInv, NEW w \in Writers, Reads(w)
  PROVE  \E n \in Nat : plan' = [plan EXCEPT ![w] = n] /\ n % 2 = 1 /\ n # 0 /\ n > mark
<1> USE DEF IInv
<1>1. PICK old \in SUBSET inbound : plan' = [plan EXCEPT ![w] = NextOdd(MaxOf(Numbers \cup old))]
  BY DEF Reads
<1> DEFINE S == Numbers \cup old
<1>2. S \in SUBSET Nat /\ mark \in Nat
  BY NumbersAreNat DEF TypeOK
<1>3. PICK b \in Nat : \A n \in inbound \cup Numbers : n <= b
  BY DEF Bounded
<1>4. MaxOf(S) \in Nat /\ \A n \in S : n <= MaxOf(S)
  <2>1. \A n \in S : n <= b
    BY <1>3
  <2> HIDE DEF S
  <2> QED
    BY <2>1, <1>2, MaxOfIsMax
<1>5. mark <= MaxOf(S)
  BY <1>2, <1>4 DEF Bounded
<1> HIDE DEF S
<1>6. NextOdd(MaxOf(S)) \in Nat /\ NextOdd(MaxOf(S)) > MaxOf(S) /\ NextOdd(MaxOf(S)) % 2 = 1 /\ NextOdd(MaxOf(S)) # 0
  BY <1>4, Parity
<1>7. NextOdd(MaxOf(S)) > mark
  BY <1>2, <1>4, <1>5, <1>6
<1> QED
  BY <1>1, <1>6, <1>7 DEF S

LEMMA WriteParts ==
  ASSUME IInv, NEW w \in Writers, NEW kind \in Kinds, NEW q \in Queries, turn[q] \in 1..MaxTurns,
         NEW usage \in Turns \cup {None}, Writes(w, kind, q, usage)
  PROVE  /\ outbound' = outbound \cup {[seq |-> plan[w], by |-> w, kind |-> kind, turn |-> <<q, turn[q]>>, usage |-> usage]}
         /\ Numbers' = Numbers \cup {plan[w]} /\ plan[w] \in Nat /\ plan[w] # 0 /\ plan[w] % 2 = 1
         /\ <<q, turn[q]>> \in Turns
         /\ plan' = [plan EXCEPT ![w] = 0] /\ plan' \in [Writers -> Nat]
         /\ \A v \in Writers : plan'[v] = IF v = w THEN 0 ELSE plan[v]
<1> USE DEF IInv
<1>1. outbound' = outbound \cup {[seq |-> plan[w], by |-> w, kind |-> kind, turn |-> <<q, turn[q]>>, usage |-> usage]}
  BY DEF Writes
<1>2. Numbers' = Numbers \cup {plan[w]}
  <2> DEFINE row == [seq |-> plan[w], by |-> w, kind |-> kind, turn |-> <<q, turn[q]>>, usage |-> usage]
  <2>1. row.seq = plan[w] /\ outbound' = outbound \cup {row}
    BY <1>1
  <2> HIDE DEF row
  <2>2. Numbers' = {r.seq : r \in outbound \cup {row}}
    BY <2>1 DEF Numbers
  <2> QED
    BY <2>1, <2>2 DEF Numbers
<1>3. <<q, turn[q]>> \in Turns
  BY DEF Turns
<1>4. plan[w] \in Nat /\ plan[w] # 0 /\ plan[w] % 2 = 1 /\ plan' = [plan EXCEPT ![w] = 0]
  BY DEF Writes, TypeOK, Parities
<1>5. plan' \in [Writers -> Nat] /\ \A v \in Writers : plan'[v] = IF v = w THEN 0 ELSE plan[v]
  BY <1>4 DEF TypeOK
<1> QED
  BY <1>1, <1>2, <1>3, <1>4, <1>5

\* A bound, and a mark, survive a new number.
LEMMA StillBounded ==
  ASSUME Bounded, TypeOK, UNCHANGED mark,
         NEW m \in Nat, inbound' \subseteq inbound \cup {m}, Numbers' \subseteq Numbers \cup {m}, Numbers \subseteq Numbers'
  PROVE  Bounded'
<1>1. PICK b \in Nat : \A n \in inbound \cup Numbers : n <= b
  BY DEF Bounded
<1>2. inbound \subseteq Nat /\ Numbers \subseteq Nat
  BY NumbersAreNat DEF TypeOK
<1>3. \A n \in inbound' \cup Numbers' : n <= b + m
  BY <1>1, <1>2
<1>4. b + m \in Nat
  OBVIOUS
<1> QED
  BY <1>3, <1>4 DEF Bounded

------------------------------------------------------------------------------
(* The host.                                                               *)

LEMMA HostKeeps ==
  ASSUME IInv, HostInserts \/ HostDenies
  PROVE  IInv'
<1> USE DEF IInv
<1>1. CASE HostInserts
  <2>1. /\ inbound' = inbound \cup {NextEven} /\ Numbers' = Numbers
        /\ UNCHANGED <<outbound, plan, loop, provider, query, turn, mark, shown, faults, orphans, cut>>
    BY <1>1 DEF HostInserts, Numbers
  <2>2. NextEven \in Nat /\ NextEven % 2 = 0
    <3>1. PICK b \in Nat : \A n \in inbound \cup Numbers : n <= b
      BY DEF Bounded
    <3>2. inbound \in SUBSET Nat
      BY DEF TypeOK
    <3>3. MaxOf(inbound) \in Nat /\ (inbound # {} => MaxOf(inbound) \in inbound)
      BY <3>1, <3>2, MaxOfIsMax
    <3>4. MaxOf(inbound) % 2 = 0
      <4>1. CASE inbound = {}
        BY <4>1 DEF MaxOf
      <4>2. CASE inbound # {}
        BY <4>2, <3>3 DEF Parities
      <4> QED
        BY <4>1, <4>2
    <3>5. NextEven = IF MaxOf(inbound) < 2 THEN 2 ELSE MaxOf(inbound) + 2
      BY <3>3, <3>4 DEF NextEven
    <3> HIDE DEF IInv
    <3> QED
      BY <3>3, <3>4, <3>5, Parity
  <2>3. TypeOK'
    BY <2>1, <2>2 DEF TypeOK
  <2>4. Bounded'
    BY <2>1, <2>2, StillBounded
  <2>5. Parities' /\ ShownAreThere'
    BY <2>1, <2>2 DEF Parities, ShownAreThere
  <2>6. TurnsRun' /\ RowsAreSorted' /\ UsageIsOfItsTurn' /\ CutIsReported'
    BY <2>1 DEF TurnsRun, RowsAreSorted, Known, AboveMark, UsageIsOfItsTurn, CutIsReported
  <2> QED
    BY <2>3, <2>4, <2>5, <2>6
<1>2. CASE HostDenies
  <2> DEFINE m == MaxOf(Numbers) + 2
             row == [seq |-> m, by |-> None, kind |-> "send", turn |-> None, usage |-> None]
  <2>1. /\ outbound' = outbound \cup {row} /\ faults' \in 0..MaxFaults
        /\ UNCHANGED <<inbound, plan, loop, provider, query, turn, mark, shown, orphans, cut>>
    BY <1>2 DEF HostDenies, Fault, TypeOK
  <2>2. m \in Nat
    <3>1. PICK b \in Nat : \A n \in inbound \cup Numbers : n <= b
      BY DEF Bounded
    <3>2. MaxOf(Numbers) \in Nat
      BY <3>1, NumbersAreNat, MaxOfIsMax
    <3> QED
      BY <3>2
  <2>3. /\ row.seq = m /\ row.by = None /\ row.kind = "send" /\ row.turn = None /\ row.usage = None
    OBVIOUS
  <2> HIDE DEF row, m
  <2>4. Numbers' = Numbers \cup {m}
    <3>1. Numbers' = {r.seq : r \in outbound \cup {row}}
      BY <2>1 DEF Numbers
    <3> QED
      BY <3>1, <2>3 DEF Numbers
  <2>5. TypeOK'
    <3>1. row \in [seq : Nat, by : Writers \cup {None}, kind : Kinds,
                   turn : Turns \cup {None}, usage : Turns \cup {None}]
      BY <2>2 DEF row, Kinds
    <3> QED
      BY <3>1, <2>1 DEF TypeOK
  <2>6. Bounded'
    BY <2>1, <2>2, <2>4, StillBounded
  <2>7. Parities' /\ ShownAreThere'
    BY <2>1, <2>4 DEF Parities, ShownAreThere
  <2>8. TurnsRun' /\ UsageIsOfItsTurn' /\ CutIsReported'
    BY <2>1, <2>3 DEF TurnsRun, UsageIsOfItsTurn, CutIsReported
  <2>9. RowsAreSorted'
    BY <2>1, <2>3 DEF RowsAreSorted, Known, AboveMark
  <2> QED
    BY <2>5, <2>6, <2>7, <2>8, <2>9
<1> QED
  BY <1>1, <1>2

------------------------------------------------------------------------------
(* Reading the maxima, and failing to write.                               *)

LEMMA ReadsKeep ==
  ASSUME IInv, NEW w \in Writers, Reads(w),
         UNCHANGED <<inbound, outbound, loop, provider, query, turn, mark, shown, orphans, cut>>,
         faults' \in 0..MaxFaults,
         w # Loop => provider[w] = "turn",
         w = Loop => loop \in {"reading", "replying", "failed"}
  PROVE  IInv'
<1> USE DEF IInv
<1>1. PICK n \in Nat : plan' = [plan EXCEPT ![w] = n] /\ n % 2 = 1 /\ n # 0 /\ n > mark
  BY ReadParts
<1>2. plan' \in [Writers -> Nat] /\ \A v \in Writers : plan'[v] = IF v = w THEN n ELSE plan[v]
  BY <1>1 DEF TypeOK
<1>3. Numbers' = Numbers
  BY DEF Numbers
<1>4. TypeOK' /\ Bounded'
  BY <1>2, <1>3 DEF TypeOK, Bounded
<1>5. Parities' /\ ShownAreThere'
  BY <1>1, <1>2, <1>3 DEF Parities, ShownAreThere
<1>6. TurnsRun'
  <2>1. ASSUME NEW q \in Queries, plan'[q] # 0
        PROVE  provider[q] = "turn"
    <3>1. CASE q = w
      BY <3>1, LoopIsNoQuery
    <3>2. CASE q # w
      BY <2>1, <3>2, <1>2, LoopIsNoQuery DEF TurnsRun
    <3> QED
      BY <3>1, <3>2
  <2>2. plan'[Loop] # 0 => loop \in {"reading", "replying", "failed"}
    BY <1>2 DEF TurnsRun, Writers
  <2> QED
    BY <2>1, <2>2 DEF TurnsRun
<1>7. RowsAreSorted'
  <2>1. loop \in {"reading", "replying"} => \A v \in {Loop, query} : plan'[v] # 0 => plan'[v] > mark
    BY <1>1, <1>2 DEF RowsAreSorted, TurnsRun, Writers
  <2> QED
    BY <2>1 DEF RowsAreSorted, Known, AboveMark
<1>8. UsageIsOfItsTurn' /\ CutIsReported'
  BY DEF UsageIsOfItsTurn, CutIsReported
<1> QED
  BY <1>4, <1>5, <1>6, <1>7, <1>8

LEMMA ThrowsKeep ==
  ASSUME IInv, (\E q \in Queries : ToolThrows(q)) \/ LoopThrows
  PROVE  IInv'
<1> USE DEF IInv
<1>1. PICK w \in Writers : Throws(w) /\ (w = Loop => LoopThrows) /\ (w # Loop => ToolThrows(w))
  BY DEF Writers, Loop, Queries, ToolThrows, LoopThrows
<1>2. /\ UNCHANGED <<inbound, outbound, provider, query, turn, mark, shown>>
      /\ faults' \in 0..MaxFaults /\ plan' = [plan EXCEPT ![w] = 0] /\ Numbers' = Numbers
  BY <1>1 DEF ToolThrows, LoopThrows, Throws, Fault, TypeOK, Numbers
<1>3. plan' \in [Writers -> Nat] /\ \A v \in Writers : plan'[v] = IF v = w THEN 0 ELSE plan[v]
  BY <1>2 DEF TypeOK
<1>4. Bounded' /\ Parities' /\ ShownAreThere'
  BY <1>2, <1>3 DEF Bounded, Parities, ShownAreThere
<1>5. CASE w # Loop
  <2>1. UNCHANGED <<loop, orphans, cut>>
    BY <1>1, <1>5 DEF ToolThrows
  <2>2. TypeOK'
    BY <2>1, <1>2, <1>3 DEF TypeOK
  <2>3. TurnsRun' /\ UsageIsOfItsTurn' /\ CutIsReported'
    BY <2>1, <1>2, <1>3, <1>5 DEF TurnsRun, UsageIsOfItsTurn, CutIsReported, Writers
  <2>4. RowsAreSorted'
    BY <2>1, <1>2, <1>3, <1>5 DEF RowsAreSorted, Known, AboveMark, Writers, TurnsRun
  <2> QED
    BY <2>2, <2>3, <2>4, <1>4
<1>6. CASE w = Loop
  <2>1. /\ loop \in {"reading", "replying"} /\ loop' = "failed"
        /\ orphans' = (IF provider[query] = "turn" THEN orphans \cup {query} ELSE orphans)
        /\ cut' = cut \cup {query} /\ query \in Queries
    BY <1>1, <1>6 DEF LoopThrows, Failed, TurnsRun
  <2>2. TypeOK'
    BY <2>1, <1>2, <1>3 DEF TypeOK
  <2>3. TurnsRun'
    <3>1. orphans \subseteq orphans' /\ \A q \in orphans' : q <= query
      BY <2>1 DEF TurnsRun, Queries
    <3>2. \A q \in Queries : provider[q] = "turn" => q \in orphans'
      BY <2>1 DEF TurnsRun
    <3> QED
      BY <2>1, <1>2, <1>3, <1>6, <3>1, <3>2 DEF TurnsRun, Writers
  <2>4. UsageIsOfItsTurn'
    BY <2>1, <1>2 DEF UsageIsOfItsTurn
  <2>5. CutIsReported'
    BY <2>1, <1>2 DEF CutIsReported
  <2>6. RowsAreSorted'
    BY <2>1, <1>2 DEF RowsAreSorted, Known
  <2> QED
    BY <2>2, <2>3, <2>4, <2>5, <2>6, <1>4
<1> QED
  BY <1>5, <1>6

------------------------------------------------------------------------------
(* A row of the container.                                                 *)

\* What every write keeps, and that the numbers shown are still right.
LEMMA WriteKeeps ==
  ASSUME IInv, NEW w \in Writers, NEW kind \in Kinds, NEW q \in Queries, turn[q] \in 1..MaxTurns,
         NEW usage \in {None, <<q, turn[q]>>}, Writes(w, kind, q, usage),
         UNCHANGED <<inbound, provider, query, turn, mark, faults, orphans, cut>>,
         loop' \in {"idle", "reading", "replying", "failed", "dead"},
         shown' \subseteq shown \cup {<<"out", plan[w]>>}
  PROVE  /\ TypeOK' /\ Bounded' /\ Parities' /\ ShownAreThere' /\ UsageIsOfItsTurn'
         /\ (q <= query => \A r \in outbound' : Known(r)')
<1> USE DEF IInv
<1> DEFINE row == [seq |-> plan[w], by |-> w, kind |-> kind, turn |-> <<q, turn[q]>>, usage |-> usage]
<1>1. <<q, turn[q]>> \in Turns
  BY DEF Turns
<1>2. /\ outbound' = outbound \cup {row}
      /\ Numbers' = Numbers \cup {plan[w]} /\ plan[w] \in Nat /\ plan[w] # 0 /\ plan[w] % 2 = 1
      /\ plan' \in [Writers -> Nat] /\ \A v \in Writers : plan'[v] = IF v = w THEN 0 ELSE plan[v]
  BY <1>1, WriteParts
<1>3. row.seq = plan[w] /\ row.by = w /\ row.kind = kind /\ row.turn = <<q, turn[q]>> /\ row.usage = usage
  OBVIOUS
<1> HIDE DEF row
<1>4. TypeOK'
  <2>1. outbound' \subseteq [seq : Nat, by : Writers \cup {None}, kind : Kinds,
                            turn : Turns \cup {None}, usage : Turns \cup {None}]
    BY <1>1, <1>2 DEF TypeOK, row
  <2>2. shown' \subseteq {"in", "out"} \X Nat
    BY <1>2 DEF TypeOK
  <2> QED
    BY <1>2, <2>1, <2>2 DEF TypeOK
<1>5. Bounded'
  BY <1>2, StillBounded
<1>6. Parities'
  BY <1>2 DEF Parities
<1>7. ShownAreThere'
  <2> SUFFICES ASSUME NEW s \in shown'
      PROVE  \/ s[1] = "in" /\ s[2] \in inbound
             \/ s[1] = "out" /\ s[2] \in Numbers' /\ s[2] % 2 = 1
    BY DEF ShownAreThere
  <2>1. CASE s \in shown
    BY <2>1, <1>2 DEF ShownAreThere
  <2>2. CASE s = <<"out", plan[w]>>
    BY <2>2, <1>2
  <2> QED
    BY <2>1, <2>2
<1>8. UsageIsOfItsTurn'
  BY <1>2, <1>3 DEF UsageIsOfItsTurn
<1>9. ASSUME q <= query
      PROVE  \A r \in outbound' : Known(r)'
  <2>1. \A r \in outbound : Known(r)'
    BY DEF RowsAreSorted, Known
  <2>2. row.turn[1] = q /\ row.turn[2] = turn[q]
    BY <1>3
  <2>3. \A x \in outbound' : x = row => x.turn[1] <= query' /\ x.turn[2] <= turn'[x.turn[1]]
    BY <2>2, <1>9
  <2>4. \A x \in outbound' : x = row => Known(x)'
    BY <2>3 DEF Known
  <2> QED
    BY <2>1, <2>4, <1>2
<1> QED
  BY <1>4, <1>5, <1>6, <1>7, <1>8, <1>9

LEMMA ToolWritesKeep ==
  ASSUME IInv, NEW q \in Queries, ToolWrites(q)
  PROVE  IInv'
<1> USE DEF IInv
<1>1. /\ provider[q] = "turn" /\ Writes(q, "send", q, None) /\ q \in Writers /\ "send" \in Kinds
      /\ shown' = shown \cup {<<"out", plan[q]>>}
      /\ UNCHANGED <<inbound, loop, provider, query, turn, mark, faults, orphans, cut>>
  BY LoopIsNoQuery DEF ToolWrites, Kinds
<1>2. turn[q] \in 1..MaxTurns /\ q <= query /\ (q \in orphans \/ (q = query /\ loop = "reading"))
  BY <1>1 DEF TurnsRun
<1> DEFINE row == [seq |-> plan[q], by |-> q, kind |-> "send", turn |-> <<q, turn[q]>>, usage |-> None]
<1>3. /\ outbound' = outbound \cup {row} /\ plan[q] # 0
      /\ \A v \in Writers : plan'[v] = IF v = q THEN 0 ELSE plan[v]
  BY <1>1, <1>2, WriteParts
<1>4. row.seq = plan[q] /\ row.kind = "send" /\ row.turn[1] = q /\ row.turn[2] = turn[q]
  OBVIOUS
<1> HIDE DEF row
<1>5. /\ TypeOK' /\ Bounded' /\ Parities' /\ ShownAreThere' /\ UsageIsOfItsTurn'
      /\ \A r \in outbound' : Known(r)'
  <2>1. loop' \in {"idle", "reading", "replying", "failed", "dead"}
    BY <1>1 DEF TypeOK
  <2> QED
    BY <1>1, <1>2, <2>1, WriteKeeps
<1>6. TurnsRun'
  BY <1>1, <1>3, LoopIsNoQuery DEF TurnsRun
<1>7. CutIsReported'
  BY <1>1, <1>3 DEF CutIsReported
<1>8. ASSUME loop \in {"reading", "replying"}
      PROVE  /\ \A r \in outbound' : AboveMark(r)'
             /\ \A v \in {Loop, query} : plan'[v] # 0 => plan'[v] > mark
  <2>1. \A r \in outbound : AboveMark(r)'
    BY <1>1, <1>8 DEF RowsAreSorted, AboveMark
  <2>2. q = query => plan[q] > mark /\ provider[query] = "turn"
    BY <1>1, <1>3, <1>8 DEF RowsAreSorted
  <2>3. \A r \in outbound' : r = row => AboveMark(r)'
    BY <1>1, <1>2, <1>4, <2>2 DEF AboveMark
  <2>4. \A v \in {Loop, query} : plan'[v] # 0 => plan'[v] > mark
    BY <1>3, <1>8, LoopIsNoQuery DEF RowsAreSorted, TurnsRun
  <2> QED
    BY <2>1, <2>3, <2>4, <1>3
<1> QED
  BY <1>1, <1>5, <1>6, <1>7, <1>8 DEF RowsAreSorted

LEMMA LoopWritesKeep ==
  ASSUME IInv, LoopTraces \/ LoopReplies \/ ErrorWritten
  PROVE  IInv'
<1> USE DEF IInv
<1>1. PICK kind \in {"trace", "reply", "error"}, usage \in {None, <<query, turn[query]>>} :
        /\ Writes(Loop, kind, query, usage)
        /\ kind = "trace" => loop = "reading" /\ loop' = "reading"
        /\ kind = "reply" => loop = "replying" /\ loop' = "replying" /\ usage # None
        /\ kind = "error" => loop = "failed" /\ loop' = "idle"
  BY DEF LoopTraces, LoopReplies, ErrorWritten, Turns, TypeOK, TurnsRun
<1>2. /\ UNCHANGED <<inbound, provider, query, turn, mark, shown, faults, orphans, cut>>
      /\ query \in Queries /\ turn[query] \in 1..MaxTurns
      /\ kind \in Kinds /\ Loop \in Writers /\ loop' \in {"idle", "reading", "replying"}
  BY <1>1, LoopIsNoQuery DEF LoopTraces, LoopReplies, ErrorWritten, TurnsRun, Kinds
<1> DEFINE row == [seq |-> plan[Loop], by |-> Loop, kind |-> kind, turn |-> <<query, turn[query]>>, usage |-> usage]
<1>3. /\ outbound' = outbound \cup {row} /\ plan[Loop] # 0
      /\ \A v \in Writers : plan'[v] = IF v = Loop THEN 0 ELSE plan[v]
  <2>1. usage \in Turns \cup {None}
    BY <1>2 DEF Turns
  <2> QED
    BY <1>1, <1>2, <2>1, WriteParts
<1>4. row.seq = plan[Loop] /\ row.kind = kind /\ row.turn[1] = query /\ row.turn[2] = turn[query] /\ row.usage = usage
  OBVIOUS
<1> HIDE DEF row
<1>5. /\ TypeOK' /\ Bounded' /\ Parities' /\ ShownAreThere' /\ UsageIsOfItsTurn'
      /\ \A r \in outbound' : Known(r)'
  <2>1. query <= query
    BY <1>2 DEF Queries
  <2> QED
    BY <1>1, <1>2, <2>1, WriteKeeps
<1>6. TurnsRun'
  <2>1. \A q \in Queries : plan'[q] = plan[q]
    BY <1>3, LoopIsNoQuery
  <2>2. plan'[Loop] = 0
    BY <1>3, LoopIsNoQuery
  <2>3. loop' = loop \/ (loop = "failed" /\ loop' = "idle")
    BY <1>1
  <2> QED
    BY <1>2, <2>1, <2>2, <2>3 DEF TurnsRun
<1>7. CutIsReported'
  <2>1. \A q \in cut : q # query \/ loop # "failed" =>
            \E r \in outbound' : r.kind = "error" /\ r.turn[1] = q
    BY <1>3 DEF CutIsReported
  <2>2. loop = "failed" => \E r \in outbound' : r.kind = "error" /\ r.turn[1] = query
    BY <1>1, <1>3, <1>4
  <2> QED
    BY <1>2, <2>1, <2>2 DEF CutIsReported
<1>8. ASSUME loop' \in {"reading", "replying"}
      PROVE  /\ \A r \in outbound' : AboveMark(r)'
             /\ \A v \in {Loop, query} : plan'[v] # 0 => plan'[v] > mark
  <2>1. loop' = loop /\ loop \in {"reading", "replying"} /\ kind # "error" /\ (kind = "reply" => usage # None)
    BY <1>1, <1>8
  <2>2. \A r \in outbound : AboveMark(r)'
    BY <2>1, <1>2 DEF RowsAreSorted, AboveMark
  <2>3. plan[Loop] > mark
    BY <2>1, <1>3 DEF RowsAreSorted
  <2>4. \A r \in outbound' : r = row => AboveMark(r)'
    BY <1>1, <1>2, <1>4, <2>1, <2>3 DEF AboveMark
  <2>5. \A v \in {Loop, query} : plan'[v] # 0 => plan'[v] > mark
    BY <1>2, <1>3, <2>1, LoopIsNoQuery DEF RowsAreSorted
  <2> QED
    BY <2>2, <2>4, <2>5, <1>3
<1> QED
  BY <1>2, <1>5, <1>6, <1>7, <1>8 DEF RowsAreSorted

------------------------------------------------------------------------------
(* The query and its turns.                                                *)

\* No row is above the mark of a query that starts, and none is its own.
LEMMA QueryStartsKeeps ==
  ASSUME IInv, QueryStarts
  PROVE  IInv'
<1> USE DEF IInv
<1> DEFINE new == query + 1
<1>1. /\ loop = "idle" /\ plan[Loop] = 0 /\ query' = new /\ loop' = "reading"
      /\ provider' = [provider EXCEPT ![new] = "turn"] /\ turn' = [turn EXCEPT ![new] = 1]
      /\ mark' = MaxOf(Numbers) /\ shown' = shown \cup {<<"in", n>> : n \in inbound}
      /\ new \in Queries /\ new \in 0..MaxQueries /\ new > query /\ query \in Nat
      /\ UNCHANGED <<inbound, outbound, plan, faults, orphans, cut>> /\ Numbers' = Numbers
  BY DEF QueryStarts, MarkAtStart, TypeOK, Queries, Numbers
<1>2. /\ \A n \in Numbers : n <= mark' /\ mark' \in Nat
      /\ Numbers # {} => mark' \in Numbers
      /\ Numbers = {} => mark' = 0
  <2>1. PICK b \in Nat : \A n \in inbound \cup Numbers : n <= b
    BY DEF Bounded
  <2>2. Numbers = {} => MaxOf(Numbers) = 0
    BY DEF MaxOf
  <2> QED
    BY <2>1, <2>2, <1>1, NumbersAreNat, MaxOfIsMax
<1>3. /\ \A q \in Queries : q # new => provider'[q] = provider[q] /\ turn'[q] = turn[q]
      /\ provider'[new] = "turn" /\ turn'[new] = 1 /\ 1 \in 1..MaxTurns
  BY <1>1 DEF TypeOK
<1>4. TypeOK'
  <2>1. provider' \in [Queries -> {"off", "turn", "rest"}] /\ turn' \in [Queries -> 0..MaxTurns]
    BY <1>1 DEF TypeOK
  <2>2. shown' \subseteq {"in", "out"} \X Nat
    BY <1>1 DEF TypeOK
  <2> QED
    BY <1>1, <1>2, <2>1, <2>2 DEF TypeOK
<1>5. Bounded'
  <2>1. PICK b \in Nat : \A n \in inbound \cup Numbers : n <= b
    BY DEF Bounded
  <2>2. mark' = 0 \/ \E n \in Numbers : mark' <= n
    BY <1>2
  <2> QED
    BY <2>1, <2>2, <1>1 DEF Bounded
<1>6. Parities' /\ ShownAreThere'
  <2>1. Parities'
    BY <1>1 DEF Parities
  <2>2. ASSUME NEW s \in shown'
        PROVE  \/ s[1] = "in" /\ s[2] \in inbound'
               \/ s[1] = "out" /\ s[2] \in Numbers' /\ s[2] % 2 = 1
    <3>1. CASE s \in shown
      BY <3>1, <1>1 DEF ShownAreThere
    <3>2. CASE \E n \in inbound : s = <<"in", n>>
      BY <3>2, <1>1
    <3> QED
      BY <3>1, <3>2, <1>1
  <2> QED
    BY <2>1, <2>2 DEF ShownAreThere
<1>7. \A q \in Queries : provider[q] = "turn" => q \in orphans /\ q <= query
  BY <1>1 DEF TurnsRun
<1>8. new \notin orphans /\ \A q \in orphans : q <= new
  BY <1>1 DEF TurnsRun, TypeOK, Queries
<1>9. plan[new] = 0
  <2>1. provider[new] # "turn"
    BY <1>1, <1>7
  <2> QED
    BY <2>1, <1>1 DEF TurnsRun
<1>10. TurnsRun'
  <2>1. ASSUME NEW q \in Queries
        PROVE  /\ plan'[q] # 0 => provider'[q] = "turn"
               /\ provider'[q] = "turn" => /\ q <= new /\ turn'[q] \in 1..MaxTurns
                                           /\ q \in orphans \/ q = new
    <3>1. CASE q = new
      BY <3>1, <1>1, <1>3, <1>9
    <3>2. CASE q # new
      <4>1. q \in Nat
        BY DEF Queries
      <4> QED
        BY <4>1, <3>2, <1>1, <1>3, <1>7 DEF TurnsRun
    <3> QED
      BY <3>1, <3>2
  <2> QED
    BY <2>1, <1>1, <1>3, <1>8 DEF TurnsRun
<1>11. RowsAreSorted'
  <2>1. ASSUME NEW r \in outbound, r.turn # None
        PROVE  /\ r.turn[1] \in Queries /\ r.turn[1] <= query /\ r.turn[1] # new
               /\ r.turn[2] <= turn'[r.turn[1]]
    <3>1. r.turn \in Turns /\ r.turn[1] \in Queries
      BY <2>1 DEF TypeOK, Turns
    <3>2. r.turn[1] <= query /\ r.turn[2] <= turn[r.turn[1]]
      BY <2>1 DEF RowsAreSorted, Known
    <3>3. r.turn[1] # new
      BY <3>1, <3>2, <1>1 DEF Queries
    <3> QED
      BY <3>1, <3>2, <3>3, <1>3
  <2>2. \A r \in outbound : Known(r)'
    <3>1. ASSUME NEW r \in outbound, r.turn # None
          PROVE  r.turn[1] <= new /\ r.turn[2] <= turn'[r.turn[1]]
      BY <3>1, <2>1, <1>1 DEF Queries
    <3> QED
      BY <3>1, <1>1 DEF Known
  <2>3. \A r \in outbound : r.seq \in Nat /\ ~(r.seq > mark')
    <3>1. \A r \in outbound : r.seq \in Nat /\ r.seq \in Numbers
      BY DEF TypeOK, Numbers
    <3>2. \A n \in Nat : n <= mark' => ~(n > mark')
      BY <1>2
    <3> QED
      BY <3>1, <3>2, <1>2
  <2>4. \A r \in outbound : AboveMark(r)'
    BY <2>1, <2>3, <1>1 DEF AboveMark
  <2>5. plan'[Loop] = 0 /\ plan'[query'] = 0
    BY <1>1, <1>9
  <2> QED
    BY <2>2, <2>4, <2>5, <1>1 DEF RowsAreSorted
<1>12. UsageIsOfItsTurn' /\ CutIsReported'
  BY <1>1 DEF UsageIsOfItsTurn, CutIsReported
<1> QED
  BY <1>4, <1>5, <1>6, <1>10, <1>11, <1>12

LEMMA FollowUpsKeep ==
  ASSUME IInv, FollowUps
  PROVE  IInv'
<1> USE DEF IInv
<1>1. /\ loop = "reading" /\ query \in Queries /\ shown' = shown \cup {<<"in", n>> : n \in inbound}
      /\ UNCHANGED <<inbound, outbound, plan, loop, query, mark, faults, orphans, cut>> /\ Numbers' = Numbers
  BY DEF FollowUps, TurnsRun, Numbers
<1>2. ShownAreThere'
  <2>1. ASSUME NEW s \in shown'
        PROVE  \/ s[1] = "in" /\ s[2] \in inbound'
               \/ s[1] = "out" /\ s[2] \in Numbers' /\ s[2] % 2 = 1
    <3>1. CASE s \in shown
      BY <3>1, <1>1 DEF ShownAreThere
    <3>2. CASE \E n \in inbound : s = <<"in", n>>
      BY <3>2, <1>1
    <3> QED
      BY <3>1, <3>2, <1>1
  <2> QED
    BY <2>1 DEF ShownAreThere
<1>3. shown' \subseteq {"in", "out"} \X Nat
  BY <1>1 DEF TypeOK
<1>4. Bounded' /\ Parities' /\ UsageIsOfItsTurn' /\ CutIsReported'
  BY <1>1 DEF Bounded, Parities, UsageIsOfItsTurn, CutIsReported
<1>5. CASE UNCHANGED <<provider, turn>>
  BY <1>1, <1>2, <1>3, <1>4, <1>5 DEF TypeOK, TurnsRun, RowsAreSorted, Known, AboveMark
<1>6. CASE /\ provider[query] = "rest" /\ turn[query] < MaxTurns
           /\ provider' = [provider EXCEPT ![query] = "turn"]
           /\ turn' = [turn EXCEPT ![query] = turn[query] + 1]
  <2>1. /\ \A q \in Queries : q # query => provider'[q] = provider[q] /\ turn'[q] = turn[q]
        /\ provider'[query] = "turn" /\ turn'[query] = turn[query] + 1
        /\ turn[query] \in 1..MaxTurns /\ turn[query] + 1 \in 1..MaxTurns
    BY <1>1, <1>6 DEF TypeOK, TurnsRun
  <2>2. TypeOK'
    <3>1. provider' \in [Queries -> {"off", "turn", "rest"}] /\ turn' \in [Queries -> 0..MaxTurns]
      BY <1>1, <1>6, <2>1 DEF TypeOK
    <3> QED
      BY <3>1, <1>1, <1>3 DEF TypeOK
  <2>3. TurnsRun'
    <3>1. query <= query
      BY <1>1 DEF Queries
    <3> QED
      BY <3>1, <2>1, <1>1 DEF TurnsRun
  <2>4. RowsAreSorted'
    <3>1. ASSUME NEW r \in outbound, r.turn # None
          PROVE  /\ r.turn[1] <= query /\ r.turn[2] <= turn'[r.turn[1]]
                 /\ r.turn[1] = query /\ r.kind # "trace" => r.seq > mark /\ r.usage # None
                 /\ r.turn[1] # query /\ r.seq > mark => r.turn[1] \in orphans
      <4>1. r.turn \in Turns /\ r.turn[1] \in Queries /\ r.turn[2] \in Nat
        BY <3>1 DEF TypeOK, Turns
      <4>2. r.turn[1] <= query /\ r.turn[2] <= turn[r.turn[1]]
        BY <3>1 DEF RowsAreSorted, Known
      <4>3. r.turn[2] <= turn'[r.turn[1]]
        BY <4>1, <4>2, <2>1 DEF TypeOK
      <4>4. AboveMark(r)
        BY <1>1 DEF RowsAreSorted
      <4> QED
        BY <4>2, <4>3, <4>4, <3>1, <1>1, <1>6 DEF AboveMark
    <3>2. \A r \in outbound : Known(r)' /\ AboveMark(r)'
      BY <3>1, <1>1 DEF Known, AboveMark
    <3> QED
      BY <3>2, <1>1 DEF RowsAreSorted
  <2> QED
    BY <2>2, <2>3, <2>4, <1>2, <1>4
<1> QED
  BY <1>5, <1>6 DEF FollowUps

------------------------------------------------------------------------------
(* The usage of a turn.                                                    *)

LEMMA BackfillParts ==
  ASSUME TypeOK, outbound' = Backfilled(outbound), <<query, turn[query]>> \in Turns
  PROVE  /\ Numbers' = Numbers
         /\ outbound' \subseteq [seq : Nat, by : Writers \cup {None}, kind : Kinds,
                                 turn : Turns \cup {None}, usage : Turns \cup {None}]
         /\ \A s \in outbound' : \E r \in outbound :
              /\ s.seq = r.seq /\ s.kind = r.kind /\ s.turn = r.turn
              /\ IF r.seq > mark /\ r.kind # "trace" /\ r.usage = None
                 THEN s.usage = <<query, turn[query]>> ELSE s.usage = r.usage
         /\ \A r \in outbound : \E s \in outbound' : s.kind = r.kind /\ s.turn = r.turn
<1> DEFINE Row == [seq : Nat, by : Writers \cup {None}, kind : Kinds,
                   turn : Turns \cup {None}, usage : Turns \cup {None}]
           Priced(r) == IF r.seq > mark /\ r.kind # "trace" /\ r.usage = None
                        THEN [r EXCEPT !.usage = <<query, turn[query]>>] ELSE r
<1>1. outbound' = {Priced(r) : r \in outbound} /\ outbound \subseteq Row
  BY DEF Backfilled, TypeOK
<1>2. \A r \in Row : LET s == Priced(r) IN
        /\ s \in Row /\ s.seq = r.seq /\ s.kind = r.kind /\ s.turn = r.turn
        /\ IF r.seq > mark /\ r.kind # "trace" /\ r.usage = None
           THEN s.usage = <<query, turn[query]>> ELSE s.usage = r.usage
  OBVIOUS
<1> HIDE DEF Row, Priced
<1>3. Numbers' = Numbers
  <2>1. Numbers' = {s.seq : s \in {Priced(r) : r \in outbound}}
    BY <1>1 DEF Numbers
  <2> QED
    BY <2>1, <1>1, <1>2 DEF Numbers
<1>4. outbound' \subseteq Row
  BY <1>1, <1>2
<1>5. \A s \in outbound' : \E r \in outbound :
        /\ s.seq = r.seq /\ s.kind = r.kind /\ s.turn = r.turn
        /\ IF r.seq > mark /\ r.kind # "trace" /\ r.usage = None
           THEN s.usage = <<query, turn[query]>> ELSE s.usage = r.usage
  BY <1>1, <1>2
<1>6. \A r \in outbound : \E s \in outbound' : s.kind = r.kind /\ s.turn = r.turn
  BY <1>1, <1>2
<1> QED
  BY <1>3, <1>4, <1>5, <1>6 DEF Row

\* The turn whose usage is written is the one its rows were written in.
LEMMA ResultKeeps ==
  ASSUME IInv, Result \/ Replied
  PROVE  IInv'
<1> USE DEF IInv
<1>1. /\ loop \in {"reading", "replying"} /\ loop' \in {"reading", "replying"} /\ plan[Loop] = 0
      /\ query \in Queries /\ turn[query] \in 1..MaxTurns /\ query \notin orphans /\ <<query, turn[query]>> \in Turns
      /\ provider[query] = "turn" \/ loop = "replying"
      /\ provider' = [provider EXCEPT ![query] = "rest"]
      /\ plan[query] = 0
      /\ UNCHANGED <<inbound, plan, query, turn, mark, shown, faults, orphans, cut>>
      /\ (loop' = "replying" /\ outbound' = outbound) \/ (loop' = "reading" /\ outbound' = Backfilled(outbound))
  BY DEF Result, Replied, TurnsRun, Turns, TypeOK
<1>2. /\ provider' \in [Queries -> {"off", "turn", "rest"}] /\ provider'[query] = "rest"
      /\ \A q \in Queries : q # query => provider'[q] = provider[q]
  BY <1>1 DEF TypeOK
<1>3. TurnsRun'
  BY <1>1, <1>2 DEF TurnsRun
<1>4. CASE loop' = "replying" /\ outbound' = outbound
  <2>1. TypeOK' /\ Bounded' /\ Parities' /\ ShownAreThere' /\ UsageIsOfItsTurn' /\ CutIsReported'
    BY <1>1, <1>2, <1>4 DEF TypeOK, Bounded, Parities, ShownAreThere, UsageIsOfItsTurn, CutIsReported, Numbers
  <2>2. RowsAreSorted'
    BY <1>1, <1>2, <1>4 DEF RowsAreSorted, Known, AboveMark
  <2> QED
    BY <2>1, <2>2, <1>3
<1>5. CASE loop' = "reading" /\ outbound' = Backfilled(outbound)
  <2>1. Numbers' = Numbers
    BY <1>1, <1>5, BackfillParts
  <2>2. TypeOK'
    BY <1>1, <1>2, <1>5, BackfillParts DEF TypeOK
  <2>3. Bounded' /\ Parities' /\ ShownAreThere'
    BY <1>1, <2>1 DEF Bounded, Parities, ShownAreThere
  <2>4. \A s \in outbound' : \E r \in outbound :
              /\ s.seq = r.seq /\ s.kind = r.kind /\ s.turn = r.turn
              /\ IF r.seq > mark /\ r.kind # "trace" /\ r.usage = None
                 THEN s.usage = <<query, turn[query]>> ELSE s.usage = r.usage
    BY <1>1, <1>5, BackfillParts
  <2>5. ASSUME NEW s \in outbound'
        PROVE  Known(s)' /\ AboveMark(s)' /\ (s.turn # None /\ s.usage # None => s.usage = s.turn \/ s.turn[1] \in orphans)
    <3>1. PICK r \in outbound :
              /\ s.seq = r.seq /\ s.kind = r.kind /\ s.turn = r.turn
              /\ IF r.seq > mark /\ r.kind # "trace" /\ r.usage = None
                 THEN s.usage = <<query, turn[query]>> ELSE s.usage = r.usage
      BY <2>4
    <3>2. Known(r) /\ AboveMark(r) /\ r.turn \in Turns \cup {None} /\ <<query, turn[query]>> # None
      BY <1>1 DEF RowsAreSorted, TypeOK
    <3>3. s.turn # None => s.turn[1] <= query' /\ s.turn[2] <= turn'[s.turn[1]]
      BY <3>1, <3>2, <1>1 DEF Known
    <3>4. ASSUME s.turn # None, s.turn[1] = query, s.kind # "trace"
          PROVE  s.seq > mark /\ s.usage # None
      <4>1. r.seq > mark
        BY <3>1, <3>2, <3>4 DEF AboveMark
      <4> QED
        BY <4>1, <3>1, <3>2, <3>4
    <3>5. s.turn # None /\ s.turn[1] # query /\ s.seq > mark => s.turn[1] \in orphans
      BY <3>1, <3>2 DEF AboveMark
    <3>6. s.turn # None /\ s.usage # None => s.usage = s.turn \/ s.turn[1] \in orphans
      <4>1. CASE r.seq > mark /\ r.kind # "trace" /\ r.usage = None
        <5>1. r.turn # None /\ r.turn[1] = query => r.turn[2] = turn[query]
          BY <4>1, <3>2 DEF AboveMark
        <5>2. r.turn # None => r.turn = <<r.turn[1], r.turn[2]>>
          BY <3>2 DEF Turns
        <5> QED
          BY <4>1, <5>1, <5>2, <3>1, <3>5
      <4>2. CASE ~(r.seq > mark /\ r.kind # "trace" /\ r.usage = None)
        BY <4>2, <3>1 DEF UsageIsOfItsTurn
      <4> QED
        BY <4>1, <4>2
    <3> QED
      BY <3>3, <3>4, <3>5, <3>6, <1>1 DEF Known, AboveMark
  <2>6. RowsAreSorted'
    BY <2>5, <1>1 DEF RowsAreSorted
  <2>7. UsageIsOfItsTurn'
    BY <2>5, <1>1 DEF UsageIsOfItsTurn
  <2>8. CutIsReported'
    <3>1. \A r \in outbound : \E s \in outbound' : s.kind = r.kind /\ s.turn = r.turn
      BY <1>1, <1>5, BackfillParts
    <3> QED
      BY <3>1, <1>1 DEF CutIsReported
  <2> QED
    BY <2>2, <2>3, <2>6, <2>7, <2>8, <1>3
<1> QED
  BY <1>1, <1>4, <1>5

------------------------------------------------------------------------------
(* Ends.                                                                   *)

LEMMA EndsKeep ==
  ASSUME IInv, QueryEnds \/ (\E q \in Queries : OrphanEnds(q)) \/ Dies \/ Respawns
  PROVE  IInv'
<1> USE DEF IInv
<1>1. /\ UNCHANGED <<inbound, outbound, query, turn, mark, shown, orphans>> /\ Numbers' = Numbers
      /\ faults' \in 0..MaxFaults
  BY DEF QueryEnds, OrphanEnds, Dies, Respawns, Ends, Fault, TypeOK, Numbers
<1>2. /\ plan' \in [Writers -> Nat] /\ \A w \in Writers : plan'[w] = plan[w] \/ plan'[w] = 0
      /\ provider' \in [Queries -> {"off", "turn", "rest"}]
      /\ \A q \in Queries : provider'[q] = "turn" => provider[q] = "turn"
      /\ \A q \in Queries : plan'[q] # 0 => provider'[q] = "turn"
      /\ loop' \in {"idle", "dead", loop}
      /\ cut' = {} \/ (cut' = cut /\ (loop = "failed" => loop' = "failed"))
      /\ loop' # loop => plan'[Loop] = 0 /\ \A q \in Queries : provider'[q] = "turn" => q \in orphans
      /\ loop' = loop /\ loop \in {"reading", "replying"} => provider'[query] = provider[query]
  <2>1. CASE QueryEnds
    BY <2>1, LoopIsNoQuery DEF QueryEnds, TypeOK, TurnsRun
  <2>2. CASE \E q \in Queries : OrphanEnds(q)
    <3>1. PICK q \in Queries : OrphanEnds(q)
      BY <2>2
    <3> QED
      BY <3>1, LoopIsNoQuery DEF OrphanEnds, TypeOK, TurnsRun
  <2>3. CASE Dies
    BY <2>3, LoopIsNoQuery DEF Dies, Ends, TypeOK
  <2>4. CASE Respawns
    BY <2>4, LoopIsNoQuery DEF Respawns, TypeOK, TurnsRun
  <2> QED
    BY <2>1, <2>2, <2>3, <2>4
<1>3. TypeOK'
  BY <1>1, <1>2 DEF TypeOK
<1>4. Bounded' /\ Parities' /\ ShownAreThere' /\ UsageIsOfItsTurn'
  BY <1>1, <1>2 DEF Bounded, Parities, ShownAreThere, UsageIsOfItsTurn
<1>5. CutIsReported'
  BY <1>1, <1>2 DEF CutIsReported
<1>6. TurnsRun'
  <2>1. CASE loop' = loop
    BY <2>1, <1>1, <1>2, LoopIsNoQuery DEF TurnsRun
  <2>2. CASE loop' # loop
    BY <2>2, <1>1, <1>2, LoopIsNoQuery DEF TurnsRun
  <2> QED
    BY <2>1, <2>2
<1>7. RowsAreSorted'
  <2>1. \A r \in outbound : Known(r)'
    BY <1>1 DEF RowsAreSorted, Known
  <2>2. ASSUME loop' \in {"reading", "replying"}
        PROVE  /\ \A r \in outbound : AboveMark(r)'
               /\ \A w \in {Loop, query} : plan'[w] # 0 => plan'[w] > mark
    <3>1. loop' = loop
      BY <2>2, <1>2
    <3>2. provider'[query] = provider[query] /\ query \in Queries
      BY <2>2, <3>1, <1>2 DEF TurnsRun
    <3>3. \A r \in outbound : AboveMark(r)'
      BY <2>2, <3>1, <3>2, <1>1 DEF RowsAreSorted, AboveMark
    <3> QED
      BY <2>2, <3>1, <3>2, <3>3, <1>2, LoopIsNoQuery DEF RowsAreSorted
  <2> QED
    BY <2>1, <2>2, <1>1 DEF RowsAreSorted
<1> QED
  BY <1>3, <1>4, <1>5, <1>6, <1>7

LEMMA NextInv ==
  ASSUME IInv, [Next]_vars
  PROVE  IInv'
<1>1. CASE UNCHANGED vars
  BY <1>1 DEF vars, IInv, TypeOK, Bounded, Parities, ShownAreThere, TurnsRun, RowsAreSorted, Known, AboveMark,
     UsageIsOfItsTurn, CutIsReported, Numbers
<1>2. CASE \/ \E w \in Writers : Rereads(w)
           \/ \E q \in Queries : ToolPlans(q)
           \/ LoopPlans
  <2>1. PICK w \in Writers :
          /\ Reads(w) /\ faults' \in 0..MaxFaults
          /\ UNCHANGED <<inbound, outbound, loop, provider, query, turn, mark, shown, orphans, cut>>
          /\ w # Loop => provider[w] = "turn"
          /\ w = Loop => loop \in {"reading", "replying", "failed"}
    <3>1. CASE \E w \in Writers : Rereads(w)
      <4>1. PICK w \in Writers : Rereads(w)
        BY <3>1
      <4>2. faults' \in 0..MaxFaults /\ plan[w] # 0
        BY <4>1 DEF Rereads, Fault, IInv, TypeOK
      <4> QED
        BY <4>1, <4>2, LoopIsNoQuery DEF Rereads, IInv, TurnsRun
    <3>2. CASE \E q \in Queries : ToolPlans(q)
      BY <3>2, LoopIsNoQuery DEF ToolPlans, IInv, TypeOK
    <3>3. CASE LoopPlans
      BY <3>3, LoopIsNoQuery DEF LoopPlans, IInv, TypeOK
    <3> QED
      BY <1>2, <3>1, <3>2, <3>3
  <2> QED
    BY <2>1, ReadsKeep
<1>3. CASE HostInserts \/ HostDenies
  BY <1>3, HostKeeps
<1>4. CASE \E q \in Queries : ToolWrites(q)
  BY <1>4, ToolWritesKeep
<1>5. CASE LoopThrows \/ \E q \in Queries : ToolThrows(q)
  BY <1>5, ThrowsKeep
<1>6. CASE LoopTraces \/ LoopReplies \/ ErrorWritten
  BY <1>6, LoopWritesKeep
<1>7. CASE QueryStarts \/ FollowUps
  BY <1>7, QueryStartsKeeps, FollowUpsKeep
<1>8. CASE Result \/ Replied
  BY <1>8, ResultKeeps
<1>9. CASE QueryEnds \/ (\E q \in Queries : OrphanEnds(q)) \/ Dies \/ Respawns
  BY <1>9, EndsKeep
<1> QED
  BY <1>1, <1>2, <1>3, <1>4, <1>5, <1>6, <1>7, <1>8, <1>9 DEF Next, Runner, Tools

\* The lookup prefers messages_in: even numbers of the host are no rows the agent was given as its own.
LEMMA ShownIsRight ==
  ASSUME IInv
  PROVE  LookupIsRight
<1> SUFFICES ASSUME NEW s \in shown
    PROVE  Lookup(s[2]) = s
  BY DEF LookupIsRight
<1>1. s = <<s[1], s[2]>>
  BY DEF IInv, TypeOK
<1>2. CASE s[1] = "in" /\ s[2] \in inbound
  BY <1>1, <1>2 DEF Lookup
<1>3. CASE s[1] = "out" /\ s[2] \in Numbers /\ s[2] % 2 = 1
  <2>1. s[2] \notin inbound
    BY <1>3 DEF IInv, Parities
  <2> QED
    BY <1>1, <1>3, <2>1 DEF Lookup
<1> QED
  BY <1>2, <1>3 DEF IInv, ShownAreThere

LEMMA RestIsPriced ==
  ASSUME IInv
  PROVE  TurnIsPriced
<1> SUFFICES ASSUME loop = "reading", provider[query] = "rest", NEW r \in outbound,
                    r.turn = <<query, turn[query]>>, r.kind # "trace"
    PROVE  r.usage # None
  BY DEF TurnIsPriced
<1>1. r.turn \in Turns /\ r.turn # None /\ r.turn[1] = query
  BY DEF IInv, TurnsRun, Turns
<1>2. AboveMark(r)
  BY DEF IInv, RowsAreSorted
<1> QED
  BY <1>1, <1>2 DEF AboveMark

\* The inductive invariant holds in every reachable state; the theorems below read it off.
THEOREM Invariance == Spec => []IInv
<1>1. Init => IInv
  BY InitInv
<1>2. IInv /\ [Next]_vars => IInv'
  BY NextInv
<1> QED
  BY <1>1, <1>2, PTL DEF Spec

\* Every variable keeps its type.
THEOREM SeqNumberTypes == Spec => []TypeOK
<1>1. IInv => TypeOK
  BY DEF IInv
<1> QED
  BY <1>1, Invariance, PTL

\* LookupIsRight: a number the agent was shown names the row it was shown for.
THEOREM NumberNamesItsRow == Spec => []LookupIsRight
<1>1. IInv => LookupIsRight
  BY ShownIsRight
<1> QED
  BY <1>1, Invariance, PTL

\* UsageIsOfItsTurn: no row is charged to another turn, unless its query had been abandoned.
THEOREM UsageFindsItsTurn == Spec => []UsageIsOfItsTurn
<1>1. IInv => UsageIsOfItsTurn
  BY DEF IInv
<1> QED
  BY <1>1, Invariance, PTL

\* TurnIsPriced: no chat row of an answered turn is left without its usage.
THEOREM AnsweredTurnIsPriced == Spec => []TurnIsPriced
<1>1. IInv => TurnIsPriced
  BY RestIsPriced
<1> QED
  BY <1>1, Invariance, PTL

\* CutIsReported: a row that could not be written leaves an error row, or ends the container.
THEOREM LossIsReported == Spec => []CutIsReported
<1>1. IInv => CutIsReported
  BY DEF IInv
<1> QED
  BY <1>1, Invariance, PTL
=============================================================================
