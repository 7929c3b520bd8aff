--------------------------- MODULE ApprovalsProofs ---------------------------
(***************************************************************************)
(* What becomes of an approval, for any number of requests, cards, clicks  *)
(* and faults.  Everything hangs on the row of pending_approvals: a card   *)
(* is acted on only while its row is there, and the row goes in the step   *)
(* that tells the agent.                                                   *)
(***************************************************************************)
EXTENDS Approvals, TLAPS

USE Kinds, Bounds, NoneIsNew

\* A click in flight is on a card that was made; commands alone are left running.
ClicksAreMade == \A i \in InFlight :
    /\ i <= clicks /\ clicked[i] # None /\ Made(CardOf(i))
    /\ at[i] = "running" => CardOf(i)[1] \in Commands

KnownAreMade ==
    /\ \A c \in pending \cup buttons : Made(c)
    /\ \A c \in Cards : runs[c] > 0 \/ c \in rejected => Made(c)

\* A card whose action was started has lost its row, unless it still runs or a crash cut it off.
StartedIsSettled == \A c \in pending :
    runs[c] > 0 => c \in torn \/ \E i \in Click : at[i] = "running" /\ CardOf(i) = c

RejectedIsGone == rejected \cap pending = {}

\* The handler of a request is at work on its last card, and its row is still queued.
HandlingIsQueued ==
    /\ handling # None => row[handling] = "queued"
    /\ sending # None => handling # None /\ sending = <<handling, made[handling]>>

IInv ==
    /\ TypeOK /\ ClicksAreMade /\ KnownAreMade /\ StartedIsSettled /\ RejectedIsGone
    /\ HandlingIsQueued /\ AppliedOnce /\ AnswerIsTold /\ StaysAnswerable

LEMMA CardParts ==
  /\ \A c \in Cards : c[1] \in Requests /\ c[2] \in 1..MaxCards /\ c = <<c[1], c[2]>>
  /\ \A r \in Requests, n \in 1..MaxCards : <<r, n>> \in Cards
  BY DEF Cards

LEMMA InitInv == Init => IInv
<1> SUFFICES ASSUME Init
    PROVE  IInv
  OBVIOUS
<1>1. \A c \in Cards : ~Made(c)
  BY CardParts DEF Init, Made
<1> QED
  BY <1>1 DEF Init, IInv, TypeOK, ClicksAreMade, KnownAreMade, StartedIsSettled, RejectedIsGone, HandlingIsQueued,
     AppliedOnce, AnswerIsTold, StaysAnswerable, InFlight, Click

\* Steps of the request that make no card.  A card that becomes clickable, or is lost, is the last one.
LEMMA RequestKeeps ==
  ASSUME IInv, NEW r \in Requests,
         Ask(r) \/ HandlerStarts(r) \/ NobodyReached(r) \/ CardSent(r) \/ CardFails(r) \/ CardVanishes(r)
  PROVE  IInv'
<1> USE DEF IInv
<1>1. /\ UNCHANGED <<made, pending, clicks, clicked, at, up, told, host, runs, rejected, quiet, twice, torn>>
      /\ refused \subseteq refused' /\ refused' \subseteq Requests
      /\ lost \subseteq lost' /\ buttons \subseteq buttons'
      /\ buttons' \in {buttons, buttons \cup {sending}} /\ lost' \in {lost, lost \cup {sending}}
      /\ buttons' # buttons \/ lost' # lost => sending # None
      /\ faults' \in 0..MaxFaults
  BY DEF Ask, HandlerStarts, NobodyReached, CardSent, CardFails, CardVanishes, asking, answers, hist, Fault, TypeOK
<1>2. sending # None => sending \in Cards /\ Made(sending)
  BY CardParts DEF HandlingIsQueued, Made, TypeOK
<1>3. /\ row' \in [Requests -> {"unasked", "queued", "delivered"}]
      /\ handling' \in Requests \cup {None} /\ sending' \in Cards \cup {None}
      /\ HandlingIsQueued'
  BY <1>1 DEF Ask, HandlerStarts, NobodyReached, CardSent, CardFails, CardVanishes, Delivered, asking, TypeOK,
     HandlingIsQueued
<1>4. TypeOK'
  BY <1>1, <1>2, <1>3 DEF TypeOK
<1>5. ClicksAreMade' /\ StartedIsSettled' /\ RejectedIsGone' /\ AppliedOnce' /\ AnswerIsTold'
  BY <1>1 DEF ClicksAreMade, StartedIsSettled, RejectedIsGone, AppliedOnce, AnswerIsTold, Made, InFlight, CardOf
<1>6. KnownAreMade'
  BY <1>1, <1>2 DEF KnownAreMade, Made
<1>7. StaysAnswerable'
  <2> SUFFICES ASSUME NEW c \in pending', c[2] = made'[c[1]], row'[c[1]] = "delivered"
      PROVE  \/ c \in buttons' \cup torn' \cup lost' \/ c[1] \in refused'
             \/ \E i \in InFlight' : CardOf(i)' = c
    BY DEF StaysAnswerable
  <2>1. c \in Cards /\ c \in pending /\ c[2] = made[c[1]] /\ c[1] \in Requests
    BY <1>1, CardParts DEF TypeOK
  <2>2. CASE row[c[1]] = "delivered"
    BY <2>1, <2>2, <1>1 DEF StaysAnswerable, InFlight, CardOf
  <2>3. CASE row[c[1]] # "delivered"
    <3>1. r = c[1] /\ (NobodyReached(r) \/ CardSent(r) \/ CardFails(r) \/ CardVanishes(r))
      BY <2>3, <2>1 DEF Ask, HandlerStarts, NobodyReached, CardSent, CardFails, CardVanishes, Delivered, asking, TypeOK
    <3>2. CASE NobodyReached(r) \/ CardFails(r)
      BY <3>1, <3>2 DEF NobodyReached, CardFails
    <3>3. CASE CardSent(r) \/ CardVanishes(r)
      <4>1. sending = <<r, made[r]>>
        BY <3>3 DEF CardSent, CardVanishes, HandlingIsQueued
      <4>2. sending = c
        BY <4>1, <3>1, <2>1, CardParts
      <4> QED
        BY <4>2, <3>3 DEF CardSent, CardVanishes
    <3> QED
      BY <3>1, <3>2, <3>3
  <2> QED
    BY <2>2, <2>3
<1> QED
  BY <1>3, <1>4, <1>5, <1>6, <1>7

\* A new card is unknown to everything but its handler.
LEMMA CardMadeKeeps ==
  ASSUME IInv, NEW r \in Requests, CardMade(r)
  PROVE  IInv'
<1> USE DEF IInv
<1> DEFINE new == <<r, made[r] + 1>>
<1>1. /\ made' = [made EXCEPT ![r] = made[r] + 1] /\ pending' = pending \cup {new} /\ sending' = new
      /\ handling = r /\ sending = None /\ made[r] < MaxCards
      /\ UNCHANGED <<row, handling, refused, buttons, clicks, clicked, at, up, told, host, faults, hist>>
  BY DEF CardMade, answers, TypeOK
<1>2. new \in Cards /\ made[r] \in 0..MaxCards /\ made[r] + 1 \in 0..MaxCards
  BY <1>1, CardParts DEF TypeOK
<1>3. /\ ~Made(new) /\ \A c \in Cards : c = new => Made(c)'
      /\ \A c \in Cards : Made(c) => Made(c)'
      /\ \A c \in Cards : Made(c)' => Made(c) \/ c = new
  <2>1. made'[r] = made[r] + 1 /\ \A q \in Requests \ {r} : made'[q] = made[q]
    BY <1>1 DEF TypeOK
  <2>2. ASSUME NEW c \in Cards
        PROVE  (Made(c) => Made(c)') /\ (Made(c)' => Made(c) \/ c = new)
    <3>1. c[1] \in Requests /\ c[2] \in Nat /\ c = <<c[1], c[2]>>
      BY CardParts
    <3>2. CASE c[1] = r
      BY <3>1, <3>2, <2>1, <1>2 DEF Made
    <3>3. CASE c[1] # r
      BY <3>1, <3>3, <2>1 DEF Made
    <3> QED
      BY <3>2, <3>3
  <2>3. new[1] = r /\ new[2] = made[r] + 1 /\ made[r] \in Nat
    BY <1>2
  <2>4. ~Made(new)
    BY <2>3 DEF Made
  <2>5. ASSUME NEW c \in Cards, c = new
        PROVE  Made(c)'
    <3>1. c[2] <= made'[c[1]]
      BY <2>1, <2>3, <2>5
    <3> QED
      BY <3>1 DEF Made
  <2> QED
    BY <2>2, <2>4, <2>5
<1>4. runs[new] = 0 /\ new \notin rejected
  BY <1>2, <1>3 DEF KnownAreMade, TypeOK
<1>5. TypeOK'
  BY <1>1, <1>2 DEF TypeOK, hist
<1>6. ClicksAreMade'
  <2>1. \A i \in InFlight : CardOf(i) \in Cards
    BY DEF ClicksAreMade, TypeOK, InFlight, CardOf
  <2> QED
    BY <2>1, <1>1, <1>3 DEF ClicksAreMade, InFlight, CardOf
<1>7. KnownAreMade'
  <2>1. pending \cup buttons \subseteq Cards /\ UNCHANGED <<runs, rejected>>
    BY <1>1 DEF hist, TypeOK
  <2>2. \A c \in pending' \cup buttons' : c = new \/ c \in pending \cup buttons
    BY <1>1
  <2>3. \A c \in pending' \cup buttons' : Made(c)'
    BY <2>1, <2>2, <1>2, <1>3 DEF KnownAreMade
  <2>4. \A c \in Cards : runs'[c] > 0 \/ c \in rejected' => Made(c)'
    BY <2>1, <1>3 DEF KnownAreMade
  <2> QED
    BY <2>3, <2>4 DEF KnownAreMade
<1>8. StartedIsSettled' /\ RejectedIsGone' /\ AppliedOnce'
  BY <1>1, <1>4 DEF StartedIsSettled, RejectedIsGone, AppliedOnce, hist, CardOf
<1>9. AnswerIsTold'
  BY <1>1, <1>3 DEF AnswerIsTold, hist
<1>10. HandlingIsQueued'
  BY <1>1 DEF HandlingIsQueued, TypeOK
<1>11. StaysAnswerable'
  <2> SUFFICES ASSUME NEW c \in pending', c[2] = made'[c[1]], row'[c[1]] = "delivered"
      PROVE  \/ c \in buttons' \cup torn' \cup lost' \/ c[1] \in refused'
             \/ \E i \in InFlight' : CardOf(i)' = c
    BY DEF StaysAnswerable
  <2>1. row[r] = "queued" /\ c[1] # r
    BY <1>1 DEF HandlingIsQueued
  <2>2. c \in pending /\ c[1] \in Requests
    BY <2>1, <1>1, CardParts DEF TypeOK
  <2>3. c[2] = made[c[1]]
    BY <2>1, <2>2, <1>1 DEF TypeOK
  <2> QED
    BY <2>1, <2>2, <2>3, <1>1 DEF StaysAnswerable, InFlight, CardOf, hist
<1> QED
  BY <1>5, <1>6, <1>7, <1>8, <1>9, <1>10, <1>11

LEMMA ClickKeeps ==
  ASSUME IInv, NEW c \in Cards, NEW v \in {"approve", "reject"}, AdminClicks(c, v)
  PROVE  IInv'
<1> USE DEF IInv
<1> DEFINE n == clicks + 1
<1>1. /\ n \in Click /\ clicks' = n /\ n \in 0..MaxClicks
      /\ clicked' = [clicked EXCEPT ![n] = [card |-> c, value |-> v]]
      /\ at' = [at EXCEPT ![n] = "editing"]
      /\ UNCHANGED <<row, handling, sending, made, refused, pending, buttons, up, told, host, faults,
                     runs, rejected, quiet, twice, torn, lost>>
      /\ Made(c)
  BY DEF AdminClicks, TypeOK, Click, asking, hist, KnownAreMade
<1>2. TypeOK'
  <2>1. /\ clicked' \in [Click -> [card : Cards, value : {"approve", "reject"}] \cup {None}]
        /\ at' \in [Click -> {"editing", "running", "over"}]
    BY <1>1 DEF TypeOK
  <2> QED
    BY <1>1, <2>1 DEF TypeOK
<1>3. clicked'[n].card = c /\ clicked'[n] # None /\ at'[n] = "editing"
  BY <1>1 DEF TypeOK
<1>4. \A i \in Click \ {n} : clicked'[i] = clicked[i] /\ at'[i] = at[i]
  BY <1>1 DEF TypeOK
<1>5. ClicksAreMade'
  <2> SUFFICES ASSUME NEW i \in InFlight'
      PROVE  i <= clicks' /\ clicked'[i] # None /\ Made(CardOf(i))' /\ (at'[i] = "running" => clicked'[i].card[1] \in Commands)
    BY DEF ClicksAreMade, CardOf
  <2>1. CASE i = n
    BY <2>1, <1>1, <1>3 DEF Made, CardOf
  <2>2. CASE i # n
    <3>1. i \in InFlight /\ clicked'[i] = clicked[i] /\ at'[i] = at[i] /\ i \in Nat
      BY <2>2, <1>4 DEF InFlight, Click
    <3>2. Made(CardOf(i))'
      BY <3>1, <1>1 DEF ClicksAreMade, CardOf, Made
    <3>3. i <= clicks' /\ clicked'[i] # None
      BY <3>1, <1>1 DEF ClicksAreMade, TypeOK
    <3> QED
      BY <3>1, <3>2, <3>3 DEF ClicksAreMade, CardOf
  <2> QED
    BY <2>1, <2>2
<1>6. KnownAreMade' /\ RejectedIsGone' /\ HandlingIsQueued' /\ AppliedOnce' /\ AnswerIsTold'
  BY <1>1 DEF KnownAreMade, RejectedIsGone, HandlingIsQueued, AppliedOnce, AnswerIsTold, Made
\* The click takes a number of its own, so no click in flight is lost.
<1>7. \A i \in InFlight : i # n /\ i \in InFlight' /\ CardOf(i)' = CardOf(i)
  <2>1. \A i \in InFlight : i \in Click /\ i <= clicks /\ i # n
    BY DEF ClicksAreMade, InFlight, Click, TypeOK
  <2> QED
    BY <2>1, <1>4 DEF InFlight, CardOf
<1>8. StartedIsSettled'
  <2> SUFFICES ASSUME NEW d \in pending, runs[d] > 0, d \notin torn
      PROVE  \E i \in Click : at'[i] = "running" /\ CardOf(i)' = d
    BY <1>1 DEF StartedIsSettled
  <2>1. PICK i \in Click : at[i] = "running" /\ CardOf(i) = d
    BY DEF StartedIsSettled
  <2>2. i \in InFlight
    BY <2>1 DEF InFlight
  <2> QED
    BY <2>1, <2>2, <1>4, <1>7
<1>9. StaysAnswerable'
  <2> SUFFICES ASSUME NEW d \in pending, d[2] = made[d[1]], row[d[1]] = "delivered"
      PROVE  \/ d \in buttons \cup torn \cup lost \/ d[1] \in refused
             \/ \E i \in InFlight' : CardOf(i)' = d
    BY <1>1 DEF StaysAnswerable
  <2>1. CASE \E i \in InFlight : CardOf(i) = d
    <3>1. PICK i \in InFlight : CardOf(i) = d
      BY <2>1
    <3> QED
      BY <3>1, <1>7
  <2> QED
    BY <2>1 DEF StaysAnswerable
<1> QED
  BY <1>2, <1>5, <1>6, <1>8, <1>9

(***************************************************************************)
(* The answer: what every step of a response does to its own card and      *)
(* leaves of the others.                                                   *)
(***************************************************************************)

Untouched(c) ==
    /\ UNCHANGED <<row, handling, sending, made, refused, clicks, clicked, up, host, torn, lost>>
    /\ pending' \in {pending, pending \ {c}} /\ buttons' \in {buttons, buttons \ {c}}
    /\ told' \in {told, told \cup {c}} /\ quiet' \in {quiet, quiet \cup {c}}
    /\ twice' \in {twice, twice \cup {c}} /\ rejected' \in {rejected, rejected \cup {c}}
    /\ runs' \in {runs, [runs EXCEPT ![c] = runs[c] + 1]}
    /\ faults' \in 0..MaxFaults

Own(i, c) ==
    /\ c \in pending' => at'[i] = "running"
    /\ at'[i] = "running" => c[1] \in Commands
    /\ c \in rejected' => c \notin pending'
    /\ c \in pending' \cup told' \cup quiet'
    /\ runs'[c] > 1 => c \in torn \cup twice'

LEMMA ClickParts ==
  ASSUME IInv, NEW i \in InFlight
  PROVE  /\ CardOf(i) \in Cards /\ Made(CardOf(i)) /\ i \in Click
         /\ runs[CardOf(i)] \in Nat
  BY DEF IInv, TypeOK, ClicksAreMade, InFlight, CardOf

LEMMA ResponseParts ==
  ASSUME IInv, NEW i \in Click, Respond(i)
  PROVE  /\ i \in InFlight /\ Untouched(CardOf(i)) /\ Own(i, CardOf(i))
         /\ \E x \in {"running", "over"} : at' = [at EXCEPT ![i] = x]
<1> USE DEF IInv
<1> DEFINE c == CardOf(i)
<1>1. i \in InFlight
  BY DEF Respond, Unclaimed, Reject, ApplyAtOnce, RunCommand, CommandEnds, Edited, InFlight
<1>2. c \in Cards /\ Made(c) /\ runs[c] \in Nat
  BY <1>1, ClickParts
<1>3. runs[c] > 1 => c \in torn \cup twice
  BY <1>2 DEF AppliedOnce
<1>4. CASE Unclaimed(i)
  <2>1. Untouched(c) /\ at' = [at EXCEPT ![i] = "over"] /\ c \notin pending /\ UNCHANGED <<pending, told, quiet, twice, runs>>
    BY <1>4 DEF Unclaimed, Edited, Untouched, asking, hist, Fault, TypeOK
  <2>2. c \in told \cup quiet
    BY <2>1, <1>2 DEF AnswerIsTold
  <2> QED
    BY <2>1, <2>2, <1>1, <1>3 DEF Own, TypeOK
<1>5. CASE Reject(i)
  <2>1. /\ Untouched(c) /\ at' = [at EXCEPT ![i] = "over"] /\ c \notin pending' /\ c \in told'
        /\ UNCHANGED <<twice, runs>>
    BY <1>5 DEF Reject, Edited, Rejected, Untouched, asking, Fault, TypeOK
  <2> QED
    BY <2>1, <1>1, <1>3 DEF Own, TypeOK
<1>6. CASE ApplyAtOnce(i)
  <2>1. /\ Untouched(c) /\ at' = [at EXCEPT ![i] = "over"] /\ c \notin pending' /\ c \in told' \cup quiet'
        /\ UNCHANGED twice /\ runs' = [runs EXCEPT ![c] = runs[c] + 1]
    BY <1>6 DEF ApplyAtOnce, Edited, Settled, Notified, Started, Untouched, asking, Fault, TypeOK
  <2>2. c \in pending /\ c[1] \notin Commands
    BY <1>6 DEF ApplyAtOnce, Approved
  <2>3. runs[c] > 0 => c \in torn
    <3>1. \A j \in Click : at[j] = "running" => CardOf(j) # c
      BY <2>2 DEF ClicksAreMade, InFlight
    <3> QED
      BY <3>1, <2>2 DEF StartedIsSettled
  <2>4. runs'[c] > 1 => c \in torn \cup twice'
    BY <2>1, <2>3, <1>2 DEF TypeOK
  <2> QED
    BY <2>1, <2>4, <1>1 DEF Own, TypeOK
<1>7. CASE RunCommand(i)
  <2>1. /\ Untouched(c) /\ at' = [at EXCEPT ![i] = "running"] /\ c[1] \in Commands
        /\ UNCHANGED <<pending, rejected>> /\ runs' = [runs EXCEPT ![c] = runs[c] + 1] /\ c \in pending
        /\ (\E j \in Click : at[j] = "running" /\ CardOf(j) = c) => c \in twice'
    BY <1>7 DEF RunCommand, Edited, Approved, Started, Untouched, asking, Fault, TypeOK
  <2>2. runs[c] > 0 => c \in torn \cup twice'
    BY <2>1 DEF StartedIsSettled
  <2>3. runs'[c] > 1 => c \in torn \cup twice'
    BY <2>1, <2>2, <1>2 DEF TypeOK
  <2>4. c \notin rejected' /\ at'[i] = "running"
    BY <2>1 DEF RejectedIsGone, TypeOK
  <2> QED
    BY <2>1, <2>3, <2>4, <1>1 DEF Own
<1>8. CASE CommandEnds(i)
  <2>1. /\ Untouched(c) /\ at' = [at EXCEPT ![i] = "over"] /\ c \notin pending' /\ c \in told'
        /\ UNCHANGED <<twice, runs>>
    BY <1>8 DEF CommandEnds, Settled, Notified, Untouched, asking, hist, TypeOK
  <2> QED
    BY <2>1, <1>1, <1>3 DEF Own, TypeOK
<1> QED
  BY <1>4, <1>5, <1>6, <1>7, <1>8 DEF Respond

LEMMA ResponseKeeps ==
  ASSUME IInv, NEW i \in Click, Respond(i)
  PROVE  IInv'
<1> USE DEF IInv
<1>1. PICK c \in Cards : c = CardOf(i)
  BY ResponseParts, ClickParts
<1>2. Untouched(c) /\ Own(i, c) /\ i \in InFlight /\ Made(c)
  BY <1>1, ResponseParts, ClickParts
<1>3. PICK x \in {"running", "over"} : at' = [at EXCEPT ![i] = x]
  BY ResponseParts
<1>4. /\ \A j \in Click \ {i} : at'[j] = at[j]
      /\ \A d \in Cards \ {c} : runs'[d] = runs[d]
      /\ \A d \in Cards : Made(d)' <=> Made(d)
      /\ \A j \in Click : CardOf(j)' = CardOf(j)
      /\ at'[i] = x /\ runs'[c] \in Nat
  BY <1>2, <1>3 DEF Untouched, TypeOK, Made, CardOf
<1>5. at' \in [Click -> {"editing", "running", "over"}] /\ runs' \in [Cards -> Nat]
  BY <1>2, <1>3 DEF TypeOK, Untouched
<1>6. TypeOK'
  BY <1>2, <1>5 DEF TypeOK, Untouched
\* No other click leaves; this one is in flight while its command runs.
<1>7. /\ \A j \in InFlight' : j \in InFlight
      /\ \A j \in InFlight \ {i} : j \in InFlight'
      /\ x = "running" => i \in InFlight'
  BY <1>2, <1>4 DEF InFlight
<1>9. x = "running" => c[1] \in Commands
  BY <1>2, <1>4 DEF Own
<1>8. ClicksAreMade'
  <2> SUFFICES ASSUME NEW j \in InFlight'
      PROVE  j <= clicks' /\ clicked'[j] # None /\ Made(CardOf(j))' /\ (at'[j] = "running" => CardOf(j)'[1] \in Commands)
    BY DEF ClicksAreMade, CardOf
  <2>1. j \in InFlight /\ j \in Click
    BY <1>7 DEF InFlight
  <2>2. j <= clicks' /\ clicked'[j] # None
    BY <2>1, <1>2 DEF ClicksAreMade, Untouched
  <2>3. Made(CardOf(j))'
    BY <2>1, <1>2 DEF ClicksAreMade, Made, CardOf, Untouched
  <2>4. at'[j] = "running" => CardOf(j)'[1] \in Commands
    <3>1. CASE j # i
      BY <3>1, <2>1, <1>4 DEF ClicksAreMade
    <3>2. CASE j = i
      <4>1. x = "running" => c[1] \in Commands
        BY <1>9
      <4> QED
        BY <4>1, <3>2, <1>1, <1>4
    <3> QED
      BY <3>1, <3>2
  <2> QED
    BY <2>2, <2>3, <2>4
<1>10. KnownAreMade'
  <2>1. \A d \in pending' \cup buttons' : d \in pending \cup buttons /\ d \in Cards
    BY <1>2 DEF Untouched, TypeOK
  <2>2. \A d \in Cards : runs'[d] > 0 \/ d \in rejected' => d = c \/ runs[d] > 0 \/ d \in rejected
    BY <1>2, <1>4 DEF Untouched
  <2>3. \A d \in pending' \cup buttons' : Made(d)'
    BY <2>1, <1>4 DEF KnownAreMade
  <2>4. \A d \in Cards : runs'[d] > 0 \/ d \in rejected' => Made(d)'
    BY <2>2, <1>2, <1>4 DEF KnownAreMade
  <2> QED
    BY <2>3, <2>4 DEF KnownAreMade
<1>11. StartedIsSettled'
  <2> SUFFICES ASSUME NEW d \in pending', runs'[d] > 0, d \notin torn'
      PROVE  \E j \in Click : at'[j] = "running" /\ CardOf(j)' = d
    BY DEF StartedIsSettled
  <2>1. d \in pending /\ d \in Cards /\ d \notin torn
    BY <1>2 DEF Untouched, TypeOK
  <2>2. CASE d = c
    BY <2>2, <1>1, <1>2, <1>4 DEF Own
  <2>3. CASE d # c
    <3>1. PICK j \in Click : at[j] = "running" /\ CardOf(j) = d
      BY <2>1, <2>3, <1>4 DEF StartedIsSettled
    <3>2. j # i
      BY <3>1, <2>3, <1>1
    <3> QED
      BY <3>1, <3>2, <1>4
  <2> QED
    BY <2>2, <2>3
<1>12. RejectedIsGone'
  BY <1>2 DEF RejectedIsGone, Untouched, Own
<1>13. HandlingIsQueued'
  BY <1>2 DEF HandlingIsQueued, Untouched
<1>14. AppliedOnce'
  <2> SUFFICES ASSUME NEW d \in Cards, runs'[d] > 1
      PROVE  d \in torn' \cup twice'
    BY DEF AppliedOnce
  <2>1. torn' = torn /\ twice \subseteq twice'
    BY <1>2 DEF Untouched
  <2>2. CASE d = c
    BY <2>1, <2>2, <1>2 DEF Own
  <2>3. CASE d # c
    BY <2>1, <2>3, <1>4 DEF AppliedOnce
  <2> QED
    BY <2>2, <2>3
<1>15. AnswerIsTold'
  <2> SUFFICES ASSUME NEW d \in Cards, Made(d), d \notin pending'
      PROVE  d \in told' \cup quiet'
    BY <1>4 DEF AnswerIsTold
  <2>1. CASE d = c
    BY <2>1, <1>2 DEF Own
  <2>2. CASE d # c
    BY <2>2, <1>2 DEF AnswerIsTold, Untouched
  <2> QED
    BY <2>1, <2>2
<1>16. StaysAnswerable'
  <2> SUFFICES ASSUME NEW d \in pending', d[2] = made[d[1]], row[d[1]] = "delivered"
      PROVE  \/ d \in buttons' \cup torn \cup lost \/ d[1] \in refused
             \/ \E j \in InFlight' : CardOf(j)' = d
    BY <1>2 DEF StaysAnswerable, Untouched
  <2>1. d \in pending /\ d \in Cards
    BY <1>2 DEF Untouched, TypeOK
  <2>2. CASE d = c
    <3>1. i \in InFlight' /\ CardOf(i)' = d
      BY <2>2, <1>1, <1>2, <1>4, <1>7 DEF Own
    <3> QED
      BY <3>1
  <2>3. CASE d # c
    <3>1. d \in buttons => d \in buttons'
      BY <2>3, <1>2 DEF Untouched
    <3>2. ASSUME NEW j \in InFlight, CardOf(j) = d
          PROVE  j \in InFlight' /\ CardOf(j)' = d
      BY <3>2, <2>3, <1>1, <1>4, <1>7 DEF InFlight
    <3> QED
      BY <3>1, <3>2, <2>1 DEF StaysAnswerable
  <2> QED
    BY <2>2, <2>3
<1> QED
  BY <1>6, <1>8, <1>10, <1>11, <1>12, <1>13, <1>14, <1>15, <1>16

------------------------------------------------------------------------------
LEMMA CrashKeeps ==
  ASSUME IInv, HostCrashes
  PROVE  IInv'
<1> USE DEF IInv
<1>1. /\ UNCHANGED <<row, made, refused, pending, clicks, clicked, up, told, rejected, quiet, twice, lost>>
      /\ handling' = None /\ sending' = None /\ host' = FALSE /\ faults' \in 0..MaxFaults
      /\ at' = [i \in Click |-> IF i \in InFlight THEN "over" ELSE at[i]]
      /\ torn' = torn \cup {CardOf(i) : i \in InFlight}
  BY DEF HostCrashes, Fault, TypeOK
<1>2. InFlight' = {}
  BY <1>1 DEF InFlight
<1>3. \A i \in InFlight : CardOf(i) \in Cards /\ Made(CardOf(i))
  BY ClickParts
<1>4. sending # None => sending \in Cards /\ Made(sending) /\ row[sending[1]] = "queued"
  BY CardParts DEF HandlingIsQueued, Made, TypeOK
<1>5. /\ buttons' \subseteq Cards /\ \A c \in buttons' : c \in buttons \/ c = sending
      /\ \A c \in buttons \ buttons' : c \in torn'
  BY <1>1, NoneIsNew DEF HostCrashes, TypeOK
<1>6. /\ runs' \in [Cards -> Nat]
      /\ \A c \in Cards : runs'[c] = runs[c] \/ (c \in torn' /\ Made(c))
  <2>1. CASE UNCHANGED runs
    BY <2>1 DEF TypeOK
  <2>2. CASE \E i \in Click : at[i] = "editing" /\ Approved(i) /\ Started(CardOf(i))
    <3>1. PICK i \in Click : at[i] = "editing" /\ Started(CardOf(i))
      BY <2>2
    <3>2. i \in InFlight
      BY <3>1 DEF InFlight
    <3>3. PICK c \in Cards : c = CardOf(i)
      BY <3>2, <1>3
    <3>4. runs' = [runs EXCEPT ![c] = runs[c] + 1] /\ c \in torn' /\ Made(c)
      BY <3>1, <3>2, <3>3, <1>1, <1>3 DEF Started
    <3> QED
      BY <3>4 DEF TypeOK
  <2> QED
    BY <2>1, <2>2 DEF HostCrashes
<1>7. torn \subseteq torn' /\ torn' \subseteq Cards
  BY <1>1, <1>3 DEF TypeOK
<1>8. at' \in [Click -> {"editing", "running", "over"}]
  BY <1>1 DEF TypeOK
<1>9. TypeOK'
  BY <1>1, <1>5, <1>6, <1>7, <1>8 DEF TypeOK
<1>10. ClicksAreMade' /\ RejectedIsGone' /\ HandlingIsQueued'
  BY <1>1, <1>2 DEF ClicksAreMade, RejectedIsGone, HandlingIsQueued
<1>11. AnswerIsTold'
  BY <1>1 DEF AnswerIsTold, Made
<1>12. KnownAreMade'
  <2>1. \A c \in pending' \cup buttons' : Made(c)
    BY <1>1, <1>4, <1>5 DEF KnownAreMade
  <2>2. \A c \in Cards : runs'[c] > 0 \/ c \in rejected' => Made(c)
    BY <1>1, <1>6 DEF KnownAreMade
  <2> QED
    BY <2>1, <2>2, <1>1 DEF KnownAreMade, Made
<1>13. AppliedOnce'
  BY <1>1, <1>6, <1>7 DEF AppliedOnce
<1>14. StartedIsSettled'
  <2> SUFFICES ASSUME NEW c \in pending, runs'[c] > 0
      PROVE  c \in torn'
    BY <1>1 DEF StartedIsSettled
  <2>1. CASE \E i \in Click : at[i] = "running" /\ CardOf(i) = c
    BY <2>1, <1>1 DEF InFlight
  <2>2. CASE ~\E i \in Click : at[i] = "running" /\ CardOf(i) = c
    BY <2>2, <1>6, <1>7 DEF StartedIsSettled, TypeOK
  <2> QED
    BY <2>1, <2>2
<1>15. StaysAnswerable'
  <2> SUFFICES ASSUME NEW c \in pending, c[2] = made[c[1]], row[c[1]] = "delivered"
      PROVE  c \in buttons' \cup torn' \cup lost' \/ c[1] \in refused'
    BY <1>1 DEF StaysAnswerable
  <2>1. CASE \E i \in InFlight : CardOf(i) = c
    BY <2>1, <1>1
  <2>2. CASE ~\E i \in InFlight : CardOf(i) = c
    BY <2>2, <1>1, <1>5, <1>7 DEF StaysAnswerable
  <2> QED
    BY <2>1, <2>2
<1> QED
  BY <1>9, <1>10, <1>11, <1>12, <1>13, <1>14, <1>15

LEMMA NextInv ==
  ASSUME IInv, [Next]_vars
  PROVE  IInv'
<1>1. CASE UNCHANGED vars \/ ContainerChanges \/ HostStarts
  <2>1. /\ UNCHANGED <<row, handling, sending, made, refused, pending, buttons, clicks, clicked, at, told, faults,
                       runs, rejected, quiet, twice, torn, lost>>
        /\ up' \in BOOLEAN /\ host' \in BOOLEAN
    BY <1>1 DEF vars, asking, answers, hist, ContainerChanges, HostStarts, IInv, TypeOK
  <2>2. TypeOK'
    BY <2>1 DEF IInv, TypeOK
  <2> QED
    BY <2>1, <2>2 DEF IInv, ClicksAreMade, KnownAreMade, StartedIsSettled, RejectedIsGone, HandlingIsQueued,
       AppliedOnce, AnswerIsTold, StaysAnswerable, Made, InFlight, CardOf
<1>2. CASE \E r \in Requests : Ask(r) \/ Handler(r)
  BY <1>2, RequestKeeps, CardMadeKeeps DEF Handler
<1>3. CASE \E c \in Cards, v \in {"approve", "reject"} : AdminClicks(c, v)
  BY <1>3, ClickKeeps
<1>4. CASE \E i \in Click : Respond(i)
  BY <1>4, ResponseKeeps
<1>5. CASE HostCrashes
  BY <1>5, CrashKeeps
<1> QED
  BY <1>1, <1>2, <1>3, <1>4, <1>5 DEF Next

\* Nothing is started on a card that has been rejected: its row is gone.
LEMMA RejectedStep ==
  ASSUME IInv, [Next]_vars, NEW c \in rejected
  PROVE  runs'[c] = runs[c]
<1>1. c \in Cards /\ c \notin pending /\ runs \in [Cards -> Nat]
  BY DEF IInv, TypeOK, RejectedIsGone
<1>2. CASE \E i \in Click : ApplyAtOnce(i) \/ RunCommand(i)
  BY <1>1, <1>2 DEF ApplyAtOnce, RunCommand, Approved, Started
<1>3. CASE HostCrashes
  BY <1>1, <1>3 DEF HostCrashes, Approved, Started
<1>4. CASE \E i \in Click : Unclaimed(i) \/ Reject(i) \/ CommandEnds(i)
  BY <1>4 DEF Unclaimed, Reject, CommandEnds, hist
<1>5. CASE UNCHANGED vars \/ ContainerChanges \/ HostStarts
           \/ \E d \in Cards, v \in {"approve", "reject"} : AdminClicks(d, v)
  BY <1>5 DEF vars, hist, ContainerChanges, HostStarts, AdminClicks
<1>6. CASE \E r \in Requests : Ask(r) \/ Handler(r)
  BY <1>6 DEF hist, Ask, Handler, HandlerStarts, NobodyReached, CardMade, CardSent, CardFails, CardVanishes
<1> QED
  BY <1>2, <1>3, <1>4, <1>5, <1>6 DEF Next, Respond

\* The inductive invariant holds in every reachable state; the theorems below read it off.
THEOREM Invariance == Spec => []IInv
<1>1. Init => IInv
  BY InitInv
<1>2. IInv /\ [Next]_vars => IInv'
  BY NextInv
<1> QED
  BY <1>1, <1>2, PTL DEF Spec

\* Every variable keeps its type.
THEOREM ApprovalTypes == Spec => []TypeOK
<1>1. IInv => TypeOK
  BY DEF IInv
<1> QED
  BY <1>1, Invariance, PTL

\* A second start of a card's action takes a crash, or an approval that arrives while the command runs.
THEOREM ActedOnOnce == Spec => []AppliedOnce
<1>1. IInv => AppliedOnce
  BY DEF IInv
<1> QED
  BY <1>1, Invariance, PTL

\* Whatever fails, an answered card is told about, unless it was applied while the container was down.
THEOREM AnswerReachesAgent == Spec => []AnswerIsTold
<1>1. IInv => AnswerIsTold
  BY DEF IInv
<1> QED
  BY <1>1, Invariance, PTL

\* The last card of a request can be answered, or is being answered, or the agent knows that it failed.
THEOREM CardsStayAnswerable == Spec => []StaysAnswerable
<1>1. IInv => StaysAnswerable
  BY DEF IInv
<1> QED
  BY <1>1, Invariance, PTL

\* A rejection is final.
THEOREM RejectionIsFinal == Spec => RejectedStays
<1>1. IInv /\ [Next]_vars => [\A c \in rejected : runs'[c] = runs[c]]_vars
  BY RejectedStep
<1> QED
  BY <1>1, Invariance, PTL DEF Spec, RejectedStays
=============================================================================
