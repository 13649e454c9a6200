------------------------------- MODULE CallProofs -------------------------------
(***************************************************************************)
(* Callbacks are called in the order of their events, each once, whatever  *)
(* the number of bundles and callbacks, their scripts and the bounds: the  *)
(* service implements OnceInOrder.                                         *)
(***************************************************************************)
EXTENDS StartupProofs

JobsInOrder(c) ==
    \A i, j \in JobsOf(c) : i < j => jobs[Home[c]][i].id < jobs[Home[c]][j].id

IsFor(j, c) == j.kind = "callback" /\ j.cb = c

(* A loop gets callbacks of its own bundle only.                           *)
JobsOwn(b) == \A i \in DOMAIN jobs[b] : \A c \in Callbacks : IsFor(jobs[b][i], c) => Home[c] = b

CallInv ==
    /\ StartInv
    /\ \A b \in Bundles : JobsOwn(b)
    /\ CalledInOrder

LEMMA InitCall == Init => CallInv
<1> SUFFICES ASSUME Init PROVE CallInv
  OBVIOUS
<1>1. StartInv
  BY InitType
<1>2. ASSUME NEW c \in Callbacks
      PROVE  InOrder(c) /\ NoneLost(c)
  <2>1. /\ jobs[Home[c]] = <<>> /\ pending[c] = <<>> /\ wrap[c] = Idle
        /\ ran[c] = {} /\ skipped[c] = {} /\ arrived[c] = 0
    BY AutomationAssumption DEF Init, AutomationInit
  <2>2. JobsOf(c) = {} /\ OnLoop(c) = {} /\ InHand(c) = {} /\ Waiting(c) = {}
    BY <2>1 DEF JobsOf, OnLoop, InHand, Waiting, Idle
  <2>3. QED
    BY <2>1, <2>2 DEF InOrder, NoneLost, Before
<1>3. \A b \in Bundles : jobs[b] = <<>>
  BY DEF Init, AutomationInit
<1>4. QED
  BY <1>1, <1>2, <1>3 DEF CallInv, CalledInOrder, JobsOwn

-----------------------------------------------------------------------------
(* Nothing about callback c changes but, perhaps, where it is on the loop. *)
LEMMA CallUnchanged ==
    ASSUME NEW c \in Callbacks, InOrder(c), NoneLost(c),
           OnLoop(c)' = OnLoop(c), JobsInOrder(c)',
           pending'[c] = pending[c], wrap'[c] = wrap[c], ran'[c] = ran[c],
           skipped'[c] = skipped[c], arrived'[c] = arrived[c]
    PROVE  InOrder(c)' /\ NoneLost(c)'
<1>1. InHand(c)' = InHand(c) /\ Waiting(c)' = Waiting(c)
  BY DEF InHand, Waiting
<1>2. QED
  BY <1>1 DEF InOrder, NoneLost, JobsInOrder, Before

LEMMA JobsUnchanged ==
    ASSUME NEW c \in Callbacks, InOrder(c), jobs'[Home[c]] = jobs[Home[c]]
    PROVE  OnLoop(c)' = OnLoop(c) /\ JobsInOrder(c)'
BY DEF InOrder, OnLoop, JobsOf, JobsInOrder

LEMMA AppendJob ==
    ASSUME StartInv, NEW c \in Callbacks, InOrder(c), NEW b \in Bundles, NEW j \in Jobs,
           RunOnLoop(b, j)
    PROVE  /\ ~IsFor(j, c) => OnLoop(c)' = OnLoop(c) /\ JobsInOrder(c)'
           /\ IsFor(j, c) /\ Home[c] = b /\ Before(OnLoop(c), {j.id}) =>
                 OnLoop(c)' = OnLoop(c) \union {j.id} /\ JobsInOrder(c)'
<1>1. jobs \in [Bundles -> Seq(Jobs)] /\ Home[c] \in Bundles
  BY AutomationAssumption DEF StartInv, TypeOK, AutomationTypeOK
<1>2. CASE Home[c] # b
  <2>1. jobs'[Home[c]] = jobs[Home[c]]
    BY <1>1, <1>2 DEF RunOnLoop
  <2>2. QED
    BY <1>2, <2>1, JobsUnchanged
<1>3. CASE Home[c] = b
  <2> DEFINE n == Len(jobs[b])
  <2>1. /\ jobs'[b] = Append(jobs[b], j) /\ n \in Nat
        /\ DOMAIN jobs[b] = 1 .. n /\ DOMAIN jobs'[b] = 1 .. n + 1
        /\ jobs'[b][n + 1] = j
        /\ \A i \in 1 .. n : jobs'[b][i] = jobs[b][i]
    BY <1>1 DEF RunOnLoop
  <2>2. CASE ~IsFor(j, c)
    <3>1. JobsOf(c)' = JobsOf(c)
      BY <1>3, <2>1, <2>2 DEF JobsOf, IsFor
    <3>2. \A i \in JobsOf(c) : jobs'[b][i] = jobs[b][i]
      BY <1>3, <2>1 DEF JobsOf
    <3>3. QED
      BY <1>3, <2>2, <3>1, <3>2 DEF OnLoop, InOrder, JobsInOrder
  <2>3. CASE IsFor(j, c)
    <3>1. JobsOf(c)' = JobsOf(c) \union {n + 1}
      BY <1>3, <2>1, <2>3 DEF JobsOf, IsFor
    <3>2. \A i \in JobsOf(c) : i \in 1 .. n /\ jobs'[b][i] = jobs[b][i]
      BY <1>3, <2>1 DEF JobsOf
    <3>3. OnLoop(c)' = OnLoop(c) \union {j.id}
      BY <1>3, <2>1, <3>1, <3>2 DEF OnLoop
    <3>4. ASSUME Before(OnLoop(c), {j.id})
          PROVE  JobsInOrder(c)'
      <4>1. \A i \in JobsOf(c) : jobs[b][i].id < j.id
        BY <1>3, <3>4 DEF Before, OnLoop
      <4>2. QED
        BY <1>3, <2>1, <3>1, <3>2, <4>1 DEF JobsInOrder, InOrder
    <3>5. QED
      BY <2>3, <3>3, <3>4
  <2>4. QED
    BY <2>2, <2>3
<1>4. QED
  BY <1>2, <1>3

(* The loop takes the oldest job.                                          *)
LEMMA TakeJob ==
    ASSUME StartInv, NEW c \in Callbacks, InOrder(c), jobs[Home[c]] # <<>>,
           jobs'[Home[c]] = Tail(jobs[Home[c]])
    PROVE  /\ JobsInOrder(c)'
           /\ ~IsFor(Head(jobs[Home[c]]), c) => OnLoop(c)' = OnLoop(c)
           /\ IsFor(Head(jobs[Home[c]]), c) =>
                 /\ OnLoop(c) = OnLoop(c)' \union {Head(jobs[Home[c]]).id}
                 /\ Before({Head(jobs[Home[c]]).id}, OnLoop(c)')
<1> DEFINE q == jobs[Home[c]]
           r == jobs'[Home[c]]
           n == Len(q)
<1>1. /\ q \in Seq(Jobs) /\ n \in Nat \ {0}
      /\ DOMAIN q = 1 .. n /\ DOMAIN r = 1 .. n - 1 /\ Head(q) = q[1]
      /\ \A i \in 1 .. n - 1 : r[i] = q[i + 1]
  <2>1. jobs \in [Bundles -> Seq(Jobs)] /\ Home[c] \in Bundles
    BY AutomationAssumption DEF StartInv, TypeOK, AutomationTypeOK
  <2>2. q \in Seq(Jobs) /\ q # <<>> /\ r = Tail(q)
    BY <2>1
  <2>3. QED
    BY <2>2
<1> HIDE DEF q, r, n
<1>2. /\ JobsOf(c) = {i \in 1 .. n : IsFor(q[i], c)}
      /\ JobsOf(c)' = {i \in 1 .. n - 1 : IsFor(q[i + 1], c)}
  <2>1. JobsOf(c) = {i \in 1 .. n : IsFor(q[i], c)}
    BY <1>1 DEF JobsOf, IsFor, q
  <2>2. JobsOf(c)' = {i \in 1 .. n - 1 : IsFor(r[i], c)}
    BY <1>1 DEF JobsOf, IsFor, r
  <2>3. QED
    BY <1>1, <2>1, <2>2
<1>3. /\ \A i \in JobsOf(c)' : i \in Int /\ i + 1 \in JobsOf(c) /\ r[i] = q[i + 1]
      /\ \A i \in JobsOf(c) : i # 1 => i - 1 \in JobsOf(c)' /\ r[i - 1] = q[i]
      /\ 1 \in JobsOf(c) <=> IsFor(q[1], c)
  BY <1>1, <1>2
<1>4. /\ OnLoop(c) = {q[i].id : i \in JobsOf(c)}
      /\ OnLoop(c)' = {r[i].id : i \in JobsOf(c)'}
      /\ \A i, j \in JobsOf(c) : i < j => q[i].id < q[j].id
  BY DEF OnLoop, InOrder, q, r
<1>5. JobsInOrder(c)'
  <2>1. \A i, j \in JobsOf(c)' : i < j => r[i].id < r[j].id
    BY <1>3, <1>4
  <2>2. QED
    BY <2>1 DEF JobsInOrder, r
<1>6. CASE ~IsFor(q[1], c)
  <2>1. OnLoop(c)' \subseteq OnLoop(c)
    BY <1>3, <1>4
  <2>2. ASSUME NEW x \in OnLoop(c)
        PROVE  x \in OnLoop(c)'
    <3>1. PICK i \in JobsOf(c) : x = q[i].id
      BY <1>4
    <3>2. i - 1 \in JobsOf(c)' /\ r[i - 1] = q[i]
      BY <1>3, <1>6
    <3>3. QED
      BY <1>4, <3>1, <3>2
  <2>3. OnLoop(c)' = OnLoop(c)
    BY <2>1, <2>2
  <2>4. QED
    BY <1>1, <1>5, <1>6, <2>3 DEF q
<1>7. CASE IsFor(q[1], c)
  <2>1. OnLoop(c) = OnLoop(c)' \union {q[1].id}
    <3>1. OnLoop(c)' \union {q[1].id} \subseteq OnLoop(c)
      BY <1>3, <1>4, <1>7
    <3>2. ASSUME NEW x \in OnLoop(c), x # q[1].id
          PROVE  x \in OnLoop(c)'
      <4>1. PICK i \in JobsOf(c) : x = q[i].id
        BY <1>4
      <4>2. i - 1 \in JobsOf(c)' /\ r[i - 1] = q[i]
        BY <1>3, <3>2, <4>1
      <4>3. QED
        BY <1>4, <4>1, <4>2
    <3>3. QED
      BY <3>1, <3>2
  <2>2. ASSUME NEW i \in JobsOf(c)' PROVE q[1].id < r[i].id
    <3>1. i + 1 \in JobsOf(c) /\ 1 \in JobsOf(c) /\ r[i] = q[i + 1]
      BY <1>3, <1>7
    <3>2. 1 < i + 1
      BY <1>1, <1>2
    <3>3. QED
      BY <1>4, <3>1, <3>2
  <2>3. Before({q[1].id}, OnLoop(c)')
    BY <1>4, <2>2 DEF Before
  <2>4. QED
    BY <1>1, <1>5, <1>7, <2>1, <2>3 DEF q
<1>8. QED
  BY <1>6, <1>7

-----------------------------------------------------------------------------
(* The steps.                                                              *)

LEMMA OwnAppend ==
    ASSUME CallInv, NEW b \in Bundles, NEW j \in Jobs, RunOnLoop(b, j),
           \A c \in Callbacks : IsFor(j, c) => Home[c] = b
    PROVE  \A a \in Bundles : JobsOwn(a)'
<1> SUFFICES ASSUME NEW a \in Bundles PROVE JobsOwn(a)'
  OBVIOUS
<1>1. jobs \in [Bundles -> Seq(Jobs)] /\ JobsOwn(a)
  BY DEF CallInv, StartInv, TypeOK, AutomationTypeOK
<1>2. CASE a # b
  BY <1>1, <1>2 DEF RunOnLoop, JobsOwn
<1>3. CASE a = b
  <2>1. /\ jobs'[b] = Append(jobs[b], j) /\ Len(jobs[b]) \in Nat
        /\ DOMAIN jobs[b] = 1 .. Len(jobs[b]) /\ DOMAIN jobs'[b] = 1 .. Len(jobs[b]) + 1
        /\ jobs'[b][Len(jobs[b]) + 1] = j
        /\ \A i \in 1 .. Len(jobs[b]) : jobs'[b][i] = jobs[b][i]
    BY <1>1 DEF RunOnLoop
  <2>2. QED
    BY <1>1, <1>3, <2>1 DEF JobsOwn
<1>4. QED
  BY <1>2, <1>3

LEMMA CallLoop ==
    ASSUME CallInv, NEW b \in Bundles, Loop(b)
    PROVE  /\ \A c \in Callbacks : InOrder(c)' /\ NoneLost(c)'
           /\ \A a \in Bundles : JobsOwn(a)'
<1> USE DEF loopVars, scriptVars, coreVars
<1>1. /\ jobs \in [Bundles -> Seq(Jobs)] /\ ran \in [Callbacks -> SUBSET Ids]
      /\ StartInv /\ \A c \in Callbacks : Home[c] \in Bundles /\ InOrder(c) /\ NoneLost(c)
  BY AutomationAssumption DEF CallInv, CalledInOrder, StartInv, TypeOK, AutomationTypeOK
<1>2. CASE LoopCall(b) \/ ServiceCall(b) \/ ServiceReturn(b) \/ LoopReturn(b)
  <2>1. UNCHANGED <<jobs, pending, wrap, ran, skipped, arrived>>
    BY <1>2 DEF LoopCall, ServiceCall, ServiceReturn, LoopReturn
  <2>2. \A a \in Bundles : JobsOwn(a)'
    BY <2>1 DEF CallInv, JobsOwn
  <2>3. QED
    BY <1>1, <2>1, <2>2, CallUnchanged, JobsUnchanged
<1>3. CASE LoopTake(b)
  <2> DEFINE j == Head(jobs[b])
  <2>1. /\ jobs[b] # <<>> /\ jobs' = [jobs EXCEPT ![b] = Tail(jobs[b])]
        /\ UNCHANGED <<pending, wrap, skipped, arrived>>
        /\ ran' = IF j.kind = "callback" THEN [ran EXCEPT ![j.cb] = ran[j.cb] \union {j.id}]
                  ELSE ran
    BY <1>3 DEF LoopTake
  <2>2. /\ j \in Jobs /\ j = jobs[b][1] /\ 1 \in DOMAIN jobs[b]
        /\ \A i \in DOMAIN Tail(jobs[b]) :
              i + 1 \in DOMAIN jobs[b] /\ Tail(jobs[b])[i] = jobs[b][i + 1]
    BY <1>1, <2>1
  <2>3. \A a \in Bundles : JobsOwn(a)'
    <3>1. JobsOwn(b)'
      BY <1>1, <2>1, <2>2 DEF CallInv, JobsOwn
    <3>2. \A a \in Bundles \ {b} : JobsOwn(a)'
      BY <1>1, <2>1 DEF CallInv, JobsOwn
    <3>3. QED
      BY <3>1, <3>2
  <2>4. ASSUME NEW c \in Callbacks
        PROVE  InOrder(c)' /\ NoneLost(c)'
    <3>1. /\ IsFor(j, c) => Home[c] = b /\ ran'[c] = ran[c] \union {j.id}
          /\ ~IsFor(j, c) => ran'[c] = ran[c]
      BY <1>1, <2>1, <2>2 DEF CallInv, JobsOwn, IsFor
    <3>2. CASE Home[c] # b
      <4>1. jobs'[Home[c]] = jobs[Home[c]]
        BY <1>1, <2>1, <3>2
      <4>2. QED
        BY <1>1, <2>1, <3>1, <3>2, <4>1, CallUnchanged, JobsUnchanged
    <3>3. CASE Home[c] = b /\ ~IsFor(j, c)
      <4>1. jobs'[Home[c]] = Tail(jobs[Home[c]])
        BY <1>1, <2>1, <3>3
      <4>2. OnLoop(c)' = OnLoop(c) /\ JobsInOrder(c)'
        BY <1>1, <2>1, <3>3, <4>1, TakeJob
      <4>3. QED
        BY <1>1, <2>1, <3>1, <3>3, <4>2, CallUnchanged
    <3>4. CASE Home[c] = b /\ IsFor(j, c)
      <4>1. jobs'[Home[c]] = Tail(jobs[Home[c]])
        BY <1>1, <2>1, <3>4
      <4>2. /\ OnLoop(c) = OnLoop(c)' \union {j.id} /\ JobsInOrder(c)'
            /\ Before({j.id}, OnLoop(c)')
        BY <1>1, <2>1, <3>4, <4>1, TakeJob
      <4>3. /\ ran'[c] \union OnLoop(c)' = ran[c] \union OnLoop(c)
            /\ InHand(c)' = InHand(c) /\ Waiting(c)' = Waiting(c)
        BY <2>1, <3>1, <3>4, <4>2 DEF InHand, Waiting
      <4>4. Before(ran'[c], OnLoop(c)')
        BY <1>1, <3>1, <3>4, <4>2 DEF InOrder, Before
      <4>5. InOrder(c)'
        <5>1. InOrder(c) /\ pending'[c] = pending[c]
          BY <1>1, <2>1
        <5>2. /\ Before(ran'[c] \union OnLoop(c)', InHand(c)')
              /\ Before(ran'[c] \union OnLoop(c)' \union InHand(c)', Waiting(c)')
          BY <4>3, <5>1 DEF InOrder
        <5>3. QED
          BY <4>2, <4>4, <5>1, <5>2 DEF InOrder, JobsInOrder
      <4>6. NoneLost(c)'
        BY <1>1, <2>1, <4>3 DEF NoneLost
      <4>7. QED
        BY <4>5, <4>6
    <3>5. QED
      BY <3>2, <3>3, <3>4
  <2>5. QED
    BY <2>3, <2>4
<1>4. QED
  BY <1>2, <1>3 DEF Loop

LEMMA CallTypes ==
    ASSUME CallInv, NEW c \in Callbacks
    PROVE  /\ InOrder(c) /\ NoneLost(c) /\ Home[c] \in Bundles
           /\ arrived \in [Callbacks -> 0 .. MaxArrivals] /\ arrived[c] \in Nat /\ MaxArrivals \in Nat
           /\ pending \in [Callbacks -> Seq(Ids)] /\ pending[c] \in Seq(Ids)
           /\ skipped \in [Callbacks -> SUBSET Ids] /\ ran[c] \in SUBSET Ids
           /\ wrap \in [Callbacks -> {Idle} \union [at : {"called", "registered", "returning"}, id : Ids]]
           /\ wrap[c] \in {Idle} \union [at : {"called", "registered", "returning"}, id : Ids]
<1>1. TypeOK /\ InOrder(c) /\ NoneLost(c)
  BY DEF CallInv, CalledInOrder, StartInv
<1>2. AutomationTypeOK
  BY <1>1 DEF TypeOK
<1>3. arrived[c] \in 0 .. MaxArrivals /\ MaxArrivals \in Nat
  BY <1>2, AutomationAssumption DEF AutomationTypeOK
<1>4. QED
  BY <1>1, <1>2, <1>3, AutomationAssumption DEF AutomationTypeOK

LEMMA CallArrive ==
    ASSUME CallInv, NEW c \in Callbacks, Arrive(c)
    PROVE  InOrder(c)' /\ NoneLost(c)'
<1> USE DEF loopVars, scriptVars, coreVars
<1> DEFINE n == arrived[c] + 1
           q == pending[c]
<1>1. /\ InOrder(c) /\ NoneLost(c) /\ arrived[c] \in Nat /\ n \in Ids /\ q \in Seq(Ids)
      /\ UNCHANGED <<jobs, ran, wrap, skipped>> /\ arrived'[c] = n /\ pending'[c] = Append(q, n)
  <2>1. n \in Ids
    BY CallTypes DEF Arrive, Ids
  <2>2. arrived'[c] = n /\ pending'[c] = Append(q, n)
    BY CallTypes DEF Arrive
  <2>3. QED
    BY <2>1, <2>2, CallTypes DEF Arrive
<1>2. /\ Len(q) \in Nat /\ DOMAIN q = 1 .. Len(q) /\ DOMAIN Append(q, n) = 1 .. Len(q) + 1
      /\ Append(q, n)[Len(q) + 1] = n /\ \A i \in 1 .. Len(q) : Append(q, n)[i] = q[i]
  BY <1>1
<1>3. /\ OnLoop(c)' = OnLoop(c) /\ JobsInOrder(c)' /\ InHand(c)' = InHand(c)
      /\ Waiting(c)' = Waiting(c) \union {n}
  <2>1. OnLoop(c)' = OnLoop(c) /\ JobsInOrder(c)'
    BY <1>1, JobsUnchanged
  <2>2. InHand(c)' = InHand(c)
    BY <1>1 DEF InHand
  <2>3. Waiting(c)' = Waiting(c) \union {n}
    BY <1>1, <1>2 DEF Waiting
  <2>4. QED
    BY <2>1, <2>2, <2>3
<1>4. \A x \in ran[c] \union OnLoop(c) \union InHand(c) \union Waiting(c) \union skipped[c] : x < n /\ x # n
  <2>1. \A x \in 1 .. arrived[c] : x < n /\ x # n
    BY <1>1
  <2>2. QED
    BY <1>1, <2>1 DEF NoneLost
<1>5. \A i, j \in DOMAIN pending'[c] : i < j => pending'[c][i] < pending'[c][j]
  <2>1. \A i \in DOMAIN q : q[i] < n
    BY <1>4 DEF Waiting
  <2>2. QED
    BY <1>1, <1>2, <2>1 DEF InOrder
<1>6. InOrder(c)'
  <2> DEFINE S == ran[c] \union OnLoop(c) \union InHand(c)
  <2>1. Before(S, Waiting(c)')
    <3>1. Before(S, Waiting(c))
      BY <1>1 DEF InOrder
    <3>2. QED
      BY <1>3, <1>4, <3>1 DEF Before
  <2>2. ran'[c] = ran[c]
    BY <1>1
  <2>3. Before(ran'[c] \union OnLoop(c)' \union InHand(c)', Waiting(c)')
    BY <1>3, <2>1, <2>2
  <2>4. Before(ran'[c], OnLoop(c)') /\ Before(ran'[c] \union OnLoop(c)', InHand(c)')
    BY <1>1, <1>3, <2>2 DEF InOrder
  <2>5. QED
    BY <1>3, <1>5, <2>3, <2>4 DEF InOrder, JobsInOrder
<1>7. NoneLost(c)'
  <2>1. 1 .. n = 1 .. arrived[c] \union {n}
    BY <1>1
  <2>2. QED
    BY <1>1, <1>3, <1>4, <2>1 DEF NoneLost
<1>8. QED
  BY <1>6, <1>7

(* wrapOperation gets the oldest event, or it is left out.                 *)
LEMMA CallTake ==
    ASSUME CallInv, NEW c \in Callbacks, Call(c) \/ ConvertError(c)
    PROVE  InOrder(c)' /\ NoneLost(c)'
<1> USE DEF loopVars, scriptVars, coreVars
<1> DEFINE q == pending[c]
           x == Head(q)
<1>1. /\ InOrder(c) /\ NoneLost(c) /\ q \in Seq(Ids) /\ q # <<>> /\ wrap[c] = Idle
      /\ UNCHANGED <<jobs, ran, arrived>> /\ pending'[c] = Tail(q)
  BY CallTypes DEF Call, ConvertError
<1>2. /\ x \in Ids /\ x = q[1] /\ Len(q) \in Nat \ {0}
      /\ DOMAIN q = 1 .. Len(q) /\ DOMAIN Tail(q) = 1 .. Len(q) - 1
      /\ \A i \in 1 .. Len(q) - 1 : Tail(q)[i] = q[i + 1]
  BY <1>1
<1>3. OnLoop(c)' = OnLoop(c) /\ JobsInOrder(c)' /\ InHand(c) = {}
  BY <1>1, JobsUnchanged DEF InHand, Idle
<1>4. Waiting(c) = Waiting(c)' \union {x} /\ Before({x}, Waiting(c)')
  <2>1. ASSUME NEW y \in Waiting(c)'
        PROVE  y \in Waiting(c) /\ x < y
    <3>1. PICK i \in 1 .. Len(q) - 1 : y = Tail(q)[i]
      BY <1>1, <1>2 DEF Waiting
    <3>2. 1 \in DOMAIN q /\ i + 1 \in DOMAIN q /\ 1 < i + 1 /\ y = q[i + 1]
      BY <1>2, <3>1
    <3>3. x < y
      <4>1. \A k, l \in DOMAIN q : k < l => q[k] < q[l]
        BY <1>1 DEF InOrder
      <4>2. QED
        BY <1>2, <3>2, <4>1
    <3>4. QED
      BY <3>2, <3>3 DEF Waiting
  <2>2. ASSUME NEW y \in Waiting(c), y # x
        PROVE  y \in Waiting(c)'
    <3>1. PICK i \in 1 .. Len(q) : y = q[i]
      BY <1>2 DEF Waiting
    <3>2. i - 1 \in DOMAIN Tail(q) /\ Tail(q)[i - 1] = y
      BY <1>2, <2>2, <3>1
    <3>3. QED
      BY <1>1, <3>2 DEF Waiting
  <2>3. x \in Waiting(c)
    BY <1>2 DEF Waiting
  <2>4. QED
    BY <2>1, <2>2, <2>3 DEF Before
<1>5. \A i, j \in DOMAIN pending'[c] : i < j => pending'[c][i] < pending'[c][j]
  <2>1. \A i, j \in 1 .. Len(q) : i < j => q[i] < q[j]
    BY <1>1, <1>2 DEF InOrder
  <2>2. SUFFICES ASSUME NEW i \in 1 .. Len(q) - 1, NEW j \in 1 .. Len(q) - 1, i < j
                 PROVE  Tail(q)[i] < Tail(q)[j]
    BY <1>1, <1>2
  <2>3. i + 1 \in 1 .. Len(q) /\ j + 1 \in 1 .. Len(q) /\ i + 1 < j + 1
    BY <1>2, <2>2
  <2>4. QED
    BY <1>2, <2>1, <2>3
<1>6. Before(ran[c] \union OnLoop(c), {x})
  BY <1>1, <1>4 DEF InOrder, Before
<1>7. CASE Call(c)
  <2>1. InHand(c)' = {x} /\ skipped' = skipped
    <3>1. wrap'[c] = [at |-> "called", id |-> x] /\ skipped' = skipped
      BY <1>7, CallTypes DEF Call
    <3>2. QED
      BY <3>1 DEF InHand
  <2>2. InOrder(c)'
    BY <1>1, <1>3, <1>4, <1>5, <1>6, <2>1 DEF InOrder, JobsInOrder, Before
  <2>3. NoneLost(c)'
    BY <1>1, <1>3, <1>4, <2>1 DEF NoneLost
  <2>4. QED
    BY <2>2, <2>3
<1>8. CASE ConvertError(c)
  <2>1. InHand(c)' = {} /\ skipped'[c] = skipped[c] \union {x}
    <3>1. wrap'[c] = Idle /\ skipped'[c] = skipped[c] \union {x}
      BY <1>1, <1>8, CallTypes DEF ConvertError
    <3>2. QED
      BY <3>1 DEF InHand, Idle
  <2>2. InOrder(c)'
    BY <1>1, <1>3, <1>4, <1>5, <2>1 DEF InOrder, JobsInOrder, Before
  <2>3. x \notin ran[c] \union OnLoop(c) \union Waiting(c)'
    BY <1>2, <1>4, <1>6 DEF Before, Ids
  <2>4. NoneLost(c)'
    BY <1>1, <1>3, <1>4, <2>1, <2>3 DEF NoneLost
  <2>5. QED
    BY <2>2, <2>4
<1>9. QED
  BY <1>7, <1>8

(* wrapOperation puts the callback on the loop.                            *)
LEMMA CallPut ==
    ASSUME CallInv, NEW c \in Callbacks, CallPlain(c) \/ CallWrapped(c)
    PROVE  /\ \A d \in Callbacks : InOrder(d)' /\ NoneLost(d)'
           /\ \A a \in Bundles : JobsOwn(a)'
<1> DEFINE x == wrap[c].id
           j == Callback(c, x)
<1>1. /\ wrap[c].at \in {"called", "registered"} /\ x \in Ids /\ InHand(c) = {x}
      /\ UNCHANGED <<pending, arrived, skipped, ran>>
      /\ RunOnLoop(Home[c], j)
  <2>1. wrap[c].at \in {"called", "registered"}
    BY DEF CallPlain, CallWrapped
  <2>2. x \in Ids
    BY <2>1, CallTypes DEF Idle
  <2>3. QED
    BY <2>1, <2>2 DEF CallPlain, CallWrapped, InHand
<1>2. /\ wrap'[c].at \in {"idle", "returning"}
      /\ \A d \in Callbacks \ {c} : wrap'[d] = wrap[d]
  BY CallTypes DEF CallPlain, CallWrapped, Idle
<1>3. j \in Jobs /\ j.id = x /\ \A d \in Callbacks : IsFor(j, d) <=> d = c
  BY <1>1 DEF Callback, Jobs, IsFor
<1>4. StartInv
  BY DEF CallInv
<1>5. \A a \in Bundles : JobsOwn(a)'
  BY <1>1, <1>3, CallTypes, OwnAppend
<1>6. ASSUME NEW d \in Callbacks, d # c
      PROVE  InOrder(d)' /\ NoneLost(d)'
  <2>1. OnLoop(d)' = OnLoop(d) /\ JobsInOrder(d)'
    BY <1>1, <1>3, <1>4, <1>6, CallTypes, AppendJob
  <2>2. QED
    BY <1>1, <1>2, <1>6, <2>1, CallTypes, CallUnchanged
<1>7. InOrder(c)' /\ NoneLost(c)'
  <2>1. InOrder(c) /\ NoneLost(c) /\ Home[c] \in Bundles
    BY CallTypes
  <2>2. Before(ran[c], {x}) /\ Before(OnLoop(c), {x})
    BY <1>1, <2>1 DEF InOrder, Before
  <2>3. OnLoop(c)' = OnLoop(c) \union {x} /\ JobsInOrder(c)'
    BY <1>1, <1>3, <1>4, <2>1, <2>2, AppendJob
  <2>4. InHand(c)' = {} /\ Waiting(c)' = Waiting(c)
    BY <1>1, <1>2 DEF InHand, Waiting
  <2>5. Before(ran'[c], OnLoop(c)')
    BY <1>1, <2>1, <2>2, <2>3 DEF InOrder, Before
  <2>6. Before(ran'[c] \union OnLoop(c)' \union InHand(c)', Waiting(c)')
    BY <1>1, <2>1, <2>3, <2>4 DEF InOrder
  <2>7. Before(ran'[c] \union OnLoop(c)', InHand(c)')
    BY <2>4 DEF Before
  <2>8. \A i, k \in DOMAIN pending'[c] : i < k => pending'[c][i] < pending'[c][k]
    BY <1>1, <2>1 DEF InOrder
  <2>9. NoneLost(c)'
    BY <1>1, <2>1, <2>3, <2>4 DEF NoneLost
  <2>10. QED
    BY <2>3, <2>5, <2>6, <2>7, <2>8, <2>9 DEF InOrder, JobsInOrder
<1>8. QED
  BY <1>5, <1>6, <1>7

(* op.Wrap before and after the call.                                      *)
LEMMA CallWrap ==
    ASSUME CallInv, NEW c \in Callbacks, Register(c) \/ Complete(c)
    PROVE  InOrder(c)' /\ NoneLost(c)'
<1> USE DEF loopVars, scriptVars, coreVars
<1> DEFINE x == wrap[c].id
<1>1. /\ InOrder(c) /\ NoneLost(c) /\ UNCHANGED <<jobs, pending, arrived, ran>>
  BY CallTypes DEF Register, Complete
<1>2. OnLoop(c)' = OnLoop(c) /\ JobsInOrder(c)' /\ Waiting(c)' = Waiting(c)
  BY <1>1, JobsUnchanged DEF Waiting
<1>3. \/ InHand(c)' = InHand(c) /\ skipped'[c] = skipped[c]
      \/ InHand(c)' = {} /\ InHand(c) = {x} /\ x \in Ids /\ skipped'[c] = skipped[c] \union {x}
  <2>1. CASE Complete(c)
    <3>1. wrap[c].at = "returning" /\ wrap'[c] = Idle /\ skipped' = skipped
      BY <2>1, CallTypes DEF Complete
    <3>2. QED
      BY <3>1 DEF InHand, Idle
  <2>2. CASE Register(c)
    <3>1. wrap[c].at = "called" /\ x \in Ids
      BY <2>2, CallTypes DEF Register, Idle
    <3>2. \/ wrap'[c] = [wrap[c] EXCEPT !.at = "registered"] /\ skipped' = skipped
          \/ wrap'[c] = Idle /\ skipped'[c] = skipped[c] \union {x}
      BY <2>2, CallTypes DEF Register
    <3>3. CASE wrap'[c] = [wrap[c] EXCEPT !.at = "registered"] /\ skipped' = skipped
      <4>1. wrap'[c].at = "registered" /\ wrap'[c].id = x
        BY <3>1, <3>3, CallTypes DEF Idle
      <4>2. QED
        BY <3>1, <3>3, <4>1 DEF InHand
    <3>4. CASE wrap'[c] = Idle /\ skipped'[c] = skipped[c] \union {x}
      BY <3>1, <3>4 DEF InHand, Idle
    <3>5. QED
      BY <3>2, <3>3, <3>4
  <2>3. QED
    BY <2>1, <2>2
<1>4. InHand(c)' \subseteq InHand(c)
  BY <1>3
<1>5. InOrder(c)'
  <2>1. Before(ran[c] \union OnLoop(c), InHand(c)')
    BY <1>1, <1>4 DEF InOrder, Before
  <2>2. Before(ran[c] \union OnLoop(c) \union InHand(c)', Waiting(c))
    BY <1>1, <1>4 DEF InOrder, Before
  <2>3. ran'[c] = ran[c] /\ pending'[c] = pending[c]
    BY <1>1
  <2>4. QED
    BY <1>1, <1>2, <2>1, <2>2, <2>3 DEF InOrder, JobsInOrder
<1>6. NoneLost(c)'
  <2>1. ran'[c] = ran[c] /\ arrived'[c] = arrived[c]
    BY <1>1
  <2>2. CASE InHand(c)' = InHand(c) /\ skipped'[c] = skipped[c]
    BY <1>1, <1>2, <2>1, <2>2 DEF NoneLost
  <2>3. CASE InHand(c)' = {} /\ InHand(c) = {x} /\ x \in Ids /\ skipped'[c] = skipped[c] \union {x}
    <3>1. Before(ran[c] \union OnLoop(c), {x}) /\ Before({x}, Waiting(c))
      BY <1>1, <2>3 DEF InOrder, Before
    <3>2. x \notin ran[c] \union OnLoop(c) \union Waiting(c)
      BY <2>3, <3>1 DEF Before, Ids
    <3>3. QED
      BY <1>1, <1>2, <2>1, <2>3, <3>2 DEF NoneLost
  <2>4. QED
    BY <1>3, <2>2, <2>3
<1>7. QED
  BY <1>5, <1>6

(* The other callbacks.                                                    *)
LEMMA CallOthers ==
    ASSUME CallInv, NEW c \in Callbacks, NEW d \in Callbacks, d # c,
           Arrive(c) \/ Call(c) \/ ConvertError(c) \/ Register(c) \/ Complete(c)
    PROVE  InOrder(d)' /\ NoneLost(d)'
<1> USE DEF loopVars, scriptVars, coreVars
<1>1. UNCHANGED <<jobs, ran>>
  BY DEF Arrive, Call, ConvertError, Register, Complete
<1>2. arrived'[d] = arrived[d]
  BY CallTypes DEF Arrive, Call, ConvertError, Register, Complete
<1>3. pending'[d] = pending[d]
  BY CallTypes DEF Arrive, Call, ConvertError, Register, Complete
<1>4. wrap'[d] = wrap[d]
  BY CallTypes DEF Arrive, Call, ConvertError, Register, Complete
<1>5. skipped'[d] = skipped[d]
  BY CallTypes DEF Arrive, Call, ConvertError, Register, Complete
<1>6. QED
  BY <1>1, <1>2, <1>3, <1>4, <1>5, CallTypes, JobsUnchanged, CallUnchanged

LEMMA CallCore ==
    ASSUME CallInv, NEW c \in Callbacks, Deliver(c) \/ Trigger(c) \/ WrapOperation(c)
    PROVE  /\ \A d \in Callbacks : InOrder(d)' /\ NoneLost(d)'
           /\ \A a \in Bundles : JobsOwn(a)'
<1>1. CASE CallPlain(c) \/ CallWrapped(c)
  BY <1>1, CallPut
<1>2. CASE Arrive(c) \/ Call(c) \/ ConvertError(c) \/ Register(c) \/ Complete(c)
  <2>1. jobs' = jobs
    BY <1>2 DEF Arrive, Call, ConvertError, Register, Complete, loopVars
  <2>2. \A a \in Bundles : JobsOwn(a)'
    BY <2>1 DEF CallInv, JobsOwn
  <2>3. InOrder(c)' /\ NoneLost(c)'
    BY <1>2, CallArrive, CallTake, CallWrap
  <2>4. \A d \in Callbacks : d # c => InOrder(d)' /\ NoneLost(d)'
    BY <1>2, CallOthers
  <2>5. QED
    BY <2>2, <2>3, <2>4
<1>3. QED
  BY <1>1, <1>2 DEF Deliver, Trigger, WrapOperation

LEMMA CallMain ==
    ASSUME CallInv, Main \/ (\E b \in Bundles : Service(b)) \/ UNCHANGED vars
    PROVE  /\ \A c \in Callbacks : InOrder(c)' /\ NoneLost(c)'
           /\ \A a \in Bundles : JobsOwn(a)'
<1> USE DEF loopVars, scriptVars, coreVars
<1>1. UNCHANGED <<pending, wrap, ran, skipped, arrived>>
  BY DEF Main, Boot, Prepare, PrepareLock, PreparedBefore, New, ApplyOptions, EnableModules, LoadVars,
         RunParameters, RunParametersReturn, RunScript, RunScriptReturn, Serve, Service, vars,
         automationVars
<1>2. CASE jobs' = jobs
  <2>1. \A a \in Bundles : JobsOwn(a)'
    BY <1>2 DEF CallInv, JobsOwn
  <2>2. QED
    BY <1>1, <1>2, <2>1, CallTypes, JobsUnchanged, CallUnchanged
<1>3. CASE RunParameters \/ RunScript
  <2>1. PICK j \in {[kind |-> "parameters"], [kind |-> "script"]} : RunOnLoop(Current, j)
    BY <1>3 DEF RunParameters, RunScript
  <2>2. StartInv
    BY DEF CallInv
  <2>3. Current \in Bundles
    BY <1>3, <2>2, CurrentIsBundle DEF RunParameters, RunScript, StartInv, Working
  <2>4. j \in Jobs /\ \A c : ~IsFor(j, c)
    BY DEF Jobs, IsFor
  <2>5. \A a \in Bundles : JobsOwn(a)'
    BY <2>1, <2>3, <2>4, OwnAppend
  <2>6. QED
    BY <1>1, <2>1, <2>2, <2>3, <2>4, <2>5, CallTypes, AppendJob, CallUnchanged
<1>4. QED
  BY <1>2, <1>3
  DEF Main, Boot, Prepare, PrepareLock, PreparedBefore, New, ApplyOptions, EnableModules, LoadVars,
      RunParametersReturn, RunScriptReturn, Serve, Service, vars, automationVars

LEMMA CallStep == CallInv /\ [Next]_vars => CallInv'
<1> SUFFICES ASSUME CallInv, [Next]_vars PROVE CallInv'
  OBVIOUS
<1>1. StartInv'
  BY StartInvStep DEF CallInv
<1>2. /\ \A c \in Callbacks : InOrder(c)' /\ NoneLost(c)'
      /\ \A b \in Bundles : JobsOwn(b)'
  BY CallMain, CallLoop, CallCore DEF Next
<1>3. QED
  BY <1>1, <1>2 DEF CallInv, CalledInOrder

(* A callback is called once for every event and trigger that arrived, in  *)
(* their order, except for those left out (core.go:186-198 and 65-78): the *)
(* channel, the mutex of the entry, wrapOperation and the loop hold them   *)
(* in this order, whatever else is on the loop.                            *)
THEOREM CallsInOrder == Spec => []CalledInOrder
<1>1. CallInv => CalledInOrder
  BY DEF CallInv
<1>2. QED
  BY InitCall, CallStep, <1>1, PTL DEF Spec

-----------------------------------------------------------------------------
(* The specification of what a script is promised.                         *)

LEMMA OthersOpen ==
    ASSUME CallInv, NEW c \in Callbacks
    PROVE  Abstract!Open(c) = OnLoop(c) \union InHand(c) \union Waiting(c)
<1>1. InOrder(c) /\ NoneLost(c) /\ ran[c] \in SUBSET Ids
  BY CallTypes
<1>2. ran[c] \intersect (OnLoop(c) \union InHand(c) \union Waiting(c)) = {}
  BY <1>1 DEF InOrder, Before, Ids
<1>3. QED
  BY <1>1, <1>2 DEF NoneLost, Abstract!Open

LEMMA NowUnchanged ==
    ASSUME UNCHANGED job
    PROVE  \A c \in Callbacks : Now(c)' = Now(c)
BY DEF Now

(* A loop takes a job: the callback it is for is being called with its id. *)
LEMMA NowTaken ==
    ASSUME CallInv, NEW b \in Bundles, LoopTake(b)
    PROVE  LET j == Head(jobs[b])
           IN  /\ j.kind # "callback" => \A c \in Callbacks : Now(c)' = Now(c)
               /\ \A c \in Callbacks : Home[c] = b /\ IsFor(j, c) =>
                     Now(c) = 0 /\ \A d \in Callbacks : Now(d)' = IF d = c THEN j.id ELSE Now(d)
<1> DEFINE j == Head(jobs[b])
<1>1. job \in [Bundles -> {<<>>} \union {<<x>> : x \in Jobs}]
  BY DEF CallInv, StartInv, TypeOK, AutomationTypeOK
<1>2. job[b] = <<>> /\ job' = [job EXCEPT ![b] = <<j>>]
  BY DEF LoopTake
<1> HIDE DEF j
<1>3. job'[b] = <<j>> /\ \A a \in Bundles \ {b} : job'[a] = job[a]
  BY <1>1, <1>2
<1>4. ASSUME NEW d \in Callbacks, Home[d] = b
      PROVE  Now(d) = 0 /\ Now(d)' = IF IsFor(j, d) THEN j.id ELSE 0
  BY <1>2, <1>3, <1>4 DEF Now, IsFor
<1>5. ASSUME NEW d \in Callbacks, Home[d] # b
      PROVE  Now(d)' = Now(d)
  <2>1. Home[d] \in Bundles
    BY AutomationAssumption
  <2>2. job'[Home[d]] = job[Home[d]]
    BY <1>3, <1>5, <2>1
  <2>3. QED
    BY <2>2 DEF Now
<1>6. ASSUME j.kind # "callback", NEW d \in Callbacks PROVE Now(d)' = Now(d)
  <2>1. ~IsFor(j, d)
    BY <1>6 DEF IsFor
  <2>2. QED
    BY <1>4, <1>5, <2>1
<1>7. ASSUME NEW c \in Callbacks, Home[c] = b, IsFor(j, c)
      PROVE  Now(c) = 0 /\ \A d \in Callbacks : Now(d)' = IF d = c THEN j.id ELSE Now(d)
  <2>1. \A d \in Callbacks : IsFor(j, d) => d = c
    BY <1>7 DEF IsFor
  <2>2. QED
    BY <1>4, <1>5, <1>7, <2>1
<1>8. QED
  BY <1>6, <1>7 DEF j

(* The job of a loop returns.                                              *)
LEMMA NowReturned ==
    ASSUME CallInv, NEW b \in Bundles, job' = [job EXCEPT ![b] = <<>>]
    PROVE  /\ \A c \in Callbacks : Home[c] = b /\ Now(c) # 0 =>
                 \A d \in Callbacks : Now(d)' = IF d = c THEN 0 ELSE Now(d)
           /\ (\A c \in Callbacks : Home[c] = b => Now(c) = 0) =>
                 \A c \in Callbacks : Now(c)' = Now(c)
<1>1. job \in [Bundles -> {<<>>} \union {<<x>> : x \in Jobs}]
  BY DEF CallInv, StartInv, TypeOK, AutomationTypeOK
<1>2. job'[b] = <<>> /\ \A a \in Bundles \ {b} : job'[a] = job[a]
  BY <1>1
<1>3. ASSUME NEW d \in Callbacks, Home[d] = b PROVE Now(d)' = 0
  BY <1>2, <1>3 DEF Now
<1>4. ASSUME NEW d \in Callbacks, Home[d] # b PROVE Now(d)' = Now(d)
  <2>1. Home[d] \in Bundles
    BY AutomationAssumption
  <2>2. job'[Home[d]] = job[Home[d]]
    BY <1>2, <1>4, <2>1
  <2>3. QED
    BY <2>2 DEF Now
<1>5. ASSUME NEW c \in Callbacks, Home[c] = b, Now(c) # 0, NEW d \in Callbacks
      PROVE  Now(d)' = IF d = c THEN 0 ELSE Now(d)
  <2>1. Home[d] = b /\ d # c => Now(d) = 0
    BY <1>5 DEF Now
  <2>2. QED
    BY <1>3, <1>4, <1>5, <2>1
<1>6. QED
  BY <1>3, <1>4, <1>5

(* A job that calls a callback calls it with the oldest one that is open.  *)
LEMMA TakenIsOldest ==
    ASSUME CallInv, NEW b \in Bundles, LoopTake(b), NEW c \in Callbacks, IsFor(Head(jobs[b]), c)
    PROVE  LET j == Head(jobs[b])
           IN  /\ Home[c] = b
               /\ j.id \in Abstract!Open(c)
               /\ \A other \in Abstract!Open(c) : j.id <= other
               /\ ran' = [ran EXCEPT ![c] = ran[c] \union {j.id}]
<1> DEFINE j == Head(jobs[b])
<1>1. /\ jobs \in [Bundles -> Seq(Jobs)] /\ StartInv /\ JobsOwn(b)
      /\ jobs[b] # <<>> /\ jobs' = [jobs EXCEPT ![b] = Tail(jobs[b])]
      /\ ran' = IF j.kind = "callback" THEN [ran EXCEPT ![j.cb] = ran[j.cb] \union {j.id}]
                ELSE ran
  BY DEF CallInv, StartInv, TypeOK, AutomationTypeOK, LoopTake
<1>2. /\ j \in Jobs /\ j = jobs[b][1] /\ 1 \in DOMAIN jobs[b]
      /\ j.kind = "callback" /\ j.cb = c
  BY <1>1 DEF IsFor
<1>3. j.id \in Ids
  BY <1>2 DEF Jobs
<1>4. Home[c] = b
  BY <1>1, <1>2 DEF JobsOwn
<1>5. InOrder(c) /\ NoneLost(c)
  BY CallTypes
<1>6. /\ jobs[Home[c]] # <<>> /\ jobs'[Home[c]] = Tail(jobs[Home[c]])
      /\ IsFor(Head(jobs[Home[c]]), c)
  BY <1>1, <1>4
<1>7. /\ OnLoop(c) = OnLoop(c)' \union {j.id}
      /\ Before({j.id}, OnLoop(c)')
  BY <1>1, <1>4, <1>5, <1>6, TakeJob
<1>8. Before({j.id}, InHand(c) \union Waiting(c))
  BY <1>5, <1>7 DEF InOrder, Before
<1>9. Abstract!Open(c) = OnLoop(c) \union InHand(c) \union Waiting(c)
  BY OthersOpen
<1>10. \A other \in Abstract!Open(c) : j.id <= other
  <2>1. Abstract!Open(c) \subseteq Nat
    BY DEF Abstract!Open
  <2>2. \A other \in Abstract!Open(c) : other = j.id \/ j.id < other
    BY <1>7, <1>8, <1>9 DEF Before
  <2>3. QED
    BY <1>3, <2>1, <2>2 DEF Ids
<1>11. QED
  BY <1>1, <1>2, <1>4, <1>7, <1>9, <1>10

LEMMA AbstractLoop ==
    ASSUME CallInv, NEW b \in Bundles, Loop(b)
    PROVE  [Abstract!Next]_(Abstract!vars)
<1> USE DEF loopVars, scriptVars, coreVars
<1>1. jobs \in [Bundles -> Seq(Jobs)]
  BY DEF CallInv, StartInv, TypeOK, AutomationTypeOK
<1>2. CASE LoopCall(b) \/ ServiceCall(b) \/ ServiceReturn(b)
  <2>1. UNCHANGED <<arrived, ran, skipped, job>>
    BY <1>2 DEF LoopCall, ServiceCall, ServiceReturn
  <2>2. QED
    BY <2>1, NowUnchanged DEF Abstract!vars
<1>21. CASE LoopReturn(b)
  <2>1. /\ UNCHANGED <<arrived, ran, skipped>> /\ job[b] # <<>>
        /\ job' = [job EXCEPT ![b] = <<>>]
    BY <1>21 DEF LoopReturn
  <2>2. CASE \E c \in Callbacks : Home[c] = b /\ Now(c) # 0
    <3>1. PICK c \in Callbacks : Home[c] = b /\ Now(c) # 0
      BY <2>2
    <3>2. \A d \in Callbacks : Now(d)' = IF d = c THEN 0 ELSE Now(d)
      BY <2>1, <3>1, NowReturned
    <3>3. QED
      BY <2>1, <3>1, <3>2 DEF Abstract!Return, Abstract!Next
  <2>3. CASE \A c \in Callbacks : Home[c] = b => Now(c) = 0
    <3>1. \A c \in Callbacks : Now(c)' = Now(c)
      BY <2>1, <2>3, NowReturned
    <3>2. QED
      BY <2>1, <3>1 DEF Abstract!vars
  <2>4. QED
    BY <2>2, <2>3
<1>3. CASE LoopTake(b)
  <2> DEFINE j == Head(jobs[b])
  <2>1. /\ jobs[b] # <<>> /\ jobs' = [jobs EXCEPT ![b] = Tail(jobs[b])]
        /\ UNCHANGED <<pending, wrap, skipped, arrived>>
        /\ ran' = IF j.kind = "callback" THEN [ran EXCEPT ![j.cb] = ran[j.cb] \union {j.id}]
                  ELSE ran
    BY <1>3 DEF LoopTake
  <2>2. j \in Jobs /\ j = jobs[b][1] /\ 1 \in DOMAIN jobs[b]
    BY <1>1, <2>1
  <2>3. CASE j.kind # "callback"
    <3>1. \A c \in Callbacks : Now(c)' = Now(c)
      BY <1>3, <2>2, <2>3, NowTaken
    <3>2. QED
      BY <2>1, <2>3, <3>1 DEF Abstract!vars
  <2>4. CASE j.kind = "callback"
    <3>1. j.cb \in Callbacks
      BY <2>2, <2>4 DEF Jobs
    <3> PICK c \in Callbacks : c = j.cb
      BY <3>1
    <3>2. IsFor(j, c)
      BY <2>4 DEF IsFor
    <3>3. /\ Home[c] = b /\ j.id \in Abstract!Open(c)
          /\ \A other \in Abstract!Open(c) : j.id <= other
      BY <1>3, <3>2, TakenIsOldest
    <3>4. Now(c) = 0 /\ \A d \in Callbacks : Now(d)' = IF d = c THEN j.id ELSE Now(d)
      BY <1>3, <2>2, <3>2, <3>3, NowTaken
    <3>5. Abstract!Run(c)
      BY <2>1, <2>4, <3>3, <3>4 DEF Abstract!Run
    <3>6. QED
      BY <3>5 DEF Abstract!Next
  <2>5. QED
    BY <2>3, <2>4
<1>4. QED
  BY <1>2, <1>21, <1>3 DEF Loop

LEMMA AbstractCore ==
    ASSUME CallInv, NEW c \in Callbacks, Deliver(c) \/ Trigger(c) \/ WrapOperation(c)
    PROVE  [Abstract!Next]_(Abstract!vars)
<1> USE DEF loopVars, scriptVars, coreVars
<1>0. \A d \in Callbacks : Now(d)' = Now(d)
  <2>1. UNCHANGED job
    BY DEF Deliver, Trigger, Arrive, WrapOperation, Call, ConvertError, CallPlain, Register,
           CallWrapped, Complete
  <2>2. QED
    BY <2>1, NowUnchanged
<1>1. CASE Deliver(c) \/ Trigger(c)
  BY <1>0, <1>1 DEF Deliver, Trigger, Arrive, Abstract!Arrive, Abstract!Next
<1>2. CASE Call(c) \/ CallPlain(c) \/ CallWrapped(c) \/ Complete(c)
  BY <1>0, <1>2 DEF Call, CallPlain, CallWrapped, Complete, Abstract!vars
<1>3. ASSUME NEW id \in InHand(c) \union Waiting(c),
             skipped' = [skipped EXCEPT ![c] = skipped[c] \union {id}], UNCHANGED <<arrived, ran>>
      PROVE  Abstract!Next
  <2>1. id \in Abstract!Open(c)
    BY OthersOpen
  <2>2. QED
    BY <1>0, <1>3, <2>1 DEF Abstract!Skip, Abstract!Next
<1>4. CASE ConvertError(c)
  <2>1. pending[c] # <<>> /\ pending[c] \in Seq(Ids)
    BY <1>4, CallTypes DEF ConvertError
  <2>2. 1 \in DOMAIN pending[c] /\ Head(pending[c]) = pending[c][1]
    BY <2>1
  <2>3. Head(pending[c]) \in Waiting(c)
    BY <2>2 DEF Waiting
  <2>4. QED
    BY <1>3, <1>4, <2>3 DEF ConvertError
<1>5. CASE Register(c)
  <2>1. wrap[c].id \in InHand(c)
    BY <1>5 DEF Register, InHand
  <2>2. \/ UNCHANGED <<arrived, ran, skipped>>
        \/ /\ skipped' = [skipped EXCEPT ![c] = skipped[c] \union {wrap[c].id}]
           /\ UNCHANGED <<arrived, ran>>
    BY <1>5 DEF Register
  <2>3. QED
    BY <1>0, <1>3, <2>1, <2>2 DEF Abstract!vars
<1>6. QED
  BY <1>1, <1>2, <1>4, <1>5 DEF WrapOperation

LEMMA AbstractStep ==
    ASSUME CallInv, [Next]_vars
    PROVE  [Abstract!Next]_(Abstract!vars)
<1>1. CASE Main \/ (\E b \in Bundles : Service(b)) \/ UNCHANGED vars
  <2>1. UNCHANGED <<arrived, ran, skipped, job>>
    BY <1>1 DEF Main, Boot, Prepare, PrepareLock, PreparedBefore, New, ApplyOptions,
                EnableModules, LoadVars, RunParameters, RunParametersReturn, RunScript,
                RunScriptReturn, Serve, Service, vars, automationVars, coreVars, loopVars,
                scriptVars
  <2>2. QED
    BY <2>1, NowUnchanged DEF Abstract!vars
<1>2. QED
  BY <1>1, AbstractLoop, AbstractCore DEF Next

(* Channel, scheduler, wrapOperation and event loop together implement     *)
(* what a script is promised: every step of the service is one of          *)
(* OnceInOrder or none.                                                    *)
THEOREM ImplementsOnceInOrder == Spec => CallsOnceInOrder
<1>1. Init => Abstract!Init
  <2> SUFFICES ASSUME Init PROVE Abstract!Init
    OBVIOUS
  <2>1. \A c \in Callbacks : Now(c) = 0
    BY AutomationAssumption DEF Init, AutomationInit, Now
  <2>2. QED
    BY <2>1 DEF Init, AutomationInit, Abstract!Init
<1>2. CallInv /\ [Next]_vars => [Abstract!Next]_(Abstract!vars)
  BY AbstractStep
<1>3. QED
  BY InitCall, CallStep, <1>1, <1>2, PTL DEF Spec, CallsOnceInOrder, Abstract!Spec

=============================================================================
