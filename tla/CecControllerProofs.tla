------------------------ MODULE CecControllerProofs -------------------------
(***************************************************************************)
(* Proofs about CecController, for any set of handlers with any ranks, any *)
(* order of their registration, and with or without weak memory.           *)
(***************************************************************************)
EXTENDS CecController, SequenceTheorems, TLAPS

\* InsertAt lengthens a list by one and moves what follows by one place.
LEMMA InsertAtFacts ==
  ASSUME NEW S, NEW s \in Seq(S), NEW i \in 1..(Len(s) + 1), NEW e \in S
  PROVE  /\ InsertAt(s, i, e) \in Seq(S)
         /\ Len(InsertAt(s, i, e)) = Len(s) + 1
         /\ \A k \in 1..(Len(s) + 1) :
              InsertAt(s, i, e)[k] =
                IF k < i THEN s[k] ELSE IF k = i THEN e ELSE s[k - 1]
<1> DEFINE low == SubSeq(s, 1, i - 1)
           high == SubSeq(s, i, Len(s))
<1>1. Len(s) \in Nat /\ i \in Nat
  BY LenProperties
<1>2. /\ low \in Seq(S) /\ Len(low) = i - 1
      /\ \A k \in 1..(i - 1) : low[k] = s[k]
  BY <1>1, SMT
<1>3. /\ high \in Seq(S) /\ Len(high) = Len(s) - i + 1
      /\ \A k \in 1..(Len(s) - i + 1) : high[k] = s[i + k - 1]
  BY <1>1, SMT
<1>4. /\ <<e>> \in Seq(S) /\ Len(<<e>>) = 1 /\ <<e>>[1] = e
  OBVIOUS
<1> HIDE DEF low, high
<1> DEFINE start == low \o <<e>>
<1>5. /\ start \in Seq(S) /\ Len(start) = i
      /\ \A k \in 1..i : start[k] = IF k < i THEN s[k] ELSE e
  <2>1. /\ start \in Seq(S) /\ Len(start) = Len(low) + Len(<<e>>)
        /\ \A k \in 1..(Len(low) + Len(<<e>>)) :
             start[k] = IF k <= Len(low) THEN low[k] ELSE <<e>>[k - Len(low)]
    BY <1>2, <1>4, ConcatProperties
  <2> QED
    BY <1>1, <1>2, <1>4, <2>1, SMTT(30)
<1> HIDE DEF start
<1>6. /\ start \o high \in Seq(S)
      /\ Len(start \o high) = Len(start) + Len(high)
      /\ \A k \in 1..(Len(start) + Len(high)) :
           (start \o high)[k] = IF k <= Len(start) THEN start[k] ELSE high[k - Len(start)]
  BY <1>3, <1>5, ConcatProperties
<1>7. InsertAt(s, i, e) = start \o high
  BY DEF InsertAt, start, low, high
<1>8. \A k \in 1..(Len(s) + 1) :
        (start \o high)[k] = IF k < i THEN s[k] ELSE IF k = i THEN e ELSE s[k - 1]
  <2> SUFFICES ASSUME NEW k \in 1..(Len(s) + 1)
               PROVE  (start \o high)[k] =
                        IF k < i THEN s[k] ELSE IF k = i THEN e ELSE s[k - 1]
    OBVIOUS
  <2>1. k \in 1..(Len(start) + Len(high))
    BY <1>1, <1>3, <1>5
  <2>2. (start \o high)[k] = IF k <= i THEN start[k] ELSE high[k - i]
    BY <1>5, <1>6, <2>1
  <2>3. CASE k <= i
    BY <1>1, <1>5, <2>2, <2>3
  <2>4. CASE k > i
    <3>1. k - i \in 1..(Len(s) - i + 1) /\ i + (k - i) - 1 = k - 1
      BY <1>1, <2>4
    <3>2. high[k - i] = s[k - 1]
      BY <1>3, <3>1
    <3> QED
      BY <1>1, <2>2, <2>4, <3>2
  <2>5. k <= i \/ k > i
    BY <1>1
  <2> QED
    BY <2>3, <2>4, <2>5
<1> QED
  BY <1>1, <1>3, <1>5, <1>6, <1>7, <1>8

LEMMA InitControllerInv == Init => ControllerInv
<1> SUFFICES ASSUME Init PROVE ControllerInv
  OBVIOUS
<1>1. TypeOK
  <2>1. outcome \in [Commands -> Seq(Handlers \cup {NoHandler})]
    <3>1. <<>> \in Seq(Handlers \cup {NoHandler})
      OBVIOUS
    <3> QED
      BY <3>1 DEF Init
  <2>2. mCreatorList \in Seq(Handlers) /\ mHandlerList \in Seq(Handlers) /\ seen \in Seq(Handlers)
    BY DEF Init
  <2>3. mInitlialized \in BOOLEAN /\ command \in Commands
    BY Zenon DEF Init
  <2>4. m_InitFut = "none" /\ mpc = "static" /\ next = 1
    BY Zenon DEF Init
  <2> QED
    BY <2>1, <2>2, <2>3, <2>4 DEF TypeOK
<1>2. RankOrder /\ Creation /\ Walk /\ FutureGotOnce
  BY DEF Init, RankOrder, Creation, Walk, FutureGotOnce
<1>3. TakenByFirst /\ LossNeedsRace /\ LossIsLate
  BY DEF Init, TakenByFirst, LossNeedsRace, LossIsLate, Contains
<1> QED
  BY <1>1, <1>2, <1>3 DEF ControllerInv

\* Registering a handler keeps the creators in the order of their ranks.
LEMMA RegisterInv ==
  ASSUME ControllerInv, NEW h \in Handlers, Register(h)
  PROVE  ControllerInv'
<1> USE DEF ControllerInv
<1>0. Rank \in [Handlers -> Nat]
  BY ControllerAssumption DEF ControllerAssumption
<1>1. mCreatorList \in Seq(Handlers) /\ Len(mCreatorList) \in Nat
  BY LenProperties DEF TypeOK
<1>2. PICK i \in 1..(Len(mCreatorList) + 1) :
        /\ \A j \in 1..(i - 1) : Rank[mCreatorList[j]] <= Rank[h]
        /\ i <= Len(mCreatorList) => Rank[mCreatorList[i]] > Rank[h]
        /\ mCreatorList' = InsertAt(mCreatorList, i, h)
  BY DEF Register
<1>3. /\ mCreatorList' \in Seq(Handlers)
      /\ Len(mCreatorList') = Len(mCreatorList) + 1
      /\ \A k \in 1..(Len(mCreatorList) + 1) :
           mCreatorList'[k] = IF k < i THEN mCreatorList[k]
                              ELSE IF k = i THEN h ELSE mCreatorList[k - 1]
  <2> DEFINE list == InsertAt(mCreatorList, i, h)
  <2>1. /\ list \in Seq(Handlers) /\ Len(list) = Len(mCreatorList) + 1
        /\ \A k \in 1..(Len(mCreatorList) + 1) :
             list[k] = IF k < i THEN mCreatorList[k]
                       ELSE IF k = i THEN h ELSE mCreatorList[k - 1]
    BY <1>1, InsertAtFacts
  <2>2. mCreatorList' = list
    BY <1>2
  <2> HIDE DEF list
  <2> QED
    BY <2>1, <2>2
<1>4. RankOrder'
  <2> SUFFICES ASSUME NEW j \in 1..(Len(mCreatorList) + 1),
                      NEW k \in 1..(Len(mCreatorList) + 1), j < k
               PROVE  Rank[mCreatorList'[j]] <= Rank[mCreatorList'[k]]
    BY <1>1, <1>3 DEF RankOrder
  <2>1. \A m, n \in 1..Len(mCreatorList) :
          m <= n => Rank[mCreatorList[m]] <= Rank[mCreatorList[n]]
    <3> SUFFICES ASSUME NEW m \in 1..Len(mCreatorList),
                        NEW n \in 1..Len(mCreatorList), m <= n
                 PROVE  Rank[mCreatorList[m]] <= Rank[mCreatorList[n]]
      OBVIOUS
    <3>1. mCreatorList[m] \in Handlers
      BY <1>1, ElementOfSeq
    <3>2. Rank[mCreatorList[m]] \in Nat
      BY <1>0, <3>1
    <3> QED
      BY <1>1, <3>2 DEF RankOrder
  <2>2. \A m \in 1..Len(mCreatorList) : Rank[mCreatorList[m]] \in Nat
    BY <1>0, <1>1, ElementOfSeq
  <2>3. Rank[h] \in Nat
    BY <1>0
  <2>4. \A m \in 1..Len(mCreatorList) : i <= m => Rank[h] <= Rank[mCreatorList[m]]
    BY <1>1, <1>2, <2>1, <2>2, <2>3
  <2>5. CASE k < i
    BY <1>1, <1>3, <2>1, <2>5, SMTT(30)
  <2>6. CASE k = i
    BY <1>1, <1>2, <1>3, <2>6
  <2>7. CASE k > i
    <3>1. mCreatorList'[k] = mCreatorList[k - 1] /\ k - 1 \in 1..Len(mCreatorList)
      BY <1>1, <1>3, <2>7
    <3>2. CASE j < i
      BY <1>1, <1>3, <2>1, <2>7, <3>1, <3>2
    <3>3. CASE j = i
      <4>1. mCreatorList'[j] = h
        BY <1>3, <3>3
      <4>2. Rank[h] <= Rank[mCreatorList[k - 1]]
        BY <1>1, <2>4, <2>7, <3>1
      <4> QED
        BY <3>1, <4>1, <4>2
    <3>4. CASE j > i
      <4>1. mCreatorList'[j] = mCreatorList[j - 1] /\ j - 1 \in 1..Len(mCreatorList)
        BY <1>1, <1>3, <3>4
      <4>2. Rank[mCreatorList[j - 1]] <= Rank[mCreatorList[k - 1]]
        BY <1>1, <2>1, <3>1, <4>1
      <4> QED
        BY <3>1, <4>1, <4>2
    <3> QED
      BY <1>1, <3>2, <3>3, <3>4
  <2> QED
    BY <1>1, <2>5, <2>6, <2>7
<1>5. TypeOK' /\ FutureGotOnce' /\ Walk'
  BY <1>3 DEF Register, TypeOK, FutureGotOnce, Walk, busVars
<1>6. Creation'
  BY <1>1, <1>3 DEF Register, Creation, busVars
<1>7. TakenByFirst' /\ LossNeedsRace' /\ LossIsLate'
  BY DEF Register, TakenByFirst, LossNeedsRace, LossIsLate, busVars
<1> QED
  BY <1>3, <1>4, <1>5, <1>6, <1>7

LEMMA StartServiceInv ==
  ASSUME ControllerInv, StartService
  PROVE  ControllerInv'
<1> USE DEF ControllerInv
<1>1. TypeOK' /\ RankOrder'
  BY DEF StartService, TypeOK, RankOrder, creationVars
<1>2. Creation' /\ Walk' /\ FutureGotOnce'
  BY DEF StartService, Creation, Walk, FutureGotOnce, creationVars
<1>3. TakenByFirst' /\ LossNeedsRace' /\ LossIsLate'
  BY DEF StartService, TakenByFirst, LossNeedsRace, LossIsLate, Creation, creationVars
<1> QED
  BY <1>1, <1>2, <1>3

LEMMA CreateHandlerInv ==
  ASSUME ControllerInv, CreateHandler
  PROVE  ControllerInv'
<1> USE DEF ControllerInv
<1> DEFINE created == mCreatorList[Len(mHandlerList) + 1]
<1>1. /\ Len(mHandlerList) \in Nat /\ Len(mCreatorList) \in Nat
      /\ created \in Handlers
  BY LenProperties, ElementOfSeq DEF CreateHandler, TypeOK
<1>2. mHandlerList' = Append(mHandlerList, created)
  BY DEF CreateHandler
<1> HIDE DEF created
<1>3. /\ mHandlerList' \in Seq(Handlers)
      /\ Len(mHandlerList') = Len(mHandlerList) + 1
      /\ \A i \in 1..Len(mHandlerList) : mHandlerList'[i] = mHandlerList[i]
      /\ mHandlerList'[Len(mHandlerList) + 1] = created
  BY <1>1, <1>2, AppendProperties DEF TypeOK
<1>4. TypeOK' /\ RankOrder' /\ FutureGotOnce'
  BY <1>3 DEF CreateHandler, TypeOK, RankOrder, FutureGotOnce, busVars
<1>5. Creation'
  BY <1>1, <1>3 DEF CreateHandler, Creation, busVars, created
<1>6. Walk'
  BY DEF CreateHandler, Walk, busVars
<1>7. TakenByFirst' /\ LossNeedsRace' /\ LossIsLate'
  BY DEF CreateHandler, TakenByFirst, LossNeedsRace, LossIsLate, busVars
<1> QED
  BY <1>4, <1>5, <1>6, <1>7

LEMMA InitializedInv ==
  ASSUME ControllerInv, SetInitialized \/ FinishInitialize
  PROVE  ControllerInv'
<1> USE DEF ControllerInv, SetInitialized, FinishInitialize, creationVars, busVars
<1>1. TypeOK' /\ RankOrder' /\ FutureGotOnce'
  BY DEF TypeOK, RankOrder, FutureGotOnce
<1>2. Creation' /\ Walk'
  BY DEF Creation, Walk
<1>3. TakenByFirst' /\ LossNeedsRace' /\ LossIsLate'
  BY DEF TakenByFirst, LossNeedsRace, LossIsLate, Contains
<1> QED
  BY <1>1, <1>2, <1>3

LEMMA BusCommandInv ==
  ASSUME ControllerInv, NEW c \in Commands, BusCommand(c)
  PROVE  ControllerInv'
<1> USE DEF ControllerInv, BusCommand, creationVars
<1>1. TypeOK' /\ RankOrder' /\ FutureGotOnce'
  BY DEF TypeOK, RankOrder, FutureGotOnce
<1>2. Creation' /\ Walk'
  BY DEF Creation, Walk
<1>3. TakenByFirst' /\ LossNeedsRace' /\ LossIsLate'
  BY DEF TakenByFirst, LossNeedsRace, LossIsLate
<1> QED
  BY <1>1, <1>2, <1>3

\* Seeing the flag: the walk starts on what is visible of the list.
LEMMA CheckInitializedInv ==
  ASSUME ControllerInv, CheckInitialized
  PROVE  ControllerInv'
<1> USE DEF ControllerInv, CheckInitialized, creationVars
<1>1. \A v \in Visible :
        /\ v \in Seq(Handlers) /\ Len(v) <= Len(mHandlerList)
        /\ \A i \in DOMAIN v : v[i] = mHandlerList[i]
        /\ ~WeakMemory \/ m_InitFut = "got" => v = mHandlerList
  <2> SUFFICES ASSUME NEW v \in Visible
               PROVE  /\ v \in Seq(Handlers) /\ Len(v) <= Len(mHandlerList)
                      /\ \A i \in DOMAIN v : v[i] = mHandlerList[i]
                      /\ ~WeakMemory \/ m_InitFut = "got" => v = mHandlerList
    OBVIOUS
  <2>1. mHandlerList \in Seq(Handlers) /\ Len(mHandlerList) \in Nat
    BY LenProperties DEF TypeOK
  <2>2. CASE v = mHandlerList
    BY <2>1, <2>2
  <2>3. CASE WeakMemory /\ m_InitFut # "got"
    <3>1. PICK k \in 0..Len(mHandlerList) : v = SubSeq(mHandlerList, 1, k)
      BY <2>3 DEF Visible
    <3>2. v \in Seq(Handlers) /\ Len(v) = k /\ \A i \in 1..k : v[i] = mHandlerList[i]
      BY <2>1, <3>1, SMT
    <3> QED
      BY <2>1, <2>3, <3>2, LenProperties
  <2> QED
    BY <2>2, <2>3, ControllerAssumption DEF Visible, ControllerAssumption
<1>2. TypeOK' /\ RankOrder'
  BY <1>1 DEF TypeOK, RankOrder
<1>3. Creation' /\ FutureGotOnce'
  BY DEF Creation, FutureGotOnce
<1>4. Walk'
  <2>1. CASE mInitlialized
    <3>1. seen' \in Visible /\ next' = 1
      BY <2>1
    <3>2. \A j \in DOMAIN seen' : ~(j < 1)
      BY <1>1, <3>1, LenProperties
    <3> QED
      BY <1>1, <2>1, <3>1, <3>2 DEF Walk
  <2>2. CASE ~mInitlialized
    BY <2>2 DEF Walk
  <2> QED
    BY <2>1, <2>2
<1>5. TakenByFirst' /\ LossNeedsRace' /\ LossIsLate'
  BY DEF TakenByFirst, LossNeedsRace, LossIsLate
<1> QED
  BY <1>2, <1>3, <1>4, <1>5

LEMMA GetFutureInv ==
  ASSUME ControllerInv, GetFuture
  PROVE  ControllerInv'
<1> USE DEF ControllerInv, GetFuture, creationVars
<1>1. TypeOK' /\ RankOrder' /\ FutureGotOnce'
  BY DEF TypeOK, RankOrder, FutureGotOnce
<1>2. Creation'
  BY DEF Creation
<1>3. Walk'
  <2>1. \A j \in DOMAIN mHandlerList : ~(j < 1)
    BY LenProperties DEF TypeOK
  <2>2. Len(mHandlerList) \in Nat
    BY LenProperties DEF TypeOK
  <2> QED
    BY <2>1, <2>2 DEF Walk, Creation
<1>4. TakenByFirst'
  BY DEF TakenByFirst
<1>5. LossNeedsRace' /\ LossIsLate'
  BY DEF LossNeedsRace, LossIsLate
<1> QED
  BY <1>1, <1>2, <1>3, <1>4, <1>5

\* Once the handlers are created, every handler has a place in the list, and
\* the default handler the last one.
LEMMA CreatedHandlers ==
  ASSUME ControllerInv, mInitlialized
  PROVE  /\ mHandlerList = mCreatorList
         /\ \A h \in Handlers : \E i \in 1..Len(mHandlerList) : mHandlerList[i] = h
         /\ Len(mHandlerList) \in 1..Len(mHandlerList)
         /\ mHandlerList[Len(mHandlerList)] = Default
<1> USE DEF ControllerInv
<1>1. mHandlerList \in Seq(Handlers) /\ mCreatorList \in Seq(Handlers)
  BY DEF TypeOK
<1>2. Len(mHandlerList) = Len(mCreatorList) /\ Len(mCreatorList) \in Nat
  BY <1>1, LenProperties DEF Creation
<1>3. mHandlerList = mCreatorList
  BY <1>1, <1>2, SeqEqual, LenProperties DEF Creation
<1>4. \A h \in Handlers : \E i \in 1..Len(mHandlerList) : mHandlerList[i] = h
  BY <1>1, <1>2, <1>3, LenProperties DEF Creation, Elements
<1>5. PICK d \in 1..Len(mHandlerList) : mHandlerList[d] = Default
  BY <1>4, ControllerAssumption DEF ControllerAssumption
<1>6. Len(mHandlerList) \in 1..Len(mHandlerList)
  BY <1>2, <1>5
<1> DEFINE last == mHandlerList[Len(mHandlerList)]
<1>7. last \in Handlers
  BY <1>1, <1>6, ElementOfSeq
<1>8. Rank[Default] <= Rank[last]
  <2>1. CASE d = Len(mHandlerList)
    BY <1>5, <2>1, ControllerAssumption DEF ControllerAssumption
  <2>2. CASE d < Len(mHandlerList)
    BY <1>1, <1>3, <1>5, <1>6, <2>2, LenProperties DEF RankOrder
  <2> QED
    BY <1>2, <1>5, <2>1, <2>2
<1>9. last = Default
  <2>1. Rank[Default] \in Nat /\ Rank[last] \in Nat
    BY <1>7, ControllerAssumption DEF ControllerAssumption
  <2> QED
    BY <1>7, <1>8, <2>1, ControllerAssumption DEF ControllerAssumption
<1> QED
  BY <1>3, <1>4, <1>6, <1>9

\* The handler that takes a command: those before it declined, those after it
\* have no lower rank.
LEMMA AskHandlerInv ==
  ASSUME ControllerInv, AskHandler
  PROVE  ControllerInv'
<1> USE DEF ControllerInv, creationVars
<1> DEFINE h == seen[next]
<1>1. /\ seen \in Seq(Handlers) /\ Len(seen) \in Nat
      /\ next \in 1..Len(seen) /\ h \in Handlers
  BY LenProperties, ElementOfSeq DEF AskHandler, TypeOK
<1>2. RankOrder' /\ Creation' /\ FutureGotOnce'
  BY DEF AskHandler, RankOrder, Creation, FutureGotOnce
<1>3. CASE command \in Takes[h]
  <2>1. /\ outcome' = [outcome EXCEPT ![command] = Append(@, h)]
        /\ mpc' = "idle" /\ next' = next /\ command' = command /\ seen' = seen
    BY <1>3 DEF AskHandler
  <2>2. command \in Commands /\ outcome \in [Commands -> Seq(Handlers \cup {NoHandler})]
    BY DEF TypeOK
  <2> HIDE DEF h
  <2>3. /\ Append(outcome[command], h) \in Seq(Handlers \cup {NoHandler})
        /\ Len(Append(outcome[command], h)) = Len(outcome[command]) + 1
        /\ \A i \in 1..Len(outcome[command]) :
             Append(outcome[command], h)[i] = outcome[command][i]
        /\ Append(outcome[command], h)[Len(outcome[command]) + 1] = h
        /\ Len(outcome[command]) \in Nat
    BY <1>1, <2>2, AppendProperties, LenProperties
  <2>4. TypeOK'
    BY <2>1, <2>2, <2>3 DEF TypeOK, AskHandler
  <2>5. Walk'
    BY <2>1 DEF Walk
  <2>6. \A g \in Handlers : command \in Takes[g] => Rank[h] <= Rank[g]
    <3> SUFFICES ASSUME NEW g \in Handlers, command \in Takes[g]
                 PROVE  Rank[h] <= Rank[g]
      OBVIOUS
    <3>0. mpc = "ask"
      BY DEF AskHandler
    <3>1. mHandlerList = mCreatorList /\ \E i \in 1..Len(mHandlerList) : mHandlerList[i] = g
      BY <3>0, CreatedHandlers DEF Walk
    <3>2. PICK i \in 1..Len(mHandlerList) : mHandlerList[i] = g
      BY <3>1
    <3>3. h = mHandlerList[next] /\ next \in 1..Len(mHandlerList)
      BY <1>1, <3>0, LenProperties DEF Walk, h, TypeOK
    <3>4. ~(i < next)
      <4> SUFFICES ASSUME i < next PROVE FALSE
        OBVIOUS
      <4>1. i \in DOMAIN seen
        BY <1>1, <3>2, LenProperties
      <4> QED
        BY <3>0, <3>2, <4>1 DEF Walk
    <3>5. CASE i = next
      BY <3>2, <3>3, <3>5, ControllerAssumption DEF ControllerAssumption
    <3>6. CASE next < i
      BY <3>1, <3>2, <3>3, <3>6, LenProperties DEF RankOrder, TypeOK
    <3> QED
      BY <3>2, <3>3, <3>4, <3>5, <3>6
  <2>7. TakenByFirst'
    <3> SUFFICES ASSUME NEW c \in Commands, NEW i \in DOMAIN outcome'[c],
                        outcome'[c][i] # NoHandler, NEW g \in Handlers, c \in Takes[g]
                 PROVE  Rank[outcome'[c][i]] <= Rank[g]
      BY DEF TakenByFirst
    <3>1. CASE c = command
      <4>1. outcome'[c] = Append(outcome[command], h)
        BY <2>1, <2>2, <3>1
      <4>2. i \in 1..(Len(outcome[command]) + 1)
        BY <2>3, <4>1, LenProperties
      <4>3. CASE i = Len(outcome[command]) + 1
        BY <2>3, <2>6, <3>1, <4>1, <4>3
      <4>4. CASE i \in 1..Len(outcome[command])
        <5>1. i \in DOMAIN outcome[command]
          BY <2>2, <4>4, LenProperties
        <5> QED
          BY <2>2, <2>3, <3>1, <4>1, <4>4, <5>1 DEF TakenByFirst
      <4> QED
        BY <2>3, <4>2, <4>3, <4>4
    <3>2. CASE c # command
      BY <2>1, <2>2, <3>2 DEF TakenByFirst
    <3> QED
      BY <3>1, <3>2
  <2>8. LossNeedsRace' /\ LossIsLate'
    <3> SUFFICES ASSUME NEW c \in Commands, Contains(outcome'[c], NoHandler)
                 PROVE  WeakMemory /\ m_InitFut # "got" /\ mInitlialized
      BY <2>1 DEF LossNeedsRace, LossIsLate, AskHandler
    <3>1. h # NoHandler
      BY <1>1, ControllerAssumption DEF ControllerAssumption
    <3>2. Contains(outcome[c], NoHandler)
      <4>1. CASE c = command
        <5>1. PICK i \in 1..Len(outcome'[c]) : outcome'[c][i] = NoHandler
          BY DEF Contains
        <5>2. outcome'[c] = Append(outcome[command], h)
          BY <2>1, <2>2, <4>1
        <5>3. i \in 1..Len(outcome[command])
          BY <2>3, <3>1, <5>1, <5>2
        <5> QED
          BY <2>3, <4>1, <5>1, <5>2, <5>3 DEF Contains
      <4>2. CASE c # command
        BY <2>1, <2>2, <4>2
      <4> QED
        BY <4>1, <4>2
    <3> QED
      BY <3>2 DEF LossNeedsRace, LossIsLate
  <2> QED
    BY <1>2, <2>4, <2>5, <2>7, <2>8
<1>4. CASE command \notin Takes[h]
  <2>1. /\ next' = next + 1
        /\ UNCHANGED <<creationVars, m_InitFut, mpc, command, seen, outcome>>
    BY <1>4 DEF AskHandler
  <2>2. TypeOK'
    BY <2>1 DEF TypeOK
  <2>3. Walk'
    <3>1. \A j \in DOMAIN seen : j < next + 1 => j < next \/ j = next
      BY <1>1, LenProperties
    <3> QED
      BY <1>4, <2>1, <3>1 DEF Walk
  <2>4. TakenByFirst' /\ LossNeedsRace' /\ LossIsLate'
    BY <2>1 DEF TakenByFirst, LossNeedsRace, LossIsLate
  <2> QED
    BY <1>2, <2>2, <2>3, <2>4
<1> QED
  BY <1>3, <1>4

\* A command that all the handlers seen declined: the default handler was not
\* among them.
LEMMA NobodyTakesInv ==
  ASSUME ControllerInv, NobodyTakes
  PROVE  ControllerInv'
<1> USE DEF ControllerInv, creationVars
<1>1. /\ outcome' = [outcome EXCEPT ![command] = Append(@, NoHandler)]
      /\ mpc = "ask" /\ mpc' = "idle" /\ next > Len(seen)
      /\ UNCHANGED <<creationVars, m_InitFut, command, seen, next>>
  BY DEF NobodyTakes
<1>2. command \in Commands /\ outcome \in [Commands -> Seq(Handlers \cup {NoHandler})]
  BY DEF TypeOK
<1>3. /\ Append(outcome[command], NoHandler) \in Seq(Handlers \cup {NoHandler})
      /\ Len(Append(outcome[command], NoHandler)) = Len(outcome[command]) + 1
      /\ \A i \in 1..Len(outcome[command]) :
           Append(outcome[command], NoHandler)[i] = outcome[command][i]
      /\ Append(outcome[command], NoHandler)[Len(outcome[command]) + 1] = NoHandler
      /\ Len(outcome[command]) \in Nat
  BY <1>2, AppendProperties, LenProperties
<1>4. TypeOK'
  BY <1>1, <1>2, <1>3 DEF TypeOK
<1>5. RankOrder' /\ Creation' /\ Walk' /\ FutureGotOnce'
  BY <1>1 DEF RankOrder, Creation, Walk, FutureGotOnce
<1>6. TakenByFirst'
  <2> SUFFICES ASSUME NEW c \in Commands, NEW i \in DOMAIN outcome'[c],
                      outcome'[c][i] # NoHandler, NEW g \in Handlers, c \in Takes[g]
               PROVE  Rank[outcome'[c][i]] <= Rank[g]
    BY DEF TakenByFirst
  <2>1. CASE c = command
    <3>1. outcome'[c] = Append(outcome[command], NoHandler)
      BY <1>1, <1>2, <2>1
    <3>2. i \in 1..Len(outcome[command])
      BY <1>3, <3>1, LenProperties
    <3>3. i \in DOMAIN outcome[command]
      BY <1>2, <3>2, LenProperties
    <3> QED
      BY <1>2, <1>3, <2>1, <3>1, <3>2, <3>3 DEF TakenByFirst
  <2>2. CASE c # command
    BY <1>1, <1>2, <2>2 DEF TakenByFirst
  <2> QED
    BY <2>1, <2>2
<1>7. WeakMemory /\ m_InitFut # "got"
  <2> SUFFICES ASSUME ~(WeakMemory /\ m_InitFut # "got") PROVE FALSE
    OBVIOUS
  <2>1. seen = mHandlerList /\ mInitlialized
    BY <1>1 DEF Walk
  <2>2. /\ Len(seen) \in 1..Len(seen) /\ seen[Len(seen)] = Default
    BY <2>1, CreatedHandlers
  <2>3. Len(seen) \in DOMAIN seen /\ Len(seen) < next
    BY <1>1, <2>2, LenProperties DEF TypeOK
  <2>4. command \notin Takes[Default]
    BY <1>1, <2>2, <2>3 DEF Walk
  <2> QED
    BY <1>2, <2>4, ControllerAssumption DEF ControllerAssumption
<1>8. LossNeedsRace' /\ LossIsLate'
  BY <1>1, <1>7 DEF LossNeedsRace, LossIsLate, Walk
<1> QED
  BY <1>4, <1>5, <1>6, <1>8

LEMMA NextControllerInv == ControllerInv /\ [Next]_vars => ControllerInv'
<1> SUFFICES ASSUME ControllerInv, [Next]_vars PROVE ControllerInv'
  OBVIOUS
<1>1. ASSUME NEW h \in Handlers, Register(h) PROVE ControllerInv'
  BY <1>1, RegisterInv
<1>2. CASE StartService
  BY <1>2, StartServiceInv
<1>3. CASE CreateHandler
  BY <1>3, CreateHandlerInv
<1>4. CASE SetInitialized \/ FinishInitialize
  BY <1>4, InitializedInv
<1>5. ASSUME NEW c \in Commands, BusCommand(c) PROVE ControllerInv'
  BY <1>5, BusCommandInv
<1>6. CASE CheckInitialized
  BY <1>6, CheckInitializedInv
<1>7. CASE GetFuture
  BY <1>7, GetFutureInv
<1>8. CASE AskHandler
  BY <1>8, AskHandlerInv
<1>9. CASE NobodyTakes
  BY <1>9, NobodyTakesInv
<1>10. CASE UNCHANGED vars
  BY <1>10 DEF vars, creationVars, busVars, ControllerInv, TypeOK, RankOrder,
               Creation, Walk, FutureGotOnce, TakenByFirst, LossNeedsRace,
               LossIsLate
<1> QED
  BY <1>1, <1>2, <1>3, <1>4, <1>5, <1>6, <1>7, <1>8, <1>9, <1>10
  DEF Next, InitStep, BusStep

\* The inductive invariant holds: types, the order of the creators, how far
\* the creation is, and what the walk of the bus thread has met.
THEOREM ControllerInvariant == SafeSpec => []ControllerInv
<1>1. Init => ControllerInv
  BY InitControllerInv
<1>2. ControllerInv /\ [Next]_vars => ControllerInv'
  BY NextControllerInv
<1> QED
  BY <1>1, <1>2, PTL DEF SafeSpec

\* Creators are ordered by rank, however the static variables of the program
\* are initialised.
THEOREM CreationSound == SafeSpec => []RankOrder
<1>1. ControllerInv => RankOrder
  BY DEF ControllerInv
<1> QED
  BY <1>1, ControllerInvariant, PTL

\* The future is never asked for its value twice, which would throw: a bus
\* thread that has had the value finds the flag set from then on.
THEOREM FutureIsGotOnce == SafeSpec => []FutureGotOnce
<1>1. ControllerInv => FutureGotOnce
  BY DEF ControllerInv
<1> QED
  BY <1>1, ControllerInvariant, PTL

\* A command is taken by the first handler that would take it, even when the
\* walk sees only part of the list.
THEOREM DispatchSound == SafeSpec => []TakenByFirst
<1>1. ControllerInv => TakenByFirst
  BY DEF ControllerInv
<1> QED
  BY <1>1, ControllerInvariant, PTL

\* A command is lost only to the race of the flag with the list, and never
\* once the bus thread has waited for the future.
THEOREM LossIsRace == SafeSpec => []LossNeedsRace
<1>1. ControllerInv => LossNeedsRace
  BY DEF ControllerInv
<1> QED
  BY <1>1, ControllerInvariant, PTL

\* When a handler runs, the last handler of the list, if the bus thread sees it
\* as it is, is the default handler.
THEOREM BackIsDefault == SafeSpec => []DefaultIsLast
<1>1. ControllerInv => DefaultIsLast
  BY CreatedHandlers DEF ControllerInv, DefaultIsLast, Walk
<1> QED
  BY <1>1, ControllerInvariant, PTL
=============================================================================
