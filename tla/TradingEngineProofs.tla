------------------------ MODULE TradingEngineProofs ------------------------
(***************************************************************************)
(* Safety of TradingEngine for every number of orders, limit, price set,   *)
(* threshold and fault; and of the guards of its process: the token bucket *)
(* for every size, rate and number of callers; the lock of the instance,   *)
(* for any number of starts and process ids and any reuse of the latter;   *)
(* the circuit breaker, its types for any workers and its promises to a    *)
(* sole user for any threshold, number of probes and reset timeout.        *)
(***************************************************************************)
EXTENDS TradingEngine, RateLimiter, InstanceLock, CircuitBreaker, FiniteSetTheorems, TLAPS

\* What Run's locals hold where: after the unlocked read of the length there is
\* room for one more order (only Run adds to openOrders), and the order about
\* to be registered has an entry price, a side, a quantity and no manager yet.
LocalsOK ==
    /\ run \in {"check", "place", "register"} => tick.sig \in Signals
    /\ run \in {"place", "register"} => tick.mid # 0 /\ qty # 0
    /\ run = "register" => tick.order \in OrderIds /\ mgr[tick.order] = "none"

\* seen is the length under the last lock; managers only delete since.
Capacity ==
    /\ OpenOrdersBounded
    /\ run = "check" => Cardinality(openOrders) <= tick.seen
    /\ run \in {"place", "register"} => Cardinality(openOrders) < MaxOpenOrders

\* A managed trade has an entry price, a side and a quantity; only a trade whose exit was
\* taken has one in the journal.
TradesOK ==
    \A o \in OrderIds :
        /\ mgr[o] # "none" => qty # 0 /\ trade[o].entry # 0 /\ trade[o].sig \in Signals
        /\ mgr[o] \in {"none", "watch"} => exit[o].reason = "none"

IInv == TypeOK /\ LocalsOK /\ TrackedIffManaged /\ Capacity
        /\ JournaledAtMostOnce /\ TradesOK /\ ExitsHaveTheirSign

-----------------------------------------------------------------------------
(* Sets of orders *)

\* The number of open orders is a natural number, no larger than the number of
\* ids, and adding or removing one order moves it by at most one.
LEMMA OpenCount ==
    ASSUME NEW S \in SUBSET OrderIds
    PROVE  /\ Cardinality(OrderIds) \in Nat
           /\ Cardinality(S) \in 0..Cardinality(OrderIds)
           /\ \A o \in OrderIds : /\ Cardinality(S \cup {o}) <= Cardinality(S) + 1
                                  /\ Cardinality(S \ {o}) <= Cardinality(S)
<1>1. IsFiniteSet(OrderIds) /\ IsFiniteSet(S)
  BY FS_Subset, ConstantsOK DEF ConstantsOK
<1>2. Cardinality(S) \in Nat /\ Cardinality(OrderIds) \in Nat
      /\ Cardinality(S) <= Cardinality(OrderIds)
  BY <1>1, FS_Subset, FS_CardinalityType
<1>3. ASSUME NEW o \in OrderIds
      PROVE  /\ Cardinality(S \cup {o}) <= Cardinality(S) + 1
             /\ Cardinality(S \ {o}) <= Cardinality(S)
  <2>1. Cardinality(S \cup {o}) = IF o \in S THEN Cardinality(S) ELSE Cardinality(S) + 1
    BY <1>1, FS_AddElement
  <2>2. Cardinality(S \ {o}) = IF o \in S THEN Cardinality(S) - 1 ELSE Cardinality(S)
    BY <1>1, FS_RemoveElement
  <2> QED BY <1>2, <2>1, <2>2
<1> QED BY <1>2, <1>3

\* The locals of a tick, and the back-off, have a value to be reset to.
LEMMA ResetValues == NoTick \in TickState /\ BackoffMin \in BackoffMin..BackoffMax
<1>1. Cardinality(OrderIds) \in Nat
  BY OpenCount
<1>2. 0 \in 0..Cardinality(OrderIds)
  BY <1>1
<1>3. NoTick \in TickState
  BY <1>2 DEF NoTick, TickState, Price, Signals
<1>4. BackoffMin \in BackoffMin..BackoffMax
  BY ConstantsOK DEF ConstantsOK
<1> QED BY <1>3, <1>4

-----------------------------------------------------------------------------
(* Types *)

ExitRecord == [reason : {"none", "sl", "tp", "timeout"}, price : Price, pnl : Int, move : Int]

\* No step configures the bot anew.
LEMMA ConfigIsFixed == ASSUME [Next]_vars PROVE mode' = mode /\ qty' = qty
BY DEF Next, RunStep, StartUp, ReturnOnCancel, ReturnOnStop, StartTick, ProcessExits,
   RefreshCandles, PlaceRejected, PlaceReplyLost, PlaceAccepted, BackoffElapsed, Register,
   Decide, CheckLimit, ManageTrade, ExitTimeout, ExitStopLoss, ExitTakeProfit, RecordClose,
   QuitOnCancel, CancelOrder, RemoveOrder, MidMoves, ExchangeFills, CancelContext, Stop,
   envVars, vars

\* Prices, quantities and hence amounts are natural numbers.
LEMMA NumbersAreNumbers ==
    ASSUME TypeOK
    PROVE  /\ qty \in Nat /\ Amount \in Nat /\ mid \in Nat
           /\ \A o \in OrderIds : trade[o].entry \in Nat
<1>1. Price \subseteq Nat /\ Quantities \subseteq Nat
  BY ConstantsOK DEF ConstantsOK, Price
<1>2. /\ qty \in Quantities /\ mid \in Price
      /\ \A o \in OrderIds : trade[o].entry \in Price
  BY DEF TypeOK
<1> QED BY <1>1, <1>2 DEF Amount

\* What is journaled at any exit is a number.
LEMMA ExitTyped ==
    ASSUME TypeOK, NEW o \in OrderIds
    PROVE  /\ GainAt(o, mid) \in Int /\ GainAt(o, mid) * Amount \in Int
           /\ mid - trade[o].entry \in Int
<1>1. mid \in Nat /\ Amount \in Nat /\ trade[o].entry \in Nat
  BY NumbersAreNumbers
<1>2. GainAt(o, mid) \in Int
  BY <1>1 DEF GainAt
<1>3. \A a, b \in Int : a * b \in Int
  OBVIOUS
<1> QED BY <1>1, <1>2, <1>3

LEMMA TypeInit == Init => TypeOK
<1> SUFFICES ASSUME Init PROVE TypeOK
  OBVIOUS
<1>1. /\ mode \in Modes /\ qty \in Quantities /\ ctxDone \in BOOLEAN /\ stopClosed \in BOOLEAN /\ run \in RunPC
      /\ backoff \in BackoffMin..BackoffMax /\ tick \in TickState /\ mid \in Price
      /\ openOrders \in SUBSET OrderIds
  BY ResetValues DEF Init, RunPC, Price
<1>2. mgr \in [OrderIds -> MgrPC] /\ records \in [OrderIds -> Nat]
  BY DEF Init, MgrPC
<1>3. trade \in [OrderIds -> [entry : Price, sig : Signals \cup {"FLAT"}]]
  BY DEF Init, Price
<1>4. exit \in [OrderIds -> ExitRecord]
  BY DEF Init, Price, ExitRecord
<1>5. ExchangeTypeOK
  BY DEF Init, ExchangeInit, ExchangeTypeOK, OrderState
<1> QED BY <1>1, <1>2, <1>3, <1>4, <1>5 DEF TypeOK, ExitRecord

LEMMA TypeStep == TypeOK /\ LocalsOK /\ [Next]_vars => TypeOK'
<1> SUFFICES ASSUME TypeOK, LocalsOK, [Next]_vars PROVE TypeOK'
  OBVIOUS
<1> USE DEF TypeOK, ExchangeTypeOK, Price
<1>0. NoTick \in TickState /\ BackoffMin \in BackoffMin..BackoffMax
  BY ResetValues
<1>1. CASE StartUp \/ ReturnOnCancel \/ ReturnOnStop \/ StartTick \/ ProcessExits
  BY <1>1 DEF StartUp, ReturnOnCancel, ReturnOnStop, StartTick, ProcessExits,
              mgrVars, envVars, RunPC
<1>2. CASE RefreshCandles \/ PlaceRejected
  BY <1>0, <1>2 DEF RefreshCandles, PlaceRejected, TickFails, mgrVars, envVars, RunPC
<1>3. CASE Decide
  <2>1. CASE TickSucceeds
    BY <1>0, <1>3, <2>1 DEF Decide, TickSucceeds, mgrVars, envVars, RunPC
  <2>2. ASSUME NEW s \in Signals,
               tick' = [mid |-> mid, sig |-> s, seen |-> Cardinality(openOrders),
                        order |-> NoOrder],
               run' = "check", UNCHANGED backoff
        PROVE  TypeOK'
    <3>1. tick' \in TickState
      BY <2>2, OpenCount DEF TickState
    <3> QED BY <1>3, <2>2, <3>1 DEF Decide, mgrVars, envVars, RunPC
  <2> QED BY <1>3, <2>1, <2>2 DEF Decide
<1>4. CASE CheckLimit
  BY <1>0, <1>4 DEF CheckLimit, TickSucceeds, TickFails, mgrVars, envVars, RunPC
<1>5. CASE PlaceAccepted
  <2>1. PICK o \in OrderIds : /\ xchg' = xchg \/ Accept(o)
                              /\ tick' = [tick EXCEPT !.order = o]
    BY <1>5 DEF PlaceAccepted, Fresh
  <2>2. tick' \in TickState
    BY <2>1 DEF TickState
  <2>3. xchg' \in [OrderIds -> OrderState]
    BY <2>1 DEF Accept, OrderState
  <2> QED BY <1>5, <2>2, <2>3 DEF PlaceAccepted, mgrVars, envVars, RunPC
<1>6. CASE PlaceReplyLost
  <2>1. xchg' \in [OrderIds -> OrderState]
    BY <1>6 DEF PlaceReplyLost, Accept, OrderState
  <2> QED BY <1>0, <1>6, <2>1 DEF PlaceReplyLost, TickFails, mgrVars, envVars, RunPC
<1>7. CASE Register
  <2>1. tick.order \in OrderIds /\ tick.mid \in Price /\ tick.sig \in Signals
    BY <1>7 DEF Register, LocalsOK, TickState
  <2> QED BY <1>0, <1>7, <2>1 DEF Register, TickSucceeds, envVars, RunPC, MgrPC
<1>8. CASE BackoffElapsed
  <2>1. NextBackoff(backoff) \in BackoffMin..BackoffMax
    BY ConstantsOK DEF ConstantsOK, NextBackoff
  <2> QED BY <1>8, <2>1 DEF BackoffElapsed, mgrVars, envVars, RunPC
<1>9. ASSUME NEW o \in OrderIds, ExitTimeout(o) \/ ExitStopLoss(o) \/ ExitTakeProfit(o)
      PROVE  TypeOK'
  <2>1. PICK r \in {"sl", "tp", "timeout"} : RecordClose(o, r)
    BY <1>9 DEF ExitTimeout, ExitStopLoss, ExitTakeProfit
  <2>2. records' \in [OrderIds -> Nat]
    BY <2>1 DEF RecordClose
  <2>3. exit' \in [OrderIds -> ExitRecord]
    <3>1. [reason |-> r, price |-> mid, pnl |-> GainAt(o, mid) * Amount,
           move |-> mid - trade[o].entry] \in ExitRecord
      BY ExitTyped DEF ExitRecord
    <3>2. exit \in [OrderIds -> ExitRecord]
      BY DEF ExitRecord
    <3> QED BY ONLY <2>1, <3>1, <3>2, o \in OrderIds DEF RecordClose
  <2>4. mgr' \in [OrderIds -> MgrPC]
    BY <2>1 DEF RecordClose, MgrPC
  <2> QED BY <2>1, <2>2, <2>3, <2>4 DEF RecordClose, runVars, envVars, ExitRecord
<1>10. ASSUME NEW o \in OrderIds, QuitOnCancel(o) \/ RemoveOrder(o)
       PROVE  TypeOK'
  BY <1>10 DEF QuitOnCancel, RemoveOrder, MgrPC, runVars, envVars
<1>11. ASSUME NEW o \in OrderIds, CancelOrder(o)
       PROVE  TypeOK'
  <2>1. xchg' \in [OrderIds -> OrderState]
    BY <1>11 DEF CancelOrder, CancelSpotOrder, CancelArrives, OrderState
  <2> QED BY <1>11, <2>1 DEF CancelOrder, MgrPC, runVars, envVars
<1>12. CASE ExchangeFills
  <2>1. xchg' \in [OrderIds -> OrderState]
    BY <1>12 DEF ExchangeFills, Fill, OrderState
  <2> QED BY <1>12, <2>1 DEF ExchangeFills, runVars, mgrVars, envVars
<1>13. CASE MidMoves \/ CancelContext \/ Stop
  BY <1>13 DEF MidMoves, CancelContext, Stop, runVars, mgrVars
<1>14. CASE UNCHANGED vars
  BY <1>14 DEF vars
<1> QED BY <1>1, <1>2, <1>3, <1>4, <1>5, <1>6, <1>7, <1>8, <1>9, <1>10, <1>11, <1>12,
           <1>13, <1>14 DEF Next, RunStep, ManageTrade

-----------------------------------------------------------------------------
(* The Run goroutine's locals, and the capacity *)

LEMMA LocalsStep == TypeOK /\ LocalsOK /\ [Next]_vars => LocalsOK'
<1> SUFFICES ASSUME TypeOK, LocalsOK, [Next]_vars PROVE LocalsOK'
  OBVIOUS
<1> USE DEF LocalsOK
<1>0. qty' = qty
  BY ConfigIsFixed
<1>1. CASE StartUp \/ ReturnOnCancel \/ ReturnOnStop \/ StartTick \/ ProcessExits
           \/ RefreshCandles \/ PlaceRejected \/ PlaceReplyLost \/ BackoffElapsed
           \/ Register
  BY <1>1 DEF StartUp, ReturnOnCancel, ReturnOnStop, StartTick, ProcessExits,
              RefreshCandles, PlaceRejected, PlaceReplyLost, BackoffElapsed, Register,
              TickFails, TickSucceeds
<1>2. CASE Decide
  BY <1>2 DEF Decide, TickSucceeds, mgrVars
<1>3. CASE CheckLimit
  BY <1>3, ConfigIsFixed DEF CheckLimit, TickSucceeds, TickFails, mgrVars
<1>4. CASE PlaceAccepted
  BY <1>0, <1>4 DEF PlaceAccepted, Fresh, mgrVars, TypeOK, TickState
<1>5. ASSUME NEW o \in OrderIds, ManageTrade(o)
      PROVE  LocalsOK'
  <2>1. mgr[o] # "none" /\ UNCHANGED <<run, tick>>
        /\ \E next \in MgrPC : mgr' = [mgr EXCEPT ![o] = next]
    BY <1>5 DEF ManageTrade, ExitTimeout, ExitStopLoss, ExitTakeProfit, Watching,
                RecordClose, QuitOnCancel, CancelOrder, RemoveOrder, runVars, MgrPC
  <2> QED BY <1>0, <2>1 DEF TypeOK
<1>6. CASE MidMoves \/ ExchangeFills \/ CancelContext \/ Stop
  BY <1>0, <1>6 DEF MidMoves, ExchangeFills, CancelContext, Stop, runVars, mgrVars
<1>7. CASE UNCHANGED vars
  BY <1>0, <1>7 DEF vars
<1> QED BY <1>1, <1>2, <1>3, <1>4, <1>5, <1>6, <1>7 DEF Next, RunStep

LEMMA CapacityInit == Init => Capacity
<1>1. Cardinality({}) = 0
  BY FS_EmptySet
<1> QED BY <1>1, ConstantsOK DEF ConstantsOK, Init, Capacity, OpenOrdersBounded

LEMMA CapacityStep == TypeOK /\ LocalsOK /\ Capacity /\ [Next]_vars => Capacity'
<1> SUFFICES ASSUME TypeOK, LocalsOK, Capacity, [Next]_vars PROVE Capacity'
  OBVIOUS
<1> USE DEF Capacity, OpenOrdersBounded
<1>0. /\ openOrders \in SUBSET OrderIds /\ MaxOpenOrders \in Nat
      /\ Cardinality(openOrders) \in Nat
  BY OpenCount, ConstantsOK DEF ConstantsOK, TypeOK
<1>1. CASE StartUp \/ ReturnOnCancel \/ ReturnOnStop \/ StartTick \/ ProcessExits
           \/ RefreshCandles \/ PlaceRejected \/ PlaceReplyLost \/ BackoffElapsed
  BY <1>1 DEF StartUp, ReturnOnCancel, ReturnOnStop, StartTick, ProcessExits,
              RefreshCandles, PlaceRejected, PlaceReplyLost, BackoffElapsed,
              TickFails, mgrVars
<1>2. CASE Decide
  BY <1>0, <1>2 DEF Decide, TickSucceeds, mgrVars
<1>3. CASE CheckLimit
  \* The stale length is at least the real one: managers only delete.
  BY <1>0, <1>3 DEF CheckLimit, AtLimit, TickSucceeds, TickFails, mgrVars, TypeOK, TickState
<1>4. CASE PlaceAccepted
  BY <1>4 DEF PlaceAccepted, mgrVars
<1>5. CASE Register
  <2>1. Cardinality(openOrders \cup {tick.order}) <= Cardinality(openOrders) + 1
    BY <1>0, <1>5, OpenCount DEF Register, LocalsOK
  <2>2. Cardinality(openOrders \cup {tick.order}) \in Nat
    BY <1>0, <1>5, OpenCount DEF Register, LocalsOK
  <2> QED BY <1>0, <1>5, <2>1, <2>2 DEF Register, TickSucceeds
<1>6. ASSUME NEW o \in OrderIds, RemoveOrder(o)
      PROVE  Capacity'
  <2>1. Cardinality(openOrders \ {o}) <= Cardinality(openOrders)
        /\ Cardinality(openOrders \ {o}) \in Nat
    BY <1>0, OpenCount
  <2> QED BY <1>0, <1>6, <2>1 DEF RemoveOrder, runVars, TypeOK, TickState
<1>7. ASSUME NEW o \in OrderIds,
             ExitTimeout(o) \/ ExitStopLoss(o) \/ ExitTakeProfit(o) \/ QuitOnCancel(o)
             \/ CancelOrder(o)
      PROVE  Capacity'
  BY <1>7 DEF ExitTimeout, ExitStopLoss, ExitTakeProfit, RecordClose, QuitOnCancel,
              CancelOrder, runVars
<1>8. CASE MidMoves \/ ExchangeFills \/ CancelContext \/ Stop
  BY <1>8 DEF MidMoves, ExchangeFills, CancelContext, Stop, runVars, mgrVars
<1>9. CASE UNCHANGED vars
  BY <1>9 DEF vars
<1> QED BY <1>1, <1>2, <1>3, <1>4, <1>5, <1>6, <1>7, <1>8, <1>9
        DEF Next, RunStep, ManageTrade

-----------------------------------------------------------------------------
(* The trades *)

\* A step of a manageTrade goroutine moves its own state only, one stage on, and
\* takes the order out of openOrders exactly when it ends as "gone".
LEMMA ManagerMoves ==
    ASSUME TypeOK, NEW o \in OrderIds, ManageTrade(o)
    PROVE  /\ mgr[o] # "none" /\ mgr[o] # "gone"
           /\ \E next \in {"recorded", "cancelled", "gone", "quit"} :
                /\ mgr' = [mgr EXCEPT ![o] = next]
                /\ openOrders' = IF next = "gone" THEN openOrders \ {o} ELSE openOrders
           /\ UNCHANGED trade
BY DEF ManageTrade, ExitTimeout, ExitStopLoss, ExitTakeProfit, Watching, RecordClose,
       QuitOnCancel, CancelOrder, RemoveOrder

\* The other steps leave the managers alone, except Register.
LEMMA OthersKeepManagers ==
    ASSUME [Next]_vars, ~Register, \A o \in OrderIds : ~ManageTrade(o)
    PROVE  UNCHANGED mgrVars
BY DEF Next, RunStep, StartUp, ReturnOnCancel, ReturnOnStop, StartTick, ProcessExits,
       RefreshCandles, PlaceRejected, PlaceReplyLost, PlaceAccepted, BackoffElapsed,
       Decide, CheckLimit, MidMoves, ExchangeFills, CancelContext, Stop, mgrVars, vars

LEMMA TrackedStep ==
    TypeOK /\ LocalsOK /\ TrackedIffManaged /\ [Next]_vars => TrackedIffManaged'
<1> SUFFICES ASSUME TypeOK, LocalsOK, TrackedIffManaged, [Next]_vars
             PROVE  TrackedIffManaged'
  OBVIOUS
<1> USE DEF TrackedIffManaged
<1>1. CASE Register
  BY <1>1 DEF Register, LocalsOK, TypeOK
<1>2. ASSUME NEW o \in OrderIds, ManageTrade(o)
      PROVE  TrackedIffManaged'
  <2>1. PICK next \in {"recorded", "cancelled", "gone", "quit"} :
               /\ mgr' = [mgr EXCEPT ![o] = next]
               /\ openOrders' = IF next = "gone" THEN openOrders \ {o} ELSE openOrders
    BY <1>2, ManagerMoves
  <2>2. mgr[o] # "none" /\ mgr[o] # "gone"
    BY <1>2, ManagerMoves
  <2> QED BY <2>1, <2>2 DEF TypeOK
<1>3. CASE UNCHANGED mgrVars
  BY <1>3 DEF mgrVars
<1> QED BY <1>1, <1>2, <1>3, OthersKeepManagers

LEMMA JournalStep == TypeOK /\ LocalsOK /\ JournaledAtMostOnce /\ [Next]_vars
                     => JournaledAtMostOnce'
<1> SUFFICES ASSUME TypeOK, LocalsOK, JournaledAtMostOnce, [Next]_vars
             PROVE  JournaledAtMostOnce'
  OBVIOUS
<1> USE DEF JournaledAtMostOnce
<1>1. CASE Register
  BY <1>1 DEF Register, LocalsOK, TypeOK
<1>2. ASSUME NEW o \in OrderIds,
             ExitTimeout(o) \/ ExitStopLoss(o) \/ ExitTakeProfit(o)
      PROVE  JournaledAtMostOnce'
  \* The goroutine was still watching, so the trade had no line.
  <2>1. mgr[o] = "watch" /\ records[o] = 0 /\ mgr' = [mgr EXCEPT ![o] = "recorded"]
    BY <1>2 DEF ExitTimeout, ExitStopLoss, ExitTakeProfit, Watching, RecordClose, TypeOK
  <2>2. records' = [records EXCEPT ![o] = @ + 1] \/ records' = records
    BY <1>2 DEF ExitTimeout, ExitStopLoss, ExitTakeProfit, RecordClose
  <2> QED BY <2>1, <2>2 DEF TypeOK
<1>3. ASSUME NEW o \in OrderIds, QuitOnCancel(o) \/ CancelOrder(o) \/ RemoveOrder(o)
      PROVE  JournaledAtMostOnce'
  BY <1>3 DEF QuitOnCancel, CancelOrder, RemoveOrder, Watching, TypeOK
<1>4. CASE UNCHANGED mgrVars
  BY <1>4 DEF mgrVars
<1> QED BY <1>1, <1>2, <1>3, <1>4, OthersKeepManagers DEF ManageTrade

LEMMA TradesStep == TypeOK /\ LocalsOK /\ TradesOK /\ [Next]_vars => TradesOK'
<1> SUFFICES ASSUME TypeOK, LocalsOK, TradesOK, [Next]_vars PROVE TradesOK'
  OBVIOUS
<1> USE DEF TradesOK
<1>0. qty' = qty
  BY ConfigIsFixed
<1>1. CASE Register
  BY <1>0, <1>1 DEF Register, LocalsOK, TypeOK
<1>2. ASSUME NEW o \in OrderIds, ManageTrade(o)
      PROVE  TradesOK'
  <2>1. PICK next \in {"recorded", "cancelled", "gone", "quit"} :
                                                   mgr' = [mgr EXCEPT ![o] = next]
    BY <1>2, ManagerMoves
  <2>2. mgr[o] # "none" /\ UNCHANGED trade
    BY <1>2, ManagerMoves
  <2>3. exit' = exit \/ \E rec : exit' = [exit EXCEPT ![o] = rec]
    BY <1>2 DEF ManageTrade, ExitTimeout, ExitStopLoss, ExitTakeProfit, RecordClose,
                QuitOnCancel, CancelOrder, RemoveOrder
  <2> QED BY <1>0, <2>1, <2>2, <2>3 DEF TypeOK
<1>3. CASE UNCHANGED mgrVars
  BY <1>0, <1>3 DEF mgrVars
<1> QED BY <1>1, <1>2, <1>3, OthersKeepManagers

\* A threshold of at least one percent of a positive price is a real move.
LEMMA ThresholdIsAMove ==
    ASSUME NEW pct \in Nat \ {0}, NEW entry \in Nat \ {0}, NEW g \in Int
    PROVE  /\ 100 * g <= - pct * entry => g < 0
           /\ 100 * g >= pct * entry => g > 0
<1>1. pct * entry \in Nat /\ pct * entry > 0
  OBVIOUS
<1>2. - pct * entry = -(pct * entry)
  OBVIOUS
<1> QED BY <1>1, <1>2

\* The P&L has the sign of the gain, and is 0 without an amount.
LEMMA SignOfProduct ==
    ASSUME NEW g \in Int, NEW n \in Nat
    PROVE  /\ n = 0 => g * n = 0
           /\ n # 0 /\ g < 0 => g * n < 0
           /\ n # 0 /\ g > 0 => g * n > 0
OBVIOUS

\* What one line of the journal must say.
HonestExit(e, long) ==
    /\ e.reason = "sl" => /\ e.price # 0
                          /\ IF long THEN e.move < 0 ELSE e.move > 0
                          /\ IF mode = "paper" THEN e.pnl = 0 ELSE e.pnl < 0
    /\ e.reason = "tp" => /\ e.price # 0
                          /\ IF long THEN e.move > 0 ELSE e.move < 0
                          /\ IF mode = "paper" THEN e.pnl = 0 ELSE e.pnl > 0

\* A line that recordClose writes when the test of engine.go:383-384 has passed.
LEMMA NewExitIsHonest ==
    ASSUME TypeOK, TradesOK, NEW o \in OrderIds, NEW r \in {"sl", "tp", "timeout"},
           mgr[o] = "watch",
           r = "sl" => mid # 0 /\ StopLossHit(o),
           r = "tp" => mid # 0 /\ TakeProfitHit(o)
    PROVE  HonestExit([reason |-> r, price |-> mid, pnl |-> GainAt(o, mid) * Amount,
                       move |-> mid - trade[o].entry], trade[o].sig = "LONG")
<1>1. /\ trade[o].entry \in Nat \ {0} /\ mid \in Nat /\ Amount \in Nat
      /\ qty # 0 /\ trade[o].sig \in Signals
  BY NumbersAreNumbers DEF TradesOK
<1>2. GainAt(o, mid) \in Int
  BY ExitTyped
<1>3. StopLossPct \in Nat \ {0} /\ TakeProfitPct \in Nat \ {0}
  BY ConstantsOK DEF ConstantsOK
<1>4. StopLossHit(o) => GainAt(o, mid) < 0
  BY <1>1, <1>2, <1>3, ThresholdIsAMove DEF StopLossHit
<1>5. TakeProfitHit(o) => GainAt(o, mid) > 0
  BY <1>1, <1>2, <1>3, ThresholdIsAMove DEF TakeProfitHit
<1>6. IF mode = "paper" THEN Amount = 0 ELSE Amount # 0
  BY <1>1 DEF Amount
<1>7. /\ Amount = 0 => GainAt(o, mid) * Amount = 0
      /\ Amount # 0 /\ GainAt(o, mid) < 0 => GainAt(o, mid) * Amount < 0
      /\ Amount # 0 /\ GainAt(o, mid) > 0 => GainAt(o, mid) * Amount > 0
  BY ONLY <1>1, <1>2, SignOfProduct
<1>8. GainAt(o, mid) = IF trade[o].sig = "LONG" THEN mid - trade[o].entry
                                                ELSE -(mid - trade[o].entry)
  BY <1>1 DEF GainAt
<1> DEFINE g == GainAt(o, mid)   v == mid - trade[o].entry
           p == GainAt(o, mid) * Amount
<1>9. v \in Int
  BY <1>1
<1>10. CASE r = "sl"
  <2>1. mid # 0 /\ g < 0 /\ IF mode = "paper" THEN p = 0 ELSE p < 0
    BY <1>10, <1>4, <1>6, <1>7
  <2>2. IF trade[o].sig = "LONG" THEN v < 0 ELSE v > 0
    BY <1>8, <1>9, <2>1
  <2> QED BY <1>10, <2>1, <2>2 DEF HonestExit
<1>11. CASE r = "tp"
  <2>1. mid # 0 /\ g > 0 /\ IF mode = "paper" THEN p = 0 ELSE p > 0
    BY <1>11, <1>5, <1>6, <1>7
  <2>2. IF trade[o].sig = "LONG" THEN v > 0 ELSE v < 0
    BY <1>8, <1>9, <2>1
  <2> QED BY <1>11, <2>1, <2>2 DEF HonestExit
<1>12. CASE r = "timeout"
  BY <1>12 DEF HonestExit
<1> QED BY <1>10, <1>11, <1>12

LEMMA ExitsStep ==
    TypeOK /\ LocalsOK /\ TradesOK /\ ExitsHaveTheirSign /\ [Next]_vars
        => ExitsHaveTheirSign'
<1> SUFFICES ASSUME TypeOK, LocalsOK, TradesOK, ExitsHaveTheirSign, [Next]_vars
             PROVE  ExitsHaveTheirSign'
  OBVIOUS
<1>0. /\ \A o \in OrderIds : HonestExit(exit[o], trade[o].sig = "LONG")
      /\ mode' = mode
  BY ConfigIsFixed DEF ExitsHaveTheirSign, HonestExit
<1> SUFFICES ASSUME NEW q \in OrderIds PROVE HonestExit(exit'[q], trade'[q].sig = "LONG")
  BY <1>0 DEF ExitsHaveTheirSign, HonestExit
<1>1. CASE Register
  <2>1. tick.order \in OrderIds /\ exit' = exit /\ exit[tick.order].reason = "none"
    BY <1>1 DEF Register, LocalsOK, TradesOK
  <2>2. q # tick.order => trade'[q] = trade[q]
    BY <1>1 DEF Register, TypeOK
  <2> QED BY <1>0, <2>1, <2>2 DEF HonestExit
<1>2. ASSUME NEW o \in OrderIds, NEW r \in {"sl", "tp", "timeout"}, RecordClose(o, r),
             Watching(o),
             r = "sl" => mid # 0 /\ StopLossHit(o),
             r = "tp" => mid # 0 /\ TakeProfitHit(o)
      PROVE  HonestExit(exit'[q], trade'[q].sig = "LONG")
  <2>1. trade' = trade
    BY <1>2 DEF RecordClose
  <2>2. HonestExit([reason |-> r, price |-> mid, pnl |-> GainAt(o, mid) * Amount,
                    move |-> mid - trade[o].entry], trade[o].sig = "LONG")
    BY <1>2, NewExitIsHonest DEF Watching
  <2>3. \/ exit'[q] = exit[q]
        \/ q = o /\ exit'[q] = [reason |-> r, price |-> mid,
                                pnl |-> GainAt(o, mid) * Amount,
                                move |-> mid - trade[o].entry]
    BY <1>2 DEF RecordClose, TypeOK
  <2> QED BY ONLY <1>0, <2>1, <2>2, <2>3, q \in OrderIds
<1>3. ASSUME NEW o \in OrderIds, QuitOnCancel(o) \/ CancelOrder(o) \/ RemoveOrder(o)
      PROVE  HonestExit(exit'[q], trade'[q].sig = "LONG")
  BY <1>0, <1>3 DEF QuitOnCancel, CancelOrder, RemoveOrder
<1>4. CASE UNCHANGED mgrVars
  BY <1>0, <1>4 DEF mgrVars
<1>5. ASSUME NEW o \in OrderIds, ManageTrade(o)
      PROVE  HonestExit(exit'[q], trade'[q].sig = "LONG")
  BY <1>2, <1>3, <1>5 DEF ManageTrade, ExitTimeout, ExitStopLoss, ExitTakeProfit
<1> QED BY <1>1, <1>4, <1>5, OthersKeepManagers

-----------------------------------------------------------------------------
(* The theorems *)

LEMMA InitIInv == Init => IInv
<1> SUFFICES ASSUME Init PROVE IInv
  OBVIOUS
<1>1. TypeOK
  BY TypeInit
<1>2. Capacity
  BY CapacityInit
<1>3. LocalsOK /\ TrackedIffManaged /\ JournaledAtMostOnce /\ TradesOK
      /\ ExitsHaveTheirSign
  BY DEF Init, LocalsOK, TrackedIffManaged, JournaledAtMostOnce, TradesOK,
         ExitsHaveTheirSign
<1> QED BY <1>1, <1>2, <1>3 DEF IInv

LEMMA StepIInv == IInv /\ [Next]_vars => IInv'
BY TypeStep, LocalsStep, CapacityStep, TrackedStep, JournalStep, TradesStep, ExitsStep
   DEF IInv

\* The invariant the others follow from: engine.go keeps it whatever the market,
\* the exchange and the shutdown do.
THEOREM Inductive == Spec => []IInv
BY InitIInv, StepIInv, PTL DEF Spec

\* Every variable keeps its type, the back-off its range (engine.go:141-147).
THEOREM TypeCorrect == Spec => []TypeOK
<1>1. IInv => TypeOK
  BY DEF IInv
<1> QED BY <1>1, Inductive, PTL

\* max_open_orders bounds openOrders although executeSignal reads its length without
\* the lock and a request goes by before the order is registered; and an order is
\* in it exactly while its manageTrade goroutine has it.
THEOREM NoLeakedOrder == Spec => []OpenOrdersRight
<1>1. IInv => OpenOrdersRight
  BY DEF IInv, Capacity, OpenOrdersRight
<1> QED BY <1>1, Inductive, PTL

\* No interleaving of SL, TP, timeout and shutdown journals a trade twice, and a
\* recorded stop-loss is at a quoted price that had moved against the side, with a loss,
\* a take-profit at one that had moved for it, with a gain, for both sides, every
\* threshold of at least one percent, every price and quantity; a paper trade, whose order
\* has no amount (client.go:226, 253), is at such a price with a P&L of 0.
THEOREM OneHonestLine == Spec => []JournalIsRight
<1>1. IInv => JournalIsRight
  BY DEF IInv, JournalIsRight
<1> QED BY <1>1, Inductive, PTL

-----------------------------------------------------------------------------
(* What rests on the exchange *)

\* Every answer and every cancel request arrives, and cancels reach their market.
RequestsArrive == Faults \cap {"reply_lost", "cancel_fails"} = {} /\ "futures" \notin Modes

\* The orders the bot knows of: the map and the one Run is about to put there.
Known == openOrders \cup (IF run = "register" THEN {tick.order} ELSE {})

\* Until the context is cancelled the exchange has no order the bot does not know,
\* none that has been cancelled, and none of a paper bot.  From then on nothing is
\* placed any more, so the bound stays although cancels are no longer sent.
BookOK ==
    /\ ~ctxDone => /\ Resting \subseteq Known
                   /\ \A o \in OrderIds : mgr[o] = "cancelled" => o \notin Resting
    /\ mode = "paper" => Resting = {}
    /\ Cardinality(Resting) <= MaxOpenOrders

\* There is room for all orders the bot knows of.
KnownFits == \A S \in SUBSET Known : Cardinality(S) <= MaxOpenOrders

LEMMA KnownBounded == IInv => KnownFits
<1> SUFFICES ASSUME IInv, NEW S \in SUBSET Known PROVE Cardinality(S) <= MaxOpenOrders
  BY DEF KnownFits
<1> USE DEF IInv, LocalsOK, Capacity, OpenOrdersBounded
<1>1. /\ openOrders \in SUBSET OrderIds /\ Known \in SUBSET OrderIds /\ S \in SUBSET OrderIds
      /\ MaxOpenOrders \in Nat
  BY ConstantsOK DEF TypeOK, Known, ConstantsOK
<1>2. Cardinality(openOrders) \in Nat /\ Cardinality(Known) \in Nat /\ Cardinality(S) \in Nat
  BY <1>1, OpenCount
<1>3. Cardinality(S) <= Cardinality(Known)
  BY <1>1, ConstantsOK, FS_Subset DEF ConstantsOK
<1>4. Cardinality(Known) <= MaxOpenOrders
  <2>1. CASE run = "register"
    <3>1. Known = openOrders \cup {tick.order} /\ tick.order \in OrderIds
      BY <2>1 DEF Known
    <3>2. Cardinality(Known) <= Cardinality(openOrders) + 1
      BY <1>1, <3>1, OpenCount
    <3>3. Cardinality(openOrders) < MaxOpenOrders
      BY <2>1
    <3> QED BY <1>1, <1>2, <3>2, <3>3
  <2>2. CASE run # "register"
    <3>1. Known = openOrders
      BY <2>2 DEF Known
    <3> QED BY <3>1
  <2> QED BY <2>1, <2>2
<1> QED BY <1>1, <1>2, <1>3, <1>4

LEMMA BookInit == Init => BookOK
<1>1. Init => Resting = {}
  BY DEF Init, ExchangeInit, Resting
<1> QED BY <1>1, FS_EmptySet, ConstantsOK DEF Init, BookOK, ConstantsOK

\* Orders come to rest only where Run places them, which a cancelled context prevents.
LEMMA NewlyResting ==
    ASSUME RequestsArrive, TypeOK, [Next]_vars
    PROVE  \/ Resting' \subseteq Resting
           \/ /\ PlaceAccepted /\ ~ctxDone' /\ mode # "paper" /\ mgr[tick'.order] = "none"
              /\ Resting' = Resting \cup {tick'.order}
<1> USE DEF TypeOK, ExchangeTypeOK
<1>1. CASE UNCHANGED xchg
  BY <1>1 DEF Resting
<1>2. CASE PlaceAccepted
  <2>1. PICK o \in Fresh : /\ \/ mode = "paper" /\ UNCHANGED xchg
                              \/ mode # "paper" /\ ~ctxDone /\ Accept(o)
                           /\ tick' = [tick EXCEPT !.order = o]
    BY <1>2 DEF PlaceAccepted
  <2>2. tick'.order = o /\ mgr[o] = "none" /\ o \in OrderIds
    BY <2>1 DEF TickState, Fresh
  <2>3. CASE mode # "paper" /\ ~ctxDone /\ Accept(o)
    <3>1. \A q \in OrderIds : xchg'[q] = "resting" <=> q = o \/ xchg[q] = "resting"
      BY <2>2, <2>3 DEF Accept
    <3>2. Resting' = Resting \cup {o}
      BY <2>2, <3>1 DEF Resting
    <3>3. ~ctxDone'
      BY <1>2, <2>3 DEF PlaceAccepted, envVars
    <3> QED BY <1>2, <2>2, <2>3, <3>2, <3>3
  <2> QED BY <1>1, <2>1, <2>3
<1>3. CASE ExchangeFills
  BY <1>3 DEF ExchangeFills, Fill, Resting
<1>4. ASSUME NEW o \in OrderIds, CancelOrder(o) PROVE Resting' \subseteq Resting
  BY <1>4 DEF CancelOrder, CancelSpotOrder, CancelArrives, Resting
<1>5. ~ PlaceReplyLost
  BY DEF PlaceReplyLost, RequestsArrive
<1>6. PlaceAccepted \/ ExchangeFills \/ (\E o \in OrderIds : CancelOrder(o)) \/ UNCHANGED xchg
  BY <1>5 DEF Next, RunStep, StartUp, ReturnOnCancel, ReturnOnStop, StartTick, ProcessExits,
     RefreshCandles, PlaceRejected, BackoffElapsed, Register, Decide, CheckLimit, ManageTrade,
     ExitTimeout, ExitStopLoss, ExitTakeProfit, RecordClose, QuitOnCancel, RemoveOrder,
     MidMoves, CancelContext, Stop, vars
<1> QED BY <1>1, <1>2, <1>3, <1>4, <1>6

\* Run forgets the order it has placed only by putting it into the map.
LEMMA KnownKept ==
    ASSUME TypeOK, [Next]_vars, \A o \in OrderIds : ~RemoveOrder(o)
    PROVE  Known \subseteq Known'
<1>1. CASE Register
  BY <1>1 DEF Register, TickSucceeds, Known
<1>2. CASE \E o \in OrderIds : ManageTrade(o)
  BY <1>2 DEF ManageTrade, ExitTimeout, ExitStopLoss, ExitTakeProfit, RecordClose,
     QuitOnCancel, CancelOrder, runVars, Known
<1>3. CASE ~Register /\ \A o \in OrderIds : ~ManageTrade(o)
  <2>1. UNCHANGED openOrders
    BY <1>3, OthersKeepManagers DEF mgrVars
  <2>2. run = "register" => UNCHANGED <<run, tick>>
    BY <1>3 DEF Next, RunStep, StartUp, ReturnOnCancel, ReturnOnStop, StartTick, ProcessExits,
       RefreshCandles, PlaceRejected, PlaceReplyLost, PlaceAccepted, BackoffElapsed,
       Decide, CheckLimit, MidMoves, ExchangeFills, CancelContext, Stop, runVars, vars
  <2> QED BY <2>1, <2>2 DEF Known
<1> QED BY <1>1, <1>2, <1>3

\* A trade is cancelled in the bot's eyes once its cancel request has arrived.
LEMMA NewlyCancelled ==
    ASSUME RequestsArrive, TypeOK, BookOK, ~ctxDone, [Next]_vars,
           NEW o \in OrderIds, mgr'[o] = "cancelled", mgr[o] # "cancelled"
    PROVE  o \notin Resting'
<1>1. CancelOrder(o)
  <2>1. CASE Register
    BY <2>1 DEF Register, TypeOK
  <2>2. ASSUME NEW q \in OrderIds, ManageTrade(q), ~CancelOrder(q) PROVE mgr'[o] # "cancelled"
    BY <2>2 DEF ManageTrade, ExitTimeout, ExitStopLoss, ExitTakeProfit, RecordClose,
       QuitOnCancel, RemoveOrder, TypeOK
  <2>3. ASSUME NEW q \in OrderIds, CancelOrder(q) PROVE q = o
    BY <2>3 DEF CancelOrder, TypeOK
  <2>4. CASE UNCHANGED mgrVars
    BY <2>4 DEF mgrVars
  <2> QED BY <2>1, <2>2, <2>3, <2>4, OthersKeepManagers
<1>2. CASE mode = "spot"
  BY <1>1, <1>2 DEF CancelOrder, CancelSpotOrder, CancelArrives, RequestsArrive, Resting,
     TypeOK, ExchangeTypeOK
<1>3. CASE mode = "paper"
  BY <1>1, <1>3 DEF CancelOrder, CancelSpotOrder, BookOK, Resting
<1>4. mode \in {"spot", "paper"}
  BY ConstantsOK DEF ConstantsOK, TypeOK, RequestsArrive, ModeKinds
<1> QED BY <1>2, <1>3, <1>4

LEMMA BookStep ==
    ASSUME RequestsArrive, IInv, KnownFits', BookOK, [Next]_vars
    PROVE  BookOK'
<1>0. TypeOK /\ LocalsOK /\ IsFiniteSet(Resting)
  BY FS_Subset, ConstantsOK DEF ConstantsOK, IInv, Resting
<1>1. mode' = mode /\ (ctxDone => ctxDone')
  BY DEF Next, RunStep, StartUp, ReturnOnCancel, ReturnOnStop, StartTick, ProcessExits,
     RefreshCandles, PlaceRejected, PlaceReplyLost, PlaceAccepted, BackoffElapsed, Register,
     Decide, CheckLimit, ManageTrade, ExitTimeout, ExitStopLoss, ExitTakeProfit, RecordClose,
     QuitOnCancel, CancelOrder, RemoveOrder, MidMoves, ExchangeFills, CancelContext, Stop,
     envVars, vars
<1>2. mode = "paper" => Resting' = {}
  BY <1>0, NewlyResting DEF BookOK
<1>3. ASSUME ~ctxDone'
      PROVE  /\ Resting' \subseteq Known'
             /\ \A o \in OrderIds : mgr'[o] = "cancelled" => o \notin Resting'
  <2>1. /\ ~ctxDone /\ Resting \subseteq Known
        /\ \A o \in OrderIds : mgr[o] = "cancelled" => o \notin Resting
    BY <1>1, <1>3 DEF BookOK
  <2>2. CASE Resting' \subseteq Resting
    <3>1. ASSUME \A o \in OrderIds : ~RemoveOrder(o) PROVE Resting' \subseteq Known'
      <4>1. Known \subseteq Known'
        BY <1>0, <3>1, KnownKept
      <4> QED BY <2>1, <2>2, <4>1
    <3>2. ASSUME NEW o \in OrderIds, RemoveOrder(o) PROVE Resting' \subseteq Known'
      <4>1. o \notin Resting /\ Known \ {o} \subseteq Known'
        BY <2>1, <3>2 DEF RemoveOrder, runVars, Known
      <4> QED BY <2>1, <2>2, <4>1
    <3>3. Resting' \subseteq Known'
      BY <3>1, <3>2
    <3> QED BY <1>0, <2>1, <2>2, <3>3, NewlyCancelled
  <2>3. CASE /\ PlaceAccepted /\ mgr[tick'.order] = "none"
             /\ Resting' = Resting \cup {tick'.order}
    <3>1. UNCHANGED mgrVars /\ run = "place" /\ run' = "register"
      BY <2>3 DEF PlaceAccepted
    <3> QED BY <2>1, <2>3, <3>1 DEF Known, mgrVars
  <2> QED BY <1>0, <2>2, <2>3, NewlyResting
<1>4. Cardinality(Resting') <= MaxOpenOrders
  <2>1. CASE ~ctxDone'
    BY <1>3, <2>1 DEF KnownFits
  <2>2. CASE ctxDone'
    <3>1. Resting' \subseteq Resting
      BY <1>0, <2>2, NewlyResting
    <3>2. Cardinality(Resting') <= Cardinality(Resting)
      BY <1>0, <3>1, FS_Subset
    <3>3. /\ Cardinality(Resting) \in Nat /\ Cardinality(Resting') \in Nat /\ MaxOpenOrders \in Nat
      BY <1>0, <3>1, FS_Subset, FS_CardinalityType, ConstantsOK DEF ConstantsOK
    <3> QED BY <3>2, <3>3 DEF BookOK
  <2> QED BY <2>1, <2>2
<1> QED BY <1>1, <1>2, <1>3, <1>4 DEF BookOK

\* max_open_orders bounds what rests on the exchange, and an order that was removed is
\* off the book, as long as requests arrive (engine.go:265, 363-399): the check before
\* the request leaves room for all that the bot knows, and the exchange has no more.
THEOREM NothingRestsUnknown ==
    ASSUME RequestsArrive PROVE Spec => []RestingOrdersTracked
<1>1. IInv /\ KnownFits' /\ BookOK /\ [Next]_vars => BookOK'
  BY BookStep
<1>2. IInv /\ BookOK => RestingOrdersTracked
  BY DEF IInv, TrackedIffManaged, LocalsOK, BookOK, RestingOrdersTracked, Known, Resting
<1> QED BY <1>1, <1>2, BookInit, KnownBounded, Inductive, PTL DEF Spec

-----------------------------------------------------------------------------
(* The engine implements TradeLifecycle *)

\* The stages of the trades, as the refinement mapping sees them.
stages == [o \in OrderIds |-> StageOf[mgr[o]]]

LEMMA LifecycleInit == Init => Lifecycle!Init
BY FS_EmptySet DEF Init, Lifecycle!Init, StageOf

LEMMA StageTable ==
    /\ StageOf["none"] = "new" /\ StageOf["watch"] = "open"
    /\ StageOf["recorded"] = "settled" /\ StageOf["cancelled"] = "settled"
    /\ StageOf["gone"] = "released" /\ StageOf["quit"] = "abandoned"
BY DEF StageOf

\* A manager that moves to another stage moves that stage of its trade only.
LEMMA StageMoves ==
    ASSUME TypeOK, NEW o \in OrderIds, NEW next, mgr' = [mgr EXCEPT ![o] = next]
    PROVE  stages' = [stages EXCEPT ![o] = StageOf[next]] /\ stages[o] = StageOf[mgr[o]]
BY DEF TypeOK, stages

LEMMA LifecycleStep ==
    ASSUME "journal_fails" \notin Faults, IInv, [Next]_vars
    PROVE  [Lifecycle!Next]_<<stages, records, Cardinality(openOrders)>>
<1>0. TypeOK /\ LocalsOK /\ TrackedIffManaged /\ Capacity
      /\ IsFiniteSet(openOrders) /\ Cardinality(openOrders) \in Nat
  BY OpenCount, FS_Subset, ConstantsOK DEF ConstantsOK, IInv, TypeOK
<1>1. CASE Register
  <2>1. PICK o \in OrderIds : o = tick.order
    BY <1>0, <1>1 DEF Register, LocalsOK
  <2>2. mgr[o] = "none" /\ UNCHANGED records /\ openOrders' = openOrders \cup {o}
        /\ mgr' = [mgr EXCEPT ![o] = "watch"] /\ Cardinality(openOrders) < MaxOpenOrders
    BY <1>0, <1>1, <2>1 DEF Register, LocalsOK, Capacity
  <2>3. stages' = [stages EXCEPT ![o] = "open"] /\ stages[o] = "new"
    <3>1. stages' = [stages EXCEPT ![o] = StageOf["watch"]] /\ stages[o] = StageOf["none"]
      BY <1>0, <2>2, StageMoves
    <3> QED BY <3>1, StageTable
  <2>4. Cardinality(openOrders') = Cardinality(openOrders) + 1
    BY <1>0, <2>2, FS_AddElement DEF TrackedIffManaged
  <2>5. Lifecycle!Open(o)
    BY <2>2, <2>3, <2>4 DEF Lifecycle!Open, stages
  <2> QED BY <2>5 DEF Lifecycle!Next
<1>2. ASSUME NEW o \in OrderIds,
             ExitTimeout(o) \/ ExitStopLoss(o) \/ ExitTakeProfit(o)
      PROVE  Lifecycle!Next
  <2>1. mgr[o] = "watch" /\ mgr' = [mgr EXCEPT ![o] = "recorded"]
        /\ records' = [records EXCEPT ![o] = @ + 1] /\ UNCHANGED openOrders
    BY <1>2 DEF ExitTimeout, ExitStopLoss, ExitTakeProfit, Watching, RecordClose
  <2>2. stages' = [stages EXCEPT ![o] = "settled"] /\ stages[o] = "open"
    <3>1. stages' = [stages EXCEPT ![o] = StageOf["recorded"]]
          /\ stages[o] = StageOf["watch"]
      BY <1>0, <2>1, StageMoves
    <3> QED BY <3>1, StageTable
  <2>3. Lifecycle!Settle(o)
    BY <2>1, <2>2 DEF Lifecycle!Settle, stages
  <2> QED BY <2>3 DEF Lifecycle!Next
<1>3. ASSUME NEW o \in OrderIds, QuitOnCancel(o)
      PROVE  Lifecycle!Next
  <2>1. mgr[o] = "watch" /\ mgr' = [mgr EXCEPT ![o] = "quit"]
        /\ UNCHANGED <<records, openOrders>>
    BY <1>3 DEF QuitOnCancel, Watching
  <2>2. stages' = [stages EXCEPT ![o] = "abandoned"] /\ stages[o] = "open"
    <3>1. stages' = [stages EXCEPT ![o] = StageOf["quit"]]
          /\ stages[o] = StageOf["watch"]
      BY <1>0, <2>1, StageMoves
    <3> QED BY <3>1, StageTable
  <2>3. Lifecycle!Abandon(o)
    BY <2>1, <2>2 DEF Lifecycle!Abandon, stages
  <2> QED BY <2>3 DEF Lifecycle!Next
<1>4. ASSUME NEW o \in OrderIds, CancelOrder(o)
      PROVE  UNCHANGED <<stages, records, openOrders>>
  <2>1. mgr[o] = "recorded" /\ mgr' = [mgr EXCEPT ![o] = "cancelled"]
        /\ UNCHANGED <<records, openOrders>>
    BY <1>4 DEF CancelOrder
  <2>2. stages' = [stages EXCEPT ![o] = "settled"] /\ stages[o] = "settled"
    <3>1. stages' = [stages EXCEPT ![o] = StageOf["cancelled"]]
          /\ stages[o] = StageOf["recorded"]
      BY <1>0, <2>1, StageMoves
    <3> QED BY <3>1, StageTable
  <2> QED BY <2>1, <2>2 DEF stages
<1>5. ASSUME NEW o \in OrderIds, RemoveOrder(o)
      PROVE  Lifecycle!Next
  <2>1. mgr[o] = "cancelled" /\ mgr' = [mgr EXCEPT ![o] = "gone"] /\ UNCHANGED records
        /\ openOrders' = openOrders \ {o}
    BY <1>5 DEF RemoveOrder
  <2>2. stages' = [stages EXCEPT ![o] = "released"] /\ stages[o] = "settled"
    <3>1. stages' = [stages EXCEPT ![o] = StageOf["gone"]]
          /\ stages[o] = StageOf["cancelled"]
      BY <1>0, <2>1, StageMoves
    <3> QED BY <3>1, StageTable
  <2>3. Cardinality(openOrders') = Cardinality(openOrders) - 1
    BY <1>0, <2>1, FS_RemoveElement DEF TrackedIffManaged
  <2>4. Lifecycle!Release(o)
    BY <2>1, <2>2, <2>3 DEF Lifecycle!Release, stages
  <2> QED BY <2>4 DEF Lifecycle!Next
<1>6. CASE UNCHANGED mgrVars
  BY <1>6 DEF mgrVars, stages
<1> QED BY <1>1, <1>2, <1>3, <1>4, <1>5, <1>6, OthersKeepManagers DEF ManageTrade

\* With a journal that can be written the engine implements the life of a trade:
\* room before it opens, one journal line, and its release only after that.
THEOREM ImplementsLifecycle ==
    ASSUME "journal_fails" \notin Faults
    PROVE  Spec => LifecycleSpec
<1>1. Init => Lifecycle!Init
  BY LifecycleInit
<1>2. IInv /\ [Next]_vars
        => [Lifecycle!Next]_<<stages, records, Cardinality(openOrders)>>
  BY LifecycleStep
<1> QED BY <1>1, <1>2, Inductive, PTL DEF Spec, LifecycleSpec, Lifecycle!Spec, stages

-----------------------------------------------------------------------------
(* The rate limiter *)

\* Since the last refill of the window, requests let through and tokens left
\* together are paid for by a full bucket and by what came in.
Paid == lastRefill >= windowStart =>
            granted * One + tokens <= MaxTokens + Rate * (lastRefill - windowStart)

\* Every grant refills first, so none was made before the window's first refill.
NoneBefore == lastRefill < windowStart => granted = 0

LimiterInv == LimiterTypeOK /\ Paid /\ NoneBefore

\* What comes in over two stretches of time adds up.
LEMMA IncomeAdds ==
    ASSUME NEW r \in Nat, NEW a \in Int, NEW b \in Int, NEW c \in Int
    PROVE  r * (a - b) + (c - a) * r = r * (c - b)
<1>1. (c - a) * r = r * (c - a)
  OBVIOUS
<1>2. r * (a - b) + r * (c - a) = r * ((a - b) + (c - a))
  <2> DEFINE x == a - b
  <2> DEFINE y == c - a
  <2>1. x \in Int /\ y \in Int
    OBVIOUS
  <2> HIDE DEF x, y
  <2>2. r * x + r * y = r * (x + y)
    BY <2>1
  <2> QED
    BY <2>2 DEF x, y
<1>3. (a - b) + (c - a) = c - b
  OBVIOUS
<1> QED
  BY <1>1, <1>2, <1>3

\* Nothing ever goes out of the bucket while time passes.
LEMMA IncomeNat ==
    ASSUME NEW r \in Nat, NEW a \in Nat, NEW b \in 0..a
    PROVE  r * (a - b) \in Nat
<1> DEFINE d == a - b
<1>1. d \in Nat
  OBVIOUS
<1> HIDE DEF d
<1>2. r * d \in Nat
  BY <1>1
<1> QED
  BY <1>2 DEF d

\* One more request costs one more token.
LEMMA OneMore ==
    ASSUME NEW g \in Nat, NEW k \in Nat
    PROVE  (g + 1) * k = g * k + k /\ g * k \in Nat
OBVIOUS

\* The refill is a value of the bucket, and no more than came in.
LEMMA RefillBounded ==
    ASSUME LimiterTypeOK
    PROVE  /\ Refilled \in 0..MaxTokens
           /\ Refilled <= tokens + (now - lastRefill) * Rate
<1> DEFINE t == tokens + (now - lastRefill) * Rate
<1>1. Rate * (now - lastRefill) \in Nat
  BY LimiterConstantsOK, IncomeNat DEF LimiterTypeOK
<1>2. (now - lastRefill) * Rate = Rate * (now - lastRefill)
  BY LimiterConstantsOK DEF LimiterTypeOK
<1>3. t \in Nat
  BY <1>1, <1>2 DEF LimiterTypeOK
<1> HIDE DEF t
<1>4. Refilled = IF t > MaxTokens THEN MaxTokens ELSE t
  BY DEF Refilled, t
<1>5. Refilled \in 0..MaxTokens /\ Refilled <= t
  BY <1>3, <1>4, LimiterConstantsOK
<1> QED
  BY <1>5 DEF t

\* The sleep is a number of units of time.
LEMMA SleepIsTime ==
    ASSUME NEW t \in 0..MaxTokens, t < One
    PROVE  Needed(t) \in Nat
BY LimiterConstantsOK DEF Needed

LEMMA LimiterInitially == LimiterInit => LimiterInv
BY LimiterConstantsOK DEF LimiterInit, LimiterInv, LimiterTypeOK, Paid, NoneBefore

LEMMA LimiterInductive == LimiterInv /\ [LimiterNext]_limiterVars => LimiterInv'
<1> SUFFICES ASSUME LimiterInv, [LimiterNext]_limiterVars PROVE LimiterInv'
  OBVIOUS
<1> USE LimiterConstantsOK DEF LimiterInv
<1>1. CASE Tick
  BY <1>1 DEF Tick, LimiterTypeOK, Paid, NoneBefore
<1>2. CASE OpenWindow
  <2>1. LimiterTypeOK'
    BY <1>2 DEF OpenWindow, LimiterTypeOK
  <2>2. Rate * (lastRefill' - windowStart') = 0 \/ lastRefill' < windowStart'
    <3>1. lastRefill' = lastRefill /\ windowStart' = now /\ lastRefill <= now
      BY <1>2 DEF OpenWindow, LimiterTypeOK
    <3>2. CASE lastRefill = now
      <4>1. lastRefill' - windowStart' = 0
        BY <3>1, <3>2 DEF LimiterTypeOK
      <4> QED
        BY <4>1
    <3> QED
      BY <3>1, <3>2 DEF LimiterTypeOK
  <2>3. granted' * One + tokens' <= MaxTokens
    BY <1>2 DEF OpenWindow, LimiterTypeOK
  <2>4. Paid'
    <3>1. SUFFICES ASSUME lastRefill' >= windowStart'
                   PROVE  granted' * One + tokens'
                            <= MaxTokens + Rate * (lastRefill' - windowStart')
      BY DEF Paid
    <3>2. ~ (lastRefill' < windowStart')
      BY <2>1, <3>1 DEF LimiterTypeOK
    <3>3. Rate * (lastRefill' - windowStart') = 0
      BY <2>2, <3>2, Zenon
    <3>4. granted' * One + tokens' <= MaxTokens + 0
      BY <2>3
    <3> QED
      BY <3>3, <3>4, Zenon
  <2>5. NoneBefore'
    BY <1>2 DEF OpenWindow, NoneBefore
  <2> QED
    BY <2>1, <2>4, <2>5
<1>3. ASSUME NEW c \in Callers, Grant(c) PROVE LimiterInv'
  <2>1. /\ Refilled \in 0..MaxTokens /\ Refilled >= One
        /\ Refilled <= tokens + (now - lastRefill) * Rate
    BY <1>3, RefillBounded DEF Grant
  <2>2. LimiterTypeOK'
    BY <1>3, <2>1 DEF Grant, LimiterTypeOK
  <2>3. /\ (granted + 1) * One = granted * One + One
        /\ granted * One \in Nat
    BY OneMore DEF LimiterTypeOK
  <2>4. Rate * (now - windowStart) \in Nat
    BY IncomeNat DEF LimiterTypeOK
  <2>5. (granted + 1) * One + (Refilled - One) <= MaxTokens + Rate * (now - windowStart)
    <3>1. (granted + 1) * One + (Refilled - One) = granted * One + Refilled
      BY <2>1, <2>3
    <3>2. CASE lastRefill < windowStart
      <4>1. granted * One = 0
        BY <3>2 DEF NoneBefore
      <4> QED
        BY <2>1, <2>4, <3>1, <4>1
    <3>3. CASE lastRefill >= windowStart
      <4>1. granted * One + tokens <= MaxTokens + Rate * (lastRefill - windowStart)
        BY <3>3 DEF Paid
      <4>2. Rate * (lastRefill - windowStart) + (now - lastRefill) * Rate
              = Rate * (now - windowStart)
        BY IncomeAdds DEF LimiterTypeOK
      <4> DEFINE in1 == Rate * (lastRefill - windowStart)
      <4> DEFINE in2 == (now - lastRefill) * Rate
      <4> DEFINE in3 == Rate * (now - windowStart)
      <4> DEFINE spent == granted * One
      <4>3. in1 \in Int /\ in2 \in Int /\ in3 \in Int /\ spent \in Nat
        BY <2>3 DEF LimiterTypeOK
      <4>4. spent + tokens <= MaxTokens + in1 /\ in1 + in2 = in3
            /\ Refilled <= tokens + in2
        BY <2>1, <4>1, <4>2
      <4>5. (granted + 1) * One + (Refilled - One) = spent + Refilled
        BY <3>1
      <4> HIDE DEF in1, in2, in3, spent
      <4>6. spent + Refilled <= MaxTokens + in3
        BY <2>1, <4>3, <4>4 DEF LimiterTypeOK
      <4> QED
        BY <4>5, <4>6 DEF in3
    <3> QED
      BY <3>2, <3>3 DEF LimiterTypeOK
  <2>6. Paid'
    BY <1>3, <2>5 DEF Grant, Paid
  <2>7. NoneBefore'
    BY <1>3 DEF Grant, NoneBefore, LimiterTypeOK
  <2> QED
    BY <2>2, <2>6, <2>7
<1>4. ASSUME NEW c \in Callers, Sleep(c) PROVE LimiterInv'
  <2>1. /\ Refilled \in 0..MaxTokens /\ Refilled < One
        /\ Refilled <= tokens + (now - lastRefill) * Rate
    BY <1>4, RefillBounded DEF Sleep
  <2>2. LimiterTypeOK'
    <3>1. Needed(Refilled) \in Nat
      BY <2>1, SleepIsTime
    <3> QED
      BY <1>4, <2>1, <3>1 DEF Sleep, LimiterTypeOK
  <2>3. Rate * (now - windowStart) \in Nat /\ granted * One \in Nat
    BY IncomeNat, OneMore DEF LimiterTypeOK
  <2>4. granted * One + Refilled <= MaxTokens + Rate * (now - windowStart)
    <3>1. CASE lastRefill < windowStart
      <4>1. granted * One = 0
        BY <3>1 DEF NoneBefore
      <4> QED
        BY <2>1, <2>3, <4>1
    <3>2. CASE lastRefill >= windowStart
      <4> DEFINE in1 == Rate * (lastRefill - windowStart)
      <4> DEFINE in2 == (now - lastRefill) * Rate
      <4> DEFINE in3 == Rate * (now - windowStart)
      <4> DEFINE spent == granted * One
      <4>1. spent + tokens <= MaxTokens + in1
        BY <3>2 DEF Paid
      <4>2. in1 + in2 = in3
        BY IncomeAdds DEF LimiterTypeOK
      <4>3. in1 \in Int /\ in2 \in Int /\ in3 \in Int /\ spent \in Nat
        BY <2>3 DEF LimiterTypeOK
      <4>4. Refilled <= tokens + in2
        BY <2>1
      <4> HIDE DEF in1, in2, in3, spent
      <4>5. spent + Refilled <= MaxTokens + in3
        BY <2>1, <4>1, <4>2, <4>3, <4>4 DEF LimiterTypeOK
      <4> QED
        BY <4>5 DEF in3, spent
    <3> QED
      BY <3>1, <3>2 DEF LimiterTypeOK
  <2>5. Paid'
    BY <1>4, <2>4 DEF Sleep, Paid
  <2>6. NoneBefore'
    BY <1>4 DEF Sleep, NoneBefore, LimiterTypeOK
  <2> QED
    BY <2>2, <2>5, <2>6
<1>5. ASSUME NEW c \in Callers, Call(c) \/ Wake(c) \/ Cancel(c) PROVE LimiterInv'
  BY <1>5 DEF Call, Wake, Cancel, LimiterTypeOK, Paid, NoneBefore
<1>6. CASE UNCHANGED limiterVars
  BY <1>6 DEF limiterVars, LimiterTypeOK, Paid, NoneBefore
<1> QED
  BY <1>1, <1>2, <1>3, <1>4, <1>5, <1>6 DEF LimiterNext, Wait

LEMMA LimiterInvariance == LimiterSpec => []LimiterInv
BY LimiterInitially, LimiterInductive, PTL DEF LimiterSpec

\* The bucket never overflows, never goes below zero, and no clock runs back.
THEOREM LimiterTypeCorrect == LimiterSpec => []LimiterTypeOK
BY LimiterInvariance, PTL DEF LimiterInv

\* The bound at the last refill holds now, since Rate only adds to it.
LEMMA PaidBounds == LimiterInv => RateBound
<1> SUFFICES ASSUME LimiterInv PROVE granted * One <= MaxTokens + Rate * (now - windowStart)
  BY DEF RateBound
<1> USE LimiterConstantsOK DEF LimiterInv
<1>1. granted * One \in Nat /\ Rate * (now - windowStart) \in Nat
  BY IncomeNat, OneMore DEF LimiterTypeOK
<1>2. CASE lastRefill < windowStart
  <2>1. granted * One = 0
    BY <1>2 DEF NoneBefore
  <2> QED
    BY <1>1, <2>1
<1>3. CASE lastRefill >= windowStart
  <2> DEFINE in1 == Rate * (lastRefill - windowStart)
  <2> DEFINE in2 == (now - lastRefill) * Rate
  <2> DEFINE in3 == Rate * (now - windowStart)
  <2> DEFINE spent == granted * One
  <2>1. spent + tokens <= MaxTokens + in1
    BY <1>3 DEF Paid
  <2>2. in1 + in2 = in3
    BY IncomeAdds DEF LimiterTypeOK
  <2>3. in2 \in Nat
    <3>1. in2 = Rate * (now - lastRefill)
      BY DEF LimiterTypeOK
    <3>2. Rate * (now - lastRefill) \in Nat
      BY IncomeNat DEF LimiterTypeOK
    <3> QED
      BY <3>1, <3>2
  <2>4. in1 \in Int /\ in3 \in Nat /\ spent \in Nat
    BY <1>1 DEF LimiterTypeOK
  <2> HIDE DEF in1, in2, in3, spent
  <2>5. spent <= MaxTokens + in3
    BY <2>1, <2>2, <2>3, <2>4 DEF LimiterTypeOK
  <2> QED
    BY <2>5 DEF in3, spent
<1> QED
  BY <1>2, <1>3 DEF LimiterTypeOK

\* However many callers there are and however they interleave, Wait lets through
\* at most a full bucket and the income of the time that has passed.
THEOREM RateIsBounded == LimiterSpec => []RateBound
BY LimiterInvariance, PaidBounds, PTL

-----------------------------------------------------------------------------
(* The instance lock *)

USE LockConstantsOK DEF LockConstantsOK, None, Empty

LEMMA LockTypeInit == LockInit => LockTypeOK
BY DEF LockInit, LockTypeOK, Acquiring

LEMMA LockTypeStep == LockTypeOK /\ [LockNext]_lockVars => LockTypeOK'
<1> SUFFICES ASSUME LockTypeOK, [LockNext]_lockVars PROVE LockTypeOK'
  OBVIOUS
<1> USE DEF LockTypeOK, Acquiring, Goto
<1>1. ASSUME NEW i \in Instances, Start(i) PROVE LockTypeOK'
  BY <1>1 DEF Start
<1>2. ASSUME NEW i \in Instances, ReadFile(i) PROVE LockTypeOK'
  <2>1. pc'[i] \in {"create", "remove", "signal"} /\ (pc'[i] = "signal" => file \in Pids)
    BY <1>2 DEF ReadFile
  <2> QED BY <1>2, <2>1 DEF ReadFile
<1>3. ASSUME NEW i \in Instances, Acquire(i) \/ Return(i) \/ Exit(i), ~ReadFile(i) PROVE LockTypeOK'
  BY <1>3 DEF Acquire, Signal, Remove, Create, Write, Return, Exit
<1>4. CASE ForeignStarts \/ ForeignEnds \/ UNCHANGED lockVars
  BY <1>4 DEF ForeignStarts, ForeignEnds, lockVars
<1> QED BY <1>1, <1>2, <1>3, <1>4 DEF LockNext, Acquire

\* Every variable keeps its type; only what parsed as an id is signalled (main.go:27-29).
THEOREM LockTypeCorrect == LockSpec => []LockTypeOK
BY LockTypeInit, LockTypeStep, PTL DEF LockSpec

-----------------------------------------------------------------------------
(* One instance, when starts do not overlap *)

\* At most one process is in acquireLock.
OneAcquirer ==
    \A i, j \in Instances : pc[i] \in Acquiring /\ pc[j] \in Acquiring => i = j

\* The system gives a process id to one process at a time.
PidsDiffer ==
    \A i, j \in Instances : Alive(i) /\ Alive(j) /\ pid[i] = pid[j] => i = j

\* The process in acquireLock can neither miss nor remove the file of one that runs:
\* as long as there is one, it gets to the signal at most, with the id of the holder.
HolderFound ==
    \A i, j \in Instances :
        pc[i] = "running" =>
            /\ file = pid[i] /\ pid[i] \in Pids
            /\ pc[j] \in Acquiring => pc[j] \in {"read", "signal"}
            /\ pc[j] = "signal" => found[j] = pid[i]

\* Whoever is in acquireLock has a process id to write.
PidKnown == \A i \in Instances : Alive(i) => pid[i] \in Pids

LockInv == LockTypeOK /\ OneAcquirer /\ PidsDiffer /\ PidKnown /\ HolderFound

LEMMA LockInvInit == LockInit => LockInv
BY LockTypeInit DEF LockInv, LockInit, OneAcquirer, PidsDiffer, PidKnown, HolderFound, Alive, Acquiring

\* A step of acquireLock of process i that is not its last one.
LEMMA StartKeeps ==
    ASSUME ~Together, LockInv, NEW i \in Instances, Start(i)
    PROVE  OneAcquirer' /\ PidsDiffer' /\ PidKnown' /\ HolderFound'
<1> USE DEF LockInv, LockTypeOK
<1>1. PICK n \in Pids \ PidsInUse : pid' = [pid EXCEPT ![i] = n]
  BY DEF Start
<1>2. /\ pc[i] = "new" /\ pc' = [pc EXCEPT ![i] = "read"]
      /\ \A j \in Instances : pc[j] \notin Acquiring
      /\ UNCHANGED <<file, found, foreign>>
  BY DEF Start, Goto
<1>3. \A j \in Instances : Alive(j) => pid[j] # n
  BY <1>1 DEF PidsInUse, PidsOfBots
<1>4. OneAcquirer'
  BY <1>2 DEF OneAcquirer, Acquiring
<1>5. PidsDiffer' /\ PidKnown'
  BY <1>1, <1>2, <1>3 DEF PidsDiffer, PidKnown, Alive, Acquiring
<1>6. HolderFound'
  BY <1>1, <1>2 DEF HolderFound, Acquiring
<1> QED BY <1>4, <1>5, <1>6

\* A signal to the holder's id reaches it, so that a second bot is refused.
LEMMA SignalKeeps ==
    ASSUME LockInv, NEW i \in Instances, Signal(i)
    PROVE  HolderFound'
<1> USE DEF LockInv, LockTypeOK
<1> SUFFICES ASSUME NEW h \in Instances, pc'[h] = "running", NEW j \in Instances
             PROVE  /\ file' = pid'[h] /\ pid'[h] \in Pids
                    /\ pc'[j] \in Acquiring => pc'[j] \in {"read", "signal"}
                    /\ pc'[j] = "signal" => found'[j] = pid'[h]
  BY DEF HolderFound
<1>1. pc[h] = "running" /\ h # i /\ pc[i] = "signal"
  BY DEF Signal, Goto
<1>2. found[i] = pid[h]
  BY <1>1 DEF HolderFound
<1>3. SignalReaches(found[i])
  BY <1>1, <1>2 DEF SignalReaches, PidsOfBots, Alive
<1>4. pc' = [pc EXCEPT ![i] = "refused"] /\ UNCHANGED <<file, pid, found>>
  BY <1>3 DEF Signal, Goto
<1> QED BY <1>1, <1>4 DEF HolderFound, Acquiring

LEMMA AcquireKeeps ==
    ASSUME LockInv, NEW i \in Instances, Acquire(i)
    PROVE  OneAcquirer' /\ PidsDiffer' /\ PidKnown' /\ HolderFound'
<1> USE DEF LockInv, LockTypeOK
<1>1. /\ pc[i] \in Acquiring /\ UNCHANGED <<pid, foreign>>
      /\ pc'[i] \in Acquiring \cup {"running", "refused"}
      /\ \A j \in Instances \ {i} : pc'[j] = pc[j]
  BY DEF Acquire, ReadFile, Signal, Remove, Create, Write, Goto, Acquiring
<1>2. OneAcquirer'
  BY <1>1 DEF OneAcquirer, Acquiring
<1>3. PidsDiffer' /\ PidKnown'
  BY <1>1 DEF PidsDiffer, PidKnown, Alive, Acquiring
<1>4. ASSUME ReadFile(i) PROVE HolderFound'
  <2>1. /\ file = None => pc'[i] = "create"
        /\ file \in Pids => pc'[i] = "signal"
        /\ found' = [found EXCEPT ![i] = file] /\ UNCHANGED file
        /\ pc'[i] # "running" /\ pc'[i] # "read"
    BY <1>4 DEF ReadFile, Goto
  <2>2. \A j \in Instances : pc'[j] = "signal" => j = i
    BY <1>1, <1>2 DEF OneAcquirer, Acquiring
  <2> QED BY <1>1, <1>2, <2>1, <2>2 DEF HolderFound, OneAcquirer, Acquiring
<1>5. ASSUME Signal(i) PROVE HolderFound'
  BY <1>5, SignalKeeps
<1>6. ASSUME Remove(i) \/ Create(i) PROVE HolderFound'
  <2>1. \A h \in Instances : pc[h] # "running" /\ pc'[h] # "running"
    BY <1>1, <1>6 DEF HolderFound, Remove, Create, Goto, Acquiring
  <2> QED BY <2>1 DEF HolderFound
<1>7. ASSUME Write(i) PROVE HolderFound'
  <2>1. pc[i] = "write" /\ file' = pid[i] /\ pid[i] \in Pids
    BY <1>1, <1>7 DEF Write, Goto, PidKnown, Alive
  <2>2. \A h \in Instances : pc'[h] = "running" => h = i
    BY <1>1, <2>1 DEF HolderFound, Acquiring
  <2>3. \A j \in Instances : pc'[j] \notin Acquiring
    BY <1>1, <1>7 DEF Write, Goto, OneAcquirer, Acquiring
  <2> QED BY <1>1, <2>1, <2>2, <2>3 DEF HolderFound, Acquiring
<1> QED BY <1>2, <1>3, <1>4, <1>5, <1>6, <1>7 DEF Acquire

\* releaseLock removes the file of the one bot that runs, and so its own.
LEMMA EndKeeps ==
    ASSUME LockInv, NEW i \in Instances, Return(i) \/ Exit(i)
    PROVE  OneAcquirer' /\ PidsDiffer' /\ PidKnown' /\ HolderFound'
<1> USE DEF LockInv, LockTypeOK
<1>1. pc' = [pc EXCEPT ![i] = "ended"] /\ UNCHANGED <<pid, found, foreign>>
  BY DEF Return, Exit, Goto
<1>2. OneAcquirer' /\ PidsDiffer' /\ PidKnown'
  BY <1>1 DEF OneAcquirer, PidsDiffer, PidKnown, Alive, Acquiring
<1>3. CASE Return(i)
  <2>1. \A h \in Instances : pc'[h] # "running"
    BY <1>1, <1>3 DEF Return, Goto, HolderFound, PidsDiffer, Alive
  <2> QED BY <1>2, <2>1 DEF HolderFound
<1>4. CASE Exit(i)
  BY <1>1, <1>2, <1>4 DEF Exit, HolderFound, Acquiring
<1> QED BY <1>2, <1>3, <1>4

LEMMA LockInvStep == ~Together /\ LockInv /\ [LockNext]_lockVars => LockInv'
<1> SUFFICES ASSUME ~Together, LockInv, [LockNext]_lockVars PROVE LockInv'
  OBVIOUS
<1>1. LockTypeOK'
  BY LockTypeStep DEF LockInv
<1>2. CASE ForeignStarts \/ ForeignEnds \/ UNCHANGED lockVars
  BY <1>1, <1>2 DEF LockInv, OneAcquirer, PidsDiffer, PidKnown, HolderFound, Alive,
                    ForeignStarts, ForeignEnds, lockVars
<1>3. CASE \E i \in Instances : Start(i) \/ Acquire(i) \/ Return(i) \/ Exit(i)
  BY <1>1, <1>3, StartKeeps, AcquireKeeps, EndKeeps DEF LockInv
<1> QED BY <1>2, <1>3 DEF LockNext

\* The running bot is the one whose id the file holds, and ids differ.
LEMMA LockImpliesOne == LockInv => OneInstance
<1> SUFFICES ASSUME LockInv PROVE OneInstance
  OBVIOUS
<1>1. \A i, j \in Running : i = j
  BY DEF Running, LockInv, HolderFound, PidsDiffer, Alive
<1>2. Cardinality(Running) <= 1
  <2>1. CASE Running = {}
    BY <2>1, FS_EmptySet
  <2>2. CASE Running # {}
    <3>1. PICK i \in Running : Running = {i}
      BY <1>1, <2>2
    <3>2. Cardinality({i}) = 1
      BY FS_Singleton
    <3> QED BY <3>1, <3>2
  <2> QED BY <2>1, <2>2
<1> QED BY <1>2 DEF OneInstance, Running, LockInv, HolderFound

\* If starts do not overlap, the lock file keeps a second bot out and names the first one
\* (main.go:22-50), however bots end, whatever they leave behind and whoever reuses an id.
THEOREM LockExcludes ==
    ASSUME ~Together
    PROVE  LockSpec => []OneInstance
<1>1. LockInit => LockInv
  BY LockInvInit
<1>2. LockInv /\ [LockNext]_lockVars => LockInv'
  BY LockInvStep
<1>3. LockInv => OneInstance
  BY LockImpliesOne
<1> QED BY <1>1, <1>2, <1>3, PTL DEF LockSpec

-----------------------------------------------------------------------------
(* The circuit breaker *)

HIDE LockConstantsOK DEF LockConstantsOK, None, Empty
USE BreakerConstantsOK DEF BreakerConstantsOK

LEMMA BreakerTypeInit == BreakerInit => BreakerTypeOK
BY DEF BreakerInit, BreakerTypeOK, Ages, Operations

LEMMA BreakerTypeTime == BreakerTypeOK /\ TimePasses => BreakerTypeOK'
BY DEF BreakerTypeOK, TimePasses, Time, UpTo, Ages

LEMMA BreakerTypeWorker ==
    ASSUME BreakerTypeOK, NEW w \in Workers, Step(w)
    PROVE  BreakerTypeOK'
<1> USE DEF BreakerTypeOK, Step, Moves, Ages
<1>1. CASE Allow(w)
  BY <1>1 DEF Allow, LoadState, LoadLastFailure, Compare, SwapHalf, ZeroSuccess, Operations
<1>2. CASE Succeed(w) \/ Fail(w) \/ ColdTick(w)
  BY <1>2 DEF Succeed, Fail, ColdTick, UpTo, Operations
<1>3. CASE RecordSuccess(w)
  BY <1>3 DEF RecordSuccess, ZeroFailures, LoadStateAfterSuccess, AddSuccess, StoreClosed, UpTo, Operations
<1>4. CASE RecordFailure(w)
  BY <1>4 DEF RecordFailure, StoreFailure, AddFailure, SwapOpen, UpTo, Operations
<1> QED BY <1>1, <1>2, <1>3, <1>4 DEF WorkerStep

LEMMA BreakerTypeStep == BreakerTypeOK /\ [BreakerNext]_breakerVars => BreakerTypeOK'
<1>1. BreakerTypeOK /\ UNCHANGED breakerVars => BreakerTypeOK'
  BY DEF BreakerTypeOK, breakerVars
<1> QED BY <1>1, BreakerTypeTime, BreakerTypeWorker DEF BreakerNext

\* The state is one of the three constants and every counter keeps its type,
\* whatever the order of the workers' atomic operations.
THEOREM BreakerTypeCorrect == BreakerSpec => []BreakerTypeOK
BY BreakerTypeInit, BreakerTypeStep, PTL DEF BreakerSpec

-----------------------------------------------------------------------------
(* A sole user *)

\* Worker w has the breaker to itself.
Sole(w) == active = {w} /\ w \notin Cold

\* Between finding the circuit open and its CompareAndSwap, w finds it as it was,
\* and its time stamp is that of the last failure.
WhileOpen(w) ==
    /\ op[w] \in {"loadFailure", "compare", "swapHalf"} => state = "open"
    /\ op[w] \in {"compare", "swapHalf"} => loaded[w] = age
    /\ op[w] = "swapHalf" => age >= ResetTimeout

\* From half-open on, as many requests have succeeded as are counted, one more
\* being reported; a time-out that starts the count anew comes first.
WhileHalf(w) ==
    /\ op[w] \in {"zeroSuccess", "addSuccess", "storeClosed"} => state = "half"
    /\ state = "half" /\ op[w] # "zeroSuccess" =>
          IF op[w] \in {"zeroFailures", "loadState", "addSuccess"}
          THEN UpTo(Probes, successCount + 1) <= probed
          ELSE successCount <= probed
    /\ op[w] = "storeClosed" => successCount >= Probes

\* A report of success has zeroed the failures before it may close the circuit.
Halted(w) ==
    /\ op[w] \in {"loadState", "addSuccess", "storeClosed"} => failureCount = 0
    /\ failureCount >= Threshold /\ op[w] # "swapOpen" => state # "closed"

SoleInv(w) == Sole(w) => WhileOpen(w) /\ WhileHalf(w) /\ Halted(w)

LEMMA SoleInit == ASSUME NEW w \in Workers PROVE BreakerInit => SoleInv(w)
BY DEF BreakerInit, SoleInv, WhileOpen, WhileHalf, Halted

LEMMA SoleTime ==
    ASSUME NEW w \in Workers, BreakerTypeOK, SoleInv(w), TimePasses
    PROVE  SoleInv(w)'
<1>1. /\ age' = UpTo(ResetTimeout, age + 1) /\ loaded'[w] = UpTo(ResetTimeout, loaded[w] + 1)
      /\ UNCHANGED <<active, state, failureCount, successCount, op, probed>>
  BY DEF TimePasses, Time
<1>2. age \in 0..ResetTimeout /\ loaded[w] \in 0..ResetTimeout
  BY DEF BreakerTypeOK, Ages
<1>3. Sole(w) /\ WhileOpen(w) => WhileOpen(w)'
  BY <1>1, <1>2 DEF WhileOpen, UpTo
<1> QED BY <1>1, <1>3 DEF SoleInv, Sole, WhileHalf, Halted, UpTo

\* One step of the sole user; the others take none.
LEMMA SoleWorker ==
    ASSUME NEW w \in Workers, BreakerTypeOK, Sole(w), SoleInv(w), WorkerStep(w), UNCHANGED active
    PROVE  SoleInv(w)'
<1> USE DEF BreakerTypeOK, Moves, Ages, WhileOpen, WhileHalf, Halted
<1>1. WhileOpen(w) /\ WhileHalf(w) /\ Halted(w)
  BY DEF SoleInv
<1>2. CASE LoadState(w) \/ LoadLastFailure(w) \/ Compare(w)
  BY <1>1, <1>2 DEF SoleInv, LoadState, LoadLastFailure, Compare, Elapsed, UpTo
<1>3. CASE SwapHalf(w) \/ ZeroSuccess(w)
  BY <1>1, <1>3 DEF SoleInv, SwapHalf, ZeroSuccess, UpTo
<1>4. CASE Succeed(w) \/ Fail(w)
  BY <1>1, <1>4 DEF SoleInv, Succeed, Fail, UpTo
<1>5. CASE ZeroFailures(w) \/ LoadStateAfterSuccess(w)
  BY <1>1, <1>5 DEF SoleInv, ZeroFailures, LoadStateAfterSuccess, UpTo
<1>6. CASE AddSuccess(w) \/ StoreClosed(w)
  BY <1>1, <1>6 DEF SoleInv, AddSuccess, StoreClosed, UpTo
<1>7. CASE RecordFailure(w)
  BY <1>1, <1>7 DEF SoleInv, RecordFailure, StoreFailure, AddFailure, SwapOpen, Trips, UpTo
<1>8. ~ColdTick(w)
  BY DEF Sole, ColdTick
<1> QED BY <1>2, <1>3, <1>4, <1>5, <1>6, <1>7, <1>8 DEF WorkerStep, Allow, RecordSuccess

LEMMA SoleStep ==
    ASSUME NEW w \in Workers
    PROVE  BreakerTypeOK /\ SoleInv(w) /\ [BreakerNext]_breakerVars => SoleInv(w)'
<1> SUFFICES ASSUME BreakerTypeOK, SoleInv(w), [BreakerNext]_breakerVars PROVE SoleInv(w)'
  OBVIOUS
<1>1. CASE TimePasses
  BY <1>1, SoleTime
<1>2. CASE UNCHANGED breakerVars
  BY <1>2 DEF breakerVars, SoleInv, Sole, WhileOpen, WhileHalf, Halted, UpTo
<1>3. ASSUME NEW v \in Workers, Step(v) PROVE SoleInv(w)'
  <2>1. CASE Sole(w)
    BY <1>3, <2>1, SoleWorker DEF Step, Sole
  <2>2. CASE ~Sole(w)
    BY <1>3, <2>2 DEF Step, Sole, SoleInv
  <2> QED BY <2>1, <2>2
<1> QED BY <1>1, <1>2, <1>3 DEF BreakerNext

AllSoleInv == BreakerTypeOK /\ \A w \in Workers : SoleInv(w)

LEMMA SoleAlways == BreakerSpec => []AllSoleInv
<1>1. BreakerInit => AllSoleInv
  BY BreakerTypeInit, SoleInit DEF AllSoleInv
<1>2. AllSoleInv /\ [BreakerNext]_breakerVars => AllSoleInv'
  BY BreakerTypeStep, SoleStep DEF AllSoleInv
<1> QED BY <1>1, <1>2, PTL DEF BreakerSpec

\* Cardinality 1 means that there is one.
LEMMA SoleIsOne ==
    ASSUME BreakerTypeOK, SoleUser
    PROVE  \E w \in Workers : Sole(w)
<1>1. IsFiniteSet(active)
  BY FS_Subset DEF BreakerTypeOK
<1>2. PICK w : active = {w}
  BY <1>1, FS_Singleton DEF SoleUser
<1> QED BY <1>2 DEF Sole, SoleUser, BreakerTypeOK

\* For a sole user the circuit is not closed once the failures in a row have reached
\* the threshold (monitor.go:102-112), whatever the breaker has gone through before.
THEOREM HaltsForOne == BreakerSpec => []HaltsAfterThreshold
<1>1. AllSoleInv => HaltsAfterThreshold
  BY SoleIsOne DEF AllSoleInv, SoleInv, Sole, Halted, HaltsAfterThreshold
<1> QED BY <1>1, SoleAlways, PTL

\* For a sole user the circuit leaves open after the reset timeout at the earliest, and
\* half-open for closed after the successes of as many requests (monitor.go:67-100).
THEOREM ReopensForOne == BreakerSpec => ReopensInSteps
<1> DEFINE Steps ==
      SoleUser => /\ state = "open" /\ state' # "open" => age >= ResetTimeout
                  /\ state = "half" /\ state' = "closed" => probed >= Probes
<1>1. ASSUME AllSoleInv, BreakerNext PROVE Steps
  <2> SUFFICES ASSUME SoleUser, state' # state
               PROVE  /\ state = "open" /\ state' # "open" => age >= ResetTimeout
                      /\ state = "half" /\ state' = "closed" => probed >= Probes
    OBVIOUS
  <2>1. PICK w \in Workers : Sole(w)
    BY <1>1, SoleIsOne DEF AllSoleInv
  <2>2. WhileOpen(w) /\ WhileHalf(w) /\ BreakerTypeOK
    BY <1>1, <2>1 DEF AllSoleInv, SoleInv
  <2>3. Step(w)
    BY <1>1, <2>1 DEF BreakerNext, TimePasses, Time, Step, Sole
  <2>4. SwapHalf(w) \/ StoreClosed(w) \/ SwapOpen(w)
    BY <2>3 DEF Step, WorkerStep, Allow, RecordSuccess, RecordFailure, LoadState,
       LoadLastFailure, Compare, ZeroSuccess, Succeed, Fail, ColdTick, ZeroFailures,
       LoadStateAfterSuccess, AddSuccess, StoreFailure, AddFailure
  <2>5. CASE SwapHalf(w)
    BY <2>2, <2>5 DEF SwapHalf, Moves, WhileOpen
  <2>6. CASE StoreClosed(w)
    BY <2>2, <2>6 DEF StoreClosed, Moves, WhileHalf, BreakerTypeOK
  <2>7. CASE SwapOpen(w)
    BY <2>7 DEF SwapOpen
  <2> QED BY <2>4, <2>5, <2>6, <2>7
<1>2. AllSoleInv /\ [BreakerNext]_breakerVars => [Steps]_breakerVars
  BY <1>1
<1> QED BY <1>2, SoleAlways, PTL DEF BreakerSpec, ReopensInSteps
============================================================================
