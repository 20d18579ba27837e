----------------------------- MODULE CandleBuffer -----------------------------
(***************************************************************************)
(* internal/api/candle_buffer.go: the rolling buffer of candles.  Every    *)
(* method holds the lock.  A candle is its open time and its close.        *)
(***************************************************************************)
EXTENDS Naturals, SequencesExt, FiniteSetsExt

CONSTANT MaxLen  \* candles the buffer holds

ASSUME MaxLenOK == MaxLen \in Nat \ {0}

VARIABLE candles  \* oldest first

Candle(time, close) == [time |-> time, close |-> close]

\* The last MaxLen of some candles: Seed keeps no more of those it is given.
Capped(cs) == SubSeq(cs, IF Len(cs) > MaxLen THEN Len(cs) - MaxLen + 1 ELSE 1, Len(cs))

\* A mutant that only looks at the newest candle.
UpsertNewest(cs, c) ==
    IF cs # <<>> /\ Last(cs).time = c.time
    THEN [cs EXCEPT ![Len(cs)] = c]
    ELSE Capped(Append(cs, c))

\* A candle replaces the one of its time, the last if there are several; one that
\* is not there goes to the end.
Upsert(cs, c) ==
    LET found == {i \in DOMAIN cs : cs[i].time = c.time}
    IN  IF found # {} THEN [cs EXCEPT ![Max(found)] = c]
                      ELSE Capped(Append(cs, c))
===============================================================================
