------------------------------- MODULE MCSignals -------------------------------
(* A TLC instance of Signals: the shortest periods for which every series has *)
(* two values within five bars; prices about 100, and one bar traded at 0.    *)
EXTENDS Signals

MCParameters ==
    [ichimoku |-> [tenkan |-> 1, kijun |-> 2, senkou |-> 3],
     rsi_mean_revert |-> [period |-> 2, oversold |-> 30, overbought |-> 70],
     macd_cross |-> [fast |-> 1, slow |-> 3, signal |-> 2],
     bollinger_bands |-> [period |-> 3, mult |-> 1],
     ema_cross |-> [fast |-> 2, slow |-> 3],
     vwap_revert |-> [bars |-> 2],
     momentum |-> [period |-> 2],
     scalp_ob |-> [depth |-> 2],
     trend_follow |-> [period |-> 3, mult |-> 1],
     breakout |-> [lookback |-> 2],
     mean_revert_z |-> [period |-> 3, threshold |-> 1],
     dual_thrust |-> [k1 |-> 7, k2 |-> 7, lookback |-> 2],
     supertrend |-> [period |-> 2, factor |-> 1],
     williams_r |-> [period |-> 2, oversold |-> 80, overbought |-> 20],
     stoch_rsi |-> [period |-> 1, k |-> 2, d |-> 2],
     dmi_adx |-> [period |-> 2, threshold |-> 25],
     parabolic_sar |-> [step |-> 1, max |-> 2, unit |-> 4],
     hull_ma |-> [period |-> 3, half |-> 1, root |-> 2],
     keltner_channel |-> [period |-> 2, halves |-> 1],
     donchian |-> [period |-> 2]]

Bar(o, h, l, c, v) == [open |-> o, high |-> h, low |-> l, close |-> c, volume |-> v]
Balanced == [bids |-> <<<<9998, 1>>, <<9997, 1>>>>, asks |-> <<<<10002, 2>>>>]
Bought   == [bids |-> <<<<9998, 3>>>>, asks |-> <<<<10002, 1>>>>]
Sold     == [bids |-> <<<<9990, 1>>>>, asks |-> <<<<10010, 3>>>>]
NoAsks   == [bids |-> <<<<9998, 1>>>>, asks |-> <<>>]

MCSights ==
    {[candle |-> Bar(100, 101,  99, 100, 1), book |-> Balanced],
     [candle |-> Bar(100, 104, 100, 104, 1), book |-> Bought],
     [candle |-> Bar(100, 100,  95,  96, 2), book |-> Sold],
     [candle |-> Bar(104, 105, 102, 102, 1), book |-> Balanced],
     [candle |-> Bar(100, 100, 100, 100, 0), book |-> NoAsks],
     [candle |-> Bar(  0,   0,   0,   0, 1), book |-> NoAsks]}
=============================================================================
