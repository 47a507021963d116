---------------------------- MODULE MCDecisions ----------------------------
(* Two symbols, two kinds of evidence (a rally and a pullback), three        *)
(* sources of which two mirror one upstream, and a campaign small enough for *)
(* the caps of the policy, and not the liquidity cap, to bind.               *)
EXTENDS Decisions, TLC

CONSTANTS codal, mirror, market, a, b

MCSources  == {codal, mirror, market}
MCUpstream == [s \in MCSources |-> IF s = market THEN "exchange" ELSE "codal"]

(* An isotonic fit: half below a raw score of 60, then rising.               *)
MCCurve == [raw \in 0..100 |-> IF raw < 60 THEN 40 ELSE 50 + (raw - 60)]

Rallying ==
  [ret1 |-> 10, ret3 |-> 20, ret5 |-> 30, ret20 |-> 80, ret60 |-> 150, emaScore |-> 100,
   close |-> 1000, ema20 |-> 960, atr |-> 30, toHigh |-> -2, volZ |-> 18, volRatio |-> 22,
   squeeze |-> FALSE, supertrendUp |-> TRUE, power |-> 150, inflow |-> 80, streak |-> 2,
   aboveCloud |-> TRUE, tenkanOver |-> TRUE, adx |-> 35, channel |-> 95, mfi |-> 60,
   obvUp |-> TRUE, rsi |-> 62, macdUp |-> TRUE, leading |-> TRUE,
   last |-> 1000, lo |-> 950, hi |-> 1050, live |-> TRUE, sector |-> TRUE,
   bars |-> 300, valid |-> 300, covered |-> 290, liquidity |-> 80,
   hasSnapshot |-> TRUE, sources |-> MCSources, asOf |-> -100, score |-> 90,
   piotroski |-> 7, growth |-> 10, debt |-> 5, filing |-> "fine"]

Dipping ==
  [Rallying EXCEPT !.ret1 = -5, !.ret3 = -30, !.ret5 = -65, !.ret20 = 60, !.ret60 = 100,
                !.emaScore = 50, !.ema20 = 1020, !.atr = 10, !.toHigh = -70, !.volZ = 5,
                !.volRatio = 9, !.supertrendUp = FALSE, !.power = 132, !.inflow = 20,
                !.channel = 8, !.mfi = 48, !.rsi = 42, !.macdUp = FALSE, !.adx = 20,
                !.leading = FALSE, !.last = 990]

MCProfiles == {Rallying, Dipping}

MCNews ==
  [close |-> {960, 1049}, last |-> {900, 1015, 1040, 1050, 1100}, atr |-> {60}, ema20 |-> {1005},
   power |-> {100}, volZ |-> {30}, ret20 |-> {20}, leading |-> {TRUE, FALSE},
   lo |-> {0, 999}, hi |-> {990, 1001}, live |-> {FALSE}, sector |-> {FALSE},
   bars |-> {259}, valid |-> {150}, covered |-> {60, 300}, liquidity |-> {59},
   hasSnapshot |-> {FALSE}, sources |-> {{}, {codal, mirror}, {codal, market}},
   asOf |-> {-121, -119}, score |-> {59, 60}, piotroski |-> {4}, growth |-> {0},
   debt |-> {-1, 0, 25, 26}, filing |-> {"none", "grave"}]

MCBreadths ==
  LET B(adv, dec, above, turnover, ret) ==
        [fresh |-> 100, advancers |-> adv, decliners |-> dec, above |-> above,
         turnover |-> turnover, ret5 |-> ret, histories |-> 900]
  IN { B(70, 30, 60, 10, 20), B(50, 50, 50, 10, 0), B(30, 70, 30, 10, -20), B(40, 60, 50, 15, 0),
       [B(70, 30, 60, 10, 20) EXCEPT !.fresh = 97] }

MCBooks ==
  LET P(cash, value, count, risk) ==
        [cash |-> cash, value |-> value, count |-> count, risk |-> risk,
         reserved |-> 0, kill |-> FALSE]
  IN { P(200000, 0, 0, 0), P(75000, 125000, 7, 2000), P(12000, 188000, 7, 1500), P(100000, 87000, 6, 1000),
       P(184000, 0, 0, 0), P(100000, 75000, 6, 1000), P(120000, 80000, 10, 4900),
       [P(150000, 50000, 4, 500) EXCEPT !.reserved = 148000],
       [P(90000, 100000, 6, 800) EXCEPT !.reserved = 80000] }
Twins == Permutations({a, b})
=============================================================================
