-------------------------- MODULE DailyChainProofs --------------------------
(* What the daily chain guarantees over any number of days when it runs by *)
(* itself: only ingest_monitor commits to bronze and nobody re-runs a stage*)
(* by hand.                                                                *)
EXTENDS DailyChain, TLAPS

-----------------------------------------------------------------------------

Calm == OneToken /\ EventsPaired /\ TokenIsToday /\ SameDay

(* The initial state satisfies the inductive invariant.                    *)
LEMMA InitIInv == Init => IInv
<1> SUFFICES ASSUME Init PROVE IInv
    OBVIOUS
<1> USE DEF Init, Stages
<1>1. TypeOK
    BY DEF TypeOK
<1>2. QueuesOK /\ PastGate
    BY DEF QueuesOK, PastGate
<1>3. OneToken /\ EventsPaired /\ TokenIsToday
    BY DEF OneToken, EventsPaired, TokenIsToday, Token, Met, Needs
<1>4. SameDay
    BY DEF SameDay
<1> QED
    BY <1>1, <1>2, <1>3, <1>4 DEF IInv

(* A new day leaves the stages alone and notes what it began with.         *)
LEMMA NewDayTypeOK == TypeOK /\ NewDay => TypeOK'
<1> SUFFICES ASSUME TypeOK, NewDay PROVE TypeOK'
    OBVIOUS
<1>1. day \in Nat /\ overnight \subseteq 1..day /\ day' = day + 1
    BY DEF TypeOK, NewDay
<1>2. overnight' \subseteq 1..day'
    <2>1. overnight' \subseteq overnight \cup {day'}
        BY DEF NewDay
    <2>2. \A d \in 1..day : d \in 1..day'
        BY <1>1
    <2>3. day' \in 1..day'
        BY <1>1
    <2> QED
        BY <1>1, <2>1, <2>2, <2>3
<1>3. day' \in Nat /\ due' \in BOOLEAN
    BY <1>1 DEF NewDay
<1>4. bronze' \in Nat /\ fresh' \in BOOLEAN
    BY <1>3 DEF NewDay, TypeOK
<1>5. UNCHANGED <<phase, queued, began, built, paired>>
    BY DEF NewDay
<1> QED
    BY <1>2, <1>3, <1>4, <1>5 DEF TypeOK

(* Every step preserves the type invariant.                                *)
LEMMA NextTypeOK == TypeOK /\ [Next]_vars => TypeOK'
<1> SUFFICES ASSUME TypeOK, [Next]_vars PROVE TypeOK'
    OBVIOUS
<1> USE DEF TypeOK
<1>1. CASE NewDay
    BY <1>1, NewDayTypeOK
<1>2. CASE Hourly
    BY <1>2 DEF Hourly, CommitBronze, Age
<1>3. CASE StartMarket
    BY <1>3 DEF StartMarket
<1>4. CASE OpenGate
    BY <1>4 DEF OpenGate
<1>5. ASSUME NEW s \in Stages, Start(s) PROVE TypeOK'
    BY <1>5 DEF Start, Reads, Stages
<1>6. ASSUME NEW s \in Stages, Finish(s) PROVE TypeOK'
    BY <1>6 DEF Finish
<1>7. ASSUME NEW s \in Stages, Fail(s) PROVE TypeOK'
    BY <1>7 DEF Fail, MaybeBuilt
<1>8. ASSUME NEW s \in Stages, Jam(s) PROVE TypeOK'
    BY <1>8 DEF Jam, MaybeBuilt
<1>9. ASSUME NEW s \in Stages, Timeout(s) PROVE TypeOK'
    BY <1>9 DEF Timeout
<1>10. CASE UNCHANGED vars
    BY <1>10 DEF vars
<1> QED
    BY <1>1, <1>2, <1>3, <1>4, <1>5, <1>6, <1>7, <1>8, <1>9, <1>10
    DEF Next, Stage

(* What a step of one stage leaves alone in the others, and what it does to*)
(* its own: a start, or an end with or without its event.                  *)
Starts(s) ==
    /\ Triggered(s) /\ phase'[s] = "running" /\ queued'[s] = {}
    /\ began'[s] = day
    /\ \A c \in Stages \ {s} : queued'[c] = queued[c] /\ began'[c] = began[c]
    /\ UNCHANGED <<day, bronze, fresh, due, built, overnight>>

Ends(s) ==
    /\ ~ Idle(s)
    /\ phase'[s] \in {"idle", "jammed"}
    /\ built'[s] = built[s] \/ (phase[s] = "running" /\ built'[s] = began[s])
    /\ \A c \in Stages \ {s} : built'[c] = built[c]
    /\ UNCHANGED <<day, bronze, fresh, due, began, paired, overnight>>

Emits(s) ==
    /\ phase[s] = "running" /\ built'[s] = began[s]
    /\ \A c \in Stages : queued'[c] = IF s \in Needs(c) THEN queued[c] \cup {s}
                                                       ELSE queued[c]

Others(s) == \A c \in Stages \ {s} : phase'[c] = phase[c]

LEMMA StageStep ==
    ASSUME TypeOK, NEW s \in Stages
    PROVE  /\ Start(s) => Starts(s) /\ Others(s)
           /\ Finish(s) => Ends(s) /\ Emits(s) /\ Others(s)
           /\ Fail(s) \/ Jam(s) \/ Timeout(s) =>
                 Ends(s) /\ queued' = queued /\ Others(s)
<1> USE DEF TypeOK
<1>1. ASSUME Start(s) PROVE Starts(s) /\ Others(s)
    BY <1>1 DEF Start, Reads, Starts, Others
<1>2. ASSUME Finish(s) PROVE Ends(s) /\ Emits(s) /\ Others(s)
    BY <1>2 DEF Finish, Ends, Emits, Others, Idle
<1>3. ASSUME Fail(s) \/ Jam(s) \/ Timeout(s)
      PROVE  Ends(s) /\ queued' = queued /\ Others(s)
    <2>1. ~ Idle(s) /\ queued' = queued
        BY <1>3 DEF Fail, Jam, Timeout, Idle
    <2>2. /\ phase' = [phase EXCEPT ![s] = "idle"]
             \/ phase' = [phase EXCEPT ![s] = "jammed"]
          /\ UNCHANGED <<day, bronze, fresh, due, began, paired, overnight>>
        BY <1>3 DEF Fail, Jam, Timeout
    <2>3. \/ built' = built
          \/ phase[s] = "running" /\ built' = [built EXCEPT ![s] = began[s]]
        BY <1>3 DEF Fail, Jam, Timeout, MaybeBuilt
    <2>4. /\ \A c \in Stages \ {s} : built'[c] = built[c]
          /\ built'[s] = built[s] \/ (phase[s] = "running" /\ built'[s] = began[s])
        BY <2>3
    <2>5. Others(s) /\ phase'[s] \in {"idle", "jammed"}
        BY <2>2 DEF Others
    <2> QED
        BY <2>1, <2>2, <2>4, <2>5 DEF Ends
<1> QED
    BY <1>1, <1>2, <1>3

-----------------------------------------------------------------------------

(* Events come from the stages a consumer needs.                           *)
LEMMA NextQueuesOK == IInv /\ [Next]_vars => QueuesOK'
<1> SUFFICES ASSUME IInv, [Next]_vars PROVE QueuesOK'
    OBVIOUS
<1>0. TypeOK /\ QueuesOK
    BY DEF IInv
<1>1. CASE queued' = queued
    BY <1>0, <1>1 DEF QueuesOK
<1>2. ASSUME NEW s \in Stages, Start(s) PROVE QueuesOK'
    BY <1>0, <1>2, StageStep DEF Starts, QueuesOK
<1>3. ASSUME NEW s \in Stages, Finish(s) PROVE QueuesOK'
  <2>1. Emits(s)
      BY <1>0, <1>3, StageStep
  <2>2. ASSUME NEW c \in Stages PROVE queued'[c] \subseteq Needs(c)
    <3>1. queued[c] \subseteq Needs(c)
        BY <1>0 DEF QueuesOK
    <3>2. CASE s \in Needs(c)
        BY <2>1, <3>1, <3>2 DEF Emits
    <3>3. CASE s \notin Needs(c)
        BY <2>1, <3>1, <3>3 DEF Emits
    <3> QED
        BY <3>2, <3>3
  <2> QED
      BY <2>2 DEF QueuesOK
<1>4. ASSUME NEW s \in Stages, Fail(s) \/ Jam(s) \/ Timeout(s) PROVE queued' = queued
    BY <1>4 DEF Fail, Jam, Timeout
<1>5. CASE NewDay \/ Hourly \/ StartMarket \/ OpenGate \/ UNCHANGED vars
    BY <1>1, <1>5 DEF NewDay, Hourly, CommitBronze, Age, StartMarket, OpenGate, vars
<1> QED
    BY <1>1, <1>2, <1>3, <1>4, <1>5 DEF Next, Stage

(* Past the gate bronze is today's, on a day that began with the chain at  *)
(* rest: who goes on or waits was started by one that had passed the gate. *)
LEMMA NextPastGate == IInv /\ [Next]_vars => PastGate'
<1> SUFFICES ASSUME IInv, [Next]_vars PROVE PastGate'
    OBVIOUS
<1>0. TypeOK /\ TypeOK' /\ PastGate
    BY NextTypeOK DEF IInv
<1>1. CASE NewDay
  <2>1. UNCHANGED <<phase, queued, began, built>>
      BY <1>1 DEF NewDay
  <2>2. \A s \in Stages : began[s] <= day /\ built[s] <= day
      BY <1>0 DEF PastGate
  <2>3. \A s \in Stages : /\ began'[s] <= day' /\ built'[s] <= day'
                          /\ began'[s] # day' /\ built'[s] # day'
      BY <1>0, <1>1, <2>1, <2>2 DEF NewDay, TypeOK
  <2>4. fresh' => bronze' = day'
      BY <1>1 DEF NewDay
  <2>5. day' \notin overnight' => ~ AtWork
      BY <1>1 DEF NewDay
  <2>6. ~ AtWork => \A s \in Stages : ~ Met(s)' /\ (phase'[s] = "running" => s = "enrich")
      BY <2>1 DEF AtWork, Met
  <2> QED
      BY <2>3, <2>4, <2>5, <2>6 DEF PastGate
<1>2. CASE Hourly
  <2>1. UNCHANGED <<day, phase, queued, began, built, overnight>>
      BY <1>2 DEF Hourly, CommitBronze, Age
  <2>2. \A s \in Stages : Met(s)' <=> Met(s)
      BY <2>1 DEF Met
  <2>3. bronze' = day \/ (bronze' = bronze /\ fresh' = FALSE)
      BY <1>2 DEF Hourly, CommitBronze, Age
  <2> QED
      BY <1>0, <2>1, <2>2, <2>3 DEF PastGate
<1>3. CASE StartMarket \/ OpenGate
  <2>1. \A s \in Stages : Met(s)' <=> Met(s)
      BY <1>3 DEF StartMarket, OpenGate, Met
  <2>2. CASE StartMarket
      BY <1>0, <2>1, <2>2 DEF StartMarket, PastGate, TypeOK
  <2>3. CASE OpenGate
    <3>1. bronze' = day' /\ day' = day /\ built' = built
        BY <1>0, <2>3 DEF OpenGate, PastGate
    <3>2. \A s \in Stages : began'[s] <= day'
        BY <1>0, <2>3 DEF OpenGate, PastGate, TypeOK
    <3> QED
        BY <1>0, <3>1, <3>2 DEF PastGate
  <2> QED
      BY <1>3, <2>2, <2>3
<1>4. ASSUME NEW s \in Stages, Start(s) PROVE PastGate'
  <2>1. Starts(s) /\ Others(s) /\ Met(s)
      BY <1>0, <1>4, StageStep DEF Start, Triggered
  <2>2. \A c \in Stages : began'[c] <= day' /\ built'[c] <= day'
      BY <1>0, <2>1 DEF Starts, PastGate, TypeOK
  <2>3. day' \notin overnight' => bronze' = day'
      BY <1>0, <2>1 DEF Starts, PastGate
  <2> QED
      BY <1>0, <2>1, <2>2, <2>3 DEF Starts, PastGate
<1>5. ASSUME NEW s \in Stages, Ends(s), Others(s),
             queued' = queued \/ Emits(s)
      PROVE  PastGate'
  <2>1. \A c \in Stages : began'[c] <= day' /\ built'[c] <= day'
      BY <1>0, <1>5 DEF Ends, PastGate
  <2>2. ASSUME day \notin overnight, bronze # day, NEW c \in Stages
        PROVE  /\ ~ Met(c)'
               /\ phase'[c] = "running" => c = "enrich"
               /\ day \notin {began'[c], built'[c]}
    <3>1. /\ ~ Met(c)
          /\ phase'[c] = "running" => c = "enrich"
          /\ day \notin {began'[c], built'[c]}
        BY <1>0, <1>5, <2>2 DEF PastGate, Ends, Others
    <3>2. Emits(s) => queued'[c] = queued[c]
      <4>1. Emits(s) => s = "enrich"
          BY <1>0, <2>2 DEF PastGate, Emits
      <4>2. "enrich" \notin Needs(c)
          BY DEF Needs, Stages
      <4> QED
          BY <4>1, <4>2 DEF Emits
    <3>3. queued'[c] = queued[c]
        BY <1>5, <3>2
    <3> QED
        BY <3>1, <3>3 DEF Met
  <2>3. /\ UNCHANGED <<day, bronze, fresh, overnight>>
      BY <1>5 DEF Ends
  <2> QED
      BY <1>0, <2>1, <2>2, <2>3 DEF PastGate
<1>6. ASSUME NEW s \in Stages, Finish(s) \/ Fail(s) \/ Jam(s) \/ Timeout(s)
      PROVE  PastGate'
    BY <1>0, <1>5, <1>6, StageStep
<1>7. CASE UNCHANGED vars
  <2>1. \A s \in Stages : Met(s)' <=> Met(s)
      BY <1>7 DEF vars, Met
  <2> QED
      BY <1>0, <1>7, <2>1 DEF vars, PastGate
<1> QED
    BY <1>1, <1>2, <1>3, <1>4, <1>6, <1>7 DEF Next, Stage

(* One token travels down a chain that is at rest when a day begins, with  *)
(* the events that enrich needs beside it.                                 *)
LEMMA NextCalm == IInv /\ [Next]_vars /\ overnight' = {} => Calm'
<1> SUFFICES ASSUME IInv, [Next]_vars, overnight' = {} PROVE Calm'
    OBVIOUS
<1>a. TypeOK /\ QueuesOK
    BY DEF IInv
<1>b. overnight = {}
  <2>1. CASE NewDay
      BY <2>1 DEF NewDay
  <2>2. ASSUME NEW s \in Stages, Stage(s) \/ Fail(s) \/ Jam(s) PROVE overnight' = overnight
      BY <2>2 DEF Stage, Start, Finish, Timeout, Fail, Jam
  <2>3. CASE Hourly \/ StartMarket \/ OpenGate \/ UNCHANGED vars
      BY <2>3 DEF Hourly, CommitBronze, Age, StartMarket, OpenGate, vars
  <2> QED
      BY <2>1, <2>2, <2>3 DEF Next
<1>c. OneToken /\ EventsPaired /\ TokenIsToday /\ SameDay
    BY <1>b DEF IInv
<1> USE DEF Stages
<1>1. CASE NewDay
  <2>1. ~ AtWork
      BY <1>1 DEF NewDay
  <2>2. UNCHANGED <<phase, queued, began, built, paired>>
      BY <1>1 DEF NewDay
  <2>3. \A s \in Stages : ~ Met(s)' /\ (phase'[s] \in {"gate", "running"} => s = "enrich")
      BY <2>1, <2>2 DEF AtWork, Met
  <2>4. \A s \in Stages : Token(s)' => s = "market"
      BY <2>3 DEF Token
  <2>5. OneToken' /\ TokenIsToday'
      BY <2>3, <2>4 DEF OneToken, TokenIsToday
  <2>6. EventsPaired' /\ SameDay'
      BY <1>b, <1>c, <2>2, <2>4 DEF EventsPaired, SameDay
  <2> QED
      BY <2>5, <2>6 DEF Calm
<1>2. CASE Hourly \/ StartMarket \/ OpenGate \/ UNCHANGED vars
  <2>1. /\ UNCHANGED <<day, queued, built, paired>>
        /\ \A s \in Stages \ {"market"} : phase'[s] = phase[s] /\ began'[s] = began[s]
      BY <1>a, <1>2 DEF Hourly, CommitBronze, Age, StartMarket, OpenGate, vars, TypeOK
  <2>2. queued["market"] = {}
      BY <1>a DEF QueuesOK, Needs
  <2>3. /\ phase'["market"] \in {"gate", "running"} => ~ due'
        /\ phase'["market"] = "running" => began'["market"] = day
        /\ phase'["market"] \in {"gate", "running"} \/ due'
              => phase["market"] \in {"gate", "running"} \/ due
      BY <1>a, <1>c, <1>2 DEF Hourly, CommitBronze, Age, StartMarket, OpenGate, vars,
                              TypeOK, OneToken, TokenIsToday
  <2>4. \A s \in Stages : Met(s)' <=> Met(s)
      BY <2>1 DEF Met
  <2>5. \A s \in Stages : Token(s)' => Token(s)
      BY <2>1, <2>3, <2>4 DEF Token
  <2>6. OneToken'
      BY <1>c, <2>1, <2>2, <2>3, <2>5 DEF OneToken
  <2>7. EventsPaired' /\ TokenIsToday'
      BY <1>c, <2>1, <2>3, <2>5 DEF EventsPaired, TokenIsToday
  <2>8. SameDay'
      BY <1>b, <1>c, <2>1 DEF SameDay
  <2> QED
      BY <2>6, <2>7, <2>8 DEF Calm
<1>3. ASSUME NEW s \in Stages, Start(s) PROVE Calm'
  <2>1. Starts(s) /\ Others(s) /\ Met(s)
      BY <1>a, <1>3, StageStep DEF Start, Triggered
  <2>2. s # "market" /\ Token(s) /\ \A c \in Stages \ {s} : ~ Token(c)
      BY <1>c, <2>1 DEF Met, Token, OneToken
  <2>3. \A c \in Stages \ {s} : ~ Token(c)'
      BY <2>1, <2>2 DEF Token, Met, Starts, Others
  <2>4. ~ Token("enrich")'
    <3>1. s = "enrich" => queued'["enrich"] # Needs("enrich")
        BY <2>1 DEF Starts, Needs
    <3> QED
        BY <2>3, <3>1 DEF Token, Met
  <2>5. OneToken' /\ TokenIsToday'
      BY <1>c, <2>1, <2>2, <2>3 DEF OneToken, TokenIsToday, Starts, Others
  <2>6. EventsPaired'
    <3>1. CASE s = "enrich"
        BY <2>1, <2>3, <3>1 DEF EventsPaired, Starts
    <3>2. CASE s # "enrich"
      <4>1. queued'["enrich"] = queued["enrich"] /\ built' = built /\ day' = day
          BY <2>1, <3>2 DEF Starts
      <4>2. Token("cluster")' => Token("cluster")
          BY <2>2, <2>3
      <4> QED
          BY <1>c, <4>1, <4>2 DEF EventsPaired
    <3> QED
        BY <3>1, <3>2
  <2>7. SameDay'
    <3>1. s = "enrich" => built["resolve"] = built["cluster"]
        BY <1>c, <2>1 DEF EventsPaired, Met, Needs
    <3>2. s # "enrich" => paired' = paired
        BY <1>3 DEF Start, Reads
    <3>3. s = "enrich" => paired'.mentions = paired'.clusters
        BY <1>3, <3>1 DEF Start, Reads
    <3> QED
        BY <1>b, <1>c, <3>2, <3>3 DEF SameDay
  <2> QED
      BY <2>5, <2>6, <2>7 DEF Calm
<1>4. ASSUME NEW s \in Stages, Finish(s), s # "enrich" PROVE Calm'
  <2>1. Ends(s) /\ Emits(s) /\ Others(s)
      BY <1>a, <1>4, StageStep
  <2>2. phase[s] = "running" /\ phase'[s] = "idle" /\ Token(s)
      BY <1>a, <1>4 DEF Finish, Token, TypeOK
  <2>3. \A c \in Stages \ {s} : ~ Token(c)
      BY <1>c, <2>2 DEF OneToken
  <2>4. ~ due /\ queued[s] = {} /\ began[s] = day
      BY <1>c, <1>4, <2>2, <2>3 DEF OneToken, TokenIsToday, Token
  <2>5. \A c \in Stages : phase'[c] \in {"gate", "running"} => c = "enrich"
      BY <2>1, <2>2, <2>3 DEF Others, Token
  <2>6. "cluster" \notin queued["enrich"]
    <3>1. "cluster" \in queued["enrich"] => Token("enrich")
        BY <1>a, <1>c DEF EventsPaired, QueuesOK, Needs, Token, Met
    <3> QED
        BY <1>4, <2>3, <3>1
  <2>7. ASSUME NEW c \in Stages, Token(c)'
        PROVE  <<s, c>> \in {<<"market", "macro">>, <<"macro", "resolve">>,
                             <<"resolve", "cluster">>, <<"cluster", "enrich">>}
    <3>1. Met(c)'
        BY <2>1, <2>4, <2>5, <2>7 DEF Token, Ends
    <3>2. c # "market" /\ queued'[c] = Needs(c)
        BY <3>1 DEF Met
    <3>3. s \in Needs(c)
      <4>1. SUFFICES ASSUME s \notin Needs(c) PROVE FALSE
          OBVIOUS
      <4>2. queued[c] = Needs(c)
          BY <2>1, <3>2, <4>1 DEF Emits
      <4>3. c # s
          BY <2>4, <3>2, <4>2 DEF Needs
      <4>4. Token(c)
          BY <3>2, <4>2 DEF Token, Met
      <4> QED
          BY <2>3, <4>3, <4>4
    <3>4. c = "enrich" => s = "cluster"
      <4>1. c = "enrich" => "cluster" \in queued'[c]
          BY <3>2 DEF Needs
      <4> QED
          BY <2>1, <2>6, <3>3, <4>1 DEF Emits
    <3> QED
        BY <3>2, <3>3, <3>4 DEF Needs
  <2>8. OneToken' /\ TokenIsToday'
      BY <2>5, <2>7, <2>1, <2>4 DEF OneToken, TokenIsToday, Ends
  <2>9. EventsPaired'
    <3>1. /\ built'[s] = day /\ day' = day
          /\ \A c \in Stages \ {s} : built'[c] = built[c]
        BY <2>1, <2>4 DEF Ends, Emits
    <3>2. queued'["enrich"] = IF s \in {"resolve", "cluster"}
                                 THEN queued["enrich"] \cup {s} ELSE queued["enrich"]
        BY <2>1 DEF Emits, Needs
    <3>3. Token("cluster")' => "resolve" \in queued'["enrich"] /\ built'["resolve"] = day'
        BY <2>7, <3>1, <3>2
    <3>4. ASSUME "cluster" \in queued'["enrich"]
          PROVE  "resolve" \in queued'["enrich"] /\ built'["resolve"] = built'["cluster"]
      <4>1. s = "cluster"
          BY <2>6, <3>2, <3>4
      <4>2. "resolve" \in queued["enrich"] /\ built["resolve"] = day
          BY <1>c, <2>2, <4>1 DEF EventsPaired
      <4> QED
          BY <3>1, <3>2, <4>1, <4>2
    <3> QED
        BY <3>3, <3>4 DEF EventsPaired
  <2>10. SameDay'
      BY <1>b, <1>c, <2>1 DEF SameDay, Ends
  <2> QED
      BY <2>8, <2>9, <2>10 DEF Calm
<1>5. ASSUME NEW s \in Stages, Ends(s), Others(s), queued' = queued PROVE Calm'
  <2>1. \A c \in Stages : Met(c)' <=> Met(c)
      BY <1>5 DEF Met
  <2>2. phase'[s] \notin {"gate", "running"}
      BY <1>5 DEF Ends
  <2>3. \A c \in Stages : /\ Token(c)' => Token(c)
                          /\ phase'[c] \in {"gate", "running"} => phase'[c] = phase[c]
      BY <1>5, <2>1, <2>2 DEF Token, Others, Ends
  <2>4. OneToken' /\ TokenIsToday'
      BY <1>c, <1>5, <2>3 DEF OneToken, TokenIsToday, Ends
  <2>5. Token("cluster") \/ "cluster" \in queued["enrich"]
           => built'["resolve"] = built["resolve"]
    <3>1. "cluster" \in queued["enrich"] => Token("enrich")
        BY <1>a, <1>c DEF EventsPaired, QueuesOK, Needs, Token, Met
    <3>2. phase["resolve"] = "running" => Token("resolve")
        BY DEF Token
    <3>3. CASE s = "resolve" /\ phase[s] = "running"
        BY <1>c, <3>1, <3>2, <3>3 DEF OneToken
    <3>4. CASE ~ (s = "resolve" /\ phase[s] = "running")
        BY <1>5, <3>4 DEF Ends
    <3> QED
        BY <3>3, <3>4
  <2>6. "cluster" \in queued["enrich"] => built'["cluster"] = built["cluster"]
    <3>1. "cluster" \in queued["enrich"] => Token("enrich")
        BY <1>a, <1>c DEF EventsPaired, QueuesOK, Needs, Token, Met
    <3>2. phase["cluster"] = "running" => Token("cluster")
        BY DEF Token
    <3>3. CASE s = "cluster" /\ phase[s] = "running"
        BY <1>c, <3>1, <3>2, <3>3 DEF OneToken
    <3>4. CASE ~ (s = "cluster" /\ phase[s] = "running")
        BY <1>5, <3>4 DEF Ends
    <3> QED
        BY <3>3, <3>4
  <2>7. EventsPaired'
      BY <1>c, <1>5, <2>3, <2>5, <2>6 DEF EventsPaired, Ends
  <2>8. SameDay'
      BY <1>b, <1>c, <1>5 DEF SameDay, Ends
  <2> QED
      BY <2>4, <2>7, <2>8 DEF Calm
<1>6. ASSUME Finish("enrich") PROVE Calm'
  <2>1. Ends("enrich") /\ Emits("enrich") /\ Others("enrich")
      BY <1>a, <1>6, StageStep
  <2>2. \A c \in Stages : "enrich" \notin Needs(c)
      BY DEF Needs
  <2>3. \A c \in Stages : queued'[c] = queued[c]
      BY <2>1, <2>2 DEF Emits
  <2>4. queued' = queued
      BY <1>a, <1>6, <2>3, NextTypeOK DEF TypeOK
  <2> QED
      BY <1>5, <2>1, <2>4
<1>7. ASSUME NEW s \in Stages, Stage(s) \/ Fail(s) \/ Jam(s) PROVE Calm'
  <2>1. CASE Start(s)
      BY <1>3, <2>1
  <2>2. CASE Finish(s)
      BY <1>4, <1>6, <2>2
  <2>3. CASE Fail(s) \/ Jam(s) \/ Timeout(s)
      BY <1>a, <1>5, <2>3, StageStep
  <2> QED
      BY <1>7, <2>1, <2>2, <2>3 DEF Stage
<1> QED
    BY <1>1, <1>2, <1>7 DEF Next

(* Every step preserves the inductive invariant.                           *)
LEMMA NextIInv == IInv /\ [Next]_vars => IInv'
<1>1. IInv => TypeOK
    BY DEF IInv
<1>2. ASSUME IInv, [Next]_vars PROVE overnight' = {} => Calm'
    BY <1>2, NextCalm
<1> QED
    BY <1>1, <1>2, NextTypeOK, NextQueuesOK, NextPastGate DEF IInv, Calm

-----------------------------------------------------------------------------

(* TypeOK: every variable keeps its type, whatever the constants are.      *)
THEOREM DailyChainTypeCorrect == Spec => []TypeOK
<1>1. Init => TypeOK
    BY InitIInv DEF IInv
<1> QED
    BY <1>1, NextTypeOK, PTL DEF Spec

(* GateHolds: on a day that began with the chain at rest, no stage from    *)
(* market to enrich has read its tables or written one unless bronze has a *)
(* commit of that day - also when earlier days overlapped.                 *)
THEOREM DailyChainGateHolds == Spec => []GateHolds
<1>1. IInv /\ [Next]_vars => IInv'
    BY NextIInv
<1>2. IInv => GateHolds
    BY DEF IInv, PastGate, GateHolds
<1> QED
    BY <1>1, <1>2, InitIInv, PTL DEF Spec

(* SameDay: as long as every day began with the chain at rest, enrich has  *)
(* paired mentions and clusters of one and the same day, whatever stage    *)
(* failed, jammed or left an event behind.                                 *)
THEOREM DailyChainSameDay == Spec => []SameDay
<1>1. IInv /\ [Next]_vars => IInv'
    BY NextIInv
<1>2. IInv => SameDay
    BY DEF IInv, SameDay
<1> QED
    BY <1>1, <1>2, InitIInv, PTL DEF Spec

=============================================================================
